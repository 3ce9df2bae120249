----------------------------- MODULE CortexCore -----------------------------
(***************************************************************************)
(* The debug registers of one Cortex-M core, as target/cortexm/sim models  *)
(* them: DHCSR and DFSR are sets of the bits that are set, so the masks of *)
(* the Go code become intersections.  A requested halt or resume completes *)
(* at any later moment (or never), which stands for every choice of        *)
(* HaltDelay and ResumeDelay.  Stepping, the register transfer and setting *)
(* C_SNAPSTALL are refused by the simulator and follow the hardware that   *)
(* step.go, register.go and architecture.go are written for (external).    *)
(*                                                                         *)
(* S_RETIRE_ST, C_MASKINTS and the DFSR reasons other than HALTED and      *)
(* EXTERNAL are left out: nothing modelled here produces or depends on     *)
(* them, and the host tests all competing reasons with one mask.           *)
(***************************************************************************)
EXTENDS Naturals

CONSTANT Worlds   \* the profiles and events considered: records [profile, events]

AllEvents == {"ExternalHalt", "ExternalRestart", "WarmReset",
              "GrantSecureDebug", "RevokeSecureDebug", "SnapStall"}

ASSUME WorldsAssumption == Worlds \subseteq [profile : {"M0", "M33"}, events : SUBSET AllEvents]

VARIABLES
  world,          \* the profile, the events that may come, and whether all is calm
  dhcsr,          \* the bits set in DHCSR
  dfsr,           \* the reasons recorded in DFSR
  secureAllowed,  \* the Secure invasive debug permission granted to the core
  unsafeMemory    \* the core has been snap-stalled since power-up

coreVars == <<dhcsr, dfsr, secureAllowed, unsafeMemory>>

Profile == world.profile
Events == world.events

\* Failures, cancellations and events have come to an end.
calm == world.calm

Control == {"C_DEBUGEN", "C_HALT", "C_STEP", "C_SNAPSTALL"}
Sticky == {"S_RESET_ST", "S_RESTART_ST"}
Bits == Control \cup Sticky \cup {"S_HALT", "S_REGRDY", "S_SDE"}
Reasons == {"HALTED", "EXTERNAL"}

Halted == {"C_HALT", "S_HALT"}

\* The inherited states New accepts; Debug state needs its request and, on M33,
\* permission.
CoreInit ==
  /\ world \in {[profile |-> w.profile, events |-> w.events, calm |-> FALSE] : w \in Worlds}
  /\ dhcsr \in {d \in SUBSET (Bits \ ({"C_STEP", "C_SNAPSTALL"} \cup Sticky)) :
        /\ "S_HALT" \in d => {"C_DEBUGEN", "C_HALT"} \subseteq d
        /\ Profile = "M0" => "S_SDE" \notin d
        /\ Profile = "M33" /\ "S_HALT" \in d => "S_SDE" \in d
        /\ "S_HALT" \notin d => "S_REGRDY" \in d}
  /\ dfsr = IF "S_HALT" \in dhcsr THEN {"HALTED"} ELSE {}
  /\ secureAllowed = ("S_SDE" \in dhcsr)
  /\ unsafeMemory = FALSE

CoreTypeOK ==
  /\ world \in [profile : {"M0", "M33"}, events : SUBSET AllEvents, calm : BOOLEAN]
  /\ [profile |-> Profile, events |-> Events] \in Worlds
  /\ dhcsr \subseteq Bits
  /\ dfsr \subseteq Reasons
  /\ secureAllowed \in BOOLEAN
  /\ unsafeMemory \in BOOLEAN

-----------------------------------------------------------------------------
\* What a host access does.

debugAllowed(d) == Profile = "M0" \/ "S_SDE" \in d

\* A read of DHCSR returns dhcsr and clears the sticky status.
Consumed(d) == d \ Sticky

\* The control changes a core refuses without effect.
checkControl(control) ==
  /\ unsafeMemory => "C_HALT" \in control
  /\ "C_DEBUGEN" \notin control => "S_HALT" \notin dhcsr

\* An accepted write of the control bits: C_HALT cannot be newly set without
\* permission, and clearing C_DEBUGEN clears the requests with it.
writeControl(d, control) ==
  IF "C_DEBUGEN" \notin control THEN d \ {"C_DEBUGEN", "C_HALT", "C_STEP"}
  ELSE (d \ Control) \cup
       (IF debugAllowed(d) \/ "C_HALT" \in d THEN control ELSE control \ {"C_HALT"})

\* Selecting a core register starts a transfer.
StartTransfer(d) == d \ {"S_REGRDY"}

-----------------------------------------------------------------------------
\* What happens at the core by itself.

\* The S_SDE a core reports is latched while it is in Debug state.
updatePermission(d, allowed) ==
  IF Profile = "M33" /\ "S_HALT" \notin d
  THEN (d \ {"S_SDE"}) \cup (IF allowed THEN {"S_SDE"} ELSE {})
  ELSE d

\* The core leaves Debug state, which M33 records.
completeResume(d) ==
  updatePermission((d \ {"S_HALT"}) \cup (IF Profile = "M33" THEN {"S_RESTART_ST"} ELSE {}),
                   secureAllowed)

\* The core enters Debug state.
EnterDebug(d) == d \cup {"C_HALT", "S_HALT", "S_REGRDY"}

CompleteHalt ==
  /\ {"C_DEBUGEN", "C_HALT"} \subseteq dhcsr /\ "S_HALT" \notin dhcsr
  /\ debugAllowed(dhcsr)
  /\ dhcsr' = EnterDebug(dhcsr)
  /\ dfsr' = dfsr \cup {"HALTED"}
  /\ UNCHANGED <<secureAllowed, unsafeMemory>>

CompleteResume ==
  /\ {"C_DEBUGEN", "S_HALT"} \subseteq dhcsr /\ "C_HALT" \notin dhcsr
  /\ dhcsr' = completeResume(dhcsr)
  /\ UNCHANGED <<dfsr, secureAllowed, unsafeMemory>>

\* A core running with C_STEP set stops after one instruction.
CompleteStep ==
  /\ {"C_DEBUGEN", "C_STEP"} \subseteq dhcsr /\ Halted \cap dhcsr = {}
  /\ debugAllowed(dhcsr)
  /\ dhcsr' = EnterDebug(dhcsr)
  /\ dfsr' = dfsr \cup {"HALTED"}
  /\ UNCHANGED <<secureAllowed, unsafeMemory>>

CompleteTransfer ==
  /\ "S_REGRDY" \notin dhcsr /\ "S_HALT" \in dhcsr
  /\ dhcsr' = dhcsr \cup {"S_REGRDY"}
  /\ UNCHANGED <<dfsr, secureAllowed, unsafeMemory>>

WarmReset ==
  /\ "WarmReset" \in Events
  /\ dhcsr' = updatePermission((dhcsr \ {"C_HALT", "C_STEP", "S_HALT", "S_RESTART_ST"})
                                 \cup {"S_RESET_ST", "S_REGRDY"}, secureAllowed)
  /\ UNCHANGED <<dfsr, secureAllowed, unsafeMemory>>

ExternalRestart ==
  /\ "ExternalRestart" \in Events
  /\ "S_HALT" \in dhcsr
  /\ dhcsr' = completeResume((dhcsr \ {"C_HALT"}) \cup {"S_REGRDY"})
  /\ UNCHANGED <<dfsr, secureAllowed, unsafeMemory>>

ExternalHalt ==
  /\ "ExternalHalt" \in Events
  /\ debugAllowed(dhcsr) /\ "C_DEBUGEN" \in dhcsr /\ "S_HALT" \notin dhcsr
  /\ dhcsr' = EnterDebug(dhcsr)
  /\ dfsr' = dfsr \cup {"EXTERNAL"}
  /\ UNCHANGED <<secureAllowed, unsafeMemory>>

\* Secure permission is granted or revoked; S_SDE follows unless latched.
SetSecureDebug(allowed) ==
  /\ (IF allowed THEN "GrantSecureDebug" ELSE "RevokeSecureDebug") \in Events
  /\ Profile = "M33"
  /\ secureAllowed # allowed
  /\ secureAllowed' = allowed
  /\ dhcsr' = updatePermission(dhcsr, allowed)
  /\ UNCHANGED <<dfsr, unsafeMemory>>

SnapStall ==
  /\ "SnapStall" \in Events
  /\ Profile = "M33" /\ {"C_DEBUGEN", "S_SDE"} \subseteq dhcsr
  /\ ~unsafeMemory
  /\ unsafeMemory' = TRUE
  /\ dhcsr' = dhcsr \cup {"C_SNAPSTALL"}
  /\ UNCHANGED <<dfsr, secureAllowed>>

=============================================================================
