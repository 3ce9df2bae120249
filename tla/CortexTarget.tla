---------------------------- MODULE CortexTarget ----------------------------
(***************************************************************************)
(* target/cortexm: Target, which owns the halting debug of one Cortex-M0   *)
(* or Cortex-M33 core through borrowed memory.  Calls are serialised, but  *)
(* the core is not: between any two memory accesses of a call it may       *)
(* complete a transition, stop on a debug event, be restarted or reset, or *)
(* lose permission.  Each action is therefore one memory access of a call, *)
(* with the host code up to the next access; pc names the access that is   *)
(* due and op the call it belongs to.                                      *)
(*                                                                         *)
(* The Boolean fields of Target are the members of t.flags; "memory" is    *)
(* there while t.memory is not nil.  A read fails with a context error or  *)
(* another one, and may have consumed the sticky status; a write that      *)
(* fails may have taken effect; a write that succeeds may have been        *)
(* ignored, except for one that requests a halt (the Memory interface      *)
(* includes completion, and a halt that is not retained is read back).     *)
(***************************************************************************)
EXTENDS CortexCore

VARIABLES
  t,        \* Target
  op,       \* the call in progress
  pc,       \* the memory access it makes next
  claim,    \* ghost: whether this target asked for the halt and has not given it up
  quiet,    \* ghost: no event has reached the core since DHCSR was last read
  unsure    \* ghost: a failed halt or resume write has not been resolved since

hostVars == <<t, op, pc>>
ghosts == <<claim, quiet, unsure>>
vars == <<coreVars, hostVars, ghosts, world>>

Flags == {"memory", "closing", "changed", "haltOwned", "haltUncertain",
          "resumeUncertain", "registerPending", "registerLost", "snapStalled"}
Steps == {"idle", "uncertain", "running", "stopped", "restoring", "lost"}
Ops == {"none", "Acquire", "Halt", "Resume", "Halted", "Step",
        "ReadRegister", "WriteRegister", "Release"}
Reads == {"acquire.read", "control.read", "halt.read", "status.read",
          "wait.read", "resume.read", "register.read", "selected.read",
          "settle.read", "finish.read", "restore.read", "disable.read",
          "dfsr.read", "reason.read", "dcrdr.read"}
Writes == {"control.write", "halt.write", "resume.write", "step.write",
           "finish.write", "select.write", "dcrdr.write"}

\* No target: none was acquired yet, or Acquire failed and returned nil.
NoTarget == [flags |-> {}, saved |-> {}, step |-> "idle"]

\* A target Release has finished with: its memory is gone, its other fields
\* stay, and no step is left unsettled.
Released(s) == {"memory", "closing"} \cap s.flags = {"closing"} /\ s.step = "idle"

Init ==
  /\ CoreInit
  /\ t = NoTarget /\ op = "none" /\ pc = "idle"
  /\ claim = "foreign" /\ quiet = FALSE /\ unsure = FALSE

TypeOK ==
  /\ CoreTypeOK
  /\ t \in [flags : SUBSET Flags, saved : SUBSET {"C_DEBUGEN", "C_HALT"}, step : Steps]
  /\ op \in Ops /\ pc \in {"idle"} \cup Reads \cup Writes
  /\ claim \in {"mine", "restarted", "foreign"} /\ quiet \in BOOLEAN /\ unsure \in BOOLEAN
  /\ op = "none" <=> pc = "idle"
  /\ "memory" \in t.flags \/ t = NoTarget \/ Released(t)

-----------------------------------------------------------------------------
\* The fields of Target.

With(s, names) == [s EXCEPT !.flags = @ \cup names]
Without(s, names) == [s EXCEPT !.flags = @ \ names]

M33 == Profile = "M33"

\* Mutant: what is left to restore is forgotten with the claim.
RelinquishAll(s, names) == Without(s, names \cup {"changed"})

\* Give up the named claims; what is left to restore is an enabled debug that
\* was disabled when the target was acquired.
Relinquish(s, names) ==
  LET less == Without(s, names \cup {"changed"})
  IN IF "C_DEBUGEN" \in s.saved THEN less ELSE With(less, {"changed"})

readDHCSR(s, value) ==
  LET seen == IF M33 /\ "C_SNAPSTALL" \in value THEN With(s, {"snapStalled"}) ELSE s
  IN IF M33 /\ {"C_DEBUGEN", "S_RESTART_ST"} \subseteq value
        /\ s.flags \cap {"haltOwned", "resumeUncertain"} # {}
     THEN Relinquish(seen, {"haltOwned", "resumeUncertain"})
     ELSE seen

\* Mutant: a failed read keeps the claim.
ReadFailedKeeps(s) == s

readDHCSRFailed(s) ==
  IF M33 /\ "haltOwned" \in s.flags THEN Relinquish(s, {"haltOwned"}) ELSE s

\* s has already been through readDHCSR, which records snap-stall.
validateArchitectureControl(s, value) ==
  M33 => "snapStalled" \notin s.flags /\ "S_SDE" \in value

observeHaltRequest(s, value) ==
  IF /\ s.flags \cap {"haltOwned", "resumeUncertain"} # {}
     /\ "C_DEBUGEN" \in value /\ "C_HALT" \notin value
  THEN Relinquish(s, {"haltOwned", "resumeUncertain"})
  ELSE s

\* Whether an error leaves ordinary calls available; cause is "context" or "bus".
readError(s, cause) ==
  IF \/ cause = "bus"
     \/ s.flags \cap {"registerPending", "haltUncertain", "resumeUncertain"} # {}
     \/ s.step # "idle"
  THEN With(s, {"closing"})
  ELSE s

\* readControl with the value read: whether it is accepted, and the target then.
ControlAccepted(s, value) ==
  /\ "C_DEBUGEN" \in value /\ "C_STEP" \notin value
  /\ validateArchitectureControl(s, value)

readControl(s, value) ==
  LET seen == readDHCSR(s, value)
  IN IF ControlAccepted(seen, value) THEN observeHaltRequest(seen, value)
     ELSE readError(seen, "bus")

-----------------------------------------------------------------------------
\* How a call goes on: at its next access, back to the caller, or into the
\* stages of Release that are due.

Goto(s, where) == t' = s /\ pc' = where /\ op' = op
Return(s) == t' = s /\ pc' = "idle" /\ op' = "none"
Abandon(s) == Return(With(s, {"closing"}))

\* Release succeeds: the target lets its memory go and keeps its other fields.
Finish(s) == Return(Without(s, {"memory"}))

\* Mutant: Release does not wait for a register transfer.
ReleaseUnsettled(s) ==
  \/ "changed" \notin s.flags /\ s.step = "idle" /\ Finish(s)
  \/ /\ "changed" \in s.flags \/ s.step # "idle"
     /\ t' = s /\ op' = "Release"
     /\ pc' = IF s.step # "idle" THEN "settle.read" ELSE "restore.read"

\* Mutant: Release does not settle a step.
ReleaseStepping(s) ==
  \/ {"registerPending", "changed"} \cap s.flags = {} /\ Finish(s)
  \/ /\ {"registerPending", "changed"} \cap s.flags # {}
     /\ t' = s /\ op' = "Release"
     /\ pc' = IF "registerPending" \in s.flags THEN "register.read" ELSE "restore.read"

\* Release with what is left to do: settle a register transfer, settle a step,
\* restore the control that was changed, and let the memory go.
ReleaseFrom(s) ==
  \/ /\ {"registerPending", "changed"} \cap s.flags = {} /\ s.step = "idle"
     /\ Finish(s)
  \/ /\ {"registerPending", "changed"} \cap s.flags # {} \/ s.step # "idle"
     /\ t' = s /\ op' = "Release"
     /\ pc' = CASE "registerPending" \in s.flags -> "register.read"
                [] "registerPending" \notin s.flags /\ s.step # "idle" -> "settle.read"
                [] OTHER -> "restore.read"

\* On M33 an owned halt is given up once a restart may have ended it: when DHCSR
\* reports one, and when a read that may have consumed the report fails.
GivenUp(restarted) ==
  IF M33 /\ restarted /\ "haltOwned" \in t.flags THEN "foreign" ELSE claim

\* The memory accesses; the ghosts follow DHCSR.
ReadAt(where) ==
  /\ pc = where
  /\ dhcsr' = Consumed(dhcsr)
  /\ quiet' = TRUE
  /\ unsure' = (unsure /\ "C_HALT" \in dhcsr /\ ~(M33 /\ "S_RESTART_ST" \in dhcsr))
  /\ claim' = GivenUp("S_RESTART_ST" \in dhcsr)
  /\ UNCHANGED <<dfsr, secureAllowed, unsafeMemory, world>>

ReadFailsAt(where) ==
  /\ pc = where /\ ~calm
  /\ dhcsr' \in {dhcsr, Consumed(dhcsr)}
  /\ claim' = GivenUp(TRUE)
  /\ UNCHANGED <<dfsr, secureAllowed, unsafeMemory, quiet, unsure, world>>

\* An access that leaves DHCSR alone.
AccessAt(where) ==
  /\ pc = where
  /\ UNCHANGED <<coreVars, ghosts, world>>

FailsAt(where) == ~calm /\ AccessAt(where)

\* DHCSR is written with control; asks says whether this is a request to halt.
WriteAt(where, control, asks) ==
  /\ pc = where /\ checkControl(control)
  /\ \/ dhcsr' = writeControl(dhcsr, control)
     \/ ~asks /\ ~calm /\ dhcsr' = dhcsr
  /\ claim' = IF asks /\ "C_HALT" \in dhcsr' THEN "mine" ELSE claim
  /\ unsure' = (unsure \/ where = "resume.write")
  /\ UNCHANGED <<dfsr, secureAllowed, unsafeMemory, quiet, world>>

WriteFailsAt(where, control, asks) ==
  /\ pc = where
  /\ \/ ~calm /\ checkControl(control) /\ dhcsr' = writeControl(dhcsr, control)
     \/ dhcsr' = dhcsr /\ (~calm \/ ~checkControl(control))
  /\ claim' = IF asks /\ dhcsr' # dhcsr THEN "mine" ELSE claim
  /\ unsure' = (unsure \/ where \in {"halt.write", "resume.write"})
  /\ UNCHANGED <<dfsr, secureAllowed, unsafeMemory, quiet, world>>

-----------------------------------------------------------------------------
\* The calls, up to their first access.

Call(name, where, s) ==
  /\ op = "none"
  /\ op' = name /\ pc' = where /\ t' = s
  /\ UNCHANGED <<coreVars, ghosts, world>>

active == {"memory", "closing"} \cap t.flags = {"memory"}

Acquire == "memory" \notin t.flags /\ ~calm /\ Call("Acquire", "acquire.read", NoTarget)
Halt == active /\ ~calm /\ Call("Halt", "halt.read", t)
HaltedCall == active /\ ~calm /\ Call("Halted", "status.read", t)
Resume ==
  /\ active /\ "haltOwned" \in t.flags /\ ~calm
  /\ Call("Resume", IF M33 THEN "resume.read" ELSE "resume.write", t)
Step == active /\ "haltOwned" \in t.flags /\ ~calm /\ Call("Step", "register.read", t)
ReadRegister == active /\ ~calm /\ Call("ReadRegister", "register.read", t)
WriteRegister == active /\ ~calm /\ Call("WriteRegister", "register.read", t)

Release ==
  /\ op = "none" /\ "memory" \in t.flags
  /\ \/ ReleaseFrom(With(t, {"closing"}))
     \/ ~calm /\ Abandon(t)
  /\ UNCHANGED <<coreVars, ghosts, world>>

-----------------------------------------------------------------------------
\* Acquire and writeControl.

validateControl(value) ==
  "C_DEBUGEN" \in value =>
    "C_STEP" \notin value /\ ("C_HALT" \in value => "S_HALT" \in value)

AcquireRead ==
  \/ /\ ReadAt("acquire.read")
     /\ LET fresh == [NoTarget EXCEPT !.flags = {"memory"}]
            usable == validateControl(dhcsr) /\ validateArchitectureControl(readDHCSR(fresh, dhcsr), dhcsr)
        IN \/ ~usable /\ Return(NoTarget)
           \/ usable /\ "C_DEBUGEN" \in dhcsr
              /\ Return([fresh EXCEPT !.saved = dhcsr \cap {"C_DEBUGEN", "C_HALT"}])
           \/ usable /\ "C_DEBUGEN" \notin dhcsr /\ Goto(fresh, "control.write")
  \/ ReadFailsAt("acquire.read") /\ Return(NoTarget)

\* The control writeControl is called with.
Wanted == IF op = "Acquire" THEN {"C_DEBUGEN"} ELSE t.saved

\* A failed Acquire releases what it changed with a context of its own.
ControlFailed(s) ==
  \/ op = "Acquire" /\ ReleaseFrom(With(s, {"closing"}))
  \/ op = "Release" /\ Return(s)

ControlWrite ==
  \/ WriteAt("control.write", Wanted, FALSE) /\ Goto(With(t, {"changed"}), "control.read")
  \/ WriteFailsAt("control.write", Wanted, FALSE) /\ ControlFailed(With(t, {"changed"}))
  \/ FailsAt("control.write") /\ ControlFailed(t)

ControlRead ==
  \/ /\ ReadAt("control.read")
     /\ LET seen == readDHCSR(t, dhcsr)
            s == IF "C_DEBUGEN" \notin dhcsr /\ t.saved = {} THEN Without(seen, {"changed"}) ELSE seen
            mask == IF "C_DEBUGEN" \in Wanted THEN {"C_DEBUGEN", "C_HALT", "C_STEP"} ELSE {"C_DEBUGEN"}
            good == /\ "C_DEBUGEN" \in Wanted => validateArchitectureControl(s, dhcsr)
                    /\ dhcsr \cap mask = Wanted \cap mask
        IN \/ good /\ op = "Acquire" /\ Return(s)
           \/ good /\ op = "Release" /\ Finish(s)
           \/ ~good /\ ControlFailed(s)
  \/ ReadFailsAt("control.read") /\ ControlFailed(readDHCSRFailed(t))

-----------------------------------------------------------------------------
\* Halt, Halted and Resume.

HaltRead ==
  \/ /\ ReadAt("halt.read")
     /\ LET s == readControl(t, dhcsr)
            go == ControlAccepted(readDHCSR(t, dhcsr), dhcsr) /\ "S_HALT" \notin dhcsr
        IN \/ go /\ Goto(s, "halt.write")
           \/ ~go /\ Return(s)
  \/ /\ ReadFailsAt("halt.read")
     /\ \E cause \in {"context", "bus"} : Return(readError(readDHCSRFailed(t), cause))

StatusRead ==
  \/ ReadAt("status.read") /\ Return(readControl(t, dhcsr))
  \/ /\ ReadFailsAt("status.read")
     /\ \E cause \in {"context", "bus"} : Return(readError(readDHCSRFailed(t), cause))

HaltWrite ==
  \/ /\ WriteAt("halt.write", {"C_DEBUGEN", "C_HALT"}, TRUE)
     /\ Goto(Without(With(t, {"changed", "haltOwned"}), {"haltUncertain"}), "wait.read")
  \/ /\ WriteFailsAt("halt.write", {"C_DEBUGEN", "C_HALT"}, TRUE)
     /\ Abandon(With(t, {"changed", "haltUncertain"}))
  \/ FailsAt("halt.write") /\ Return(t)

\* waitHalt(halted): Halt waits for the halt, Resume and Release for its end.
WaitRead ==
  LET halted == op = "Halt"
      s == readControl(t, dhcsr)
      kept == ControlAccepted(readDHCSR(t, dhcsr), dhcsr) /\ ("C_HALT" \in dhcsr) = halted
      there == ("S_HALT" \in dhcsr) = halted
  IN \/ ReadAt("wait.read") /\ ~kept /\ Abandon(s)
     \/ ReadAt("wait.read") /\ kept /\ ~there /\ Goto(s, "wait.read")
     \/ ReadAt("wait.read") /\ kept /\ there /\ op # "Release" /\ Return(s)
     \/ /\ ReadAt("wait.read") /\ kept /\ there /\ op = "Release"
        /\ \/ "changed" \in s.flags /\ Goto(s, "disable.read")
           \/ "changed" \notin s.flags /\ Finish(s)
     \/ ReadFailsAt("wait.read") /\ Abandon(readDHCSRFailed(t))
     \/ FailsAt("wait.read") /\ Abandon(t)

\* M33 checks that nothing restarted the core before it clears the request.
ResumeRead ==
  \/ /\ ReadAt("resume.read")
     /\ LET s == readControl(t, dhcsr)
            go == ControlAccepted(readDHCSR(t, dhcsr), dhcsr) /\ "haltOwned" \in s.flags
        IN \/ go /\ Goto(s, "resume.write")
           \/ ~go /\ Return(s)
  \/ /\ ReadFailsAt("resume.read")
     /\ \E cause \in {"context", "bus"} : Return(readError(readDHCSRFailed(t), cause))

\* Mutant: a failed resume is not recorded, so Release tries it again.
ResumeForgotten ==
  \/ /\ WriteAt("resume.write", {"C_DEBUGEN"}, FALSE)
     /\ Goto(Without(With(t, {"resumeUncertain"}), {"haltOwned"}), "wait.read")
  \/ WriteFailsAt("resume.write", {"C_DEBUGEN"}, FALSE) /\ Abandon(t)

ResumeWrite ==
  \/ /\ WriteAt("resume.write", {"C_DEBUGEN"}, FALSE)
     /\ Goto(Without(With(t, {"resumeUncertain"}), {"haltOwned"}), "wait.read")
  \/ WriteFailsAt("resume.write", {"C_DEBUGEN"}, FALSE) /\ Abandon(With(t, {"resumeUncertain"}))
  \/ FailsAt("resume.write") /\ Return(t)

-----------------------------------------------------------------------------
\* restore.

\* Mutant: an uncertain write is never taken as settled.
SettledNever(s, value) == IF "haltUncertain" \in s.flags THEN s ELSE observeHaltRequest(s, value)

\* The target after checkRestoreState accepted value.
Settled(s, value) ==
  LET seen == IF "haltUncertain" \in s.flags THEN s ELSE observeHaltRequest(s, value)
  IN IF seen.flags \cap {"resumeUncertain", "haltUncertain"} = {} THEN seen
     ELSE IF value \cap Halted # {} THEN seen
     ELSE Relinquish(seen, {"resumeUncertain", "haltUncertain", "haltOwned"})

checkRestoreState(s, value) ==
  /\ validateArchitectureControl(s, value)
  /\ ~({"C_DEBUGEN", "C_STEP"} \subseteq value)
  /\ Settled(s, value).flags \cap {"resumeUncertain", "haltUncertain"} = {}

RestoreRead ==
  LET seen == readDHCSR(t, dhcsr)
      disabled == t.saved = {} /\ "C_DEBUGEN" \notin dhcsr
      steady == validateArchitectureControl(seen, dhcsr) /\ ~({"C_DEBUGEN", "C_STEP"} \subseteq dhcsr)
      s == Settled(seen, dhcsr)
      good == checkRestoreState(seen, dhcsr)
  IN \/ ReadAt("restore.read") /\ disabled /\ Finish(seen)
     \/ ReadAt("restore.read") /\ ~disabled /\ ~steady /\ Return(seen)
     \/ ReadAt("restore.read") /\ ~disabled /\ steady /\ ~good /\ Return(s)
     \/ /\ ReadAt("restore.read") /\ ~disabled /\ good
        /\ \/ "haltOwned" \in s.flags /\ Goto(s, IF M33 THEN "resume.read" ELSE "resume.write")
           \/ {"haltOwned", "changed"} \cap s.flags = {"changed"} /\ Goto(s, "disable.read")
           \/ {"haltOwned", "changed"} \cap s.flags = {} /\ Finish(s)
     \/ ReadFailsAt("restore.read") /\ Return(readDHCSRFailed(t))

\* Nothing is halted any more, or the disabled debug is not restored.
DisableRead ==
  \/ /\ ReadAt("disable.read")
     /\ LET seen == readDHCSR(t, dhcsr)
            go == /\ validateArchitectureControl(seen, dhcsr)
                  /\ "C_DEBUGEN" \in dhcsr => dhcsr \cap Halted = {}
        IN \/ go /\ Goto(seen, "control.write")
           \/ ~go /\ Return(seen)
  \/ ReadFailsAt("disable.read") /\ Return(readDHCSRFailed(t))

-----------------------------------------------------------------------------
\* ReadRegister and WriteRegister.

\* waitRegister fails: a transfer left pending leaves only Release, and so does
\* any failure after WriteRegister has staged its data.
RegisterFailed(s) ==
  \/ /\ "registerPending" \in s.flags \/ <<op, pc>> = <<"WriteRegister", "selected.read">>
     /\ Abandon(s)
  \/ /\ "registerPending" \notin s.flags /\ <<op, pc>> # <<"WriteRegister", "selected.read">>
     /\ Return(s)

\* What follows a transfer register found ready.
RegisterReady(s) ==
  \/ pc = "register.read" /\ op = "Step" /\ "haltOwned" \in s.flags /\ Goto(s, "dfsr.read")
  \/ pc = "register.read" /\ op = "Step" /\ "haltOwned" \notin s.flags /\ Return(s)
  \/ pc = "register.read" /\ op = "ReadRegister" /\ Goto(s, "select.write")
  \/ pc = "register.read" /\ op = "WriteRegister" /\ Goto(s, "dcrdr.write")
  \/ pc = "register.read" /\ op = "Release" /\ ReleaseFrom(s)
  \/ pc = "selected.read" /\ op = "ReadRegister" /\ Goto(s, "dcrdr.read")
  \/ pc = "selected.read" /\ op = "WriteRegister" /\ Return(s)

registerStatus(where) ==
  LET value == dhcsr
      seen == readDHCSR(t, value)
      halted == {"C_DEBUGEN", "S_HALT"} \subseteq value
      gone == /\ "registerPending" \in t.flags
              /\ ~halted \/ "S_RESET_ST" \in value \/ (M33 /\ "S_RESTART_ST" \in value)
      s == observeHaltRequest(seen, value)
  IN /\ ReadAt(where) /\ "registerLost" \notin t.flags
     /\ \/ gone /\ RegisterFailed(With(seen, {"registerLost"}))
        \/ ~gone /\ ~ControlAccepted(seen, value) /\ RegisterFailed(With(seen, {"closing"}))
        \/ ~gone /\ ControlAccepted(seen, value) /\ ~halted /\ RegisterFailed(s)
        \/ /\ ~gone /\ ControlAccepted(seen, value) /\ halted
           /\ \/ "S_REGRDY" \in value /\ RegisterReady(Without(s, {"registerPending"}))
              \/ "S_REGRDY" \notin value /\ Goto(With(s, {"registerPending"}), where)

waitRegister(where) ==
  \/ registerStatus(where)
  \/ AccessAt(where) /\ "registerLost" \in t.flags /\ RegisterFailed(t)
  \/ /\ ReadFailsAt(where) /\ "registerLost" \notin t.flags
     /\ \E cause \in {"context", "bus"} : RegisterFailed(readError(readDHCSRFailed(t), cause))
  \/ FailsAt(where) /\ RegisterFailed(t)

RegisterRead == waitRegister("register.read")
SelectedRead == waitRegister("selected.read")

\* DCRDR is staged with the value to be written.
DcrdrWrite ==
  \/ AccessAt("dcrdr.write") /\ Goto(t, "select.write")
  \/ FailsAt("dcrdr.write") /\ (Abandon(t) \/ Return(t))

\* The selector starts the transfer, also when the write reports an error.
selectRegister ==
  LET pending == With(t, {"registerPending"})
      started == IF "S_HALT" \in dhcsr THEN StartTransfer(dhcsr) ELSE dhcsr
  IN \/ /\ pc = "select.write" /\ dhcsr' = started
        /\ \/ Goto(pending, "selected.read")
           \/ ~calm /\ Abandon(pending)
        /\ UNCHANGED <<dfsr, secureAllowed, unsafeMemory, ghosts, world>>
     \/ FailsAt("select.write") /\ Abandon(pending)
     \/ FailsAt("select.write") /\ op = "ReadRegister" /\ Return(t)
     \/ FailsAt("select.write") /\ op = "WriteRegister" /\ Abandon(t)

DcrdrRead ==
  \/ AccessAt("dcrdr.read") /\ Return(t)
  \/ FailsAt("dcrdr.read") /\ Abandon(t)

-----------------------------------------------------------------------------
\* Step and settleStep.

\* Competing reasons already recorded prevent a step.
DfsrRead ==
  \/ AccessAt("dfsr.read") /\ "EXTERNAL" \in dfsr /\ Return(t)
  \/ AccessAt("dfsr.read") /\ "EXTERNAL" \notin dfsr /\ Goto(t, "step.write")
  \/ FailsAt("dfsr.read") /\ \E cause \in {"context", "bus"} : Return(readError(t, cause))
  \/ FailsAt("dfsr.read") /\ Return(t)

StepWrite ==
  LET launched(phase) == [Without(t, {"haltOwned"}) EXCEPT !.step = phase]
  IN \/ WriteAt("step.write", {"C_DEBUGEN", "C_STEP"}, FALSE) /\ Goto(launched("running"), "settle.read")
     \/ WriteFailsAt("step.write", {"C_DEBUGEN", "C_STEP"}, FALSE) /\ Abandon(launched("uncertain"))
     \/ FailsAt("step.write") /\ Return(t)

stepHaltLost(value) == ~(Halted \subseteq value) \/ (M33 /\ "S_RESTART_ST" \in value)

\* Mutant: a completed halt that was lost again goes unnoticed.
StepUnwatched(s, value) ==
  /\ "C_DEBUGEN" \in value /\ "S_RESET_ST" \notin value
  /\ s.step # "restoring" => "C_STEP" \in value

\* Whether value shows the step undisturbed.
StepIntact(s, value) ==
  /\ "C_DEBUGEN" \in value /\ "S_RESET_ST" \notin value
  /\ s.step # "restoring" => "C_STEP" \in value
  /\ s.step \in {"stopped", "restoring"} => ~stepHaltLost(value)

observeStepState(s, value) ==
  IF ~StepIntact(s, value) THEN [s EXCEPT !.step = "lost"]
  ELSE IF s.step = "running" /\ Halted \subseteq value THEN [s EXCEPT !.step = "stopped"]
  ELSE s

\* stepStatus with the value read: accepted or not, and the target then.
StepAccepted(value) ==
  LET seen == readDHCSR(t, value)
  IN StepIntact(seen, value) /\ validateArchitectureControl(seen, value)

stepStatus(value) == observeStepState(readDHCSR(t, value), value)

\* settleStep is done: Step must have come to own the stop.
StepSettled(s) ==
  \/ op = "Step" /\ "haltOwned" \in s.flags /\ Return(s)
  \/ op = "Step" /\ "haltOwned" \notin s.flags /\ Abandon(s)
  \/ op = "Release" /\ ReleaseFrom(s)

\* Where finishStep writes the halt back, after another look on M33.
Rewrite == IF M33 THEN "finish.read" ELSE "finish.write"

SettleRead ==
  LET known == t.step \notin {"uncertain", "lost"}
      good == StepAccepted(dhcsr)
      s == stepStatus(dhcsr)
      clear == s.step = "restoring" /\ "C_STEP" \notin dhcsr
  IN \/ AccessAt("settle.read") /\ ~known /\ Abandon(t)
     \/ ReadAt("settle.read") /\ known /\ ~good /\ Abandon(s)
     \/ ReadAt("settle.read") /\ known /\ good /\ clear /\ StepSettled([s EXCEPT !.step = "idle"])
     \/ /\ ReadAt("settle.read") /\ known /\ good /\ ~clear
        /\ \/ s.step = "stopped" /\ Goto(s, "reason.read")
           \/ s.step = "restoring" /\ Goto(s, Rewrite)
           \/ s.step = "running" /\ Goto(s, "settle.read")
     \/ ReadFailsAt("settle.read") /\ known /\ Abandon(readDHCSRFailed(t))
     \/ FailsAt("settle.read") /\ Abandon(t)

\* The stop is owned when the step is its only recorded reason.
ReasonRead ==
  LET ended == [t EXCEPT !.step = "restoring"]
  IN \/ AccessAt("reason.read") /\ dfsr = {"HALTED"} /\ Goto(With(ended, {"haltOwned"}), Rewrite)
     \/ AccessAt("reason.read") /\ dfsr # {"HALTED"} /\ Goto(Relinquish(ended, {"haltOwned"}), Rewrite)
     \/ FailsAt("reason.read") /\ Abandon(t)

FinishRead ==
  \/ ReadAt("finish.read") /\ StepAccepted(dhcsr) /\ Goto(stepStatus(dhcsr), "finish.write")
  \/ ReadAt("finish.read") /\ ~StepAccepted(dhcsr) /\ Abandon(stepStatus(dhcsr))
  \/ ReadFailsAt("finish.read") /\ Abandon(readDHCSRFailed(t))
  \/ FailsAt("finish.read") /\ Abandon(t)

FinishWrite ==
  \/ WriteAt("finish.write", {"C_DEBUGEN", "C_HALT"}, FALSE) /\ Goto(t, "settle.read")
  \/ WriteFailsAt("finish.write", {"C_DEBUGEN", "C_HALT"}, FALSE) /\ Abandon(t)

-----------------------------------------------------------------------------
\* The core between two accesses.

\* A stop after one instruction is this target's when it launched the step, no
\* competing event was recorded and nothing restarted the core in between.
SteppedBy ==
  CASE dfsr # {"HALTED"} \/ t.step = "restoring" -> "foreign"
    [] dfsr = {"HALTED"} /\ t.step # "restoring" /\ claim = "restarted" -> "restarted"
    [] OTHER -> "mine"

CoreProgress ==
  \/ CompleteHalt /\ UNCHANGED <<hostVars, ghosts, world>>
  \/ CompleteResume /\ UNCHANGED <<hostVars, ghosts, world>>
  \/ CompleteTransfer /\ UNCHANGED <<hostVars, ghosts, world>>
  \/ CompleteStep /\ claim' = SteppedBy /\ UNCHANGED <<hostVars, quiet, unsure, world>>

\* A debug event makes the stop foreign unless the host had asked for it.
CoreEvent ==
  /\ ~calm
  /\ \/ WarmReset /\ UNCHANGED claim
     \/ /\ ExternalRestart
        /\ claim' = IF t.step \in {"stopped", "restoring"} /\ claim = "mine" THEN "restarted" ELSE claim
     \/ ExternalHalt /\ claim' = IF "C_HALT" \in dhcsr THEN claim ELSE "foreign"
     \/ (\E allowed \in BOOLEAN : SetSecureDebug(allowed)) /\ UNCHANGED claim
     \/ SnapStall /\ UNCHANGED claim
  /\ quiet' = FALSE
  /\ UNCHANGED <<hostVars, unsure, world>>

CalmDown ==
  /\ ~calm /\ "memory" \in t.flags
  /\ world' = [world EXCEPT !.calm = TRUE]
  /\ UNCHANGED <<coreVars, hostVars, ghosts>>

ApiCall == Acquire \/ Halt \/ HaltedCall \/ Resume \/ Step \/ ReadRegister \/ WriteRegister

Access ==
  \/ AcquireRead \/ ControlWrite \/ ControlRead
  \/ HaltRead \/ StatusRead \/ HaltWrite \/ WaitRead \/ ResumeRead \/ ResumeWrite
  \/ RestoreRead \/ DisableRead
  \/ RegisterRead \/ SelectedRead \/ DcrdrWrite \/ selectRegister \/ DcrdrRead
  \/ DfsrRead \/ StepWrite \/ SettleRead \/ ReasonRead \/ FinishRead \/ FinishWrite

Next == ApiCall \/ Release \/ Access \/ CoreProgress \/ CoreEvent \/ CalmDown

Spec == Init /\ [][Next]_vars

\* A call in progress goes on, the core completes what was requested of it, and
\* the caller keeps calling Release on a target it still holds.
FairSpec ==
  /\ Spec
  /\ WF_vars(Access) /\ WF_vars(CoreProgress) /\ WF_vars(calm /\ Release)

-----------------------------------------------------------------------------
ControlWrites == {"control.write", "halt.write", "resume.write", "step.write", "finish.write"}

\* An access ends a stop that is known to be foreign.
ForeignEnded ==
  pc' # pc /\ claim = "foreign" /\ quiet /\ Halted \subseteq dhcsr /\ "C_HALT" \notin dhcsr'

\* Resume accepts only a halt requested by this target: no access ends a foreign
\* stop, unless it races with an event that came after the last DHCSR read
\* (resume, restore, observeHaltRequest).
ResumeOwnHalt == [][~ForeignEnded]_vars

\* The events that take a halt of this target away and that DHCSR does not report
\* afterwards; M0 has no restart status.
Unnoticed == {"WarmReset", "GrantSecureDebug", "RevokeSecureDebug"} \cup (IF M33 THEN {} ELSE {"ExternalRestart"})

\* Resume and Release never let a core run that something other than this
\* target stopped, as long as nothing takes its own halt away unnoticed (resume,
\* restore, observeHaltRequest).
NoForeignResume == [][Events \cap Unnoticed = {} => ~ForeignEnded]_vars

\* A restart after the completed halt of a step was observed prevents automatic
\* cleanup, even if the core has stopped again (stepHaltLost, settleStep).
RestartBlocksCleanup ==
  [][pc' # pc /\ claim = "restarted" /\ quiet /\ Halted \subseteq dhcsr => "C_HALT" \in dhcsr']_vars

\* A read that shows the halt request lost ends the claim to the halt
\* (readControl, observeHaltRequest).
LostHaltRelinquished ==
  [][pc' # pc /\ pc \in {"wait.read", "status.read", "resume.read"} /\ quiet'
     /\ {"C_DEBUGEN", "C_HALT"} \cap dhcsr = {"C_DEBUGEN"} /\ dhcsr' = Consumed(dhcsr)
       => "haltOwned" \notin t'.flags]_vars

\* Debug control is not changed while a core register transfer is under way:
\* Release settles it first (waitRegister) and resume would corrupt it.
NoControlDuringTransfer ==
  [][pc' # pc /\ "S_HALT" \in dhcsr /\ "S_REGRDY" \notin dhcsr
       => dhcsr' \cap Control = dhcsr \cap Control]_vars

\* After a halt or resume write whose effect is unknown no control is written
\* until a read shows the request clear or the core restarted (haltUncertain,
\* resumeUncertain), so a completed resume is never repeated; and none is written
\* at all once C_SNAPSTALL has been observed (validateArchitectureControl).
UncertainBlocks == unsure \/ "snapStalled" \in t.flags => pc \notin ControlWrites

\* C_STEP is cleared only while the core is in Debug state, as far as a read of
\* DHCSR can tell (settleStep, finishStep).
StepClearedHalted ==
  [][pc' # pc /\ quiet /\ "C_STEP" \in dhcsr /\ "C_STEP" \notin dhcsr' => Halted \subseteq dhcsr]_vars

\* A successful Release leaves no halt of its own and no stepping behind, and
\* halting debug disabled when it was found disabled (restore, writeControl).
ReleaseClean ==
  [][op = "Release" /\ "memory" \in t.flags /\ "memory" \notin t'.flags =>
       /\ "C_STEP" \notin dhcsr'
       /\ "C_HALT" \in dhcsr' => claim' # "mine"
       /\ t.saved = {} => "C_DEBUGEN" \notin dhcsr']_vars

\* The states the documentation names in which Release cannot succeed.
Blocked ==
  \/ "registerLost" \in t.flags \/ t.step \in {"uncertain", "lost"}
  \/ "snapStalled" \in t.flags \/ unsafeMemory
  \/ M33 /\ "S_SDE" \notin dhcsr
  \/ "C_HALT" \in dhcsr /\ (claim = "foreign" \/ {"haltUncertain", "resumeUncertain"} \cap t.flags # {})

\* Once failures and events stop, repeated Release calls succeed, or stay in one
\* of the documented states that prevent automatic cleanup (Release).
ReleasedOrBlocked == calm ~> ("memory" \notin t.flags \/ []Blocked)

=============================================================================
