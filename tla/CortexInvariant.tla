---------------------------- MODULE CortexInvariant -------------------------
(***************************************************************************)
(* The inductive invariant of CortexTarget (IInv), lemmas about the        *)
(* operators it is built from, and the proof that the calls, Release, the  *)
(* acquisition of a core, the change of its control bits, and the requests *)
(* to halt and to resume with the wait for them keep it.  CortexProofs     *)
(* continues the proof.                                                    *)
(***************************************************************************)
EXTENDS CortexTarget, TLAPS

\* A halt or a resume was requested and its outcome is not known.
Unresolved(s) == "haltUncertain" \in s.flags \/ "resumeUncertain" \in s.flags
\* The target answers for the halt request in DHCSR, or may do so.
Claiming(s) == "haltOwned" \in s.flags \/ Unresolved(s)
\* The accesses of pollStep.
StepPcs == {"settle.read", "reason.read", "finish.read", "finish.write"}

\* The accesses each API call goes through.
Accesses(name) ==
  CASE name = "none" -> {"idle"}
    [] name = "Acquire" -> {"acquire.read", "control.write", "control.read"}
    [] name = "Halt" -> {"halt.read", "halt.write", "wait.read"}
    [] name = "Resume" -> {"resume.read", "resume.write", "wait.read"}
    [] name = "Halted" -> {"status.read"}
    [] name = "Step" -> {"register.read", "dfsr.read", "step.write"} \cup StepPcs
    [] name = "ReadRegister" -> {"register.read", "select.write", "selected.read", "dcrdr.read"}
    [] name = "WriteRegister" -> {"register.read", "dcrdr.write", "select.write", "selected.read"}
    [] OTHER -> {"register.read", "restore.read", "resume.read", "resume.write", "wait.read",
                 "disable.read", "control.write", "control.read"} \cup StepPcs

\* Where each call may be, and which pending work lets it be there: an uncertain
\* resume, a transfer or a step in progress is followed up by the call that began
\* it, or is left to Release.
Placed ==
  /\ pc \in Accesses(op)
  /\ pc # "acquire.read" /\ pc # "idle" => "memory" \in t.flags
  /\ pc = "acquire.read" => "memory" \notin t.flags
  /\ op = "Acquire" => t.flags \subseteq {"memory", "changed", "snapStalled"} /\ t.saved = {} /\ t.step = "idle"
  /\ op = "Release" => "closing" \in t.flags
  /\ "closing" \in t.flags => op \in {"none", "Release"}
  /\ "registerPending" \in t.flags =>
       /\ pc \in {"idle", "register.read", "selected.read"}
       /\ pc = "idle" => "closing" \in t.flags
       /\ ~Unresolved(t)
  /\ Unresolved(t) =>
       /\ pc \in {"idle", "wait.read", "restore.read"} /\ (op # "Resume" => "closing" \in t.flags) /\ op # "Halt"
       /\ pc = "wait.read" => "haltUncertain" \notin t.flags
  /\ t.step # "idle" =>
       /\ pc \in {"idle"} \cup StepPcs /\ (pc = "idle" => "closing" \in t.flags)
       /\ ~Unresolved(t) /\ "registerPending" \notin t.flags
  /\ pc \in StepPcs => t.step # "idle"
  /\ pc = "reason.read" => t.step = "stopped"
  /\ pc \in {"finish.read", "finish.write"} => t.step \in {"restoring"}

\* What the record of the changes made (changed, saved) owes to what was changed.
Changed ==
  /\ "haltOwned" \in t.flags \/ "haltUncertain" \in t.flags => "changed" \in t.flags
  /\ "haltUncertain" \in t.flags => "haltOwned" \notin t.flags /\ "resumeUncertain" \notin t.flags
  /\ t.step \in {"running", "stopped"} => "changed" \in t.flags /\ "haltOwned" \notin t.flags
  /\ pc \in {"restore.read", "disable.read"} \/ (op = "Release" /\ pc = "control.write") => "changed" \in t.flags
  /\ pc \in {"resume.write", "resume.read", "dfsr.read", "step.write"} => "haltOwned" \in t.flags
  /\ pc \in {"disable.read", "control.write", "control.read"} => t.saved = {} /\ ~Claiming(t)
  /\ "changed" \in t.flags /\ "C_DEBUGEN" \in t.saved /\ t.step = "idle" => Claiming(t)
  /\ t.step = "restoring" /\ "haltOwned" \notin t.flags /\ "changed" \in t.flags => "C_DEBUGEN" \notin t.saved
  /\ "memory" \in t.flags /\ t.saved = {} /\ "C_DEBUGEN" \in dhcsr => "changed" \in t.flags
  /\ "C_HALT" \in t.saved => "C_DEBUGEN" \in t.saved

\* An uncertain halt request that is taken for settled leaves nothing claimed.
Unsure ==
  unsure =>
    /\ "C_HALT" \in dhcsr => "C_DEBUGEN" \in dhcsr
    /\ ~Unresolved(t) =>
        /\ pc \notin ControlWrites /\ "haltOwned" \notin t.flags /\ t.step = "idle"
        /\ "memory" \in t.flags => "C_DEBUGEN" \in t.saved /\ ("C_HALT" \in dhcsr => "S_HALT" \in dhcsr)

\* A core seen snap-stalled is never written to.
Snap == "snapStalled" \in t.flags => M33 /\ pc \notin ControlWrites \cup {"dfsr.read"}

\* Halting debug stays enabled while a halt or a step depends on it.
Enabled ==
  /\ Claiming(t) \/ t.step # "idle" => "C_DEBUGEN" \in dhcsr
  /\ pc = "halt.write" => "C_DEBUGEN" \in dhcsr
  /\ "S_HALT" \in dhcsr => "C_DEBUGEN" \in dhcsr
  /\ "C_STEP" \in dhcsr => t.step # "idle"
  /\ M33 \/ ("S_SDE" \notin dhcsr /\ "S_RESTART_ST" \notin dhcsr)

\* A register transfer in progress is known to the target, unless the target holds
\* nothing at the core.
Transfer ==
  "S_HALT" \in dhcsr /\ "S_REGRDY" \notin dhcsr =>
    \/ "registerPending" \in t.flags
    \/ ~Claiming(t) /\ "changed" \notin t.flags /\ t.step = "idle" /\ pc \notin ControlWrites

\* With nothing happening meanwhile, the end of a step is handled in Debug state.
Stopped ==
  quiet /\ pc \in {"reason.read", "finish.write"} => "C_HALT" \in dhcsr /\ "S_HALT" \in dhcsr

\* Whose the halt request in DHCSR is, against what the target believes.
Claimed ==
  /\ t.step = "idle" /\ claim = "mine" /\ "C_HALT" \in dhcsr => Claiming(t)
  /\ "resumeUncertain" \in t.flags /\ "changed" \notin t.flags => claim # "mine"
  /\ M33 /\ (pc = "resume.write" \/ "resumeUncertain" \in t.flags) /\ "S_RESTART_ST" \in dhcsr /\ "C_HALT" \in dhcsr => claim # "mine"
  /\ pc \in {"dfsr.read", "step.write"} \/ t.step \in {"running", "stopped"} =>
      /\ "C_HALT" \in dhcsr => "S_HALT" \in dhcsr
      /\ "HALTED" \in dfsr \/ "EXTERNAL" \in dfsr
  /\ (pc = "step.write" \/ t.step \in {"running", "stopped"}) /\ "EXTERNAL" \in dfsr => claim = "foreign"
  /\ t.step = "restoring" /\ "haltOwned" \notin t.flags => claim = "foreign"
  /\ "S_HALT" \in dhcsr => "HALTED" \in dfsr \/ "EXTERNAL" \in dfsr
  /\ "haltOwned" \in t.flags /\ "closing" \notin t.flags /\ pc # "wait.read" /\ pc \notin StepPcs /\ "C_HALT" \in dhcsr =>
      "S_HALT" \in dhcsr
  /\ pc = "halt.write" => "haltOwned" \notin t.flags

\* No event comes that DHCSR does not report to the next read.
Reported == Events \cap Unnoticed = {}

\* With every event reported, a claim that no longer holds is flagged by the sticky
\* restart status or by DFSR until the target has read it.
HaltKept ==
  /\ M33 => (secureAllowed <=> "S_SDE" \in dhcsr)
  /\ pc = "halt.write" => debugAllowed(dhcsr)
  /\ "haltOwned" \in t.flags /\ "resumeUncertain" \notin t.flags /\ (claim = "foreign" \/ "C_HALT" \notin dhcsr) => "S_RESTART_ST" \in dhcsr
  /\ quiet /\ pc \in {"dfsr.read", "step.write", "resume.write"} => "S_RESTART_ST" \notin dhcsr
  /\ (pc \in {"dfsr.read", "step.write"} \/ t.step \in {"running", "stopped"}) /\ claim = "foreign" => "EXTERNAL" \in dfsr
  /\ pc = "reason.read" /\ "C_HALT" \notin dhcsr => "S_RESTART_ST" \in dhcsr

\* HaltKept holds in worlds that report every event.
Owned == Reported => HaltKept

\* With nothing happening meanwhile, Release disables halting debug of a running
\* core only.
Closed ==
  pc = "control.write" /\ quiet => "S_HALT" \notin dhcsr /\ ("C_DEBUGEN" \in dhcsr => "C_HALT" \notin dhcsr)

\* The conjuncts of the inductive invariant beside the types.
Parts == Placed /\ Changed /\ Unsure /\ Snap /\ Enabled /\ Transfer /\ Stopped /\ Claimed /\ Owned /\ Closed

\* The values a target takes.
Targets == [flags : SUBSET Flags, saved : SUBSET {"C_DEBUGEN", "C_HALT"}, step : Steps]

\* The variables have their types, and the target holds its memory or is none.
Typed ==
  /\ CoreTypeOK
  /\ t \in [flags : SUBSET Flags, saved : SUBSET {"C_DEBUGEN", "C_HALT"}, step : Steps]
  /\ op \in Ops /\ pc \in {"idle"} \cup Reads \cup Writes
  /\ claim \in {"mine", "restarted", "foreign"} /\ quiet \in BOOLEAN /\ unsure \in BOOLEAN
  /\ op = "none" <=> pc = "idle"
  /\ "memory" \in t.flags \/ t = NoTarget

\* The states before a target is acquired, and while it is held.
Held == Typed /\ Parts

\* The states after Release let the target go.  What its fields say no longer
\* follows the core; the core is as the target left it: without a step or a halt
\* request of the target's own.
Gone ==
  /\ CoreTypeOK /\ t \in Targets /\ Released(t) /\ op = "none" /\ pc = "idle"
  /\ claim \in {"mine", "restarted", "foreign"} /\ quiet \in BOOLEAN /\ unsure \in BOOLEAN
  /\ "C_STEP" \notin dhcsr
  /\ "S_HALT" \in dhcsr => "C_DEBUGEN" \in dhcsr /\ ("HALTED" \in dfsr \/ "EXTERNAL" \in dfsr)
  /\ M33 \/ ("S_SDE" \notin dhcsr /\ "S_RESTART_ST" \notin dhcsr)
  /\ claim = "mine" => "C_HALT" \notin dhcsr
  /\ unsure /\ "C_HALT" \in dhcsr => "C_DEBUGEN" \in dhcsr
  /\ Reported /\ M33 => (secureAllowed <=> "S_SDE" \in dhcsr)

\* The inductive invariant.
IInv == Held \/ Gone

\* No work is pending at the core.
Clear(s) == ~Unresolved(s) /\ "registerPending" \notin s.flags /\ s.step = "idle"

\* r is what a successful read of v from DHCSR makes of target s: nothing, or the
\* loss of a halt that v shows is no longer the target's.
Observed(s, r, v) ==
  /\ r \in Targets /\ r.saved = s.saved
  /\ "memory" \in r.flags <=> "memory" \in s.flags
  /\ "haltUncertain" \in r.flags <=> "haltUncertain" \in s.flags
  /\ "registerPending" \in r.flags => "registerPending" \in s.flags
  /\ "registerPending" \in s.flags => "registerPending" \in r.flags \/ "S_REGRDY" \in v
  /\ "snapStalled" \in r.flags <=> ("snapStalled" \in s.flags \/ (M33 /\ "C_SNAPSTALL" \in v))
  /\ "closing" \in s.flags => "closing" \in r.flags
  /\ \/ /\ "haltOwned" \in r.flags <=> "haltOwned" \in s.flags
        /\ "resumeUncertain" \in r.flags <=> "resumeUncertain" \in s.flags
        /\ "changed" \in r.flags <=> "changed" \in s.flags
        /\ "haltOwned" \in s.flags \/ "resumeUncertain" \in s.flags => ~(M33 /\ "C_DEBUGEN" \in v /\ "S_RESTART_ST" \in v)
     \/ /\ "haltOwned" \notin r.flags /\ "resumeUncertain" \notin r.flags
        /\ "changed" \in r.flags <=> "C_DEBUGEN" \notin s.saved
        /\ "C_DEBUGEN" \in v /\ ("C_HALT" \notin v \/ (M33 /\ "S_RESTART_ST" \in v))
        /\ "haltOwned" \in s.flags \/ "resumeUncertain" \in s.flags
        /\ s.step # "idle" => M33 /\ "S_RESTART_ST" \in v

\* What a read of DHCSR makes of a step in progress.
StepSeen(s, r) ==
  \/ r.step = s.step
  \/ s.step # "idle" /\ r.step = "lost"
  \/ s.step = "running" /\ r.step = "stopped"

\* With and Without on the fields of a target.
LEMMA Fields ==
  ASSUME NEW s \in Targets, NEW n \in SUBSET Flags
  PROVE  /\ With(s, n) \in Targets /\ With(s, n).flags = s.flags \cup n
         /\ With(s, n).saved = s.saved /\ With(s, n).step = s.step
         /\ Without(s, n) \in Targets /\ Without(s, n).flags = s.flags \ n
         /\ Without(s, n).saved = s.saved /\ Without(s, n).step = s.step
BY DEF Targets, With, Without

\* Refusing everything but Release leaves the other fields alone.
LEMMA Closing ==
  ASSUME NEW s \in Targets
  PROVE  /\ With(s, {"closing"}) \in Targets /\ With(s, {"closing"}).flags = s.flags \cup {"closing"}
         /\ With(s, {"closing"}).saved = s.saved /\ With(s, {"closing"}).step = s.step
BY Fields DEF Flags

\* Moving a step along leaves the other fields alone.
LEMMA Stepping ==
  ASSUME NEW s \in Targets, NEW p \in Steps
  PROVE  /\ [s EXCEPT !.step = p] \in Targets /\ [s EXCEPT !.step = p].flags = s.flags
         /\ [s EXCEPT !.step = p].saved = s.saved /\ [s EXCEPT !.step = p].step = p
BY DEF Targets

\* Relinquish drops the named flags and recomputes changed from what was saved.
LEMMA Relinquishing ==
  ASSUME NEW s \in Targets, NEW n \in SUBSET Flags
  PROVE  /\ Relinquish(s, n) \in Targets
         /\ Relinquish(s, n).saved = s.saved /\ Relinquish(s, n).step = s.step
         /\ \A f \in Flags : f \in Relinquish(s, n).flags <=>
              IF f = "changed" THEN "C_DEBUGEN" \notin s.saved ELSE f \in s.flags /\ f \notin n
<1>1. n \cup {"changed"} \in SUBSET Flags /\ {"changed"} \in SUBSET Flags BY DEF Flags
<1>2. Without(s, n \cup {"changed"}) \in Targets BY <1>1, Fields
<1> QED BY <1>1, <1>2, Fields DEF Relinquish

\* readDHCSR is one of the outcomes Observed allows.
LEMMA ReadSeen ==
  ASSUME NEW s \in Targets, NEW v
  PROVE  Observed(s, readDHCSR(s, v), v) /\ readDHCSR(s, v).step = s.step
         /\ ("closing" \in readDHCSR(s, v).flags <=> "closing" \in s.flags)
         /\ ("registerPending" \in readDHCSR(s, v).flags <=> "registerPending" \in s.flags)
<1> DEFINE seen == IF M33 /\ "C_SNAPSTALL" \in v THEN With(s, {"snapStalled"}) ELSE s
<1>1. {"snapStalled"} \in SUBSET Flags /\ {"haltOwned", "resumeUncertain"} \in SUBSET Flags BY DEF Flags
<1>2. seen \in Targets /\ seen.saved = s.saved /\ seen.step = s.step
      /\ seen.flags = s.flags \cup (IF M33 /\ "C_SNAPSTALL" \in v THEN {"snapStalled"} ELSE {})
  BY <1>1, Fields
<1> DEFINE given == Relinquish(seen, {"haltOwned", "resumeUncertain"})
<1>3. given \in Targets /\ given.saved = s.saved /\ given.step = s.step
      /\ \A f \in Flags : f \in given.flags <=>
           IF f = "changed" THEN "C_DEBUGEN" \notin s.saved ELSE f \in seen.flags /\ f \notin {"haltOwned", "resumeUncertain"}
  <2> HIDE DEF seen
  <2> QED BY <1>1, <1>2, Relinquishing
<1>4. readDHCSR(s, v) = IF M33 /\ {"C_DEBUGEN", "S_RESTART_ST"} \subseteq v
        /\ s.flags \cap {"haltOwned", "resumeUncertain"} # {} THEN given ELSE seen BY DEF readDHCSR
<1> HIDE DEF seen, given
<1>5. CASE M33 /\ {"C_DEBUGEN", "S_RESTART_ST"} \subseteq v /\ s.flags \cap {"haltOwned", "resumeUncertain"} # {}
  <2>1. readDHCSR(s, v) = given BY <1>4, <1>5
  <2>2. "haltOwned" \in s.flags \/ "resumeUncertain" \in s.flags BY <1>5
  <2> QED BY <2>1, <2>2, <1>2, <1>3, <1>5 DEF Observed, Flags
<1>6. CASE ~(M33 /\ {"C_DEBUGEN", "S_RESTART_ST"} \subseteq v /\ s.flags \cap {"haltOwned", "resumeUncertain"} # {})
  <2>1. readDHCSR(s, v) = seen BY <1>4, <1>6
  <2>2. "haltOwned" \in s.flags \/ "resumeUncertain" \in s.flags =>
          ~(M33 /\ "C_DEBUGEN" \in v /\ "S_RESTART_ST" \in v) BY <1>6
  <2> QED BY <2>1, <2>2, <1>2, <1>6 DEF Observed
<1> QED BY <1>5, <1>6

\* observeHaltRequest after a read gives up a halt whose request is gone.
LEMMA RequestSeen ==
  ASSUME NEW s \in Targets, NEW v, s.step = "idle"
  PROVE  LET r == observeHaltRequest(readDHCSR(s, v), v) IN
         /\ Observed(s, r, v) /\ r.step = s.step
         /\ "closing" \in r.flags <=> "closing" \in s.flags
         /\ "registerPending" \in r.flags <=> "registerPending" \in s.flags
         /\ "C_DEBUGEN" \in v /\ "C_HALT" \notin v => "haltOwned" \notin r.flags /\ "resumeUncertain" \notin r.flags
<1> DEFINE seen == readDHCSR(s, v)
<1> DEFINE given == Relinquish(seen, {"haltOwned", "resumeUncertain"})
<1>1. Observed(s, seen, v) /\ seen.step = s.step /\ ("closing" \in seen.flags <=> "closing" \in s.flags)
      /\ ("registerPending" \in seen.flags <=> "registerPending" \in s.flags) BY ReadSeen
<1> HIDE DEF seen
<1>2. seen \in Targets /\ seen.saved = s.saved BY <1>1 DEF Observed
<1>3. given \in Targets /\ given.saved = seen.saved /\ given.step = seen.step
      /\ \A f \in Flags : f \in given.flags <=>
           IF f = "changed" THEN "C_DEBUGEN" \notin seen.saved ELSE f \in seen.flags /\ f \notin {"haltOwned", "resumeUncertain"}
  <2>1. {"haltOwned", "resumeUncertain"} \in SUBSET Flags BY DEF Flags
  <2> QED BY <2>1, <1>2, Relinquishing
<1> HIDE DEF given
<1>4. CASE ("haltOwned" \in seen.flags \/ "resumeUncertain" \in seen.flags) /\ "C_DEBUGEN" \in v /\ "C_HALT" \notin v
  <2>1. observeHaltRequest(seen, v) = given BY <1>4 DEF observeHaltRequest, given
  <2>2. Observed(s, given, v) BY <1>1, <1>2, <1>3, <1>4 DEF Observed, Flags
  <2> QED BY <2>1, <2>2, <1>1, <1>2, <1>3, <1>4 DEF Flags, seen
<1>5. CASE ~(("haltOwned" \in seen.flags \/ "resumeUncertain" \in seen.flags) /\ "C_DEBUGEN" \in v /\ "C_HALT" \notin v)
  <2>1. observeHaltRequest(seen, v) = seen BY <1>5 DEF observeHaltRequest
  <2> QED BY <2>1, <1>1, <1>2, <1>5 DEF seen
<1> QED BY <1>4, <1>5

\* readControl observes the request too, and accepts only an enabled, idle, permitted core.
LEMMA ControlSeen ==
  ASSUME NEW s \in Targets, NEW v, s.step = "idle"
  PROVE  LET r == readControl(s, v) IN
         /\ Observed(s, r, v) /\ r.step = s.step
         /\ ~ControlAccepted(readDHCSR(s, v), v) => "closing" \in r.flags
         /\ ControlAccepted(readDHCSR(s, v), v) =>
              /\ "C_DEBUGEN" \in v /\ "C_STEP" \notin v
              /\ M33 => "snapStalled" \notin r.flags /\ "S_SDE" \in v
              /\ "closing" \in r.flags <=> "closing" \in s.flags
              /\ "registerPending" \in r.flags <=> "registerPending" \in s.flags
              /\ "C_HALT" \notin v => "haltOwned" \notin r.flags /\ "resumeUncertain" \notin r.flags
<1> DEFINE seen == readDHCSR(s, v)
<1>1. Observed(s, seen, v) /\ seen.step = s.step BY ReadSeen
<1>2. seen \in Targets BY <1>1 DEF Observed
<1>3. CASE ControlAccepted(seen, v)
  <2>1. readControl(s, v) = observeHaltRequest(seen, v) BY <1>3 DEF readControl
  <2>2. M33 => "snapStalled" \notin seen.flags /\ "S_SDE" \in v
    BY <1>3 DEF ControlAccepted, validateArchitectureControl
  <2>3. "C_DEBUGEN" \in v /\ "C_STEP" \notin v BY <1>3 DEF ControlAccepted
  <2>4. Observed(s, observeHaltRequest(seen, v), v) BY RequestSeen
  <2>5. M33 => "snapStalled" \notin observeHaltRequest(seen, v).flags BY <2>2, <2>4, <1>1 DEF Observed
  <2> HIDE DEF seen
  <2> QED BY <2>1, <2>2, <2>3, <2>5, <1>3, RequestSeen DEF seen
<1>4. CASE ~ControlAccepted(seen, v)
  <2>1. readControl(s, v) = With(seen, {"closing"}) BY <1>4 DEF readControl, readError
  <2>2. {"closing"} \in SUBSET Flags BY DEF Flags
  <2> HIDE DEF seen
  <2>3. With(seen, {"closing"}) \in Targets /\ With(seen, {"closing"}).flags = seen.flags \cup {"closing"}
        /\ With(seen, {"closing"}).saved = seen.saved /\ With(seen, {"closing"}).step = seen.step
    BY <1>2, <2>2, Fields
  <2>4. Observed(s, With(seen, {"closing"}), v) BY ZenonT(30), <2>3, <1>1 DEF Observed
  <2> QED BY <2>1, <2>3, <2>4, <1>1, <1>4 DEF seen
<1> QED BY <1>3, <1>4

\* A call that returns after a successful read keeps the invariant.
LEMMA ReadReturns ==
  ASSUME Held, NEW where \in Reads \ {"acquire.read"}, ReadAt(where), Observed(t, t', dhcsr), StepSeen(t, t'),
         op' = "none", pc' = "idle", "closing" \in t'.flags \/ (Clear(t') /\ (where \in {"wait.read"} \cup StepPcs /\ "C_HALT" \in dhcsr => "S_HALT" \in dhcsr))
  PROVE  Held'
<1> USE DEF Reads, Held, Parts, ReadAt, Consumed, Sticky, GivenUp, Observed, StepSeen
<1>0. Reported' = Reported /\ M33' = M33 BY Zenon DEF Reported, Unnoticed, Events, M33, Profile
<1>1. Typed'
  BY Zenon, <1>0 DEF Typed, CoreTypeOK, Profile, Events, calm, M33, Targets, Ops, Reads, Writes, NoTarget, Placed,
    Flags, Steps
<1>2. Placed'
  BY Zenon, <1>0 DEF Typed, Placed, Changed, Accesses, StepPcs, Unresolved, Targets, Steps, Clear
<1>3. Changed'
  BY <1>0 DEF Typed, Changed, Placed, Claiming, Unresolved, StepPcs, Enabled, Targets, Clear
<1>4. Unsure'
  BY ZenonT(60), <1>0 DEF Typed, Unsure, Placed, Changed, Claiming, ControlWrites, Unresolved, Enabled, Clear
<1>5. Snap'
  BY Zenon, <1>0 DEF Snap, Placed, ControlWrites
<1>6. Enabled'
  BY Zenon, <1>0 DEF Typed, Enabled, Placed, Changed, Claiming, Unresolved, StepPcs
<1>7. Transfer'
  BY Zenon, <1>0 DEF Transfer, Placed, Changed, Claiming, ControlWrites, Unresolved, StepPcs
<1>8. Stopped' /\ Closed'
  BY Zenon, <1>0 DEF Stopped, Closed, Placed
<1>9. Claimed'
  BY ZenonT(30), <1>0 DEF Typed, Claimed, Placed, Changed, Claiming, Enabled, Unresolved, StepPcs
<1>10. Reported => HaltKept'
  BY <1>0 DEF Typed, Owned, HaltKept, Claimed, Placed, Enabled, Changed, Unresolved, debugAllowed, Profile,
    StepPcs, Claiming
<1> QED BY Zenon, <1>1, <1>2, <1>3, <1>4, <1>5, <1>6, <1>7, <1>8, <1>9, <1>10, <1>0 DEF Held, Parts, Owned

\* r is what a failed read of DHCSR makes of target s: M33 may have lost the sticky
\* status with it, so the halt is no longer claimed there.
Withdrawn(s, r) ==
  /\ r \in Targets /\ r.saved = s.saved /\ r.step = s.step
  /\ "memory" \in r.flags <=> "memory" \in s.flags
  /\ "haltUncertain" \in r.flags <=> "haltUncertain" \in s.flags
  /\ "resumeUncertain" \in r.flags <=> "resumeUncertain" \in s.flags
  /\ "registerPending" \in r.flags <=> "registerPending" \in s.flags
  /\ "snapStalled" \in r.flags <=> "snapStalled" \in s.flags
  /\ "closing" \in s.flags => "closing" \in r.flags
  /\ "haltOwned" \in r.flags <=> "haltOwned" \in s.flags /\ ~M33
  /\ "changed" \in r.flags <=> IF "haltOwned" \in s.flags /\ M33 THEN "C_DEBUGEN" \notin s.saved ELSE "changed" \in s.flags

\* readDHCSRFailed is what Withdrawn describes.
LEMMA FailedReadSeen ==
  ASSUME NEW s \in Targets
  PROVE  /\ Withdrawn(s, readDHCSRFailed(s))
         /\ "closing" \in readDHCSRFailed(s).flags <=> "closing" \in s.flags
<1>1. {"haltOwned"} \in SUBSET Flags BY DEF Flags
<1>2. CASE M33 /\ "haltOwned" \in s.flags
  <2>1. readDHCSRFailed(s) = Relinquish(s, {"haltOwned"}) BY <1>2 DEF readDHCSRFailed
  <2> QED BY <1>1, <1>2, <2>1, Relinquishing DEF Withdrawn, Flags
<1>3. CASE ~(M33 /\ "haltOwned" \in s.flags)
  <2>1. readDHCSRFailed(s) = s BY <1>3 DEF readDHCSRFailed
  <2> QED BY <1>3, <2>1 DEF Withdrawn
<1> QED BY <1>2, <1>3

\* A call that returns after a failed read keeps the invariant.
LEMMA FailedReadReturns ==
  ASSUME Held, NEW where \in Reads \ {"acquire.read"}, ReadFailsAt(where), Withdrawn(t, t'),
         op' = "none", pc' = "idle", "closing" \in t'.flags \/ (Clear(t') /\ where \notin {"wait.read"} \cup StepPcs)
  PROVE  Held'
<1> USE DEF Reads, Held, Parts, ReadFailsAt, Consumed, Sticky, GivenUp, Withdrawn
<1>0. Reported' = Reported /\ M33' = M33 BY Zenon DEF Reported, Unnoticed, Events, M33, Profile
<1>1. Typed'
  BY <1>0 DEF Typed, CoreTypeOK, Profile, Events, calm, M33, Targets, Ops, Reads, Writes, NoTarget, Placed,
    Flags, Steps
<1>2. Placed'
  BY Zenon, <1>0 DEF Typed, Placed, Changed, Accesses, StepPcs, Unresolved, Targets, Steps, Clear
<1>3. Changed'
  BY Zenon, <1>0 DEF Typed, Changed, Placed, Claiming, Unresolved, StepPcs, Enabled, Targets, Clear
<1>4. Unsure'
  BY Zenon, <1>0 DEF Typed, Unsure, Placed, Changed, Claiming, ControlWrites, Unresolved, Enabled, Clear
<1>5. Snap'
  BY Zenon, <1>0 DEF Snap, Placed, ControlWrites
<1>6. Enabled'
  BY Zenon, <1>0 DEF Typed, Enabled, Placed, Changed, Claiming, Unresolved, StepPcs
<1>7. Transfer'
  BY Zenon, <1>0 DEF Transfer, Placed, Changed, Claiming, ControlWrites, Unresolved, StepPcs
<1>8. Stopped' /\ Closed'
  BY Zenon, <1>0 DEF Stopped, Closed, Placed
<1>9. Claimed'
  BY <1>0 DEF Typed, Claimed, Placed, Changed, Claiming, Enabled, Unresolved, StepPcs
<1>10. Reported => HaltKept'
  BY <1>0 DEF Typed, Owned, HaltKept, Claimed, Placed, Enabled, Changed, Unresolved, debugAllowed, Profile,
    StepPcs, Claiming
<1> QED BY Zenon, <1>1, <1>2, <1>3, <1>4, <1>5, <1>6, <1>7, <1>8, <1>9, <1>10, <1>0 DEF Held, Parts, Owned

\* A call that returns after another access keeps the invariant.
LEMMA AccessReturns ==
  ASSUME Held, NEW where, where \notin {"idle", "acquire.read"}, AccessAt(where),
         t' \in Targets, t'.saved = t.saved, t'.step = t.step,
         t'.flags = t.flags \/ t'.flags = t.flags \cup {"closing"},
         op' = "none", pc' = "idle", "closing" \in t'.flags \/ (Clear(t') /\ where \notin {"wait.read"} \cup StepPcs)
  PROVE  Held'
<1> USE DEF Held, Parts, AccessAt, coreVars, ghosts
<1>0. Reported' = Reported /\ M33' = M33 BY Zenon DEF Reported, Unnoticed, Events, M33, Profile
<1>1. Typed'
  BY <1>0 DEF Typed, CoreTypeOK, Profile, Events, calm, M33, Targets, Ops, Reads, Writes, NoTarget, Placed,
    Flags, Steps
<1>2. Placed'
  BY Zenon, <1>0 DEF Typed, Placed, Changed, Accesses, StepPcs, Unresolved, Targets, Steps, Clear
<1>3. Changed'
  BY Zenon, <1>0 DEF Typed, Changed, Placed, Claiming, Unresolved, StepPcs, Enabled, Targets, Clear
<1>4. Unsure'
  BY <1>0 DEF Typed, Unsure, Placed, Changed, Claiming, ControlWrites, Unresolved, Enabled, Clear
<1>5. Snap'
  BY Zenon, <1>0 DEF Snap, Placed, ControlWrites
<1>6. Enabled'
  BY Zenon, <1>0 DEF Typed, Enabled, Placed, Changed, Claiming, Unresolved, StepPcs
<1>7. Transfer'
  BY <1>0 DEF Transfer, Placed, Changed, Claiming, ControlWrites, Unresolved, StepPcs
<1>8. Stopped' /\ Closed'
  BY Zenon, <1>0 DEF Stopped, Closed, Placed
<1>9. Claimed'
  BY ZenonT(30), <1>0 DEF Typed, Claimed, Placed, Changed, Claiming, Enabled, Unresolved, StepPcs
<1>10. Reported => HaltKept'
  BY <1>0 DEF Typed, Owned, HaltKept, Claimed, Placed, Enabled
<1> QED BY Zenon, <1>1, <1>2, <1>3, <1>4, <1>5, <1>6, <1>7, <1>8, <1>9, <1>10, <1>0 DEF Held, Parts, Owned

\* Acquire leaves no target behind when it fails before it changed the core.
LEMMA NoneAcquired ==
  ASSUME Held, NEW where, ReadAt(where) \/ AccessAt(where) \/ ReadFailsAt(where),
         t.step = "idle" \/ "C_STEP" \notin dhcsr,
         Return(NoTarget), claim' = "mine" => "C_HALT" \notin dhcsr'
  PROVE  Held'
<1> USE DEF Held, Parts, ReadAt, ReadFailsAt, AccessAt, coreVars, ghosts, Consumed, Sticky, GivenUp, Return, NoTarget
<1>0. Reported' = Reported /\ M33' = M33 BY DEF Reported, Unnoticed, Events, M33, Profile
<1>1. Typed'
  BY ZenonT(60), <1>0 DEF Typed, CoreTypeOK, Profile, Events, calm, M33, Targets, Ops, Reads, Writes,
    NoTarget, Placed, Flags, Steps
<1>2. Placed'
  BY <1>0 DEF Typed, Placed, Changed, Accesses, StepPcs, Unresolved, Targets, Steps, Clear
<1>3. Changed'
  BY <1>0 DEF Typed, Changed, Placed, Claiming
<1>4. Unsure'
  BY ZenonT(60), <1>0 DEF Typed, Unsure, Placed, Changed, Claiming, ControlWrites, Unresolved, Enabled, Clear
<1>5. Snap'
  BY Zenon, <1>0 DEF Snap
<1>6. Enabled'
  BY Zenon, <1>0 DEF Typed, Enabled, Placed, Changed, Claiming, Unresolved, StepPcs
<1>7. Transfer'
  BY Zenon, <1>0 DEF Transfer, Placed, Changed, Claiming, ControlWrites, Unresolved, StepPcs
<1>8. Stopped' /\ Closed'
  BY Zenon, <1>0 DEF Stopped, Closed, Placed
<1>9. Claimed'
  BY Zenon, <1>0 DEF Typed, Claimed, Placed, Changed
<1>10. Reported => HaltKept'
  BY Zenon, <1>0 DEF Typed, Owned, HaltKept, Claimed, Placed, Enabled
<1> QED BY Zenon, <1>1, <1>2, <1>3, <1>4, <1>5, <1>6, <1>7, <1>8, <1>9, <1>10, <1>0 DEF Held, Parts, Owned

\* Release lets the target go once it no longer claims the halt.
LEMMA Finishing ==
  ASSUME Held, NEW where, ReadAt(where) \/ AccessAt(where) \/ ReadFailsAt(where),
         t.step = "idle" \/ "C_STEP" \notin dhcsr,
         NEW s \in Targets, s.step = "idle", "closing" \in s.flags, Finish(s), claim' = "mine" => "C_HALT" \notin dhcsr'
  PROVE  Gone'
<1>1. {"memory"} \in SUBSET Flags BY DEF Flags
<1>2. t' = Without(s, {"memory"}) /\ op' = "none" /\ pc' = "idle" BY Zenon DEF Finish, Return
<1>3. t' \in Targets /\ t'.flags = s.flags \ {"memory"} /\ t'.step = "idle" BY <1>1, <1>2, Fields
<1>4. Released(t)' BY <1>3 DEF Released
<1> USE DEF Held, Parts, ReadAt, ReadFailsAt, AccessAt, coreVars, ghosts, Consumed, Sticky, GivenUp
<1>5. Reported' = Reported /\ M33' = M33 BY DEF Reported, Unnoticed, Events, M33, Profile
<1>6. CoreTypeOK' /\ claim' \in {"mine", "restarted", "foreign"} /\ quiet' \in BOOLEAN /\ unsure' \in BOOLEAN
  BY ZenonT(60) DEF Typed, CoreTypeOK, Profile, Events
<1>7. "C_STEP" \notin dhcsr' BY Zenon DEF Enabled
<1>8. "S_HALT" \in dhcsr' => "C_DEBUGEN" \in dhcsr' /\ ("HALTED" \in dfsr' \/ "EXTERNAL" \in dfsr')
  BY Zenon DEF Enabled, Claimed
<1>9. M33 \/ ("S_SDE" \notin dhcsr' /\ "S_RESTART_ST" \notin dhcsr') BY Zenon DEF Enabled
<1>10. unsure' /\ "C_HALT" \in dhcsr' => "C_DEBUGEN" \in dhcsr' BY Zenon DEF Unsure
<1>11. Reported /\ M33 => (secureAllowed' <=> "S_SDE" \in dhcsr') BY Zenon DEF Owned, HaltKept
<1> QED BY Zenon, <1>2, <1>3, <1>4, <1>5, <1>6, <1>7, <1>8, <1>9, <1>10, <1>11 DEF Gone

\* Release goes on to restore the core after a read.
LEMMA ReadRestores ==
  ASSUME Held, NEW where \in Reads \ {"acquire.read"}, ReadAt(where), Observed(t, t', dhcsr),
         t.step = "idle" \/ (t.step = "restoring" /\ "C_STEP" \notin dhcsr /\ (M33 => "S_RESTART_ST" \notin dhcsr)),
         op = "Release", op' = "Release", pc' = "restore.read", t'.step = "idle",
         "changed" \in t'.flags, "registerPending" \notin t'.flags
  PROVE  Held'
<1> USE DEF Reads, Held, Parts, ReadAt, Consumed, Sticky, GivenUp, Observed
<1>0. Reported' = Reported /\ M33' = M33 BY Zenon DEF Reported, Unnoticed, Events, M33, Profile
<1>1. Typed'
  BY Zenon, <1>0 DEF Typed, CoreTypeOK, Profile, Events, calm, M33, Targets, Ops, Reads, Writes, NoTarget, Placed,
    Flags, Steps
<1>2. Placed'
  BY Zenon, <1>0 DEF Typed, Placed, Changed, Accesses, StepPcs, Unresolved, Targets, Steps, Clear
<1>3. Changed'
  BY <1>0 DEF Typed, Changed, Placed, Claiming, Unresolved, StepPcs, Enabled, Targets, Clear
<1>4. Unsure'
  BY ZenonT(60), <1>0 DEF Typed, Unsure, Placed, Changed, Claiming, ControlWrites, Unresolved, Enabled, Clear
<1>5. Snap'
  BY Zenon, <1>0 DEF Snap, Placed, ControlWrites
<1>6. Enabled'
  BY Zenon, <1>0 DEF Typed, Enabled, Placed, Changed, Claiming, Unresolved, StepPcs
<1>7. Transfer'
  BY Zenon, <1>0 DEF Transfer, Placed, Changed, Claiming, ControlWrites, Unresolved, StepPcs
<1>8. Stopped' /\ Closed'
  BY Zenon, <1>0 DEF Stopped, Closed, Placed
<1>9. Claimed'
  BY Zenon, <1>0 DEF Typed, Claimed, Placed, Changed, Claiming, Enabled, Unresolved, StepPcs
<1>10. Reported => HaltKept'
  BY Zenon, <1>0 DEF Typed, Owned, HaltKept, Claimed, Placed, Enabled, Changed, Unresolved, debugAllowed, Profile,
    StepPcs, Claiming
<1> QED BY Zenon, <1>1, <1>2, <1>3, <1>4, <1>5, <1>6, <1>7, <1>8, <1>9, <1>10, <1>0 DEF Held, Parts, Owned

\* Release, or the Release inside a failed Acquire, begins with restoring the core.
LEMMA CallRestores ==
  ASSUME Held, NEW where, AccessAt(where), where # "acquire.read", op \in {"none", "Acquire"},
         op' = "Release", pc' = "restore.read", "memory" \in t.flags, t.step = "idle", t' = With(t, {"closing"}),
         "changed" \in t.flags, "registerPending" \notin t.flags
  PROVE  Held'
<1>1. t' \in Targets /\ t'.flags = t.flags \cup {"closing"} /\ t'.saved = t.saved /\ t'.step = t.step
  BY Fields DEF Held, Typed, Targets, Flags
<1> USE <1>1 DEF Held, Parts, AccessAt, coreVars, ghosts
<1>0. Reported' = Reported /\ M33' = M33 BY Zenon DEF Reported, Unnoticed, Events, M33, Profile
<1>2. Typed'
  BY <1>0 DEF Typed, CoreTypeOK, Profile, Events, calm, M33, Targets, Ops, Reads, Writes, NoTarget, Placed,
    Flags, Steps
<1>3. Placed'
  BY Zenon, <1>0 DEF Typed, Placed, Changed, Accesses, StepPcs, Unresolved, Targets, Steps, Clear
<1>4. Changed'
  BY Zenon, <1>0 DEF Typed, Changed, Placed, Claiming, Unresolved, StepPcs, Enabled, Targets, Clear
<1>5. Unsure'
  BY Zenon, <1>0 DEF Typed, Unsure, Placed, Changed, Claiming, ControlWrites, Unresolved, Enabled, Clear
<1>6. Snap'
  BY Zenon, <1>0 DEF Snap, Placed, ControlWrites
<1>7. Enabled'
  BY Zenon, <1>0 DEF Typed, Enabled, Placed, Changed, Claiming, Unresolved, StepPcs
<1>8. Transfer'
  BY Zenon, <1>0 DEF Transfer, Placed, Changed
<1>9. Stopped' /\ Closed'
  BY Zenon, <1>0 DEF Stopped, Closed, Placed
<1>10. Claimed'
  BY Zenon, <1>0 DEF Typed, Claimed, Placed, Changed, Claiming, Enabled, Unresolved, StepPcs
<1>11. Reported => HaltKept'
  BY <1>0 DEF Typed, Owned, HaltKept, Claimed, Placed, Enabled
<1> QED BY Zenon, <1>2, <1>3, <1>4, <1>5, <1>6, <1>7, <1>8, <1>9, <1>10, <1>11, <1>0 DEF Held, Parts, Owned

\* Release, as called, keeps the invariant.
LEMMA ReleaseStep == ASSUME Held, Release PROVE Held' \/ Gone'
<1>0. Reported' = Reported /\ M33' = M33 BY DEF Reported, Unnoticed, Events, M33, Profile, Release
<1>1. t \in Targets /\ pc = "idle" /\ op = "none" /\ "memory" \in t.flags BY Zenon DEF Release, Held, Typed, Targets
<1> DEFINE s == With(t, {"closing"})
<1>2. s \in Targets /\ s.flags = t.flags \cup {"closing"} /\ s.saved = t.saved /\ s.step = t.step
  BY <1>1, Fields DEF Flags
<1>3. UNCHANGED <<coreVars, ghosts, world>> /\ AccessAt("idle") BY Zenon, <1>1 DEF Release, AccessAt
<1> HIDE DEF s
<1>4. CASE Abandon(t)
  <2>1. t' = s /\ op' = "none" /\ pc' = "idle" BY Zenon, <1>4 DEF Abandon, Return, s
  <2> USE <2>1, <1>0, <1>1, <1>2, <1>3 DEF Held, Parts, coreVars, ghosts
  <2>2. Typed'
    BY DEF Typed, CoreTypeOK, Profile, Events, calm, M33, Targets
  <2>3. Placed'
    BY Zenon DEF Typed, Placed, Changed, Accesses, StepPcs, Unresolved, Targets, Steps, Clear
  <2>4. Changed'
    BY Zenon DEF Typed, Changed, Placed, Claiming, Unresolved
  <2>5. Unsure'
    BY Zenon DEF Typed, Unsure, Placed, Changed, Claiming, ControlWrites, Unresolved, Enabled, Clear
  <2>6. Snap'
    BY Zenon DEF Snap, Placed
  <2>7. Enabled'
    BY Zenon DEF Typed, Enabled, Placed, Changed, Claiming, Unresolved, StepPcs
  <2>8. Transfer'
    BY DEF Transfer, Placed, Changed, Claiming, ControlWrites, Unresolved, StepPcs
  <2>9. Stopped' /\ Closed'
    BY Zenon DEF Stopped, Closed
  <2>10. Claimed'
    BY Zenon DEF Typed, Claimed, Placed, Changed, Claiming, Enabled, Unresolved, StepPcs
  <2>11. Reported => HaltKept'
    BY DEF Typed, Owned, HaltKept, Claimed, Placed, Enabled
  <2> QED BY Zenon, <2>2, <2>3, <2>4, <2>5, <2>6, <2>7, <2>8, <2>9, <2>10, <2>11 DEF Held, Parts, Owned
<1>5. CASE /\ {"registerPending", "changed"} \cap s.flags = {} /\ s.step = "idle" /\ Finish(s)
  <2>1. "changed" \notin t.flags /\ t.step = "idle" BY Zenon, <1>2, <1>5
  <2>2. claim' = "mine" => "C_HALT" \notin dhcsr'
    BY Zenon, <2>1, <1>3 DEF Held, Parts, Claimed, Changed, Claiming, Unresolved, coreVars, ghosts
  <2>3. "closing" \in s.flags BY Zenon, <1>2
  <2> QED BY Zenon, <2>1, <2>2, <2>3, <1>2, <1>3, <1>5, Finishing
<1>6. CASE /\ t' = s /\ op' = "Release" /\ pc' = "register.read" /\ "registerPending" \in s.flags
  <2> USE <1>0, <1>1, <1>2, <1>3, <1>6 DEF Held, Parts, coreVars, ghosts
  <2>2. Typed'
    BY DEF Typed, CoreTypeOK, Profile, Events, calm, M33, Targets, Ops, Reads, Writes, NoTarget, Placed,
      Flags, Steps
  <2>3. Placed'
    BY Zenon DEF Typed, Placed, Changed, Accesses, StepPcs, Unresolved, Targets, Steps, Clear
  <2>4. Changed'
    BY Zenon DEF Typed, Changed, Placed, Claiming, Unresolved
  <2>5. Unsure'
    BY Zenon DEF Typed, Unsure, Placed, Changed, Claiming, ControlWrites, Unresolved, Enabled, Clear
  <2>6. Snap'
    BY Zenon DEF Snap, Placed, ControlWrites
  <2>7. Enabled'
    BY Zenon DEF Typed, Enabled, Placed, Changed, Claiming, Unresolved, StepPcs
  <2>8. Transfer'
    BY Zenon DEF Transfer, Placed, Changed, Claiming
  <2>9. Stopped' /\ Closed'
    BY Zenon DEF Stopped, Closed
  <2>10. Claimed'
    BY ZenonT(30) DEF Typed, Claimed, Placed, Changed, Claiming, Enabled, Unresolved, StepPcs
  <2>11. Reported => HaltKept'
    BY Zenon DEF Typed, Owned, HaltKept, Claimed, Placed, Enabled
  <2> QED BY Zenon, <2>2, <2>3, <2>4, <2>5, <2>6, <2>7, <2>8, <2>9, <2>10, <2>11 DEF Held, Parts, Owned
<1>7. CASE /\ t' = s /\ op' = "Release" /\ pc' = "settle.read" /\ "registerPending" \notin s.flags /\ s.step # "idle"
  <2> USE <1>0, <1>1, <1>2, <1>3, <1>7 DEF Held, Parts, coreVars, ghosts
  <2>2. Typed'
    BY DEF Typed, CoreTypeOK, Profile, Events, calm, M33, Targets, Ops, Reads, Writes, NoTarget, Placed,
      Flags, Steps
  <2>3. Placed'
    BY Zenon DEF Typed, Placed, Changed, Accesses, StepPcs, Unresolved, Targets, Steps, Clear
  <2>4. Changed'
    BY Zenon DEF Typed, Changed, Placed, Claiming, Unresolved
  <2>5. Unsure'
    BY Zenon DEF Typed, Unsure, Placed, Changed, Claiming
  <2>6. Snap'
    BY Zenon DEF Snap, Placed, ControlWrites
  <2>7. Enabled'
    BY Zenon DEF Typed, Enabled, Placed, Changed
  <2>8. Transfer'
    BY Zenon DEF Transfer, Placed, Changed, Claiming
  <2>9. Stopped' /\ Closed'
    BY Zenon DEF Stopped, Closed
  <2>10. Claimed'
    BY Zenon DEF Typed, Claimed, Placed, Changed
  <2>11. Reported => HaltKept'
    BY Zenon DEF Typed, Owned, HaltKept, Claimed, Placed, Enabled
  <2> QED BY Zenon, <2>2, <2>3, <2>4, <2>5, <2>6, <2>7, <2>8, <2>9, <2>10, <2>11 DEF Held, Parts, Owned
<1>8. CASE /\ t' = s /\ op' = "Release" /\ pc' = "restore.read" /\ "registerPending" \notin s.flags /\ s.step = "idle"
           /\ "changed" \in s.flags
  BY Zenon, <1>1, <1>2, <1>3, <1>8, CallRestores DEF s
<1> QED
  <2>1. ReleaseFrom(s) \/ Abandon(t) BY DEF Release, s
  <2>2. CASE ReleaseFrom(s)
    <3>1. {"registerPending", "changed"} \cap s.flags # {} => "registerPending" \in s.flags \/ "changed" \in s.flags
      OBVIOUS
    <3> QED BY <2>2, <3>1, <1>5, <1>6, <1>7, <1>8 DEF ReleaseFrom
  <2> QED BY Zenon, <2>1, <2>2, <1>4

\* The other API calls only begin an access.
LEMMA CallStep ==
  ASSUME Held, NEW name, NEW where, NEW r, Call(name, where, r),
         \/ name = "Acquire" /\ where = "acquire.read" /\ "memory" \notin t.flags /\ r = NoTarget
         \/ active /\ r = t /\ name = "Halt" /\ where = "halt.read"
         \/ active /\ r = t /\ name = "Halted" /\ where = "status.read"
         \/ active /\ r = t /\ name \in {"ReadRegister", "WriteRegister", "Step"} /\ where = "register.read"
  PROVE  Held'
<1>1. t' = t /\ op' = name /\ pc' = where /\ op = "none" /\ pc = "idle" /\ UNCHANGED <<coreVars, ghosts, world>>
  BY Zenon DEF Call, Held, Typed
<1>2. Reported' = Reported /\ M33' = M33 BY Zenon, <1>1 DEF Reported, Unnoticed, Events, M33, Profile
<1>3. active => "memory" \in t.flags /\ "closing" \notin t.flags BY DEF active
<1>4. "memory" \notin t.flags => t.flags = {} /\ t.saved = {} /\ t.step = "idle" BY DEF Held, Typed, NoTarget
<1> USE <1>1, <1>2, <1>3, <1>4 DEF Held, Parts, coreVars, ghosts
<1>5. Typed'
  BY DEF Typed, CoreTypeOK, Profile, Events, calm, M33, Targets, Ops, Reads, Writes, NoTarget, Placed, Flags,
    Steps
<1>6. Placed'
  BY Zenon DEF Typed, Placed, Changed, Accesses, StepPcs
<1>7. Changed'
  BY Zenon DEF Typed, Changed, Placed, Claiming, Unresolved
<1>8. Unsure'
  BY Zenon DEF Typed, Unsure, Placed, Changed, Claiming, ControlWrites, Unresolved, Enabled, Clear
<1>9. Snap'
  BY Zenon DEF Snap, Placed, ControlWrites
<1>10. Enabled'
  BY Zenon DEF Typed, Enabled, Placed, Changed
<1>11. Transfer'
  BY Zenon DEF Transfer, Placed, Changed, Claiming, ControlWrites, Unresolved, StepPcs
<1>12. Stopped' /\ Closed'
  BY Zenon DEF Stopped, Closed
<1>13. Claimed'
  BY ZenonT(30) DEF Typed, Claimed, Placed, Changed
<1>14. Reported => HaltKept'
  BY Zenon DEF Typed, Owned, HaltKept, Claimed, Placed, Enabled
<1> QED BY Zenon, <1>5, <1>6, <1>7, <1>8, <1>9, <1>10, <1>11, <1>12, <1>13, <1>14 DEF Held, Parts, Owned

\* Resume, as called, keeps the invariant.
LEMMA ResumeCallStep == ASSUME Held, Resume PROVE Held'
<1>1. t' = t /\ op' = "Resume" /\ pc' = (IF M33 THEN "resume.read" ELSE "resume.write") /\ op = "none" /\ pc = "idle"
      /\ UNCHANGED <<coreVars, ghosts, world>>
  BY DEF Call, Resume, Held, Typed
<1>2. Reported' = Reported /\ M33' = M33 BY <1>1 DEF Reported, Unnoticed, Events, M33, Profile
<1>3. "memory" \in t.flags /\ "closing" \notin t.flags /\ "haltOwned" \in t.flags BY DEF Resume, active
<1> USE <1>1, <1>2, <1>3 DEF Held, Parts, coreVars, ghosts
<1>5. Typed'
  BY DEF Typed, CoreTypeOK, Profile, Events, calm, M33, Targets, Ops, Reads, Writes, NoTarget, Placed, Flags,
    Steps
<1>6. Placed'
  BY Zenon DEF Typed, Placed, Changed, Accesses, StepPcs
<1>7. Changed'
  BY Zenon DEF Typed, Changed, Placed, Claiming, Unresolved
<1>8. Unsure'
  BY Zenon DEF Typed, Unsure, Placed, Changed, Claiming
<1>9. Snap'
  BY Zenon DEF Snap, Placed, ControlWrites
<1>10. Enabled'
  BY Zenon DEF Typed, Enabled, Placed, Changed
<1>11. Transfer'
  BY DEF Transfer, Placed, Changed, Claiming
<1>12. Stopped' /\ Closed'
  BY Zenon DEF Stopped, Closed
<1>13. Claimed'
  BY Zenon DEF Typed, Claimed, Placed, Changed
<1>14. Reported => HaltKept'
  BY DEF Typed, Owned, HaltKept, Claimed, Placed, Enabled
<1> QED BY Zenon, <1>5, <1>6, <1>7, <1>8, <1>9, <1>10, <1>11, <1>12, <1>13, <1>14 DEF Held, Parts, Owned

\* Every API call keeps the invariant.
LEMMA ApiStep == ASSUME Held, ApiCall PROVE Held'
<1>1. CASE Acquire \/ Halt \/ HaltedCall \/ Step \/ ReadRegister \/ WriteRegister
  BY <1>1, CallStep DEF Acquire, Halt, HaltedCall, Step, ReadRegister, WriteRegister
<1> QED BY Zenon, <1>1, ResumeCallStep DEF ApiCall

\* The read of DHCSR that takes the core over keeps the invariant.
LEMMA AcquireReadStep == ASSUME Held, AcquireRead PROVE Held'
<1> DEFINE fresh == [NoTarget EXCEPT !.flags = {"memory"}]
<1>1. fresh \in Targets /\ fresh.flags = {"memory"} /\ fresh.saved = {} /\ fresh.step = "idle"
  BY DEF NoTarget, Targets, Flags, Steps
<1>2. pc = "acquire.read" /\ op = "Acquire" /\ t = NoTarget
  BY ZenonT(60) DEF AcquireRead, ReadAt, ReadFailsAt, Held, Parts, Placed, Accesses, StepPcs, Typed, Ops
<1>3. t.step = "idle" /\ t.flags = {} /\ t.saved = {} BY Zenon, <1>2 DEF NoTarget
<1>4. CASE Return(NoTarget) /\ (ReadAt("acquire.read") \/ ReadFailsAt("acquire.read"))
  <2>1. claim' = "mine" => "C_HALT" \notin dhcsr'
    BY Zenon, <1>3, <1>4 DEF Held, Parts, Claimed, Claiming, Unresolved, ReadAt, ReadFailsAt, Consumed, Sticky, GivenUp
  <2> QED BY Zenon, <2>1, <1>3, <1>4, NoneAcquired
<1>5. CASE ReadAt("acquire.read") /\ validateControl(dhcsr)
           /\ "C_DEBUGEN" \in dhcsr /\ Return([fresh EXCEPT !.saved = dhcsr \cap {"C_DEBUGEN", "C_HALT"}])
  <2>1. t' \in Targets /\ t'.flags = {"memory"} /\ t'.step = "idle" /\ t'.saved = dhcsr \cap {"C_DEBUGEN", "C_HALT"}
        /\ op' = "none" /\ pc' = "idle" BY ZenonT(60), <1>5, <1>1 DEF Return, NoTarget, Targets
  <2>2. Reported' = Reported /\ M33' = M33 BY <1>5 DEF Reported, Unnoticed, Events, M33, Profile, ReadAt
  <2>3. "C_HALT" \in dhcsr => "S_HALT" \in dhcsr BY Zenon, <1>5 DEF validateControl
  <2> HIDE DEF fresh
  <2> USE <1>2, <1>3, <1>5, <2>1, <2>2, <2>3 DEF Held, Parts, ReadAt, Consumed, Sticky, GivenUp
  <2>4. Typed'
    BY Zenon DEF Typed, CoreTypeOK, Profile, Events, calm, M33, Targets, Ops, Reads, Writes, NoTarget, Placed,
      Flags, Steps
  <2>5. Placed'
    BY Zenon DEF Typed, Placed, Changed, Accesses, StepPcs, Unresolved, Targets, Steps, Clear
  <2>6. Changed'
    BY Zenon DEF Typed, Changed, Placed, Claiming, Unresolved
  <2>7. Unsure'
    BY DEF Typed, Unsure, Placed, Changed, Claiming, ControlWrites, Unresolved, Enabled, Clear
  <2>8. Snap'
    BY Zenon DEF Snap, Placed
  <2>9. Enabled'
    BY DEF Typed, Enabled, Placed, Changed
  <2>10. Transfer'
    BY DEF Transfer, Placed, Changed, Claiming, ControlWrites, Unresolved, StepPcs
  <2>11. Stopped' /\ Closed'
    BY Zenon DEF Stopped, Closed
  <2>12. Claimed'
    BY Zenon DEF Typed, Claimed, Placed, Changed, Claiming, Enabled, Unresolved, StepPcs
  <2>13. Reported => HaltKept'
    BY Zenon DEF Typed, Owned, HaltKept, Claimed, Placed, Enabled
  <2> QED BY Zenon, <2>4, <2>5, <2>6, <2>7, <2>8, <2>9, <2>10, <2>11, <2>12, <2>13 DEF Held, Parts, Owned
<1>6. CASE ReadAt("acquire.read") /\ "C_DEBUGEN" \notin dhcsr /\ Goto(fresh, "control.write")
  <2>1. t' \in Targets /\ t'.flags = {"memory"} /\ t'.step = "idle" /\ t'.saved = {}
        /\ op' = op /\ pc' = "control.write" BY <1>6, <1>1 DEF Goto
  <2>2. Reported' = Reported /\ M33' = M33 BY <1>6 DEF Reported, Unnoticed, Events, M33, Profile, ReadAt
  <2>3. "S_HALT" \notin dhcsr BY Zenon, <1>6 DEF Held, Parts, Enabled
  <2> HIDE DEF fresh
  <2> USE <1>2, <1>3, <1>6, <2>1, <2>2, <2>3 DEF Held, Parts, ReadAt, Consumed, Sticky, GivenUp
  <2>4. Typed'
    BY Zenon DEF Typed, CoreTypeOK, Profile, Events, calm, M33, Targets, Ops, Reads, Writes, NoTarget, Placed,
      Flags, Steps
  <2>5. Placed'
    BY DEF Typed, Placed, Changed, Accesses, StepPcs, Unresolved, Targets, Steps, Clear
  <2>6. Changed'
    BY Zenon DEF Typed, Changed, Placed, Claiming, Unresolved
  <2>7. Unsure'
    BY ZenonT(60) DEF Typed, Unsure, Placed, Changed, Claiming
  <2>8. Snap'
    BY Zenon DEF Snap, Placed
  <2>9. Enabled'
    BY Zenon DEF Typed, Enabled, Placed, Changed, Claiming, Unresolved, StepPcs
  <2>10. Transfer'
    BY Zenon DEF Transfer, Placed, Changed, Claiming
  <2>11. Stopped' /\ Closed'
    BY Zenon DEF Stopped, Closed
  <2>12. Claimed'
    BY DEF Typed, Claimed, Placed, Changed, Claiming, Enabled, Unresolved, StepPcs
  <2>13. Reported => HaltKept'
    BY Zenon DEF Typed, Owned, HaltKept, Claimed, Placed, Enabled
  <2> QED BY Zenon, <2>4, <2>5, <2>6, <2>7, <2>8, <2>9, <2>10, <2>11, <2>12, <2>13 DEF Held, Parts, Owned
<1> QED BY <1>4, <1>5, <1>6 DEF AcquireRead

\* What an accepted write of the control bits makes of DHCSR.
LEMMA Written ==
  ASSUME NEW d \in SUBSET Bits, NEW control \in SUBSET {"C_DEBUGEN", "C_HALT", "C_STEP"}
  PROVE  LET w == writeControl(d, control) IN
         /\ w \in SUBSET Bits
         /\ \A b \in Bits \ Control : b \in w <=> b \in d
         /\ "C_DEBUGEN" \in w <=> "C_DEBUGEN" \in control
         /\ "C_STEP" \in w <=> "C_STEP" \in control /\ "C_DEBUGEN" \in control
         /\ "C_HALT" \in w <=> /\ "C_HALT" \in control /\ "C_DEBUGEN" \in control
                               /\ debugAllowed(d) \/ "C_HALT" \in d
BY DEF writeControl, Bits, Control, Sticky

\* Enabling or disabling halting debug keeps the invariant.
LEMMA ControlWriteStep == ASSUME Held, ControlWrite PROVE Held' \/ Gone'
<1>0. Reported' = Reported /\ M33' = M33
  BY DEF Reported, Unnoticed, Events, M33, Profile, ControlWrite, WriteAt, WriteFailsAt, FailsAt, AccessAt
<1>1. pc = "control.write" /\ op \in {"Acquire", "Release"}
  BY Zenon DEF ControlWrite, WriteAt, WriteFailsAt, FailsAt, AccessAt, Held, Parts, Placed, Accesses, StepPcs,
    Typed, Ops
<1>2. t \in Targets /\ t.saved = {} /\ t.step = "idle" /\ ~Claiming(t) /\ "memory" \in t.flags /\ "registerPending" \notin t.flags
      /\ "snapStalled" \notin t.flags /\ dhcsr \in SUBSET Bits
  BY Zenon, <1>1 DEF Held, Parts, Placed, Changed, StepPcs, Typed, CoreTypeOK, Targets, Snap, ControlWrites
<1>3. ~unsure BY <1>1, <1>2 DEF Held, Parts, Unsure, Claiming, ControlWrites
<1>4. Wanted = IF op = "Acquire" THEN {"C_DEBUGEN"} ELSE {} BY <1>2 DEF Wanted
<1>5. Wanted \in SUBSET {"C_DEBUGEN", "C_HALT", "C_STEP"} BY Zenon, <1>4
<1> DEFINE s == With(t, {"changed"})
<1>6. s \in Targets /\ s.flags = t.flags \cup {"changed"} /\ s.saved = t.saved /\ s.step = t.step BY Zenon, <1>2,
    Fields DEF Flags
<1> HIDE DEF s
<1>7. ASSUME dhcsr' = dhcsr \/ (checkControl(Wanted) /\ dhcsr' = writeControl(dhcsr, Wanted))
      PROVE  /\ dhcsr' \in SUBSET Bits
             /\ \A b \in Bits \ Control : b \in dhcsr' <=> b \in dhcsr
             /\ "C_STEP" \notin dhcsr'
             /\ "C_HALT" \in dhcsr' => "C_HALT" \in dhcsr
             /\ "C_DEBUGEN" \in dhcsr' => "C_DEBUGEN" \in dhcsr \/ op = "Acquire"
             /\ "S_HALT" \in dhcsr' => "C_DEBUGEN" \in dhcsr'
  <2>1. CASE dhcsr' = dhcsr BY Zenon, <2>1, <1>2 DEF Held, Parts, Enabled
  <2>2. CASE checkControl(Wanted) /\ dhcsr' = writeControl(dhcsr, Wanted)
    <3>1. "C_DEBUGEN" \notin Wanted => "S_HALT" \notin dhcsr BY <2>2 DEF checkControl
    <3>2. "S_HALT" \in Bits \ Control BY DEF Bits, Control
    <3>3. "C_HALT" \notin Wanted /\ "C_STEP" \notin Wanted /\ ("C_DEBUGEN" \in Wanted <=> op = "Acquire") BY <1>4
    <3> QED BY <2>2, <3>1, <3>2, <3>3, <1>2, <1>5, Written
  <2> QED BY Zenon, <1>7, <2>1, <2>2
<1>8. \A b \in {"S_HALT", "S_REGRDY", "S_SDE", "S_RESTART_ST"} : b \in Bits \ Control BY Zenon DEF Bits, Control,
    Sticky
<1>9. CASE WriteAt("control.write", Wanted, FALSE) /\ Goto(s, "control.read")
  <2>1. t' = s /\ op' = op /\ pc' = "control.read" BY <1>9 DEF Goto
  <2>2. /\ dhcsr' = dhcsr \/ (checkControl(Wanted) /\ dhcsr' = writeControl(dhcsr, Wanted))
        /\ claim' = claim /\ unsure' = FALSE /\ UNCHANGED <<dfsr, secureAllowed, unsafeMemory, quiet, world>>
    BY ZenonT(60), <1>9, <1>3 DEF WriteAt
  <2> USE <1>0, <1>1, <1>2, <1>6, <1>7, <1>8, <2>1, <2>2 DEF Held, Parts
  <2>3. Typed'
    BY ZenonT(60) DEF Typed, CoreTypeOK, Profile, Events, calm, M33, Targets, Ops, Reads, Writes, NoTarget,
      Placed, Flags, Steps
  <2>4. Placed'
    BY DEF Typed, Placed, Changed, Accesses, StepPcs, Unresolved, Targets, Steps, Clear
  <2>5. Changed'
    BY DEF Typed, Changed, Placed, Claiming, Unresolved
  <2>6. Unsure'
    BY DEF Typed, Unsure, Placed, Changed, Claiming
  <2>7. Snap'
    BY ZenonT(30) DEF Snap, Placed
  <2>8. Enabled'
    BY ZenonT(30) DEF Typed, Enabled, Placed, Changed, Claiming, Unresolved, StepPcs
  <2>9. Transfer'
    BY DEF Transfer, Placed, Changed, Claiming, ControlWrites, Unresolved, StepPcs
  <2>10. Stopped' /\ Closed'
    BY ZenonT(30) DEF Stopped, Closed
  <2>11. Claimed'
    BY DEF Typed, Claimed, Placed, Changed
  <2>12. Reported => HaltKept'
    BY Zenon DEF Typed, Owned, HaltKept, Claimed, Placed, Enabled, Changed, Unresolved, debugAllowed, Profile,
      StepPcs, Claiming
  <2> QED BY Zenon, <2>3, <2>4, <2>5, <2>6, <2>7, <2>8, <2>9, <2>10, <2>11, <2>12 DEF Held, Parts, Owned
<1>10. CASE WriteFailsAt("control.write", Wanted, FALSE) /\ ControlFailed(s)
  <2>1. /\ dhcsr' = dhcsr \/ (checkControl(Wanted) /\ dhcsr' = writeControl(dhcsr, Wanted))
        /\ claim' = claim /\ unsure' = FALSE /\ UNCHANGED <<dfsr, secureAllowed, unsafeMemory, quiet, world>>
    BY ZenonT(60), <1>10, <1>3 DEF WriteFailsAt
  <2>2. CASE op = "Acquire"
    <3>1. With(s, {"closing"}) \in Targets /\ With(s, {"closing"}).flags = s.flags \cup {"closing"}
          /\ With(s, {"closing"}).saved = s.saved /\ With(s, {"closing"}).step = s.step BY Zenon, <1>6, Closing
    <3>2. ReleaseFrom(With(s, {"closing"})) BY <1>10, <2>2 DEF ControlFailed
    <3>3. t' = With(s, {"closing"}) /\ op' = "Release" /\ pc' = "restore.read"
      BY Zenon, <3>1, <3>2, <1>2, <1>6 DEF ReleaseFrom
    <3> USE <1>0, <1>1, <1>2, <1>6, <1>7, <1>8, <2>1, <2>2, <3>1, <3>3 DEF Held, Parts
    <3>4. Typed'
      BY ZenonT(60) DEF Typed, CoreTypeOK, Profile, Events, calm, M33, Targets, Ops, Reads, Writes, NoTarget,
        Placed, Flags, Steps
    <3>5. Placed'
      BY DEF Typed, Placed, Changed, Accesses, StepPcs
    <3>6. Changed'
      BY ZenonT(30) DEF Typed, Changed, Placed, Claiming, Unresolved
    <3>7. Unsure'
      BY DEF Typed, Unsure, Placed, Changed, Claiming
    <3>8. Snap'
      BY ZenonT(30) DEF Snap, Placed
    <3>9. Enabled'
      BY DEF Typed, Enabled, Placed, Changed, Claiming, Unresolved, StepPcs
    <3>10. Transfer'
      BY Zenon DEF Transfer, Placed, Changed, Claiming, ControlWrites, Unresolved, StepPcs
    <3>11. Stopped' /\ Closed'
      BY ZenonT(30) DEF Stopped, Closed
    <3>12. Claimed'
      BY ZenonT(30) DEF Typed, Claimed, Placed, Changed
    <3>13. Reported => HaltKept'
      BY Zenon DEF Typed, Owned, HaltKept, Claimed, Placed, Enabled
    <3> QED BY Zenon, <3>4, <3>5, <3>6, <3>7, <3>8, <3>9, <3>10, <3>11, <3>12, <3>13 DEF Held, Parts, Owned
  <2>3. CASE op = "Release"
    <3>1. t' = s /\ op' = "none" /\ pc' = "idle" BY Zenon, <1>10, <2>3 DEF ControlFailed, Return
    <3> USE <1>0, <1>1, <1>2, <1>6, <1>7, <1>8, <2>1, <2>3, <3>1 DEF Held, Parts
    <3>2. Typed'
      BY ZenonT(60) DEF Typed, CoreTypeOK, Profile, Events, calm, M33, Targets, Ops, Reads, Writes, NoTarget,
        Placed, Flags, Steps
    <3>3. Placed'
      BY DEF Typed, Placed, Changed, Accesses, StepPcs
    <3>4. Changed'
      BY ZenonT(30) DEF Typed, Changed, Placed, Claiming, Unresolved
    <3>5. Unsure'
      BY DEF Typed, Unsure, Placed, Changed, Claiming
    <3>6. Snap'
      BY ZenonT(30) DEF Snap, Placed
    <3>7. Enabled'
      BY Zenon DEF Typed, Enabled, Placed, Changed, Claiming, Unresolved, StepPcs
    <3>8. Transfer'
      BY ZenonT(30) DEF Transfer, Placed, Changed, Claiming
    <3>9. Stopped' /\ Closed'
      BY DEF Stopped, Closed
    <3>10. Claimed'
      BY ZenonT(30) DEF Typed, Claimed, Placed, Changed
    <3>11. Reported => HaltKept'
      BY Zenon DEF Typed, Owned, HaltKept, Claimed, Placed, Enabled, Changed, Unresolved, debugAllowed, Profile,
        StepPcs, Claiming
    <3> QED BY Zenon, <3>2, <3>3, <3>4, <3>5, <3>6, <3>7, <3>8, <3>9, <3>10, <3>11 DEF Held, Parts, Owned
  <2> QED BY <1>1, <2>2, <2>3
<1>11. CASE FailsAt("control.write") /\ ControlFailed(t)
  <2>1. AccessAt("control.write") BY <1>11 DEF FailsAt
  <2>2. CASE op = "Acquire"
    <3>1. With(t, {"closing"}) \in Targets /\ With(t, {"closing"}).flags = t.flags \cup {"closing"}
          /\ With(t, {"closing"}).saved = t.saved /\ With(t, {"closing"}).step = t.step BY <1>2,
              Fields DEF Flags
    <3>2. ReleaseFrom(With(t, {"closing"})) BY <1>11, <2>2 DEF ControlFailed
    <3>3. CASE "changed" \in t.flags
      <4>1. t' = With(t, {"closing"}) /\ op' = "Release" /\ pc' = "restore.read"
        BY Zenon, <3>1, <3>2, <3>3, <1>2 DEF ReleaseFrom
      <4> QED BY Zenon, <4>1, <1>2, <2>1, <2>2, <3>3, CallRestores
    <3>4. CASE "changed" \notin t.flags
      <4>1. Finish(With(t, {"closing"})) BY Zenon, <3>1, <3>2, <3>4, <1>2 DEF ReleaseFrom
      <4>2. claim' = "mine" => "C_HALT" \notin dhcsr'
        BY Zenon, <1>2, <2>1 DEF AccessAt, coreVars, ghosts, Held, Parts, Claimed
      <4>3. "closing" \in With(t, {"closing"}).flags BY Zenon, <3>1
      <4> QED BY Zenon, <3>1, <4>1, <4>2, <4>3, <1>2, <2>1, Finishing
    <3> QED BY Zenon, <3>3, <3>4
  <2>3. CASE op = "Release"
    <3>1. t' = t /\ op' = "none" /\ pc' = "idle" BY Zenon, <1>11, <2>3 DEF ControlFailed, Return
    <3>2. Clear(t) BY ZenonT(30), <1>2 DEF Clear, Claiming
    <3> QED BY Zenon, <3>1, <3>2, <1>2, <2>1, AccessReturns DEF StepPcs
  <2> QED BY <1>1, <2>2, <2>3
<1> QED BY ZenonT(60), <1>9, <1>10, <1>11 DEF ControlWrite, s

\* The read back after that write ends the call.
LEMMA ControlReadEnds ==
  ASSUME Held, ReadAt("control.read") \/ ReadFailsAt("control.read"), NEW s \in Targets,
         t.saved = {}, t.step = "idle", ~Claiming(t), op \in {"Acquire", "Release"},
         s.saved = {}, s.step = "idle", ~Claiming(s), "memory" \in s.flags, "registerPending" \notin s.flags,
         "registerPending" \notin t.flags, "changed" \in s.flags => "changed" \in t.flags,
         "closing" \in s.flags <=> "closing" \in t.flags,
         "snapStalled" \in s.flags => M33,
         "C_DEBUGEN" \in dhcsr => "changed" \in s.flags,
         ControlFailed(s) \/ Return(s)
  PROVE  Held' \/ Gone'
<1>0. Reported' = Reported /\ M33' = M33 BY ZenonT(60) DEF Reported, Unnoticed, Events, M33, Profile, ReadAt,
    ReadFailsAt
<1>1. pc = "control.read" /\ "memory" \in t.flags BY ZenonT(60) DEF ReadAt, ReadFailsAt, Held, Parts, Placed
<1>2. With(s, {"closing"}) \in Targets /\ With(s, {"closing"}).flags = s.flags \cup {"closing"}
      /\ With(s, {"closing"}).saved = s.saved /\ With(s, {"closing"}).step = s.step BY Zenon, Closing
<1>3. claim' = "mine" => "C_HALT" \notin dhcsr'
  BY Zenon DEF Held, Parts, Claimed, ReadAt, ReadFailsAt, Consumed, Sticky, GivenUp
<1>4. ~unsure BY <1>1 DEF Held, Parts, Unsure, Claiming
<1>5. unsure' = FALSE BY ZenonT(60), <1>4 DEF Held, Typed, ReadAt, ReadFailsAt
<1>6. dhcsr' \subseteq dhcsr /\ (\A b \in Bits \ Sticky : b \in dhcsr => b \in dhcsr')
      /\ UNCHANGED <<dfsr, secureAllowed, unsafeMemory, world>> /\ quiet' \in BOOLEAN /\ claim' \in {claim, "foreign"}
  BY ZenonT(60) DEF Held, Typed, ReadAt, ReadFailsAt, Consumed, GivenUp
<1>7. \A b \in {"S_HALT", "S_REGRDY", "S_SDE", "C_DEBUGEN", "C_HALT", "C_STEP"} : b \in Bits \ Sticky
  BY Zenon DEF Bits, Sticky, Control
<1>8. CASE Finish(With(s, {"closing"}))
  <2>1. "closing" \in With(s, {"closing"}).flags BY Zenon, <1>2
  <2> QED BY Zenon, <2>1, <1>2, <1>3, <1>8, Finishing
<1>9. CASE t' = With(s, {"closing"}) /\ op' = "Release" /\ pc' = "restore.read" /\ "changed" \in s.flags
  <2> USE <1>0, <1>1, <1>2, <1>3, <1>5, <1>6, <1>7, <1>9 DEF Held, Parts
  <2>1. Typed'
    BY ZenonT(60) DEF Typed, CoreTypeOK, Profile, Events, calm, M33, Targets, Ops, Reads, Writes, NoTarget,
      Placed, Flags, Steps
  <2>2. Placed'
    BY DEF Typed, Placed, Changed, Accesses, StepPcs
  <2>3. Changed'
    BY ZenonT(30) DEF Typed, Changed, Placed, Claiming, Unresolved
  <2>4. Unsure'
    BY DEF Typed, Unsure, Placed, Changed, Claiming
  <2>5. Snap'
    BY ZenonT(30) DEF Snap, Placed, ControlWrites
  <2>6. Enabled'
    BY Zenon DEF Typed, Enabled, Placed, Changed, Claiming, Unresolved, StepPcs
  <2>7. Transfer'
    BY ZenonT(30) DEF Transfer, Placed, Changed, Claiming
  <2>8. Stopped' /\ Closed'
    BY DEF Stopped, Closed
  <2>9. Claimed'
    BY ZenonT(30) DEF Typed, Claimed, Placed, Changed
  <2>10. Reported => HaltKept'
    BY ZenonT(30) DEF Typed, Owned, HaltKept, Claimed, Placed, Enabled, Changed, Unresolved, debugAllowed, Profile,
      StepPcs, Claiming
  <2> QED BY ZenonT(30), <2>1, <2>2, <2>3, <2>4, <2>5, <2>6, <2>7, <2>8, <2>9, <2>10 DEF Held, Parts, Owned
<1>10. CASE Return(s)
  <2> USE <1>0, <1>1, <1>3, <1>5, <1>6, <1>7, <1>10 DEF Held, Parts, Return
  <2>1. Typed'
    BY ZenonT(60) DEF Typed, CoreTypeOK, Profile, Events, calm, M33, Targets, Ops, Reads, Writes, NoTarget,
      Placed, Flags, Steps
  <2>2. Placed'
    BY DEF Typed, Placed, Changed, Accesses, StepPcs, Unresolved, Targets, Steps, Clear, Claiming
  <2>3. Changed'
    BY ZenonT(30) DEF Typed, Changed, Placed, Claiming, Unresolved
  <2>4. Unsure'
    BY DEF Typed, Unsure, Placed, Changed, Claiming
  <2>5. Snap'
    BY ZenonT(30) DEF Snap, Placed, ControlWrites
  <2>6. Enabled'
    BY DEF Typed, Enabled, Placed, Changed
  <2>7. Transfer'
    BY ZenonT(30) DEF Transfer, Placed, Changed, Claiming, ControlWrites, Unresolved, StepPcs
  <2>8. Stopped' /\ Closed'
    BY DEF Stopped, Closed
  <2>9. Claimed'
    BY ZenonT(30) DEF Typed, Claimed, Placed, Changed, Claiming, Enabled, Unresolved, StepPcs
  <2>10. Reported => HaltKept'
    BY ZenonT(30) DEF Typed, Owned, HaltKept, Claimed, Placed, Enabled, Changed, Unresolved, debugAllowed, Profile,
      StepPcs, Claiming
  <2> QED BY ZenonT(30), <2>1, <2>2, <2>3, <2>4, <2>5, <2>6, <2>7, <2>8, <2>9, <2>10 DEF Held, Parts, Owned
<1>11. CASE ReleaseFrom(With(s, {"closing"}))
  <2>1. {"registerPending", "changed"} \cap With(s, {"closing"}).flags # {} => "changed" \in s.flags BY Zenon, <1>2
  <2>2. With(s, {"closing"}).step = "idle" /\ "registerPending" \notin With(s, {"closing"}).flags BY <1>2
  <2> QED BY Zenon, <1>8, <1>9, <1>11, <2>1, <2>2 DEF ReleaseFrom
<1> QED BY <1>10, <1>11 DEF ControlFailed

\* Reading C_DEBUGEN back keeps the invariant.
LEMMA ControlReadStep == ASSUME Held, ControlRead PROVE Held' \/ Gone'
<1>1. pc = "control.read" /\ op \in {"Acquire", "Release"}
  BY ZenonT(60) DEF ControlRead, ReadAt, ReadFailsAt, Held, Parts, Placed, Accesses, StepPcs, Typed, Ops
<1>2. t \in Targets /\ t.saved = {} /\ t.step = "idle" /\ ~Claiming(t) /\ "memory" \in t.flags /\ "registerPending" \notin t.flags
      /\ ("C_DEBUGEN" \in dhcsr => "changed" \in t.flags) /\ ("snapStalled" \in t.flags => M33)
  BY Zenon, <1>1 DEF Held, Parts, Placed, Changed, StepPcs, Typed, CoreTypeOK, Targets, Snap, ControlWrites
<1>3. CASE ReadFailsAt("control.read") /\ ControlFailed(readDHCSRFailed(t))
  <2>1. readDHCSRFailed(t) = t BY Zenon, <1>2 DEF readDHCSRFailed, Claiming
  <2> QED BY Zenon, <1>1, <1>2, <1>3, <2>1, ControlReadEnds
<1> DEFINE seen == readDHCSR(t, dhcsr)
<1> DEFINE s == IF "C_DEBUGEN" \notin dhcsr /\ t.saved = {} THEN Without(seen, {"changed"}) ELSE seen
<1>4. CASE ReadAt("control.read") /\ (ControlFailed(s) \/ Return(s) \/ (op = "Release" /\ Finish(s)))
  <2>1. Observed(t, seen, dhcsr) /\ seen.step = t.step /\ ("closing" \in seen.flags <=> "closing" \in t.flags)
    BY Zenon, <1>2, ReadSeen
  <2>2. seen \in Targets BY Zenon, <2>1 DEF Observed
  <2> HIDE DEF seen
  <2>3. Without(seen, {"changed"}) \in Targets /\ Without(seen, {"changed"}).flags = seen.flags \ {"changed"}
        /\ Without(seen, {"changed"}).saved = seen.saved /\ Without(seen, {"changed"}).step = seen.step
    BY Zenon, <2>2, Fields DEF Flags
  <2>4. s \in Targets /\ s.saved = {} /\ s.step = "idle" /\ ~Claiming(s) /\ "memory" \in s.flags /\ "registerPending" \notin s.flags
    BY Zenon, <2>1, <2>3, <1>2 DEF Observed, Claiming, Unresolved
  <2>5. /\ "closing" \in s.flags <=> "closing" \in t.flags
        /\ "snapStalled" \in s.flags => M33
        /\ "changed" \in s.flags => "changed" \in t.flags
        /\ "C_DEBUGEN" \in dhcsr => "changed" \in s.flags
    BY Zenon, <2>1, <2>3, <1>2 DEF Observed, Claiming, Unresolved
  <2> HIDE DEF s
  <2>7. CASE op = "Release" /\ Finish(s)
    <3>1. claim' = "mine" => "C_HALT" \notin dhcsr'
      BY Zenon, <1>2, <1>4 DEF Held, Parts, Claimed, ReadAt, Consumed, Sticky, GivenUp
    <3>2. "closing" \in s.flags BY Zenon, <2>5, <2>7 DEF Held, Parts, Placed
    <3> QED BY Zenon, <3>1, <3>2, <2>4, <2>7, <1>2, <1>4, Finishing
  <2>8. CASE ControlFailed(s) \/ Return(s)
    BY Zenon, <1>1, <1>2, <1>4, <2>4, <2>5, <2>8, ControlReadEnds
  <2> QED BY Zenon, <1>4, <2>7, <2>8
<1> QED BY Zenon, <1>3, <1>4 DEF ControlRead

-----------------------------------------------------------------------------
\* Requests to halt and to resume, the wait for them and Release.

\* debugAllowed in terms of the profile.
LEMMA Profiles == ASSUME Typed PROVE \A d : debugAllowed(d) <=> ~M33 \/ "S_SDE" \in d
<1>1. Profile \in {"M0", "M33"} BY Zenon, WorldsAssumption DEF Typed, CoreTypeOK
<1> QED BY Zenon, <1>1 DEF debugAllowed, M33

\* An error other than a context error leaves only Release.
LEMMA ErrorSeen ==
  ASSUME NEW s \in Targets, NEW cause
  PROVE  /\ Withdrawn(s, readError(readDHCSRFailed(s), cause))
         /\ "closing" \in readError(readDHCSRFailed(s), cause).flags \/ Clear(readError(readDHCSRFailed(s), cause))
<1> DEFINE r == readDHCSRFailed(s)
<1>1. Withdrawn(s, r) BY Zenon, FailedReadSeen
<1>2. r \in Targets BY Zenon, <1>1 DEF Withdrawn
<1> HIDE DEF r
<1>3. With(r, {"closing"}) \in Targets /\ With(r, {"closing"}).flags = r.flags \cup {"closing"}
      /\ With(r, {"closing"}).saved = r.saved /\ With(r, {"closing"}).step = r.step BY Zenon, <1>2, Fields DEF Flags
<1>4. Withdrawn(s, With(r, {"closing"})) BY Zenon, <1>1, <1>3 DEF Withdrawn
<1>5. CASE readError(r, cause) = With(r, {"closing"}) BY Zenon, <1>3, <1>4, <1>5 DEF r
<1>6. CASE readError(r, cause) # With(r, {"closing"})
  <2>1. readError(r, cause) = r /\ r.step = "idle" /\ r.flags \cap {"registerPending", "haltUncertain", "resumeUncertain"} = {}
    BY Zenon, <1>6 DEF readError
  <2>2. Clear(r) BY Zenon, <2>1 DEF Clear, Unresolved
  <2> QED BY Zenon, <1>1, <2>1, <2>2 DEF r
<1> QED BY Zenon, <1>5, <1>6

\* A call that returns with a read error keeps the invariant.
LEMMA ErrorReturns ==
  ASSUME Held, NEW where \in Reads \ ({"acquire.read", "wait.read"} \cup StepPcs), ReadFailsAt(where),
         NEW cause, Return(readError(readDHCSRFailed(t), cause))
  PROVE  Held'
<1>1. t \in Targets BY Zenon DEF Held, Typed, Targets
<1>2. t' = readError(readDHCSRFailed(t), cause) /\ op' = "none" /\ pc' = "idle" BY Zenon DEF Return
<1>3. Withdrawn(t, t') /\ ("closing" \in t'.flags \/ Clear(t')) BY Zenon, <1>1, <1>2, ErrorSeen
<1> QED BY Zenon, <1>2, <1>3, FailedReadReturns

\* The read before a halt request keeps the invariant.
LEMMA HaltReadStep == ASSUME Held, HaltRead PROVE Held'
<1>0. Reported' = Reported /\ M33' = M33 BY ZenonT(60) DEF Reported, Unnoticed, Events, M33, Profile, HaltRead,
    ReadAt, ReadFailsAt
<1>1. pc = "halt.read" /\ op = "Halt"
  BY ZenonT(60) DEF HaltRead, ReadAt, ReadFailsAt, Held, Parts, Placed, Accesses, StepPcs, Typed, Ops
<1>2. t \in Targets /\ Clear(t) /\ "closing" \notin t.flags /\ "memory" \in t.flags
  BY Zenon, <1>1 DEF Held, Parts, Placed, Typed, Targets, Clear, StepPcs
<1> DEFINE s == readControl(t, dhcsr)
<1>3. Observed(t, s, dhcsr) /\ s.step = t.step
      /\ (ControlAccepted(readDHCSR(t, dhcsr), dhcsr) =>
            /\ "C_DEBUGEN" \in dhcsr /\ "C_STEP" \notin dhcsr
            /\ M33 => "snapStalled" \notin s.flags /\ "S_SDE" \in dhcsr
            /\ "closing" \in s.flags <=> "closing" \in t.flags
            /\ "C_HALT" \notin dhcsr => "haltOwned" \notin s.flags /\ "resumeUncertain" \notin s.flags)
  BY Zenon, <1>2, ControlSeen DEF Clear
<1>4. Clear(s) BY ZenonT(30), <1>2, <1>3 DEF Observed, Clear, Unresolved
<1> HIDE DEF s
<1>5. CASE ReadAt("halt.read") /\ Return(s)
  <2>1. t' = s /\ op' = "none" /\ pc' = "idle" BY Zenon, <1>5 DEF Return
  <2> QED BY <2>1, <1>3, <1>4, <1>5, ReadReturns DEF Reads, StepSeen, StepPcs
<1>6. CASE ReadAt("halt.read") /\ ControlAccepted(readDHCSR(t, dhcsr), dhcsr) /\ "S_HALT" \notin dhcsr /\ Goto(s, "halt.write")
  <2>1. t' = s /\ op' = op /\ pc' = "halt.write" BY Zenon, <1>6 DEF Goto
  <2> USE <1>0, <1>1, <1>2, <1>3, <1>4, <1>6, <2>1 DEF Held, Parts, ReadAt, Consumed, Sticky, GivenUp, Observed, Clear
  <2>2. Typed'
    BY Zenon DEF Typed, CoreTypeOK, Profile, Events, calm, M33, Targets, Ops, Reads, Writes, NoTarget, Placed,
      Flags, Steps
  <2>3. Placed'
    BY Zenon DEF Typed, Placed, Changed, Accesses, StepPcs
  <2>4. Changed'
    BY Zenon DEF Typed, Changed, Placed, Claiming, Unresolved
  <2>5. Unsure'
    BY ZenonT(60) DEF Typed, Unsure, Placed, Changed, Claiming
  <2>6. Snap'
    BY ZenonT(30) DEF Snap, Placed
  <2>7. Enabled'
    BY ZenonT(30) DEF Typed, Enabled, Placed, Changed
  <2>8. Transfer'
    BY ZenonT(30) DEF Transfer, Placed, Changed, Claiming
  <2>9. Stopped' /\ Closed'
    BY ZenonT(30) DEF Stopped, Closed
  <2>10. Claimed'
    BY ZenonT(30) DEF Typed, Claimed, Placed, Changed, Claiming, Enabled, Unresolved, StepPcs
  <2>11. Reported => HaltKept'
    BY Zenon, Profiles DEF Typed, Owned, HaltKept, Claimed, Placed, Enabled, Changed, Unresolved, debugAllowed,
      Profile, StepPcs, Claiming
  <2> QED BY Zenon, <2>2, <2>3, <2>4, <2>5, <2>6, <2>7, <2>8, <2>9, <2>10, <2>11 DEF Held, Parts, Owned
<1>7. CASE ReadFailsAt("halt.read") /\ \E cause \in {"context", "bus"} : Return(readError(readDHCSRFailed(t), cause))
  BY <1>7, ErrorReturns DEF Reads, StepPcs
<1> QED BY <1>5, <1>6, <1>7 DEF HaltRead, s

\* Halted keeps the invariant.
LEMMA StatusReadStep == ASSUME Held, StatusRead PROVE Held'
<1>1. pc = "status.read" /\ op = "Halted"
  BY ZenonT(60) DEF StatusRead, ReadAt, ReadFailsAt, Held, Parts, Placed, Accesses, StepPcs, Typed, Ops
<1>2. t \in Targets /\ Clear(t)
  BY Zenon, <1>1 DEF Held, Parts, Placed, Typed, Targets, Clear, StepPcs
<1> DEFINE s == readControl(t, dhcsr)
<1>3. Observed(t, s, dhcsr) /\ s.step = t.step BY Zenon, <1>2, ControlSeen DEF Clear
<1>4. Clear(s) BY Zenon, <1>2, <1>3 DEF Observed, Clear, Unresolved
<1> HIDE DEF s
<1>5. CASE ReadAt("status.read") /\ Return(s)
  <2>1. t' = s /\ op' = "none" /\ pc' = "idle" BY <1>5 DEF Return
  <2> QED BY <2>1, <1>3, <1>4, <1>5, ReadReturns DEF Reads, StepSeen, StepPcs
<1>6. CASE ReadFailsAt("status.read") /\ \E cause \in {"context", "bus"} : Return(readError(readDHCSRFailed(t), cause))
  BY <1>6, ErrorReturns DEF Reads, StepPcs
<1> QED BY <1>5, <1>6 DEF StatusRead, s

\* Requesting a halt keeps the invariant, whether or not the write's outcome is known.
LEMMA HaltWriteStep == ASSUME Held, HaltWrite PROVE Held'
<1>0. Reported' = Reported /\ M33' = M33
  BY DEF Reported, Unnoticed, Events, M33, Profile, HaltWrite, WriteAt, WriteFailsAt, FailsAt, AccessAt
<1>1. pc = "halt.write" /\ op = "Halt"
  BY Zenon DEF HaltWrite, WriteAt, WriteFailsAt, FailsAt, AccessAt, Held, Parts, Placed, Accesses, StepPcs, Typed,
    Ops
<1>2. t \in Targets /\ Clear(t) /\ "closing" \notin t.flags /\ "memory" \in t.flags /\ "haltOwned" \notin t.flags
      /\ "snapStalled" \notin t.flags /\ "C_DEBUGEN" \in dhcsr /\ dhcsr \in SUBSET Bits /\ "C_STEP" \notin dhcsr
      /\ ~("S_HALT" \in dhcsr /\ "S_REGRDY" \notin dhcsr)
  BY Zenon, <1>1 DEF Held, Parts, Placed, Typed, Targets, Clear, StepPcs, Claimed, Snap, ControlWrites, Enabled,
    CoreTypeOK, Transfer
<1>3. ~unsure BY Zenon, <1>1, <1>2 DEF Held, Parts, Unsure, Clear, ControlWrites
<1> DEFINE C == {"C_DEBUGEN", "C_HALT"}
<1> DEFINE d == writeControl(dhcsr, C)
<1>4. d \in SUBSET Bits /\ (\A b \in Bits \ Control : b \in d <=> b \in dhcsr) /\ "C_DEBUGEN" \in d /\ "C_STEP" \notin d
      /\ ("C_HALT" \in d <=> debugAllowed(dhcsr) \/ "C_HALT" \in dhcsr)
  <2>1. C \in SUBSET {"C_DEBUGEN", "C_HALT", "C_STEP"} BY Zenon
  <2> QED BY <2>1, <1>2, Written
<1> HIDE DEF d
<1>5. \A b \in {"S_HALT", "S_REGRDY", "S_SDE", "S_RESTART_ST"} : b \in Bits \ Control BY DEF Bits, Control,
    Sticky
<1> DEFINE own == Without(With(t, {"changed", "haltOwned"}), {"haltUncertain"})
<1> DEFINE lost == With(With(t, {"changed", "haltUncertain"}), {"closing"})
<1>6. /\ own \in Targets /\ own.flags = (t.flags \cup {"changed", "haltOwned"}) \ {"haltUncertain"}
      /\ own.saved = t.saved /\ own.step = t.step
  BY <1>2, Fields DEF Flags
<1>7. /\ lost \in Targets /\ lost.flags = t.flags \cup {"changed", "haltUncertain", "closing"}
      /\ lost.saved = t.saved /\ lost.step = t.step
  BY <1>2, Fields DEF Flags
<1> HIDE DEF own, lost
<1>8. CASE WriteAt("halt.write", C, TRUE) /\ Goto(own, "wait.read")
  <2>1. t' = own /\ op' = op /\ pc' = "wait.read" BY Zenon, <1>8 DEF Goto
  <2>2. /\ dhcsr' = d /\ claim' = IF "C_HALT" \in d THEN "mine" ELSE claim
        /\ UNCHANGED <<dfsr, secureAllowed, unsafeMemory, quiet, world>>
    BY <1>8 DEF WriteAt, d
  <2>3. unsure' = FALSE BY ZenonT(60), <1>8, <1>3 DEF WriteAt
  <2> USE <1>0, <1>1, <1>2, <1>4, <1>5, <1>6, <2>1, <2>2, <2>3 DEF Held, Parts, Clear
  <2>4. Typed'
    BY ZenonT(60) DEF Typed, CoreTypeOK, Profile, Events, calm, M33, Targets, Ops, Reads, Writes, NoTarget,
      Placed, Flags, Steps
  <2>5. Placed'
    BY Zenon DEF Typed, Placed, Changed, Accesses, StepPcs, Unresolved, Targets, Steps, Clear
  <2>6. Changed'
    BY ZenonT(30) DEF Typed, Changed, Placed, Claiming, Unresolved
  <2>7. Unsure'
    BY Zenon DEF Typed, Unsure, Placed, Changed, Claiming
  <2>8. Snap'
    BY Zenon DEF Snap, Placed
  <2>9. Enabled'
    BY Zenon DEF Typed, Enabled, Placed, Changed
  <2>10. Transfer'
    BY Zenon DEF Transfer, Placed, Changed, Claiming
  <2>11. Stopped' /\ Closed'
    BY Zenon DEF Stopped, Closed
  <2>12. Claimed'
    BY ZenonT(30) DEF Typed, Claimed, Placed, Changed, Claiming, Enabled, Unresolved, StepPcs
  <2>13. Reported => HaltKept'
    BY Zenon DEF Typed, Owned, HaltKept, Claimed, Placed, Enabled
  <2> QED BY Zenon, <2>4, <2>5, <2>6, <2>7, <2>8, <2>9, <2>10, <2>11, <2>12, <2>13 DEF Held, Parts, Owned
<1>9. CASE WriteFailsAt("halt.write", C, TRUE) /\ Return(lost)
  <2>1. t' = lost /\ op' = "none" /\ pc' = "idle" BY Zenon, <1>9 DEF Return
  <2>2. /\ dhcsr' \in {dhcsr, d} /\ claim' = IF dhcsr' # dhcsr THEN "mine" ELSE claim
        /\ UNCHANGED <<dfsr, secureAllowed, unsafeMemory, quiet, world>>
    BY <1>9 DEF WriteFailsAt, d
  <2>3. unsure' = TRUE BY ZenonT(60), <1>9 DEF WriteFailsAt
  <2> USE <1>0, <1>1, <1>2, <1>4, <1>5, <1>7, <2>1, <2>2, <2>3 DEF Held, Parts, Clear
  <2>4. Typed'
    BY Zenon DEF Typed, CoreTypeOK, Profile, Events, calm, M33, Targets, Ops, Reads, Writes, NoTarget, Placed,
      Flags, Steps
  <2>5. Placed'
    BY Zenon DEF Typed, Placed, Changed, Accesses, StepPcs
  <2>6. Changed'
    BY Zenon DEF Typed, Changed, Placed, Claiming, Unresolved
  <2>7. Unsure'
    BY Zenon DEF Typed, Unsure, Placed, Changed, Claiming, ControlWrites, Unresolved, Enabled, Clear
  <2>8. Snap'
    BY ZenonT(30) DEF Snap, Placed
  <2>9. Enabled'
    BY Zenon DEF Typed, Enabled, Placed, Changed
  <2>10. Transfer'
    BY Zenon DEF Transfer, Placed, Changed, Claiming
  <2>11. Stopped' /\ Closed'
    BY Zenon DEF Stopped, Closed
  <2>12. Claimed'
    BY Zenon DEF Typed, Claimed, Placed, Changed, Claiming, Enabled, Unresolved, StepPcs
  <2>13. Reported => HaltKept'
    BY ZenonT(30) DEF Typed, Owned, HaltKept, Claimed, Placed, Enabled, Changed, Unresolved, debugAllowed, Profile,
      StepPcs, Claiming
  <2> QED BY Zenon, <2>4, <2>5, <2>6, <2>7, <2>8, <2>9, <2>10, <2>11, <2>12, <2>13 DEF Held, Parts, Owned
<1>10. CASE FailsAt("halt.write") /\ Return(t)
  BY <1>2, <1>10, AccessReturns DEF FailsAt, Return, StepPcs
<1> QED BY ZenonT(60), <1>8, <1>9, <1>10 DEF HaltWrite, own, lost, Abandon

\* The read before a resume keeps the invariant.
LEMMA ResumeReadStep == ASSUME Held, ResumeRead PROVE Held'
<1>0. Reported' = Reported /\ M33' = M33 BY ZenonT(60) DEF Reported, Unnoticed, Events, M33, Profile,
    ResumeRead, ReadAt, ReadFailsAt
<1>1. pc = "resume.read" /\ op \in {"Resume", "Release"}
  BY ZenonT(60) DEF ResumeRead, ReadAt, ReadFailsAt, Held, Parts, Placed, Accesses, StepPcs, Typed, Ops
<1>2. t \in Targets /\ Clear(t) /\ "memory" \in t.flags /\ "haltOwned" \in t.flags
  BY Zenon, <1>1 DEF Held, Parts, Placed, Typed, Targets, Clear, StepPcs, Changed
<1> DEFINE s == readControl(t, dhcsr)
<1>3. Observed(t, s, dhcsr) /\ s.step = t.step
      /\ (ControlAccepted(readDHCSR(t, dhcsr), dhcsr) =>
            /\ "C_DEBUGEN" \in dhcsr /\ "C_STEP" \notin dhcsr
            /\ M33 => "snapStalled" \notin s.flags /\ "S_SDE" \in dhcsr
            /\ "closing" \in s.flags <=> "closing" \in t.flags
            /\ "C_HALT" \notin dhcsr => "haltOwned" \notin s.flags /\ "resumeUncertain" \notin s.flags)
  BY ZenonT(30), <1>2, ControlSeen DEF Clear
<1>4. Clear(s) BY Zenon, <1>2, <1>3 DEF Observed, Clear, Unresolved
<1> HIDE DEF s
<1>5. CASE ReadAt("resume.read") /\ Return(s)
  <2>1. t' = s /\ op' = "none" /\ pc' = "idle" BY Zenon, <1>5 DEF Return
  <2> QED BY Zenon, <2>1, <1>3, <1>4, <1>5, ReadReturns DEF Reads, StepSeen, StepPcs
<1>6. CASE ReadAt("resume.read") /\ ControlAccepted(readDHCSR(t, dhcsr), dhcsr) /\ "haltOwned" \in s.flags /\ Goto(s, "resume.write")
  <2>1. t' = s /\ op' = op /\ pc' = "resume.write" BY Zenon, <1>6 DEF Goto
  <2> USE <1>0, <1>1, <1>2, <1>3, <1>4, <1>6, <2>1 DEF Held, Parts, ReadAt, Consumed, Sticky, GivenUp, Observed, Clear
  <2>2. Typed'
    BY Zenon DEF Typed, CoreTypeOK, Profile, Events, calm, M33, Targets, Ops, Reads, Writes, NoTarget, Placed,
      Flags, Steps
  <2>3. Placed'
    BY Zenon DEF Typed, Placed, Changed, Accesses, StepPcs
  <2>4. Changed'
    BY ZenonT(30) DEF Typed, Changed, Placed, Claiming, Unresolved
  <2>5. Unsure'
    BY ZenonT(30) DEF Typed, Unsure, Placed, Changed, Claiming
  <2>6. Snap'
    BY ZenonT(30) DEF Snap, Placed
  <2>7. Enabled'
    BY ZenonT(30) DEF Typed, Enabled, Placed, Changed
  <2>8. Transfer'
    BY ZenonT(30) DEF Transfer, Placed, Changed, Claiming
  <2>9. Stopped' /\ Closed'
    BY ZenonT(30) DEF Stopped, Closed
  <2>10. Claimed'
    BY ZenonT(30) DEF Typed, Claimed, Placed, Changed, Claiming, Enabled, Unresolved, StepPcs
  <2>11. Reported => HaltKept'
    BY Zenon DEF Typed, Owned, HaltKept, Claimed, Placed, Enabled
  <2> QED BY Zenon, <2>2, <2>3, <2>4, <2>5, <2>6, <2>7, <2>8, <2>9, <2>10, <2>11 DEF Held, Parts, Owned
<1>7. CASE ReadFailsAt("resume.read") /\ \E cause \in {"context", "bus"} : Return(readError(readDHCSRFailed(t), cause))
  BY <1>7, ErrorReturns DEF Reads, StepPcs
<1> QED BY Zenon, <1>5, <1>6, <1>7 DEF ResumeRead, s

\* Withdrawing the halt request keeps the invariant.
LEMMA ResumeWriteStep == ASSUME Held, ResumeWrite PROVE Held'
<1>0. Reported' = Reported /\ M33' = M33
  BY Zenon DEF Reported, Unnoticed, Events, M33, Profile, ResumeWrite, WriteAt, WriteFailsAt, FailsAt, AccessAt
<1>1. pc = "resume.write" /\ op \in {"Resume", "Release"}
  BY Zenon DEF ResumeWrite, WriteAt, WriteFailsAt, FailsAt, AccessAt, Held, Parts, Placed, Accesses, StepPcs, Typed,
    Ops
<1>2. t \in Targets /\ Clear(t) /\ "memory" \in t.flags /\ "haltOwned" \in t.flags
      /\ "snapStalled" \notin t.flags /\ "C_DEBUGEN" \in dhcsr /\ dhcsr \in SUBSET Bits /\ "C_STEP" \notin dhcsr
      /\ ~("S_HALT" \in dhcsr /\ "S_REGRDY" \notin dhcsr)
  BY Zenon, <1>1 DEF Held, Parts, Placed, Typed, Targets, Clear, StepPcs, Changed, Claiming, Snap, ControlWrites,
    Enabled, CoreTypeOK, Transfer
<1>3. ~unsure BY Zenon, <1>1, <1>2 DEF Held, Parts, Unsure, Clear, ControlWrites
<1> DEFINE C == {"C_DEBUGEN"}
<1> DEFINE d == writeControl(dhcsr, C)
<1>4. d \in SUBSET Bits /\ (\A b \in Bits \ Control : b \in d <=> b \in dhcsr) /\ "C_DEBUGEN" \in d /\ "C_STEP" \notin d
      /\ "C_HALT" \notin d
  <2>1. C \in SUBSET {"C_DEBUGEN", "C_HALT", "C_STEP"} BY Zenon
  <2> QED BY <2>1, <1>2, Written
<1> HIDE DEF d
<1>5. \A b \in {"S_HALT", "S_REGRDY", "S_SDE", "S_RESTART_ST"} : b \in Bits \ Control BY DEF Bits, Control,
    Sticky
<1> DEFINE done == Without(With(t, {"resumeUncertain"}), {"haltOwned"})
<1> DEFINE lost == With(With(t, {"resumeUncertain"}), {"closing"})
<1>6. /\ done \in Targets /\ done.flags = (t.flags \cup {"resumeUncertain"}) \ {"haltOwned"}
      /\ done.saved = t.saved /\ done.step = t.step
  BY <1>2, Fields DEF Flags
<1>7. /\ lost \in Targets /\ lost.flags = t.flags \cup {"resumeUncertain", "closing"}
      /\ lost.saved = t.saved /\ lost.step = t.step
  BY <1>2, Fields DEF Flags
<1> HIDE DEF done, lost
<1>8. CASE WriteAt("resume.write", C, FALSE) /\ Goto(done, "wait.read")
  <2>1. t' = done /\ op' = op /\ pc' = "wait.read" BY Zenon, <1>8 DEF Goto
  <2>2. /\ dhcsr' \in {dhcsr, d} /\ claim' = claim
        /\ UNCHANGED <<dfsr, secureAllowed, unsafeMemory, quiet, world>>
    BY <1>8 DEF WriteAt, d
  <2>3. unsure' = TRUE BY ZenonT(60), <1>8, <1>3 DEF WriteAt
  <2> USE <1>0, <1>1, <1>2, <1>4, <1>5, <1>6, <2>1, <2>2, <2>3 DEF Held, Parts, Clear
  <2>4. Typed'
    BY ZenonT(30) DEF Typed, CoreTypeOK, Profile, Events, calm, M33, Targets, Ops, Reads, Writes, NoTarget, Placed,
      Flags, Steps
  <2>5. Placed'
    BY DEF Typed, Placed, Changed, Accesses, StepPcs
  <2>6. Changed'
    BY Zenon DEF Typed, Changed, Placed, Claiming, Unresolved
  <2>7. Unsure'
    BY ZenonT(30) DEF Typed, Unsure, Placed, Changed, Claiming, ControlWrites, Unresolved, Enabled, Clear
  <2>8. Snap'
    BY ZenonT(30) DEF Snap, Placed
  <2>9. Enabled'
    BY ZenonT(30) DEF Typed, Enabled, Placed, Changed
  <2>10. Transfer'
    BY ZenonT(30) DEF Transfer, Placed, Changed, Claiming
  <2>11. Stopped' /\ Closed'
    BY Zenon DEF Stopped, Closed
  <2>12. Claimed'
    BY ZenonT(30) DEF Typed, Claimed, Placed, Changed, Claiming, Enabled, Unresolved, StepPcs
  <2>13. Reported => HaltKept'
    BY ZenonT(30) DEF Typed, Owned, HaltKept, Claimed, Placed, Enabled
  <2> QED BY Zenon, <2>4, <2>5, <2>6, <2>7, <2>8, <2>9, <2>10, <2>11, <2>12, <2>13 DEF Held, Parts, Owned
<1>9. CASE WriteFailsAt("resume.write", C, FALSE) /\ Return(lost)
  <2>1. t' = lost /\ op' = "none" /\ pc' = "idle" BY Zenon, <1>9 DEF Return
  <2>2. /\ dhcsr' \in {dhcsr, d} /\ claim' = claim
        /\ UNCHANGED <<dfsr, secureAllowed, unsafeMemory, quiet, world>>
    BY <1>9 DEF WriteFailsAt, d
  <2>3. unsure' = TRUE BY ZenonT(60), <1>9 DEF WriteFailsAt
  <2> USE <1>0, <1>1, <1>2, <1>4, <1>5, <1>7, <2>1, <2>2, <2>3 DEF Held, Parts, Clear
  <2>4. Typed'
    BY ZenonT(30) DEF Typed, CoreTypeOK, Profile, Events, calm, M33, Targets, Ops, Reads, Writes, NoTarget, Placed,
      Flags, Steps
  <2>5. Placed'
    BY DEF Typed, Placed, Changed, Accesses, StepPcs
  <2>6. Changed'
    BY ZenonT(30) DEF Typed, Changed, Placed, Claiming, Unresolved
  <2>7. Unsure'
    BY ZenonT(30) DEF Typed, Unsure, Placed, Changed, Claiming, ControlWrites, Unresolved, Enabled, Clear
  <2>8. Snap'
    BY ZenonT(30) DEF Snap, Placed
  <2>9. Enabled'
    BY ZenonT(30) DEF Typed, Enabled, Placed, Changed
  <2>10. Transfer'
    BY ZenonT(30) DEF Transfer, Placed, Changed, Claiming
  <2>11. Stopped' /\ Closed'
    BY Zenon DEF Stopped, Closed
  <2>12. Claimed'
    BY ZenonT(30) DEF Typed, Claimed, Placed, Changed, Claiming, Enabled, Unresolved, StepPcs
  <2>13. Reported => HaltKept'
    BY ZenonT(30) DEF Typed, Owned, HaltKept, Claimed, Placed, Enabled
  <2> QED BY Zenon, <2>4, <2>5, <2>6, <2>7, <2>8, <2>9, <2>10, <2>11, <2>12, <2>13 DEF Held, Parts, Owned
<1>10. CASE FailsAt("resume.write") /\ Return(t)
  BY Zenon, <1>2, <1>10, AccessReturns DEF FailsAt, Return, StepPcs
<1> QED BY ZenonT(60), <1>8, <1>9, <1>10 DEF ResumeWrite, done, lost, Abandon

\* Failing with only Release left is the same observation.
LEMMA ClosingSeen ==
  ASSUME NEW s, NEW r, NEW v
  PROVE  /\ Observed(s, r, v) => /\ Observed(s, With(r, {"closing"}), v) /\ With(r, {"closing"}).step = r.step
                                 /\ "closing" \in With(r, {"closing"}).flags
         /\ Withdrawn(s, r) => Withdrawn(s, With(r, {"closing"})) /\ "closing" \in With(r, {"closing"}).flags
         /\ r \in Targets => /\ With(r, {"closing"}) \in Targets /\ With(r, {"closing"}).saved = r.saved
                             /\ With(r, {"closing"}).step = r.step /\ With(r, {"closing"}).flags = r.flags \cup {"closing"}
<1>1. r \in Targets => /\ With(r, {"closing"}) \in Targets /\ With(r, {"closing"}).saved = r.saved
                       /\ With(r, {"closing"}).step = r.step /\ With(r, {"closing"}).flags = r.flags \cup {"closing"}
  BY Zenon, Closing
<1>2. Observed(s, r, v) => r \in Targets BY Zenon DEF Observed
<1>3. Withdrawn(s, r) => r \in Targets BY ZenonT(30) DEF Withdrawn
<1>4. Observed(s, r, v) => /\ Observed(s, With(r, {"closing"}), v) /\ With(r, {"closing"}).step = r.step
                           /\ "closing" \in With(r, {"closing"}).flags
  BY <1>1, <1>2 DEF Observed
<1>5. Withdrawn(s, r) => Withdrawn(s, With(r, {"closing"})) /\ "closing" \in With(r, {"closing"}).flags
  BY <1>1, <1>3 DEF Withdrawn
<1> QED BY ZenonT(30), <1>1, <1>4, <1>5

\* Polling for the halt or the resume keeps the invariant.
LEMMA WaitReadStep == ASSUME Held, WaitRead PROVE Held' \/ Gone'
<1>0. Reported' = Reported /\ M33' = M33
  BY ZenonT(60) DEF Reported, Unnoticed, Events, M33, Profile, WaitRead, ReadAt, ReadFailsAt, FailsAt, AccessAt
<1>1. pc = "wait.read" /\ op \in {"Halt", "Resume", "Release"}
  BY ZenonT(60) DEF WaitRead, ReadAt, ReadFailsAt, FailsAt, AccessAt, Held, Parts, Placed, Accesses, StepPcs,
    Typed, Ops
<1>2. t \in Targets /\ t.step = "idle" /\ "memory" \in t.flags /\ "registerPending" \notin t.flags
      /\ "haltUncertain" \notin t.flags /\ (op = "Halt" => "resumeUncertain" \notin t.flags)
      /\ ("closing" \in t.flags <=> op = "Release")
  BY Zenon, <1>1 DEF Held, Parts, Placed, Typed, Targets, Unresolved, StepPcs
<1> DEFINE s == readControl(t, dhcsr)
<1> DEFINE kept == ControlAccepted(readDHCSR(t, dhcsr), dhcsr) /\ ("C_HALT" \in dhcsr) = (op = "Halt")
<1> DEFINE there == ("S_HALT" \in dhcsr) = (op = "Halt")
<1>3. /\ Observed(t, s, dhcsr) /\ s.step = "idle"
      /\ kept => /\ "C_DEBUGEN" \in dhcsr /\ "C_STEP" \notin dhcsr
                 /\ M33 => "snapStalled" \notin s.flags /\ "S_SDE" \in dhcsr
                 /\ "closing" \in s.flags <=> "closing" \in t.flags
                 /\ op # "Halt" => "haltOwned" \notin s.flags /\ "resumeUncertain" \notin s.flags
                 /\ "C_HALT" \in dhcsr <=> op = "Halt"
  BY ZenonT(30), <1>2, ControlSeen
<1>4. kept => Clear(s) BY Zenon, <1>1, <1>2, <1>3 DEF Observed, Clear, Unresolved
<1>5. there => ("S_HALT" \in dhcsr <=> op = "Halt") BY Zenon
<1> HIDE DEF s, kept, there
<1>6. CASE ReadAt("wait.read") /\ Return(With(s, {"closing"}))
  <2>1. t' = With(s, {"closing"}) /\ op' = "none" /\ pc' = "idle" BY Zenon, <1>6 DEF Return
  <2>2. Observed(t, t', dhcsr) /\ t'.step = "idle" /\ "closing" \in t'.flags BY ZenonT(30), <2>1, <1>3, ClosingSeen
  <2> QED BY Zenon, <2>1, <2>2, <1>2, <1>6, ReadReturns DEF Reads, StepSeen
<1>7. CASE ReadAt("wait.read") /\ kept /\ Goto(s, "wait.read")
  <2>1. t' = s /\ op' = op /\ pc' = "wait.read" BY Zenon, <1>7 DEF Goto
  <2> USE <1>0, <1>1, <1>2, <1>3, <1>4, <1>7, <2>1 DEF Held, Parts, ReadAt, Consumed, Sticky, GivenUp, Observed, Clear
  <2>2. Typed'
    BY ZenonT(30) DEF Typed, CoreTypeOK, Profile, Events, calm, M33, Targets
  <2>3. Placed'
    BY Zenon DEF Typed, Placed, Changed, Accesses, StepPcs
  <2>4. Changed'
    BY Zenon DEF Typed, Changed, Placed, Claiming, Unresolved
  <2>5. Unsure'
    BY ZenonT(60) DEF Typed, Unsure, Placed, Changed, Claiming
  <2>6. Snap'
    BY ZenonT(30) DEF Snap, Placed
  <2>7. Enabled'
    BY ZenonT(30) DEF Typed, Enabled, Placed, Changed
  <2>8. Transfer'
    BY ZenonT(30) DEF Transfer, Placed, Changed, Claiming, ControlWrites, Unresolved, StepPcs
  <2>9. Stopped' /\ Closed'
    BY ZenonT(30) DEF Stopped, Closed
  <2>10. Claimed'
    BY ZenonT(30) DEF Typed, Claimed, Placed, Changed, Claiming, Enabled, Unresolved, StepPcs
  <2>11. Reported => HaltKept'
    BY ZenonT(30) DEF Typed, Owned, HaltKept, Claimed, Placed, Enabled
  <2> QED BY ZenonT(30), <2>2, <2>3, <2>4, <2>5, <2>6, <2>7, <2>8, <2>9, <2>10, <2>11 DEF Held, Parts, Owned
<1>8. CASE ReadAt("wait.read") /\ kept /\ there /\ Return(s)
  <2>1. t' = s /\ op' = "none" /\ pc' = "idle" BY Zenon, <1>8 DEF Return
  <2>2. "C_HALT" \in dhcsr => "S_HALT" \in dhcsr BY ZenonT(30), <1>3, <1>5, <1>8
  <2> QED BY Zenon, <2>1, <2>2, <1>2, <1>3, <1>4, <1>8, ReadReturns DEF Reads, StepSeen
<1>9. CASE ReadAt("wait.read") /\ kept /\ there /\ op = "Release" /\ "changed" \in s.flags /\ Goto(s, "disable.read")
  <2>1. t' = s /\ op' = op /\ pc' = "disable.read" BY Zenon, <1>9 DEF Goto
  <2>2. s.saved = {}
    BY Zenon, <1>2, <1>3, <1>9 DEF Held, Parts, Changed, Observed, Claiming, Unresolved, Targets
  <2>3. ~Claiming(s) BY Zenon, <1>3, <1>4, <1>9 DEF Claiming, Clear
  <2> USE <1>0, <1>1, <1>2, <1>3, <1>4, <1>9, <2>1, <2>2, <2>3 DEF Held, Parts, ReadAt, Consumed, Sticky, GivenUp, Observed, Clear
  <2>4. Typed'
    BY Zenon DEF Typed, CoreTypeOK, Profile, Events, calm, M33, Targets, Ops, Reads, Writes, NoTarget, Placed,
      Flags, Steps
  <2>5. Placed'
    BY Zenon DEF Typed, Placed, Changed, Accesses, StepPcs
  <2>6. Changed'
    BY Zenon DEF Typed, Changed, Placed, Claiming, Unresolved
  <2>7. Unsure'
    BY ZenonT(60) DEF Typed, Unsure, Placed, Changed, Claiming
  <2>8. Snap'
    BY ZenonT(30) DEF Snap, Placed
  <2>9. Enabled'
    BY ZenonT(30) DEF Typed, Enabled, Placed, Changed
  <2>10. Transfer'
    BY ZenonT(30) DEF Transfer, Placed, Changed, Claiming
  <2>11. Stopped' /\ Closed'
    BY Zenon DEF Stopped, Closed
  <2>12. Claimed'
    BY ZenonT(30) DEF Typed, Claimed, Placed, Changed
  <2>13. Reported => HaltKept'
    BY ZenonT(30) DEF Typed, Owned, HaltKept, Claimed, Placed, Enabled
  <2> QED BY ZenonT(30), <2>4, <2>5, <2>6, <2>7, <2>8, <2>9, <2>10, <2>11, <2>12, <2>13 DEF Held, Parts, Owned
<1>10. CASE ReadAt("wait.read") /\ kept /\ op = "Release" /\ Finish(s)
  <2>1. claim' = "mine" => "C_HALT" \notin dhcsr' BY Zenon, <1>3, <1>10 DEF ReadAt, Consumed
  <2>2. "closing" \in t.flags BY Zenon, <1>10 DEF Held, Parts, Placed
  <2>3. s \in Targets /\ s.step = "idle" /\ "closing" \in s.flags BY Zenon, <2>2, <1>2, <1>3 DEF Observed
  <2> QED BY Zenon, <2>1, <2>3, <1>2, <1>10, Finishing
<1>11. CASE ReadFailsAt("wait.read") /\ Return(With(readDHCSRFailed(t), {"closing"}))
  <2>1. t' = With(readDHCSRFailed(t), {"closing"}) /\ op' = "none" /\ pc' = "idle" BY Zenon, <1>11 DEF Return
  <2>2. Withdrawn(t, t') /\ "closing" \in t'.flags BY Zenon, <2>1, <1>2, FailedReadSeen, ClosingSeen
  <2> QED BY Zenon, <2>1, <2>2, <1>11, FailedReadReturns DEF Reads
<1>12. CASE FailsAt("wait.read") /\ Return(With(t, {"closing"}))
  BY Zenon, <1>2, <1>12, AccessReturns, ClosingSeen DEF FailsAt, Return
<1> QED BY Zenon, <1>6, <1>7, <1>8, <1>9, <1>10, <1>11, <1>12 DEF WaitRead, s, kept, there, Abandon

\* An uncertain halt or resume is settled once neither the request nor the halt
\* is there.
LEMMA SettledSeen ==
  ASSUME NEW s \in Targets, NEW v, s.step = "idle", Claiming(s) => "C_DEBUGEN" \in v
  PROVE  LET r == Settled(readDHCSR(s, v), v) IN
         /\ r \in Targets /\ r.saved = s.saved /\ r.step = "idle"
         /\ "closing" \in r.flags <=> "closing" \in s.flags
         /\ "registerPending" \in r.flags <=> "registerPending" \in s.flags
         /\ \/ /\ Observed(s, r, v)
               /\ "C_DEBUGEN" \in v /\ "C_HALT" \notin v /\ "haltUncertain" \notin s.flags =>
                    "haltOwned" \notin r.flags /\ "resumeUncertain" \notin r.flags
            \/ /\ "haltUncertain" \in s.flags /\ "C_HALT" \notin v /\ "S_HALT" \notin v
               /\ ~Claiming(r) /\ ("changed" \in r.flags <=> "C_DEBUGEN" \notin s.saved)
               /\ "memory" \in r.flags <=> "memory" \in s.flags
               /\ "snapStalled" \in r.flags <=> ("snapStalled" \in s.flags \/ (M33 /\ "C_SNAPSTALL" \in v))
<1> DEFINE seen == readDHCSR(s, v)
<1>1. Observed(s, seen, v) /\ seen.step = s.step /\ ("closing" \in seen.flags <=> "closing" \in s.flags)
      /\ ("registerPending" \in seen.flags <=> "registerPending" \in s.flags) BY Zenon, ReadSeen
<1>2. LET r == observeHaltRequest(seen, v) IN
      /\ Observed(s, r, v) /\ r.step = s.step
      /\ "closing" \in r.flags <=> "closing" \in s.flags
      /\ "registerPending" \in r.flags <=> "registerPending" \in s.flags
      /\ "C_DEBUGEN" \in v /\ "C_HALT" \notin v => "haltOwned" \notin r.flags /\ "resumeUncertain" \notin r.flags
  BY RequestSeen
<1> HIDE DEF seen
<1> DEFINE req == observeHaltRequest(seen, v)
<1>3. CASE "haltUncertain" \notin s.flags
  <2>1. "haltUncertain" \notin seen.flags BY <1>1, <1>3 DEF Observed
  <2>2. "haltUncertain" \notin req.flags /\ ("resumeUncertain" \in req.flags => "resumeUncertain" \in s.flags)
    BY <1>2, <1>3 DEF Observed
  <2> HIDE DEF req
  <2>3. "resumeUncertain" \in req.flags => "C_HALT" \in v BY Zenon, <1>2, <2>2 DEF Claiming, Unresolved, req
  <2>4. req.flags \cap {"resumeUncertain", "haltUncertain"} = {} \/ v \cap Halted # {}
    BY Zenon, <2>2, <2>3 DEF Halted
  <2>5. Settled(seen, v) = req BY <2>1, <2>4 DEF Settled, req
  <2> QED BY ZenonT(30), <2>5, <1>2 DEF Observed, seen, req
<1>4. CASE "haltUncertain" \in s.flags
  <2>1. "haltUncertain" \in seen.flags /\ seen \in Targets BY Zenon, <1>1, <1>4 DEF Observed
  <2>2. seen.flags \cap {"resumeUncertain", "haltUncertain"} # {} BY <2>1
  <2>3. CASE v \cap Halted # {}
    <3>1. Settled(seen, v) = seen BY <2>1, <2>2, <2>3 DEF Settled
    <3> QED BY ZenonT(30), <3>1, <1>1, <1>4 DEF Observed, seen
  <2>4. CASE v \cap Halted = {}
    <3> DEFINE n == {"resumeUncertain", "haltUncertain", "haltOwned"}
    <3>1. Settled(seen, v) = Relinquish(seen, n) BY <2>1, <2>2, <2>4 DEF Settled
    <3>2. "C_HALT" \notin v /\ "S_HALT" \notin v BY <2>4 DEF Halted
    <3>3. n \in SUBSET Flags BY Zenon DEF Flags
    <3>4. Relinquish(seen, n) \in Targets
          /\ Relinquish(seen, n).saved = seen.saved /\ Relinquish(seen, n).step = seen.step
          /\ \A f \in Flags : f \in Relinquish(seen, n).flags <=>
                IF f = "changed" THEN "C_DEBUGEN" \notin seen.saved ELSE f \in seen.flags /\ f \notin n
      BY <2>1, <3>3, Relinquishing
    <3> QED BY ZenonT(30), <3>1, <3>2, <3>4, <1>1, <1>4 DEF Observed, Claiming, Unresolved, Flags, seen
  <2> QED BY Zenon, <2>3, <2>4
<1> QED BY ZenonT(30), <1>3, <1>4

\* The read with which Release decides what to restore keeps the invariant.
LEMMA RestoreReadStep == ASSUME Held, RestoreRead PROVE Held' \/ Gone'
<1>0. Reported' = Reported /\ M33' = M33
  BY ZenonT(60) DEF Reported, Unnoticed, Events, M33, Profile, RestoreRead, ReadAt, ReadFailsAt
<1>1. pc = "restore.read" /\ op = "Release"
  BY ZenonT(60) DEF RestoreRead, ReadAt, ReadFailsAt, Held, Parts, Placed, Accesses, StepPcs, Typed, Ops
<1>2. t \in Targets /\ t.step = "idle" /\ "memory" \in t.flags /\ "registerPending" \notin t.flags
      /\ "closing" \in t.flags /\ "changed" \in t.flags /\ (Claiming(t) => "C_DEBUGEN" \in dhcsr)
  BY Zenon, <1>1 DEF Held, Parts, Placed, Typed, Targets, Changed, StepPcs, Enabled
<1> DEFINE seen == readDHCSR(t, dhcsr)
<1> DEFINE s == Settled(seen, dhcsr)
<1> DEFINE steady == validateArchitectureControl(seen, dhcsr) /\ ~({"C_DEBUGEN", "C_STEP"} \subseteq dhcsr)
<1> DEFINE good == checkRestoreState(seen, dhcsr)
<1>3. Observed(t, seen, dhcsr) /\ seen.step = "idle" /\ "closing" \in seen.flags BY Zenon, <1>2, ReadSeen
<1> DEFINE resolved ==
        /\ "haltUncertain" \in t.flags /\ "C_HALT" \notin dhcsr /\ "S_HALT" \notin dhcsr
        /\ ~Claiming(s) /\ ("changed" \in s.flags <=> "C_DEBUGEN" \notin t.saved)
        /\ "memory" \in s.flags
        /\ "snapStalled" \in s.flags <=> ("snapStalled" \in t.flags \/ (M33 /\ "C_SNAPSTALL" \in dhcsr))
<1>4. /\ s \in Targets /\ s.saved = t.saved /\ s.step = "idle" /\ "closing" \in s.flags /\ "registerPending" \notin s.flags
      /\ resolved \/ (Observed(t, s, dhcsr) /\
           ("C_DEBUGEN" \in dhcsr /\ "C_HALT" \notin dhcsr /\ "haltUncertain" \notin t.flags =>
              "haltOwned" \notin s.flags /\ "resumeUncertain" \notin s.flags))
  BY ZenonT(30), <1>2, SettledSeen
<1>5. steady => (M33 => "snapStalled" \notin seen.flags /\ "S_SDE" \in dhcsr) /\ ~("C_DEBUGEN" \in dhcsr /\ "C_STEP" \in dhcsr)
  BY Zenon DEF validateArchitectureControl
<1>6. good <=> steady /\ ~Unresolved(s)
  <2>1. s.flags \cap {"resumeUncertain", "haltUncertain"} = {} <=> ~Unresolved(s) BY Zenon DEF Unresolved
  <2> QED BY Zenon, <2>1 DEF checkRestoreState
<1> HIDE DEF seen, s, steady, good, resolved
<1>7. CASE ReadAt("restore.read") /\ t.saved = {} /\ "C_DEBUGEN" \notin dhcsr /\ Finish(seen)
  <2>1. claim' = "mine" => "C_HALT" \notin dhcsr'
    BY Zenon, <1>2, <1>7 DEF ReadAt, Consumed, Held, Parts, Claimed, GivenUp
  <2>2. seen \in Targets /\ seen.step = "idle" /\ "closing" \in seen.flags BY Zenon, <1>2, <1>3 DEF Observed
  <2> QED BY Zenon, <2>1, <2>2, <1>2, <1>7, Finishing
<1>8. CASE ReadAt("restore.read") /\ Return(seen)
  <2>1. t' = seen /\ op' = "none" /\ pc' = "idle" BY Zenon, <1>8 DEF Return
  <2> QED BY Zenon, <2>1, <1>2, <1>3, <1>8, ReadReturns DEF Reads, StepSeen
<1>9. CASE ReadAt("restore.read") /\ steady /\ ~good /\ Return(s)
  <2>1. t' = s /\ op' = "none" /\ pc' = "idle" BY Zenon, <1>9 DEF Return
  <2>2. Observed(t, s, dhcsr) BY Zenon, <1>4, <1>6, <1>9 DEF resolved, Claiming
  <2> QED BY Zenon, <2>1, <2>2, <1>2, <1>4, <1>9, ReadReturns DEF Reads, StepSeen
<1>10. CASE ReadAt("restore.read") /\ good /\ "haltOwned" \in s.flags /\ Goto(s, IF M33 THEN "resume.read" ELSE "resume.write")
  <2>1. t' = s /\ op' = op /\ pc' = IF M33 THEN "resume.read" ELSE "resume.write" BY Zenon, <1>10 DEF Goto
  <2>2. Observed(t, s, dhcsr) /\ ~Unresolved(s) /\ ("C_DEBUGEN" \in dhcsr => "C_HALT" \in dhcsr \/ "haltUncertain" \in t.flags)
    BY ZenonT(30), <1>4, <1>6, <1>10 DEF resolved, Claiming
  <2>3. "haltOwned" \in t.flags /\ ~Unresolved(t) /\ "changed" \in s.flags
        /\ ("snapStalled" \in s.flags => "snapStalled" \in t.flags \/ M33)
    BY Zenon, <2>2, <1>2, <1>10 DEF Observed, Unresolved
  <2>4. "C_DEBUGEN" \in dhcsr /\ "C_STEP" \notin dhcsr BY Zenon, <1>2, <1>5, <1>6, <1>10, <2>3 DEF Claiming
  <2>5. ~unsure BY <2>3 DEF Held, Parts, Unsure
  <2>6. unsure' = FALSE BY ZenonT(60), <2>5, <1>10 DEF ReadAt
  <2> USE <1>0, <1>1, <1>2, <1>4, <1>10, <2>1, <2>2, <2>3, <2>4, <2>6 DEF Held, Parts, ReadAt, Consumed, Sticky, GivenUp, Observed
  <2>7. Typed'
    BY Zenon DEF Typed, CoreTypeOK, Profile, Events, calm, M33, Targets, Ops, Reads, Writes, NoTarget, Placed,
      Flags, Steps
  <2>8. Placed'
    BY DEF Typed, Placed, Changed, Accesses, StepPcs
  <2>9. Changed'
    BY ZenonT(30) DEF Typed, Changed, Placed, Claiming, Unresolved
  <2>10. Unsure'
    BY ZenonT(30) DEF Typed, Unsure, Placed, Changed, Claiming
  <2>11. Snap'
    BY ZenonT(30) DEF Snap, Placed, ControlWrites
  <2>12. Enabled'
    BY ZenonT(30) DEF Typed, Enabled, Placed, Changed
  <2>13. Transfer'
    BY ZenonT(30) DEF Transfer, Placed, Changed, Claiming
  <2>14. Stopped' /\ Closed'
    BY Zenon DEF Stopped, Closed
  <2>15. Claimed'
    BY ZenonT(30) DEF Typed, Claimed, Placed, Changed, Claiming, Enabled, Unresolved, StepPcs
  <2>16. Reported => HaltKept'
    BY ZenonT(30) DEF Typed, Owned, HaltKept, Claimed, Placed, Enabled
  <2> QED BY Zenon, <2>7, <2>8, <2>9, <2>10, <2>11, <2>12, <2>13, <2>14, <2>15, <2>16 DEF Held, Parts, Owned
<1>11. CASE ReadAt("restore.read") /\ good /\ "haltOwned" \notin s.flags /\ "changed" \in s.flags /\ Goto(s, "disable.read")
  <2>1. t' = s /\ op' = op /\ pc' = "disable.read" BY Zenon, <1>11 DEF Goto
  <2>2. ~Claiming(s) /\ "changed" \in s.flags BY Zenon, <1>6, <1>11 DEF Claiming
  <2>3. s.saved = {}
    <3>1. "C_DEBUGEN" \notin t.saved
      BY Zenon, <1>2, <1>4, <1>11, <2>2 DEF resolved, Observed, Claiming, Unresolved, Held, Parts, Changed
    <3> QED BY Zenon, <3>1, <1>2, <1>4 DEF Held, Parts, Changed, Targets
  <2>4. unsure' = FALSE
    <3>1. unsure => Unresolved(t) BY Zenon, <1>2, <1>4, <2>3 DEF Held, Parts, Unsure
    <3>2. Unresolved(t) => "C_HALT" \notin dhcsr \/ (M33 /\ "S_RESTART_ST" \in dhcsr)
      BY Zenon, <1>4, <2>2 DEF resolved, Observed, Claiming, Unresolved
    <3> QED BY ZenonT(60), <3>1, <3>2, <1>11 DEF ReadAt, Held, Typed
  <2>5. "snapStalled" \in s.flags => "snapStalled" \in t.flags \/ M33
    BY Zenon, <1>2, <1>4 DEF resolved, Observed
  <2>6. "memory" \in s.flags BY Zenon, <1>2, <1>4 DEF resolved, Observed
  <2>7. dhcsr' \subseteq dhcsr /\ (\A b \in Bits \ Sticky : b \in dhcsr => b \in dhcsr')
        /\ UNCHANGED <<dfsr, secureAllowed, unsafeMemory, world>> /\ quiet' = TRUE
    BY <1>11 DEF ReadAt, Consumed
  <2>8. \A b \in {"S_HALT", "S_REGRDY", "S_SDE", "C_DEBUGEN", "C_HALT", "C_STEP"} : b \in Bits \ Sticky
    BY Zenon DEF Bits, Sticky, Control
  <2>9. claim' = "mine" => "C_HALT" \notin dhcsr'
    BY Zenon, <1>2, <1>4, <1>11, <2>2 DEF ReadAt, Consumed, Sticky, GivenUp, resolved, Observed, Claiming, Unresolved,
      Held, Parts, Claimed
  <2>10. claim' \in {claim, "foreign"} BY ZenonT(30), <1>11 DEF ReadAt, GivenUp
  <2> USE <1>0, <1>1, <1>2, <1>4, <2>1, <2>2, <2>3, <2>4, <2>5, <2>6, <2>7, <2>8, <2>9, <2>10 DEF Held, Parts
  <2>11. Typed'
    BY ZenonT(60) DEF Typed, CoreTypeOK, Profile, Events, calm, M33, Targets, Ops, Reads, Writes, NoTarget,
      Placed, Flags, Steps
  <2>12. Placed'
    BY DEF Typed, Placed, Changed, Accesses, StepPcs, Unresolved, Targets, Steps, Clear, Claiming
  <2>13. Changed'
    BY ZenonT(30) DEF Typed, Changed, Placed, Claiming, Unresolved
  <2>14. Unsure'
    BY ZenonT(30) DEF Typed, Unsure, Placed, Changed, Claiming
  <2>15. Snap'
    BY Zenon DEF Snap, Placed, ControlWrites
  <2>16. Enabled'
    BY Zenon DEF Typed, Enabled, Placed, Changed
  <2>17. Transfer'
    BY ZenonT(30) DEF Transfer, Placed, Changed, Claiming
  <2>18. Stopped' /\ Closed'
    BY Zenon DEF Stopped, Closed
  <2>19. Claimed'
    BY ZenonT(30) DEF Typed, Claimed, Placed, Changed
  <2>20. Reported => HaltKept'
    BY Zenon DEF Typed, Owned, HaltKept, Claimed, Placed, Enabled, Changed, Unresolved, debugAllowed, Profile,
      StepPcs, Claiming
  <2> QED BY Zenon, <2>11, <2>12, <2>13, <2>14, <2>15, <2>16, <2>17, <2>18, <2>19, <2>20 DEF Held, Parts, Owned
<1>12. CASE ReadAt("restore.read") /\ good /\ "haltOwned" \notin s.flags /\ "changed" \notin s.flags /\ Finish(s)
  <2>1. claim' = "mine" => "C_HALT" \notin dhcsr'
    BY ZenonT(30), <1>2, <1>4, <1>6, <1>12 DEF ReadAt, Consumed, Sticky, GivenUp, resolved, Observed, Unresolved, Held,
      Parts, Claimed
  <2>2. s \in Targets /\ s.step = "idle" /\ "closing" \in s.flags BY Zenon, <1>2, <1>4 DEF Observed
  <2> QED BY Zenon, <2>1, <2>2, <1>2, <1>12, Finishing
<1>13. CASE ReadFailsAt("restore.read") /\ Return(readDHCSRFailed(t))
  <2>1. t' = readDHCSRFailed(t) /\ op' = "none" /\ pc' = "idle" BY Zenon, <1>13 DEF Return
  <2>2. Withdrawn(t, t') /\ "closing" \in t'.flags BY Zenon, <2>1, <1>2, FailedReadSeen
  <2> QED BY Zenon, <2>1, <2>2, <1>13, FailedReadReturns DEF Reads
<1>14. {"haltOwned", "changed"} \cap s.flags = {"changed"} => "haltOwned" \notin s.flags /\ "changed" \in s.flags
  OBVIOUS
<1>15. {"haltOwned", "changed"} \cap s.flags = {} => "haltOwned" \notin s.flags /\ "changed" \notin s.flags
  BY Zenon
<1> QED BY Zenon, <1>7, <1>8, <1>9, <1>10, <1>11, <1>12, <1>13, <1>14, <1>15 DEF RestoreRead, seen, s, steady, good

\* The last read before halting debug is disabled keeps the invariant.
LEMMA DisableReadStep == ASSUME Held, DisableRead PROVE Held'
<1>0. Reported' = Reported /\ M33' = M33
  BY ZenonT(60) DEF Reported, Unnoticed, Events, M33, Profile, DisableRead, ReadAt, ReadFailsAt
<1>1. pc = "disable.read" /\ op = "Release"
  BY ZenonT(60) DEF DisableRead, ReadAt, ReadFailsAt, Held, Parts, Placed, Accesses, StepPcs, Typed, Ops
<1>2. t \in Targets /\ t.step = "idle" /\ t.saved = {} /\ "memory" \in t.flags /\ "registerPending" \notin t.flags
      /\ "closing" \in t.flags /\ "changed" \in t.flags /\ ~Claiming(t)
  BY Zenon, <1>1 DEF Held, Parts, Placed, Typed, Targets, Changed, StepPcs
<1> DEFINE s == readDHCSR(t, dhcsr)
<1> DEFINE go == validateArchitectureControl(s, dhcsr) /\ ("C_DEBUGEN" \in dhcsr => dhcsr \cap Halted = {})
<1>3. Observed(t, s, dhcsr) /\ s.step = "idle" /\ "closing" \in s.flags BY Zenon, <1>2, ReadSeen
<1>4. go => (M33 => "snapStalled" \notin s.flags) /\ ("C_DEBUGEN" \in dhcsr => "C_HALT" \notin dhcsr /\ "S_HALT" \notin dhcsr)
  BY Zenon DEF validateArchitectureControl, Halted
<1> HIDE DEF s, go
<1>5. CASE ReadAt("disable.read") /\ Return(s)
  <2>1. t' = s /\ op' = "none" /\ pc' = "idle" BY Zenon, <1>5 DEF Return
  <2> QED BY Zenon, <2>1, <1>2, <1>3, <1>5, ReadReturns DEF Reads, StepSeen
<1>6. CASE ReadAt("disable.read") /\ go /\ Goto(s, "control.write")
  <2>1. t' = s /\ op' = op /\ pc' = "control.write" BY Zenon, <1>6 DEF Goto
  <2>2. ~Claiming(s) /\ s.saved = {} /\ "changed" \in s.flags BY Zenon, <1>2, <1>3 DEF Observed, Claiming, Unresolved
  <2>3. ~unsure BY <1>2 DEF Held, Parts, Unsure, Claiming
  <2>4. unsure' = FALSE BY ZenonT(60), <2>3, <1>6 DEF ReadAt
  <2> USE <1>0, <1>1, <1>2, <1>3, <1>4, <1>6, <2>1, <2>2, <2>4 DEF Held, Parts, ReadAt, Consumed, Sticky, GivenUp, Observed
  <2>5. Typed'
    BY Zenon DEF Typed, CoreTypeOK, Profile, Events, calm, M33, Targets, Ops, Reads, Writes, NoTarget, Placed,
      Flags, Steps
  <2>6. Placed'
    BY DEF Typed, Placed, Changed, Accesses, StepPcs, Unresolved, Targets, Steps, Clear
  <2>7. Changed'
    BY ZenonT(30) DEF Typed, Changed, Placed, Claiming, Unresolved
  <2>8. Unsure'
    BY ZenonT(30) DEF Typed, Unsure, Placed, Changed, Claiming
  <2>9. Snap'
    BY Zenon DEF Snap, Placed
  <2>10. Enabled'
    BY Zenon DEF Typed, Enabled, Placed, Changed
  <2>11. Transfer'
    BY ZenonT(30) DEF Transfer, Placed, Changed, Claiming
  <2>12. Stopped' /\ Closed'
    BY ZenonT(30) DEF Stopped, Closed, Placed, Enabled
  <2>13. Claimed'
    BY ZenonT(30) DEF Typed, Claimed, Placed, Changed
  <2>14. Reported => HaltKept'
    BY ZenonT(30) DEF Typed, Owned, HaltKept, Claimed, Placed, Enabled, Changed, Unresolved, debugAllowed, Profile,
      StepPcs, Claiming
  <2> QED BY Zenon, <2>5, <2>6, <2>7, <2>8, <2>9, <2>10, <2>11, <2>12, <2>13, <2>14 DEF Held, Parts, Owned
<1>7. CASE ReadFailsAt("disable.read") /\ Return(readDHCSRFailed(t))
  <2>1. t' = readDHCSRFailed(t) /\ op' = "none" /\ pc' = "idle" BY Zenon, <1>7 DEF Return
  <2>2. Withdrawn(t, t') /\ "closing" \in t'.flags BY <2>1, <1>2, FailedReadSeen
  <2> QED BY Zenon, <2>1, <2>2, <1>7, FailedReadReturns DEF Reads
<1> QED BY <1>5, <1>6, <1>7 DEF DisableRead, s, go

=============================================================================
