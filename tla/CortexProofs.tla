---------------------------- MODULE CortexProofs ----------------------------
(***************************************************************************)
(* Register transfers, single steps and the steps of the core itself keep  *)
(* the invariant of CortexInvariant, and what follows from it: the theorems*)
(* about CortexTarget, for every set of worlds.                            *)
(***************************************************************************)
EXTENDS CortexInvariant

\* Register transfers and single steps.

\* waitRegister gives up.
LEMMA RegisterFails ==
  ASSUME NEW s \in Targets, "closing" \in s.flags \/ (~Unresolved(s) /\ s.step = "idle"), RegisterFailed(s)
  PROVE  /\ t' = s \/ t' = With(s, {"closing"})
         /\ op' = "none" /\ pc' = "idle" /\ ("closing" \in t'.flags \/ Clear(t'))
<1>1. "closing" \in With(s, {"closing"}).flags BY ZenonT(30), ClosingSeen
<1> QED BY <1>1 DEF RegisterFailed, Abandon, Return, Clear

\* waitRegister polls on.
LEMMA RegisterStays ==
  ASSUME Held, NEW where \in {"register.read", "selected.read"}, ReadAt(where), NEW s, Observed(t, s, dhcsr), s.step = "idle",
         t.step = "idle", ~Unresolved(t), "closing" \in s.flags <=> "closing" \in t.flags,
         "C_DEBUGEN" \in dhcsr, "S_HALT" \in dhcsr, "S_REGRDY" \notin dhcsr, M33 => "snapStalled" \notin s.flags,
         Goto(With(s, {"registerPending"}), where)
  PROVE  Held'
<1>0. Reported' = Reported /\ M33' = M33 BY Zenon DEF Reported, Unnoticed, Events, M33, Profile, ReadAt
<1>1. t' = With(s, {"registerPending"}) /\ op' = op /\ pc' = pc /\ pc = where BY DEF Goto, ReadAt
<1>2. s \in Targets /\ ~Unresolved(s) BY DEF Observed, Unresolved
<1>3. t' \in Targets /\ t'.flags = s.flags \cup {"registerPending"} /\ t'.saved = s.saved /\ t'.step = s.step
  BY Zenon, <1>1, <1>2, Fields DEF Flags
<1> USE <1>0, <1>1, <1>2, <1>3 DEF Held, Parts, ReadAt, Consumed, Sticky, GivenUp, Observed
<1>4. Typed'
  BY ZenonT(30) DEF Typed, CoreTypeOK, Profile, Events, calm, M33, Targets, Ops, Reads, Writes, NoTarget, Placed, Flags,
    Steps
<1>5. Placed'
  BY DEF Typed, Placed, Changed, Accesses, StepPcs, Unresolved, Targets, Steps, Clear
<1>6. Changed'
  BY Zenon DEF Typed, Changed, Placed, Claiming, Unresolved
<1>7. Unsure'
  BY Zenon DEF Typed, Unsure, Placed
<1>8. Snap'
  BY ZenonT(30) DEF Snap
<1>9. Enabled'
  BY DEF Typed, Enabled
<1>10. Transfer'
  BY DEF Transfer, Placed
<1>11. Stopped' /\ Closed'
  BY ZenonT(30) DEF Stopped, Closed
<1>12. Claimed'
  BY Zenon DEF Typed, Claimed, Claiming, Enabled, Unresolved, StepPcs
<1>13. Reported => HaltKept'
  BY ZenonT(30) DEF Typed, Owned, HaltKept, Claimed, Placed, Enabled
<1> QED BY Zenon, <1>4, <1>5, <1>6, <1>7, <1>8, <1>9, <1>10, <1>11, <1>12, <1>13 DEF Held, Parts, Owned

\* waitRegister found the transfer done, and the call goes on.
LEMMA RegisterGoes ==
  ASSUME Held, NEW where \in {"register.read", "selected.read"}, ReadAt(where), Observed(t, t', dhcsr), Clear(t'),
         t.step = "idle", ~Unresolved(t), "closing" \in t'.flags <=> "closing" \in t.flags,
         "C_DEBUGEN" \in dhcsr, "S_HALT" \in dhcsr, "S_REGRDY" \in dhcsr, M33 => "snapStalled" \notin t'.flags,
         op' = op, op # "Release", pc' \in {"select.write", "dcrdr.write", "dcrdr.read", "dfsr.read"}, pc' \in Accesses(op),
         pc' = "dfsr.read" => "haltOwned" \in t'.flags
  PROVE  Held'
<1>0. Reported' = Reported /\ M33' = M33 BY DEF Reported, Unnoticed, Events, M33, Profile, ReadAt
<1>1. pc = where BY DEF ReadAt
<1> USE <1>0, <1>1 DEF Held, Parts, ReadAt, Consumed, Sticky, GivenUp, Observed, Clear
<1>2. Typed'
  BY ZenonT(30) DEF Typed, CoreTypeOK, Profile, Events, calm, M33, Targets, Ops, Reads, Writes, NoTarget, Placed, Flags,
    Steps
<1>3. Placed'
  BY DEF Typed, Placed, Changed, Accesses, StepPcs
<1>4. Changed'
  BY Zenon DEF Typed, Changed, Placed, Claiming, Unresolved
<1>5. Unsure'
  BY ZenonT(30) DEF Typed, Unsure, Placed, Changed, Claiming, ControlWrites, Unresolved, Enabled, Clear
<1>6. Snap'
  BY DEF Snap
<1>7. Enabled'
  BY DEF Typed, Enabled
<1>8. Transfer'
  BY DEF Transfer, Placed
<1>9. Stopped' /\ Closed'
  BY DEF Stopped, Closed
<1>10. Claimed'
  BY DEF Typed, Claimed, Claiming, Enabled, Unresolved, StepPcs
<1>11. Reported => HaltKept'
  BY Zenon DEF Typed, Owned, HaltKept, Claimed, Placed, Enabled, Changed, Unresolved, debugAllowed, Profile,
    StepPcs, Claiming
<1> QED BY ZenonT(30), <1>2, <1>3, <1>4, <1>5, <1>6, <1>7, <1>8, <1>9, <1>10, <1>11 DEF Held, Parts, Owned

\* waitRegister found the transfer done: whatever follows keeps the invariant.
LEMMA RegisterDone ==
  ASSUME Held, NEW where \in {"register.read", "selected.read"}, ReadAt(where), NEW s, Observed(t, s, dhcsr), Clear(s),
         t.step = "idle", ~Unresolved(t), "closing" \in s.flags <=> "closing" \in t.flags, op \in Ops,
         "C_DEBUGEN" \in dhcsr, "S_HALT" \in dhcsr, "S_REGRDY" \in dhcsr, M33 => "snapStalled" \notin s.flags,
         RegisterReady(s)
  PROVE  Held' \/ Gone'
<1>1. pc = where BY Zenon DEF ReadAt
<1>2. CASE op # "Release" /\ \E next \in {"select.write", "dcrdr.write", "dcrdr.read", "dfsr.read"} :
              next \in Accesses(op) /\ Goto(s, next) /\ (next = "dfsr.read" => "haltOwned" \in s.flags)
  BY <1>2, RegisterGoes DEF Goto
<1>3. CASE Return(s)
  <2>1. t' = s /\ op' = "none" /\ pc' = "idle" BY <1>3 DEF Return
  <2> QED BY <2>1, ReadReturns DEF Reads, StepSeen, Clear, StepPcs
<1>4. CASE op = "Release" /\ ReleaseFrom(s)
  <2>1. s.step = "idle" /\ "registerPending" \notin s.flags BY DEF Clear
  <2>2. CASE "changed" \in s.flags
    <3>1. t' = s /\ op' = "Release" /\ pc' = "restore.read" BY <1>4, <2>1, <2>2 DEF ReleaseFrom
    <3> QED BY <3>1, <2>1, <2>2, <1>4, ReadRestores DEF Reads
  <2>3. CASE "changed" \notin s.flags
    <3>1. Finish(s) BY Zenon, <1>4, <2>1, <2>3 DEF ReleaseFrom
    <3>2. claim' = "mine" => "C_HALT" \notin dhcsr'
      BY <2>3 DEF ReadAt, Consumed, Sticky, GivenUp, Observed, Clear, Claiming, Unresolved, Held, Parts,
        Claimed, Changed
    <3>3. s \in Targets /\ "closing" \in s.flags BY Zenon, <1>4 DEF Observed, Held, Parts, Placed
    <3> QED BY Zenon, <2>1, <3>1, <3>2, <3>3, Finishing
  <2> QED BY <2>2, <2>3
<1> QED BY <1>1, <1>2, <1>3, <1>4 DEF RegisterReady, Accesses

\* Polling for S_REGRDY keeps the invariant.
LEMMA WaitRegisterStep ==
  ASSUME Held, NEW where \in {"register.read", "selected.read"}, waitRegister(where)
  PROVE  Held' \/ Gone'
<1>1. pc = where BY ZenonT(60) DEF waitRegister, registerStatus, ReadAt, AccessAt, ReadFailsAt, FailsAt
<1>2. t \in Targets /\ t.step = "idle" /\ ~Unresolved(t) /\ op \in Ops
  BY <1>1 DEF Held, Parts, Placed, Typed, Targets, StepPcs
<1>3. CASE registerStatus(where)
  <2> DEFINE seen == readDHCSR(t, dhcsr)
  <2> DEFINE s == observeHaltRequest(seen, dhcsr)
  <2> DEFINE halted == {"C_DEBUGEN", "S_HALT"} \subseteq dhcsr
  <2>1. Observed(t, seen, dhcsr) /\ seen.step = "idle" /\ ("closing" \in seen.flags <=> "closing" \in t.flags)
        /\ ("registerPending" \in seen.flags <=> "registerPending" \in t.flags) BY Zenon, <1>2, ReadSeen
  <2>2. Observed(t, s, dhcsr) /\ s.step = "idle" /\ ("closing" \in s.flags <=> "closing" \in t.flags)
        /\ ("registerPending" \in s.flags <=> "registerPending" \in t.flags) BY <1>2, RequestSeen
  <2>3. ControlAccepted(seen, dhcsr) => (M33 => "snapStalled" \notin s.flags)
    <3> HIDE DEF seen
    <3>1. ControlAccepted(seen, dhcsr) => (M33 => "snapStalled" \notin seen.flags)
      BY DEF ControlAccepted, validateArchitectureControl
    <3> QED BY Zenon, <3>1, <2>1, <2>2 DEF Observed
  <2>4. halted => "C_DEBUGEN" \in dhcsr /\ "S_HALT" \in dhcsr OBVIOUS
  <2> HIDE DEF seen, s, halted
  <2>5. ReadAt(where) BY Zenon, <1>3 DEF registerStatus
  <2>6. ASSUME NEW r, Observed(t, r, dhcsr), r.step = "idle", RegisterFailed(r) PROVE Held'
    <3>1. r \in Targets /\ ~Unresolved(r) BY <2>6, <1>2 DEF Observed, Unresolved
    <3>2. /\ t' = r \/ t' = With(r, {"closing"})
          /\ op' = "none" /\ pc' = "idle" /\ ("closing" \in t'.flags \/ Clear(t'))
      BY <3>1, <2>6, RegisterFails
    <3>3. Observed(t, t', dhcsr) /\ t'.step = "idle" BY <3>2, <2>6, ClosingSeen
    <3> QED BY Zenon, <3>2, <3>3, <2>5, <1>2, ReadReturns DEF Reads, StepSeen, StepPcs
  <2>7. CASE RegisterFailed(With(seen, {"registerLost"}))
    <3>1. seen \in Targets BY <2>1 DEF Observed
    <3>2. With(seen, {"registerLost"}) \in Targets /\ With(seen, {"registerLost"}).flags = seen.flags \cup {"registerLost"}
          /\ With(seen, {"registerLost"}).saved = seen.saved /\ With(seen, {"registerLost"}).step = seen.step
      BY Zenon, <3>1, Fields DEF Flags
    <3>3. Observed(t, With(seen, {"registerLost"}), dhcsr) BY <3>2, <2>1 DEF Observed
    <3> QED BY <3>2, <3>3, <2>1, <2>6, <2>7
  <2>8. CASE RegisterFailed(With(seen, {"closing"}))
    BY ZenonT(60), <2>1, <2>6, <2>8, ClosingSeen
  <2>9. CASE RegisterFailed(s) BY <2>2, <2>6, <2>9
  <2>10. CASE ControlAccepted(seen, dhcsr) /\ halted /\ "S_REGRDY" \in dhcsr /\ RegisterReady(Without(s, {"registerPending"}))
    <3> DEFINE r == Without(s, {"registerPending"})
    <3>1. s \in Targets BY <2>2 DEF Observed
    <3>2. r \in Targets /\ r.flags = s.flags \ {"registerPending"} /\ r.saved = s.saved /\ r.step = s.step
      BY Zenon, <3>1, Fields DEF Flags
    <3> HIDE DEF r
    <3>3. Observed(t, r, dhcsr) /\ Clear(r) /\ ("closing" \in r.flags <=> "closing" \in t.flags) /\ (M33 => "snapStalled" \notin r.flags)
      BY <3>2, <2>2, <2>3, <2>10, <1>2 DEF Observed, Clear, Unresolved
    <3>4. RegisterReady(r) BY <2>10 DEF r
    <3> QED BY Zenon, <3>3, <3>4, <2>4, <2>5, <2>10, <1>2, RegisterDone
  <2>11. CASE ControlAccepted(seen, dhcsr) /\ halted /\ "S_REGRDY" \notin dhcsr /\ Goto(With(s, {"registerPending"}), where)
    BY Zenon, <2>2, <2>3, <2>4, <2>5, <2>11, <1>2, RegisterStays
  <2> QED BY ZenonT(30), <1>3, <2>7, <2>8, <2>9, <2>10, <2>11 DEF registerStatus, seen, s, halted
<1>4. CASE AccessAt(where) /\ RegisterFailed(t)
  <2>1. /\ t' = t \/ t' = With(t, {"closing"})
        /\ op' = "none" /\ pc' = "idle" /\ ("closing" \in t'.flags \/ Clear(t'))
    BY <1>2, <1>4, RegisterFails
  <2>2. t' \in Targets /\ t'.saved = t.saved /\ t'.step = t.step /\ (t'.flags = t.flags \/ t'.flags = t.flags \cup {"closing"})
    BY <2>1, <1>2, ClosingSeen
  <2> QED BY <2>1, <2>2, <1>4, AccessReturns DEF StepPcs
<1>5. ASSUME NEW cause, ReadFailsAt(where), RegisterFailed(readError(readDHCSRFailed(t), cause)) PROVE Held'
  <2> DEFINE r == readError(readDHCSRFailed(t), cause)
  <2>1. Withdrawn(t, r) /\ ("closing" \in r.flags \/ Clear(r)) BY ZenonT(30), <1>2, ErrorSeen
  <2> HIDE DEF r
  <2>2. /\ t' = r \/ t' = With(r, {"closing"})
        /\ op' = "none" /\ pc' = "idle" /\ ("closing" \in t'.flags \/ Clear(t'))
    <3>1. RegisterFailed(r) /\ r \in Targets BY ZenonT(30), <1>5, <2>1 DEF r, Withdrawn
    <3> QED BY <3>1, <2>1, RegisterFails DEF Clear
  <2>3. Withdrawn(t, t') BY <2>1, <2>2, ClosingSeen
  <2> QED BY ZenonT(30), <2>2, <2>3, <1>5, FailedReadReturns DEF Reads, StepPcs
<1> QED BY <1>3, <1>4, <1>5 DEF waitRegister, FailsAt

\* Writing the data of a register keeps the invariant.
LEMMA DcrdrWriteStep == ASSUME Held, DcrdrWrite PROVE Held'
<1>0. Reported' = Reported /\ M33' = M33
  BY DEF Reported, Unnoticed, Events, M33, Profile, DcrdrWrite, AccessAt, FailsAt
<1>1. pc = "dcrdr.write" /\ op = "WriteRegister"
  BY DEF DcrdrWrite, AccessAt, FailsAt, Held, Parts, Placed, Accesses, StepPcs, Typed, Ops
<1>2. t \in Targets /\ Clear(t) BY <1>1 DEF Held, Parts, Placed, Typed, Targets, Clear, StepPcs
<1>3. CASE AccessAt("dcrdr.write") /\ Goto(t, "select.write")
  <2> USE <1>0, <1>1, <1>2, <1>3 DEF Held, Parts, AccessAt, coreVars, ghosts, Goto, Clear
  <2>1. Typed'
    BY ZenonT(30) DEF Typed, CoreTypeOK, Profile, Events, calm, M33, Targets, Ops, Reads, Writes, NoTarget, Placed,
      Flags, Steps
  <2>2. Placed'
    BY DEF Typed, Placed, Changed, Accesses, StepPcs
  <2>3. Changed'
    BY DEF Typed, Changed, Placed
  <2>4. Unsure'
    BY DEF Typed, Unsure, Placed, Changed, Claiming, ControlWrites, Unresolved, Enabled, Clear
  <2>5. Snap'
    BY DEF Snap, ControlWrites
  <2>6. Enabled'
    BY Zenon DEF Typed, Enabled
  <2>7. Transfer'
    BY DEF Transfer, Placed, ControlWrites, Unresolved, StepPcs
  <2>8. Stopped' /\ Closed'
    BY Zenon DEF Stopped, Closed
  <2>9. Claimed'
    BY DEF Typed, Claimed, Placed, Changed
  <2>10. Reported => HaltKept'
    BY DEF Typed, Owned, HaltKept
  <2> QED BY Zenon, <2>1, <2>2, <2>3, <2>4, <2>5, <2>6, <2>7, <2>8, <2>9, <2>10 DEF Held, Parts, Owned
<1>4. CASE FailsAt("dcrdr.write") /\ Return(t) BY <1>2, <1>4, AccessReturns DEF FailsAt, Return, StepPcs
<1>5. CASE FailsAt("dcrdr.write") /\ Abandon(t) BY <1>2, <1>5, AccessReturns, ClosingSeen DEF FailsAt, Return,
    Abandon
<1> QED BY <1>3, <1>4, <1>5 DEF DcrdrWrite

\* Selecting the register, which starts the transfer, keeps the invariant.
LEMMA SelectStep == ASSUME Held, selectRegister PROVE Held'
<1>0. Reported' = Reported /\ M33' = M33
  BY Zenon DEF Reported, Unnoticed, Events, M33, Profile, selectRegister, AccessAt, FailsAt
<1>1. pc = "select.write" /\ op \in {"ReadRegister", "WriteRegister"}
  BY DEF selectRegister, AccessAt, FailsAt, Held, Parts, Placed, Accesses, StepPcs, Typed, Ops
<1>2. t \in Targets /\ Clear(t) /\ "closing" \notin t.flags /\ "memory" \in t.flags
  BY <1>1 DEF Held, Parts, Placed, Typed, Targets, Clear, StepPcs
<1> DEFINE pending == With(t, {"registerPending"})
<1>3. pending \in Targets /\ pending.flags = t.flags \cup {"registerPending"} /\ pending.saved = t.saved /\ pending.step = t.step
  BY <1>2, Fields DEF Flags
<1> HIDE DEF pending
<1>4. With(pending, {"closing"}) \in Targets /\ With(pending, {"closing"}).flags = t.flags \cup {"registerPending", "closing"}
      /\ With(pending, {"closing"}).saved = t.saved /\ With(pending, {"closing"}).step = t.step
  BY <1>3, ClosingSeen
<1> DEFINE started == IF "S_HALT" \in dhcsr THEN StartTransfer(dhcsr) ELSE dhcsr
<1>5. dhcsr' \in {started, dhcsr} =>
        /\ \A b : b # "S_REGRDY" => (b \in dhcsr' <=> b \in dhcsr)
        /\ dhcsr' \subseteq dhcsr
  BY DEF StartTransfer
<1> HIDE DEF started
<1>6. CASE dhcsr' \in {started, dhcsr} /\ UNCHANGED <<dfsr, secureAllowed, unsafeMemory, ghosts, world>> /\ Goto(pending, "selected.read")
  <2> USE <1>0, <1>1, <1>2, <1>3, <1>5, <1>6 DEF Held, Parts, ghosts, Goto, Clear
  <2>1. Typed'
    BY ZenonT(30) DEF Typed, CoreTypeOK, Profile, Events, calm, M33, Targets, Ops, Reads, Writes, NoTarget, Placed,
      Flags, Steps
  <2>2. Placed'
    BY DEF Typed, Placed, Changed, Accesses, StepPcs, Unresolved, Targets, Steps, Clear
  <2>3. Changed'
    BY ZenonT(30) DEF Typed, Changed, Placed, Claiming, Unresolved
  <2>4. Unsure'
    BY DEF Typed, Unsure, Placed, Changed, Claiming, ControlWrites, Unresolved, Enabled, Clear
  <2>5. Snap'
    BY DEF Snap, ControlWrites
  <2>6. Enabled'
    BY Zenon DEF Typed, Enabled, Claiming, Unresolved, StepPcs
  <2>7. Transfer'
    BY DEF Transfer, Placed
  <2>8. Stopped' /\ Closed'
    BY Zenon DEF Stopped, Closed
  <2>9. Claimed'
    BY DEF Typed, Claimed, Claiming, Enabled, Unresolved, StepPcs
  <2>10. Reported => HaltKept'
    BY Zenon DEF Typed, Owned, HaltKept
  <2> QED BY ZenonT(30), <2>1, <2>2, <2>3, <2>4, <2>5, <2>6, <2>7, <2>8, <2>9, <2>10 DEF Held, Parts, Owned
<1>7. CASE dhcsr' \in {started, dhcsr} /\ UNCHANGED <<dfsr, secureAllowed, unsafeMemory, ghosts, world>> /\ Abandon(pending)
  <2> USE <1>0, <1>1, <1>2, <1>4, <1>5, <1>7 DEF Held, Parts, ghosts, Return, Abandon, Clear
  <2>1. Typed'
    BY ZenonT(30) DEF Typed, CoreTypeOK, Profile, Events, calm, M33, Targets, Ops, Reads, Writes, NoTarget, Placed,
      Flags, Steps
  <2>2. Placed'
    BY DEF Typed, Placed, Changed, Accesses, StepPcs, Unresolved, Targets, Steps, Clear
  <2>3. Changed'
    BY ZenonT(30) DEF Typed, Changed, Placed, Claiming, Unresolved
  <2>4. Unsure'
    BY ZenonT(30) DEF Typed, Unsure, Placed, Changed, Claiming, ControlWrites, Unresolved, Enabled, Clear
  <2>5. Snap'
    BY DEF Snap, ControlWrites
  <2>6. Enabled'
    BY DEF Typed, Enabled, Claiming, Unresolved, StepPcs
  <2>7. Transfer'
    BY ZenonT(30) DEF Transfer, Placed
  <2>8. Stopped' /\ Closed'
    BY Zenon DEF Stopped, Closed
  <2>9. Claimed'
    BY DEF Typed, Claimed, Claiming, Enabled, Unresolved, StepPcs
  <2>10. Reported => HaltKept'
    BY Zenon DEF Typed, Owned, HaltKept
  <2> QED BY ZenonT(30), <2>1, <2>2, <2>3, <2>4, <2>5, <2>6, <2>7, <2>8, <2>9, <2>10 DEF Held, Parts, Owned
<1>8. CASE FailsAt("select.write") /\ Return(t) BY <1>2, <1>8, AccessReturns DEF FailsAt, Return, StepPcs
<1>9. CASE FailsAt("select.write") /\ Abandon(t) BY Zenon, <1>2, <1>9, AccessReturns, ClosingSeen DEF FailsAt, Return,
    Abandon
<1> QED BY <1>6, <1>7, <1>8, <1>9 DEF selectRegister, FailsAt, AccessAt, coreVars, pending, started

\* Reading the data of a register keeps the invariant.
LEMMA DcrdrReadStep == ASSUME Held, DcrdrRead PROVE Held'
<1>1. pc = "dcrdr.read" BY DEF DcrdrRead, AccessAt, FailsAt
<1>2. t \in Targets /\ Clear(t) BY <1>1 DEF Held, Parts, Placed, Typed, Targets, Clear, StepPcs
<1>3. CASE AccessAt("dcrdr.read") /\ Return(t) BY <1>2, <1>3, AccessReturns DEF Return, StepPcs
<1>4. CASE AccessAt("dcrdr.read") /\ Abandon(t) BY Zenon, <1>2, <1>4, AccessReturns, ClosingSeen DEF Return, Abandon
<1> QED BY <1>3, <1>4 DEF DcrdrRead, FailsAt

\* Clearing the reasons before a step keeps the invariant.
LEMMA DfsrReadStep == ASSUME Held, DfsrRead PROVE Held'
<1>0. Reported' = Reported /\ M33' = M33
  BY Zenon DEF Reported, Unnoticed, Events, M33, Profile, DfsrRead, AccessAt, FailsAt
<1>1. pc = "dfsr.read" /\ op = "Step"
  BY Zenon DEF DfsrRead, AccessAt, FailsAt, Held, Parts, Placed, Accesses, StepPcs, Typed, Ops
<1>2. t \in Targets /\ Clear(t) /\ "haltOwned" \in t.flags
  BY <1>1 DEF Held, Parts, Placed, Typed, Targets, Clear, StepPcs, Changed
<1>3. CASE AccessAt("dfsr.read") /\ Return(t) BY <1>2, <1>3, AccessReturns DEF Return, StepPcs
<1>4. CASE AccessAt("dfsr.read") /\ "EXTERNAL" \notin dfsr /\ Goto(t, "step.write")
  <2> USE <1>0, <1>1, <1>2, <1>4 DEF Held, Parts, AccessAt, coreVars, ghosts, Goto, Clear
  <2>1. Typed'
    BY ZenonT(30) DEF Typed, CoreTypeOK, Profile, Events, Reads, Writes, NoTarget, Placed, Flags, Steps
  <2>2. Placed'
    BY DEF Typed, Placed, Changed, Accesses, StepPcs
  <2>3. Changed'
    BY Zenon DEF Typed, Changed, Placed
  <2>4. Unsure'
    BY DEF Typed, Unsure, Placed
  <2>5. Snap'
    BY DEF Snap
  <2>6. Enabled'
    BY Zenon DEF Typed, Enabled
  <2>7. Transfer'
    BY DEF Transfer, Placed, Changed, Claiming
  <2>8. Stopped' /\ Closed'
    BY Zenon DEF Stopped, Closed
  <2>9. Claimed'
    BY Zenon DEF Typed, Claimed
  <2>10. Reported => HaltKept'
    BY DEF Typed, Owned, HaltKept
  <2> QED BY ZenonT(30), <2>1, <2>2, <2>3, <2>4, <2>5, <2>6, <2>7, <2>8, <2>9, <2>10 DEF Held, Parts, Owned
<1>5. CASE AccessAt("dfsr.read") /\ \E cause \in {"context", "bus"} : Return(readError(t, cause))
  <2>1. Return(t) \/ Return(With(t, {"closing"})) BY <1>5 DEF readError
  <2> QED BY ZenonT(30), <2>1, <1>2, <1>5, AccessReturns, ClosingSeen DEF Return, StepPcs
<1> QED BY <1>3, <1>4, <1>5 DEF DfsrRead, FailsAt

\* Starting a step keeps the invariant.
LEMMA StepWriteStep == ASSUME Held, StepWrite PROVE Held'
<1>0. Reported' = Reported /\ M33' = M33
  BY Zenon DEF Reported, Unnoticed, Events, M33, Profile, StepWrite, WriteAt, WriteFailsAt, FailsAt, AccessAt
<1>1. pc = "step.write" /\ op = "Step"
  BY Zenon DEF StepWrite, WriteAt, WriteFailsAt, FailsAt, AccessAt, Held, Parts, Placed, Accesses, StepPcs, Typed,
    Ops
<1>2. t \in Targets /\ Clear(t) /\ "memory" \in t.flags /\ "haltOwned" \in t.flags /\ "changed" \in t.flags /\ "closing" \notin t.flags
      /\ "snapStalled" \notin t.flags /\ "C_DEBUGEN" \in dhcsr /\ dhcsr \in SUBSET Bits
      /\ ~("S_HALT" \in dhcsr /\ "S_REGRDY" \notin dhcsr)
  BY Zenon, <1>1 DEF Held, Parts, Placed, Typed, Targets, Clear, StepPcs, Changed, Claiming, Snap, ControlWrites,
    Enabled, CoreTypeOK, Transfer
<1>3. ~unsure BY Zenon, <1>1, <1>2 DEF Held, Parts, Unsure, Clear, ControlWrites
<1> DEFINE C == {"C_DEBUGEN", "C_STEP"}
<1> DEFINE d == writeControl(dhcsr, C)
<1>4. d \in SUBSET Bits /\ (\A b \in Bits \ Control : b \in d <=> b \in dhcsr) /\ "C_DEBUGEN" \in d /\ "C_HALT" \notin d
  <2>1. C \in SUBSET {"C_DEBUGEN", "C_HALT", "C_STEP"} OBVIOUS
  <2> QED BY <1>2, Written
<1> HIDE DEF d
<1>5. \A b \in {"S_HALT", "S_REGRDY", "S_SDE", "S_RESTART_ST"} : b \in Bits \ Control BY DEF Bits, Control,
    Sticky
<1> DEFINE launched(phase) == [Without(t, {"haltOwned"}) EXCEPT !.step = phase]
<1>6. \A phase \in Steps : /\ launched(phase) \in Targets /\ launched(phase).flags = t.flags \ {"haltOwned"}
                           /\ launched(phase).saved = t.saved /\ launched(phase).step = phase
  BY <1>2, Fields, Stepping DEF Flags
<1> HIDE DEF launched
<1>7. CASE WriteAt("step.write", C, FALSE) /\ Goto(launched("running"), "settle.read")
  <2>1. t' = launched("running") /\ op' = op /\ pc' = "settle.read" BY <1>7 DEF Goto
  <2>2. t' \in Targets /\ t'.flags = t.flags \ {"haltOwned"} /\ t'.saved = t.saved /\ t'.step = "running" BY <1>6, <2>1 DEF Steps
  <2>3. /\ dhcsr' \in {dhcsr, d} /\ claim' = claim
        /\ UNCHANGED <<dfsr, secureAllowed, unsafeMemory, quiet, world>>
    BY <1>7 DEF WriteAt, d
  <2>4. unsure' = FALSE BY ZenonT(60), <1>7, <1>3 DEF WriteAt
  <2> USE <1>0, <1>1, <1>2, <1>4, <1>5, <2>2, <2>3, <2>4 DEF Held, Parts, Clear
  <2>5. op' = op /\ pc' = "settle.read" BY <2>1
  <2> USE <2>5
  <2>6. Typed'
    BY ZenonT(60) DEF Typed, CoreTypeOK, Profile, Events, calm, M33, Targets, Ops, Reads, Writes, NoTarget,
      Placed, Flags, Steps
  <2>7. Placed'
    BY DEF Typed, Placed, Changed, Accesses, StepPcs, Unresolved, Targets, Steps, Clear
  <2>8. Changed'
    BY ZenonT(30) DEF Typed, Changed, Placed
  <2>9. Unsure'
    BY Zenon DEF Typed, Unsure, Placed
  <2>10. Snap'
    BY Zenon DEF Snap
  <2>11. Enabled'
    BY DEF Typed, Enabled
  <2>12. Transfer'
    BY ZenonT(30) DEF Transfer, Placed
  <2>13. Stopped' /\ Closed'
    BY Zenon DEF Stopped, Closed
  <2>14. Claimed'
    BY Zenon DEF Typed, Claimed
  <2>15. Reported => HaltKept'
    BY Zenon DEF Typed, Owned, HaltKept
  <2> QED BY Zenon, <2>6, <2>7, <2>8, <2>9, <2>10, <2>11, <2>12, <2>13, <2>14, <2>15 DEF Held, Parts, Owned
<1>8. CASE WriteFailsAt("step.write", C, FALSE) /\ Abandon(launched("uncertain"))
  <2>1. t' = With(launched("uncertain"), {"closing"}) /\ op' = "none" /\ pc' = "idle" BY <1>8 DEF Abandon,
      Return
  <2>2. t' \in Targets /\ t'.flags = (t.flags \ {"haltOwned"}) \cup {"closing"} /\ t'.saved = t.saved /\ t'.step = "uncertain"
    BY ZenonT(60), <1>6, <2>1, ClosingSeen DEF Steps
  <2>3. /\ dhcsr' \in {dhcsr, d} /\ claim' = claim
        /\ UNCHANGED <<dfsr, secureAllowed, unsafeMemory, quiet, world>>
    BY <1>8 DEF WriteFailsAt, d
  <2>4. unsure' = FALSE BY ZenonT(60), <1>8, <1>3 DEF WriteFailsAt
  <2>5. op' = "none" /\ pc' = "idle" BY Zenon, <2>1
  <2> USE <1>0, <1>1, <1>2, <1>4, <1>5, <2>2, <2>3, <2>4, <2>5 DEF Held, Parts, Clear
  <2>6. Typed'
    BY ZenonT(60) DEF Typed, CoreTypeOK, Profile, Events, calm, M33, Targets, Ops, Reads, Writes, NoTarget,
      Placed, Flags, Steps
  <2>7. Placed'
    BY ZenonT(30) DEF Typed, Placed, Changed, Accesses, StepPcs, Unresolved, Targets, Steps, Clear
  <2>8. Changed'
    BY ZenonT(30) DEF Typed, Changed, Placed
  <2>9. Unsure'
    BY Zenon DEF Typed, Unsure, Placed
  <2>10. Snap'
    BY Zenon DEF Snap
  <2>11. Enabled'
    BY Zenon DEF Typed, Enabled
  <2>12. Transfer'
    BY Zenon DEF Transfer, Placed
  <2>13. Stopped' /\ Closed'
    BY Zenon DEF Stopped, Closed
  <2>14. Claimed'
    BY ZenonT(30) DEF Typed, Claimed
  <2>15. Reported => HaltKept'
    BY DEF Typed, Owned, HaltKept, Changed, Unresolved, debugAllowed, Profile, StepPcs, Claiming
  <2> QED BY ZenonT(30), <2>6, <2>7, <2>8, <2>9, <2>10, <2>11, <2>12, <2>13, <2>14, <2>15 DEF Held, Parts, Owned
<1>9. CASE FailsAt("step.write") /\ Return(t) BY Zenon, <1>2, <1>9, AccessReturns DEF FailsAt, Return, StepPcs
<1> QED BY ZenonT(60), <1>7, <1>8, <1>9 DEF StepWrite, launched

-----------------------------------------------------------------------------
\* The observation of a single step and its completion.

\* stepStatus is one of the outcomes Observed allows.
LEMMA StepObserved ==
  ASSUME NEW v, t \in Targets, t.step # "idle"
  PROVE  LET s == stepStatus(v) IN
         /\ Observed(t, s, v) /\ StepSeen(t, s)
         /\ "closing" \in s.flags <=> "closing" \in t.flags
         /\ StepAccepted(v) =>
              /\ M33 => "snapStalled" \notin s.flags /\ "S_SDE" \in v
              /\ s.step = t.step \/ (t.step = "running" /\ s.step = "stopped")
              /\ s.step \in {"stopped", "restoring"} => "C_HALT" \in v /\ "S_HALT" \in v
              /\ s.step = "restoring" => (M33 => "S_RESTART_ST" \notin v)
<1> DEFINE seen == readDHCSR(t, v)
<1>1. Observed(t, seen, v) /\ seen.step = t.step /\ ("closing" \in seen.flags <=> "closing" \in t.flags) BY Zenon, ReadSeen
<1>2. seen \in Targets BY <1>1 DEF Observed
<1>3. stepStatus(v) = observeStepState(seen, v) BY DEF stepStatus
<1>4. StepAccepted(v) <=> StepIntact(seen, v) /\ validateArchitectureControl(seen, v) BY DEF StepAccepted
<1>5. \A p \in Steps : /\ [seen EXCEPT !.step = p] \in Targets /\ [seen EXCEPT !.step = p].flags = seen.flags
                       /\ [seen EXCEPT !.step = p].saved = seen.saved /\ [seen EXCEPT !.step = p].step = p
  BY Zenon, <1>2, Stepping
<1> HIDE DEF seen
<1>6. \A p \in Steps : Observed(t, [seen EXCEPT !.step = p], v) BY <1>1, <1>5 DEF Observed
<1>7. "lost" \in Steps /\ "stopped" \in Steps BY DEF Steps
<1>8. validateArchitectureControl(seen, v) => (M33 => "snapStalled" \notin seen.flags /\ "S_SDE" \in v)
  BY DEF validateArchitectureControl
<1>9. Halted \subseteq v <=> "C_HALT" \in v /\ "S_HALT" \in v BY DEF Halted
<1>10. CASE ~StepIntact(seen, v)
  <2>1. observeStepState(seen, v) = [seen EXCEPT !.step = "lost"] BY <1>10 DEF observeStepState
  <2> QED BY <2>1, <1>1, <1>3, <1>4, <1>5, <1>6, <1>7, <1>10 DEF StepSeen
<1>11. CASE StepIntact(seen, v) /\ seen.step = "running" /\ Halted \subseteq v
  <2>1. observeStepState(seen, v) = [seen EXCEPT !.step = "stopped"] BY Zenon, <1>11 DEF observeStepState
  <2> QED BY <2>1, <1>1, <1>3, <1>4, <1>5, <1>6, <1>7, <1>8, <1>9, <1>11 DEF StepSeen
<1>12. CASE StepIntact(seen, v) /\ ~(seen.step = "running" /\ Halted \subseteq v)
  <2>1. observeStepState(seen, v) = seen BY Zenon, <1>12 DEF observeStepState
  <2>2. seen.step \in {"stopped", "restoring"} => "C_HALT" \in v /\ "S_HALT" \in v /\ (M33 => "S_RESTART_ST" \notin v)
    BY Zenon, <1>9, <1>12 DEF StepIntact, stepHaltLost
  <2> QED BY Zenon, <2>1, <2>2, <1>1, <1>3, <1>4, <1>8, <1>12 DEF StepSeen
<1> QED BY Zenon, <1>10, <1>11, <1>12

\* A step that ended with C_STEP cleared leaves the target idle.
LEMMA StepIdles ==
  ASSUME Held, ReadAt("settle.read"), t.step = "restoring", Observed(t, t', dhcsr), t'.step = "idle",
         "C_STEP" \notin dhcsr, "C_HALT" \in dhcsr, "S_HALT" \in dhcsr, M33 => "S_RESTART_ST" \notin dhcsr,
         op' = "none", pc' = "idle", "closing" \in t'.flags \/ "haltOwned" \in t'.flags
  PROVE  Held'
<1>0. Reported' = Reported /\ M33' = M33 BY Zenon DEF Reported, Unnoticed, Events, M33, Profile, ReadAt
<1> USE <1>0 DEF Held, Parts, ReadAt, Consumed, Sticky, GivenUp, Observed
<1>1. Typed'
  BY ZenonT(30) DEF Typed, CoreTypeOK, Profile, Events, calm, M33, Targets, Ops, Reads, Writes, NoTarget, Placed, Flags,
    Steps
<1>2. Placed'
  BY ZenonT(30) DEF Typed, Placed, Changed, Accesses, StepPcs, Unresolved, Targets, Steps, Clear
<1>3. Changed'
  BY Zenon DEF Typed, Changed, Placed, Claiming, Unresolved
<1>4. Unsure'
  BY Zenon DEF Typed, Unsure, Placed
<1>5. Snap'
  BY Zenon DEF Snap, ControlWrites
<1>6. Enabled'
  BY Zenon DEF Typed, Enabled
<1>7. Transfer'
  BY Zenon DEF Transfer, Placed
<1>8. Stopped' /\ Closed'
  BY Zenon DEF Stopped, Closed
<1>9. Claimed'
  BY ZenonT(30) DEF Typed, Claimed, Claiming, Enabled, Unresolved, StepPcs
<1>10. Reported => HaltKept'
  BY DEF Typed, Owned, HaltKept, Claimed, Placed, Enabled
<1> QED BY ZenonT(30), <1>1, <1>2, <1>3, <1>4, <1>5, <1>6, <1>7, <1>8, <1>9, <1>10 DEF Held, Parts, Owned

\* Polling for the end of a step keeps the invariant.
LEMMA SettleReadStep == ASSUME Held, SettleRead PROVE Held' \/ Gone'
<1>0. Reported' = Reported /\ M33' = M33
  BY ZenonT(60) DEF Reported, Unnoticed, Events, M33, Profile, SettleRead, ReadAt, ReadFailsAt, FailsAt,
    AccessAt
<1>1. pc = "settle.read" /\ op \in {"Step", "Release"}
  BY ZenonT(60) DEF SettleRead, ReadAt, ReadFailsAt, FailsAt, AccessAt, Held, Parts, Placed, Accesses, StepPcs,
    Typed, Ops
<1>2. t \in Targets /\ t.step # "idle" /\ ~Unresolved(t) /\ "registerPending" \notin t.flags /\ "memory" \in t.flags
  BY Zenon, <1>1 DEF Held, Parts, Placed, Typed, Targets, StepPcs
<1>3. ~unsure BY Zenon, <1>2 DEF Held, Parts, Unsure
<1> DEFINE s == stepStatus(dhcsr)
<1> DEFINE good == StepAccepted(dhcsr)
<1>4. /\ Observed(t, s, dhcsr) /\ StepSeen(t, s)
      /\ "closing" \in s.flags <=> "closing" \in t.flags
      /\ good => /\ M33 => "snapStalled" \notin s.flags /\ "S_SDE" \in dhcsr
                 /\ s.step = t.step \/ (t.step = "running" /\ s.step = "stopped")
                 /\ s.step \in {"stopped", "restoring"} => "C_HALT" \in dhcsr /\ "S_HALT" \in dhcsr
                 /\ s.step = "restoring" => (M33 => "S_RESTART_ST" \notin dhcsr)
  BY Zenon, <1>2, StepObserved
<1> HIDE DEF s, good
<1>5. CASE AccessAt("settle.read") /\ Abandon(t) BY Zenon, <1>2, <1>5, AccessReturns, ClosingSeen DEF Return, Abandon
<1>6. CASE ReadAt("settle.read") /\ Abandon(s)
  <2>1. t' = With(s, {"closing"}) /\ op' = "none" /\ pc' = "idle" BY Zenon, <1>6 DEF Abandon, Return
  <2>2. Observed(t, t', dhcsr) /\ t'.step = s.step /\ "closing" \in t'.flags BY Zenon, <2>1, <1>4, ClosingSeen
  <2>3. StepSeen(t, t') BY <2>2, <1>4 DEF StepSeen
  <2> QED BY Zenon, <2>1, <2>2, <2>3, <1>6, ReadReturns DEF Reads
<1>7. CASE ReadAt("settle.read") /\ good /\ s.step = "restoring" /\ "C_STEP" \notin dhcsr /\ StepSettled([s EXCEPT !.step = "idle"])
  <2> DEFINE r == [s EXCEPT !.step = "idle"]
  <2>1. r \in Targets /\ r.flags = s.flags /\ r.saved = s.saved /\ r.step = "idle"
    BY ZenonT(60), <1>4, Stepping DEF Observed, Steps
  <2> HIDE DEF r
  <2>2. Observed(t, r, dhcsr) /\ t.step = "restoring" /\ "C_HALT" \in dhcsr /\ "S_HALT" \in dhcsr /\ (M33 => "S_RESTART_ST" \notin dhcsr)
    BY <2>1, <1>4, <1>7 DEF Observed
  <2>3. CASE "haltOwned" \in r.flags /\ Return(r)
    BY Zenon, <2>1, <2>2, <2>3, <1>7, StepIdles DEF Return
  <2>4. CASE Abandon(r)
    <3>1. t' = With(r, {"closing"}) /\ op' = "none" /\ pc' = "idle" BY Zenon, <2>4 DEF Abandon, Return
    <3>2. Observed(t, t', dhcsr) /\ t'.step = "idle" /\ "closing" \in t'.flags BY Zenon, <3>1, <2>1, <2>2, ClosingSeen
    <3> QED BY Zenon, <3>1, <3>2, <2>2, <1>7, StepIdles
  <2>5. CASE op = "Release" /\ ReleaseFrom(r)
    <3>1. "registerPending" \notin r.flags BY <2>2, <1>2 DEF Observed
    <3>2. CASE "changed" \in r.flags
      <4>1. t' = r /\ op' = "Release" /\ pc' = "restore.read" BY <2>1, <2>5, <3>1, <3>2 DEF ReleaseFrom
      <4> QED BY Zenon, <4>1, <2>1, <2>2, <2>5, <3>1, <3>2, <1>7, ReadRestores DEF Reads
    <3>3. CASE "changed" \notin r.flags
      <4>1. Finish(r) BY Zenon, <2>1, <2>5, <3>1, <3>3 DEF ReleaseFrom
      <4>2. claim' = "mine" => "C_HALT" \notin dhcsr'
        BY ZenonT(30), <2>2, <3>3, <1>2, <1>7 DEF ReadAt, GivenUp, Observed, Unresolved, Held, Parts, Claimed, Changed
      <4>3. "closing" \in r.flags BY Zenon, <2>1, <2>5, <1>4 DEF Held, Parts, Placed
      <4> QED BY Zenon, <2>1, <4>1, <4>2, <4>3, <1>7, Finishing
    <3> QED BY Zenon, <3>2, <3>3
  <2> QED BY <1>7, <2>3, <2>4, <2>5 DEF StepSettled, r
<1>8. CASE ReadAt("settle.read") /\ good /\ s.step = "stopped" /\ Goto(s, "reason.read")
  <2>1. t' = s /\ op' = op /\ pc' = "reason.read" BY <1>8 DEF Goto
  <2>2. unsure' = FALSE BY ZenonT(60), <1>3, <1>8 DEF ReadAt
  <2> USE <1>0, <1>1, <1>2, <1>4, <1>8, <2>1, <2>2 DEF Held, Parts, ReadAt, Consumed, Sticky, GivenUp, Observed
  <2>3. Typed'
    BY Zenon DEF Typed, CoreTypeOK, Profile, Events, calm, M33, Targets, Ops, Reads, Writes, NoTarget, Placed,
      Flags, Steps
  <2>4. Placed'
    BY Zenon DEF Typed, Placed, Changed, Accesses, StepPcs, Unresolved, Targets, Steps, Clear
  <2>5. Changed'
    BY ZenonT(30) DEF Typed, Changed, Placed, Claiming, Unresolved
  <2>6. Unsure'
    BY Zenon DEF Typed, Unsure, Placed
  <2>7. Snap'
    BY Zenon DEF Snap
  <2>8. Enabled'
    BY DEF Typed, Enabled
  <2>9. Transfer'
    BY ZenonT(30) DEF Transfer, Placed
  <2>10. Stopped' /\ Closed'
    BY ZenonT(30) DEF Stopped, Closed
  <2>11. Claimed'
    BY Zenon DEF Typed, Claimed
  <2>12. Reported => HaltKept'
    BY Zenon DEF Typed, Owned, HaltKept, Changed, Unresolved, debugAllowed, Profile, StepPcs, Claiming
  <2> QED BY ZenonT(30), <2>3, <2>4, <2>5, <2>6, <2>7, <2>8, <2>9, <2>10, <2>11, <2>12 DEF Held, Parts, Owned
<1>9. CASE ReadAt("settle.read") /\ good /\ s.step = "restoring" /\ Goto(s, Rewrite)
  <2>1. t' = s /\ op' = op /\ pc' = IF M33 THEN "finish.read" ELSE "finish.write" BY <1>9 DEF Goto, Rewrite
  <2>2. unsure' = FALSE BY ZenonT(60), <1>3, <1>9 DEF ReadAt
  <2> USE <1>0, <1>1, <1>2, <1>4, <1>9, <2>1, <2>2 DEF Held, Parts, ReadAt, Consumed, Sticky, GivenUp, Observed
  <2>3. Typed'
    BY Zenon DEF Typed, CoreTypeOK, Profile, Events, calm, M33, Targets, Ops, Reads, Writes, NoTarget, Placed,
      Flags, Steps
  <2>4. Placed'
    BY Zenon DEF Typed, Placed, Changed, Accesses, StepPcs, Unresolved, Targets, Steps, Clear
  <2>5. Changed'
    BY ZenonT(30) DEF Typed, Changed, Placed
  <2>6. Unsure'
    BY Zenon DEF Typed, Unsure, Placed
  <2>7. Snap'
    BY Zenon DEF Snap
  <2>8. Enabled'
    BY Zenon DEF Typed, Enabled
  <2>9. Transfer'
    BY ZenonT(30) DEF Transfer, Placed
  <2>10. Stopped' /\ Closed'
    BY ZenonT(30) DEF Stopped, Closed
  <2>11. Claimed'
    BY Zenon DEF Typed, Claimed
  <2>12. Reported => HaltKept'
    BY ZenonT(30) DEF Typed, Owned, HaltKept, Claimed, Placed, Enabled
  <2> QED BY ZenonT(30), <2>3, <2>4, <2>5, <2>6, <2>7, <2>8, <2>9, <2>10, <2>11, <2>12 DEF Held, Parts, Owned
<1>10. CASE ReadAt("settle.read") /\ good /\ s.step = "running" /\ Goto(s, "settle.read")
  <2>1. t' = s /\ op' = op /\ pc' = "settle.read" BY <1>10 DEF Goto
  <2>2. unsure' = FALSE BY ZenonT(60), <1>3, <1>10 DEF ReadAt
  <2> USE <1>0, <1>1, <1>2, <1>4, <1>10, <2>1, <2>2 DEF Held, Parts, ReadAt, Consumed, Sticky, GivenUp, Observed
  <2>3. Typed'
    BY ZenonT(30) DEF Typed, CoreTypeOK, Profile, Events, calm, M33, Targets
  <2>4. Placed'
    BY ZenonT(30) DEF Typed, Placed, Changed, Accesses, StepPcs, Unresolved, Targets, Steps, Clear
  <2>5. Changed'
    BY ZenonT(30) DEF Typed, Changed, Placed, Claiming, Unresolved
  <2>6. Unsure'
    BY Zenon DEF Typed, Unsure, Placed
  <2>7. Snap'
    BY Zenon DEF Snap
  <2>8. Enabled'
    BY Zenon DEF Typed, Enabled
  <2>9. Transfer'
    BY ZenonT(30) DEF Transfer, Placed
  <2>10. Stopped' /\ Closed'
    BY Zenon DEF Stopped, Closed
  <2>11. Claimed'
    BY ZenonT(30) DEF Typed, Claimed
  <2>12. Reported => HaltKept'
    BY Zenon DEF Typed, Owned, HaltKept, Changed, Unresolved, debugAllowed, Profile, StepPcs, Claiming
  <2> QED BY ZenonT(30), <2>3, <2>4, <2>5, <2>6, <2>7, <2>8, <2>9, <2>10, <2>11, <2>12 DEF Held, Parts, Owned
<1>11. CASE ReadFailsAt("settle.read") /\ Abandon(readDHCSRFailed(t))
  <2>1. t' = With(readDHCSRFailed(t), {"closing"}) /\ op' = "none" /\ pc' = "idle" BY <1>11 DEF Abandon, Return
  <2>2. Withdrawn(t, t') /\ "closing" \in t'.flags BY ZenonT(60), <2>1, <1>2, FailedReadSeen, ClosingSeen
  <2> QED BY Zenon, <2>1, <2>2, <1>11, FailedReadReturns DEF Reads
<1> QED BY Zenon, <1>5, <1>6, <1>7, <1>8, <1>9, <1>10, <1>11 DEF SettleRead, FailsAt, s, good

\* Reading why the core stopped, which decides whose the halt is, keeps the invariant.
LEMMA ReasonReadStep == ASSUME Held, ReasonRead PROVE Held'
<1>0. Reported' = Reported /\ M33' = M33
  BY Zenon DEF Reported, Unnoticed, Events, M33, Profile, ReasonRead, FailsAt, AccessAt
<1>1. pc = "reason.read" /\ op \in {"Step", "Release"}
  BY Zenon DEF ReasonRead, FailsAt, AccessAt, Held, Parts, Placed, Accesses, StepPcs, Typed, Ops
<1>2. t \in Targets /\ t.step = "stopped" /\ ~Unresolved(t) /\ "registerPending" \notin t.flags /\ "memory" \in t.flags
      /\ "haltOwned" \notin t.flags /\ "changed" \in t.flags
  BY ZenonT(30), <1>1 DEF Held, Parts, Placed, Typed, Targets, StepPcs, Changed
<1>3. ~unsure BY <1>2 DEF Held, Parts, Unsure
<1> DEFINE ended == [t EXCEPT !.step = "restoring"]
<1>4. ended \in Targets /\ ended.flags = t.flags /\ ended.saved = t.saved /\ ended.step = "restoring"
  BY ZenonT(60), <1>2, Stepping DEF Steps
<1> HIDE DEF ended
<1>5. With(ended, {"haltOwned"}) \in Targets /\ With(ended, {"haltOwned"}).flags = t.flags \cup {"haltOwned"}
      /\ With(ended, {"haltOwned"}).saved = t.saved /\ With(ended, {"haltOwned"}).step = "restoring"
  BY <1>4, Fields DEF Flags
<1>6. Relinquish(ended, {"haltOwned"}) \in Targets
      /\ Relinquish(ended, {"haltOwned"}).saved = t.saved /\ Relinquish(ended, {"haltOwned"}).step = "restoring"
      /\ \A f \in Flags : f \in Relinquish(ended, {"haltOwned"}).flags <=>
            IF f = "changed" THEN "C_DEBUGEN" \notin t.saved ELSE f \in t.flags /\ f \notin {"haltOwned"}
  <2>1. {"haltOwned"} \in SUBSET Flags BY DEF Flags
  <2> QED BY <2>1, <1>4, Relinquishing
<1>7. \A f \in {"memory", "closing", "haltUncertain", "resumeUncertain", "registerPending", "snapStalled", "haltOwned", "changed"} : f \in Flags
  BY Zenon DEF Flags
<1>8. CASE AccessAt("reason.read") /\ dfsr = {"HALTED"} /\ Goto(With(ended, {"haltOwned"}), Rewrite)
  <2>1. t' \in Targets /\ t'.flags = t.flags \cup {"haltOwned"} /\ t'.saved = t.saved /\ t'.step = "restoring"
        /\ op' = op /\ pc' = IF M33 THEN "finish.read" ELSE "finish.write" BY <1>5, <1>8 DEF Goto, Rewrite
  <2>2. dfsr = {"HALTED"} /\ UNCHANGED <<coreVars, ghosts, world>> BY Zenon, <1>8 DEF AccessAt
  <2> USE <1>0, <1>1, <1>2, <1>3, <2>1, <2>2 DEF Held, Parts, coreVars, ghosts
  <2>3. Typed'
    BY DEF Typed, CoreTypeOK, Profile, Events, calm, M33, Targets, Ops, Reads, Writes, NoTarget, Placed,
      Flags, Steps
  <2>4. Placed'
    BY Zenon DEF Typed, Placed, Changed, Accesses, StepPcs, Unresolved, Targets, Steps, Clear
  <2>5. Changed'
    BY Zenon DEF Typed, Changed, Placed, Claiming, Unresolved
  <2>6. Unsure'
    BY Zenon DEF Typed, Unsure, Placed
  <2>7. Snap'
    BY Zenon DEF Snap, ControlWrites
  <2>8. Enabled'
    BY Zenon DEF Typed, Enabled
  <2>9. Transfer'
    BY Zenon DEF Transfer, Placed
  <2>10. Stopped' /\ Closed'
    BY Zenon DEF Stopped, Closed
  <2>11. Claimed'
    BY Zenon DEF Typed, Claimed
  <2>12. Reported => HaltKept'
    BY Zenon DEF Typed, Owned, HaltKept
  <2> QED BY Zenon, <2>3, <2>4, <2>5, <2>6, <2>7, <2>8, <2>9, <2>10, <2>11, <2>12 DEF Held, Parts, Owned
<1>9. CASE AccessAt("reason.read") /\ dfsr # {"HALTED"} /\ Goto(Relinquish(ended, {"haltOwned"}), Rewrite)
  <2>1. t' \in Targets /\ t'.saved = t.saved /\ t'.step = "restoring"
        /\ op' = op /\ pc' = IF M33 THEN "finish.read" ELSE "finish.write" BY Zenon, <1>6, <1>9 DEF Goto, Rewrite
  <2>2. "haltOwned" \notin t'.flags /\ ("changed" \in t'.flags <=> "C_DEBUGEN" \notin t.saved)
        /\ "memory" \in t'.flags /\ ("closing" \in t'.flags <=> "closing" \in t.flags) /\ ~Unresolved(t')
        /\ "registerPending" \notin t'.flags /\ ("snapStalled" \in t'.flags <=> "snapStalled" \in t.flags)
    BY Zenon, <1>2, <1>6, <1>7, <1>9 DEF Goto, Unresolved
  <2>3. UNCHANGED <<coreVars, ghosts, world>> BY Zenon, <1>9 DEF AccessAt
  <2>4. claim = "foreign"
    BY ZenonT(60), <1>2, <1>9 DEF Held, Parts, Typed, CoreTypeOK, Reasons, Claimed
  <2> USE <1>0, <1>1, <1>2, <1>3, <2>1, <2>2, <2>3, <2>4 DEF Held, Parts, coreVars, ghosts
  <2>5. Typed'
    BY Zenon DEF Typed, CoreTypeOK, Profile, Events, calm, M33, Targets, Ops, Reads, Writes, NoTarget, Placed,
      Flags, Steps
  <2>6. Placed'
    BY ZenonT(30) DEF Typed, Placed, Changed, Accesses, StepPcs
  <2>7. Changed'
    BY ZenonT(30) DEF Typed, Changed, Placed, Claiming, Unresolved
  <2>8. Unsure'
    BY Zenon DEF Typed, Unsure, Placed
  <2>9. Snap'
    BY Zenon DEF Snap, ControlWrites
  <2>10. Enabled'
    BY Zenon DEF Typed, Enabled
  <2>11. Transfer'
    BY Zenon DEF Transfer, Placed
  <2>12. Stopped' /\ Closed'
    BY Zenon DEF Stopped, Closed
  <2>13. Claimed'
    BY ZenonT(30) DEF Typed, Claimed
  <2>14. Reported => HaltKept'
    BY DEF Typed, Owned, HaltKept
  <2> QED BY ZenonT(30), <2>5, <2>6, <2>7, <2>8, <2>9, <2>10, <2>11, <2>12, <2>13, <2>14 DEF Held, Parts, Owned
<1>10. CASE FailsAt("reason.read") /\ Abandon(t) BY Zenon, <1>2, <1>10, AccessReturns, ClosingSeen DEF FailsAt,
    Return, Abandon
<1> QED BY <1>8, <1>9, <1>10 DEF ReasonRead, ended

\* The read before C_STEP is cleared keeps the invariant.
LEMMA FinishReadStep == ASSUME Held, FinishRead PROVE Held'
<1>0. Reported' = Reported /\ M33' = M33
  BY ZenonT(60) DEF Reported, Unnoticed, Events, M33, Profile, FinishRead, ReadAt, ReadFailsAt, FailsAt,
    AccessAt
<1>1. pc = "finish.read" /\ op \in {"Step", "Release"}
  BY ZenonT(60) DEF FinishRead, ReadAt, ReadFailsAt, FailsAt, AccessAt, Held, Parts, Placed, Accesses, StepPcs,
    Typed, Ops
<1>2. t \in Targets /\ t.step = "restoring" /\ ~Unresolved(t) /\ "registerPending" \notin t.flags /\ "memory" \in t.flags
  BY Zenon, <1>1 DEF Held, Parts, Placed, Typed, Targets, StepPcs
<1>3. ~unsure BY Zenon, <1>2 DEF Held, Parts, Unsure
<1> DEFINE s == stepStatus(dhcsr)
<1>4. /\ Observed(t, s, dhcsr) /\ StepSeen(t, s)
      /\ "closing" \in s.flags <=> "closing" \in t.flags
      /\ StepAccepted(dhcsr) =>
           /\ M33 => "snapStalled" \notin s.flags /\ "S_SDE" \in dhcsr
           /\ s.step = "restoring" /\ "C_HALT" \in dhcsr /\ "S_HALT" \in dhcsr /\ (M33 => "S_RESTART_ST" \notin dhcsr)
  BY <1>2, StepObserved
<1> HIDE DEF s
<1>5. CASE ReadAt("finish.read") /\ StepAccepted(dhcsr) /\ Goto(s, "finish.write")
  <2>1. t' = s /\ op' = op /\ pc' = "finish.write" BY <1>5 DEF Goto
  <2>2. unsure' = FALSE BY ZenonT(60), <1>3, <1>5 DEF ReadAt
  <2> USE <1>0, <1>1, <1>2, <1>4, <1>5, <2>1, <2>2 DEF Held, Parts, ReadAt, Consumed, Sticky, GivenUp, Observed
  <2>3. Typed'
    BY Zenon DEF Typed, CoreTypeOK, Profile, Events, calm, M33, Targets, Ops, Reads, Writes, NoTarget, Placed,
      Flags, Steps
  <2>4. Placed'
    BY Zenon DEF Typed, Placed, Changed, Accesses, StepPcs, Unresolved, Targets, Steps, Clear
  <2>5. Changed'
    BY ZenonT(30) DEF Typed, Changed, Placed
  <2>6. Unsure'
    BY DEF Typed, Unsure, Placed
  <2>7. Snap'
    BY ZenonT(30) DEF Snap
  <2>8. Enabled'
    BY Zenon DEF Typed, Enabled
  <2>9. Transfer'
    BY ZenonT(30) DEF Transfer, Placed
  <2>10. Stopped' /\ Closed'
    BY ZenonT(30) DEF Stopped, Closed
  <2>11. Claimed'
    BY Zenon DEF Typed, Claimed
  <2>12. Reported => HaltKept'
    BY ZenonT(30) DEF Typed, Owned, HaltKept, Claimed, Placed, Enabled
  <2> QED BY Zenon, <2>3, <2>4, <2>5, <2>6, <2>7, <2>8, <2>9, <2>10, <2>11, <2>12 DEF Held, Parts, Owned
<1>6. CASE ReadAt("finish.read") /\ Abandon(s)
  <2>1. t' = With(s, {"closing"}) /\ op' = "none" /\ pc' = "idle" BY Zenon, <1>6 DEF Abandon, Return
  <2>2. Observed(t, t', dhcsr) /\ t'.step = s.step /\ "closing" \in t'.flags BY Zenon, <2>1, <1>4, ClosingSeen
  <2>3. StepSeen(t, t') BY Zenon, <2>2, <1>4 DEF StepSeen
  <2> QED BY Zenon, <2>1, <2>2, <2>3, <1>6, ReadReturns DEF Reads
<1>7. CASE ReadFailsAt("finish.read") /\ Abandon(readDHCSRFailed(t))
  <2>1. t' = With(readDHCSRFailed(t), {"closing"}) /\ op' = "none" /\ pc' = "idle" BY Zenon, <1>7 DEF Abandon, Return
  <2>2. Withdrawn(t, t') /\ "closing" \in t'.flags BY <2>1, <1>2, FailedReadSeen, ClosingSeen
  <2> QED BY Zenon, <2>1, <2>2, <1>7, FailedReadReturns DEF Reads
<1>8. CASE FailsAt("finish.read") /\ Abandon(t) BY Zenon, <1>2, <1>8, AccessReturns, ClosingSeen DEF FailsAt, Return,
    Abandon
<1> QED BY <1>5, <1>6, <1>7, <1>8 DEF FinishRead, s

\* Clearing C_STEP keeps the invariant.
LEMMA FinishWriteStep == ASSUME Held, FinishWrite PROVE Held'
<1>0. Reported' = Reported /\ M33' = M33
  BY Zenon DEF Reported, Unnoticed, Events, M33, Profile, FinishWrite, WriteAt, WriteFailsAt
<1>1. pc = "finish.write" /\ op \in {"Step", "Release"}
  BY Zenon DEF FinishWrite, WriteAt, WriteFailsAt, Held, Parts, Placed, Accesses, StepPcs, Typed, Ops
<1>2. t \in Targets /\ t.step = "restoring" /\ ~Unresolved(t) /\ "registerPending" \notin t.flags /\ "memory" \in t.flags
      /\ dhcsr \in SUBSET Bits /\ "C_DEBUGEN" \in dhcsr /\ ~("S_HALT" \in dhcsr /\ "S_REGRDY" \notin dhcsr)
  BY Zenon, <1>1 DEF Held, Parts, Placed, Typed, CoreTypeOK, Targets, StepPcs, Enabled, Transfer
<1>3. ~unsure BY Zenon, <1>2 DEF Held, Parts, Unsure
<1> DEFINE C == {"C_DEBUGEN", "C_HALT"}
<1> DEFINE d == writeControl(dhcsr, C)
<1>4. d \in SUBSET Bits /\ (\A b \in Bits \ Control : b \in d <=> b \in dhcsr) /\ "C_DEBUGEN" \in d /\ "C_STEP" \notin d
      /\ ("C_HALT" \in dhcsr => "C_HALT" \in d)
  <2>1. C \in SUBSET {"C_DEBUGEN", "C_HALT", "C_STEP"} BY Zenon
  <2> QED BY <1>2, Written
<1> HIDE DEF d
<1>5. \A b \in {"S_HALT", "S_REGRDY", "S_SDE", "S_RESTART_ST"} : b \in Bits \ Control BY DEF Bits, Control,
    Sticky
<1>6. With(t, {"closing"}) \in Targets /\ With(t, {"closing"}).flags = t.flags \cup {"closing"}
      /\ With(t, {"closing"}).saved = t.saved /\ With(t, {"closing"}).step = t.step BY Zenon, <1>2, ClosingSeen
<1>7. /\ dhcsr' \in {dhcsr, d} /\ claim' = claim /\ UNCHANGED <<dfsr, secureAllowed, unsafeMemory, quiet, world>>
  BY DEF FinishWrite, WriteAt, WriteFailsAt, d
<1>8. unsure' = FALSE BY ZenonT(60), <1>3 DEF FinishWrite, WriteAt, WriteFailsAt
<1>9. CASE Goto(t, "settle.read")
  <2> USE <1>0, <1>1, <1>2, <1>4, <1>5, <1>7, <1>8, <1>9 DEF Held, Parts, Goto
  <2>1. Typed'
    BY ZenonT(60) DEF Typed, CoreTypeOK, Profile, Events, Reads, Writes, NoTarget, Placed, Flags, Steps
  <2>2. Placed'
    BY Zenon DEF Typed, Placed, Changed, Accesses, StepPcs
  <2>3. Changed'
    BY Zenon DEF Typed, Changed, Placed
  <2>4. Unsure'
    BY Zenon DEF Typed, Unsure, Placed
  <2>5. Snap'
    BY Zenon DEF Snap, ControlWrites
  <2>6. Enabled'
    BY Zenon DEF Typed, Enabled
  <2>7. Transfer'
    BY Zenon DEF Transfer, Placed
  <2>8. Stopped' /\ Closed'
    BY Zenon DEF Stopped, Closed
  <2>9. Claimed'
    BY Zenon DEF Typed, Claimed, Claiming, Enabled, Unresolved, StepPcs
  <2>10. Reported => HaltKept'
    BY Zenon DEF Typed, Owned, HaltKept
  <2> QED BY ZenonT(30), <2>1, <2>2, <2>3, <2>4, <2>5, <2>6, <2>7, <2>8, <2>9, <2>10 DEF Held, Parts, Owned
<1>10. CASE Abandon(t)
  <2>1. t' = With(t, {"closing"}) /\ op' = "none" /\ pc' = "idle" BY Zenon, <1>10 DEF Abandon, Return
  <2> USE <1>0, <1>1, <1>2, <1>4, <1>5, <1>6, <1>7, <1>8, <2>1 DEF Held, Parts
  <2>2. Typed'
    BY ZenonT(60) DEF Typed, CoreTypeOK, Profile, Events, calm, M33, Targets, Ops, Reads, Writes, NoTarget,
      Placed, Flags, Steps
  <2>3. Placed'
    BY Zenon DEF Typed, Placed, Changed, Accesses, StepPcs, Unresolved, Targets, Steps, Clear
  <2>4. Changed'
    BY ZenonT(30) DEF Typed, Changed, Placed
  <2>5. Unsure'
    BY Zenon DEF Typed, Unsure, Placed
  <2>6. Snap'
    BY Zenon DEF Snap, ControlWrites
  <2>7. Enabled'
    BY Zenon DEF Typed, Enabled
  <2>8. Transfer'
    BY Zenon DEF Transfer, Placed
  <2>9. Stopped' /\ Closed'
    BY Zenon DEF Stopped, Closed
  <2>10. Claimed'
    BY Zenon DEF Typed, Claimed, Claiming, Enabled, Unresolved, StepPcs
  <2>11. Reported => HaltKept'
    BY Zenon DEF Typed, Owned, HaltKept
  <2> QED BY Zenon, <2>2, <2>3, <2>4, <2>5, <2>6, <2>7, <2>8, <2>9, <2>10, <2>11 DEF Held, Parts, Owned
<1> QED BY ZenonT(60), <1>9, <1>10 DEF FinishWrite

-----------------------------------------------------------------------------
\* The steps of the core, and the theorems.

\* What the core completes by itself keeps the invariant.
LEMMA ProgressStep == ASSUME Held, CoreProgress PROVE Held'
<1>0. Reported' = Reported /\ M33' = M33 BY Zenon DEF Reported, Unnoticed, Events, M33, Profile, CoreProgress
<1>1. dhcsr \subseteq Bits /\ dfsr \subseteq Reasons /\ secureAllowed \in BOOLEAN BY Zenon DEF Held, Typed,
    CoreTypeOK
<1>2. CASE CompleteHalt /\ UNCHANGED <<hostVars, ghosts, world>>
  <2>1. /\ "C_DEBUGEN" \in dhcsr /\ "C_HALT" \in dhcsr /\ "S_HALT" \notin dhcsr
        /\ dhcsr' = dhcsr \cup {"C_HALT", "S_HALT", "S_REGRDY"} /\ dfsr' = dfsr \cup {"HALTED"}
        /\ UNCHANGED <<secureAllowed, unsafeMemory, t, op, pc, claim, quiet, unsure, world>>
    BY Zenon, <1>2 DEF CompleteHalt, EnterDebug, hostVars, ghosts
  <2> USE <1>0, <1>1, <2>1 DEF Held, Parts
  <2>2. Typed'
    BY DEF Typed, CoreTypeOK, Profile, Events, calm, M33, Targets, Ops, Reads, Writes, NoTarget, Placed,
      Flags, Steps, Bits, Control, Reasons
  <2>3. Placed'
    BY Zenon DEF Typed, Placed
  <2>4. Changed'
    BY Zenon DEF Typed, Changed
  <2>5. Unsure'
    BY Zenon DEF Typed, Unsure
  <2>6. Snap'
    BY Zenon DEF Snap
  <2>7. Enabled'
    BY Zenon DEF Enabled
  <2>8. Transfer'
    BY Zenon DEF Transfer
  <2>9. Stopped' /\ Closed'
    BY Zenon DEF Stopped, Closed
  <2>10. Claimed'
    BY Zenon DEF Claimed
  <2>11. Reported => HaltKept'
    BY Zenon DEF Typed, Owned, HaltKept, Changed, Unresolved, debugAllowed, Profile, StepPcs, Claiming
  <2> QED BY Zenon, <2>2, <2>3, <2>4, <2>5, <2>6, <2>7, <2>8, <2>9, <2>10, <2>11 DEF Held, Parts, Owned
<1>3. CASE CompleteResume /\ UNCHANGED <<hostVars, ghosts, world>>
  <2>1. /\ "C_DEBUGEN" \in dhcsr /\ "C_HALT" \notin dhcsr /\ "S_HALT" \in dhcsr
        /\ UNCHANGED <<dfsr, secureAllowed, unsafeMemory, t, op, pc, claim, quiet, unsure, world>>
    BY Zenon, <1>3 DEF CompleteResume, hostVars, ghosts
  <2>2. /\ dhcsr' \subseteq Bits /\ "S_HALT" \notin dhcsr'
        /\ \A b \in Bits \ {"S_HALT", "S_SDE", "S_RESTART_ST"} : b \in dhcsr' <=> b \in dhcsr
        /\ "S_RESTART_ST" \in dhcsr' <=> "S_RESTART_ST" \in dhcsr \/ M33
        /\ "S_SDE" \in dhcsr' <=> IF M33 THEN secureAllowed ELSE "S_SDE" \in dhcsr
    BY <1>1, <1>3 DEF CompleteResume, completeResume, updatePermission, M33, Bits, Control, Sticky
  <2>3. \A b \in {"C_DEBUGEN", "C_HALT", "C_STEP", "S_REGRDY"} : b \in Bits \ {"S_HALT", "S_SDE", "S_RESTART_ST"}
    BY Zenon DEF Bits, Control
  <2> USE <1>0, <1>1, <2>1, <2>2, <2>3 DEF Held, Parts
  <2>4. Typed'
    BY DEF Typed, CoreTypeOK, Profile, Events, calm, M33, Targets, Ops, Flags, Steps
  <2>5. Placed'
    BY Zenon DEF Typed, Placed
  <2>6. Changed'
    BY Zenon DEF Typed, Changed
  <2>7. Unsure'
    BY Zenon DEF Typed, Unsure
  <2>8. Snap'
    BY Zenon DEF Snap
  <2>9. Enabled'
    BY Zenon DEF Enabled
  <2>10. Transfer'
    BY Zenon DEF Transfer
  <2>11. Stopped' /\ Closed'
    BY Zenon DEF Stopped, Closed
  <2>12. Claimed'
    BY Zenon DEF Claimed
  <2>13. Reported => HaltKept'
    BY ZenonT(30), Profiles DEF Typed, Owned, HaltKept, Claimed, Placed, Enabled, Changed, Unresolved, debugAllowed,
      Profile, StepPcs
  <2> QED BY Zenon, <2>4, <2>5, <2>6, <2>7, <2>8, <2>9, <2>10, <2>11, <2>12, <2>13 DEF Held, Parts, Owned
<1>4. CASE CompleteTransfer /\ UNCHANGED <<hostVars, ghosts, world>>
  <2>1. /\ dhcsr' = dhcsr \cup {"S_REGRDY"}
        /\ UNCHANGED <<dfsr, secureAllowed, unsafeMemory, t, op, pc, claim, quiet, unsure, world>>
    BY Zenon, <1>4 DEF CompleteTransfer, hostVars, ghosts
  <2> USE <1>0, <1>1, <2>1 DEF Held, Parts
  <2>2. Typed'
    BY DEF Typed, CoreTypeOK, Profile, Events, calm, M33, Targets, Ops, Flags, Steps, Bits
  <2>3. Placed'
    BY Zenon DEF Typed, Placed
  <2>4. Changed'
    BY Zenon DEF Typed, Changed
  <2>5. Unsure'
    BY Zenon DEF Typed, Unsure
  <2>6. Snap'
    BY Zenon DEF Snap
  <2>7. Enabled'
    BY Zenon DEF Enabled
  <2>8. Transfer'
    BY Zenon DEF Transfer
  <2>9. Stopped' /\ Closed'
    BY Zenon DEF Stopped, Closed
  <2>10. Claimed'
    BY ZenonT(30) DEF Typed, Claimed, Claiming, Enabled
  <2>11. Reported => HaltKept'
    BY Zenon DEF Typed, Owned, HaltKept, Changed, Unresolved, debugAllowed, Profile, StepPcs, Claiming
  <2> QED BY Zenon, <2>2, <2>3, <2>4, <2>5, <2>6, <2>7, <2>8, <2>9, <2>10, <2>11 DEF Held, Parts, Owned
<1>5. CASE CompleteStep /\ claim' = SteppedBy /\ UNCHANGED <<hostVars, quiet, unsure, world>>
  <2>1. /\ "C_DEBUGEN" \in dhcsr /\ "C_STEP" \in dhcsr /\ "C_HALT" \notin dhcsr /\ "S_HALT" \notin dhcsr
        /\ dhcsr' = dhcsr \cup {"C_HALT", "S_HALT", "S_REGRDY"} /\ dfsr' = dfsr \cup {"HALTED"}
        /\ UNCHANGED <<secureAllowed, unsafeMemory, t, op, pc, quiet, unsure, world>>
    BY Zenon, <1>5 DEF CompleteStep, EnterDebug, hostVars, Halted
  <2>2. t.step # "idle" /\ ~Unresolved(t) /\ "registerPending" \notin t.flags /\ pc \in {"idle"} \cup StepPcs
    BY ZenonT(30), <2>1 DEF Held, Parts, Enabled, Placed
  <2>3. ~unsure BY <2>2 DEF Held, Parts, Unsure
  <2>4. /\ claim' \in {"mine", "restarted", "foreign"}
        /\ t.step = "restoring" => claim' = "foreign"
        /\ dfsr # {"HALTED"} => claim' = "foreign"
        /\ dfsr = {"HALTED"} /\ t.step # "restoring" => claim' # "foreign"
    BY <1>5 DEF SteppedBy
  <2>5. t.step \in {"running", "stopped"} => dfsr = {"HALTED"} \/ "EXTERNAL" \in dfsr
    BY ZenonT(60), <1>1 DEF Held, Parts, Claimed, Reasons
  <2>6. "EXTERNAL" \in dfsr => dfsr # {"HALTED"} OBVIOUS
  <2> USE <1>0, <1>1, <2>1, <2>2, <2>3, <2>4, <2>5, <2>6 DEF Held, Parts
  <2>7. Typed'
    BY DEF Typed, CoreTypeOK, Profile, Events, calm, M33, Targets, Ops, Reads, Writes, NoTarget, Placed,
      Flags, Steps, Bits, Control, Reasons
  <2>8. Placed'
    BY DEF Typed, Placed
  <2>9. Changed'
    BY DEF Typed, Changed
  <2>10. Unsure'
    BY DEF Typed, Unsure
  <2>11. Snap'
    BY Zenon DEF Snap
  <2>12. Enabled'
    BY Zenon DEF Enabled
  <2>13. Transfer'
    BY Zenon DEF Transfer
  <2>14. Stopped' /\ Closed'
    BY Zenon DEF Stopped, Closed, StepPcs
  <2>15. Claimed'
    BY Zenon DEF Typed, Claimed, Unresolved, StepPcs
  <2>16. Reported => HaltKept'
    BY Zenon DEF Typed, Owned, HaltKept, Profile, StepPcs, Claiming
  <2> QED BY Zenon, <2>7, <2>8, <2>9, <2>10, <2>11, <2>12, <2>13, <2>14, <2>15, <2>16 DEF Held, Parts, Owned
<1> QED BY Zenon, <1>2, <1>3, <1>4, <1>5 DEF CoreProgress

\* Every external event keeps the invariant.
LEMMA EventStep == ASSUME Held, CoreEvent PROVE Held'
<1>0. Reported' = Reported /\ M33' = M33 /\ UNCHANGED <<t, op, pc, unsure, world>> /\ quiet' \in BOOLEAN /\ ~quiet'
  BY ZenonT(60) DEF Reported, Unnoticed, Events, M33, Profile, CoreEvent, hostVars
<1>1. dhcsr \subseteq Bits /\ dfsr \subseteq Reasons /\ secureAllowed \in BOOLEAN BY DEF Held, Typed,
    CoreTypeOK
<1>2. CASE WarmReset /\ UNCHANGED claim
  <2>1. ~Reported BY <1>2 DEF WarmReset, Reported, Unnoticed
  <2>2. UNCHANGED <<dfsr, secureAllowed, unsafeMemory, claim>> BY Zenon, <1>2 DEF WarmReset
  <2>3. /\ dhcsr' \subseteq Bits /\ "C_HALT" \notin dhcsr' /\ "C_STEP" \notin dhcsr' /\ "S_HALT" \notin dhcsr'
        /\ "S_RESTART_ST" \notin dhcsr' /\ ("C_DEBUGEN" \in dhcsr' <=> "C_DEBUGEN" \in dhcsr)
        /\ ("S_SDE" \in dhcsr' => "S_SDE" \in dhcsr \/ M33)
    BY Zenon, <1>1, <1>2 DEF WarmReset, updatePermission, M33, Bits, Control, Sticky
  <2> USE <1>0, <1>1, <2>1, <2>2, <2>3 DEF Held, Parts
  <2>4. Typed'
    BY ZenonT(30) DEF Typed, CoreTypeOK, Profile, Events
  <2>5. Placed'
    BY Zenon DEF Typed, Placed
  <2>6. Changed'
    BY Zenon DEF Typed, Changed
  <2>7. Unsure'
    BY Zenon DEF Typed, Unsure
  <2>8. Snap'
    BY Zenon DEF Snap
  <2>9. Enabled'
    BY Zenon DEF Enabled
  <2>10. Transfer'
    BY Zenon DEF Transfer
  <2>11. Stopped' /\ Closed'
    BY Zenon DEF Stopped, Closed
  <2>12. Claimed'
    BY Zenon DEF Claimed
  <2>13. Reported => HaltKept'
    BY Zenon
  <2> QED BY ZenonT(30), <2>4, <2>5, <2>6, <2>7, <2>8, <2>9, <2>10, <2>11, <2>12, <2>13 DEF Held, Parts, Owned
<1>3. CASE ExternalRestart /\ claim' = IF t.step \in {"stopped", "restoring"} /\ claim = "mine" THEN "restarted" ELSE claim
  <2>1. Reported => M33 BY <1>3 DEF ExternalRestart, Reported, Unnoticed
  <2>2. "S_HALT" \in dhcsr /\ UNCHANGED <<dfsr, secureAllowed, unsafeMemory>> BY Zenon, <1>3 DEF ExternalRestart
  <2>3. /\ dhcsr' \subseteq Bits /\ "C_HALT" \notin dhcsr' /\ "S_HALT" \notin dhcsr'
        /\ ("C_STEP" \in dhcsr' <=> "C_STEP" \in dhcsr) /\ ("C_DEBUGEN" \in dhcsr' <=> "C_DEBUGEN" \in dhcsr)
        /\ ("S_RESTART_ST" \in dhcsr' <=> "S_RESTART_ST" \in dhcsr \/ M33)
        /\ ("S_SDE" \in dhcsr' <=> IF M33 THEN secureAllowed ELSE "S_SDE" \in dhcsr)
    BY <1>1, <1>3 DEF ExternalRestart, completeResume, updatePermission, M33, Bits, Control, Sticky
  <2>4. claim' = claim \/ (claim = "mine" /\ claim' = "restarted") BY Zenon, <1>3
  <2> USE <1>0, <1>1, <2>1, <2>2, <2>3, <2>4 DEF Held, Parts
  <2>5. Typed'
    BY ZenonT(30) DEF Typed, CoreTypeOK, Profile, Events
  <2>6. Placed'
    BY Zenon DEF Typed, Placed
  <2>7. Changed'
    BY Zenon DEF Typed, Changed
  <2>8. Unsure'
    BY Zenon DEF Typed, Unsure
  <2>9. Snap'
    BY Zenon DEF Snap
  <2>10. Enabled'
    BY Zenon DEF Enabled
  <2>11. Transfer'
    BY Zenon DEF Transfer
  <2>12. Stopped' /\ Closed'
    BY Zenon DEF Stopped, Closed
  <2>13. Claimed'
    BY DEF Claimed
  <2>14. Reported => HaltKept'
    BY Zenon, Profiles DEF Typed, Owned, HaltKept, Unresolved, debugAllowed, Profile, StepPcs
  <2> QED BY Zenon, <2>5, <2>6, <2>7, <2>8, <2>9, <2>10, <2>11, <2>12, <2>13, <2>14 DEF Held, Parts, Owned
<1>4. CASE ExternalHalt /\ claim' = IF "C_HALT" \in dhcsr THEN claim ELSE "foreign"
  <2>1. /\ "C_DEBUGEN" \in dhcsr /\ "S_HALT" \notin dhcsr
        /\ dhcsr' = dhcsr \cup {"C_HALT", "S_HALT", "S_REGRDY"} /\ dfsr' = dfsr \cup {"EXTERNAL"}
        /\ UNCHANGED <<secureAllowed, unsafeMemory>>
    BY ZenonT(30), <1>4 DEF ExternalHalt, EnterDebug
  <2> USE <1>0, <1>1, <1>4, <2>1 DEF Held, Parts
  <2>2. Typed'
    BY DEF Typed, CoreTypeOK, Profile, Events, calm, M33, Targets, Ops, Reads, Writes, NoTarget, Placed,
      Flags, Steps, Bits, Control, Reasons
  <2>3. Placed'
    BY DEF Typed, Placed
  <2>4. Changed'
    BY ZenonT(30) DEF Typed, Changed
  <2>5. Unsure'
    BY DEF Typed, Unsure
  <2>6. Snap'
    BY DEF Snap
  <2>7. Enabled'
    BY DEF Enabled
  <2>8. Transfer'
    BY Zenon DEF Transfer
  <2>9. Stopped' /\ Closed'
    BY Zenon DEF Stopped, Closed
  <2>10. Claimed'
    BY Zenon DEF Claimed
  <2>11. Reported => HaltKept'
    BY Zenon DEF Typed, Owned, HaltKept, Changed, Unresolved, debugAllowed, Profile, StepPcs, Claiming
  <2> QED BY Zenon, <2>2, <2>3, <2>4, <2>5, <2>6, <2>7, <2>8, <2>9, <2>10, <2>11 DEF Held, Parts, Owned
<1>5. CASE (\E allowed \in BOOLEAN : SetSecureDebug(allowed)) /\ UNCHANGED claim
  <2>1. ~Reported BY <1>5 DEF SetSecureDebug, Reported, Unnoticed
  <2>2. M33 /\ secureAllowed' \in BOOLEAN /\ UNCHANGED <<dfsr, unsafeMemory, claim>> BY Zenon, <1>5 DEF SetSecureDebug, M33
  <2>3. dhcsr' \subseteq Bits /\ (\A b \in Bits \ {"S_SDE"} : b \in dhcsr' <=> b \in dhcsr)
    BY <1>1, <1>5 DEF SetSecureDebug, updatePermission, Bits
  <2>4. \A b \in {"C_DEBUGEN", "C_HALT", "C_STEP", "S_REGRDY", "S_HALT", "S_RESTART_ST"} : b \in Bits \ {"S_SDE"}
    BY Zenon DEF Bits, Control, Sticky
  <2> USE <1>0, <1>1, <2>1, <2>2, <2>3, <2>4 DEF Held, Parts
  <2>5. Typed'
    BY Zenon DEF Typed, CoreTypeOK, Profile, Events
  <2>6. Placed'
    BY Zenon DEF Typed, Placed
  <2>7. Changed'
    BY Zenon DEF Typed, Changed
  <2>8. Unsure'
    BY Zenon DEF Typed, Unsure
  <2>9. Snap'
    BY Zenon DEF Snap
  <2>10. Enabled'
    BY Zenon DEF Enabled
  <2>11. Transfer'
    BY Zenon DEF Transfer
  <2>12. Stopped' /\ Closed'
    BY Zenon DEF Stopped, Closed
  <2>13. Claimed'
    BY ZenonT(30) DEF Typed, Claimed, Placed, Changed, Claiming, Enabled, Unresolved, StepPcs
  <2>14. Reported => HaltKept'
    OBVIOUS
  <2> QED BY Zenon, <2>5, <2>6, <2>7, <2>8, <2>9, <2>10, <2>11, <2>12, <2>13, <2>14 DEF Held, Parts, Owned
<1>6. CASE SnapStall /\ UNCHANGED claim
  <2>1. M33 /\ dhcsr' = dhcsr \cup {"C_SNAPSTALL"} /\ unsafeMemory' = TRUE /\ UNCHANGED <<dfsr, secureAllowed, claim>>
    BY Zenon, <1>6 DEF SnapStall, M33
  <2> USE <1>0, <1>1, <2>1 DEF Held, Parts
  <2>2. Typed'
    BY DEF Typed, CoreTypeOK, Profile, Events, calm, M33, Targets, Ops, Reads, Writes, NoTarget, Placed,
      Flags, Steps, Bits, Control
  <2>3. Placed'
    BY DEF Typed, Placed
  <2>4. Changed'
    BY ZenonT(30) DEF Typed, Changed
  <2>5. Unsure'
    BY Zenon DEF Typed, Unsure
  <2>6. Snap'
    BY Zenon DEF Snap
  <2>7. Enabled'
    BY Zenon DEF Enabled
  <2>8. Transfer'
    BY Zenon DEF Transfer
  <2>9. Stopped' /\ Closed'
    BY Zenon DEF Stopped, Closed
  <2>10. Claimed'
    BY ZenonT(30) DEF Typed, Claimed, Placed, Changed, Claiming, Enabled, Unresolved, StepPcs
  <2>11. Reported => HaltKept'
    BY Zenon DEF Typed, Owned, HaltKept, Changed, Unresolved, debugAllowed, Profile, StepPcs, Claiming
  <2> QED BY Zenon, <2>2, <2>3, <2>4, <2>5, <2>6, <2>7, <2>8, <2>9, <2>10, <2>11 DEF Held, Parts, Owned
<1> QED BY <1>2, <1>3, <1>4, <1>5, <1>6 DEF CoreEvent

\* The end of failures and events keeps the invariant.
LEMMA CalmStep == ASSUME Held, CalmDown PROVE Held'
<1>1. UNCHANGED <<coreVars, hostVars, ghosts>> /\ world' = [world EXCEPT !.calm = TRUE] BY DEF CalmDown
<1>2. world'.profile = world.profile /\ world'.events = world.events /\ world'.calm = TRUE
      /\ world' \in [profile : {"M0", "M33"}, events : SUBSET AllEvents, calm : BOOLEAN]
  BY ZenonT(60), <1>1 DEF Held, Typed, CoreTypeOK
<1>3. Reported' = Reported /\ M33' = M33 BY Zenon, <1>2 DEF Reported, Unnoticed, Events, M33, Profile
<1> USE <1>1, <1>2, <1>3 DEF Held, Parts, coreVars, hostVars, ghosts
<1>4. Typed'
  BY ZenonT(30) DEF Typed, CoreTypeOK, Profile, Events
<1>5. Placed'
  BY Zenon DEF Typed, Placed
<1>6. Changed'
  BY Zenon DEF Typed, Changed, Placed
<1>7. Unsure'
  BY DEF Typed, Unsure
<1>8. Snap'
  BY DEF Snap
<1>9. Enabled'
  BY DEF Enabled
<1>10. Transfer'
  BY DEF Transfer
<1>11. Stopped' /\ Closed'
  BY Zenon DEF Stopped, Closed
<1>12. Claimed'
  BY Zenon DEF Typed, Claimed, Claiming, Enabled
<1>13. Reported => HaltKept'
  BY Zenon DEF Typed, Owned, HaltKept, Changed, Unresolved, debugAllowed, Profile, StepPcs, Claiming
<1> QED BY Zenon, <1>4, <1>5, <1>6, <1>7, <1>8, <1>9, <1>10, <1>11, <1>12, <1>13 DEF Held, Parts, Owned

\* Only Acquire begins anything once the target is let go, and it leaves the core alone.
LEMMA GoneCalls ==
  ASSUME Gone, Next
  PROVE  Acquire \/ CoreProgress \/ CoreEvent
<1>1. "memory" \notin t.flags /\ pc = "idle" BY DEF Gone, Released
<1>2. ~active BY <1>1 DEF active
<1>3. ~Release /\ ~CalmDown BY Zenon, <1>1 DEF Release, CalmDown
<1>4. ApiCall => Acquire
  BY Zenon, <1>2 DEF ApiCall, Halt, HaltedCall, Resume, Step, ReadRegister, WriteRegister
<1>5. ~Access
  BY ZenonT(60), <1>1 DEF Access, AcquireRead, ControlRead, HaltRead, StatusRead, WaitRead, ResumeRead, RestoreRead,
    DisableRead, RegisterRead, SelectedRead, waitRegister, registerStatus, DcrdrWrite, DcrdrRead, DfsrRead,
    SettleRead, ReasonRead, FinishRead, selectRegister, ControlWrite, HaltWrite, ResumeWrite, StepWrite, FinishWrite,
    ReadAt, ReadFailsAt, WriteAt, WriteFailsAt, FailsAt, AccessAt
<1> QED BY Zenon, <1>3, <1>4, <1>5 DEF Next

\* A core that was let go may be acquired again.
LEMMA GoneAcquire == ASSUME Gone, Acquire PROVE Held'
<1>1. /\ t' = NoTarget /\ op' = "Acquire" /\ pc' = "acquire.read"
      /\ UNCHANGED <<dhcsr, dfsr, secureAllowed, unsafeMemory, claim, quiet, unsure, world>>
  BY Zenon DEF Acquire, Call, coreVars, ghosts
<1>2. t'.flags = {} /\ t'.saved = {} /\ t'.step = "idle" /\ t' \in Targets BY <1>1 DEF NoTarget, Targets, Flags, Steps
<1>3. Reported' = Reported /\ M33' = M33 BY Zenon, <1>1 DEF Reported, Unnoticed, Events, M33, Profile
<1> USE <1>1, <1>2, <1>3 DEF Gone
<1>4. Typed' BY ZenonT(30) DEF Typed, CoreTypeOK, Profile, Events, Ops, Reads, Targets
<1>5. Placed' BY Zenon DEF Placed, Accesses, StepPcs, Unresolved
<1>6. Changed' BY Zenon DEF Changed
<1>7. Unsure' /\ Snap' /\ Transfer' /\ Stopped' /\ Closed'
  BY Zenon DEF Unsure, Snap, Transfer, Stopped, Closed, Claiming, Unresolved, ControlWrites
<1>8. Enabled' BY Zenon DEF Enabled, Claiming, Unresolved
<1>9. Claimed' BY Zenon DEF Claimed, Claiming, Unresolved, StepPcs
<1>10. Reported => HaltKept' BY Zenon DEF HaltKept
<1> QED BY Zenon, <1>4, <1>5, <1>6, <1>7, <1>8, <1>9, <1>10 DEF Held, Parts, Owned

\* What the core does by itself leaves it as the target that was let go left it.
LEMMA GoneCore == ASSUME Gone, CoreProgress \/ CoreEvent PROVE Gone'
<1>1. Reported' = Reported /\ M33' = M33 /\ UNCHANGED <<t, op, pc, unsure, world>> /\ quiet' \in BOOLEAN
  BY ZenonT(60) DEF Reported, Unnoticed, Events, M33, Profile, CoreProgress, CoreEvent, hostVars, ghosts, Gone
<1>2. dhcsr \subseteq Bits /\ dfsr \subseteq Reasons /\ secureAllowed \in BOOLEAN /\ unsafeMemory \in BOOLEAN
      /\ t.step = "idle" /\ Released(t)'
  BY Zenon, <1>1 DEF Gone, CoreTypeOK, Released
<1>3. CASE dhcsr' = EnterDebug(dhcsr) /\ "C_DEBUGEN" \in dhcsr /\ (\E r \in Reasons : dfsr' = dfsr \cup {r})
           /\ claim' \in {claim, "foreign"} /\ (claim' = "mine" => "C_HALT" \in dhcsr) /\ UNCHANGED <<secureAllowed, unsafeMemory>>
  <2>1. dhcsr' \subseteq Bits /\ dfsr' \subseteq Reasons /\ ("HALTED" \in dfsr' \/ "EXTERNAL" \in dfsr')
    BY <1>2, <1>3 DEF EnterDebug, Bits, Control, Reasons
  <2>2. /\ "C_DEBUGEN" \in dhcsr' /\ ("C_STEP" \in dhcsr' <=> "C_STEP" \in dhcsr)
        /\ \A b \in {"S_SDE", "S_RESTART_ST"} : b \in dhcsr' <=> b \in dhcsr
    BY Zenon, <1>3 DEF EnterDebug
  <2>3. CoreTypeOK' BY Zenon, <1>1, <1>2, <1>3, <2>1 DEF Gone, CoreTypeOK, Profile, Events
  <2>4. claim' # "mine" /\ claim' \in {"mine", "restarted", "foreign"} BY Zenon, <1>3 DEF Gone
  <2> QED BY Zenon, <1>1, <1>2, <1>3, <2>1, <2>2, <2>3, <2>4 DEF Gone
<1>4. ASSUME UNCHANGED <<dfsr, claim>>, dhcsr' \subseteq Bits, secureAllowed' \in BOOLEAN, unsafeMemory' \in BOOLEAN,
             \A b \in {"C_HALT", "C_STEP", "S_HALT"} : b \in dhcsr' => b \in dhcsr,
             "C_DEBUGEN" \in dhcsr' <=> "C_DEBUGEN" \in dhcsr,
             M33 \/ (\A b \in {"S_SDE", "S_RESTART_ST"} : b \in dhcsr' => b \in dhcsr),
             Reported /\ M33 => (secureAllowed' <=> "S_SDE" \in dhcsr')
      PROVE  Gone'
  <2>1. CoreTypeOK' BY Zenon, <1>1, <1>2, <1>4 DEF Gone, CoreTypeOK, Profile, Events
  <2> QED BY ZenonT(30), <1>1, <1>2, <1>4, <2>1 DEF Gone
<1>5. CASE CompleteHalt /\ UNCHANGED <<hostVars, ghosts, world>>
  <2>1. "C_DEBUGEN" \in dhcsr /\ "C_HALT" \in dhcsr /\ dhcsr' = EnterDebug(dhcsr) /\ dfsr' = dfsr \cup {"HALTED"} /\ claim' = claim
        /\ UNCHANGED <<secureAllowed, unsafeMemory>>
    BY Zenon, <1>5 DEF CompleteHalt, ghosts
  <2>2. "HALTED" \in Reasons BY DEF Reasons
  <2> QED BY Zenon, <2>1, <2>2, <1>3
<1>6. ~CompleteStep BY DEF CompleteStep, Gone
<1>7. CASE CompleteTransfer /\ UNCHANGED <<hostVars, ghosts, world>>
  <2>1. dhcsr' = dhcsr \cup {"S_REGRDY"} /\ UNCHANGED <<dfsr, secureAllowed, unsafeMemory, claim>>
    BY Zenon, <1>7 DEF CompleteTransfer, ghosts
  <2>2. dhcsr' \subseteq Bits /\ (\A b : b \in dhcsr' <=> b \in dhcsr \/ b = "S_REGRDY") BY <2>1, <1>2 DEF Bits
  <2>3. Reported /\ M33 => (secureAllowed' <=> "S_SDE" \in dhcsr') BY Zenon, <2>1, <2>2 DEF Gone
  <2> QED BY Zenon, <2>1, <2>2, <2>3, <1>2, <1>4
<1>8. ASSUME NEW d, d \subseteq dhcsr \cup {"S_REGRDY"}, "C_DEBUGEN" \in d <=> "C_DEBUGEN" \in dhcsr, "S_SDE" \in d <=> "S_SDE" \in dhcsr,
             dhcsr' = completeResume(d), UNCHANGED <<dfsr, secureAllowed, unsafeMemory, claim>>
      PROVE  Gone'
  <2>1. /\ dhcsr' \subseteq Bits /\ ("C_DEBUGEN" \in dhcsr' <=> "C_DEBUGEN" \in dhcsr)
        /\ \A b \in {"C_HALT", "C_STEP", "S_HALT"} : b \in dhcsr' => b \in dhcsr
        /\ M33 \/ (\A b \in {"S_SDE", "S_RESTART_ST"} : b \in dhcsr' => b \in dhcsr)
        /\ M33 => (secureAllowed' <=> "S_SDE" \in dhcsr')
    BY <1>2, <1>8 DEF completeResume, updatePermission, M33, Bits, Control, Sticky
  <2> QED BY Zenon, <2>1, <1>2, <1>4, <1>8
<1>9. CASE CompleteResume /\ UNCHANGED <<hostVars, ghosts, world>>
  <2>1. dhcsr' = completeResume(dhcsr) /\ UNCHANGED <<dfsr, secureAllowed, unsafeMemory, claim>>
    BY Zenon, <1>9 DEF CompleteResume, ghosts
  <2> QED BY Zenon, <2>1, <1>8
<1>10. CASE WarmReset /\ UNCHANGED claim
  <2>1. ~Reported BY <1>10 DEF WarmReset, Reported, Unnoticed
  <2>2. UNCHANGED <<dfsr, secureAllowed, unsafeMemory, claim>> BY Zenon, <1>10 DEF WarmReset
  <2>3. /\ dhcsr' \subseteq Bits /\ "C_HALT" \notin dhcsr' /\ "C_STEP" \notin dhcsr' /\ "S_HALT" \notin dhcsr'
        /\ "S_RESTART_ST" \notin dhcsr' /\ ("C_DEBUGEN" \in dhcsr' <=> "C_DEBUGEN" \in dhcsr)
        /\ ("S_SDE" \in dhcsr' => "S_SDE" \in dhcsr \/ M33)
    BY Zenon, <1>2, <1>10 DEF WarmReset, updatePermission, M33, Bits, Control, Sticky
  <2> QED BY Zenon, <2>1, <2>2, <2>3, <1>2, <1>4
<1>11. CASE ExternalRestart /\ claim' = IF t.step \in {"stopped", "restoring"} /\ claim = "mine" THEN "restarted" ELSE claim
  <2>1. claim' = claim BY Zenon, <1>2, <1>11
  <2> DEFINE d == (dhcsr \ {"C_HALT"}) \cup {"S_REGRDY"}
  <2>2. dhcsr' = completeResume(d) /\ UNCHANGED <<dfsr, secureAllowed, unsafeMemory>> BY Zenon, <1>11 DEF ExternalRestart
  <2>3. d \subseteq dhcsr \cup {"S_REGRDY"} /\ ("C_DEBUGEN" \in d <=> "C_DEBUGEN" \in dhcsr) /\ ("S_SDE" \in d <=> "S_SDE" \in dhcsr)
    BY Zenon
  <2> HIDE DEF d
  <2> QED BY Zenon, <2>1, <2>2, <2>3, <1>8
<1>12. CASE ExternalHalt /\ claim' = IF "C_HALT" \in dhcsr THEN claim ELSE "foreign"
  <2>1. /\ "C_DEBUGEN" \in dhcsr /\ dhcsr' = EnterDebug(dhcsr) /\ dfsr' = dfsr \cup {"EXTERNAL"}
        /\ UNCHANGED <<secureAllowed, unsafeMemory>>
    BY Zenon, <1>12 DEF ExternalHalt
  <2>2. "EXTERNAL" \in Reasons BY DEF Reasons
  <2> QED BY Zenon, <2>1, <2>2, <1>3, <1>12
<1>13. CASE (\E allowed \in BOOLEAN : SetSecureDebug(allowed)) /\ UNCHANGED claim
  <2>1. ~Reported BY <1>13 DEF SetSecureDebug, Reported, Unnoticed
  <2>2. M33 /\ secureAllowed' \in BOOLEAN /\ UNCHANGED <<dfsr, unsafeMemory, claim>> BY Zenon, <1>13 DEF SetSecureDebug, M33
  <2>3. dhcsr' \subseteq Bits /\ (\A b \in Bits \ {"S_SDE"} : b \in dhcsr' <=> b \in dhcsr)
    BY <1>2, <1>13 DEF SetSecureDebug, updatePermission, Bits
  <2>4. \A b \in {"C_DEBUGEN", "C_HALT", "C_STEP", "S_HALT"} : b \in Bits \ {"S_SDE"} BY Zenon DEF Bits, Control
  <2> QED BY Zenon, <2>1, <2>2, <2>3, <2>4, <1>2, <1>4
<1>14. CASE SnapStall /\ UNCHANGED claim
  <2>1. M33 /\ dhcsr' = dhcsr \cup {"C_SNAPSTALL"} /\ unsafeMemory' \in BOOLEAN /\ UNCHANGED <<dfsr, secureAllowed, claim>>
    BY Zenon, <1>14 DEF SnapStall, M33
  <2>2. dhcsr' \subseteq Bits /\ (\A b : b \in dhcsr' <=> b \in dhcsr \/ b = "C_SNAPSTALL") BY <2>1, <1>2 DEF Bits, Control
  <2>3. Reported /\ M33 => (secureAllowed' <=> "S_SDE" \in dhcsr') BY Zenon, <2>1, <2>2 DEF Gone
  <2> QED BY Zenon, <2>1, <2>2, <2>3, <1>2, <1>4
<1> QED BY Zenon, <1>5, <1>6, <1>7, <1>9, <1>10, <1>11, <1>12, <1>13, <1>14 DEF CoreProgress, CoreEvent

\* Every step of the specification keeps the invariant while no target was let go.
LEMMA HeldStep == ASSUME Held, [Next]_vars PROVE IInv'
<1> SUFFICES Held' \/ Gone' BY DEF IInv
<1>1. CASE UNCHANGED vars
  <2>1. UNCHANGED <<coreVars, hostVars, ghosts, world>> BY Zenon, <1>1 DEF vars
  <2>2. Reported' = Reported /\ M33' = M33 BY Zenon, <2>1 DEF Reported, Unnoticed, Events, M33, Profile
  <2> USE <2>1, <2>2 DEF Held, Parts, coreVars, hostVars, ghosts
  <2>3. Typed'
    BY ZenonT(30) DEF Typed, CoreTypeOK, Profile, Events
  <2>4. Placed'
    BY Zenon DEF Typed, Placed
  <2>5. Changed'
    BY ZenonT(30) DEF Typed, Changed, Placed
  <2>6. Unsure'
    BY Zenon DEF Typed, Unsure
  <2>7. Snap'
    BY Zenon DEF Snap
  <2>8. Enabled'
    BY Zenon DEF Enabled
  <2>9. Transfer'
    BY Zenon DEF Transfer
  <2>10. Stopped' /\ Closed'
    BY Zenon DEF Stopped, Closed
  <2>11. Claimed'
    BY ZenonT(30) DEF Typed, Claimed, Placed, Changed, Claiming, Enabled, Unresolved, StepPcs
  <2>12. Reported => HaltKept'
    BY Zenon DEF Typed, Owned, HaltKept, Changed, Unresolved, debugAllowed, Profile, StepPcs, Claiming
  <2> QED BY Zenon, <2>3, <2>4, <2>5, <2>6, <2>7, <2>8, <2>9, <2>10, <2>11, <2>12 DEF Held, Parts, Owned
<1>2. CASE ApiCall BY Zenon, <1>2, ApiStep
<1>3. CASE Release BY Zenon, <1>3, ReleaseStep
<1>4. CASE Access
  BY Zenon, <1>4, AcquireReadStep, ControlWriteStep, ControlReadStep, HaltReadStep, StatusReadStep, HaltWriteStep,
    WaitReadStep, ResumeReadStep, ResumeWriteStep, RestoreReadStep, DisableReadStep, WaitRegisterStep,
    DcrdrWriteStep, SelectStep, DcrdrReadStep, DfsrReadStep, StepWriteStep, SettleReadStep, ReasonReadStep,
    FinishReadStep, FinishWriteStep DEF Access, RegisterRead, SelectedRead
<1>5. CASE CoreProgress BY Zenon, <1>5, ProgressStep
<1>6. CASE CoreEvent BY Zenon, <1>6, EventStep
<1>7. CASE CalmDown BY Zenon, <1>7, CalmStep
<1> QED BY Zenon, <1>1, <1>2, <1>3, <1>4, <1>5, <1>6, <1>7 DEF Next

\* Every step of the specification keeps the invariant.
LEMMA StepInv == ASSUME IInv, [Next]_vars PROVE IInv'
<1>1. CASE Gone /\ UNCHANGED vars
  <2>1. UNCHANGED <<dhcsr, dfsr, secureAllowed, unsafeMemory, t, op, pc, claim, quiet, unsure, world>>
    BY Zenon, <1>1 DEF vars, coreVars, hostVars, ghosts
  <2>2. Reported' = Reported /\ M33' = M33 BY Zenon, <2>1 DEF Reported, Unnoticed, Events, M33, Profile
  <2>3. CoreTypeOK' /\ Released(t)' BY Zenon, <1>1, <2>1 DEF Gone, CoreTypeOK, Profile, Events, Released
  <2> QED BY Zenon, <1>1, <2>1, <2>2, <2>3 DEF Gone, IInv
<1>2. CASE Gone /\ Next BY Zenon, <1>2, GoneCalls, GoneAcquire, GoneCore DEF IInv
<1> QED BY Zenon, <1>1, <1>2, HeldStep DEF IInv

\* The invariant holds initially, whatever state the core is inherited in.
LEMMA InitInv == Init => IInv
<1> SUFFICES ASSUME Init PROVE Held BY Zenon DEF IInv
<1>1. Typed
  <2>1. PICK w \in Worlds : world = [profile |-> w.profile, events |-> w.events, calm |-> FALSE] BY Zenon DEF Init,
      CoreInit
  <2>2. w \in [profile : {"M0", "M33"}, events : SUBSET AllEvents] BY Zenon, WorldsAssumption
  <2>3. /\ world \in [profile : {"M0", "M33"}, events : SUBSET AllEvents, calm : BOOLEAN]
        /\ [profile |-> world.profile, events |-> world.events] = w
    BY Zenon, <2>1, <2>2
  <2>4. dhcsr \subseteq Bits /\ dfsr \subseteq Reasons BY DEF Init, CoreInit, Reasons
  <2>5. unsafeMemory \in BOOLEAN /\ quiet \in BOOLEAN /\ unsure \in BOOLEAN BY ZenonT(60) DEF Init, CoreInit
  <2>8. secureAllowed \in BOOLEAN
    <3>1. secureAllowed = ("S_SDE" \in dhcsr) BY Zenon DEF Init, CoreInit
    <3> QED BY <3>1
  <2>6. CoreTypeOK BY Zenon, <2>3, <2>4, <2>5, <2>8 DEF CoreTypeOK, Profile, Events
  <2>7. t \in [flags : SUBSET Flags, saved : SUBSET {"C_DEBUGEN", "C_HALT"}, step : Steps]
    BY Zenon DEF Init, NoTarget, Steps
  <2> QED BY Zenon, <2>5, <2>6, <2>7 DEF Typed, Init, Ops
<1>2. t.flags = {} /\ t.saved = {} /\ t.step = "idle" /\ op = "none" /\ pc = "idle" /\ claim = "foreign" /\ ~unsure /\ ~quiet
  BY DEF Init, NoTarget
<1>3. /\ "C_STEP" \notin dhcsr /\ "S_RESTART_ST" \notin dhcsr
      /\ "S_HALT" \in dhcsr => "C_DEBUGEN" \in dhcsr /\ "HALTED" \in dfsr
      /\ M33 \/ "S_SDE" \notin dhcsr
      /\ secureAllowed <=> "S_SDE" \in dhcsr
  <2>1. Profile \in {"M0", "M33"} BY <1>1 DEF Typed, CoreTypeOK, Profile
  <2> QED BY ZenonT(60), <2>1 DEF Init, CoreInit, M33, Sticky
<1> USE <1>1, <1>2, <1>3
<1>4. Placed BY Zenon DEF Placed, Accesses, StepPcs, Unresolved
<1>5. Changed BY Zenon DEF Changed
<1>6. Unsure /\ Snap /\ Transfer /\ Stopped /\ Closed BY Zenon DEF Unsure, Snap, Transfer, Stopped, Closed, Claiming,
    Unresolved, ControlWrites
<1>7. Enabled /\ Claimed BY Zenon DEF Enabled, Claimed, Claiming, Unresolved
<1>8. HaltKept BY DEF HaltKept
<1> QED BY Zenon, <1>4, <1>5, <1>6, <1>7, <1>8 DEF Held, Parts, Owned

\* The inductive invariant holds throughout, for every set of worlds.
THEOREM InvHolds == Spec => []IInv
<1>1. IInv /\ [Next]_vars => IInv' BY Zenon, StepInv
<1> QED BY PTL, InitInv, <1>1 DEF Spec

\* The core's registers and the target's record of them stay well formed through
\* every call, failure and event (CortexTarget's TypeOK).
THEOREM TypeCorrect == Spec => []TypeOK
<1>1. Held => TypeOK BY Zenon DEF Held, Typed, TypeOK
<1>2. Gone => TypeOK BY Zenon DEF Gone, TypeOK, Targets, Ops
<1> QED BY PTL, InvHolds, <1>1, <1>2 DEF IInv

\* No control write follows a halt or resume write of unknown effect until a read
\* has settled it, and none at all once C_SNAPSTALL was observed.
THEOREM UncertaintyBlocks == Spec => []UncertainBlocks
<1>1. Held => UncertainBlocks
  BY Zenon DEF Held, Parts, UncertainBlocks, Unsure, Snap, Placed, ControlWrites
<1>2. Gone => UncertainBlocks BY Zenon DEF Gone, UncertainBlocks, ControlWrites
<1> QED BY PTL, InvHolds, <1>1, <1>2 DEF IInv

\* Accesses other than control writes leave the control bits alone.
LEMMA OnlyWrites ==
  ASSUME Next, pc' # pc, pc \notin ControlWrites
  PROVE  \A b \in Control : b \in dhcsr' <=> b \in dhcsr
<1>1. Control \cap Sticky = {} /\ "S_REGRDY" \notin Control BY DEF Control, Sticky
<1>2. ASSUME NEW where, ReadAt(where) \/ ReadFailsAt(where) \/ AccessAt(where) \/ FailsAt(where)
      PROVE  \A b \in Control : b \in dhcsr' <=> b \in dhcsr
  BY ZenonT(60), <1>1, <1>2 DEF ReadAt, ReadFailsAt, AccessAt, FailsAt, Consumed, coreVars
<1>3. CASE ApiCall
  BY ZenonT(30), <1>3 DEF ApiCall, Acquire, Halt, HaltedCall, Resume, Step, ReadRegister, WriteRegister, Call, coreVars
<1>4. CASE Release BY Zenon, <1>4 DEF Release, coreVars
<1>5. CASE Access
  <2>1. CASE AcquireRead \/ ControlRead \/ HaltRead \/ StatusRead BY <1>2, <2>1 DEF AcquireRead, ControlRead,
      HaltRead, StatusRead
  <2>2. CASE WaitRead \/ ResumeRead \/ RestoreRead \/ DisableRead BY ZenonT(30), <1>2, <2>2 DEF WaitRead, ResumeRead,
      RestoreRead, DisableRead
  <2>3. CASE RegisterRead \/ SelectedRead BY Zenon, <1>2, <2>3 DEF RegisterRead, SelectedRead, waitRegister,
      registerStatus
  <2>4. CASE DcrdrWrite \/ DcrdrRead \/ DfsrRead BY Zenon, <1>2, <2>4 DEF DcrdrWrite, DcrdrRead, DfsrRead
  <2>5. CASE SettleRead \/ ReasonRead \/ FinishRead BY Zenon, <1>2, <2>5 DEF SettleRead, ReasonRead, FinishRead
  <2>6. CASE selectRegister
    <3>1. CASE dhcsr' = IF "S_HALT" \in dhcsr THEN StartTransfer(dhcsr) ELSE dhcsr BY Zenon, <1>1,
        <3>1 DEF StartTransfer
    <3> QED BY Zenon, <1>2, <2>6, <3>1 DEF selectRegister
  <2>7. CASE ControlWrite \/ HaltWrite \/ ResumeWrite \/ StepWrite \/ FinishWrite
    BY Zenon, <2>7 DEF ControlWrite, HaltWrite, ResumeWrite, StepWrite, FinishWrite, WriteAt, WriteFailsAt, FailsAt,
      AccessAt, ControlWrites
  <2> QED BY Zenon, <1>5, <2>1, <2>2, <2>3, <2>4, <2>5, <2>6, <2>7 DEF Access
<1>6. CASE CoreProgress \/ CoreEvent \/ CalmDown BY <1>6 DEF CoreProgress, CoreEvent, CalmDown, hostVars
<1> QED BY Zenon, <1>3, <1>4, <1>5, <1>6 DEF Next

\* Nothing but the core itself changes DHCSR once the target is let go.
LEMMA GoneLeaves == ASSUME Gone, Next, pc' # pc PROVE dhcsr' = dhcsr
BY Zenon, GoneCalls DEF Acquire, Call, CoreProgress, CoreEvent, coreVars, hostVars

\* No access of the target changes the control bits of DHCSR while a core register
\* transfer is under way.
THEOREM TransferUndisturbed == Spec => NoControlDuringTransfer
<1>1. IInv /\ [Next]_vars =>
        [pc' # pc /\ "S_HALT" \in dhcsr /\ "S_REGRDY" \notin dhcsr => dhcsr' \cap Control = dhcsr \cap Control]_vars
  <2> SUFFICES ASSUME Held, Next, pc' # pc, "S_HALT" \in dhcsr, "S_REGRDY" \notin dhcsr
               PROVE  dhcsr' \cap Control = dhcsr \cap Control
    BY Zenon, GoneLeaves DEF IInv
  <2>1. pc \notin ControlWrites BY Zenon DEF Held, Parts, Transfer, Placed, ControlWrites
  <2> QED BY Zenon, <2>1, OnlyWrites
<1> QED BY PTL, InvHolds, <1>1 DEF Spec, NoControlDuringTransfer

\* C_STEP is cleared only while the core is in Debug state, as far as a read of
\* DHCSR can tell.
THEOREM StepClearedWhenHalted == Spec => StepClearedHalted
<1>1. IInv /\ [Next]_vars =>
        [pc' # pc /\ quiet /\ "C_STEP" \in dhcsr /\ "C_STEP" \notin dhcsr' => Halted \subseteq dhcsr]_vars
  <2> SUFFICES ASSUME Held, Next, pc' # pc, quiet, "C_STEP" \in dhcsr, "C_STEP" \notin dhcsr'
               PROVE  Halted \subseteq dhcsr
    BY Zenon, GoneLeaves DEF IInv
  <2>1. pc \in ControlWrites BY Zenon, OnlyWrites DEF Control
  <2>2. pc = "finish.write" BY Zenon, <2>1 DEF Held, Parts, Enabled, Placed, ControlWrites, StepPcs
  <2> QED BY Zenon, <2>2 DEF Held, Parts, Stopped, Halted
<1> QED BY PTL, InvHolds, <1>1 DEF Spec, StepClearedHalted

\* A halt request and the end of a step never withdraw a halt request.
LEMMA WritesKeepHalt ==
  ASSUME Held, Next, pc \in {"halt.write", "finish.write"}, pc' # pc, "C_HALT" \in dhcsr
  PROVE  "C_HALT" \in dhcsr'
<1>1. dhcsr \in SUBSET Bits BY Zenon DEF Held, Typed, CoreTypeOK
<1>2. "C_HALT" \in writeControl(dhcsr, {"C_DEBUGEN", "C_HALT"})
  <2>1. {"C_DEBUGEN", "C_HALT"} \in SUBSET {"C_DEBUGEN", "C_HALT", "C_STEP"} BY Zenon
  <2> QED BY <1>1, Written
<1>3. CASE HaltWrite BY Zenon, <1>2, <1>3 DEF HaltWrite, WriteAt, WriteFailsAt, FailsAt, AccessAt, coreVars
<1>4. CASE FinishWrite BY Zenon, <1>2, <1>4 DEF FinishWrite, WriteAt, WriteFailsAt
<1>5. op # "none" BY DEF Held, Typed
<1>6. ~ApiCall /\ ~Release
  BY Zenon, <1>5 DEF ApiCall, Acquire, Halt, HaltedCall, Resume, Step, ReadRegister, WriteRegister, Call, Release
<1>7. Access => HaltWrite \/ FinishWrite
  BY ZenonT(60) DEF Access, AcquireRead, ControlRead, HaltRead, StatusRead, WaitRead, ResumeRead, RestoreRead,
    DisableRead, RegisterRead, SelectedRead, waitRegister, registerStatus, DcrdrWrite, DcrdrRead, DfsrRead,
    SettleRead, ReasonRead, FinishRead, selectRegister, ControlWrite, ResumeWrite, StepWrite, ReadAt,
    ReadFailsAt, WriteAt, WriteFailsAt, FailsAt, AccessAt
<1>8. ~CoreProgress /\ ~CoreEvent /\ ~CalmDown BY DEF CoreProgress, CoreEvent, CalmDown, hostVars
<1> QED BY Zenon, <1>3, <1>4, <1>6, <1>7, <1>8 DEF Next

\* In a world that reports every event the target never ends a halt another
\* debugger requested.
THEOREM ForeignHaltKept == Spec => NoForeignResume
<1>1. IInv /\ [Next]_vars => [Events \cap Unnoticed = {} => ~ForeignEnded]_vars
  <2> SUFFICES ASSUME Held, Next, Events \cap Unnoticed = {}, pc' # pc, claim = "foreign", quiet,
                      Halted \subseteq dhcsr
               PROVE  "C_HALT" \in dhcsr'
    BY Zenon, GoneLeaves DEF ForeignEnded, IInv, Halted
  <2>1. HaltKept /\ "C_HALT" \in dhcsr /\ "S_HALT" \in dhcsr BY Zenon DEF Held, Parts, Owned, Reported, Halted
  <2>2. CASE pc \notin ControlWrites BY Zenon, <2>1, <2>2, OnlyWrites DEF Control
  <2>3. pc # "control.write" BY Zenon, <2>1 DEF Held, Parts, Closed
  <2>4. pc \notin {"resume.write", "step.write"}
    BY Zenon, <2>1 DEF HaltKept, Held, Parts, Changed, Placed, Unresolved
  <2>5. CASE pc \in {"halt.write", "finish.write"} BY Zenon, <2>1, <2>5, WritesKeepHalt
  <2> QED BY Zenon, <2>2, <2>3, <2>4, <2>5 DEF ControlWrites
<1> QED BY PTL, InvHolds, <1>1 DEF Spec, NoForeignResume

\* The operations on flags keep the memory.
LEMMA MemoryKept ==
  ASSUME NEW s \in Targets, "memory" \in s.flags, NEW n \in SUBSET (Flags \ {"memory"})
  PROVE  "memory" \in With(s, n).flags /\ "memory" \in Without(s, n).flags /\ "memory" \in Relinquish(s, n).flags
         /\ With(s, n) \in Targets /\ Without(s, n) \in Targets
<1>1. n \in SUBSET Flags BY Zenon
<1>2. "memory" \in Relinquish(s, n).flags BY Zenon, Relinquishing DEF Flags
<1> QED BY <1>2, Fields

\* Release lets the memory go only with halting debug disabled, if it was found so.
LEMMA ReleaseDisables ==
  ASSUME Held, Next, op = "Release", "memory" \notin t'.flags, t.saved = {}
  PROVE  "C_DEBUGEN" \notin dhcsr'
<1>1. pc \in Accesses("Release") /\ "memory" \in t.flags /\ t \in Targets /\ ("C_DEBUGEN" \in dhcsr => "changed" \in t.flags)
  BY Zenon DEF Held, Parts, Placed, Changed, Accesses, StepPcs, Typed, Targets
<1>2. "memory" \notin t'.flags OBVIOUS
<1>3. ASSUME NEW s, Return(s) \/ Abandon(s) \/ (\E where : Goto(s, where)), s \in Targets, "memory" \in s.flags PROVE FALSE
  <2>1. "memory" \in With(s, {"closing"}).flags BY ZenonT(30), <1>3, MemoryKept DEF Flags
  <2> QED BY Zenon, <1>2, <1>3, <2>1 DEF Return, Abandon, Goto
<1>4. ASSUME NEW s, Observed(t, s, dhcsr) \/ Withdrawn(t, s) PROVE s \in Targets /\ "memory" \in s.flags
  BY ZenonT(30), <1>1, <1>4 DEF Observed, Withdrawn
<1>5. ASSUME NEW where, ReadAt(where), "C_DEBUGEN" \in dhcsr' PROVE "changed" \in t.flags /\ "C_DEBUGEN" \in dhcsr
  BY Zenon, <1>1, <1>5 DEF ReadAt, Consumed
<1>6. ASSUME NEW s, Observed(t, s, dhcsr), "changed" \in t.flags PROVE "changed" \in s.flags
  BY Zenon, <1>6 DEF Observed
<1>7. \A v : Observed(t, readDHCSR(t, v), v) BY Zenon, <1>1, ReadSeen
<1>8. Withdrawn(t, readDHCSRFailed(t)) /\ (\A cause : Withdrawn(t, readError(readDHCSRFailed(t), cause)))
  BY Zenon, <1>1, FailedReadSeen, ErrorSeen
<1>9. CASE ControlWrite
  <2>1. With(t, {"changed"}) \in Targets /\ "memory" \in With(t, {"changed"}).flags BY Zenon, <1>1,
      MemoryKept DEF Flags
  <2> QED BY ZenonT(60), <1>1, <1>3, <1>9, <2>1 DEF ControlWrite, ControlFailed
<1>10. CASE ControlRead
  <2> DEFINE seen == readDHCSR(t, dhcsr)
  <2>1. seen \in Targets /\ "memory" \in seen.flags BY Zenon, <1>4, <1>7
  <2> HIDE DEF seen
  <2>2. Without(seen, {"changed"}) \in Targets /\ "memory" \in Without(seen, {"changed"}).flags BY <2>1,
      MemoryKept DEF Flags
  <2>3. readDHCSRFailed(t) \in Targets /\ "memory" \in readDHCSRFailed(t).flags BY Zenon, <1>4, <1>8
  <2>4. CASE ReadAt("control.read") /\ dhcsr \cap {"C_DEBUGEN"} = Wanted \cap {"C_DEBUGEN"}
    <3>1. Wanted = {} BY Zenon DEF Wanted
    <3> QED BY Zenon, <2>4, <3>1 DEF ReadAt, Consumed
  <2>5. Wanted = {} BY Zenon DEF Wanted
  <2> QED BY ZenonT(30), <1>3, <1>10, <2>1, <2>2, <2>3, <2>4, <2>5 DEF ControlRead, ControlFailed, seen
<1>11. CASE WaitRead
  <2>1. CASE ReadAt("wait.read")
    <3>1. t.step = "idle" BY Zenon, <2>1 DEF Held, Parts, Placed, StepPcs, ReadAt
    <3>2. Observed(t, readControl(t, dhcsr), dhcsr) BY ZenonT(30), <3>1, <1>1, ControlSeen
    <3>3. readControl(t, dhcsr) \in Targets /\ "memory" \in readControl(t, dhcsr).flags BY ZenonT(30), <3>2, <1>4
    <3>4. CASE "changed" \notin readControl(t, dhcsr).flags BY Zenon, <3>2, <3>4, <2>1, <1>5, <1>6
    <3>5. CASE ReadFailsAt("wait.read") \/ FailsAt("wait.read") BY ZenonT(30), <1>1, <1>3, <1>4, <1>8, <1>11, <3>5, <3>3,
        <3>4 DEF WaitRead
    <3> QED BY ZenonT(30), <3>3, <3>4, <3>5, <1>3, <1>11 DEF WaitRead
  <2>2. CASE ~ReadAt("wait.read") BY ZenonT(30), <1>1, <1>3, <1>4, <1>8, <1>11, <2>2 DEF WaitRead
  <2> QED BY <2>1, <2>2
<1>12. CASE ResumeRead
  <2>1. t.step = "idle" BY ZenonT(60), <1>12 DEF ResumeRead, Held, Parts, Placed, StepPcs, ReadAt, ReadFailsAt
  <2>2. Observed(t, readControl(t, dhcsr), dhcsr) BY Zenon, <2>1, <1>1, ControlSeen
  <2> QED BY Zenon, <2>2, <1>3, <1>4, <1>8, <1>12 DEF ResumeRead
<1>13. CASE ResumeWrite
  <2>1. With(t, {"resumeUncertain"}) \in Targets /\ "memory" \in With(t, {"resumeUncertain"}).flags BY Zenon, <1>1,
      MemoryKept DEF Flags
  <2>2. Without(With(t, {"resumeUncertain"}), {"haltOwned"}) \in Targets
        /\ "memory" \in Without(With(t, {"resumeUncertain"}), {"haltOwned"}).flags BY Zenon, <2>1, MemoryKept DEF Flags
  <2> QED BY ZenonT(60), <2>1, <2>2, <1>1, <1>3, <1>13 DEF ResumeWrite
<1>14. CASE RestoreRead
  <2>1. CASE ReadAt("restore.read")
    <3>1. t.step = "idle" /\ "memory" \in t.flags /\ (Claiming(t) => "C_DEBUGEN" \in dhcsr)
      BY ZenonT(30), <2>1 DEF Held, Parts, Placed, StepPcs, ReadAt, Enabled
    <3> DEFINE s == Settled(readDHCSR(t, dhcsr), dhcsr)
    <3>2. s \in Targets /\ "memory" \in s.flags /\ ("changed" \in t.flags => "changed" \in s.flags)
      <4>1. \/ Observed(t, s, dhcsr)
            \/ s \in Targets /\ ("changed" \in s.flags <=> "C_DEBUGEN" \notin t.saved) /\ ("memory" \in s.flags <=> "memory" \in t.flags)
        BY Zenon, <3>1, <1>1, SettledSeen
      <4> QED BY ZenonT(30), <4>1, <1>1, <1>4, <1>6
    <3> HIDE DEF s
    <3>3. CASE "changed" \notin s.flags BY Zenon, <3>2, <3>3, <2>1, <1>5
    <3>4. "changed" \in s.flags => {"haltOwned", "changed"} \cap s.flags # {} BY Zenon
    <3>5. CASE t.saved = {} /\ "C_DEBUGEN" \notin dhcsr BY Zenon, <2>1, <3>5 DEF ReadAt, Consumed
    <3>6. readDHCSR(t, dhcsr) \in Targets /\ "memory" \in readDHCSR(t, dhcsr).flags BY Zenon, <1>4, <1>7
    <3>7. readDHCSRFailed(t) \in Targets /\ "memory" \in readDHCSRFailed(t).flags BY Zenon, <1>4, <1>8
    <3> QED BY ZenonT(30), <3>2, <3>3, <3>4, <3>5, <3>6, <3>7, <1>3, <1>14 DEF RestoreRead, s
  <2>2. CASE ~ReadAt("restore.read") BY ZenonT(30), <1>3, <1>4, <1>8, <1>14, <2>2 DEF RestoreRead
  <2> QED BY <2>1, <2>2
<1>15. CASE DisableRead BY Zenon, <1>3, <1>4, <1>7, <1>8, <1>15 DEF DisableRead
<1>16. CASE RegisterRead
  <2> DEFINE seen == readDHCSR(t, dhcsr)
  <2> DEFINE s == observeHaltRequest(seen, dhcsr)
  <2>0. pc = "register.read" BY ZenonT(60), <1>16 DEF RegisterRead, waitRegister, registerStatus, ReadAt,
      ReadFailsAt, AccessAt, FailsAt
  <2>1. t.step = "idle" BY <2>0 DEF Held, Parts, Placed, StepPcs
  <2>2. Observed(t, s, dhcsr) /\ Observed(t, seen, dhcsr) BY ZenonT(30), <2>1, <1>1, <1>7, RequestSeen
  <2>3. seen \in Targets /\ "memory" \in seen.flags /\ s \in Targets /\ "memory" \in s.flags BY ZenonT(30), <2>2, <1>4
  <2>4. "changed" \in t.flags => "changed" \in s.flags BY <2>2, <1>6
  <2> HIDE DEF seen, s
  <2>5. ASSUME NEW r, RegisterFailed(r), r \in Targets, "memory" \in r.flags PROVE FALSE BY Zenon, <1>3,
      <2>5 DEF RegisterFailed
  <2>6. CASE registerStatus("register.read")
    <3>1. ReadAt("register.read") BY ZenonT(30), <2>6 DEF registerStatus
    <3>2. With(seen, {"registerLost"}) \in Targets /\ "memory" \in With(seen, {"registerLost"}).flags BY ZenonT(30), <2>3,
        MemoryKept DEF Flags
    <3>3. With(seen, {"closing"}) \in Targets /\ "memory" \in With(seen, {"closing"}).flags BY Zenon, <2>3,
        MemoryKept DEF Flags
    <3>4. With(s, {"registerPending"}) \in Targets /\ "memory" \in With(s, {"registerPending"}).flags BY Zenon, <2>3,
        MemoryKept DEF Flags
    <3>5. CASE RegisterReady(Without(s, {"registerPending"}))
      <4> DEFINE r == Without(s, {"registerPending"})
      <4>1. r \in Targets /\ "memory" \in r.flags /\ ("changed" \in t.flags => "changed" \in r.flags)
        BY <2>3, <2>4, MemoryKept, Fields DEF Flags
      <4>2. RegisterReady(r) BY Zenon, <3>5
      <4> HIDE DEF r
      <4>3. ReleaseFrom(r) BY Zenon, <4>2 DEF RegisterReady
      <4>4. CASE "changed" \in r.flags
        <5>1. t' = r BY Zenon, <4>3, <4>4 DEF ReleaseFrom
        <5> QED BY <5>1, <4>1, <1>2
      <4>5. CASE "changed" \notin r.flags BY <4>1, <4>5, <3>1, <1>5
      <4> QED BY Zenon, <4>4, <4>5
    <3> QED BY ZenonT(30), <2>3, <2>5, <2>6, <3>2, <3>3, <3>4, <3>5, <1>3 DEF registerStatus, seen, s
  <2>7. CASE ~registerStatus("register.read")
    BY Zenon, <1>1, <1>4, <1>8, <1>16, <2>5, <2>7 DEF RegisterRead, waitRegister
  <2> QED BY <2>6, <2>7
<1>17. CASE SettleRead
  <2>0. t.step # "idle"
    BY ZenonT(60), <1>17 DEF SettleRead, ReadAt, ReadFailsAt, AccessAt, FailsAt, Held, Parts, Placed, StepPcs
  <2> DEFINE s == stepStatus(dhcsr)
  <2>1. Observed(t, s, dhcsr) BY Zenon, <2>0, <1>1, StepObserved
  <2>2. s \in Targets /\ "memory" \in s.flags /\ ("changed" \in t.flags => "changed" \in s.flags) BY Zenon, <2>1,
      <1>4, <1>6
  <2> HIDE DEF s
  <2>3. CASE ReadAt("settle.read") /\ StepSettled([s EXCEPT !.step = "idle"])
    <3> DEFINE r == [s EXCEPT !.step = "idle"]
    <3>1. r \in Targets /\ r.flags = s.flags BY ZenonT(60), <2>2, Stepping DEF Steps
    <3> HIDE DEF r
    <3>2. ReleaseFrom(r) BY Zenon, <2>3 DEF StepSettled, r
    <3>3. CASE "changed" \in r.flags
      <4>1. t' = r BY <3>2, <3>3 DEF ReleaseFrom
      <4> QED BY Zenon, <4>1, <3>1, <2>2, <1>2
    <3>4. CASE "changed" \notin r.flags BY Zenon, <3>1, <3>4, <2>2, <2>3, <1>5
    <3> QED BY <3>3, <3>4
  <2>4. readDHCSRFailed(t) \in Targets /\ "memory" \in readDHCSRFailed(t).flags BY <1>4, <1>8
  <2> QED BY Zenon, <1>1, <1>3, <1>17, <2>2, <2>3, <2>4 DEF SettleRead, s
<1>18. CASE ReasonRead
  <2> DEFINE ended == [t EXCEPT !.step = "restoring"]
  <2>1. ended \in Targets /\ "memory" \in ended.flags BY ZenonT(60), <1>1, Stepping DEF Steps
  <2> HIDE DEF ended
  <2>2. With(ended, {"haltOwned"}) \in Targets /\ "memory" \in With(ended, {"haltOwned"}).flags
        /\ "memory" \in Relinquish(ended, {"haltOwned"}).flags
    BY Zenon, <2>1, MemoryKept DEF Flags
  <2>3. Relinquish(ended, {"haltOwned"}) \in Targets BY <2>1, Relinquishing DEF Flags
  <2> QED BY <1>1, <1>3, <1>18, <2>2, <2>3 DEF ReasonRead, ended
<1>19. CASE FinishRead
  <2>0. t.step # "idle"
    BY ZenonT(60), <1>19 DEF FinishRead, ReadAt, ReadFailsAt, AccessAt, FailsAt, Held, Parts, Placed
  <2>1. Observed(t, stepStatus(dhcsr), dhcsr) BY Zenon, <2>0, <1>1, StepObserved
  <2> QED BY Zenon, <2>1, <1>1, <1>3, <1>4, <1>8, <1>19 DEF FinishRead
<1>20. CASE FinishWrite BY ZenonT(60), <1>1, <1>3, <1>20 DEF FinishWrite
<1>21. ~ApiCall /\ ~Release
  BY DEF ApiCall, Acquire, Halt, HaltedCall, Resume, Step, ReadRegister, WriteRegister, Call, Release
<1>22. ~CoreProgress /\ ~CoreEvent /\ ~CalmDown BY Zenon, <1>1, <1>2 DEF CoreProgress, CoreEvent, CalmDown, hostVars
<1>23. ~AcquireRead /\ ~HaltRead /\ ~StatusRead /\ ~HaltWrite /\ ~SelectedRead /\ ~DcrdrWrite /\ ~selectRegister
       /\ ~DcrdrRead /\ ~DfsrRead /\ ~StepWrite
  BY ZenonT(60), <1>1 DEF Accesses, StepPcs, AcquireRead, HaltRead, StatusRead, HaltWrite, SelectedRead,
    waitRegister, registerStatus, DcrdrWrite, selectRegister, DcrdrRead, DfsrRead, StepWrite, ReadAt,
    ReadFailsAt, WriteAt, WriteFailsAt, FailsAt, AccessAt
<1> QED BY Zenon, <1>9, <1>10, <1>11, <1>12, <1>13, <1>14, <1>15, <1>16, <1>17, <1>18, <1>19, <1>20, <1>21, <1>22,
    <1>23 DEF Next, Access

\* A target that Release lets go leaves no step, no halt request of its own and, if
\* it found halting debug disabled, halting debug disabled.
THEOREM ReleaseLeavesClean == Spec => ReleaseClean
<1>1. IInv /\ [Next]_vars =>
        [op = "Release" /\ "memory" \in t.flags /\ "memory" \notin t'.flags =>
           /\ "C_STEP" \notin dhcsr'
           /\ "C_HALT" \in dhcsr' => claim' # "mine"
           /\ t.saved = {} => "C_DEBUGEN" \notin dhcsr']_vars
  <2> SUFFICES ASSUME IInv, Next, op = "Release", "memory" \notin t'.flags
               PROVE  /\ "C_STEP" \notin dhcsr'
                      /\ "C_HALT" \in dhcsr' => claim' # "mine"
                      /\ t.saved = {} => "C_DEBUGEN" \notin dhcsr'
    BY Zenon
  <2>1. Held BY Zenon DEF IInv, Gone
  <2>2. CASE Gone' BY Zenon, <2>1, <2>2, ReleaseDisables DEF Gone
  <2>3. CASE Held'
    <3>0. t' = NoTarget BY Zenon, <2>3 DEF Held, Typed
    <3>1. t'.step = "idle" /\ t'.flags = {} BY Zenon, <3>0 DEF NoTarget
    <3>2. "C_STEP" \notin dhcsr' BY Zenon, <2>3, <3>1 DEF Held, Parts, Enabled
    <3>3. "C_HALT" \in dhcsr' => claim' # "mine" BY Zenon, <2>3, <3>1 DEF Held, Parts, Claimed, Claiming, Unresolved
    <3> QED BY Zenon, <2>1, <3>2, <3>3, ReleaseDisables
  <2> QED BY Zenon, <2>2, <2>3, StepInv DEF IInv
<1> QED BY PTL, InvHolds, <1>1 DEF Spec, ReleaseClean

=============================================================================
