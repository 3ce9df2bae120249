---------------------------- MODULE OwnersProofs ----------------------------
(***************************************************************************)
(* The theorems about Owners.  Each owner has an inductive invariant and   *)
(* its steps keep the contract of its session (CmsisConnProofs,            *)
(* JlinkProofs, FtdiProofs); here they are put together.                   *)
(***************************************************************************)
EXTENDS Owners, CmsisConnProofs, JlinkProofs, FtdiProofs

\* The owner in use keeps its invariant.
OwnersInv ==
  /\ kind \in {"cmsis", "jlink", "ftdi", "conn"}
  /\ kind = "cmsis" => CmsisInv
  /\ kind = "jlink" => JlinkInv
  /\ kind = "ftdi" => FtdiInv
  /\ kind = "conn" => ConnInv

\* The owner a behaviour begins with has its invariant and nothing to clean up.
LEMMA OwnersStart == Init => OwnersInv /\ ~Pending /\ ~Able /\ outcome = "none"
<1> SUFFICES ASSUME Init PROVE OwnersInv /\ ~Pending /\ ~Able /\ outcome = "none"
  OBVIOUS
<1>1. ConnInv BY ConnStarts DEF Init
<1>2. FtdiInv /\ "device" \notin on /\ ~FtdiAble /\ outcome = "none" BY FtdiStarts DEF Init
<1>3. CASE kind = "cmsis" /\ C!Init BY <1>3, CmsisStarts DEF OwnersInv, Pending, Able, CmsisPending, CmsisAble, JlinkPending, JlinkAble, FtdiAble, F!CleanupPending, F!Is
<1>4. CASE kind = "jlink" /\ J!Init BY <1>4, JlinkStarts DEF OwnersInv, Pending, Able, CmsisPending, CmsisAble, JlinkPending, JlinkAble, FtdiAble, F!CleanupPending, F!Is
<1>5. CASE kind \in {"ftdi", "conn"} BY <1>1, <1>2, <1>5 DEF OwnersInv, Pending, Able, CmsisPending, CmsisAble, JlinkPending, JlinkAble, FtdiAble, F!CleanupPending, F!Is
<1> QED BY <1>3, <1>4, <1>5 DEF Init

\* A step of any owner keeps its invariant and the contract of its session.
LEMMA OwnersStep ==
  ASSUME OwnersInv, Next
  PROVE  OwnersInv' /\ Keeps(Pending, Able, outcome, Pending', Able', outcome')
<1>1. UNCHANGED kind /\ kind \in {"cmsis", "jlink", "ftdi", "conn"} BY DEF Next, OwnersInv
<1>2. CASE kind = "cmsis"
  <2>1. CmsisInv /\ C!Next BY <1>2 DEF OwnersInv, Next
  <2>2. CmsisInv' /\ Keeps(CmsisPending, CmsisAble, outcome, CmsisPending', CmsisAble', outcome') BY <2>1, CmsisSteps
  <2> QED BY <1>1, <1>2, <2>2 DEF OwnersInv, Pending, Able, CmsisPending, CmsisAble, JlinkPending, JlinkAble, FtdiAble, F!CleanupPending, F!Is, Keeps
<1>3. CASE kind = "jlink"
  <2>1. JlinkInv /\ J!Next BY <1>3 DEF OwnersInv, Next
  <2>2. JlinkInv' /\ Keeps(JlinkPending, JlinkAble, outcome, JlinkPending', JlinkAble', outcome') BY <2>1, JlinkSteps
  <2> QED BY <1>1, <1>3, <2>2 DEF OwnersInv, Pending, Able, CmsisPending, CmsisAble, JlinkPending, JlinkAble, FtdiAble, F!CleanupPending, F!Is, Keeps
<1>4. CASE kind = "ftdi"
  <2>1. FtdiInv /\ F!Next BY <1>4 DEF OwnersInv, Next
  <2>2. FtdiKeeps BY <2>1, FtdiSteps
  <2> QED BY <1>1, <1>4, <2>2 DEF OwnersInv, Pending, Able, CmsisPending, CmsisAble, JlinkPending, JlinkAble, FtdiAble, F!CleanupPending, F!Is, Keeps, FtdiKeeps
<1>5. CASE kind = "conn"
  <2>1. ConnInv /\ A!Next /\ UNCHANGED outcome BY <1>5 DEF OwnersInv, Next
  <2>2. ConnKept BY <2>1, ConnSteps
  <2> QED BY <1>1, <1>5, <2>1, <2>2 DEF OwnersInv, Pending, Able, CmsisPending, CmsisAble, JlinkPending, JlinkAble, FtdiAble, F!CleanupPending, F!Is, Keeps, ConnKept
<1> QED BY <1>1, <1>2, <1>3, <1>4, <1>5

\* The invariants say nothing but of the variables of their owner.
LEMMA OwnersStutter == ASSUME OwnersInv, UNCHANGED vars PROVE OwnersInv' /\ Pending' = Pending /\ Able' = Able
<1>1. /\ UNCHANGED <<kind, outcome, x, held>>
      /\ UNCHANGED <<on, left, queue, err, pc, stage, got, r, g, raw, reads, wire, cmd>>
      /\ UNCHANGED <<h, c, at, setup, cause, holder, target, told, calm>>
  BY DEF vars, hostVars, ftdiVars, connVars
<1>2. CmsisInv' = CmsisInv /\ CmsisPending' = CmsisPending /\ CmsisAble' = CmsisAble
  BY <1>1 DEF CmsisInv, C!Owned, CmsisPending, CmsisAble
<1>3. JlinkInv' = JlinkInv /\ JlinkPending' = JlinkPending /\ JlinkAble' = JlinkAble
  BY <1>1 DEF JlinkInv, JlinkPending, JlinkAble
<1>4. FtdiInv' = FtdiInv
  <2>1. FtdiTypes' = FtdiTypes BY <1>1 DEF FtdiTypes
  <2>2. FtdiData' = FtdiData BY <1>1 DEF FtdiData, FtdiRaw
  <2>3. FtdiControl' = FtdiControl BY <1>1 DEF FtdiControl
  <2>4. FtdiResting' = FtdiResting BY <1>1 DEF FtdiResting
  <2>5. FtdiFlight' = FtdiFlight /\ FtdiClear' = FtdiClear /\ FtdiMine' = FtdiMine
    BY <1>1 DEF FtdiFlight, FtdiHeld, FtdiLive, FtdiClear, FtdiMine
  <2>6. FtdiResponse' = FtdiResponse BY <1>1, <2>5 DEF FtdiResponse, F!restorationFailure, F!Is
  <2> QED BY <2>1, <2>2, <2>3, <2>4, <2>6 DEF FtdiInv
<1>5. FtdiAble' = FtdiAble BY <1>1 DEF FtdiAble, F!RestorationPossible, F!Is, F!restorationFailure
<1>6. ConnInv' = ConnInv
  <2>1. A!TypeOK' = A!TypeOK BY <1>1 DEF A!TypeOK
  <2>2. Lost' = Lost /\ Owed' = Owed BY <1>1 DEF Lost, Owed
  <2> QED BY <1>1, <2>1, <2>2 DEF ConnInv
<1> QED BY <1>1, <1>2, <1>3, <1>4, <1>5, <1>6 DEF OwnersInv, Pending, Able, CmsisPending, CmsisAble, JlinkPending, JlinkAble, FtdiAble, F!CleanupPending, F!Is

\* The owner in use always keeps its inductive invariant.
THEOREM OwnersInvHolds == Spec => []OwnersInv
<1>1. Init => OwnersInv BY OwnersStart
<1>2. OwnersInv /\ [Next]_vars => OwnersInv' BY OwnersStep, OwnersStutter
<1> QED BY <1>1, <1>2, PTL DEF Spec

\* Every variable of the owner in use has its type.
THEOREM TypesCorrect == Spec => []TypesOK
<1>1. OwnersInv => TypesOK
  <2> SUFFICES ASSUME OwnersInv PROVE TypesOK OBVIOUS
  <2>1. CASE kind = "cmsis" BY <2>1, CmsisSafe DEF OwnersInv, TypesOK
  <2>2. CASE kind = "jlink" BY <2>2, JlinkSafe DEF OwnersInv, TypesOK
  <2>3. CASE kind = "ftdi" BY <2>3, FtdiSafe DEF OwnersInv, TypesOK
  <2>4. CASE kind = "conn" BY <2>4, ConnSafe DEF OwnersInv, TypesOK
  <2> QED BY <2>1, <2>2, <2>3, <2>4 DEF OwnersInv
<1> QED BY <1>1, OwnersInvHolds, PTL

\* No command takes part of another command's answer for its own, in a CMSIS-DAP or
\* J-Link session or over an FTDI channel (synchronizeInput, poison, beginResponse).
THEOREM AnswersNeverMixed == Spec => []AnswersMatch
<1>1. OwnersInv => AnswersMatch
  <2> SUFFICES ASSUME OwnersInv PROVE AnswersMatch OBVIOUS
  <2>1. CASE kind = "cmsis" BY <2>1, CmsisSafe DEF OwnersInv, AnswersMatch
  <2>2. CASE kind = "jlink" BY <2>2, JlinkSafe DEF OwnersInv, AnswersMatch
  <2>3. CASE kind = "ftdi" BY <2>3, FtdiSafe DEF OwnersInv, AnswersMatch
  <2>4. CASE kind = "conn" BY <2>4 DEF OwnersInv, AnswersMatch
  <2> QED BY <2>1, <2>2, <2>3, <2>4 DEF OwnersInv
<1> QED BY <1>1, OwnersInvHolds, PTL

\* Whatever fails, the device, the claim, the receive goroutine and the lent surface
\* belong to someone who ends them (closeAfterOpenFailure, releaseUSB, owner.Close,
\* Probe.Close, closeProbe).
THEOREM NothingIsOrphaned == Spec => []NothingOrphaned
<1>1. OwnersInv => NothingOrphaned
  <2> SUFFICES ASSUME OwnersInv PROVE NothingOrphaned OBVIOUS
  <2>1. CASE kind = "cmsis" BY <2>1, CmsisSafe DEF OwnersInv, NothingOrphaned
  <2>2. CASE kind = "jlink" BY <2>2, JlinkSafe DEF OwnersInv, NothingOrphaned
  <2>3. CASE kind = "ftdi" BY <2>3, FtdiSafe DEF OwnersInv, NothingOrphaned
  <2>4. CASE kind = "conn" BY <2>4, ConnSafe DEF OwnersInv, NothingOrphaned
  <2> QED BY <2>1, <2>2, <2>3, <2>4 DEF OwnersInv
<1> QED BY <1>1, OwnersInvHolds, PTL

\* What an owner does next meets what it expects: the port is owned, the interface is
\* the one asked for, nothing of an answer is on the way, and what Conn.Close will
\* still put back is what was changed.
THEOREM WorkStaysInPlace == Spec => []WorkInPlace
<1>1. OwnersInv => WorkInPlace
  <2> SUFFICES ASSUME OwnersInv PROVE WorkInPlace OBVIOUS
  <2>1. CASE kind = "cmsis" BY <2>1, CmsisSafe DEF OwnersInv, WorkInPlace
  <2>2. CASE kind = "jlink" BY <2>2, JlinkSafe DEF OwnersInv, WorkInPlace
  <2>3. CASE kind = "ftdi" BY <2>3, FtdiSafe DEF OwnersInv, WorkInPlace
  <2>4. CASE kind = "conn" BY <2>4, ConnSafe DEF OwnersInv, WorkInPlace
  <2> QED BY <2>1, <2>2, <2>3, <2>4 DEF OwnersInv
<1> QED BY <1>1, OwnersInvHolds, PTL

\* From whatever state failures leave a CMSIS-DAP or J-Link session in, one Close
\* without further faults releases everything.
THEOREM OneCloseConverges == Spec => []CloseConverges
<1>1. OwnersInv => CloseConverges
  <2> SUFFICES ASSUME OwnersInv PROVE CloseConverges OBVIOUS
  <2>1. CASE kind = "cmsis" BY <2>1, CmsisSafe DEF OwnersInv, CloseConverges
  <2>2. CASE kind = "jlink" BY <2>2, JlinkSafe DEF OwnersInv, CloseConverges
  <2>3. CASE kind = "ftdi" BY <2>3 DEF OwnersInv, CloseConverges
  <2>4. CASE kind = "conn" BY <2>4 DEF OwnersInv, CloseConverges
  <2> QED BY <2>1, <2>2, <2>3, <2>4 DEF OwnersInv
<1> QED BY <1>1, OwnersInvHolds, PTL

\* A target is given up only when there is no way left to it, and the loss is
\* reported (releaseTarget, abandonTargetPort, restoreForClose).
THEOREM AbandonmentReported == Spec => AbandonReported
<1> DEFINE P == /\ kind = "cmsis" /\ C!Owned /\ C!CleanupPending(x) /\ outcome' = "nil" => ~C!Is(x, "port")'
                /\ kind = "ftdi" => F!AbandonReported'
                /\ kind = "conn" => A!AbandonReported' /\ A!RestoreFirst
           Reported == (kind = "ftdi" => F!AbandonReported) /\ (kind = "conn" => A!AbandonReported)
<1>1. OwnersInv => Reported BY FtdiSafe, ConnSafe DEF OwnersInv
<1>2. OwnersInv /\ Reported' /\ [Next]_vars => [P]_vars
  <2> SUFFICES ASSUME OwnersInv, Reported', Next PROVE P OBVIOUS
  <2>1. UNCHANGED kind BY DEF Next
  <2>2. kind = "cmsis" /\ C!Owned /\ C!CleanupPending(x) /\ outcome' = "nil" => ~C!Is(x, "port")'
    <3> SUFFICES ASSUME kind = "cmsis", CmsisPending, outcome' = "nil" PROVE ~C!Is(x, "port")' BY DEF CmsisPending
    <3>1. CmsisInv /\ C!Next BY DEF OwnersInv, Next
    <3>2. "port" \notin x'.on BY <3>1, CmsisSteps
    <3> QED BY <3>2 DEF C!Is
  <2>3. kind = "conn" => A!RestoreFirst BY ConnSteps DEF OwnersInv, Next, ConnKept
  <2> QED BY <2>1, <2>2, <2>3
<1> QED BY <1>1, <1>2, OwnersInvHolds, PTL DEF Spec, AbandonReported

\* Every adapter keeps the contract of probe.Backend, RestorationState and
\* CleanupState: the initial states map to its initial states, and every step to one
\* of its steps or to none.
THEOREM AdaptersImplementBackend == Spec => ImplementsBackend
<1>1. Init => Contract!Init
  <2> SUFFICES ASSUME Init PROVE Pending = FALSE /\ Able = FALSE /\ outcome = "none" BY DEF Contract!Init
  <2>1. Pending \in BOOLEAN /\ Able \in BOOLEAN BY Zenon DEF Pending, Able
  <2>2. ~Pending /\ ~Able /\ outcome = "none" BY OwnersStart
  <2> QED BY <2>1, <2>2
<1>2. OwnersInv /\ [Next]_vars => [Contract!Next]_<<Pending, Able, outcome>>
  <2> SUFFICES ASSUME OwnersInv, [Next]_vars PROVE [Contract!Next]_<<Pending, Able, outcome>>
    OBVIOUS
  <2>1. CASE Next
    <3>1. Keeps(Pending, Able, outcome, Pending', Able', outcome') BY <2>1, OwnersStep
    <3>3. Pending \in BOOLEAN /\ Able \in BOOLEAN /\ Pending' \in BOOLEAN /\ Able' \in BOOLEAN
      BY Zenon DEF Pending, Able
    <3>4. \/ ~Pending /\ Pending' = TRUE /\ Able' \in BOOLEAN /\ outcome' = "none"
          \/ ~Pending /\ outcome' = "none" /\ Pending' = Pending /\ Able' = Able
          \/ Able' \in {Able, FALSE} /\ Pending' = Pending /\ outcome' = outcome
          \/ Pending' = FALSE /\ Able' = FALSE /\ outcome' = "nil"
          \/ Pending /\ outcome' = "error" /\ Pending' \in BOOLEAN /\ Able' \in {Able, FALSE} /\ (Able' => Pending')
      BY ZenonT(30), <3>1, <3>3 DEF Keeps
    <3> QED
      BY Zenon, <3>4 DEF Contract!Next, Contract!Opened, Contract!Forgotten, Contract!Used, Contract!Released, Contract!Failed
  <2>2. CASE UNCHANGED vars BY <2>2, OwnersStutter DEF vars
  <2> QED BY <2>1, <2>2
<1> QED BY <1>1, <1>2, OwnersInvHolds, PTL DEF Spec, ImplementsBackend, Contract!Spec

=============================================================================
