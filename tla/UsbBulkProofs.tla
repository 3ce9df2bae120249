--------------------------- MODULE UsbBulkProofs ---------------------------
(***************************************************************************)
(* The safety invariants of UsbBulk hold for any number of transfers and   *)
(* endpoints.  The inductive invariant adds to them what the goroutines    *)
(* know of each other: where the engine can be for each kind of work, what *)
(* a call in progress says of the engine, and that a close which has met   *)
(* no error has drained every endpoint it no longer lists.                 *)
(***************************************************************************)
EXTENDS UsbBulk, FiniteSetTheorems, TLAPS

Ended == {"ok", "error", "aborted"}

\* The work the engine is busy with, given where it is.
EngineShape ==
  /\ engine # "running" => eng = IdleEng
  /\ eng.pc = "select" => eng = IdleEng
  /\ eng.pc = "reap" => eng.op = "none"
  /\ eng.pc \in {"complete", "count", "announce"} =>
       (eng.back = "reap" => eng.op = "none") /\ (eng.back = "drain" => eng.op \in {"abort", "close"})
  /\ eng.pc \in {"discard", "drain", "drainWait"} => eng.op \in {"abort", "close"}
  /\ eng.pc = "close" => eng.op = "close"
  /\ eng.op = "exit" => eng.pc = "stop" /\ transfers = {} /\ watchStop
  /\ eng.pc = "discard" => eng.todo \subseteq transfers

\* The transfer being completed, and the statuses of transfers at rest.
TransferShape ==
  /\ eng.pc \in {"complete", "count", "announce"} =>
       eng.cur \in Xfers /\ eng.cur \notin transfers /\ eng.cur \notin done /\ status[eng.cur] \in Ended
  /\ eng.pc \in {"count", "announce"} => result[eng.cur] = status[eng.cur]
  /\ \A x \in transfers : status[x] # "none"
  /\ \A x \in done : status[x] \in Ended
  /\ cli.pc = "submit" => cli.x \in Xfers /\ status[cli.x] = "none"
  /\ cli.pc = "abort" => cli.ep \in Endpoints

\* A call in progress and the engine that serves it.
CallShape ==
  /\ reply # "none" => cli.pc \in {"await", "awaitAlt", "awaitClaim"}
  /\ cli.pc # "idle" => claimed
  /\ cli.pc \in {"submit", "abort", "await", "closeAlt", "awaitAlt", "closeClaim", "awaitClaim"} => engine # "none"
  /\ eng.op = "abort" => cli.pc = "await" /\ reply = "none"
  /\ eng.op \in {"close", "exit"} => cli.pc \in {"awaitAlt", "awaitClaim"} /\ reply = "none"
  /\ cli.pc \in {"awaitAlt", "awaitClaim"} /\ reply = "ok" => engine = "closed"

\* A close that met no error has only the endpoints it lists left to drain.
CloseProgress ==
  eng.op = "close" /\ eng.closeErr = "ok" =>
    \A x \in transfers : EndpointOf[x] \in eng.eps \/ (eng.pc # "close" /\ EndpointOf[x] = eng.ep)

IInv ==
  /\ TypeOK /\ PendingExact /\ KernelOwned /\ DoneMeansSettled /\ QuietInterface /\ WatcherLife
  /\ EngineShape /\ TransferShape /\ CallShape /\ CloseProgress

\* One transfer more or less changes the cardinality of a set of transfers by one.
LEMMA CountOne ==
  ASSUME NEW S \in SUBSET Xfers, NEW x \in Xfers
  PROVE  /\ Cardinality(S) \in Nat
         /\ x \notin S => Cardinality(S \cup {x}) = Cardinality(S) + 1
         /\ x \in S => Cardinality(S) = Cardinality(S \ {x}) + 1 /\ Cardinality(S \ {x}) \in Nat
<1>1. IsFiniteSet(S) BY XfersAssumption, FS_Subset
<1>2. Cardinality(S) \in Nat BY <1>1, FS_CardinalityType
<1>3. x \notin S => Cardinality(S \cup {x}) = Cardinality(S) + 1 BY <1>1, FS_AddElement
<1>4. x \in S => Cardinality(S \ {x}) = Cardinality(S) - 1 BY <1>1, FS_RemoveElement
<1>5. IsFiniteSet(S \ {x}) BY <1>1, FS_RemoveElement
<1>6. Cardinality(S \ {x}) \in Nat BY <1>5, FS_CardinalityType
<1> QED BY <1>2, <1>3, <1>4, <1>6

\* Complete keeps the invariant.
LEMMA CompleteStep ==
  ASSUME IInv, NEW x \in Xfers, Complete(x)
  PROVE  IInv'
<1>1. TypeOK'
  BY SMTT(60) DEF IInv, TypeOK, Engines, Callers, Statuses, Complete, kernelVars, engineVars, xferVars,
         cliVars
<1>2. (PendingExact /\ KernelOwned /\ DoneMeansSettled /\ QuietInterface /\ WatcherLife /\ EngineShape /\ TransferShape /\ CallShape /\ CloseProgress)'
  BY SMTT(60) DEF IInv, PendingExact, KernelOwned, Completing, DoneMeansSettled, QuietInterface,
         WatcherLife, EngineShape, TransferShape, Ended, CallShape, CloseProgress, Complete,
         kernelVars, engineVars, xferVars, cliVars
<1> QED BY <1>1, <1>2 DEF IInv

\* Disconnect keeps the invariant.
LEMMA DisconnectStep ==
  ASSUME IInv, Disconnect
  PROVE  IInv'
<1>1. (TypeOK /\ PendingExact /\ KernelOwned /\ DoneMeansSettled /\ QuietInterface /\ WatcherLife /\ EngineShape /\ TransferShape /\ CallShape /\ CloseProgress)'
  BY SMTT(60) DEF IInv, TypeOK, PendingExact, KernelOwned, Completing, DoneMeansSettled,
         QuietInterface, WatcherLife, EngineShape, TransferShape, Ended, CallShape, CloseProgress,
         Disconnect, kernelVars, engineVars, xferVars, cliVars
<1> QED BY SMTT(60), <1>1 DEF IInv

\* CalmDown keeps the invariant.
LEMMA CalmDownStep ==
  ASSUME IInv, CalmDown
  PROVE  IInv'
<1>1. (TypeOK /\ PendingExact /\ KernelOwned /\ DoneMeansSettled /\ QuietInterface /\ WatcherLife /\ EngineShape /\ TransferShape /\ CallShape /\ CloseProgress)'
  BY SMTT(60) DEF IInv, TypeOK, PendingExact, KernelOwned, Completing, DoneMeansSettled,
         QuietInterface, WatcherLife, EngineShape, TransferShape, Ended, CallShape, CloseProgress,
         CalmDown, kernelVars, engineVars, xferVars, cliVars
<1> QED BY <1>1 DEF IInv

\* Poll keeps the invariant.
LEMMA PollStep ==
  ASSUME IInv, Poll
  PROVE  IInv'
<1>1. (TypeOK /\ PendingExact /\ KernelOwned /\ DoneMeansSettled /\ QuietInterface /\ WatcherLife /\ EngineShape /\ TransferShape /\ CallShape /\ CloseProgress)'
  BY SMTT(60) DEF IInv, TypeOK, PendingExact, KernelOwned, Completing, DoneMeansSettled,
         QuietInterface, WatcherLife, EngineShape, TransferShape, Ended, CallShape, CloseProgress,
         Poll, Reapable, kernelVars, engineVars, xferVars, cliVars
<1> QED BY <1>1 DEF IInv

\* StopSending keeps the invariant.
LEMMA StopSendingStep ==
  ASSUME IInv, StopSending
  PROVE  IInv'
<1>1. (TypeOK /\ PendingExact /\ KernelOwned /\ DoneMeansSettled /\ QuietInterface /\ WatcherLife /\ EngineShape /\ TransferShape /\ CallShape /\ CloseProgress)'
  BY SMTT(60) DEF IInv, TypeOK, PendingExact, KernelOwned, Completing, DoneMeansSettled,
         QuietInterface, WatcherLife, EngineShape, TransferShape, Ended, CallShape, CloseProgress,
         StopSending, kernelVars, engineVars, xferVars, cliVars
<1> QED BY <1>1 DEF IInv

\* recordFailure and stopWatcher, from any loop that can fail, keep the invariant.
LEMMA FailStep ==
  ASSUME IInv, Fail(eng), engine = "running", eng.pc \in {"reap", "drain", "drainWait"},
         watcher' \in {watcher, "poll"}, watcher' = "off" => watcher = "off",
         UNCHANGED <<kernelVars, engine, transfers, pendingCount, xferVars, cliVars>>
  PROVE  IInv'
<1>1. TypeOK'
  BY DEF IInv, TypeOK, Engines, Callers, Statuses, Fail, kernelVars, engineVars, xferVars, cliVars
<1>2. (PendingExact /\ KernelOwned /\ DoneMeansSettled /\ QuietInterface /\ WatcherLife /\ EngineShape /\ TransferShape /\ CallShape /\ CloseProgress)'
  BY SMTT(60) DEF IInv, PendingExact, KernelOwned, Completing, DoneMeansSettled, QuietInterface,
         WatcherLife, EngineShape, TransferShape, Ended, CallShape, CloseProgress, Fail, kernelVars,
         engineVars, xferVars, cliVars
<1> QED BY <1>1, <1>2 DEF IInv

\* abortEndpoint returning to an AbortBulk keeps the invariant.
LEMMA AbortEndsStep ==
  ASSUME IInv, NEW r \in {"ok", "error"}, EndAbort(r), eng.op = "abort", engine = "running", eng.pc \in {"discard", "drain", "drainWait", "stop"},
         UNCHANGED <<kernelVars, engine, transfers, pendingCount, failed, watchStop, watcher, xferVars>>
  PROVE  IInv'
<1>1. TypeOK'
  BY DEF IInv, TypeOK, Engines, Callers, Statuses, EndAbort, Reply, IdleEng, kernelVars, engineVars,
         xferVars, cliVars
<1>2. (PendingExact /\ KernelOwned /\ DoneMeansSettled /\ QuietInterface /\ WatcherLife /\ EngineShape /\ TransferShape /\ CallShape /\ CloseProgress)'
  BY SMTT(60) DEF IInv, PendingExact, KernelOwned, Completing, DoneMeansSettled, QuietInterface,
         WatcherLife, EngineShape, TransferShape, Ended, CallShape, CloseProgress, EndAbort, Reply,
         IdleEng, kernelVars, engineVars, xferVars, cliVars
<1> QED BY <1>1, <1>2 DEF IInv

\* abortEndpoint returning to closeTransfers keeps the invariant: it is either done
\* with the endpoint or remembers the error.
LEMMA CloseGoesOnStep ==
  ASSUME IInv, NEW r \in {"ok", "error"}, EndAbort(r), eng.op = "close", r = "ok" => On(eng.ep) = {},
         engine = "running", eng.pc \in {"discard", "drain", "drainWait", "stop"},
         UNCHANGED <<kernelVars, engine, transfers, pendingCount, failed, watchStop, watcher, xferVars>>
  PROVE  IInv'
<1>a. eng \in Engines /\ UNCHANGED cliVars
  BY DEF EndAbort, IInv, TypeOK
<1>b. /\ eng' \in Engines /\ eng'.pc = "close" /\ eng'.op = eng.op /\ eng'.eps = eng.eps
      /\ eng'.closeErr = IF r = "error" THEN "error" ELSE eng.closeErr
  <2>1. CASE r = "ok"
    <3>1. eng' = [eng EXCEPT !.pc = "close", !.ep = NoEndpoint]
      <4>1. eng' = [eng EXCEPT !.pc = "close", !.ep = NoEndpoint, !.closeErr = @] BY <2>1 DEF EndAbort
      <4> QED BY ZenonT(60), <4>1, <1>a DEF Engines
    <3> QED BY ZenonT(60), <3>1, <2>1, <1>a DEF Engines
  <2>2. CASE r = "error"
    <3>1. eng' = [eng EXCEPT !.pc = "close", !.ep = NoEndpoint, !.closeErr = "error"] BY <2>2 DEF EndAbort
    <3> QED BY ZenonT(60), <3>1, <2>2, <1>a DEF Engines
  <2> QED BY <2>1, <2>2
<1>1. (TypeOK /\ PendingExact /\ KernelOwned /\ DoneMeansSettled /\ QuietInterface /\ WatcherLife /\ EngineShape /\ TransferShape /\ CallShape /\ CloseProgress)'
  BY <1>a, <1>b, SMTT(60) DEF IInv, TypeOK, PendingExact, KernelOwned, Completing, DoneMeansSettled,
         QuietInterface, WatcherLife, EngineShape, TransferShape, Ended, CallShape, CloseProgress,
         On, kernelVars, engineVars, xferVars, cliVars
<1> QED BY <1>1 DEF IInv

\* ReceiveCompletion keeps the invariant.
LEMMA ReceiveCompletionStep ==
  ASSUME IInv, ReceiveCompletion
  PROVE  IInv'
<1>e. eng' \in Engines
  <2>1. \/ eng' = [eng EXCEPT !.pc = "reap", !.back = "reap", !.err = "error"]
        \/ eng' = [eng EXCEPT !.pc = "reap", !.back = "reap", !.err = "ok"]
    BY ZenonT(60) DEF ReceiveCompletion
  <2>2. eng \in Engines BY DEF IInv, TypeOK
  <2>3. CASE eng' = [eng EXCEPT !.pc = "reap", !.back = "reap", !.err = "error"] BY ZenonT(60), <2>2, <2>3 DEF Engines
  <2>4. CASE eng' = [eng EXCEPT !.pc = "reap", !.back = "reap", !.err = "ok"] BY ZenonT(60), <2>2, <2>4 DEF Engines
  <2> QED BY <2>1, <2>3, <2>4
<1>1. TypeOK'
  BY <1>e DEF IInv, TypeOK, ReceiveCompletion, kernelVars, engineVars, xferVars, cliVars
<1>2. (PendingExact /\ KernelOwned /\ DoneMeansSettled /\ QuietInterface /\ WatcherLife /\ EngineShape /\ TransferShape /\ CallShape /\ CloseProgress)'
  BY <1>e, SMTT(60) DEF IInv, PendingExact, KernelOwned, Completing, DoneMeansSettled,
         QuietInterface, WatcherLife, EngineShape, TransferShape, Ended, CallShape, CloseProgress,
         ReceiveCompletion, At, IdleEng, kernelVars, engineVars, xferVars, cliVars
<1> QED BY <1>1, <1>2 DEF IInv

\* ReceiveSubmission keeps the invariant.
LEMMA ReceiveSubmissionStep ==
  ASSUME IInv, ReceiveSubmission
  PROVE  IInv'
<1>a. cli.x \in Xfers /\ status[cli.x] = "none" /\ cli.x \notin transfers /\ cli.x \notin done
  BY DEF IInv, TransferShape, ReceiveSubmission, TypeOK, Ended
<1>b. eng = IdleEng BY DEF IInv, EngineShape, ReceiveSubmission, At
<1>c. /\ Cardinality(transfers) \in Nat
      /\ Cardinality(transfers \cup {cli.x}) = Cardinality(transfers) + 1
  BY ZenonT(60), <1>a, CountOne DEF IInv, TypeOK
<1>1. TypeOK'
  BY <1>a DEF IInv, TypeOK, Engines, Callers, Statuses, ReceiveSubmission, At, kernelVars,
         engineVars, xferVars, cliVars
<1>2. PendingExact'
  <2>1. eng.pc = "select" /\ eng' = eng BY DEF ReceiveSubmission, At
  <2>2. \/ transfers' = transfers \cup {cli.x} /\ pendingCount' = pendingCount + 1
        \/ transfers' = transfers /\ pendingCount' = pendingCount
    BY DEF ReceiveSubmission
  <2> QED BY <1>c, <2>1, <2>2 DEF IInv, TypeOK, PendingExact
<1>3. KernelOwned'
  BY <1>a, <1>b DEF IInv, TypeOK, KernelOwned, Completing, ReceiveSubmission, At, IdleEng, xferVars
<1>4. DoneMeansSettled'
  BY <1>a DEF IInv, DoneMeansSettled, TypeOK, Engines, Callers, Statuses, ReceiveSubmission, At,
         kernelVars, engineVars, xferVars, cliVars
<1>5. (QuietInterface /\ WatcherLife /\ EngineShape /\ CallShape)'
  BY <1>a, SMTT(60) DEF IInv, QuietInterface, WatcherLife, EngineShape, CallShape,
         ReceiveSubmission, At, kernelVars, engineVars, xferVars, cliVars
<1>6. TransferShape'
  BY SMTT(60), <1>a DEF IInv, TransferShape, Ended, TypeOK, Engines, Callers, Statuses, ReceiveSubmission, At,
         kernelVars, engineVars, xferVars, cliVars
<1>7. CloseProgress'
  BY <1>a DEF IInv, CloseProgress, TypeOK, Engines, Callers, Statuses, EngineShape, TransferShape,
         CallShape, Ended, ReceiveSubmission, At, kernelVars, engineVars, xferVars, cliVars
<1> QED BY <1>1, <1>2, <1>3, <1>4, <1>5, <1>6, <1>7 DEF IInv

\* ReceiveAbort keeps the invariant.
LEMMA ReceiveAbortStep ==
  ASSUME IInv, ReceiveAbort
  PROVE  IInv'
<1>e. eng' \in Engines
  <2>1. On(cli.ep) \in SUBSET Xfers /\ cli.ep \in Endpoints BY DEF IInv, TypeOK, TransferShape, On, ReceiveAbort
  <2>2. eng' = [eng EXCEPT !.pc = "discard", !.op = "abort", !.ep = cli.ep, !.todo = On(cli.ep), !.err = "ok"]
    BY DEF ReceiveAbort
  <2> QED BY ZenonT(60), <2>1, <2>2 DEF IInv, TypeOK, Engines
<1>f. cli' \in Callers BY DEF IInv, TypeOK, Callers, ReceiveAbort
<1>1. TypeOK'
  BY <1>e, <1>f DEF IInv, TypeOK, ReceiveAbort, kernelVars, engineVars, xferVars, cliVars
<1>2. (PendingExact /\ KernelOwned /\ DoneMeansSettled /\ QuietInterface /\ EngineShape /\ TransferShape /\ CallShape /\ CloseProgress)'
  <2>1. PendingExact' BY SMTT(60) DEF IInv, PendingExact, ReceiveAbort, At, On, IdleEng, kernelVars,
          engineVars, xferVars, cliVars
  <2>2. KernelOwned' BY SMTT(60) DEF IInv, KernelOwned, Completing, ReceiveAbort, At, On, IdleEng, kernelVars,
          engineVars, xferVars, cliVars
  <2>3. DoneMeansSettled' BY SMTT(60) DEF IInv, DoneMeansSettled, ReceiveAbort, At, On, IdleEng, kernelVars,
          engineVars, xferVars, cliVars
  <2>4. QuietInterface' BY SMTT(60) DEF IInv, QuietInterface, ReceiveAbort, At, On, IdleEng, kernelVars,
          engineVars, xferVars, cliVars
  <2>5. EngineShape' BY SMTT(60) DEF IInv, EngineShape, ReceiveAbort, At, On, IdleEng, kernelVars, engineVars,
          xferVars, cliVars
  <2>6. TransferShape' BY SMTT(60) DEF IInv, TransferShape, Ended, ReceiveAbort, At, On, IdleEng, kernelVars,
          engineVars, xferVars, cliVars
  <2>7. CallShape' BY SMTT(60) DEF IInv, CallShape, ReceiveAbort, At, On, IdleEng, kernelVars, engineVars,
          xferVars, cliVars
  <2>8. CloseProgress' BY SMTT(60) DEF IInv, CloseProgress, ReceiveAbort, At, On, IdleEng, kernelVars,
          engineVars, xferVars, cliVars
  <2> QED BY <2>1, <2>2, <2>3, <2>4, <2>5, <2>6, <2>7, <2>8
<1>3. WatcherLife'
  BY DEF IInv, WatcherLife, TypeOK, Engines, Callers, Statuses, EngineShape, TransferShape,
         CallShape, Ended, ReceiveAbort, At, On, IdleEng, kernelVars, engineVars, xferVars, cliVars
<1> QED BY <1>1, <1>2, <1>3 DEF IInv

\* ReceiveClose keeps the invariant.
LEMMA ReceiveCloseStep ==
  ASSUME IInv, ReceiveClose
  PROVE  IInv'
<1>e. eng' \in Engines
  <2> DEFINE left == {EndpointOf[x] : x \in transfers}
  <2>1. left \in SUBSET Endpoints BY EndpointsAssumption DEF IInv, TypeOK
  <2>2. eng' = [eng EXCEPT !.pc = "close", !.op = "close", !.closeErr = "ok", !.eps = left]
    BY DEF ReceiveClose
  <2> HIDE DEF left
  <2> QED BY ZenonT(60), <2>1, <2>2 DEF IInv, TypeOK, Engines
<1>f. cli' \in Callers BY DEF IInv, TypeOK, Callers, ReceiveClose
<1>1. TypeOK'
  BY <1>e, <1>f DEF IInv, TypeOK, ReceiveClose, kernelVars, engineVars, xferVars, cliVars
<1>2. (PendingExact /\ KernelOwned /\ DoneMeansSettled /\ QuietInterface /\ EngineShape /\ TransferShape /\ CallShape /\ CloseProgress)'
  <2>1. PendingExact' BY SMTT(60) DEF IInv, PendingExact, ReceiveClose, At, IdleEng, kernelVars, engineVars,
          xferVars, cliVars
  <2>2. KernelOwned' BY SMTT(60) DEF IInv, KernelOwned, Completing, ReceiveClose, At, IdleEng, kernelVars,
          engineVars, xferVars, cliVars
  <2>3. DoneMeansSettled' BY SMTT(60) DEF IInv, DoneMeansSettled, ReceiveClose, At, IdleEng, kernelVars,
          engineVars, xferVars, cliVars
  <2>4. QuietInterface' BY SMTT(60) DEF IInv, QuietInterface, ReceiveClose, At, IdleEng, kernelVars,
          engineVars, xferVars, cliVars
  <2>5. EngineShape' BY SMTT(60) DEF IInv, EngineShape, ReceiveClose, At, IdleEng, kernelVars, engineVars,
          xferVars, cliVars
  <2>6. TransferShape' BY SMTT(60) DEF IInv, TransferShape, Ended, ReceiveClose, At, IdleEng, kernelVars,
          engineVars, xferVars, cliVars
  <2>7. CallShape' BY SMTT(60) DEF IInv, CallShape, ReceiveClose, At, IdleEng, kernelVars, engineVars,
          xferVars, cliVars
  <2>8. CloseProgress' BY SMTT(60) DEF IInv, CloseProgress, ReceiveClose, At, IdleEng, kernelVars, engineVars,
          xferVars, cliVars
  <2> QED BY <2>1, <2>2, <2>3, <2>4, <2>5, <2>6, <2>7, <2>8
<1>3. WatcherLife'
  BY DEF IInv, WatcherLife, TypeOK, Engines, Callers, Statuses, EngineShape, TransferShape,
         CallShape, Ended, ReceiveClose, At, IdleEng, kernelVars, engineVars, xferVars, cliVars
<1> QED BY <1>1, <1>2, <1>3 DEF IInv

\* ReapOne keeps the invariant.
LEMMA ReapOneStep ==
  ASSUME IInv, ReapOne
  PROVE  IInv'
<1>a. PICK x \in Reapable \cap transfers :
        /\ kernel' = kernel \ {x} /\ transfers' = transfers \ {x}
        /\ eng' = [eng EXCEPT !.back = eng.pc, !.pc = "complete", !.cur = x]
  BY ZenonT(60) DEF ReapOne
<1>b. /\ engine = "running" /\ eng.pc \in {"reap", "drain"}
      /\ UNCHANGED <<status, gone, calm, engine, pendingCount, failed, watchStop, watcher, xferVars, cliVars>>
  BY DEF ReapOne, At
<1>e. eng' \in Engines BY ZenonT(60), <1>a, <1>b DEF IInv, TypeOK, Engines
<1>f. Cardinality(transfers) = Cardinality(transfers') + 1 /\ Cardinality(transfers') \in Nat BY <1>a, CountOne DEF IInv, TypeOK
<1>1. TypeOK'
  BY <1>a, <1>b, <1>e DEF IInv, TypeOK, kernelVars, engineVars, xferVars, cliVars
<1>2. PendingExact'
  BY <1>a, <1>b, <1>f DEF IInv, TypeOK, Engines, PendingExact
<1>3. (KernelOwned /\ DoneMeansSettled /\ QuietInterface /\ WatcherLife /\ EngineShape /\ CallShape /\ CloseProgress)'
  BY <1>a, <1>b, SMTT(60) DEF IInv, KernelOwned, Completing, DoneMeansSettled, QuietInterface,
         WatcherLife, EngineShape, CallShape, CloseProgress, At, On, Reapable, kernelVars,
         engineVars, xferVars, cliVars
<1>4. TransferShape'
  BY <1>a, <1>b, XfersAssumption, EndpointsAssumption, SMTT(60) DEF IInv, TypeOK, Engines, Callers,
         Statuses, PendingExact, KernelOwned, Completing, DoneMeansSettled, QuietInterface,
         WatcherLife, EngineShape, TransferShape, CallShape, CloseProgress, Ended, At, On, Reapable,
         kernelVars, engineVars, xferVars, cliVars
<1> QED BY <1>1, <1>2, <1>3, <1>4 DEF IInv

\* StoreResult keeps the invariant.
LEMMA StoreResultStep ==
  ASSUME IInv, StoreResult
  PROVE  IInv'
<1>1. TypeOK'
  BY DEF IInv, TypeOK, Engines, Callers, Statuses, EngineShape, TransferShape, CallShape, Ended,
         StoreResult, At, kernelVars, engineVars, xferVars, cliVars
<1>2. (PendingExact /\ KernelOwned /\ DoneMeansSettled /\ QuietInterface /\ WatcherLife /\ EngineShape /\ CallShape /\ CloseProgress)'
  BY SMTT(60) DEF IInv, PendingExact, KernelOwned, Completing, DoneMeansSettled, QuietInterface,
         WatcherLife, EngineShape, CallShape, CloseProgress, StoreResult, At, kernelVars,
         engineVars, xferVars, cliVars
<1>3. TransferShape'
  BY DEF IInv, TransferShape, Ended, TypeOK, Engines, Callers, Statuses, StoreResult, At,
         kernelVars, engineVars, xferVars, cliVars
<1> QED BY SMTT(60), <1>1, <1>2, <1>3 DEF IInv

\* Uncount keeps the invariant.
LEMMA UncountStep ==
  ASSUME IInv, Uncount
  PROVE  IInv'
<1>a. Cardinality(transfers) \in Nat
  BY XfersAssumption, FS_Subset, FS_CardinalityType DEF IInv, TypeOK
<1>e. eng' \in Engines /\ eng'.pc = "announce" BY DEF IInv, TypeOK, Engines, Uncount
<1>1. TypeOK'
  BY <1>a, <1>e DEF IInv, TypeOK, PendingExact, Uncount, At, kernelVars, engineVars, xferVars, cliVars
<1>2. PendingExact'
  BY SMTT(60), <1>a, <1>e DEF IInv, TypeOK, PendingExact, Uncount, At
<1>3. (KernelOwned /\ DoneMeansSettled /\ QuietInterface /\ WatcherLife /\ EngineShape /\ TransferShape /\ CallShape /\ CloseProgress)'
  BY SMTT(60) DEF IInv, KernelOwned, Completing, DoneMeansSettled, QuietInterface, WatcherLife,
         EngineShape, TransferShape, Ended, CallShape, CloseProgress, Uncount, At, kernelVars,
         engineVars, xferVars, cliVars
<1> QED BY <1>1, <1>2, <1>3 DEF IInv

\* Announce keeps the invariant.
LEMMA AnnounceStep ==
  ASSUME IInv, Announce
  PROVE  IInv'
<1>e. eng' \in Engines BY ZenonT(60) DEF IInv, TypeOK, Engines, Announce
<1>1. TypeOK'
  BY <1>e DEF IInv, TypeOK, TransferShape, Announce, At, kernelVars, engineVars, xferVars, cliVars
<1>2. PendingExact'
  BY DEF IInv, PendingExact, TypeOK, Engines, Callers, Statuses, Announce, At, kernelVars,
         engineVars, xferVars, cliVars
<1>3. KernelOwned'
  BY DEF IInv, KernelOwned, Completing, TypeOK, Engines, Callers, Statuses, EngineShape,
         TransferShape, CallShape, Ended, Announce, At, kernelVars, engineVars, xferVars, cliVars
<1>4. DoneMeansSettled'
  BY XfersAssumption, EndpointsAssumption, SMTT(60) DEF IInv, TypeOK, Engines, Callers, Statuses,
         PendingExact, KernelOwned, Completing, DoneMeansSettled, QuietInterface, WatcherLife,
         EngineShape, TransferShape, CallShape, CloseProgress, Ended, Announce, At, kernelVars,
         engineVars, xferVars, cliVars
<1>5. (QuietInterface /\ WatcherLife /\ CallShape)'
  BY DEF IInv, QuietInterface, WatcherLife, CallShape, Announce, At, kernelVars, engineVars,
         xferVars, cliVars
<1>6. EngineShape'
  BY DEF IInv, EngineShape, TypeOK, Engines, Callers, Statuses, Announce, At, kernelVars,
         engineVars, xferVars, cliVars
<1>7. TransferShape'
  BY DEF IInv, TransferShape, Ended, TypeOK, Engines, Callers, Statuses, Announce, At, kernelVars,
         engineVars, xferVars, cliVars
<1>8. CloseProgress'
  BY DEF IInv, CloseProgress, TypeOK, Engines, Callers, Statuses, Announce, At, kernelVars,
         engineVars, xferVars, cliVars
<1> QED BY SMTT(60), <1>1, <1>2, <1>3, <1>4, <1>5, <1>6, <1>7, <1>8 DEF IInv

\* The end of reapAvailable without an error keeps the invariant.
LEMMA ReapIdleStep ==
  ASSUME IInv, At("reap"), eng' = IdleEng, UNCHANGED <<failed, watchStop>>,
         UNCHANGED <<kernelVars, engine, transfers, pendingCount, watcher, xferVars, cliVars>>
  PROVE  IInv'
<1>1. TypeOK'
  BY SMTT(60) DEF IInv, TypeOK, Engines, Callers, Statuses, At, IdleEng, kernelVars, engineVars, xferVars,
         cliVars
<1>2. (PendingExact /\ KernelOwned /\ DoneMeansSettled /\ QuietInterface /\ EngineShape /\ TransferShape /\ CallShape /\ CloseProgress)'
  <2>1. PendingExact' BY SMTT(60) DEF IInv, PendingExact, At, IdleEng, kernelVars, engineVars, xferVars, cliVars
  <2>2. KernelOwned' BY SMTT(60) DEF IInv, KernelOwned, Completing, At, IdleEng, kernelVars, engineVars,
          xferVars, cliVars
  <2>3. DoneMeansSettled' BY SMTT(60) DEF IInv, DoneMeansSettled, At, IdleEng, kernelVars, engineVars,
          xferVars, cliVars
  <2>4. QuietInterface' BY SMTT(60) DEF IInv, QuietInterface, At, IdleEng, kernelVars, engineVars, xferVars,
          cliVars
  <2>5. EngineShape' BY SMTT(60) DEF IInv, EngineShape, At, IdleEng, kernelVars, engineVars, xferVars, cliVars
  <2>6. TransferShape' BY SMTT(60) DEF IInv, TransferShape, Ended, At, IdleEng, kernelVars, engineVars,
          xferVars, cliVars
  <2>7. CallShape' BY SMTT(60) DEF IInv, CallShape, At, IdleEng, kernelVars, engineVars, xferVars, cliVars
  <2>8. CloseProgress' BY SMTT(60) DEF IInv, CloseProgress, At, IdleEng, kernelVars, engineVars, xferVars,
          cliVars
  <2> QED BY <2>1, <2>2, <2>3, <2>4, <2>5, <2>6, <2>7, <2>8
<1>3. WatcherLife'
  BY DEF IInv, WatcherLife, TypeOK, Engines, Callers, Statuses, EngineShape, TransferShape,
         CallShape, Ended, At, IdleEng, kernelVars, engineVars, xferVars, cliVars
<1> QED BY SMTT(60), <1>1, <1>2, <1>3 DEF IInv

\* Discard keeps the invariant.
LEMMA DiscardStep ==
  ASSUME IInv, Discard
  PROVE  IInv'
<1>a. PICK x \in eng.todo :
        /\ \/ status' = [status EXCEPT ![x] = IF @ = "queued" /\ ~gone THEN "discarded" ELSE @]
           \/ UNCHANGED status
        /\ \/ eng' = [eng EXCEPT !.todo = @ \ {x}]
           \/ eng' = [eng EXCEPT !.todo = @ \ {x}, !.err = "error"]
  BY ZenonT(60) DEF Discard
<1>b. /\ At("discard")
      /\ UNCHANGED <<kernel, gone, calm, engine, transfers, pendingCount, failed, watchStop, watcher, xferVars, cliVars>>
  BY DEF Discard
<1>c. /\ eng' \in Engines /\ eng'.todo = eng.todo \ {x}
      /\ eng'.pc = eng.pc /\ eng'.op = eng.op /\ eng'.ep = eng.ep /\ eng'.eps = eng.eps /\ eng'.closeErr = eng.closeErr
  <2>1. eng \in Engines /\ eng.todo \ {x} \in SUBSET Xfers BY DEF IInv, TypeOK, Engines
  <2>2. CASE eng' = [eng EXCEPT !.todo = @ \ {x}] BY <2>1, <2>2 DEF Engines
  <2>3. CASE eng' = [eng EXCEPT !.todo = @ \ {x}, !.err = "error"] BY ZenonT(60), <2>1, <2>3 DEF Engines
  <2> QED BY SMTT(60), <1>a, <2>2, <2>3
<1>d. /\ \A y \in Xfers : status'[y] = status[y] \/ (status[y] = "queued" /\ status'[y] = "discarded")
      /\ status' \in [Xfers -> Statuses]
  BY <1>a DEF IInv, TypeOK, Statuses

<1>1. (TypeOK /\ PendingExact /\ KernelOwned /\ QuietInterface /\ WatcherLife /\ EngineShape /\ CallShape /\ CloseProgress)'
  <2>1. TypeOK' BY SMTT(60), <1>b, <1>c, <1>d DEF IInv, TypeOK, At, kernelVars, engineVars, xferVars, cliVars
  <2>2. PendingExact' BY SMTT(60), <1>b, <1>c, <1>d DEF IInv, TypeOK, PendingExact, At, kernelVars, engineVars,
          xferVars, cliVars
  <2>3. KernelOwned' BY SMTT(60), <1>b, <1>c, <1>d DEF IInv, TypeOK, KernelOwned, Completing, At, kernelVars,
          engineVars, xferVars, cliVars
  <2>4. QuietInterface' BY SMTT(60), <1>b, <1>c, <1>d DEF IInv, TypeOK, QuietInterface, At, kernelVars,
          engineVars, xferVars, cliVars
  <2>5. WatcherLife' BY SMTT(60), <1>b, <1>c, <1>d DEF IInv, TypeOK, WatcherLife, At, kernelVars, engineVars,
          xferVars, cliVars
  <2>6. EngineShape' BY SMTT(60), <1>b, <1>c, <1>d DEF IInv, TypeOK, EngineShape, At, kernelVars, engineVars,
          xferVars, cliVars
  <2>7. CallShape' BY SMTT(60), <1>b, <1>c, <1>d DEF IInv, TypeOK, CallShape, At, kernelVars, engineVars,
          xferVars, cliVars
  <2>8. CloseProgress' BY SMTT(60), <1>b, <1>c, <1>d DEF IInv, TypeOK, CloseProgress, At, kernelVars,
          engineVars, xferVars, cliVars
  <2> QED BY <2>1, <2>2, <2>3, <2>4, <2>5, <2>6, <2>7, <2>8
<1>2. DoneMeansSettled'
  BY <1>b, <1>c, <1>d DEF IInv, DoneMeansSettled, TypeOK, Engines, Callers, Statuses, At,
         kernelVars, engineVars, xferVars, cliVars
<1>3. TransferShape'
  BY SMTT(60), <1>b, <1>c, <1>d DEF IInv, TransferShape, Ended, TypeOK, Engines, Callers, Statuses, At,
         kernelVars, engineVars, xferVars, cliVars
<1> QED BY SMTT(60), <1>1, <1>2, <1>3 DEF IInv

\* Entering the drain loop, or going round it, keeps the invariant.
LEMMA ToDrainStep ==
  ASSUME IInv, engine = "running", eng.pc \in {"discard", "drainWait"}, eng' = [eng EXCEPT !.pc = "drain"],
         watcher' \in {watcher, "poll"}, watcher' = "off" => watcher = "off",
         UNCHANGED <<kernelVars, engine, transfers, pendingCount, failed, watchStop, xferVars, cliVars>>
  PROVE  IInv'
<1>1. TypeOK'
  BY SMTT(60) DEF IInv, TypeOK, Engines, Callers, Statuses, kernelVars, engineVars, xferVars, cliVars
<1>2. (PendingExact /\ KernelOwned /\ DoneMeansSettled /\ QuietInterface /\ WatcherLife /\ EngineShape /\ TransferShape /\ CallShape /\ CloseProgress)'
  BY SMTT(60) DEF IInv, PendingExact, KernelOwned, Completing, DoneMeansSettled, QuietInterface,
         WatcherLife, EngineShape, TransferShape, Ended, CallShape, CloseProgress, kernelVars,
         engineVars, xferVars, cliVars
<1> QED BY <1>1, <1>2 DEF IInv

\* The drain loop waiting for the watcher keeps the invariant.
LEMMA ToDrainWaitStep ==
  ASSUME IInv, engine = "running", eng.pc = "drain", eng' = [eng EXCEPT !.pc = "drainWait"],
         UNCHANGED <<kernelVars, engine, transfers, pendingCount, failed, watchStop, watcher, xferVars, cliVars>>
  PROVE  IInv'
<1>1. TypeOK'
  BY SMTT(60) DEF IInv, TypeOK, Engines, Callers, Statuses, kernelVars, engineVars, xferVars, cliVars
<1>2. (PendingExact /\ KernelOwned /\ DoneMeansSettled /\ QuietInterface /\ WatcherLife /\ EngineShape /\ TransferShape /\ CallShape /\ CloseProgress)'
  BY SMTT(60) DEF IInv, PendingExact, KernelOwned, Completing, DoneMeansSettled, QuietInterface,
         WatcherLife, EngineShape, TransferShape, Ended, CallShape, CloseProgress, kernelVars,
         engineVars, xferVars, cliVars
<1> QED BY <1>1, <1>2 DEF IInv

\* closeTransfers taking the next endpoint keeps the invariant.
LEMMA NextEndpointStep ==
  ASSUME IInv, NEW ep \in eng.eps, At("close"),
         eng' = [eng EXCEPT !.pc = "discard", !.ep = ep, !.eps = @ \ {ep}, !.todo = On(ep), !.err = "ok"],
         UNCHANGED <<watchStop, cliVars>>,
         UNCHANGED <<kernelVars, engine, transfers, pendingCount, failed, watcher, xferVars>>
  PROVE  IInv'
<1>a. eng \in Engines /\ ep \in Endpoints /\ eng.eps \ {ep} \in SUBSET Endpoints
      /\ On(ep) \in SUBSET Xfers /\ On(ep) \subseteq transfers
  BY DEF IInv, TypeOK, Engines, On
<1>b. /\ eng' \in Engines /\ eng'.pc = "discard" /\ eng'.op = eng.op /\ eng'.ep = ep /\ eng'.todo = On(ep)
      /\ eng'.eps = eng.eps \ {ep} /\ eng'.closeErr = eng.closeErr
  BY ZenonT(60), <1>a DEF Engines
<1>c. /\ engine = "running" /\ eng.pc = "close"
      /\ UNCHANGED <<watchStop, cliVars, kernelVars, engine, transfers, pendingCount, failed, watcher, xferVars>>
  BY DEF At

<1>1. (TypeOK /\ PendingExact /\ KernelOwned /\ DoneMeansSettled /\ QuietInterface /\ WatcherLife /\ EngineShape /\ TransferShape /\ CallShape /\ CloseProgress)'
  BY <1>a, <1>b, <1>c, SMTT(60) DEF IInv, TypeOK, PendingExact, KernelOwned, Completing,
         DoneMeansSettled, QuietInterface, WatcherLife, EngineShape, TransferShape, Ended,
         CallShape, CloseProgress, At, kernelVars, engineVars, xferVars, cliVars
<1> QED BY <1>1 DEF IInv

\* A close that leaves transfers behind keeps the invariant: it reports an error.
LEMMA CloseRepliesStep ==
  ASSUME IInv, At("close"), eng.eps = {}, transfers # {}, eng' = IdleEng, Reply(eng.closeErr), UNCHANGED watchStop,
         UNCHANGED <<kernelVars, engine, transfers, pendingCount, failed, watcher, xferVars>>
  PROVE  IInv'
<1>1. TypeOK'
  BY DEF IInv, TypeOK, Engines, Callers, Statuses, At, Reply, IdleEng, kernelVars, engineVars,
         xferVars, cliVars
<1>2. (PendingExact /\ KernelOwned /\ DoneMeansSettled /\ QuietInterface /\ EngineShape /\ TransferShape /\ CloseProgress)'
  <2>1. PendingExact' BY SMTT(60) DEF IInv, PendingExact, At, Reply, IdleEng, kernelVars, engineVars, xferVars,
          cliVars
  <2>2. KernelOwned' BY SMTT(60) DEF IInv, KernelOwned, Completing, At, Reply, IdleEng, kernelVars, engineVars,
          xferVars, cliVars
  <2>3. DoneMeansSettled' BY SMTT(60) DEF IInv, DoneMeansSettled, At, Reply, IdleEng, kernelVars, engineVars,
          xferVars, cliVars
  <2>4. QuietInterface' BY SMTT(60) DEF IInv, QuietInterface, At, Reply, IdleEng, kernelVars, engineVars,
          xferVars, cliVars
  <2>5. EngineShape' BY SMTT(60) DEF IInv, EngineShape, At, Reply, IdleEng, kernelVars, engineVars, xferVars,
          cliVars
  <2>6. TransferShape' BY SMTT(60) DEF IInv, TransferShape, Ended, At, Reply, IdleEng, kernelVars, engineVars,
          xferVars, cliVars
  <2>7. CloseProgress' BY SMTT(60) DEF IInv, CloseProgress, At, Reply, IdleEng, kernelVars, engineVars,
          xferVars, cliVars
  <2> QED BY <2>1, <2>2, <2>3, <2>4, <2>5, <2>6, <2>7
<1>3. WatcherLife'
  BY SMTT(60) DEF IInv, WatcherLife, TypeOK, Engines, Callers, Statuses, EngineShape, TransferShape,
         CallShape, Ended, At, Reply, IdleEng, kernelVars, engineVars, xferVars, cliVars
<1>4. CallShape'
  BY XfersAssumption, EndpointsAssumption, SMTT(60) DEF IInv, TypeOK, Engines, Callers, Statuses,
         PendingExact, KernelOwned, Completing, DoneMeansSettled, QuietInterface, WatcherLife,
         EngineShape, TransferShape, CallShape, CloseProgress, Ended, At, Reply, IdleEng,
         kernelVars, engineVars, xferVars, cliVars
<1> QED BY <1>1, <1>2, <1>3, <1>4 DEF IInv

\* A close that leaves nothing stops the watcher and keeps the invariant.
LEMMA ExitStep ==
  ASSUME IInv, At("close"), eng.eps = {}, transfers = {},
         eng' = [eng EXCEPT !.pc = "stop", !.op = "exit"], watchStop' = TRUE,
         UNCHANGED <<kernelVars, engine, transfers, pendingCount, failed, watcher, xferVars, cliVars>>
  PROVE  IInv'
<1>a. eng' \in Engines /\ eng'.pc = "stop" /\ eng.pc = "close" BY ZenonT(60) DEF IInv, TypeOK, Engines, At
<1>1. TypeOK'
  BY <1>a DEF IInv, TypeOK, kernelVars, engineVars, xferVars, cliVars
<1>2. PendingExact'
  BY <1>a DEF IInv, PendingExact
<1>3. (KernelOwned /\ DoneMeansSettled /\ QuietInterface /\ WatcherLife /\ EngineShape /\ TransferShape /\ CloseProgress)'
  BY SMTT(60) DEF IInv, KernelOwned, Completing, DoneMeansSettled, QuietInterface, WatcherLife,
         EngineShape, TransferShape, Ended, CloseProgress, At, kernelVars, engineVars, xferVars,
         cliVars
<1>4. CallShape'
  BY DEF IInv, CallShape, TypeOK, Engines, Callers, Statuses, EngineShape, TransferShape, Ended, At,
         kernelVars, engineVars, xferVars, cliVars
<1> QED BY SMTT(60), <1>1, <1>2, <1>3, <1>4 DEF IInv

\* The engine closing after its watcher has ended keeps the invariant.
LEMMA ExitedStep ==
  ASSUME IInv, At("stop"), watcher = "off", eng.op = "exit", engine' = "closed", eng' = IdleEng,
         NEW r \in {"ok", "error"}, Reply(r),
         UNCHANGED <<kernelVars, transfers, pendingCount, failed, watchStop, watcher, xferVars>>
  PROVE  IInv'
<1>1. TypeOK'
  BY DEF IInv, TypeOK, Engines, Callers, Statuses, At, Reply, IdleEng, kernelVars, engineVars,
         xferVars, cliVars
<1>2. (PendingExact /\ DoneMeansSettled /\ QuietInterface /\ WatcherLife /\ EngineShape /\ TransferShape /\ CallShape /\ CloseProgress)'
  <2>1. PendingExact' BY SMTT(60) DEF IInv, PendingExact, At, Reply, IdleEng, kernelVars, engineVars, xferVars,
          cliVars
  <2>2. DoneMeansSettled' BY SMTT(60) DEF IInv, DoneMeansSettled, At, Reply, IdleEng, kernelVars, engineVars,
          xferVars, cliVars
  <2>3. QuietInterface' BY SMTT(60) DEF IInv, QuietInterface, At, Reply, IdleEng, kernelVars, engineVars,
          xferVars, cliVars
  <2>4. WatcherLife' BY SMTT(60) DEF IInv, WatcherLife, At, Reply, IdleEng, kernelVars, engineVars, xferVars,
          cliVars
  <2>5. EngineShape' BY SMTT(60) DEF IInv, EngineShape, At, Reply, IdleEng, kernelVars, engineVars, xferVars,
          cliVars
  <2>6. TransferShape' BY SMTT(60) DEF IInv, TransferShape, Ended, At, Reply, IdleEng, kernelVars, engineVars,
          xferVars, cliVars
  <2>7. CallShape' BY SMTT(60) DEF IInv, CallShape, At, Reply, IdleEng, kernelVars, engineVars, xferVars,
          cliVars
  <2>8. CloseProgress' BY SMTT(60) DEF IInv, CloseProgress, At, Reply, IdleEng, kernelVars, engineVars,
          xferVars, cliVars
  <2> QED BY <2>1, <2>2, <2>3, <2>4, <2>5, <2>6, <2>7, <2>8
<1>3. KernelOwned'
  BY DEF IInv, KernelOwned, Completing, TypeOK, Engines, Callers, Statuses, EngineShape,
         TransferShape, CallShape, Ended, At, Reply, IdleEng, kernelVars, engineVars, xferVars,
         cliVars
<1> QED BY <1>1, <1>2, <1>3 DEF IInv

\* The engine back in its select after a failure keeps the invariant.
LEMMA StoppedStep ==
  ASSUME IInv, At("stop"), watcher = "off", eng.op = "none", eng' = IdleEng,
         UNCHANGED <<engine, cliVars, kernelVars, transfers, pendingCount, failed, watchStop, watcher, xferVars>>
  PROVE  IInv'
<1>1. TypeOK'
  BY SMTT(60) DEF IInv, TypeOK, Engines, Callers, Statuses, At, Reply, IdleEng, kernelVars, engineVars,
         xferVars, cliVars
<1>2. (PendingExact /\ KernelOwned /\ DoneMeansSettled /\ QuietInterface /\ WatcherLife /\ EngineShape /\ TransferShape /\ CallShape /\ CloseProgress)'
  <2>1. PendingExact' BY SMTT(60) DEF IInv, PendingExact, At, Reply, IdleEng, kernelVars, engineVars, xferVars,
          cliVars
  <2>2. KernelOwned' BY SMTT(60) DEF IInv, KernelOwned, Completing, At, Reply, IdleEng, kernelVars, engineVars,
          xferVars, cliVars
  <2>3. DoneMeansSettled' BY SMTT(60) DEF IInv, DoneMeansSettled, At, Reply, IdleEng, kernelVars, engineVars,
          xferVars, cliVars
  <2>4. QuietInterface' BY SMTT(60) DEF IInv, QuietInterface, At, Reply, IdleEng, kernelVars, engineVars,
          xferVars, cliVars
  <2>5. WatcherLife' BY SMTT(60) DEF IInv, WatcherLife, At, Reply, IdleEng, kernelVars, engineVars, xferVars,
          cliVars
  <2>6. EngineShape' BY SMTT(60) DEF IInv, EngineShape, At, Reply, IdleEng, kernelVars, engineVars, xferVars,
          cliVars
  <2>7. TransferShape' BY SMTT(60) DEF IInv, TransferShape, Ended, At, Reply, IdleEng, kernelVars, engineVars,
          xferVars, cliVars
  <2>8. CallShape' BY SMTT(60) DEF IInv, CallShape, At, Reply, IdleEng, kernelVars, engineVars, xferVars,
          cliVars
  <2>9. CloseProgress' BY SMTT(60) DEF IInv, CloseProgress, EngineShape, At, Reply, IdleEng, kernelVars,
          engineVars, xferVars, cliVars
  <2> QED BY <2>1, <2>2, <2>3, <2>4, <2>5, <2>6, <2>7, <2>8, <2>9
<1> QED BY SMTT(60), <1>1, <1>2 DEF IInv

\* CallSubmit keeps the invariant.
LEMMA CallSubmitStep ==
  ASSUME IInv, NEW x \in Xfers, CallSubmit(x)
  PROVE  IInv'
<1>a. cli' \in Callers BY ZenonT(60) DEF IInv, TypeOK, Callers, CallSubmit, IdleCli
<1>b. eng' \in Engines
  <2>1. IdleEng \in Engines BY DEF IdleEng, Engines
  <2> QED BY <2>1 DEF IInv, TypeOK, CallSubmit
<1>1. TypeOK'
  BY ZenonT(60), <1>a, <1>b DEF IInv, TypeOK, CallSubmit, kernelVars, engineVars, xferVars, cliVars
<1>2. PendingExact'
  BY DEF IInv, PendingExact, TypeOK, Engines, Callers, Statuses, EngineShape, TransferShape,
         CallShape, Ended, CallSubmit, IdleEng, IdleCli, kernelVars, engineVars, xferVars, cliVars
<1>3. (KernelOwned /\ DoneMeansSettled /\ QuietInterface /\ WatcherLife /\ EngineShape /\ TransferShape /\ CallShape /\ CloseProgress)'
  BY SMTT(60) DEF IInv, KernelOwned, Completing, DoneMeansSettled, QuietInterface, WatcherLife,
         EngineShape, TransferShape, Ended, CallShape, CloseProgress, CallSubmit, IdleEng, IdleCli,
         kernelVars, engineVars, xferVars, cliVars
<1> QED BY SMTT(60), <1>1, <1>2, <1>3 DEF IInv

\* AbandonSubmit keeps the invariant.
LEMMA AbandonSubmitStep ==
  ASSUME IInv, AbandonSubmit
  PROVE  IInv'
<1>1. TypeOK'
  BY SMTT(60) DEF IInv, TypeOK, Engines, Callers, Statuses, AbandonSubmit, Goto, IdleCli, kernelVars,
         engineVars, xferVars, cliVars
<1>2. (PendingExact /\ KernelOwned /\ DoneMeansSettled /\ QuietInterface /\ WatcherLife /\ EngineShape /\ TransferShape /\ CallShape /\ CloseProgress)'
  BY SMTT(60) DEF IInv, PendingExact, KernelOwned, Completing, DoneMeansSettled, QuietInterface,
         WatcherLife, EngineShape, TransferShape, Ended, CallShape, CloseProgress, AbandonSubmit,
         Goto, IdleCli, kernelVars, engineVars, xferVars, cliVars
<1> QED BY <1>1, <1>2 DEF IInv

\* CallAbort keeps the invariant.
LEMMA CallAbortStep ==
  ASSUME IInv, NEW ep \in Endpoints, CallAbort(ep)
  PROVE  IInv'
<1>a. cli' \in Callers BY ZenonT(60) DEF IInv, TypeOK, Callers, CallAbort, IdleCli
<1>1. TypeOK'
  BY <1>a DEF IInv, TypeOK, CallAbort, kernelVars, engineVars, xferVars, cliVars
<1>2. (PendingExact /\ KernelOwned /\ DoneMeansSettled /\ QuietInterface /\ WatcherLife /\ EngineShape /\ TransferShape /\ CallShape /\ CloseProgress)'
  BY SMTT(60) DEF IInv, PendingExact, KernelOwned, Completing, DoneMeansSettled, QuietInterface,
         WatcherLife, EngineShape, TransferShape, Ended, CallShape, CloseProgress, CallAbort,
         IdleCli, kernelVars, engineVars, xferVars, cliVars
<1> QED BY <1>1, <1>2 DEF IInv

\* CallSetAlt keeps the invariant.
LEMMA CallSetAltStep ==
  ASSUME IInv, CallSetAlt
  PROVE  IInv'
<1>1. TypeOK'
  BY DEF IInv, TypeOK, Engines, Callers, Statuses, CallSetAlt, Goto, IdleCli, kernelVars,
         engineVars, xferVars, cliVars
<1>2. (PendingExact /\ KernelOwned /\ DoneMeansSettled /\ WatcherLife /\ EngineShape /\ TransferShape /\ CallShape /\ CloseProgress)'
  BY SMTT(60) DEF IInv, PendingExact, KernelOwned, Completing, DoneMeansSettled, WatcherLife,
         EngineShape, TransferShape, Ended, CallShape, CloseProgress, CallSetAlt, Goto, IdleCli,
         kernelVars, engineVars, xferVars, cliVars
<1>3. QuietInterface'
  BY XfersAssumption, EndpointsAssumption, SMTT(60) DEF IInv, TypeOK, Engines, Callers, Statuses,
         PendingExact, KernelOwned, Completing, DoneMeansSettled, QuietInterface, WatcherLife,
         EngineShape, TransferShape, CallShape, CloseProgress, Ended, CallSetAlt, Goto, IdleCli,
         kernelVars, engineVars, xferVars, cliVars
<1> QED BY <1>1, <1>2, <1>3 DEF IInv

\* CallClose keeps the invariant.
LEMMA CallCloseStep ==
  ASSUME IInv, CallClose
  PROVE  IInv'
<1>1. TypeOK'
  BY SMTT(60) DEF IInv, TypeOK, Engines, Callers, Statuses, CallClose, Goto, IdleCli, kernelVars, engineVars,
         xferVars, cliVars
<1>2. (PendingExact /\ KernelOwned /\ DoneMeansSettled /\ WatcherLife /\ EngineShape /\ TransferShape /\ CallShape /\ CloseProgress)'
  BY SMTT(60) DEF IInv, PendingExact, KernelOwned, Completing, DoneMeansSettled, WatcherLife,
         EngineShape, TransferShape, Ended, CallShape, CloseProgress, CallClose, Goto, IdleCli,
         kernelVars, engineVars, xferVars, cliVars
<1>3. QuietInterface'
  BY XfersAssumption, EndpointsAssumption, SMTT(60) DEF IInv, TypeOK, Engines, Callers, Statuses,
         PendingExact, KernelOwned, Completing, DoneMeansSettled, QuietInterface, WatcherLife,
         EngineShape, TransferShape, CallShape, CloseProgress, Ended, CallClose, Goto, IdleCli,
         kernelVars, engineVars, xferVars, cliVars
<1> QED BY <1>1, <1>2, <1>3 DEF IInv

\* EngineClosed keeps the invariant.
LEMMA EngineClosedStep ==
  ASSUME IInv, EngineClosed
  PROVE  IInv'
<1>1. TypeOK'
  BY SMTT(60) DEF IInv, TypeOK, Engines, Callers, Statuses, EngineClosed, Goto, IdleCli, kernelVars,
         engineVars, xferVars, cliVars
<1>2. (PendingExact /\ KernelOwned /\ DoneMeansSettled /\ WatcherLife /\ EngineShape /\ TransferShape /\ CallShape /\ CloseProgress)'
  <2>1. PendingExact' BY SMTT(60) DEF IInv, PendingExact, EngineClosed, Goto, IdleCli, kernelVars, engineVars,
          xferVars, cliVars
  <2>2. KernelOwned' BY SMTT(60) DEF IInv, KernelOwned, Completing, EngineClosed, Goto, IdleCli, kernelVars,
          engineVars, xferVars, cliVars
  <2>3. DoneMeansSettled' BY SMTT(60) DEF IInv, DoneMeansSettled, EngineClosed, Goto, IdleCli, kernelVars,
          engineVars, xferVars, cliVars
  <2>4. WatcherLife' BY SMTT(60) DEF IInv, WatcherLife, EngineClosed, Goto, IdleCli, kernelVars, engineVars,
          xferVars, cliVars
  <2>5. EngineShape' BY SMTT(60) DEF IInv, EngineShape, EngineClosed, Goto, IdleCli, kernelVars, engineVars,
          xferVars, cliVars
  <2>6. TransferShape' BY SMTT(60) DEF IInv, TransferShape, Ended, EngineClosed, Goto, IdleCli, kernelVars,
          engineVars, xferVars, cliVars
  <2>7. CallShape' BY SMTT(60) DEF IInv, CallShape, EngineClosed, Goto, IdleCli, kernelVars, engineVars,
          xferVars, cliVars
  <2>8. CloseProgress' BY SMTT(60) DEF IInv, CloseProgress, EngineClosed, Goto, IdleCli, kernelVars,
          engineVars, xferVars, cliVars
  <2> QED BY <2>1, <2>2, <2>3, <2>4, <2>5, <2>6, <2>7, <2>8
<1>3. QuietInterface'
  BY XfersAssumption, EndpointsAssumption, SMTT(60) DEF IInv, TypeOK, Engines, Callers, Statuses,
         PendingExact, KernelOwned, Completing, DoneMeansSettled, QuietInterface, WatcherLife,
         EngineShape, TransferShape, CallShape, CloseProgress, Ended, EngineClosed, Goto, IdleCli,
         kernelVars, engineVars, xferVars, cliVars
<1> QED BY <1>1, <1>2, <1>3 DEF IInv

\* Return keeps the invariant.
LEMMA ReturnStep ==
  ASSUME IInv, Return
  PROVE  IInv'
<1>1. TypeOK'
  BY SMTT(60) DEF IInv, TypeOK, Engines, Callers, Statuses, Return, Goto, IdleCli, kernelVars, engineVars,
         xferVars, cliVars
<1>2. (PendingExact /\ DoneMeansSettled /\ TransferShape /\ CallShape /\ CloseProgress)'
  BY SMTT(60) DEF IInv, PendingExact, DoneMeansSettled, TransferShape, Ended, CallShape,
         CloseProgress, Return, Goto, IdleCli, kernelVars, engineVars, xferVars, cliVars
<1>3. KernelOwned'
  BY SMTT(60) DEF IInv, KernelOwned, Completing, TypeOK, Engines, Callers, Statuses, EngineShape,
         TransferShape, CallShape, Ended, Return, Goto, IdleCli, kernelVars, engineVars, xferVars,
         cliVars
<1>4. QuietInterface'
  BY XfersAssumption, EndpointsAssumption, SMTT(60) DEF IInv, TypeOK, Engines, Callers, Statuses,
         PendingExact, KernelOwned, Completing, DoneMeansSettled, QuietInterface, WatcherLife,
         EngineShape, TransferShape, CallShape, CloseProgress, Ended, Return, Goto, IdleCli,
         kernelVars, engineVars, xferVars, cliVars
<1>5. WatcherLife'
  BY SMTT(60) DEF IInv, WatcherLife, TypeOK, Engines, Callers, Statuses, EngineShape, TransferShape,
         CallShape, Ended, Return, Goto, IdleCli, kernelVars, engineVars, xferVars, cliVars
<1>6. EngineShape'
  BY SMTT(60) DEF IInv, EngineShape, TypeOK, Engines, Callers, Statuses, TransferShape, CallShape, Ended,
         Return, Goto, IdleCli, kernelVars, engineVars, xferVars, cliVars
<1> QED BY SMTT(60), <1>1, <1>2, <1>3, <1>4, <1>5, <1>6 DEF IInv

\* SetAltIoctl keeps the invariant.
LEMMA SetAltIoctlStep ==
  ASSUME IInv, SetAltIoctl
  PROVE  IInv'
<1>1. TypeOK'
  BY SMTT(60) DEF IInv, TypeOK, Engines, Callers, Statuses, SetAltIoctl, Goto, IdleCli, kernelVars,
         engineVars, xferVars, cliVars
<1>2. (PendingExact /\ KernelOwned /\ DoneMeansSettled /\ QuietInterface /\ WatcherLife /\ EngineShape /\ TransferShape /\ CallShape /\ CloseProgress)'
  <2>1. PendingExact' BY SMTT(60) DEF IInv, PendingExact, SetAltIoctl, Goto, IdleCli, kernelVars, engineVars,
          xferVars, cliVars
  <2>2. KernelOwned' BY SMTT(60) DEF IInv, KernelOwned, Completing, SetAltIoctl, Goto, IdleCli, kernelVars,
          engineVars, xferVars, cliVars
  <2>3. DoneMeansSettled' BY SMTT(60) DEF IInv, DoneMeansSettled, SetAltIoctl, Goto, IdleCli, kernelVars,
          engineVars, xferVars, cliVars
  <2>4. QuietInterface' BY SMTT(60) DEF IInv, QuietInterface, SetAltIoctl, Goto, IdleCli, kernelVars,
          engineVars, xferVars, cliVars
  <2>5. WatcherLife' BY SMTT(60) DEF IInv, WatcherLife, SetAltIoctl, Goto, IdleCli, kernelVars, engineVars,
          xferVars, cliVars
  <2>6. EngineShape' BY SMTT(60) DEF IInv, EngineShape, SetAltIoctl, Goto, IdleCli, kernelVars, engineVars,
          xferVars, cliVars
  <2>7. TransferShape' BY SMTT(60) DEF IInv, TransferShape, Ended, SetAltIoctl, Goto, IdleCli, kernelVars,
          engineVars, xferVars, cliVars
  <2>8. CallShape' BY SMTT(60) DEF IInv, CallShape, SetAltIoctl, Goto, IdleCli, kernelVars, engineVars,
          xferVars, cliVars
  <2>9. CloseProgress' BY SMTT(60) DEF IInv, CloseProgress, SetAltIoctl, Goto, IdleCli, kernelVars, engineVars,
          xferVars, cliVars
  <2> QED BY <2>1, <2>2, <2>3, <2>4, <2>5, <2>6, <2>7, <2>8, <2>9
<1> QED BY <1>1, <1>2 DEF IInv

\* ReleaseIoctl keeps the invariant.
LEMMA ReleaseIoctlStep ==
  ASSUME IInv, ReleaseIoctl
  PROVE  IInv'
<1>a. cli' \in Callers BY SMTT(60) DEF IInv, TypeOK, Callers, ReleaseIoctl, Goto, IdleCli
<1>1. TypeOK'
  BY ZenonT(60), <1>a DEF IInv, TypeOK, ReleaseIoctl, kernelVars, engineVars, xferVars, cliVars
<1>2. (PendingExact /\ KernelOwned /\ DoneMeansSettled /\ QuietInterface /\ WatcherLife /\ EngineShape /\ TransferShape /\ CallShape /\ CloseProgress)'
  BY SMTT(60) DEF IInv, PendingExact, KernelOwned, Completing, DoneMeansSettled, QuietInterface,
         WatcherLife, EngineShape, TransferShape, Ended, CallShape, CloseProgress, ReleaseIoctl,
         Goto, IdleCli, kernelVars, engineVars, xferVars, cliVars
<1> QED BY <1>1, <1>2 DEF IInv

\* Wait keeps the invariant.
LEMMA WaitStep ==
  ASSUME IInv, NEW x \in Awaited, Wait(x)
  PROVE  IInv'
<1>1. (TypeOK /\ PendingExact /\ KernelOwned /\ QuietInterface /\ WatcherLife /\ EngineShape /\ TransferShape /\ CallShape /\ CloseProgress)'
  <2>1. TypeOK' BY SMTT(60) DEF IInv, TypeOK, Wait, kernelVars, engineVars, xferVars, cliVars
  <2>2. PendingExact' BY SMTT(60) DEF IInv, TypeOK, PendingExact, Wait, kernelVars, engineVars, xferVars,
          cliVars
  <2>3. KernelOwned' BY SMTT(60) DEF IInv, TypeOK, KernelOwned, Completing, Wait, kernelVars, engineVars,
          xferVars, cliVars
  <2>4. QuietInterface' BY SMTT(60) DEF IInv, TypeOK, QuietInterface, Wait, kernelVars, engineVars, xferVars,
          cliVars
  <2>5. WatcherLife' BY SMTT(60) DEF IInv, TypeOK, WatcherLife, Wait, kernelVars, engineVars, xferVars, cliVars
  <2>6. EngineShape' BY SMTT(60) DEF IInv, TypeOK, EngineShape, Wait, kernelVars, engineVars, xferVars, cliVars
  <2>7. TransferShape' BY SMTT(60) DEF IInv, TypeOK, TransferShape, Ended, Wait, kernelVars, engineVars,
          xferVars, cliVars
  <2>8. CallShape' BY SMTT(60) DEF IInv, TypeOK, CallShape, Wait, kernelVars, engineVars, xferVars, cliVars
  <2>9. CloseProgress' BY SMTT(60) DEF IInv, TypeOK, CloseProgress, Wait, kernelVars, engineVars, xferVars,
          cliVars
  <2> QED BY <2>1, <2>2, <2>3, <2>4, <2>5, <2>6, <2>7, <2>8, <2>9
<1>2. DoneMeansSettled'
  BY DEF IInv, DoneMeansSettled, TypeOK, Engines, Callers, Statuses, Wait, kernelVars, engineVars,
         xferVars, cliVars
<1> QED BY <1>1, <1>2 DEF IInv

\* Every step of the engine goroutine keeps the invariant.
LEMMA EngineIInv == ASSUME IInv, EngineStep PROVE IInv'
<1>1. CASE ReceiveCompletion BY <1>1, ReceiveCompletionStep
<1>2. CASE ReceiveSubmission BY SMTT(60), <1>2, ReceiveSubmissionStep
<1>3. CASE ReceiveAbort BY <1>3, ReceiveAbortStep
<1>4. CASE ReceiveClose BY <1>4, ReceiveCloseStep
<1>5. CASE ReapOne BY <1>5, ReapOneStep
<1>6. CASE StoreResult BY <1>6, StoreResultStep
<1>7. CASE Uncount BY <1>7, UncountStep
<1>8. CASE Announce BY <1>8, AnnounceStep
<1>9. CASE ReapDone
  <2>1. CASE eng' = IdleEng /\ UNCHANGED <<failed, watchStop>> BY SMTT(60), <1>9, <2>1, ReapIdleStep DEF ReapDone
  <2>2. CASE Fail(eng) BY SMTT(60), <1>9, <2>2, FailStep DEF ReapDone, At
  <2> QED BY SMTT(60), <1>9, <2>1, <2>2 DEF ReapDone
<1>10. CASE Discard BY <1>10, DiscardStep
<1>11. CASE DiscardDone
  <2>1. CASE EndAbort("error")
    <3>1. eng.op \in {"abort", "close"} BY <2>1 DEF EndAbort
    <3> QED BY SMTT(60), <1>11, <2>1, <3>1, AbortEndsStep, CloseGoesOnStep DEF DiscardDone, At
  <2>2. CASE eng' = [eng EXCEPT !.pc = "drain"] /\ UNCHANGED cliVars BY SMTT(60), <1>11, <2>2, ToDrainStep DEF DiscardDone, At
  <2> QED BY SMTT(60), <1>11, <2>1, <2>2 DEF DiscardDone
<1>12. CASE DrainDone
  <2>1. EndAbort("ok") /\ eng.op \in {"abort", "close"} BY <1>12 DEF DrainDone, EndAbort
  <2> QED BY SMTT(60), <1>12, <2>1, AbortEndsStep, CloseGoesOnStep DEF DrainDone, At
<1>13. CASE DrainNone
  <2>1. CASE EndAbort("error")
    <3>1. eng.op \in {"abort", "close"} BY <2>1 DEF EndAbort
    <3> QED BY SMTT(60), <1>13, <2>1, <3>1, AbortEndsStep, CloseGoesOnStep DEF DrainNone, At
  <2>2. CASE eng' = [eng EXCEPT !.pc = "drainWait"] /\ UNCHANGED cliVars
    BY SMTT(60), <1>13, <2>2, ToDrainWaitStep DEF DrainNone, At
  <2> QED BY <1>13, <2>1, <2>2 DEF DrainNone
<1>14. CASE DrainError BY <1>14, FailStep DEF DrainError, At
<1>15. CASE DrainWait
  <2>1. CASE EndAbort("error") /\ UNCHANGED <<watcher, failed, watchStop>>
    <3>1. eng.op \in {"abort", "close"} BY <2>1 DEF EndAbort
    <3> QED BY SMTT(60), <1>15, <2>1, <3>1, AbortEndsStep, CloseGoesOnStep DEF DrainWait, At
  <2>2. CASE Fail(eng) /\ watcher' = "poll" /\ UNCHANGED cliVars BY <1>15, <2>2, FailStep DEF DrainWait, At
  <2>3. CASE /\ eng' = [eng EXCEPT !.pc = "drain"] /\ UNCHANGED <<failed, watchStop>>
             /\ watcher' = "poll" /\ UNCHANGED cliVars
    BY SMTT(60), <1>15, <2>3, ToDrainStep DEF DrainWait, At
  <2> QED BY SMTT(60), <1>15, <2>1, <2>2, <2>3 DEF DrainWait
<1>16. CASE CloseNext
  <2>1. CASE \E ep \in eng.eps :
          /\ eng' = [eng EXCEPT !.pc = "discard", !.ep = ep, !.eps = @ \ {ep}, !.todo = On(ep), !.err = "ok"]
          /\ UNCHANGED <<watchStop, cliVars>>
    BY ZenonT(60), <1>16, <2>1, NextEndpointStep DEF CloseNext
  <2>2. CASE eng.eps = {} /\ transfers # {} /\ eng' = IdleEng /\ Reply(eng.closeErr) /\ UNCHANGED watchStop
    BY <1>16, <2>2, CloseRepliesStep DEF CloseNext
  <2>3. CASE /\ eng.eps = {} /\ transfers = {} /\ eng' = [eng EXCEPT !.pc = "stop", !.op = "exit"]
             /\ watchStop' = TRUE /\ UNCHANGED cliVars
    BY SMTT(60), <1>16, <2>3, ExitStep DEF CloseNext
  <2> QED BY ZenonT(60), <1>16, <2>1, <2>2, <2>3 DEF CloseNext
<1>17. CASE WatcherStopped
  <2>1. CASE eng.op = "none" BY <1>17, <2>1, StoppedStep DEF WatcherStopped
  <2>2. CASE eng.op \in {"abort", "close"}
    BY ZenonT(60), <1>17, <2>2, AbortEndsStep, CloseGoesOnStep DEF WatcherStopped, At
  <2>3. CASE eng.op = "exit"
    <3>1. eng.closeErr \in {"ok", "error"} BY DEF IInv, TypeOK, Engines
    <3>2. PICK r \in {"ok", "error"} : Reply(r) BY <1>17, <2>3, <3>1 DEF WatcherStopped
    <3> QED BY <1>17, <2>3, <3>2, ExitedStep DEF WatcherStopped
  <2> QED BY SMTT(60), <2>1, <2>2, <2>3 DEF IInv, TypeOK, Engines
<1> QED
  BY SMTT(60), <1>1, <1>2, <1>3, <1>4, <1>5, <1>6, <1>7, <1>8, <1>9, <1>10, <1>11, <1>12, <1>13, <1>14, <1>15, <1>16, <1>17
  DEF EngineStep

\* Every step of the system keeps the invariant.
LEMMA NextIInv == IInv /\ [Next]_vars => IInv'
<1> SUFFICES ASSUME IInv, [Next]_vars PROVE IInv' OBVIOUS
<1>1. ASSUME NEW x \in Xfers, Complete(x) PROVE IInv' BY <1>1, CompleteStep
<1>2. ASSUME NEW x \in Xfers, CallSubmit(x) PROVE IInv' BY <1>2, CallSubmitStep
<1>3. ASSUME NEW x \in Awaited, Wait(x) PROVE IInv' BY <1>3, WaitStep
<1>4. ASSUME NEW ep \in Endpoints, CallAbort(ep) PROVE IInv' BY <1>4, CallAbortStep
<1>5. CASE Disconnect \/ CalmDown BY <1>5, DisconnectStep, CalmDownStep
<1>6. CASE WatcherStep BY <1>6, PollStep, StopSendingStep DEF WatcherStep
<1>7. CASE EngineStep BY <1>7, EngineIInv
<1>8. CASE CallerStep
  BY SMTT(60), <1>8, AbandonSubmitStep, EngineClosedStep, ReturnStep, SetAltIoctlStep, ReleaseIoctlStep DEF CallerStep
<1>9. CASE CallSetAlt \/ CallClose BY <1>9, CallSetAltStep, CallCloseStep
<1>10. CASE UNCHANGED vars
  <2> USE <1>10 DEF IInv, vars, kernelVars, engineVars, xferVars, cliVars
  <2>1. TypeOK' BY SMTT(60) DEF TypeOK
  <2>2. PendingExact' BY SMTT(60) DEF PendingExact
  <2>3. KernelOwned' BY SMTT(60) DEF KernelOwned, Completing
  <2>4. DoneMeansSettled' BY SMTT(60) DEF DoneMeansSettled
  <2>5. QuietInterface' BY SMTT(60) DEF QuietInterface
  <2>6. WatcherLife' BY SMTT(60) DEF WatcherLife
  <2>7. EngineShape' BY SMTT(60) DEF EngineShape
  <2>8. TransferShape' BY SMTT(60) DEF TransferShape, Ended
  <2>9. CallShape' BY SMTT(60) DEF CallShape
  <2>10. CloseProgress' BY SMTT(60) DEF CloseProgress
  <2> QED BY SMTT(60), <2>1, <2>2, <2>3, <2>4, <2>5, <2>6, <2>7, <2>8, <2>9, <2>10
<1> QED BY <1>1, <1>2, <1>3, <1>4, <1>5, <1>6, <1>7, <1>8, <1>9, <1>10 DEF Next

\* A fresh claim, without an engine, satisfies the invariant.
LEMMA InitIInv == Init => IInv
<1> SUFFICES ASSUME Init PROVE IInv OBVIOUS
<1>1. IdleEng \in Engines /\ IdleCli \in Callers BY ZenonT(60) DEF IdleEng, Engines, IdleCli, Callers
<1>2. TypeOK BY ZenonT(60), <1>1 DEF Init, TypeOK, Statuses
<1>3. PendingExact BY FS_EmptySet DEF Init, PendingExact, IdleEng
<1>4. KernelOwned /\ DoneMeansSettled /\ QuietInterface /\ WatcherLife
  BY SMTT(60) DEF Init, KernelOwned, Completing, DoneMeansSettled, QuietInterface, WatcherLife, IdleEng, IdleCli
<1>5. EngineShape /\ TransferShape /\ CallShape /\ CloseProgress
  BY ZenonT(60) DEF Init, EngineShape, TransferShape, CallShape, CloseProgress, IdleEng, IdleCli
<1> QED BY SMTT(60), <1>2, <1>3, <1>4, <1>5 DEF IInv

\* The inductive invariant holds in every behaviour of engine, watcher, caller,
\* waiters and kernel, for any finite set of transfers.
THEOREM Invariance == Spec => []IInv
BY InitIInv, NextIInv, PTL DEF Spec

\* The state keeps its types; in particular the pending count never underflows.
THEOREM TypeCorrect == Spec => []TypeOK
<1>1. IInv => TypeOK BY DEF IInv
<1> QED BY <1>1, Invariance, PTL

\* The count SetAltSetting reads is the number of URBs not yet completed.
THEOREM CountCorrect == Spec => []PendingExact
<1>1. IInv => PendingExact BY SMTT(60) DEF IInv
<1> QED BY <1>1, Invariance, PTL

\* The memory of a URB stays owned by a running engine until the URB is reaped.
THEOREM OwnershipCorrect == Spec => []KernelOwned
<1>1. IInv => KernelOwned BY DEF IInv
<1> QED BY <1>1, Invariance, PTL

\* A closed done channel and every answer of Wait tell the URB's final status.
THEOREM ResultsCorrect == Spec => []DoneMeansSettled
<1>1. IInv => DoneMeansSettled BY DEF IInv
<1> QED BY <1>1, Invariance, PTL

\* Alternate settings change, and claims end, only on an interface without URBs.
THEOREM QuietCorrect == Spec => []QuietInterface
<1>1. IInv => QuietInterface BY DEF IInv
<1> QED BY <1>1, Invariance, PTL

\* A working engine has a watcher, and no watcher outlives its engine.
THEOREM WatcherCorrect == Spec => []WatcherLife
<1>1. IInv => WatcherLife BY DEF IInv
<1> QED BY <1>1, Invariance, PTL

=============================================================================
