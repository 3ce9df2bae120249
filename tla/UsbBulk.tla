------------------------------ MODULE UsbBulk ------------------------------
(***************************************************************************)
(* Bulk transfers on Linux (usb/transfer_linux.go, poll_linux.go,          *)
(* transfer.go, claimed.go, interface.go): the engine goroutine, which     *)
(* alone talks to usbfs about URBs; the watcher goroutine, which blocks in *)
(* ppoll; the serialized caller of a ClaimedInterface; goroutines blocked  *)
(* in BulkTransfer.Wait; and the kernel.                                   *)
(*                                                                         *)
(* The channels between them are unbuffered, so a send and its receive are *)
(* one step; a reply channel has room for one and never blocks the engine. *)
(* The cached alternate setting (altKnown, endpoints) and its lookup are   *)
(* left out: they decide which addresses SubmitBulk refuses before the     *)
(* engine hears of them.                                                   *)
(***************************************************************************)
EXTENDS Integers, FiniteSets

CONSTANTS Xfers,        \* the transfers ever submitted
          Endpoints,
          EndpointOf,   \* the endpoint of each transfer
          Awaited       \* the transfers somebody calls Wait for

NoXfer == "no transfer"
NoEndpoint == "no endpoint"

ASSUME XfersAssumption == IsFiniteSet(Xfers) /\ NoXfer \notin Xfers /\ Awaited \subseteq Xfers

ASSUME EndpointsAssumption == EndpointOf \in [Xfers -> Endpoints] /\ NoEndpoint \notin Endpoints

VARIABLES
  \* the kernel
  kernel,        \* URBs submitted and not yet reaped
  status,        \* URB status of each transfer
  gone,          \* the device was disconnected
  calm,          \* no more ioctl errors, interrupted calls or expired deadlines
  \* linuxBulkEngine
  engine,        \* "none" (c.transfers is nil), "running" or "closed"
  eng,           \* the engine goroutine: where it is and its locals
  transfers,     \* the map of pending transfers
  pendingCount,
  failed,        \* failureErr is set and failed is closed
  watchStop,     \* watchStop is closed and the wake pipe written
  watcher,       \* the watcher goroutine
  \* linuxBulkTransfer
  result, done,
  waiter,        \* the outcome of the last Wait for each transfer
  \* ClaimedInterface and its caller
  claimed, cli, reply

kernelVars == <<kernel, status, gone, calm>>
engineVars == <<engine, eng, transfers, pendingCount, failed, watchStop, watcher>>
xferVars == <<result, done, waiter>>
cliVars == <<claimed, cli, reply>>
vars == <<kernelVars, engineVars, xferVars, cliVars>>

\* pc: select, the reap loops (reap, drain), the steps of complete, abortEndpoint
\* (discard), closeTransfers (close), stopWatcher (stop).
\* op: what the engine is busy with; cur: the transfer being completed; back: the
\* loop complete returns to; todo: URBs to discard; eps: endpoints to abort; err: a
\* wait or discard failed; closeErr: an earlier endpoint of a close failed.
IdleEng ==
  [pc |-> "select", op |-> "none", ep |-> NoEndpoint, cur |-> NoXfer, back |-> "reap",
   todo |-> {}, eps |-> {}, err |-> "ok", closeErr |-> "ok"]

IdleCli == [pc |-> "idle", x |-> NoXfer, ep |-> NoEndpoint]

On(ep) == {x \in transfers : EndpointOf[x] = ep}

Init ==
  /\ kernel = {} /\ status = [x \in Xfers |-> "none"] /\ gone = FALSE /\ calm = FALSE
  /\ engine = "none" /\ eng = IdleEng /\ transfers = {} /\ pendingCount = 0
  /\ failed = FALSE /\ watchStop = FALSE /\ watcher = "off"
  /\ result = [x \in Xfers |-> "none"] /\ done = {} /\ waiter = [x \in Xfers |-> "none"]
  /\ claimed = TRUE /\ cli = IdleCli /\ reply = "none"

-----------------------------------------------------------------------------
\* The kernel.

\* A queued URB completes by itself, or as aborted after a discard or the loss of
\* the device.
Complete(x) ==
  /\ x \in kernel /\ status[x] \in {"queued", "discarded"}
  /\ \E s \in {"ok", "error"} \cup (IF gone \/ status[x] = "discarded" THEN {"aborted"} ELSE {}) :
       status' = [status EXCEPT ![x] = s]
  /\ UNCHANGED <<kernel, gone, calm, engineVars, xferVars, cliVars>>

Disconnect ==
  /\ ~gone /\ ~calm /\ gone' = TRUE
  /\ UNCHANGED <<kernel, status, calm, engineVars, xferVars, cliVars>>

CalmDown ==
  /\ ~calm /\ calm' = TRUE
  /\ UNCHANGED <<kernel, status, gone, engineVars, xferVars, cliVars>>

Reapable == {x \in kernel : status[x] \in {"ok", "error", "aborted"}}

-----------------------------------------------------------------------------
\* The watcher goroutine.

\* ppoll returns: woken through the pipe, device gone, or a URB can be reaped.
\* An unexpected errno is reported like a lost device.
Poll ==
  /\ watcher = "poll"
  /\ \/ watchStop /\ watcher' = "off"
     \/ ~watchStop /\ (gone \/ ~calm) /\ watcher' = "sendError"
     \/ ~watchStop /\ ~gone /\ Reapable # {} /\ watcher' = "send"
  /\ UNCHANGED <<kernelVars, engine, eng, transfers, pendingCount, failed, watchStop, xferVars, cliVars>>

\* The other branch of the watcher's select.
StopSending ==
  /\ watcher \in {"send", "sendError"} /\ watchStop /\ watcher' = "off"
  /\ UNCHANGED <<kernelVars, engine, eng, transfers, pendingCount, failed, watchStop, xferVars, cliVars>>

-----------------------------------------------------------------------------
\* The engine goroutine.

At(pc) == engine = "running" /\ eng.pc = pc

Reply(r) == reply' = r /\ UNCHANGED <<claimed, cli>>

\* Mutant: the watcher is waited for and never told.
FailSilently(e) ==
  /\ failed' = TRUE
  /\ UNCHANGED watchStop
  /\ eng' = [e EXCEPT !.pc = "stop"]

\* recordFailure, then stopWatcher; e is what the engine goes on with.
Fail(e) ==
  /\ failed' = TRUE
  /\ watchStop' = TRUE
  /\ eng' = [e EXCEPT !.pc = "stop"]

ReceiveCompletion ==
  /\ At("select") /\ watcher \in {"send", "sendError"}
  /\ watcher' = "poll"
  /\ eng' = [eng EXCEPT !.pc = "reap", !.back = "reap", !.err = IF watcher = "sendError" THEN "error" ELSE "ok"]
  /\ UNCHANGED <<kernelVars, engine, transfers, pendingCount, failed, watchStop, xferVars, cliVars>>

\* submitTransfer; the URB is in the map before anything can be reaped again.
ReceiveSubmission ==
  /\ At("select") /\ cli.pc = "submit"
  /\ cli' = [cli EXCEPT !.pc = "await"]
  /\ \/ /\ ~failed /\ ~gone
        /\ kernel' = kernel \cup {cli.x} /\ status' = [status EXCEPT ![cli.x] = "queued"]
        /\ transfers' = transfers \cup {cli.x} /\ pendingCount' = pendingCount + 1
        /\ reply' = "ok"
     \/ /\ failed \/ gone \/ ~calm
        /\ reply' = "error"
        /\ UNCHANGED <<kernel, status, transfers, pendingCount>>
  /\ UNCHANGED <<gone, calm, engine, eng, failed, watchStop, watcher, xferVars, claimed>>

ReceiveAbort ==
  /\ At("select") /\ cli.pc = "abort"
  /\ cli' = [cli EXCEPT !.pc = "await"]
  /\ eng' = [eng EXCEPT !.pc = "discard", !.op = "abort", !.ep = cli.ep, !.todo = On(cli.ep), !.err = "ok"]
  /\ UNCHANGED <<kernelVars, engine, transfers, pendingCount, failed, watchStop, watcher, xferVars, claimed, reply>>

ReceiveClose ==
  /\ At("select") /\ cli.pc \in {"closeAlt", "closeClaim"}
  /\ cli' = [cli EXCEPT !.pc = IF @ = "closeAlt" THEN "awaitAlt" ELSE "awaitClaim"]
  /\ eng' = [eng EXCEPT !.pc = "close", !.op = "close", !.closeErr = "ok", !.eps = {EndpointOf[x] : x \in transfers}]
  /\ UNCHANGED <<kernelVars, engine, transfers, pendingCount, failed, watchStop, watcher, xferVars, claimed, reply>>

\* USBDEVFS_REAPURBNDELAY in either loop: one URB, none, or an error.
ReapOne ==
  /\ At("reap") \/ (At("drain") /\ On(eng.ep) # {})
  /\ \E x \in Reapable \cap transfers :
       /\ kernel' = kernel \ {x}
       /\ transfers' = transfers \ {x}
       /\ eng' = [eng EXCEPT !.back = eng.pc, !.pc = "complete", !.cur = x]
  /\ UNCHANGED <<status, gone, calm, engine, pendingCount, failed, watchStop, watcher, xferVars, cliVars>>

\* Mutant: done is closed before the result is stored.
AnnounceFirst ==
  /\ At("complete")
  /\ done' = done \cup {eng.cur}
  /\ eng' = [eng EXCEPT !.pc = "count"]
  /\ UNCHANGED <<kernelVars, engine, transfers, pendingCount, failed, watchStop, watcher, result, waiter, cliVars>>

\* complete: the result is stored, then the count drops, then done is closed.
StoreResult ==
  /\ At("complete")
  /\ result' = [result EXCEPT ![eng.cur] = status[eng.cur]]
  /\ eng' = [eng EXCEPT !.pc = "count"]
  /\ UNCHANGED <<kernelVars, engine, transfers, pendingCount, failed, watchStop, watcher, done, waiter, cliVars>>

\* Mutant: the endpoint's count and the engine's drop by one each.
UncountTwice ==
  /\ At("count")
  /\ pendingCount' = pendingCount - 2
  /\ eng' = [eng EXCEPT !.pc = "announce"]
  /\ UNCHANGED <<kernelVars, engine, transfers, failed, watchStop, watcher, xferVars, cliVars>>

Uncount ==
  /\ At("count")
  /\ pendingCount' = pendingCount - 1
  /\ eng' = [eng EXCEPT !.pc = "announce"]
  /\ UNCHANGED <<kernelVars, engine, transfers, failed, watchStop, watcher, xferVars, cliVars>>

Announce ==
  /\ At("announce")
  /\ done' = done \cup {eng.cur}
  /\ eng' = [eng EXCEPT !.pc = eng.back, !.cur = NoXfer]
  /\ UNCHANGED <<kernelVars, engine, transfers, pendingCount, failed, watchStop, watcher, result, waiter, cliVars>>

\* Nothing to reap or an interrupted call; an error.
ReapNone == ~calm \/ (Reapable = {} /\ ~gone)

ReapError == ~calm \/ (Reapable = {} /\ gone)

\* reapAvailable is over; a failed wait or reap ends the watcher.
ReapDone ==
  /\ At("reap")
  /\ \/ ReapNone /\ eng.err = "ok" /\ eng' = IdleEng /\ UNCHANGED <<failed, watchStop>>
     \/ ((ReapNone /\ eng.err = "error") \/ ReapError) /\ Fail(eng)
  /\ UNCHANGED <<kernelVars, engine, transfers, pendingCount, watcher, xferVars, cliVars>>

\* abortEndpoint: every URB of the endpoint is discarded.  EINVAL (already
\* completed) and ENODEV are ignored; another error skips the drain.
Discard ==
  /\ At("discard")
  /\ \E x \in eng.todo :
       \/ /\ status' = [status EXCEPT ![x] = IF @ = "queued" /\ ~gone THEN "discarded" ELSE @]
          /\ eng' = [eng EXCEPT !.todo = @ \ {x}]
       \/ /\ ~calm /\ UNCHANGED status
          /\ eng' = [eng EXCEPT !.todo = @ \ {x}, !.err = "error"]
  /\ UNCHANGED <<kernel, gone, calm, engine, transfers, pendingCount, failed, watchStop, watcher, xferVars, cliVars>>

\* abortEndpoint returns: an abort replies, a close goes on with the next one.
EndAbort(r) ==
  \/ /\ eng.op = "abort"
     /\ eng' = IdleEng /\ Reply(r)
  \/ /\ eng.op = "close"
     /\ eng' = [eng EXCEPT !.pc = "close", !.ep = NoEndpoint, !.closeErr = IF r = "error" THEN r ELSE @]
     /\ UNCHANGED cliVars

DiscardDone ==
  /\ At("discard") /\ eng.todo = {}
  /\ IF eng.err = "error" THEN EndAbort("error")
     ELSE eng' = [eng EXCEPT !.pc = "drain"] /\ UNCHANGED cliVars
  /\ UNCHANGED <<kernelVars, engine, transfers, pendingCount, failed, watchStop, watcher, xferVars>>

DrainDone ==
  /\ At("drain") /\ On(eng.ep) = {}
  /\ EndAbort("ok")
  /\ UNCHANGED <<kernelVars, engine, transfers, pendingCount, failed, watchStop, watcher, xferVars>>

\* The drain found nothing: it waits for the watcher (after a failure it sleeps
\* and reaps again, which changes nothing here), or the deadline has passed.
DrainNone ==
  /\ At("drain") /\ On(eng.ep) # {} /\ ReapNone
  /\ \/ ~calm /\ EndAbort("error")
     \/ ~failed /\ eng' = [eng EXCEPT !.pc = "drainWait"] /\ UNCHANGED cliVars
  /\ UNCHANGED <<kernelVars, engine, transfers, pendingCount, failed, watchStop, watcher, xferVars>>

DrainError ==
  /\ At("drain") /\ On(eng.ep) # {} /\ ReapError
  /\ Fail(eng)
  /\ UNCHANGED <<kernelVars, engine, transfers, pendingCount, watcher, xferVars, cliVars>>

DrainWait ==
  /\ At("drainWait")
  /\ \/ /\ watcher \in {"send", "sendError"} /\ watcher' = "poll" /\ UNCHANGED cliVars
        /\ IF watcher = "sendError" THEN Fail(eng)
           ELSE eng' = [eng EXCEPT !.pc = "drain"] /\ UNCHANGED <<failed, watchStop>>
     \/ ~calm /\ EndAbort("error") /\ UNCHANGED <<watcher, failed, watchStop>>
  /\ UNCHANGED <<kernelVars, engine, transfers, pendingCount, xferVars>>

\* Mutant: the engine exits whatever is left.
CloseRegardless ==
  /\ At("close")
  /\ \/ /\ \E ep \in eng.eps :
             eng' = [eng EXCEPT !.pc = "discard", !.ep = ep, !.eps = @ \ {ep}, !.todo = On(ep), !.err = "ok"]
        /\ UNCHANGED <<watchStop, cliVars>>
     \/ /\ eng.eps = {}
        /\ eng' = [eng EXCEPT !.pc = "stop", !.op = "exit"]
        /\ watchStop' = TRUE /\ UNCHANGED cliVars
  /\ UNCHANGED <<kernelVars, engine, transfers, pendingCount, failed, watcher, xferVars>>

\* closeTransfers: the next endpoint, or the end.  The engine stays if transfers
\* are left, and else stops the watcher before it returns.
CloseNext ==
  /\ At("close")
  /\ \/ /\ \E ep \in eng.eps :
             eng' = [eng EXCEPT !.pc = "discard", !.ep = ep, !.eps = @ \ {ep}, !.todo = On(ep), !.err = "ok"]
        /\ UNCHANGED <<watchStop, cliVars>>
     \/ /\ eng.eps = {} /\ transfers # {}
        /\ eng' = IdleEng /\ Reply(eng.closeErr)
        /\ UNCHANGED watchStop
     \/ /\ eng.eps = {} /\ transfers = {}
        /\ eng' = [eng EXCEPT !.pc = "stop", !.op = "exit"]
        /\ watchStop' = TRUE /\ UNCHANGED cliVars
  /\ UNCHANGED <<kernelVars, engine, transfers, pendingCount, failed, watcher, xferVars>>

\* stopWatcher returns once the watcher has; closing the pipe can fail.
WatcherStopped ==
  /\ At("stop") /\ watcher = "off"
  /\ CASE eng.op = "none" -> eng' = IdleEng /\ UNCHANGED <<engine, cliVars>>
       [] eng.op \in {"abort", "close"} -> EndAbort("error") /\ UNCHANGED engine
       [] eng.op = "exit" ->
            /\ engine' = "closed" /\ eng' = IdleEng
            /\ \/ Reply(eng.closeErr)
               \/ ~calm /\ Reply("error")
  /\ UNCHANGED <<kernelVars, transfers, pendingCount, failed, watchStop, watcher, xferVars>>

-----------------------------------------------------------------------------
\* The caller of the ClaimedInterface: one call at a time.

Goto(pc) == cli' = [IdleCli EXCEPT !.pc = pc]

\* SubmitBulk, which starts an engine if there is none.
CallSubmit(x) ==
  /\ claimed /\ cli.pc = "idle" /\ status[x] = "none"
  /\ cli' = [IdleCli EXCEPT !.pc = "submit", !.x = x]
  /\ IF engine = "none"
     THEN engine' = "running" /\ eng' = IdleEng /\ failed' = FALSE /\ watchStop' = FALSE /\ watcher' = "poll"
     ELSE UNCHANGED <<engine, eng, failed, watchStop, watcher>>
  /\ UNCHANGED <<kernelVars, transfers, pendingCount, xferVars, claimed, reply>>

\* The submission is given up: its context ended, or the engine has closed.
AbandonSubmit ==
  /\ cli.pc = "submit" /\ (engine = "closed" \/ ~calm)
  /\ Goto("idle")
  /\ UNCHANGED <<kernelVars, engineVars, xferVars, claimed, reply>>

CallAbort(ep) ==
  /\ claimed /\ cli.pc = "idle" /\ engine # "none"
  /\ cli' = [IdleCli EXCEPT !.pc = "abort", !.ep = ep]
  /\ UNCHANGED <<kernelVars, engineVars, xferVars, claimed, reply>>

\* SetAltSetting refuses while pending() and closes the engine before the ioctl.
CallSetAlt ==
  /\ claimed /\ cli.pc = "idle" /\ (engine = "none" \/ pendingCount = 0)
  /\ Goto(IF engine = "none" THEN "alt" ELSE "closeAlt")
  /\ UNCHANGED <<kernelVars, engineVars, xferVars, claimed, reply>>

CallClose ==
  /\ claimed /\ cli.pc = "idle"
  /\ Goto(IF engine = "none" THEN "release" ELSE "closeClaim")
  /\ UNCHANGED <<kernelVars, engineVars, xferVars, claimed, reply>>

\* Mutant: a closed engine is an error for close as it is for submit.
EngineClosedError ==
  /\ engine = "closed" /\ cli.pc \in {"abort", "closeAlt", "closeClaim"}
  /\ Goto("idle")
  /\ UNCHANGED <<kernelVars, engineVars, xferVars, claimed, reply>>

\* abort and close return nil when the engine has already closed.
EngineClosed ==
  /\ engine = "closed"
  /\ \/ cli.pc = "abort" /\ Goto("idle") /\ UNCHANGED engine
     \/ cli.pc = "closeAlt" /\ Goto("alt") /\ engine' = "none"
     \/ cli.pc = "closeClaim" /\ Goto("release") /\ engine' = "none"
  /\ UNCHANGED <<kernelVars, eng, transfers, pendingCount, failed, watchStop, watcher, xferVars, claimed, reply>>

\* Mutant: the caller goes on when the close failed.
ReturnRegardless ==
  /\ reply # "none" /\ reply' = "none"
  /\ \/ cli.pc = "await" /\ Goto("idle") /\ UNCHANGED engine
     \/ cli.pc = "awaitAlt" /\ Goto("alt") /\ engine' = "none"
     \/ cli.pc = "awaitClaim" /\ Goto("release") /\ engine' = "none"
  /\ UNCHANGED <<kernelVars, eng, transfers, pendingCount, failed, watchStop, watcher, xferVars, claimed>>

\* The engine's reply: only a close without an error drops the engine.
Return ==
  /\ reply # "none" /\ reply' = "none"
  /\ \/ (cli.pc = "await" \/ reply = "error") /\ Goto("idle") /\ UNCHANGED engine
     \/ cli.pc = "awaitAlt" /\ reply = "ok" /\ Goto("alt") /\ engine' = "none"
     \/ cli.pc = "awaitClaim" /\ reply = "ok" /\ Goto("release") /\ engine' = "none"
  /\ UNCHANGED <<kernelVars, eng, transfers, pendingCount, failed, watchStop, watcher, xferVars, claimed>>

SetAltIoctl ==
  /\ cli.pc = "alt" /\ Goto("idle")
  /\ UNCHANGED <<kernelVars, engineVars, xferVars, claimed, reply>>

\* The claim is also over when the device is gone; another error keeps it.
ReleaseIoctl ==
  /\ cli.pc = "release" /\ Goto("idle")
  /\ claimed' \in IF calm THEN {FALSE} ELSE {TRUE, FALSE}
  /\ UNCHANGED <<kernelVars, engineVars, xferVars, reply>>

-----------------------------------------------------------------------------
\* BulkTransfer.Wait on any goroutine.

\* A completion is preferred to an engine failure.  A Wait that ended early, with
\* its context or by the failure, may be followed by another.
Wait(x) ==
  /\ status[x] # "none" /\ (cli.pc = "await" => cli.x # x)
  /\ waiter[x] \in {"none", "waiting", "failure"}
  /\ \/ x \in done /\ waiter' = [waiter EXCEPT ![x] = result[x]]
     \/ x \notin done /\ waiter[x] = "none" /\ waiter' = [waiter EXCEPT ![x] = "waiting"]
     \/ x \notin done /\ waiter[x] = "waiting" /\ failed /\ waiter' = [waiter EXCEPT ![x] = "failure"]
     \/ ~calm /\ waiter[x] = "waiting" /\ waiter' = [waiter EXCEPT ![x] = "none"]
  /\ UNCHANGED <<kernelVars, engineVars, result, done, cliVars>>

-----------------------------------------------------------------------------

WatcherStep == Poll \/ StopSending

EngineStep ==
  \/ ReceiveCompletion \/ ReceiveSubmission \/ ReceiveAbort \/ ReceiveClose
  \/ ReapOne \/ StoreResult \/ Uncount \/ Announce \/ ReapDone
  \/ Discard \/ DiscardDone \/ DrainDone \/ DrainNone \/ DrainError \/ DrainWait
  \/ CloseNext \/ WatcherStopped

\* What the caller goes on with once a call has begun.
CallerStep == AbandonSubmit \/ EngineClosed \/ Return \/ SetAltIoctl \/ ReleaseIoctl

Next ==
  \/ \E x \in Xfers : Complete(x) \/ CallSubmit(x)
  \/ \E x \in Awaited : Wait(x)
  \/ \E ep \in Endpoints : CallAbort(ep)
  \/ Disconnect \/ CalmDown
  \/ WatcherStep \/ EngineStep \/ CallerStep
  \/ CallSetAlt \/ CallClose

Spec == Init /\ [][Next]_vars

\* Goroutines that can run do; the kernel ends a discarded URB and all URBs of a
\* lost device; errors and interruptions do not go on for ever.  The engine's
\* select chooses at random among the ready channels, so calls that keep coming do
\* not shut out the watcher.
FairSpec ==
  /\ Spec
  /\ WF_vars(WatcherStep) /\ WF_vars(EngineStep) /\ WF_vars(CallerStep)
  /\ SF_vars(ReceiveCompletion)
  /\ \A x \in Xfers : WF_vars((status[x] = "discarded" \/ gone) /\ Complete(x))
  /\ \A x \in Awaited : WF_vars(Wait(x))
  /\ WF_vars(CalmDown)

-----------------------------------------------------------------------------

Statuses == {"none", "queued", "discarded", "ok", "error", "aborted"}

Engines ==
  [pc : {"select", "reap", "complete", "count", "announce", "discard", "drain", "drainWait", "close", "stop"},
   op : {"none", "abort", "close", "exit"}, ep : Endpoints \cup {NoEndpoint},
   cur : Xfers \cup {NoXfer}, back : {"reap", "drain"},
   todo : SUBSET Xfers, eps : SUBSET Endpoints, err : {"ok", "error"}, closeErr : {"ok", "error"}]

Callers ==
  [pc : {"idle", "submit", "abort", "await", "closeAlt", "awaitAlt", "alt", "closeClaim", "awaitClaim", "release"},
   x : Xfers \cup {NoXfer}, ep : Endpoints \cup {NoEndpoint}]

\* The types of the state of kernel, engine, watcher, transfers and caller.
TypeOK ==
  /\ kernel \subseteq Xfers /\ status \in [Xfers -> Statuses]
  /\ gone \in BOOLEAN /\ calm \in BOOLEAN
  /\ engine \in {"none", "running", "closed"}
  /\ eng \in Engines
  /\ transfers \subseteq Xfers /\ pendingCount \in Nat
  /\ failed \in BOOLEAN /\ watchStop \in BOOLEAN
  /\ watcher \in {"off", "poll", "send", "sendError"}
  /\ result \in [Xfers -> {"none", "ok", "error", "aborted"}] /\ done \subseteq Xfers
  /\ waiter \in [Xfers -> {"none", "waiting", "ok", "error", "aborted", "failure"}]
  /\ claimed \in BOOLEAN
  /\ cli \in Callers
  /\ reply \in {"none", "ok", "error"}

\* The transfer between its removal from the map and the end of complete.
Completing == IF eng.pc \in {"complete", "count", "announce"} THEN {eng.cur} ELSE {}

\* pendingCount, which SetAltSetting reads from another goroutine, never counts
\* fewer transfers than the kernel still holds, and is exact between completions.
PendingExact ==
  pendingCount = Cardinality(transfers) + (IF eng.pc \in {"complete", "count"} THEN 1 ELSE 0)

\* A URB in the kernel is in the engine's map and its transfer is not done: its
\* memory stays pinned and the caller's buffer untouched until it is reaped, also
\* when aborts time out, ioctls fail, the device goes or the watcher dies.
KernelOwned ==
  /\ kernel = transfers
  /\ transfers # {} => engine = "running"
  /\ done \cap (transfers \cup Completing) = {}

\* Whoever sees done closed sees the stored result of the URB, and a waiter never
\* reports a transfer as completed that the kernel did not end that way.
DoneMeansSettled ==
  \A x \in Xfers :
    /\ x \in done => result[x] = status[x] /\ result[x] # "none" /\ x \notin kernel
    /\ waiter[x] \in {"ok", "error", "aborted"} => waiter[x] = status[x]

\* The alternate setting changes, and the claim is released, only when no URB of
\* the interface is left in the kernel and no engine works on it.
QuietInterface ==
  (cli.pc \in {"alt", "release"} \/ ~claimed) => engine = "none" /\ kernel = {} /\ transfers = {}

\* An engine that has neither failed nor begun to exit has a watcher that nobody
\* told to stop, so no completion goes unseen; and no watcher outlives its engine
\* to poll a file the caller may close.
WatcherLife ==
  /\ engine = "running" /\ ~failed /\ eng.op # "exit" => ~watchStop /\ watcher # "off"
  /\ engine # "running" => watcher = "off"

\* Every call returns: caller, engine and watcher never wait for each other; and
\* whoever waits for a transfer the kernel has ended is told, by its completion or
\* by the failure of the engine (Transfer.Wait).
CallsReturn ==
  /\ cli.pc # "idle" ~> cli.pc = "idle"
  /\ \A x \in Xfers : (x \in Reapable /\ waiter[x] = "waiting") ~> waiter[x] # "waiting"

\* Whatever failed before, an owner who keeps calling Close has the interface
\* released in the end (ClaimedInterface.Close).
ClaimReleased == []<>(cli.pc \in {"closeClaim", "release"}) => <>(~claimed)

=============================================================================
