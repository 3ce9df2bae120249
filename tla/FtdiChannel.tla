---------------------------- MODULE FtdiChannel ----------------------------
(***************************************************************************)
(* ftdi.Channel: one MPSSE port, used by one caller and fed by a receive   *)
(* goroutine.  The goroutine keeps Depth bulk reads posted, in order, and  *)
(* passes payload to the exchange in progress; the caller opens, exchanges *)
(* and closes.  Both take steps at any time, and so do the kernel and the  *)
(* chip, which completes a read with a bare status packet, with a byte of  *)
(* the answer to a command, or with an error.                              *)
(*                                                                         *)
(* A read is "pending", or completed as "empty", as an "error" or with the *)
(* byte of an answer, "a" or "b": consecutive commands alternate.  Every   *)
(* command is answered by Depth bytes, one to a packet, which is the least *)
(* receiveDepth allows.  AbortBulk and Close of a claimed interface settle *)
(* every transfer they cancel before they return (see UsbBulk).            *)
(***************************************************************************)
EXTENDS Naturals, Sequences

CONSTANT Depth       \* receiveDepth, and the payload of a full response

VARIABLES on,        \* the flags that are set, see Flags
          left,      \* receiveRemaining
          queue,     \* the channel receive
          err,       \* the number of errors in the channel receiveErr
          pc,        \* where the caller is
          stage,     \* "sync", "config" and "verify" in Open, then "use"
          got,       \* bytes collected by readPayload
          r,         \* the result of the call so far, "ok" or "error"
          outcome,   \* what the last Close returned: "none", "nil", "error"
          g,         \* where the receive goroutine is
          raw,       \* the completed read the goroutine holds
          reads,     \* the posted reads, oldest first
          wire,      \* the bytes the chip has yet to send
          cmd        \* the command whose answer is due

caller == <<pc, stage, got, r, outcome>>
shared == <<on, left, queue, err>>
goroutine == <<g, raw>>
chip == <<reads, wire, cmd>>
vars == <<shared, caller, goroutine, chip>>

\* Channel fields: active, device, claim, gone, poisoned (poisonErr), restored,
\* receiving, open (receiveStop is not nil), stop (receiveStop is closed).
\* The world: claimed (the kernel's view of the claim), mpsse (the chip is out of
\* its reset mode), unplugged, calm (no further faults), closing (the caller has
\* decided to close), told (a Close has failed since Open), mixed (a byte was
\* taken for part of another answer).
Flags == {"active", "device", "claim", "gone", "poisoned", "restored", "receiving",
          "open", "stop", "claimed", "mpsse", "unplugged", "calm", "closing", "told", "mixed"}

Is(f) == f \in on
Answers == {"a", "b"}
Other(c) == IF c = "a" THEN "b" ELSE "a"
Faults == ~Is("calm")

Opening == {"enter", "post"}
Exchanging == {"begin", "ready", "send", "sent", "read", "end"}
Closing == {"close", "drain", "control", "release", "abort", "join", "claim", "rejoin", "device"}

Init ==
  /\ on = {} /\ left = 0 /\ queue = <<>> /\ err = 0
  /\ pc = "idle" /\ stage = "use" /\ got = 0 /\ r = "ok" /\ outcome = "none"
  /\ g = "none" /\ raw = "none"
  /\ reads = <<>> /\ wire = <<>> /\ cmd = "a"

restorationFailure == Is("gone") \/ Is("poisoned")

RestorationPossible == Is("device") /\ ~restorationFailure

CleanupPending == Is("device")

\* What a USB call returns: "ok", "live" (a failure of a present device) or
\* "gone"; recordLoss keeps the last.
Returns == (IF Is("unplugged") THEN {"gone"} ELSE {"ok"}) \cup (IF Faults THEN {"live"} ELSE {})

Lost(e) == IF e = "gone" THEN {"gone"} ELSE {}

\* The pending reads are cancelled.
Settled(s) == [k \in DOMAIN s |-> IF s[k] = "pending" THEN "error" ELSE s[k]]

-----------------------------------------------------------------------------
\* Open.

\* newChannel takes a device that is present.
NewChannel ==
  /\ pc = "idle" /\ ~Is("device")
  /\ on' = {"device"} \cup (on \cap {"calm"})
  /\ pc' = "enter" /\ stage' = "sync" /\ r' = "ok" /\ outcome' = "none"
  /\ left' = 0 /\ wire' = <<>>
  /\ UNCHANGED <<queue, err, got, goroutine, reads, cmd>>

\* enterMPSSE: claim the interface, run the control requests, let the chip settle.
enterMPSSE ==
  /\ pc = "enter"
  /\ \/ \E e \in Returns : on' = on \cup {"claim", "claimed", "mpsse"} \cup Lost(e)
                           /\ pc' = IF e = "ok" THEN "post" ELSE "close"
     \/ \E e \in Returns \ {"ok"} : on' = on \cup Lost(e) /\ pc' = "close"
     \/ Faults /\ on' = on \cup {"claim", "claimed"} /\ pc' = "close"
  /\ UNCHANGED <<left, queue, err, stage, got, r, outcome, goroutine, chip>>

\* Mutant: one read is posted instead of receiveDepth.
openUSBTransfersOne ==
  /\ pc = "post"
  /\ on' = on \cup {"open"} /\ reads' = <<"pending">> /\ g' = "wait" /\ pc' = "begin"
  /\ UNCHANGED <<left, queue, err, stage, got, r, outcome, raw, wire, cmd>>

\* openUSBTransfers: post the reads and start the goroutine, or post none.
openUSBTransfers ==
  /\ pc = "post"
  /\ \E e \in Returns :
       IF e = "ok"
       THEN /\ on' = on \cup {"open"}
            /\ reads' = [k \in 1..Depth |-> "pending"]
            /\ g' = "wait"
            /\ pc' = "begin"
       ELSE /\ on' = on \cup Lost(e)
            /\ pc' = "close"
            /\ UNCHANGED <<reads, g>>
  /\ UNCHANGED <<left, queue, err, stage, got, r, outcome, raw, wire, cmd>>

-----------------------------------------------------------------------------
\* exchangePayload, which synchronize and the wire streams run, and the bare
\* writeExact of configure.

\* SWDIO and JTAGIO: clockStream past wireReady.
clockStream ==
  /\ pc = "idle" /\ Is("active") /\ ~restorationFailure
  /\ pc' = "begin" /\ r' = "ok"
  /\ UNCHANGED <<shared, stage, got, outcome, goroutine, chip>>

Fail(flags) == r' = "error" /\ on' = on \cup flags

\* A queued error or payload cannot belong to the coming response.
beginResponse ==
  /\ pc = "begin"
  /\ got' = 0
  /\ \/ /\ err > 0 /\ err' = err - 1
        /\ Fail({"poisoned"}) /\ pc' = "end"
        /\ UNCHANGED <<left, queue>>
     \/ /\ queue # <<>> /\ queue' = Tail(queue)
        /\ Fail({"poisoned"}) /\ pc' = "end"
        /\ UNCHANGED <<left, err>>
     \/ /\ err = 0 /\ queue = <<>>
        /\ left' = Depth /\ on' = on \cup {"receiving"} /\ pc' = "ready"
        /\ UNCHANGED <<queue, err, r>>
  /\ UNCHANGED <<stage, outcome, goroutine, chip>>

\* writeExact up to its first bulkWrite; a context already done sends nothing.
writeReady ==
  /\ pc = "ready"
  /\ \/ ~restorationFailure /\ pc' = "send" /\ UNCHANGED <<r, on>>
     \/ (restorationFailure \/ Faults) /\ Fail({}) /\ pc' = "end"
  /\ UNCHANGED <<left, queue, err, stage, got, outcome, goroutine, chip>>

\* bulkWrite: the chip answers what it has received, whatever the host is told.
bulkWrite ==
  /\ pc = "send"
  /\ \E e \in Returns, received \in BOOLEAN :
       /\ e = "ok" => received
       /\ e = "gone" => ~received
       /\ IF received /\ stage # "config"
          THEN cmd' = Other(cmd) /\ wire' = wire \o [k \in 1..Depth |-> Other(cmd)]
          ELSE UNCHANGED <<cmd, wire>>
       /\ IF e = "ok" THEN pc' = "sent" /\ UNCHANGED <<r, on>>
                      ELSE pc' = "end" /\ Fail({"poisoned"})
  /\ UNCHANGED <<left, queue, err, stage, got, outcome, goroutine, reads>>

\* The end of writeExact and the start of readPayload.
writeDone ==
  /\ pc = "sent"
  /\ \/ restorationFailure /\ Fail({}) /\ pc' = "end"
     \/ ~restorationFailure /\ pc' = (IF stage = "config" THEN "end" ELSE "read") /\ UNCHANGED <<r, on>>
     \/ ~restorationFailure /\ stage # "config" /\ Faults /\ Fail({"poisoned"}) /\ pc' = "end"
  /\ UNCHANGED <<left, queue, err, stage, got, outcome, goroutine, chip>>

\* The loop of readPayload takes a chunk,
takePayload ==
  /\ pc = "read" /\ queue # <<>>
  /\ queue' = Tail(queue)
  /\ got' = got + 1
  /\ pc' = IF got + 1 = Depth THEN "end" ELSE "read"
  /\ on' = IF Head(queue) = cmd THEN on ELSE on \cup {"mixed"}
  /\ UNCHANGED <<left, err, stage, r, outcome, goroutine, chip>>

\* or the error the goroutine left,
takeError ==
  /\ pc = "read" /\ err > 0
  /\ err' = err - 1
  /\ Fail({"poisoned"}) /\ pc' = "end"
  /\ UNCHANGED <<left, queue, stage, got, outcome, goroutine, chip>>

\* or sees its context end.
contextDone ==
  /\ pc = "read"
  /\ Fail({"poisoned"}) /\ pc' = "end"
  /\ UNCHANGED <<left, queue, err, stage, got, outcome, goroutine, chip>>

\* endResponse, then the check of the completion marker, then what the caller of
\* the exchange does next: prepareChannel goes on to its next stage or closes.
Concluded(s, e, flags) ==
  /\ stage' = (IF e # "ok" THEN s
               ELSE CASE s = "sync" -> "config" [] s = "config" -> "verify" [] OTHER -> "use")
  /\ pc' = (IF s = "use" THEN "idle"
            ELSE IF e # "ok" THEN "close"
            ELSE CASE s = "sync" -> "ready" [] s = "config" -> "begin" [] OTHER -> "idle")
  /\ r' = e
  /\ on' = ((on \ {"receiving"}) \cup flags) \cup (IF s = "verify" /\ e = "ok" THEN {"active"} ELSE {})

endResponse ==
  /\ pc = "end"
  /\ \/ Concluded(stage, r, {})
     \/ r = "ok" /\ Faults /\ stage # "config"
        /\ Concluded(stage, "error", IF stage = "use" THEN {"poisoned"} ELSE {})
  /\ UNCHANGED <<left, queue, err, got, outcome, goroutine, chip>>

-----------------------------------------------------------------------------
\* Close, which Open also runs after a failure.

Return(e) ==
  /\ pc' = "idle"
  /\ outcome' = IF e = "ok" THEN "nil" ELSE "error"

\* A Close that stops short keeps what is left for the next one.
Retain(flags) ==
  /\ Return("error")
  /\ r' = "error"
  /\ on' = on \cup flags \cup {"told"}

Close ==
  /\ pc = "close" \/ (pc = "idle" /\ Is("device"))
  /\ on' = (on \ {"active"}) \cup {"closing"}
  /\ r' = IF pc = "close" THEN "error" ELSE "ok"
  /\ pc' = "drain"
  /\ UNCHANGED <<left, queue, err, stage, got, outcome, goroutine, chip>>

Abandon(lost) ==
  /\ on' = on \cup lost \cup {"restored"}
  /\ r' = "error"
  /\ pc' = "release"
  /\ UNCHANGED outcome

\* restoreForClose up to the control requests.
drainOutput ==
  /\ pc = "drain"
  /\ IF Is("restored") \/ ~Is("claim")
     THEN pc' = "release" /\ UNCHANGED <<on, r, outcome>>
     ELSE \E e \in Returns :
            CASE restorationFailure \/ e = "gone" -> Abandon(Lost(e))
              [] ~restorationFailure /\ e = "live" -> Retain({})
              [] OTHER -> pc' = "control" /\ UNCHANGED <<on, r, outcome>>
  /\ UNCHANGED <<left, queue, err, stage, got, goroutine, chip>>

\* The control requests of restoreForClose: a failure is final once the channel is
\* lost or poisoned, even if the goroutine poisoned it in the meantime.
resetChip ==
  /\ pc = "control"
  /\ \E e \in Returns :
       CASE e = "ok" -> /\ on' = (on \ {"mpsse"}) \cup {"restored"}
                        /\ pc' = "release"
                        /\ UNCHANGED <<r, outcome>>
         [] e # "ok" /\ (restorationFailure \/ e = "gone") -> Abandon(Lost(e))
         [] OTHER -> Retain({})
  /\ UNCHANGED <<left, queue, err, stage, got, goroutine, chip>>

\* releaseUSB tells the goroutine to stop,
stopReceive ==
  /\ pc = "release"
  /\ pc' = (IF ~Is("claim") THEN "device" ELSE IF Is("open") THEN "abort" ELSE "claim")
  /\ on' = IF Is("claim") /\ Is("open") THEN on \cup {"stop"} ELSE on
  /\ UNCHANGED <<left, queue, err, stage, got, r, outcome, goroutine, chip>>

\* cancels its reads,
abortReads ==
  /\ pc = "abort"
  /\ \E e \in Returns :
       CASE e = "ok"   -> /\ reads' = Settled(reads)
                          /\ pc' = "join"
                          /\ UNCHANGED <<on, r, outcome>>
         [] e = "gone" -> /\ on' = on \cup Lost(e)
                          /\ r' = "error" /\ pc' = "claim"
                          /\ UNCHANGED <<reads, outcome>>
         [] OTHER      -> Retain({}) /\ reads' \in {reads, Settled(reads)}
  /\ UNCHANGED <<left, queue, err, stage, got, goroutine, wire, cmd>>

\* Mutant: Close does not wait for the goroutine.
finishReceiveAtOnce ==
  /\ pc \in {"join", "rejoin"}
  /\ pc' = IF pc = "join" THEN "claim" ELSE "device"
  /\ on' = on \ ({"open", "stop"} \cup IF pc = "join" THEN {} ELSE {"claim"})
  /\ UNCHANGED <<left, queue, err, stage, got, r, outcome, goroutine, chip>>

\* waits for it, now or after the claim is closed,
finishReceive ==
  /\ pc \in {"join", "rejoin"} /\ g = "done"
  /\ pc' = IF pc = "join" THEN "claim" ELSE "device"
  /\ on' = on \ ({"open", "stop"} \cup IF pc = "join" THEN {} ELSE {"claim"})
  /\ queue' = <<>> /\ err' = 0 /\ g' = "none" /\ raw' = "none" /\ reads' = <<>>
  /\ UNCHANGED <<left, stage, got, r, outcome, wire, cmd>>

\* and closes the claim; a failure with nothing left to do is final.
closeClaim ==
  /\ pc = "claim"
  /\ \E e \in Returns :
       \/ /\ on' = ((on \ {"claimed"}) \cup Lost(e)) \ (IF Is("open") THEN {} ELSE {"claim"})
          /\ r' = (IF e = "ok" THEN r ELSE "error")
          /\ pc' = IF Is("open") THEN "rejoin" ELSE "device"
          /\ reads' = Settled(reads)
          /\ UNCHANGED outcome
       \/ /\ e = "live"
          /\ Retain({})
          /\ UNCHANGED reads
  /\ UNCHANGED <<left, queue, err, stage, got, goroutine, wire, cmd>>

\* Mutant: a device that could not be closed is not reported.
closeDeviceIgnored ==
  /\ pc = "device"
  /\ \E e \in Returns : on' = (IF e = "live" THEN on ELSE on \ {"device"}) \cup (IF r = "ok" THEN {} ELSE {"told"})
  /\ Return(r)
  /\ UNCHANGED <<left, queue, err, stage, got, r, goroutine, chip>>

\* The device is closed last.
closeDevice ==
  /\ pc = "device"
  /\ \E e \in Returns :
       \/ /\ on' = (on \ {"device"}) \cup (IF e = "ok" /\ r = "ok" THEN {} ELSE {"told"})
          /\ r' = (IF e = "ok" THEN r ELSE "error")
          /\ Return(r')
       \/ e = "live" /\ Retain({})
  /\ UNCHANGED <<left, queue, err, stage, got, goroutine, chip>>

-----------------------------------------------------------------------------
\* receiveUSB, the goroutine.

\* rearmUSBRead waits for the oldest read; an impossible count is reported even when
\* it has to stop,
waitRead ==
  /\ g = "wait" /\ reads # <<>> /\ Head(reads) # "pending"
  /\ \/ /\ Head(reads) = "error"
        /\ g' = IF Is("stop") THEN "done" ELSE "report"
        /\ UNCHANGED <<raw, reads>>
     \/ /\ Head(reads) # "error"
        /\ g' = "check"
        /\ raw' = Head(reads)
        /\ reads' = Tail(reads)
     \/ /\ Head(reads) # "error" /\ Faults
        /\ g' = "report"
        /\ UNCHANGED <<raw, reads>>
  /\ UNCHANGED <<shared, caller, wire, cmd>>

\* looks whether it has to stop,
checkStop ==
  /\ g = "check"
  /\ g' = (IF Is("stop") THEN "done" ELSE "submit")
  /\ UNCHANGED <<shared, caller, raw, chip>>

\* and posts another read, which a closed claim refuses.
submitRead ==
  /\ g = "submit"
  /\ \E e \in IF Is("claimed") THEN Returns ELSE {"live"} :
       /\ on' = on \cup Lost(e)
       /\ g' = IF e = "ok" THEN "deliver" ELSE "report"
       /\ reads' = IF e = "ok" THEN Append(reads, "pending") ELSE reads
  /\ UNCHANGED <<left, queue, err, caller, raw, wire, cmd>>

\* deliverUSBRead: a packet decodeCompletion refuses is reported, payload is passed on
\* under receiveMu.
deliverUSBRead ==
  /\ g = "deliver"
  /\ raw' = "none"
  /\ \/ Faults /\ g' = "report" /\ UNCHANGED <<left, queue>>
     \/ raw = "empty" /\ g' = "wait" /\ UNCHANGED <<left, queue>>
     \/ raw # "empty" /\ (~Is("receiving") \/ left = 0) /\ g' = "report" /\ UNCHANGED <<left, queue>>
     \/ /\ raw # "empty" /\ Is("receiving") /\ left > 0
        /\ left' = left - 1
        /\ \/ Len(queue) < Depth /\ queue' = Append(queue, raw) /\ g' = "wait"
           \/ Is("stop") /\ g' = "done" /\ UNCHANGED queue
           \/ Len(queue) = Depth /\ ~Is("stop") /\ g' = "report" /\ UNCHANGED queue
  /\ UNCHANGED <<on, err, caller, chip>>

\* reportReceiveError poisons the channel before it wakes the reader.
recordPoison ==
  /\ g = "report"
  /\ on' = on \cup {"poisoned"}
  /\ g' = "send"
  /\ UNCHANGED <<left, queue, err, caller, raw, chip>>

sendError ==
  /\ g = "send"
  /\ \/ err = 0 /\ err' = 1
     \/ Is("stop") /\ UNCHANGED err
  /\ g' = "done"
  /\ UNCHANGED <<on, left, queue, caller, raw, chip>>

-----------------------------------------------------------------------------
\* The kernel and the chip.

\* The oldest pending read completes, with a status packet, the next byte, or an
\* error.
CompleteRead ==
  \E k \in DOMAIN reads :
    /\ reads[k] = "pending" /\ \A j \in 1..(k - 1) : reads[j] # "pending"
    /\ \/ reads' = [reads EXCEPT ![k] = "empty"] /\ UNCHANGED wire
       \/ wire # <<>> /\ reads' = [reads EXCEPT ![k] = Head(wire)] /\ wire' = Tail(wire)
       \/ Faults /\ reads' = [reads EXCEPT ![k] = "error"] /\ UNCHANGED wire
    /\ UNCHANGED <<shared, caller, goroutine, cmd>>

Unplug ==
  /\ Is("device") /\ ~Is("unplugged") /\ Faults
  /\ on' = on \cup {"unplugged"}
  /\ reads' = Settled(reads)
  /\ wire' = <<>>
  /\ UNCHANGED <<left, queue, err, caller, goroutine, cmd>>

\* From some moment on nothing fails any more.
FaultsEnd ==
  /\ Faults
  /\ on' = on \cup {"calm"}
  /\ UNCHANGED <<left, queue, err, caller, goroutine, chip>>

CallerStep ==
  \/ enterMPSSE \/ openUSBTransfers
  \/ beginResponse \/ writeReady \/ bulkWrite \/ writeDone \/ takePayload \/ takeError \/ endResponse
  \/ drainOutput \/ resetChip \/ stopReceive \/ abortReads \/ finishReceive \/ closeClaim \/ closeDevice
  \/ (pc = "close" /\ Close)

GoroutineStep ==
  waitRead \/ checkStop \/ submitRead \/ deliverUSBRead \/ recordPoison \/ sendError

Next ==
  \/ CallerStep \/ NewChannel \/ clockStream \/ Close \/ contextDone
  \/ GoroutineStep
  \/ CompleteRead \/ Unplug \/ FaultsEnd

\* The scheduler runs the caller and the goroutine.  Nothing is assumed of the
\* chip, nor that a context ever ends.
Fairness == WF_vars(CallerStep) /\ WF_vars(GoroutineStep)

Spec == Init /\ [][Next]_vars /\ Fairness

-----------------------------------------------------------------------------

\* Every variable has its type, never more than Depth reads are posted, and the
\* delivery queue is not full when payload is delivered: beginResponse starts with
\* an empty one and receiveRemaining bounds what follows.
TypeOK ==
  /\ on \subseteq Flags
  /\ left \in 0..Depth /\ got \in 0..Depth /\ err \in 0..1
  /\ queue \in UNION {[1..n -> Answers] : n \in 0..Depth}
  /\ pc \in {"idle"} \cup Opening \cup Exchanging \cup Closing
  /\ stage \in {"sync", "config", "verify", "use"}
  /\ r \in {"ok", "error"} /\ outcome \in {"none", "nil", "error"}
  /\ g \in {"none", "wait", "check", "submit", "deliver", "report", "send", "done"}
  /\ raw \in Answers \cup {"none", "empty"}
  /\ Len(reads) <= Depth /\ \A k \in DOMAIN reads : reads[k] \in Answers \cup {"pending", "empty", "error"}
  /\ (Is("receiving") /\ left > 0) => Len(queue) < Depth
  /\ cmd \in Answers /\ \A k \in DOMAIN wire : wire[k] \in Answers

\* readPayload never takes a byte for part of the answer to another command of the
\* channel, however late it arrives: an exchange that ends early poisons the channel,
\* and payload outside an exchange stops the goroutine.
AnswersMatch == ~Is("mixed")

\* An exchange that succeeds leaves nothing of its answer behind, neither at the
\* chip nor on the way to readPayload, so the next one needs no purge.
NothingInFlight ==
  (pc = "idle" /\ Is("active") /\ ~restorationFailure /\ r = "ok") =>
    /\ wire = <<>> /\ queue = <<>>
    /\ raw \notin Answers /\ \A k \in DOMAIN reads : reads[k] \notin Answers

\* A chip left in MPSSE mode by a channel that no longer restores it was reported
\* by a Close: abandoning restoration never returns nil.
AbandonReported ==
  (pc = "idle" /\ Is("mpsse") /\ (Is("restored") \/ ~Is("device"))) => Is("told")

\* The interface is never left claimed by a channel that has let go of it, and the
\* goroutine uses the claim only while the channel has it: Close joins the
\* goroutine before it drops the claim and the channels.
NothingOrphaned ==
  /\ Is("claimed") => Is("claim") /\ Is("device")
  /\ g \notin {"none", "done"} => Is("claim") /\ Is("open")

\* Close always returns, although the goroutine may post one more read after
\* AbortBulk has cancelled the others and the chip may stay silent.
CloseReturns == (pc \in Closing) ~> (pc = "idle")

\* A reader whose goroutine has stopped is woken, whatever its context allows.
ReaderWoken == (pc = "read" /\ g = "done") ~> (pc # "read")

=============================================================================
