---------------------------- MODULE JlinkSession ----------------------------
(***************************************************************************)
(* jlink.Session: one J-Link application interface.  A command is written  *)
(* to bulk OUT; its answer is a number of items read back from bulk IN,    *)
(* cut into packets as the probe likes, so the session buffers what it has *)
(* read and poisons itself whenever an answer is not read to its exact     *)
(* end.  A scan is answered by its samples and a status; a failed status   *)
(* asks for reconfiguration, which a probe-owned session does by itself.   *)
(*                                                                         *)
(* The record x holds the Session fields and what they stand for:          *)
(*   device, claim, closing, poisoned, gone, configured, failed            *)
(*   (scanFailed), owned (probeOwned), selected (info.SelectedInterface)   *)
(*   input            items read but not used (s.input)                    *)
(*   file, iface      the host's open file and claimed interface           *)
(*   pipe             packets in the IN pipe; stale if of an older command *)
(*   wire             the interface the probe really drives                *)
(*   mixed, astray    ghosts: an item was taken for that of another        *)
(*                    command; a scan ran on the other interface           *)
(***************************************************************************)
EXTENDS Naturals, Sequences

CONSTANT MaxStale   \* stale packets a previous user may have left

Interfaces == {"SWD", "JTAG"}

Packets == [items : 0..3, stale : BOOLEAN]

Flags == {"device", "claim", "closing", "poisoned", "gone", "configured", "failed",
          "owned", "file", "iface", "mixed", "astray"}

\* The Boolean fields are the members of on.
Sessions ==
  [on : SUBSET Flags, selected : Interfaces, wire : Interfaces,
   input : [items : 0..3, stale : BOOLEAN], pipe : Seq(Packets)]

Is(y, flag) == flag \in y.on

Set(y, flags) == [y EXCEPT !.on = @ \cup flags]

Clear(y, flags) == [y EXCEPT !.on = @ \ flags]

NoInput == [items |-> 0, stale |-> FALSE]

\* A probe whose previous user left packets unread.  They arrive before the quiet
\* interval of Open ends: replies that firmware delays beyond it are excluded here, as
\* the documentation of Open excludes them from its guarantee.
Attached ==
  {[on |-> {"file"}, selected |-> "SWD", wire |-> i, input |-> NoInput,
    pipe |-> [k \in 1..n |-> [items |-> m, stale |-> TRUE]]]
   : i \in Interfaces, n \in 0..MaxStale, m \in 0..1}

Res(y, r) == [x |-> y, r |-> r]

Faults(calm, results) == IF calm THEN {} ELSE results

Losses(y) == {y, Set(y, {"gone"})}

Poison(y) == Set(y, {"poisoned"})

-----------------------------------------------------------------------------
\* Transport.

sessionReady(y) == {"device", "claim"} \subseteq y.on /\ {"closing", "gone", "poisoned"} \cap y.on = {}

\* The probe answers with n items in one packet or one item each, then perhaps a
\* packet without any; a faulty answer has one too few, or one too many in its
\* last packet.
Answers(n) ==
  LET packet(k) == [items |-> k, stale |-> FALSE]
      whole(k)  == {<<packet(k)>>, [j \in 1..k |-> packet(1)]}
  IN IF n = 0 THEN {<<>>}
     ELSE UNION {{a, Append(a, packet(0))} : a \in whole(n)}

FaultyAnswers(n) ==
  LET packet(k) == [items |-> k, stale |-> FALSE]
  IN {<<packet(n + 1)>>, <<packet(n - 1)>>, <<packet(0), packet(0)>>}

\* Packets that are now those of an older command.
Aged(packets) == [k \in DOMAIN packets |-> [packets[k] EXCEPT !.stale = TRUE]]

\* So are the items in the buffer.
AgedInput(input) == [input EXCEPT !.stale = @ \/ input.items > 0]

\* The command reaches the probe; what was in the pipe is now another's answer.
Sent(y, answer) ==
  [y EXCEPT !.pipe = Aged(@) \o answer, !.input = AgedInput(@)]

\* writeExact: a failed submission of the first part sends nothing; every other
\* failure poisons, whether or not the command arrived.
writeExact(y, answers, calm) ==
  LET sent == {Res(Sent(y, a), "ok") : a \in answers}
  IN IF ~sessionReady(y) THEN {Res(y, "error")}
     ELSE sent \cup Faults(calm, {Res(z, "error") : z \in Losses(y)} \cup
                                 {Res(Poison(e.x), "error") : e \in sent \cup {Res(y, "")}})

\* One item from the buffer.
OneLess(input) == [input EXCEPT !.items = @ - 1]

Take(y) == [(IF y.input.stale THEN Set(y, {"mixed"}) ELSE y) EXCEPT !.input = OneLess(@)]

\* readBulk fills the buffer from the next packet; one packet without items is
\* skipped, two in a row are no progress, and an empty pipe is a timeout.
Fill(y) ==
  LET skip == IF y.pipe # <<>> /\ Head(y.pipe).items = 0 THEN 1 ELSE 0
      rest == SubSeq(y.pipe, skip + 1, Len(y.pipe))
  IN IF rest = <<>> \/ Head(rest).items = 0 THEN Res([y EXCEPT !.pipe = rest], "error")
     ELSE Res([y EXCEPT !.pipe = Tail(rest), !.input = Head(rest)], "ok")

\* readExact and readResponsePart for one item: any failure poisons.
readPart(y, calm) ==
  LET filled == IF y.input.items > 0 THEN Res(y, "ok") ELSE Fill(y)
  IN (IF filled.r = "ok" THEN {Res(Take(filled.x), "ok")} ELSE {Res(Poison(filled.x), "error")}) \cup
     Faults(calm, {Res(Poison(z), "error") : z \in Losses(y)})

\* What the answer leaves in the buffer is kept for the next one.
EndedEarly(y) == Res(y, "ok")

\* readResponse: the answer must end with the item.
Ended(y) == IF y.input.items > 0 THEN Res(Poison(y), "error") ELSE Res(y, "ok")

Then(results, F(_)) == UNION {IF e.r = "ok" THEN F(e.x) ELSE {e} : e \in results}

readResponse(y, calm) == Then(readPart(y, calm), LAMBDA z : {Ended(z)})

AnswerSet(n, calm) == Answers(n) \cup Faults(calm, FaultyAnswers(n))

exchange(y, calm) == Then(writeExact(y, AnswerSet(1, calm), calm), LAMBDA z : readResponse(z, calm))

-----------------------------------------------------------------------------
\* Configuration and scans.

RestorationPossible(y) == Is(y, "device") /\ {"closing", "gone", "poisoned"} \cap y.on = {}

recoverableScan(y) == {"owned", "failed"} \subseteq y.on /\ RestorationPossible(y)

Wired(y, target) == [y EXCEPT !.wire = target]

Chosen(y, target) == [y EXCEPT !.selected = target]

\* The select command takes effect when it arrives.
Selected(y, target, calm) ==
  LET sent == writeExact(y, AnswerSet(1, calm), calm)
  IN Then({IF Len(e.x.pipe) > Len(y.pipe) THEN Res(Wired(e.x, target), e.r) ELSE e : e \in sent},
          LAMBDA z : readResponse(z, calm))

Begun(y) == Clear(y, {"configured", "failed"})

\* configureTarget: select the interface, learn the clock, set it.  The answers
\* to the first two can be complete and unacceptable.
configureTarget(y, target, calm) ==
  LET chosen == Then(Selected(Begun(y), target, calm), LAMBDA z :
                  {Res(Chosen(z, target), "ok")} \cup Faults(calm, {Res(z, "error")}))
      clocked == Then(chosen, LAMBDA z :
                   Then(exchange(z, calm), LAMBDA u : {Res(u, "ok")} \cup Faults(calm, {Res(u, "error")})))
      set    == Then(clocked, LAMBDA z : writeExact(z, {<<>>}, calm))
  IN IF ~sessionReady(y) THEN {Res(y, "error")}
     ELSE Then(set, LAMBDA z : {Res(Set(z, {"configured"}), "ok")})

\* recoverScan: a failed recovery can be tried again.
recoverScan(y, calm) ==
  IF ~recoverableScan(y) THEN {Res(y, "ok")}
  ELSE {IF e.r # "ok" /\ RestorationPossible(e.x) THEN Res(Set(e.x, {"failed"}), "error") ELSE e
          : e \in configureTarget(y, y.selected, calm)}

\* scan: the samples, then the status.
scan(y, calm) ==
  LET ran    == IF y.wire = y.selected THEN y ELSE Set(y, {"astray"})
      status == Then(Then(writeExact(ran, AnswerSet(2, calm), calm), LAMBDA z : readPart(z, calm)),
                     LAMBDA z : readResponse(z, calm))
  IN Then(status, LAMBDA z :
       {Res(z, "ok")} \cup Faults(calm, {Res(Set(Clear(z, {"configured"}), {"failed"}), "error")}))

\* SWDIO and JTAGIO.
scanIO(y, target, calm) ==
  IF sessionReady(y) /\ (Is(y, "configured") \/ recoverableScan(y)) /\ y.selected = target
  THEN Then(recoverScan(y, calm), LAMBDA z : scan(z, calm))
  ELSE {Res(y, "error")}

-----------------------------------------------------------------------------
\* Close and Open.

CleanupPending(y) == {"claim", "iface"} \subseteq y.on \/ {"device", "file"} \subseteq y.on

\* Closing what the USB package owns: released, released with a final error, or
\* still pending; the error may report the loss of the device.
CloseOwned(y, reference, resource, calm) ==
  LET released == Clear(y, {reference, resource})
  IN IF ~Is(y, reference) THEN {Res(y, "ok")}
     ELSE {Res(released, "ok")} \cup
          Faults(calm, {Res(z, "error") : z \in Losses(released)} \cup {Res(z, "stop") : z \in Losses(y)})

\* A session whose device is gone has nothing left to close.
CloseGone(y, calm) ==
  IF Is(y, "gone") THEN {Res(Clear(Set(y, {"closing"}), {"configured"}), "ok")}
  ELSE UNION {IF k.r = "stop" THEN {Res(k.x, "error")} ELSE CloseOwned(k.x, "device", "file", calm)
              : k \in CloseOwned(Clear(Set(y, {"closing"}), {"configured"}), "claim", "iface", calm)}

Close(y, calm) ==
  UNION {IF k.r = "stop" THEN {Res(k.x, "error")}
         ELSE {Res(d.x, IF k.r = "ok" /\ d.r = "ok" THEN "ok" ELSE "error")
               : d \in CloseOwned(k.x, "device", "file", calm)}
         : k \in CloseOwned(Clear(Set(y, {"closing"}), {"configured"}), "claim", "iface", calm)}

\* waitForInputQuiet and finishQuietRead: n reads have each taken a packet.
Drained(y, n) == [y EXCEPT !.pipe = SubSeq(@, n + 1, Len(@))]

\* Reading goes on until a read is quiet or fails.
synchronizeInput(y) ==
  {Res(Drained(y, Len(y.pipe)), "ok")} \cup
  UNION {{Res(z, "error") : z \in Losses(Drained(y, n))} : n \in 0..Len(y.pipe)}

\* The version answer comes in two parts, the other answers are whole; the last
\* one names the selected interface.
readInfo(y) ==
  LET version == Then(Then(writeExact(y, AnswerSet(2, FALSE), FALSE), LAMBDA z : readPart(z, FALSE)),
                      LAMBDA z : readResponse(z, FALSE))
  IN Then(version, LAMBDA z :
       {IF e.r = "ok" THEN Res(Chosen(e.x, e.x.wire), "ok") ELSE e : e \in exchange(z, FALSE)})

\* openSession, with one of the protocols or none, for a direct caller or for a
\* probe.  A failed open closes its session and returns none.
Open(y, target, owned) ==
  LET fresh    == Set(y, {"device"})
      claimed  == Set(fresh, {"claim", "iface"})
      synced   == Then(Then({Res(claimed, "ok"), Res(claimed, "error")}, synchronizeInput), readInfo)
      finished == IF target = "none" THEN synced
                  ELSE Then(synced, LAMBDA z : configureTarget(z, target, FALSE))
      failures == {fresh} \cup {e.x : e \in {e \in finished : e.r # "ok"}}
  IN {Res(IF owned THEN Set(e.x, {"owned"}) ELSE e.x, "ok") : e \in {e \in finished : e.r = "ok"}} \cup
     {Res(Clear(e.x, {"device", "claim"}), "none")
        : e \in CloseOwned(fresh, "device", "file", FALSE) \cup UNION {Close(z, FALSE) : z \in failures}}

=============================================================================
