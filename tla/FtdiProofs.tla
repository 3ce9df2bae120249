----------------------------- MODULE FtdiProofs -----------------------------
(***************************************************************************)
(* An FTDI channel and its receive goroutine (FtdiChannel), one of the     *)
(* Owners: its inductive invariant FtdiInv, kept by every step.            *)
(***************************************************************************)
EXTENDS FtdiAdapter, FiniteSetTheorems, TLAPS

-----------------------------------------------------------------------------

\* A posted read: pending, or completed with a status packet, an error or a byte.
FtdiReads == F!Answers \cup {"pending", "empty", "error"}

\* The posted reads that completed with a byte of an answer.
Filled(s) == {k \in DOMAIN s : s[k] \in F!Answers}

\* How many reads of a sequence have been answered.
Due(s) == Cardinality(Filled(s))

\* Their number is a natural number, and zero when there are none.
LEMMA DueCounts ==
  ASSUME NEW s \in Seq(FtdiReads)
  PROVE  /\ IsFiniteSet(Filled(s)) /\ Due(s) \in Nat
         /\ Due(s) = 0 <=> Filled(s) = {}
<1>1. Len(s) \in Nat /\ Filled(s) \in SUBSET (1 .. Len(s))
  BY DEF Filled
<1>2. IsFiniteSet(1 .. Len(s))
  BY <1>1, FS_Interval
<1>3. IsFiniteSet(Filled(s))
  BY <1>1, <1>2, FS_Subset
<1> QED
  BY <1>3, FS_CardinalityType, FS_EmptySet DEF Due

\* Two sequences with the bytes in the same places have as many.
LEMMA DueSame ==
  ASSUME NEW s, NEW t, Filled(s) = Filled(t)
  PROVE  Due(s) = Due(t)
BY DEF Due

\* A read that is posted holds no byte.
LEMMA DueAppend ==
  ASSUME NEW s \in Seq(FtdiReads)
  PROVE  Append(s, "pending") \in Seq(FtdiReads) /\ Due(Append(s, "pending")) = Due(s)
<1>1. Append(s, "pending") \in Seq(FtdiReads)
  BY DEF FtdiReads
<1>2. Filled(Append(s, "pending")) = Filled(s)
  BY DEF Filled, F!Answers
<1> QED
  BY <1>1, <1>2, DueSame

\* Taking the oldest read takes its byte.
LEMMA DueTail ==
  ASSUME NEW s \in Seq(FtdiReads), s # << >>
  PROVE  /\ Tail(s) \in Seq(FtdiReads)
         /\ Due(Tail(s)) = Due(s) - (IF Head(s) \in F!Answers THEN 1 ELSE 0)
<1> DEFINE T == Filled(Tail(s))
           S == Filled(s) \ {1}
           f == [k \in T |-> k + 1]
<1>1. /\ Len(s) \in Nat \ {0} /\ Tail(s) \in Seq(FtdiReads) /\ Len(Tail(s)) = Len(s) - 1
      /\ \A k \in 1 .. Len(s) - 1 : Tail(s)[k] = s[k + 1]
      /\ DOMAIN s = 1 .. Len(s) /\ DOMAIN Tail(s) = 1 .. Len(s) - 1
      /\ Head(s) = s[1]
  OBVIOUS
<1>2. \A k : k \in T <=> k \in 1 .. Len(s) - 1 /\ s[k + 1] \in F!Answers
  BY <1>1 DEF Filled
<1>3. \A k : k \in S <=> k \in 2 .. Len(s) /\ s[k] \in F!Answers
  BY <1>1 DEF Filled
<1> HIDE DEF T, S
<1>4. f \in [T -> S]
  BY <1>1, <1>2, <1>3
<1>5. \A a, b \in T : f[a] = f[b] => a = b
  BY <1>1, <1>2
<1>6. \A b \in S : \E a \in T : f[a] = b
  <2> SUFFICES ASSUME NEW b \in S PROVE \E a \in T : f[a] = b
    OBVIOUS
  <2>1. b - 1 \in T /\ f[b - 1] = b
    BY <1>1, <1>2, <1>3
  <2> QED
    BY <2>1
<1>7. ExistsBijection(T, S)
  <2>1. DOMAIN f = T
    OBVIOUS
  <2> HIDE DEF f
  <2>2. f \in Injection(T, S)
    BY <1>4, <1>5, <2>1 DEF Injection, IsInjective
  <2>3. f \in Surjection(T, S)
    BY <1>4, <1>6 DEF Surjection
  <2> QED
    BY <2>2, <2>3 DEF ExistsBijection, Bijection
<1>8. IsFiniteSet(T)
  BY <1>1, DueCounts, Zenon DEF T
<1>9. Cardinality(S) = Cardinality(T)
  BY <1>7, <1>8, FS_Bijection
<1>10. IsFiniteSet(Filled(s)) /\ Cardinality(Filled(s)) \in Nat
  BY DueCounts DEF Due
<1>11. 1 \in Filled(s) <=> Head(s) \in F!Answers
  BY <1>1 DEF Filled
<1>12. Cardinality(S) = IF 1 \in Filled(s) THEN Cardinality(Filled(s)) - 1 ELSE Cardinality(Filled(s))
  BY <1>10, FS_RemoveElement, Zenon DEF S
<1>13. Cardinality(S) = Cardinality(Filled(s)) - (IF Head(s) \in F!Answers THEN 1 ELSE 0)
  BY <1>10, <1>11, <1>12
<1> QED
  BY <1>1, <1>9, <1>13 DEF Due, T

\* A pending read that completes holds a byte, or none.
LEMMA DueCompletes ==
  ASSUME NEW s \in Seq(FtdiReads), NEW k \in DOMAIN s, s[k] = "pending", NEW v \in FtdiReads
  PROVE  /\ [s EXCEPT ![k] = v] \in Seq(FtdiReads) /\ Len([s EXCEPT ![k] = v]) = Len(s)
         /\ Due([s EXCEPT ![k] = v]) = Due(s) + (IF v \in F!Answers THEN 1 ELSE 0)
<1> DEFINE t == [s EXCEPT ![k] = v]
<1>1. /\ t \in Seq(FtdiReads) /\ Len(t) = Len(s) /\ DOMAIN t = DOMAIN s /\ k \notin Filled(s)
      /\ t[k] = v /\ \A j \in DOMAIN s : j # k => t[j] = s[j]
  BY DEF Filled, F!Answers
<1> HIDE DEF t
<1>2. IsFiniteSet(Filled(s)) /\ Cardinality(Filled(s)) \in Nat
  BY DueCounts DEF Due
<1>3. CASE v \in F!Answers
  <2>1. Filled(t) = Filled(s) \cup {k}
    BY <1>1, <1>3 DEF Filled
  <2>2. Cardinality(Filled(t)) = Cardinality(Filled(s)) + 1
    BY <1>1, <1>2, <2>1, FS_AddElement, Zenon
  <2> QED
    BY <1>1, <1>3, <2>2 DEF Due, t
<1>4. CASE v \notin F!Answers
  <2>1. Filled(t) = Filled(s)
    BY <1>1, <1>4 DEF Filled, F!Answers
  <2> QED
    BY <1>1, <1>2, <1>4, <2>1 DEF Due, t
<1> QED
  BY <1>3, <1>4

\* Cancelling the pending reads loses no byte.
LEMMA DueSettled ==
  ASSUME NEW s \in Seq(FtdiReads)
  PROVE  /\ F!Settled(s) \in Seq(FtdiReads) /\ Len(F!Settled(s)) = Len(s)
         /\ DOMAIN F!Settled(s) = DOMAIN s
         /\ \A k \in DOMAIN s : F!Settled(s)[k] \in F!Answers => F!Settled(s)[k] = s[k]
         /\ Due(F!Settled(s)) = Due(s)
<1>1. /\ F!Settled(s) \in Seq(FtdiReads) /\ Len(F!Settled(s)) = Len(s)
      /\ DOMAIN F!Settled(s) = DOMAIN s
  BY DEF F!Settled, FtdiReads
<1>2. \A k \in DOMAIN s : F!Settled(s)[k] = IF s[k] = "pending" THEN "error" ELSE s[k]
  BY DEF F!Settled
<1>3. Filled(F!Settled(s)) = Filled(s)
  BY <1>1, <1>2 DEF Filled, F!Answers
<1> QED
  BY <1>1, <1>2, <1>3, DueSame DEF F!Answers

\* No byte is in reads just posted, or in none.
LEMMA DueFresh ==
  /\ << >> \in Seq(FtdiReads) /\ Due(<< >>) = 0 /\ Len(<< >>) = 0
  /\ [k \in 1 .. Depth |-> "pending"] \in Seq(FtdiReads)
  /\ Len([k \in 1 .. Depth |-> "pending"]) = Depth
  /\ Due([k \in 1 .. Depth |-> "pending"]) = 0
<1>1. Depth \in Nat \ {0}
  BY FtdiAssumption
<1> DEFINE s == [k \in 1 .. Depth |-> "pending"]
<1>2. /\ << >> \in Seq(FtdiReads) /\ Len(<< >>) = 0
      /\ s \in Seq(FtdiReads) /\ Len(s) = Depth
  BY <1>1 DEF FtdiReads
<1>3. Filled(<< >>) = {} /\ Filled(s) = {}
  BY <1>1 DEF Filled, F!Answers
<1> HIDE DEF s
<1>4. Due(<< >>) = 0 /\ Due(s) = 0
  BY <1>2, <1>3, DueCounts, Zenon
<1> QED
  BY <1>2, <1>4, Zenon DEF s

-----------------------------------------------------------------------------
\* The byte the goroutine has taken from a read and not yet delivered.
FtdiLive == raw \in F!Answers

\* The payload the receiver has taken from a read and not yet delivered.
FtdiHeld == IF FtdiLive THEN 1 ELSE 0

\* The bytes of an answer on their way to the queue.
FtdiFlight == Len(wire) + Due(reads) + FtdiHeld

\* Nothing is on its way to the queue and nothing is in it.
FtdiClear == FtdiFlight = 0 /\ queue = << >>

\* All of them, and all in the queue, answer the last command.
FtdiMine ==
  /\ \A k \in DOMAIN wire : wire[k] = cmd
  /\ \A k \in DOMAIN reads : reads[k] \in F!Answers => reads[k] = cmd
  /\ FtdiLive => raw = cmd
  /\ \A k \in DOMAIN queue : queue[k] = cmd

\* The types of the state of a channel.
FtdiTypes ==
  /\ on \subseteq F!Flags
  /\ left \in 0 .. Depth /\ got \in 0 .. Depth /\ err \in 0 .. 1
  /\ pc \in {"idle"} \cup F!Opening \cup F!Exchanging \cup F!Closing
  /\ stage \in {"sync", "config", "verify", "use"}
  /\ r \in {"ok", "error"} /\ outcome \in {"none", "nil", "error"}
  /\ g \in {"none", "wait", "check", "submit", "deliver", "report", "send", "done"}
  /\ raw \in F!Answers \cup {"none", "empty"}
  /\ cmd \in F!Answers
  /\ "mixed" \notin on

\* When the receiver holds a payload.
FtdiRaw ==
  /\ g \in {"check", "submit", "deliver"} => raw # "none"
  /\ g \in {"none", "wait"} => raw = "none"

\* The sequences a channel reads and is answered with.
FtdiData ==
  /\ queue \in Seq(F!Answers) /\ reads \in Seq(FtdiReads) /\ wire \in Seq(F!Answers)
  /\ FtdiRaw

\* What the caller's place in a call says of the flags: what it holds is there, the
\* chip is restored or given up before the claim goes, and giving it up is an error.
FtdiLate == {"release", "abort", "join", "claim", "rejoin", "device"}

\* Which resources a channel holds at each step of its calls.
FtdiControl ==
  /\ pc # "idle" => "device" \in on
  /\ "claim" \in on => "device" \in on
  /\ "claimed" \in on => "claim" \in on
  /\ "open" \in on => "claim" \in on
  /\ "open" \in on <=> g # "none"
  /\ "stop" \in on => "open" \in on
  /\ "active" \in on => stage = "use" /\ pc \in {"idle"} \cup F!Exchanging /\ "open" \in on /\ "restored" \notin on
  /\ pc \in F!Exchanging => "open" \in on /\ (stage = "use" => "active" \in on)
  /\ pc = "enter" => "claim" \notin on /\ "mpsse" \notin on
  /\ pc = "post" => "claim" \in on /\ "open" \notin on
  /\ pc \in F!Opening => stage = "sync"
  /\ pc \in {"abort", "join", "rejoin"} => "open" \in on
  /\ pc = "rejoin" => "claimed" \notin on
  /\ pc = "device" => "claim" \notin on
  /\ pc = "claim" => "claim" \in on
  /\ pc \in F!Opening \cup F!Exchanging \cup {"close"} => "restored" \notin on
  /\ pc = "control" => "claim" \in on /\ "restored" \notin on
  /\ "mpsse" \in on => "claim" \in on \/ "restored" \in on
  /\ pc \in FtdiLate => "restored" \in on \/ "claim" \notin on
  /\ "restored" \in on /\ "mpsse" \in on => "told" \in on \/ (pc \in FtdiLate /\ r = "error")

\* Without posted reads there is nothing to deliver.
FtdiResting == "open" \notin on => reads = << >> /\ queue = << >> /\ err = 0

\* The bookkeeping of one response: what is collected, queued and still expected
\* never exceeds the response, no more is in flight than expected, and nothing is
\* when a command is sent.
FtdiResponse ==
  /\ Len(reads) + (IF g \in {"check", "submit"} THEN 1 ELSE 0) <= Depth
  /\ Len(queue) <= Depth
  /\ "receiving" \in on => got + Len(queue) + left <= Depth /\ pc \in F!Exchanging \ {"begin"}
  /\ pc = "read" => got < Depth /\ stage # "config"
  /\ pc \in {"ready", "send", "sent", "read"} /\ stage # "config" => "receiving" \in on
  /\ pc \in {"ready", "send"} /\ stage # "config" => left = Depth
  /\ pc \in {"ready", "send", "sent"} /\ stage # "config" => got = 0
  /\ pc \in F!Opening \cup {"begin", "ready", "send"} => FtdiClear
  /\ pc = "sent" /\ stage = "config" => FtdiClear
  /\ pc \in {"sent", "read"} /\ stage # "config" => FtdiFlight <= left /\ FtdiMine
  /\ pc = "end" /\ (r = "ok" \/ ~F!restorationFailure) => FtdiClear
  /\ pc = "idle" /\ "active" \in on /\ ~F!restorationFailure => FtdiClear

\* The inductive invariant of an FTDI channel.
FtdiInv == FtdiTypes /\ FtdiData /\ FtdiControl /\ FtdiResting /\ FtdiResponse

-----------------------------------------------------------------------------
\* The steps that touch no byte.
FtdiStill == UNCHANGED <<queue, reads, wire, raw, g, cmd>>

\* What a step other than sending a command does to the bytes of answers: none is
\* added, a delivery takes one from those in flight, and each stays what it is.
FtdiFlows ==
  /\ FtdiData'
  /\ FtdiFlight' \in Nat /\ FtdiFlight' <= FtdiFlight
  /\ FtdiMine => FtdiMine'
  /\ FtdiClear => FtdiClear'

\* What is in flight is counted, and is nothing only if no read holds an answer.
LEMMA FtdiFlightNat ==
  ASSUME FtdiData
  PROVE  /\ FtdiFlight \in Nat /\ Len(wire) \in Nat /\ Due(reads) \in Nat /\ FtdiHeld \in 0 .. 1
         /\ FtdiFlight = 0 => wire = << >> /\ ~FtdiLive /\ \A k \in DOMAIN reads : reads[k] \notin F!Answers
<1>1. /\ Len(wire) \in Nat /\ Due(reads) \in Nat /\ FtdiHeld \in 0 .. 1
      /\ Len(wire) = 0 => wire = << >>
      /\ Due(reads) = 0 => Filled(reads) = {}
      /\ FtdiHeld = 0 => ~FtdiLive
  BY DueCounts DEF FtdiData, FtdiHeld
<1>2. FtdiFlight \in Nat /\ (FtdiFlight = 0 => Len(wire) = 0 /\ Due(reads) = 0 /\ FtdiHeld = 0)
  BY <1>1 DEF FtdiFlight
<1> QED
  BY <1>1, <1>2 DEF Filled

\* A step that leaves the data alone moves none of it.
LEMMA FtdiStands ==
  ASSUME FtdiData, FtdiStill
  PROVE  FtdiFlows
<1>1. FtdiData' /\ FtdiFlight' = FtdiFlight /\ (FtdiMine => FtdiMine') /\ (FtdiClear => FtdiClear')
  BY DEF FtdiData, FtdiRaw, FtdiStill, FtdiFlight, FtdiMine, FtdiClear, FtdiHeld, FtdiLive
<1> QED
  BY <1>1, FtdiFlightNat DEF FtdiFlows

\* A response gives up a byte that was queued.
LEMMA FtdiTakes ==
  ASSUME FtdiData, queue # << >>, queue' = Tail(queue), UNCHANGED <<reads, wire, raw, g, cmd>>
  PROVE  FtdiFlows /\ Len(queue') = Len(queue) - 1 /\ Len(queue) \in Nat \ {0}
<1>1. /\ queue' \in Seq(F!Answers) /\ Len(queue') = Len(queue) - 1 /\ Len(queue) \in Nat \ {0}
      /\ \A k \in DOMAIN queue' : k + 1 \in DOMAIN queue /\ queue'[k] = queue[k + 1]
  BY DEF FtdiData
<1>2. FtdiData' /\ FtdiFlight' = FtdiFlight
  BY <1>1 DEF FtdiData, FtdiRaw, FtdiFlight, FtdiHeld, FtdiLive
<1>3. FtdiMine => FtdiMine'
  BY <1>1 DEF FtdiMine, FtdiLive
<1> QED
  BY <1>1, <1>2, <1>3, FtdiFlightNat DEF FtdiFlows, FtdiClear

\* What the chip had to send is lost, or what the goroutine had is dropped.
LEMMA FtdiDrops ==
  ASSUME FtdiData, UNCHANGED <<queue, cmd>>,
         wire' = wire \/ wire' = << >>,
         reads' = reads \/ reads' = F!Settled(reads),
         raw' = raw \/ raw' = "none", FtdiRaw'
  PROVE  FtdiFlows
<1>1. /\ reads' \in Seq(FtdiReads) /\ Due(reads') = Due(reads) /\ DOMAIN reads' = DOMAIN reads
      /\ \A k \in DOMAIN reads' : reads'[k] \in F!Answers => reads'[k] = reads[k]
  BY DueSettled DEF FtdiData
<1>2. /\ wire' \in Seq(F!Answers) /\ Len(wire') \in Nat /\ Len(wire') <= Len(wire) /\ Len(wire) \in Nat
      /\ \A k \in DOMAIN wire' : k \in DOMAIN wire /\ wire'[k] = wire[k]
  <2>1. CASE wire' = wire
    BY <2>1 DEF FtdiData
  <2>2. CASE wire' = << >>
    BY <2>2 DEF FtdiData
  <2> QED
    BY <2>1, <2>2
<1>3. FtdiHeld' \in 0 .. 1 /\ FtdiHeld' <= FtdiHeld
  BY DEF FtdiHeld, FtdiLive, F!Answers
<1>4. FtdiFlight' \in Nat /\ FtdiFlight' <= FtdiFlight
  BY <1>1, <1>2, <1>3, FtdiFlightNat DEF FtdiFlight
<1>5. FtdiMine => FtdiMine'
  BY <1>1, <1>2 DEF FtdiMine, FtdiLive, F!Answers
<1>6. FtdiClear => FtdiClear'
  BY <1>4 DEF FtdiClear
<1> QED
  BY <1>1, <1>2, <1>4, <1>5, <1>6 DEF FtdiFlows, FtdiData

\* The goroutine takes the oldest read, which has completed.
LEMMA FtdiReceives ==
  ASSUME FtdiData, g = "wait", reads # << >>, Head(reads) \notin {"pending", "error"},
         g' = "check", raw' = Head(reads), reads' = Tail(reads), UNCHANGED <<queue, wire, cmd>>
  PROVE  FtdiFlows /\ Len(reads') = Len(reads) - 1 /\ raw' \in F!Answers \cup {"empty"}
<1>1. /\ Len(reads) \in Nat \ {0} /\ reads' \in Seq(FtdiReads) /\ Len(reads') = Len(reads) - 1
      /\ raw' = reads[1] /\ 1 \in DOMAIN reads
      /\ \A k \in DOMAIN reads' : k + 1 \in DOMAIN reads /\ reads'[k] = reads[k + 1]
  BY DEF FtdiData
<1>2. raw' \in F!Answers \cup {"empty"}
  BY <1>1 DEF FtdiData, FtdiReads
<1>3. Due(reads') = Due(reads) - (IF raw' \in F!Answers THEN 1 ELSE 0) /\ Due(reads') \in Nat
  <2>1. reads \in Seq(FtdiReads) /\ Due(reads') \in Nat
    BY Zenon, <1>1, DueCounts DEF FtdiData
  <2>2. Due(reads') = Due(reads) - (IF raw' \in F!Answers THEN 1 ELSE 0)
    BY <2>1, DueTail, Zenon
  <2> QED
    BY <2>1, <2>2
<1>4. FtdiHeld = 0 /\ FtdiHeld' = IF raw' \in F!Answers THEN 1 ELSE 0
  BY DEF FtdiHeld, FtdiLive, FtdiData, FtdiRaw, F!Answers
<1>5. FtdiFlight' = FtdiFlight /\ FtdiFlight \in Nat
  BY <1>3, <1>4, FtdiFlightNat DEF FtdiFlight
<1>6. FtdiMine => FtdiMine'
  BY <1>1 DEF FtdiMine, FtdiLive
<1>7. FtdiData'
  BY <1>1, <1>2 DEF FtdiData, FtdiRaw, F!Answers
<1> QED
  BY <1>1, <1>2, <1>5, <1>6, <1>7 DEF FtdiFlows, FtdiClear

\* It posts another.
LEMMA FtdiPosts ==
  ASSUME FtdiData, g = "submit", g' = "deliver", reads' = Append(reads, "pending"),
         UNCHANGED <<queue, wire, raw, cmd>>
  PROVE  FtdiFlows /\ Len(reads') = Len(reads) + 1
<1>1. /\ Len(reads) \in Nat /\ reads' \in Seq(FtdiReads) /\ Len(reads') = Len(reads) + 1
      /\ \A k \in DOMAIN reads' : reads'[k] \in F!Answers => k \in DOMAIN reads /\ reads'[k] = reads[k]
  BY DueAppend DEF FtdiData, F!Answers
<1>2. Due(reads') = Due(reads)
  BY DueAppend DEF FtdiData
<1>3. FtdiHeld' = FtdiHeld /\ FtdiLive' = FtdiLive
  BY DEF FtdiHeld, FtdiLive
<1>4. FtdiFlight' = FtdiFlight /\ FtdiFlight \in Nat
  BY <1>2, <1>3, FtdiFlightNat DEF FtdiFlight
<1>5. FtdiMine => FtdiMine'
  BY <1>1, <1>3 DEF FtdiMine
<1>6. FtdiData'
  BY <1>1 DEF FtdiData, FtdiRaw
<1> QED
  BY <1>1, <1>4, <1>5, <1>6 DEF FtdiFlows, FtdiClear

\* It delivers a byte, which is no longer in flight.
LEMMA FtdiDelivers ==
  ASSUME FtdiData, g = "deliver", raw \in F!Answers, g' = "wait", raw' = "none",
         queue' = Append(queue, raw), UNCHANGED <<reads, wire, cmd>>
  PROVE  /\ FtdiFlows /\ FtdiFlight' = FtdiFlight - 1 /\ ~FtdiClear
         /\ Len(queue) \in Nat /\ Len(queue') = Len(queue) + 1
<1>1. /\ Len(queue) \in Nat /\ queue' \in Seq(F!Answers) /\ Len(queue') = Len(queue) + 1
      /\ \A k \in DOMAIN queue' : queue'[k] = raw \/ (k \in DOMAIN queue /\ queue'[k] = queue[k])
  BY DEF FtdiData
<1>2. FtdiHeld = 1 /\ FtdiHeld' = 0 /\ FtdiLive /\ ~FtdiLive'
  BY DEF FtdiHeld, FtdiLive, F!Answers
<1>3. FtdiFlight' = FtdiFlight - 1 /\ FtdiFlight \in Nat /\ FtdiFlight' \in Nat
  BY <1>2, FtdiFlightNat DEF FtdiFlight
<1>4. FtdiMine => FtdiMine'
  BY <1>1, <1>2 DEF FtdiMine
<1>5. FtdiData'
  BY <1>1 DEF FtdiData, FtdiRaw
<1> QED
  BY <1>1, <1>3, <1>4, <1>5 DEF FtdiFlows, FtdiClear

\* The chip completes a read.
LEMMA FtdiCompletes ==
  ASSUME FtdiData, F!CompleteRead
  PROVE  FtdiFlows /\ Len(reads') = Len(reads)
<1> PICK k \in DOMAIN reads : /\ reads[k] = "pending"
                             /\ \/ reads' = [reads EXCEPT ![k] = "empty"] /\ UNCHANGED wire
                                \/ wire # << >> /\ reads' = [reads EXCEPT ![k] = Head(wire)] /\ wire' = Tail(wire)
                                \/ reads' = [reads EXCEPT ![k] = "error"] /\ UNCHANGED wire
                             /\ UNCHANGED <<queue, raw, g, cmd>>
  BY DEF F!CompleteRead, F!shared, F!goroutine
<1>1. FtdiHeld' = FtdiHeld /\ FtdiLive' = FtdiLive /\ reads \in Seq(FtdiReads)
  BY DEF FtdiHeld, FtdiLive, FtdiData
<1>2. CASE wire # << >> /\ reads' = [reads EXCEPT ![k] = Head(wire)] /\ wire' = Tail(wire)
  <2>1. /\ Len(wire) \in Nat \ {0} /\ wire' \in Seq(F!Answers) /\ Len(wire') = Len(wire) - 1
        /\ Head(wire) \in F!Answers /\ Head(wire) = wire[1] /\ 1 \in DOMAIN wire
        /\ \A j \in DOMAIN wire' : j + 1 \in DOMAIN wire /\ wire'[j] = wire[j + 1]
    BY <1>2 DEF FtdiData
  <2>2. reads' \in Seq(FtdiReads) /\ Len(reads') = Len(reads) /\ Due(reads') = Due(reads) + 1
    <3>1. Head(wire) \in FtdiReads
      BY <2>1 DEF FtdiReads
    <3>2. /\ reads' \in Seq(FtdiReads) /\ Len(reads') = Len(reads)
          /\ Due(reads') = Due(reads) + (IF Head(wire) \in F!Answers THEN 1 ELSE 0)
      BY <1>1, <1>2, <3>1, DueCompletes, Zenon
    <3> QED
      BY <2>1, <3>2
  <2>3. \A j \in DOMAIN reads' : j \in DOMAIN reads /\ (reads'[j] = wire[1] \/ reads'[j] = reads[j])
    BY Zenon, <1>1, <1>2, <2>1
  <2>4. FtdiFlight' = FtdiFlight /\ FtdiFlight \in Nat
    BY <1>1, <2>1, <2>2, FtdiFlightNat DEF FtdiFlight
  <2>5. FtdiMine => FtdiMine'
    BY <1>1, <2>1, <2>3 DEF FtdiMine
  <2>6. FtdiData'
    BY <2>1, <2>2 DEF FtdiData, FtdiRaw
  <2> QED
    BY <2>2, <2>4, <2>5, <2>6 DEF FtdiFlows, FtdiClear
<1>3. ASSUME NEW v \in {"empty", "error"}, reads' = [reads EXCEPT ![k] = v], UNCHANGED wire
      PROVE  FtdiFlows /\ Len(reads') = Len(reads)
  <2>1. v \in FtdiReads /\ v \notin F!Answers
    BY DEF FtdiReads, F!Answers
  <2>7. /\ reads' \in Seq(FtdiReads) /\ Len(reads') = Len(reads)
        /\ Due(reads') = Due(reads) + (IF v \in F!Answers THEN 1 ELSE 0)
    BY <1>1, <1>3, <2>1, DueCompletes, Zenon
  <2>2. reads' \in Seq(FtdiReads) /\ Len(reads') = Len(reads) /\ Due(reads') = Due(reads) /\ Due(reads) \in Nat
    BY <1>1, <2>1, <2>7, DueCounts
  <2>3. \A j \in DOMAIN reads' : j \in DOMAIN reads /\ (reads'[j] = v \/ reads'[j] = reads[j])
    BY <1>1, <1>3
  <2>4. FtdiFlight' = FtdiFlight /\ FtdiFlight \in Nat
    BY <1>1, <1>3, <2>2, FtdiFlightNat DEF FtdiFlight
  <2>5. FtdiMine => FtdiMine'
    BY <1>1, <1>3, <2>1, <2>3 DEF FtdiMine
  <2>6. FtdiData'
    BY <1>3, <2>2 DEF FtdiData, FtdiRaw
  <2> QED
    BY <2>2, <2>4, <2>5, <2>6 DEF FtdiFlows, FtdiClear
<1> QED
  BY <1>2, <1>3

\* A command is sent while nothing is in flight: its answer is all there is.
LEMMA FtdiSends ==
  ASSUME FtdiData, FtdiClear, cmd \in F!Answers, cmd' = F!Other(cmd),
         wire' = wire \o [k \in 1 .. Depth |-> F!Other(cmd)], UNCHANGED <<queue, reads, raw, g>>
  PROVE  FtdiData' /\ FtdiFlight' = Depth /\ FtdiMine' /\ cmd' \in F!Answers
<1> DEFINE answer == [k \in 1 .. Depth |-> F!Other(cmd)]
<1>1. cmd' \in F!Answers /\ Depth \in Nat
  BY FtdiAssumption DEF F!Other, F!Answers
<1>2. answer \in Seq(F!Answers) /\ Len(answer) = Depth /\ \A k \in DOMAIN answer : answer[k] = cmd'
  BY <1>1
<1> HIDE DEF answer
<1>3. wire = << >> /\ ~FtdiLive /\ FtdiHeld = 0 /\ Due(reads) = 0 /\ \A k \in DOMAIN reads : reads[k] \notin F!Answers
  BY FtdiFlightNat DEF FtdiClear, FtdiFlight, FtdiHeld
<1>4. wire' = answer
  BY <1>2, <1>3 DEF answer
<1>5. FtdiLive' = FtdiLive /\ FtdiHeld' = 0 /\ Due(reads') = 0
  BY <1>3 DEF FtdiLive, FtdiHeld
<1>6. FtdiFlight' = Depth
  BY <1>1, <1>2, <1>4, <1>5 DEF FtdiFlight
<1>7. queue' = << >>
  BY DEF FtdiClear
<1>8. FtdiMine'
  BY <1>2, <1>3, <1>4, <1>5, <1>7 DEF FtdiMine
<1>9. FtdiData'
  BY Zenon, <1>2, <1>4 DEF FtdiData, FtdiRaw
<1> QED
  BY <1>1, <1>6, <1>8, <1>9

\* The reads are posted, or are gone and with them the queue.
LEMMA FtdiRenews ==
  ASSUME FtdiData, UNCHANGED <<wire, cmd>>, raw' = "none", FtdiRaw',
         queue' = queue \/ queue' = << >>,
         reads' = << >> \/ reads' = [k \in 1 .. Depth |-> "pending"]
  PROVE  FtdiFlows /\ Len(reads') \in 0 .. Depth
<1>1. /\ reads' \in Seq(FtdiReads) /\ Due(reads') = 0 /\ Len(reads') \in 0 .. Depth
      /\ \A k \in DOMAIN reads' : reads'[k] \notin F!Answers
  <2>1. reads' \in Seq(FtdiReads) /\ Due(reads') = 0 /\ Len(reads') \in 0 .. Depth
    <3>1. Depth \in Nat
      BY FtdiAssumption
    <3>2. CASE reads' = << >>
      BY <3>1, <3>2, DueFresh
    <3>3. CASE reads' = [k \in 1 .. Depth |-> "pending"]
      <4>1. reads' \in Seq(FtdiReads) /\ Due(reads') = 0 /\ Len(reads') = Depth
        BY <3>3, DueFresh, Zenon
      <4> QED
        BY <3>1, <4>1
    <3> QED
      BY <3>2, <3>3
  <2> QED
    BY Zenon, <2>1, DueCounts DEF Filled
<1>2. ~FtdiLive' /\ FtdiHeld' = 0
  BY DEF FtdiLive, FtdiHeld, F!Answers
<1>3. FtdiFlight' \in Nat /\ FtdiFlight' <= FtdiFlight
  BY <1>1, <1>2, FtdiFlightNat DEF FtdiFlight
<1>4. queue' \in Seq(F!Answers) /\ \A k \in DOMAIN queue' : k \in DOMAIN queue /\ queue'[k] = queue[k]
  <2>1. CASE queue' = queue
    BY <2>1 DEF FtdiData
  <2>2. CASE queue' = << >>
    BY <2>2 DEF FtdiData
  <2> QED
    BY <2>1, <2>2
<1>5. FtdiMine => FtdiMine'
  BY <1>1, <1>2, <1>4 DEF FtdiMine
<1>6. FtdiClear => FtdiClear'
  BY <1>3, FtdiFlightNat DEF FtdiClear
<1>7. FtdiData'
  BY <1>1, <1>4 DEF FtdiData
<1> QED
  BY <1>1, <1>3, <1>5, <1>6, <1>7 DEF FtdiFlows

-----------------------------------------------------------------------------
\* Every step keeps the invariant.

\* What a step keeps: the invariant, and the contract of an adapter session.
FtdiAble == F!RestorationPossible

\* A step keeps the invariant and the contract.
FtdiKeeps == FtdiInv' /\ Keeps("device" \in on, FtdiAble, outcome, "device" \in on', FtdiAble', outcome')

\* The invariant holds before a channel is opened.
LEMMA FtdiStarts == F!Init => FtdiInv /\ "device" \notin on /\ ~FtdiAble /\ outcome = "none"
<1> SUFFICES ASSUME F!Init PROVE FtdiInv /\ "device" \notin on /\ ~FtdiAble /\ outcome = "none"
  OBVIOUS
<1>1. Depth \in Nat \ {0}
  BY FtdiAssumption
<1>2. FtdiTypes
  BY <1>1 DEF F!Init, FtdiTypes, F!Answers
<1>3. FtdiData
  BY DueFresh DEF F!Init, FtdiData, FtdiRaw
<1>4. FtdiControl
  BY DEF F!Init, FtdiControl, F!Opening, F!Exchanging, FtdiLate
<1>5. FtdiResting
  BY DEF F!Init, FtdiResting
<1>6. FtdiResponse
  BY <1>1 DEF F!Init, FtdiResponse, F!Opening, F!Exchanging
<1> QED
  BY <1>2, <1>3, <1>4, <1>5, <1>6 DEF F!Init, FtdiInv, FtdiAble, F!RestorationPossible, F!Is

\* NewChannel keeps them.
LEMMA FtdiNewChannel == ASSUME FtdiInv, F!NewChannel PROVE FtdiKeeps
<1>1. /\ pc = "idle" /\ "device" \notin on /\ on' \subseteq {"device", "calm"} /\ "device" \in on'
      /\ pc' = "enter" /\ stage' = "sync" /\ r' = "ok" /\ outcome' = "none" /\ left' = 0 /\ wire' = << >>
      /\ UNCHANGED <<queue, err, got, g, raw, reads, cmd>>
  BY DEF F!NewChannel, F!Is, F!goroutine
<1>2. FtdiFlows
  BY <1>1, FtdiDrops DEF FtdiInv, FtdiData, FtdiRaw
<1>3. "open" \notin on /\ "claim" \notin on /\ g = "none" /\ queue = << >> /\ reads = << >> /\ err = 0
  BY <1>1 DEF FtdiInv, FtdiControl, FtdiResting
<1>4. FtdiTypes'
  BY <1>1, FtdiAssumption DEF FtdiInv, FtdiTypes, F!Flags, F!Opening
<1>5. FtdiControl'
  BY <1>1, <1>3 DEF FtdiControl, F!Opening, F!Exchanging, FtdiLate
<1>6. FtdiResting'
  BY <1>1, <1>3 DEF FtdiResting
<1>7. FtdiFlight' = 0
  <2>1. Due(reads') = 0 /\ Len(wire') = 0
    BY <1>1, <1>3, DueFresh
  <2>2. FtdiHeld' = 0
    BY <1>1, <1>3 DEF FtdiInv, FtdiData, FtdiRaw, FtdiHeld, FtdiLive, F!Answers
  <2> QED
    BY <2>1, <2>2 DEF FtdiFlight
<1>8. FtdiResponse'
  BY <1>1, <1>3, <1>7, FtdiAssumption DEF FtdiResponse, FtdiClear, F!Opening, F!Exchanging
<1> QED
  BY <1>1, <1>2, <1>4, <1>5, <1>6, <1>8 DEF FtdiKeeps, FtdiInv, FtdiFlows, Keeps

\* The steps of Open.
LEMMA FtdiEnter == ASSUME FtdiInv, F!enterMPSSE PROVE FtdiKeeps
<1>1. /\ pc = "enter" /\ pc' \in {"post", "close"} /\ on \subseteq on'
      /\ on' \subseteq on \cup {"claim", "claimed", "mpsse", "gone"}
      /\ "claimed" \in on' => "claim" \in on'
      /\ "mpsse" \in on' => "claim" \in on' \/ "mpsse" \in on
      /\ pc' = "post" => "claim" \in on'
      /\ UNCHANGED <<left, queue, err, stage, got, r, outcome, g, raw, reads, wire, cmd>>
  BY DEF F!enterMPSSE, F!Is, F!Lost, F!Returns, F!goroutine, F!chip, FtdiInv, FtdiControl
<1>2. FtdiFlows
  BY <1>1, FtdiStands DEF FtdiInv, FtdiStill
<1>3. FtdiTypes'
  BY <1>1 DEF FtdiInv, FtdiTypes, F!Flags, F!Opening, F!Closing
<1>4. FtdiControl'
  BY <1>1 DEF FtdiInv, FtdiControl, F!Opening, F!Exchanging, FtdiLate
<1>5. FtdiResting'
  BY <1>1 DEF FtdiInv, FtdiResting
<1>6. FtdiResponse'
  BY <1>1, <1>2 DEF FtdiInv, FtdiResponse, FtdiFlows, F!Opening, F!Exchanging
<1>7. "device" \in on /\ "device" \in on' /\ (FtdiAble' => FtdiAble)
  BY <1>1 DEF FtdiInv, FtdiControl, FtdiAble, F!RestorationPossible, F!restorationFailure, F!Is
<1> QED
  BY <1>1, <1>2, <1>3, <1>4, <1>5, <1>6, <1>7 DEF FtdiKeeps, FtdiInv, FtdiFlows, Keeps

\* openUSBTransfers keeps them.
LEMMA FtdiOpen == ASSUME FtdiInv, F!openUSBTransfers PROVE FtdiKeeps
<1>0. Depth \in Nat \ {0}
  BY FtdiAssumption
<1>1. /\ pc = "post" /\ stage = "sync" /\ "claim" \in on /\ "open" \notin on /\ "device" \in on /\ g = "none"
      /\ "active" \notin on /\ "receiving" \notin on /\ "restored" \notin on /\ reads = << >> /\ queue = << >>
      /\ err = 0 /\ FtdiClear
  BY DEF FtdiInv, FtdiControl, FtdiResting, FtdiResponse, F!openUSBTransfers, F!Opening, F!Exchanging
<1>2. CASE /\ on' = on \cup {"open"} /\ reads' = [k \in 1 .. Depth |-> "pending"] /\ g' = "wait" /\ pc' = "begin"
           /\ UNCHANGED <<left, queue, err, stage, got, r, outcome, raw, wire, cmd>>
  <2>1. FtdiFlows /\ Len(reads') \in 0 .. Depth
    BY Zenon, <1>1, <1>2, FtdiRenews DEF FtdiInv, FtdiData, FtdiRaw
  <2>2. FtdiTypes'
    BY <1>2 DEF FtdiInv, FtdiTypes, F!Flags, F!Exchanging
  <2>3. FtdiControl'
    BY <1>1, <1>2 DEF FtdiInv, FtdiControl, F!Opening, F!Exchanging, FtdiLate
  <2>4. FtdiResting'
    BY <1>2 DEF FtdiResting
  <2>5. FtdiResponse'
    BY <1>0, <1>1, <1>2, <2>1 DEF FtdiInv, FtdiResponse, FtdiFlows, F!Opening, F!Exchanging
  <2>6. FtdiAble' => FtdiAble
    BY <1>2 DEF FtdiAble, F!RestorationPossible, F!restorationFailure, F!Is
  <2> QED
    BY <1>1, <1>2, <2>1, <2>2, <2>3, <2>4, <2>5, <2>6 DEF FtdiKeeps, FtdiInv, FtdiFlows, Keeps
<1>3. CASE /\ on \subseteq on' /\ on' \subseteq on \cup {"gone"} /\ pc' = "close"
           /\ UNCHANGED <<left, queue, err, stage, got, r, outcome, raw, wire, cmd, reads, g>>
  <2>1. FtdiFlows
    BY <1>3, FtdiStands DEF FtdiInv, FtdiStill
  <2>2. FtdiTypes'
    BY <1>3 DEF FtdiInv, FtdiTypes, F!Flags, F!Closing
  <2>3. FtdiControl'
    BY <1>1, <1>3 DEF FtdiInv, FtdiControl, F!Opening, F!Exchanging, FtdiLate
  <2>4. FtdiResting'
    BY <1>1, <1>3 DEF FtdiResting
  <2>5. FtdiResponse'
    BY <1>0, <1>1, <1>3, <2>1 DEF FtdiInv, FtdiResponse, FtdiFlows, F!Opening, F!Exchanging
  <2>6. FtdiAble' => FtdiAble
    BY <1>3 DEF FtdiAble, F!RestorationPossible, F!restorationFailure, F!Is
  <2> QED
    BY <1>1, <1>3, <2>1, <2>2, <2>3, <2>4, <2>5, <2>6 DEF FtdiKeeps, FtdiInv, FtdiFlows, Keeps
<1> QED
  BY <1>2, <1>3 DEF F!openUSBTransfers, F!Lost

\* The steps of an exchange.
LEMMA FtdiClock == ASSUME FtdiInv, F!clockStream PROVE FtdiKeeps
<1>1. /\ pc = "idle" /\ "active" \in on /\ ~F!restorationFailure /\ pc' = "begin" /\ r' = "ok"
      /\ UNCHANGED <<on, left, queue, err, stage, got, outcome, g, raw, reads, wire, cmd>>
  BY DEF F!clockStream, F!Is, F!shared, F!goroutine, F!chip
<1>2. FtdiFlows
  BY <1>1, FtdiStands DEF FtdiInv, FtdiStill
<1>3. FtdiTypes'
  BY <1>1 DEF FtdiInv, FtdiTypes, F!Exchanging
<1>4. FtdiControl'
  BY <1>1 DEF FtdiInv, FtdiControl, F!Opening, F!Exchanging, FtdiLate
<1>5. FtdiResting'
  BY <1>1 DEF FtdiInv, FtdiResting
<1>6. FtdiResponse'
  BY <1>1, <1>2 DEF FtdiInv, FtdiResponse, FtdiFlows, F!Opening, F!Exchanging
<1>7. FtdiAble' = FtdiAble
  BY <1>1 DEF FtdiAble, F!RestorationPossible, F!restorationFailure, F!Is
<1> QED
  BY <1>1, <1>2, <1>3, <1>4, <1>5, <1>6, <1>7 DEF FtdiKeeps, FtdiInv, FtdiFlows, Keeps

\* The exchange ends early, or goes on, with no byte touched.
FtdiExchanges(places) ==
  /\ pc \in F!Exchanging /\ pc' \in places
  /\ on \subseteq on' /\ on' \subseteq on \cup {"poisoned", "receiving"}
  /\ r' \in {"ok", "error"}
  /\ UNCHANGED <<stage, outcome, g, cmd>>

\* What no step of an exchange before its end disturbs.
LEMMA FtdiMoves ==
  ASSUME FtdiInv, FtdiExchanges(F!Exchanging)
  PROVE  /\ FtdiControl' /\ "open" \in on /\ "open" \in on' /\ (FtdiAble' => FtdiAble)
         /\ "device" \in on /\ "device" \in on'
         /\ on' \subseteq F!Flags /\ "mixed" \notin on' /\ FtdiResting'
<1>1. FtdiControl'
  BY DEF FtdiInv, FtdiControl, FtdiExchanges, F!Opening, F!Exchanging, FtdiLate
<1>2. "open" \in on /\ "open" \in on' /\ "device" \in on /\ "device" \in on'
  BY DEF FtdiInv, FtdiControl, FtdiExchanges, F!Exchanging
<1>3. FtdiAble' => FtdiAble
  BY <1>2 DEF FtdiExchanges, FtdiAble, F!RestorationPossible, F!restorationFailure, F!Is
<1>4. on' \subseteq F!Flags /\ "mixed" \notin on'
  BY DEF FtdiInv, FtdiTypes, FtdiExchanges, F!Flags
<1> QED
  BY <1>1, <1>2, <1>3, <1>4 DEF FtdiResting

\* beginResponse keeps them.
LEMMA FtdiBegin == ASSUME FtdiInv, F!beginResponse PROVE FtdiKeeps
<1>0. Depth \in Nat \ {0}
  BY FtdiAssumption
<1>1. pc = "begin" /\ FtdiClear /\ queue = << >> /\ got' = 0 /\ UNCHANGED <<stage, outcome, g, raw, reads, wire, cmd>>
  BY DEF F!beginResponse, FtdiInv, FtdiResponse, FtdiClear, F!goroutine, F!chip
<1>2. \/ err > 0 /\ err' = err - 1 /\ r' = "error" /\ on' = on \cup {"poisoned"} /\ pc' = "end" /\ UNCHANGED <<left, queue>>
      \/ left' = Depth /\ on' = on \cup {"receiving"} /\ pc' = "ready" /\ UNCHANGED <<queue, err, r>>
  BY <1>1 DEF F!beginResponse, F!Fail
<1>3. FtdiExchanges(F!Exchanging)
  BY <1>1, <1>2 DEF FtdiExchanges, F!Exchanging, FtdiInv, FtdiTypes
<1>4. FtdiFlows
  BY <1>1, <1>2, FtdiStands DEF FtdiInv, FtdiStill
<1>5. FtdiTypes'
  BY <1>0, <1>1, <1>2, <1>3, FtdiMoves DEF FtdiInv, FtdiTypes, F!Exchanging
<1>6. FtdiResponse'
  BY <1>0, <1>1, <1>2, <1>4 DEF FtdiInv, FtdiResponse, FtdiFlows, FtdiClear, F!Opening, F!Exchanging, F!restorationFailure, F!Is
<1> QED
  BY <1>1, <1>3, <1>4, <1>5, <1>6, FtdiMoves DEF FtdiKeeps, FtdiInv, FtdiFlows, Keeps

\* The check before a write keeps them.
LEMMA FtdiReady == ASSUME FtdiInv, F!writeReady PROVE FtdiKeeps
<1>1. /\ pc = "ready" /\ UNCHANGED <<left, queue, err, stage, got, outcome, g, raw, reads, wire, cmd>>
      /\ \/ pc' = "send" /\ UNCHANGED <<r, on>>
         \/ pc' = "end" /\ r' = "error" /\ UNCHANGED on
  BY DEF F!writeReady, F!Fail, F!goroutine, F!chip
<1>2. FtdiExchanges(F!Exchanging)
  BY <1>1 DEF FtdiExchanges, F!Exchanging, FtdiInv, FtdiTypes
<1>3. FtdiFlows
  BY <1>1, FtdiStands DEF FtdiInv, FtdiStill
<1>4. FtdiTypes'
  BY <1>1, <1>2, FtdiMoves DEF FtdiInv, FtdiTypes, F!Exchanging
<1>5. FtdiResponse'
  BY <1>1, <1>3 DEF FtdiInv, FtdiResponse, FtdiFlows, F!Opening, F!Exchanging
<1> QED
  BY <1>1, <1>2, <1>3, <1>4, <1>5, FtdiMoves DEF FtdiKeeps, FtdiInv, FtdiFlows, Keeps

\* A bulk write, answered or not, keeps them.
LEMMA FtdiWrite == ASSUME FtdiInv, F!bulkWrite PROVE FtdiKeeps
<1>0. Depth \in Nat \ {0} /\ cmd \in F!Answers
  BY FtdiAssumption DEF FtdiInv, FtdiTypes
<1>1. PICK e \in F!Returns, received \in BOOLEAN :
        /\ pc = "send" /\ UNCHANGED <<left, queue, err, stage, got, outcome, g, raw, reads>>
        /\ IF received /\ stage # "config"
           THEN cmd' = F!Other(cmd) /\ wire' = wire \o [k \in 1 .. Depth |-> F!Other(cmd)]
           ELSE UNCHANGED <<cmd, wire>>
        /\ \/ pc' = "sent" /\ UNCHANGED <<r, on>>
           \/ pc' = "end" /\ r' = "error" /\ on' = on \cup {"poisoned"}
  BY Zenon DEF F!bulkWrite, F!Fail, F!goroutine
<1>2. FtdiClear /\ (stage # "config" => "receiving" \in on /\ left = Depth)
  BY <1>1 DEF FtdiInv, FtdiResponse
<1>3. \/ stage # "config" /\ FtdiFlight' = Depth /\ FtdiData' /\ FtdiMine' /\ cmd' \in F!Answers
      \/ FtdiFlight' = 0 /\ FtdiData' /\ FtdiClear' /\ FtdiMine' /\ cmd' = cmd
  <2>1. CASE received /\ stage # "config"
    <3>1. cmd' = F!Other(cmd) /\ wire' = wire \o [k \in 1 .. Depth |-> F!Other(cmd)] /\ UNCHANGED <<queue, reads, raw, g>>
      BY Zenon, <1>1, <2>1
    <3> QED
      BY <1>0, <1>2, <2>1, <3>1, FtdiSends DEF FtdiInv
  <2>2. CASE ~(received /\ stage # "config")
    <3>1. FtdiStill
      BY <1>1, <2>2 DEF FtdiStill
    <3>2. FtdiFlows
      BY <3>1, FtdiStands DEF FtdiInv
    <3>3. FtdiClear' /\ FtdiData' /\ FtdiFlight' = 0 /\ cmd' = cmd /\ queue' = << >>
      BY <1>2, <3>1, <3>2 DEF FtdiFlows, FtdiClear, FtdiStill
    <3>4. FtdiMine'
      <4>1. wire' = << >> /\ ~FtdiLive' /\ \A k \in DOMAIN reads' : reads'[k] \notin F!Answers
        BY <1>2, <3>1, FtdiFlightNat DEF FtdiInv, FtdiClear, FtdiStill, FtdiLive
      <4> QED
        BY <3>3, <4>1 DEF FtdiMine
    <3> QED
      BY <3>3, <3>4
  <2> QED
    BY <2>1, <2>2
<1>4. FtdiControl' /\ FtdiTypes' /\ FtdiResting'
  <2>1. /\ on \subseteq on' /\ on' \subseteq on \cup {"poisoned"} /\ pc' \in F!Exchanging /\ r' \in {"ok", "error"}
        /\ cmd' \in F!Answers /\ UNCHANGED <<left, queue, err, stage, got, outcome, g, raw, reads>>
    BY <1>0, <1>1, <1>3 DEF F!Exchanging, FtdiInv, FtdiTypes
  <2>2. FtdiTypes'
    BY <2>1 DEF FtdiInv, FtdiTypes, F!Flags
  <2>3. FtdiControl'
    BY <1>1, <2>1 DEF FtdiInv, FtdiControl, F!Opening, F!Exchanging, FtdiLate
  <2> QED
    BY <2>1, <2>2, <2>3 DEF FtdiInv, FtdiResting
<1>5. FtdiResponse'
  BY <1>0, <1>1, <1>2, <1>3 DEF FtdiInv, FtdiResponse, F!Opening, F!Exchanging, F!restorationFailure, F!Is
<1>6. "device" \in on /\ "device" \in on' /\ (FtdiAble' => FtdiAble)
  BY <1>1 DEF FtdiInv, FtdiControl, FtdiAble, F!RestorationPossible, F!restorationFailure, F!Is, F!Exchanging
<1> QED
  BY <1>1, <1>3, <1>4, <1>5, <1>6 DEF FtdiKeeps, FtdiInv, Keeps

\* The end of a write keeps them.
LEMMA FtdiSent == ASSUME FtdiInv, F!writeDone PROVE FtdiKeeps
<1>0. Depth \in Nat \ {0}
  BY FtdiAssumption
<1>1. /\ pc = "sent" /\ UNCHANGED <<left, queue, err, stage, got, outcome, g, raw, reads, wire, cmd>>
      /\ \/ F!restorationFailure /\ pc' = "end" /\ r' = "error" /\ UNCHANGED on
         \/ stage = "config" /\ pc' = "end" /\ UNCHANGED <<r, on>>
         \/ stage # "config" /\ pc' = "read" /\ UNCHANGED <<r, on>>
         \/ pc' = "end" /\ r' = "error" /\ on' = on \cup {"poisoned"}
  BY DEF F!writeDone, F!Fail, F!goroutine, F!chip
<1>2. FtdiExchanges(F!Exchanging)
  BY <1>1 DEF FtdiExchanges, F!Exchanging, FtdiInv, FtdiTypes
<1>3. FtdiFlows
  BY <1>1, FtdiStands DEF FtdiInv, FtdiStill
<1>4. FtdiTypes'
  BY <1>1, <1>2, FtdiMoves DEF FtdiInv, FtdiTypes, F!Exchanging
<1>5. FtdiResponse'
  <2>1. CASE stage = "config"
    BY <1>0, <1>1, <1>3, <2>1 DEF FtdiInv, FtdiResponse, FtdiFlows, F!Opening, F!Exchanging
  <2>2. CASE stage # "config"
    <3>1. pc' = "end" => r' = "error" /\ F!restorationFailure'
      BY <1>1, <2>2 DEF F!restorationFailure, F!Is
    <3>2. /\ FtdiFlight <= left /\ FtdiMine /\ got = 0 /\ "receiving" \in on /\ on \subseteq on'
          /\ on' \subseteq on \cup {"poisoned"} /\ pc' \in {"read", "end"}
      BY <1>1, <2>2 DEF FtdiInv, FtdiResponse
    <3>3. left \in Nat /\ FtdiFlight \in Nat
      BY <1>0, FtdiFlightNat DEF FtdiInv, FtdiTypes
    <3> QED
      BY <1>0, <1>1, <1>3, <2>2, <3>1, <3>2, <3>3 DEF FtdiInv, FtdiResponse, FtdiFlows, F!Opening, F!Exchanging
  <2> QED
    BY <2>1, <2>2
<1> QED
  BY <1>1, <1>2, <1>3, <1>4, <1>5, FtdiMoves DEF FtdiKeeps, FtdiInv, FtdiFlows, Keeps

\* A payload that is taken from the queue keeps them.
LEMMA FtdiTake == ASSUME FtdiInv, F!takePayload PROVE FtdiKeeps
<1>0. Depth \in Nat \ {0}
  BY FtdiAssumption
<1>1. /\ pc = "read" /\ queue # << >> /\ queue' = Tail(queue) /\ got' = got + 1
      /\ pc' = (IF got + 1 = Depth THEN "end" ELSE "read")
      /\ UNCHANGED <<left, err, stage, r, outcome, g, raw, reads, wire, cmd>>
  BY DEF F!takePayload, F!goroutine, F!chip
<1>2. FtdiFlows /\ Len(queue') = Len(queue) - 1 /\ Len(queue) \in Nat \ {0}
  BY <1>1, FtdiTakes DEF FtdiInv
<1>3. FtdiMine /\ FtdiFlight <= left /\ got < Depth /\ "receiving" \in on /\ got + Len(queue) + left <= Depth /\ stage # "config"
  BY <1>1 DEF FtdiInv, FtdiResponse
<1>4. Head(queue) = cmd
  BY <1>1, <1>3 DEF FtdiMine, FtdiInv, FtdiData
<1>5. on' = on
  BY <1>4 DEF F!takePayload
<1>6. FtdiExchanges(F!Exchanging)
  BY <1>1, <1>5 DEF FtdiExchanges, F!Exchanging, FtdiInv, FtdiTypes
<1>7. FtdiTypes'
  BY <1>0, <1>1, <1>3, <1>6, FtdiMoves DEF FtdiInv, FtdiTypes, F!Exchanging
<1>8. left \in Nat /\ got \in Nat /\ FtdiFlight \in Nat
  BY <1>0, FtdiFlightNat DEF FtdiInv, FtdiTypes
<1>9. got' = Depth => FtdiFlight' = 0 /\ queue' = << >>
  <2> DEFINE n == Len(queue)
             m == Len(queue')
             f == FtdiFlight
             k == FtdiFlight'
  <2>1. /\ n \in Nat \ {0} /\ m = n - 1 /\ k \in Nat /\ k <= f /\ f <= left /\ f \in Nat
        /\ got + n + left <= Depth /\ got' = got + 1
    BY <1>1, <1>2, <1>3, <1>8 DEF FtdiFlows
  <2>3. m = 0 => queue' = << >>
    BY <1>2 DEF FtdiFlows, FtdiData
  <2> HIDE DEF n, m, f, k
  <2>2. got' = Depth => k = 0 /\ m = 0
    BY <1>0, <1>8, <2>1
  <2> QED
    BY <2>2, <2>3 DEF k
<1>10. Len(reads') = Len(reads)
  BY <1>1
<1>11. FtdiResponse'
  BY <1>0, <1>1, <1>2, <1>3, <1>5, <1>8, <1>9, <1>10 DEF FtdiInv, FtdiResponse, FtdiFlows, FtdiClear, F!Opening, F!Exchanging
<1> QED
  BY <1>1, <1>2, <1>6, <1>7, <1>11, FtdiMoves DEF FtdiKeeps, FtdiInv, FtdiFlows, Keeps

\* An error or the end of the context.
LEMMA FtdiBreaks ==
  ASSUME FtdiInv, pc = "read", pc' = "end", r' = "error", on' = on \cup {"poisoned"}, err' \in 0 .. 1,
         UNCHANGED <<left, queue, stage, got, outcome, g, raw, reads, wire, cmd>>
  PROVE  FtdiKeeps
<1>1. FtdiExchanges(F!Exchanging)
  BY DEF FtdiExchanges, F!Exchanging, FtdiInv, FtdiTypes
<1>2. FtdiFlows
  BY FtdiStands DEF FtdiInv, FtdiStill
<1>3. FtdiTypes'
  BY <1>1, FtdiMoves DEF FtdiInv, FtdiTypes, F!Exchanging
<1>4. FtdiResponse'
  BY <1>2 DEF FtdiInv, FtdiResponse, FtdiFlows, F!Opening, F!Exchanging, F!restorationFailure, F!Is
<1> QED
  BY <1>1, <1>2, <1>3, <1>4, FtdiMoves DEF FtdiKeeps, FtdiInv, FtdiFlows, Keeps

\* A receive error and the end of the context keep them.
LEMMA FtdiError == ASSUME FtdiInv, F!takeError \/ F!contextDone PROVE FtdiKeeps
<1>1. /\ pc = "read" /\ pc' = "end" /\ r' = "error" /\ on' = on \cup {"poisoned"} /\ err' \in 0 .. 1
      /\ UNCHANGED <<left, queue, stage, got, outcome, g, raw, reads, wire, cmd>>
  BY DEF F!takeError, F!contextDone, F!Fail, F!goroutine, F!chip, FtdiInv, FtdiTypes
<1> QED
  BY <1>1, FtdiBreaks

\* endResponse keeps them.
LEMMA FtdiEnd == ASSUME FtdiInv, F!endResponse PROVE FtdiKeeps
<1>1. PICK e \in {"ok", "error"}, flags \in {{}, {"poisoned"}} :
        /\ pc = "end" /\ F!Concluded(stage, e, flags) /\ (r = "error" => e = "error")
        /\ e = r \/ stage # "use" \/ "poisoned" \in flags
        /\ UNCHANGED <<left, queue, err, got, outcome, g, raw, reads, wire, cmd>>
  BY DEF F!endResponse, F!goroutine, F!chip, FtdiInv, FtdiTypes
<1>2. /\ "active" \in on' <=> "active" \in on \/ (stage = "verify" /\ e = "ok")
      /\ "receiving" \notin on'
      /\ on' \subseteq on \cup {"active", "poisoned"} /\ on \subseteq on' \cup {"receiving"}
      /\ "poisoned" \in flags => "poisoned" \in on'
  BY <1>1 DEF F!Concluded
<1>3. \/ stage = "use" /\ stage' = "use" /\ pc' = "idle" /\ r' = e /\ "active" \in on'
      \/ stage # "use" /\ e = "error" /\ stage' = stage /\ pc' = "close" /\ r' = "error" /\ "active" \notin on'
      \/ stage = "sync" /\ e = "ok" /\ stage' = "config" /\ pc' = "ready" /\ r' = "ok" /\ "active" \notin on'
      \/ stage = "config" /\ e = "ok" /\ stage' = "verify" /\ pc' = "begin" /\ r' = "ok" /\ "active" \notin on'
      \/ stage = "verify" /\ e = "ok" /\ stage' = "use" /\ pc' = "idle" /\ r' = "ok" /\ "active" \in on'
  BY <1>1, <1>2 DEF F!Concluded, FtdiInv, FtdiTypes, FtdiControl, F!Exchanging
<1>4. FtdiFlows
  BY <1>1, FtdiStands DEF FtdiInv, FtdiStill
<1>5. FtdiTypes'
  BY <1>1, <1>2, <1>3 DEF FtdiInv, FtdiTypes, F!Flags, F!Exchanging, F!Closing
<1>6. FtdiControl'
  BY <1>1, <1>2, <1>3 DEF FtdiInv, FtdiControl, F!Opening, F!Exchanging, FtdiLate
<1>7. FtdiResting'
  BY <1>1, <1>2 DEF FtdiInv, FtdiResting
<1>8. ~F!restorationFailure' => ~F!restorationFailure /\ (e = r \/ stage # "use")
  BY <1>1, <1>2 DEF F!restorationFailure, F!Is
<1>9. FtdiResponse'
  BY <1>1, <1>2, <1>3, <1>4, <1>8 DEF FtdiInv, FtdiResponse, FtdiFlows, F!Opening, F!Exchanging, FtdiTypes
<1>10. "device" \in on /\ "device" \in on' /\ (FtdiAble' => FtdiAble)
  BY <1>1, <1>2 DEF FtdiInv, FtdiControl, FtdiAble, F!RestorationPossible, F!restorationFailure, F!Is
<1> QED
  BY <1>1, <1>4, <1>5, <1>6, <1>7, <1>9, <1>10 DEF FtdiKeeps, FtdiInv, FtdiFlows, Keeps

-----------------------------------------------------------------------------
\* The steps of Close.

\* A step of Close touches no response.
LEMMA FtdiAside ==
  ASSUME FtdiInv, FtdiFlows, "receiving" \notin on, "receiving" \notin on', "active" \notin on',
         pc' \in {"idle"} \cup F!Closing, UNCHANGED <<g, left, got, queue>>, Len(reads') = Len(reads)
  PROVE  FtdiResponse'
BY DEF FtdiInv, FtdiResponse, F!Opening, F!Exchanging, F!Closing

\* What holds throughout Close.
LEMMA FtdiInClose ==
  ASSUME FtdiInv, pc \in F!Closing
  PROVE  "device" \in on /\ "receiving" \notin on /\ "active" \notin on
BY DEF FtdiInv, FtdiControl, FtdiResponse, F!Exchanging, F!Closing

\* Losing the device or the channel never makes restoration possible.
LEMMA FtdiLoses ==
  ASSUME on' \cap {"device"} \subseteq on, on \cap {"gone", "poisoned"} \subseteq on'
  PROVE  FtdiAble' => FtdiAble
BY DEF FtdiAble, F!RestorationPossible, F!restorationFailure, F!Is

\* The start of Close keeps them.
LEMMA FtdiClose == ASSUME FtdiInv, F!Close PROVE FtdiKeeps
<1>1. /\ pc \in {"close", "idle"} /\ "device" \in on /\ on' = (on \ {"active"}) \cup {"closing"}
      /\ r' \in {"ok", "error"} /\ pc' = "drain"
      /\ UNCHANGED <<left, queue, err, stage, got, outcome, g, raw, reads, wire, cmd>>
  BY DEF F!Close, F!Is, F!goroutine, F!chip, FtdiInv, FtdiControl, F!Closing
<1>2. FtdiFlows
  BY <1>1, FtdiStands DEF FtdiInv, FtdiStill
<1>3. FtdiTypes'
  BY <1>1 DEF FtdiInv, FtdiTypes, F!Flags, F!Closing
<1>4. FtdiControl'
  BY <1>1 DEF FtdiInv, FtdiControl, F!Opening, F!Exchanging, FtdiLate
<1>5. FtdiResting'
  BY <1>1 DEF FtdiInv, FtdiResting
<1>6. "receiving" \notin on
  BY <1>1 DEF FtdiInv, FtdiResponse, F!Exchanging
<1>7. FtdiResponse'
  BY <1>1, <1>2, <1>6, FtdiAside DEF F!Closing
<1>8. FtdiAble' => FtdiAble
  BY <1>1, FtdiLoses
<1> QED
  BY <1>1, <1>2, <1>3, <1>4, <1>5, <1>7, <1>8 DEF FtdiKeeps, FtdiInv, FtdiFlows, Keeps

\* A step of Close before the claim is closed, which may stop there.
LEMMA FtdiCloses ==
  ASSUME FtdiInv, FtdiFlows, FtdiControl', pc \in F!Closing, pc' \in {"idle"} \cup F!Closing,
         on' \subseteq F!Flags, on \ {"mpsse", "claimed"} \subseteq on',
         on' \subseteq on \cup {"gone", "restored", "told", "stop"},
         r' \in {"ok", "error"}, outcome' = outcome \/ outcome' = "error",
         UNCHANGED <<left, queue, err, stage, got, g, raw, cmd>>, Len(reads') = Len(reads),
         reads = << >> => reads' = << >>
  PROVE  FtdiKeeps
<1>1. "device" \in on /\ "device" \in on' /\ "receiving" \notin on /\ "active" \notin on
  BY FtdiInClose
<1>2. FtdiTypes'
  BY DEF FtdiInv, FtdiTypes
<1>3. FtdiResting'
  BY DEF FtdiInv, FtdiResting
<1>4. FtdiResponse'
  BY <1>1, FtdiAside
<1>5. FtdiAble' => FtdiAble
  BY FtdiLoses
<1> QED
  BY <1>1, <1>2, <1>3, <1>4, <1>5 DEF FtdiKeeps, FtdiInv, FtdiFlows, Keeps

\* drainOutput keeps them.
LEMMA FtdiDrain == ASSUME FtdiInv, F!drainOutput PROVE FtdiKeeps
<1>1. /\ pc = "drain" /\ UNCHANGED <<left, queue, err, stage, got, g, raw, reads, wire, cmd>>
      /\ \/ /\ "restored" \in on \/ "claim" \notin on
            /\ pc' = "release" /\ UNCHANGED <<on, r, outcome>>
         \/ /\ on \subseteq on' /\ on' \subseteq on \cup {"gone", "restored"} /\ "restored" \in on'
            /\ r' = "error" /\ pc' = "release" /\ UNCHANGED outcome
         \/ pc' = "idle" /\ outcome' = "error" /\ r' = "error" /\ on' = on \cup {"told"}
         \/ "restored" \notin on /\ "claim" \in on /\ pc' = "control" /\ UNCHANGED <<on, r, outcome>>
  BY DEF F!drainOutput, F!Abandon, F!Retain, F!Return, F!Lost, F!Is, F!goroutine, F!chip
<1>2. FtdiFlows
  BY <1>1, FtdiStands DEF FtdiInv, FtdiStill
<1>3. FtdiControl'
  BY <1>1 DEF FtdiInv, FtdiControl, F!Opening, F!Exchanging, FtdiLate
<1>4. /\ pc \in F!Closing /\ pc' \in {"idle"} \cup F!Closing /\ on' \subseteq F!Flags /\ on \subseteq on'
      /\ on' \subseteq on \cup {"gone", "restored", "told", "stop"}
      /\ r' \in {"ok", "error"} /\ (outcome' = outcome \/ outcome' = "error")
  BY Zenon, <1>1 DEF F!Closing, F!Flags, FtdiInv, FtdiTypes
<1> QED
  BY <1>1, <1>2, <1>3, <1>4, FtdiCloses, Zenon

\* The reset of the chip keeps them.
LEMMA FtdiReset == ASSUME FtdiInv, F!resetChip PROVE FtdiKeeps
<1>1. /\ pc = "control" /\ UNCHANGED <<left, queue, err, stage, got, g, raw, reads, wire, cmd>>
      /\ \/ on' = (on \ {"mpsse"}) \cup {"restored"} /\ pc' = "release" /\ UNCHANGED <<r, outcome>>
         \/ /\ on \subseteq on' /\ on' \subseteq on \cup {"gone", "restored"} /\ "restored" \in on'
            /\ r' = "error" /\ pc' = "release" /\ UNCHANGED outcome
         \/ pc' = "idle" /\ outcome' = "error" /\ r' = "error" /\ on' = on \cup {"told"}
  BY DEF F!resetChip, F!Abandon, F!Retain, F!Return, F!Lost, F!Is, F!goroutine, F!chip
<1>2. FtdiFlows
  BY <1>1, FtdiStands DEF FtdiInv, FtdiStill
<1>3. FtdiControl'
  BY <1>1 DEF FtdiInv, FtdiControl, F!Opening, F!Exchanging, FtdiLate
<1>4. /\ pc \in F!Closing /\ pc' \in {"idle"} \cup F!Closing /\ on' \subseteq F!Flags /\ on \ {"mpsse", "claimed"} \subseteq on'
      /\ on' \subseteq on \cup {"gone", "restored", "told", "stop"}
      /\ r' \in {"ok", "error"} /\ (outcome' = outcome \/ outcome' = "error")
  BY Zenon, <1>1 DEF F!Closing, F!Flags, FtdiInv, FtdiTypes
<1> QED
  BY <1>1, <1>2, <1>3, <1>4, FtdiCloses, Zenon

\* stopReceive keeps them.
LEMMA FtdiStop == ASSUME FtdiInv, F!stopReceive PROVE FtdiKeeps
<1>1. /\ pc = "release" /\ UNCHANGED <<left, queue, err, stage, got, r, outcome, g, raw, reads, wire, cmd>>
      /\ \/ "claim" \notin on /\ pc' = "device" /\ on' = on
         \/ "claim" \in on /\ "open" \in on /\ pc' = "abort" /\ on' = on \cup {"stop"}
         \/ "claim" \in on /\ "open" \notin on /\ pc' = "claim" /\ on' = on
  BY DEF F!stopReceive, F!Is, F!goroutine, F!chip
<1>2. FtdiFlows
  BY <1>1, FtdiStands DEF FtdiInv, FtdiStill
<1>3. FtdiControl'
  BY <1>1 DEF FtdiInv, FtdiControl, F!Opening, F!Exchanging, FtdiLate
<1>4. /\ pc \in F!Closing /\ pc' \in {"idle"} \cup F!Closing /\ on' \subseteq F!Flags /\ on \ {"mpsse", "claimed"} \subseteq on'
      /\ on' \subseteq on \cup {"gone", "restored", "told", "stop"}
      /\ r' \in {"ok", "error"} /\ (outcome' = outcome \/ outcome' = "error")
  BY Zenon, <1>1 DEF F!Closing, F!Flags, FtdiInv, FtdiTypes
<1> QED
  BY <1>1, <1>2, <1>3, <1>4, FtdiCloses, Zenon

\* Cancelled reads keep their number.
LEMMA FtdiCancels ==
  ASSUME FtdiInv, UNCHANGED <<queue, wire, raw, g, cmd>>, reads' = reads \/ reads' = F!Settled(reads)
  PROVE  FtdiFlows /\ Len(reads') = Len(reads) /\ (reads = << >> => reads' = << >>)
<1>1. FtdiFlows
  BY FtdiDrops DEF FtdiInv, FtdiData, FtdiRaw
<1>2. reads \in Seq(FtdiReads) /\ Len(reads') = Len(reads) /\ reads' \in Seq(FtdiReads)
  BY DueSettled DEF FtdiInv, FtdiData
<1>3. reads = << >> => reads' = << >>
  BY <1>2
<1> QED
  BY <1>1, <1>2, <1>3

\* abortReads keeps them.
LEMMA FtdiAbort == ASSUME FtdiInv, F!abortReads PROVE FtdiKeeps
<1>1. /\ pc = "abort" /\ UNCHANGED <<left, queue, err, stage, got, g, raw, wire, cmd>>
      /\ reads' = reads \/ reads' = F!Settled(reads)
      /\ \/ pc' = "join" /\ UNCHANGED <<on, r, outcome>>
         \/ on' = on \cup {"gone"} /\ r' = "error" /\ pc' = "claim" /\ UNCHANGED outcome
         \/ pc' = "idle" /\ outcome' = "error" /\ r' = "error" /\ on' = on \cup {"told"}
  BY DEF F!abortReads, F!Retain, F!Return, F!Lost, F!goroutine
<1>2. FtdiFlows /\ Len(reads') = Len(reads) /\ (reads = << >> => reads' = << >>)
  BY <1>1, FtdiCancels
<1>3. FtdiControl'
  BY <1>1 DEF FtdiInv, FtdiControl, F!Opening, F!Exchanging, FtdiLate
<1>4. /\ pc \in F!Closing /\ pc' \in {"idle"} \cup F!Closing /\ on' \subseteq F!Flags /\ on \ {"mpsse", "claimed"} \subseteq on'
      /\ on' \subseteq on \cup {"gone", "restored", "told", "stop"}
      /\ r' \in {"ok", "error"} /\ (outcome' = outcome \/ outcome' = "error")
  BY Zenon, <1>1 DEF F!Closing, F!Flags, FtdiInv, FtdiTypes
<1> QED
  BY <1>1, <1>2, <1>3, <1>4, FtdiCloses, Zenon

\* finishReceive keeps them.
LEMMA FtdiFinish == ASSUME FtdiInv, F!finishReceive PROVE FtdiKeeps
<1>0. Depth \in Nat \ {0}
  BY FtdiAssumption
<1>1. /\ queue' = << >> /\ err' = 0 /\ g' = "none" /\ raw' = "none" /\ reads' = << >>
      /\ UNCHANGED <<left, stage, got, r, outcome, wire, cmd>>
      /\ \/ pc = "join" /\ pc' = "claim" /\ on' = on \ {"open", "stop"}
         \/ pc = "rejoin" /\ pc' = "device" /\ on' = on \ {"open", "stop", "claim"}
  BY DEF F!finishReceive
<1>2. FtdiFlows /\ Len(reads') = 0
  <2>1. FtdiRaw'
    BY <1>1 DEF FtdiRaw
  <2>2. FtdiFlows
    BY <1>1, <2>1, FtdiRenews DEF FtdiInv
  <2> QED
    BY <1>1, <2>2
<1>3. FtdiTypes'
  BY <1>0, <1>1 DEF FtdiInv, FtdiTypes, F!Closing
<1>4. FtdiControl'
  BY <1>1 DEF FtdiInv, FtdiControl, F!Opening, F!Exchanging, FtdiLate
<1>5. FtdiResting'
  BY <1>1 DEF FtdiResting
<1>6. "device" \in on /\ "device" \in on' /\ "receiving" \notin on' /\ "active" \notin on'
  BY <1>1, FtdiInClose DEF F!Closing
<1>7. FtdiResponse'
  BY <1>0, <1>1, <1>2, <1>6 DEF FtdiResponse, F!Opening, F!Exchanging
<1>8. FtdiAble' => FtdiAble
  BY <1>1, FtdiLoses
<1> QED
  BY <1>1, <1>2, <1>3, <1>4, <1>5, <1>6, <1>7, <1>8 DEF FtdiKeeps, FtdiInv, FtdiFlows, Keeps

\* The release of the interface keeps them.
LEMMA FtdiUnclaim == ASSUME FtdiInv, F!closeClaim PROVE FtdiKeeps
<1>1. /\ pc = "claim" /\ UNCHANGED <<left, queue, err, stage, got, g, raw, wire, cmd>>
      /\ reads' = reads \/ reads' = F!Settled(reads)
      /\ \/ /\ on' = ((on \ {"claimed"}) \cup (on' \cap {"gone"})) \ (IF "open" \in on THEN {} ELSE {"claim"})
            /\ on \cap {"gone"} \subseteq on'
            /\ r' \in {r, "error"} /\ pc' = (IF "open" \in on THEN "rejoin" ELSE "device") /\ UNCHANGED outcome
         \/ pc' = "idle" /\ outcome' = "error" /\ r' = "error" /\ on' = on \cup {"told"}
  BY DEF F!closeClaim, F!Retain, F!Return, F!Lost, F!Is, F!goroutine
<1>2. FtdiFlows /\ Len(reads') = Len(reads) /\ (reads = << >> => reads' = << >>)
  BY <1>1, FtdiCancels
<1>3. FtdiControl'
  BY <1>1 DEF FtdiInv, FtdiControl, F!Opening, F!Exchanging, FtdiLate
<1>4. FtdiTypes'
  BY ZenonT(30), <1>1 DEF FtdiInv, FtdiTypes, F!Closing, F!Flags
<1>5. FtdiResting'
  BY <1>1, <1>2 DEF FtdiInv, FtdiResting
<1>6. "device" \in on /\ "receiving" \notin on /\ "active" \notin on
  BY <1>1, FtdiInClose DEF F!Closing
<1>7. "device" \in on' /\ "receiving" \notin on' /\ "active" \notin on' /\ on \cap {"gone", "poisoned"} \subseteq on'
  BY <1>1, <1>6
<1>8. FtdiResponse'
  BY <1>1, <1>2, <1>6, <1>7, FtdiAside DEF F!Closing
<1>9. FtdiAble' => FtdiAble
  BY <1>6, <1>7, FtdiLoses
<1>10. outcome' = outcome \/ outcome' = "error"
  BY <1>1
<1> QED
  BY <1>2, <1>3, <1>4, <1>5, <1>6, <1>7, <1>8, <1>9, <1>10 DEF FtdiKeeps, FtdiInv, FtdiFlows, Keeps

\* The release of the device keeps them.
LEMMA FtdiRelease == ASSUME FtdiInv, F!closeDevice PROVE FtdiKeeps
<1>1. /\ pc = "device" /\ pc' = "idle" /\ UNCHANGED <<left, queue, err, stage, got, g, raw, reads, wire, cmd>>
      /\ \/ /\ on' = (on \ {"device"}) \cup (IF r' = "ok" THEN {} ELSE {"told"})
            /\ r' \in {r, "error"} /\ outcome' = (IF r' = "ok" THEN "nil" ELSE "error")
         \/ outcome' = "error" /\ r' = "error" /\ on' = on \cup {"told"}
  BY DEF F!closeDevice, F!Retain, F!Return, F!goroutine, F!chip, FtdiInv, FtdiTypes
<1>2. FtdiFlows
  BY <1>1, FtdiStands DEF FtdiInv, FtdiStill
<1>3. FtdiControl'
  BY <1>1 DEF FtdiInv, FtdiControl, F!Opening, F!Exchanging, FtdiLate, FtdiTypes
<1>4. FtdiTypes'
  BY ZenonT(30), <1>1 DEF FtdiInv, FtdiTypes, F!Flags
<1>5. FtdiResting'
  BY <1>1 DEF FtdiInv, FtdiResting
<1>6. "device" \in on /\ "receiving" \notin on /\ "active" \notin on
  BY <1>1, FtdiInClose DEF F!Closing
<1>7. FtdiResponse'
  BY <1>1, <1>2, <1>6, FtdiAside DEF F!Closing
<1>8. FtdiAble' => FtdiAble /\ "device" \in on'
  BY <1>1, <1>6, FtdiLoses DEF FtdiAble, F!RestorationPossible, F!Is
<1>9. (outcome' = "nil" /\ "device" \notin on') \/ outcome' = "error"
  BY <1>1
<1> QED
  BY <1>2, <1>3, <1>4, <1>5, <1>6, <1>7, <1>8, <1>9 DEF FtdiKeeps, FtdiInv, FtdiFlows, Keeps

-----------------------------------------------------------------------------
\* The steps of the goroutine, of the kernel and of the chip.

\* A step beside the caller keeps what the caller relies on: it clears nothing, may
\* lose or poison the channel, and delivers only bytes in flight.
LEMMA FtdiBeside ==
  ASSUME FtdiInv, FtdiFlows, UNCHANGED <<pc, stage, got, r, outcome, cmd>>,
         on \subseteq on', on' \subseteq on \cup {"gone", "poisoned", "unplugged", "calm"},
         g' = "none" <=> g = "none",
         g' \in {"none", "wait", "check", "submit", "deliver", "report", "send", "done"},
         raw' \in F!Answers \cup {"none", "empty"},
         left' \in Nat, err' \in 0 .. 1,
         left' = left \/ (left' = left - 1 /\ "receiving" \in on /\ FtdiFlight' < FtdiFlight),
         IF "receiving" \in on THEN Len(queue') + left' <= Len(queue) + left ELSE queue' = queue,
         g = "none" => (reads = << >> => reads' = << >>) /\ queue' = queue /\ err' = err,
         Len(reads') + (IF g' \in {"check", "submit"} THEN 1 ELSE 0) <= Depth
  PROVE  FtdiKeeps
<1>0. Depth \in Nat \ {0} /\ left \in 0 .. Depth /\ got \in 0 .. Depth /\ Len(queue) \in Nat /\ Len(queue') \in Nat
  BY FtdiAssumption DEF FtdiInv, FtdiTypes, FtdiFlows, FtdiData
<1>1. FtdiTypes'
  BY <1>0 DEF FtdiInv, FtdiTypes, F!Flags
<1>2. FtdiControl'
  BY DEF FtdiInv, FtdiControl, F!Opening, F!Exchanging, FtdiLate
<1>3. FtdiResting'
  BY DEF FtdiInv, FtdiControl, FtdiResting
<1>4. FtdiFlight \in Nat /\ FtdiFlight' \in Nat /\ FtdiFlight' <= FtdiFlight
  BY FtdiFlightNat DEF FtdiInv, FtdiFlows
<1>5. left' # left => ~FtdiClear
  BY <1>4 DEF FtdiClear
<1>6. ~F!restorationFailure' => ~F!restorationFailure
  BY DEF F!restorationFailure, F!Is
<1>8. FtdiResponse'
  BY <1>0, <1>4, <1>5, <1>6 DEF FtdiInv, FtdiResponse, FtdiFlows, F!Opening, F!Exchanging
<1>7. FtdiAble' => FtdiAble
  BY FtdiLoses
<1> QED
  BY <1>1, <1>2, <1>3, <1>7, <1>8 DEF FtdiKeeps, FtdiInv, FtdiFlows, Keeps

\* The receiver that waits for a read keeps them.
LEMMA FtdiWaitRead == ASSUME FtdiInv, F!waitRead PROVE FtdiKeeps
<1>0. Depth \in Nat \ {0} /\ Len(reads) \in Nat /\ Len(queue) \in Nat /\ left \in Nat
  BY FtdiAssumption DEF FtdiInv, FtdiData, FtdiTypes
<1>1. /\ g = "wait" /\ UNCHANGED <<on, left, queue, err, pc, stage, got, r, outcome, wire, cmd>>
      /\ \/ g' \in {"done", "report"} /\ UNCHANGED <<raw, reads>>
         \/ /\ reads # << >> /\ Head(reads) \notin {"pending", "error"}
            /\ g' = "check" /\ raw' = Head(reads) /\ reads' = Tail(reads)
  BY DEF F!waitRead, F!shared, F!caller
<1>2. FtdiFlows /\ raw' \in F!Answers \cup {"none", "empty"} /\ Len(reads') + (IF g' \in {"check", "submit"} THEN 1 ELSE 0) <= Depth
  <2>1. CASE g' \in {"done", "report"} /\ UNCHANGED <<raw, reads>>
    <3>1. FtdiRaw'
      BY <2>1 DEF FtdiRaw
    <3>2. FtdiFlows
      BY <1>1, <2>1, <3>1, FtdiDrops DEF FtdiInv
    <3> QED
      BY <1>0, <1>1, <2>1, <3>2 DEF FtdiInv, FtdiTypes, FtdiResponse
  <2>2. CASE /\ reads # << >> /\ Head(reads) \notin {"pending", "error"}
             /\ g' = "check" /\ raw' = Head(reads) /\ reads' = Tail(reads)
    <3>1. FtdiFlows /\ Len(reads') = Len(reads) - 1 /\ raw' \in F!Answers \cup {"empty"}
      BY <1>1, <2>2, FtdiReceives DEF FtdiInv
    <3>2. Len(reads) <= Depth
      BY <1>0, <1>1 DEF FtdiInv, FtdiResponse
    <3> DEFINE n == Len(reads)
               m == Len(reads')
    <3>3. m = n - 1 /\ n <= Depth /\ n \in Nat
      BY <1>0, <3>1, <3>2
    <3> HIDE DEF n, m
    <3>4. m + (IF g' \in {"check", "submit"} THEN 1 ELSE 0) <= Depth
      BY <1>0, <2>2, <3>3
    <3> QED
      BY <3>1, <3>4 DEF m
  <2> QED
    BY <1>1, <2>1, <2>2
<1>3. g' \in {"done", "report", "check"}
  BY <1>1
<1>4. err' \in 0 .. 1
  BY <1>1 DEF FtdiInv, FtdiTypes
<1> QED
  BY <1>0, <1>1, <1>2, <1>3, <1>4, FtdiBeside

\* The receiver that looks for a stop keeps them.
LEMMA FtdiCheckStop == ASSUME FtdiInv, F!checkStop PROVE FtdiKeeps
<1>0. Depth \in Nat \ {0} /\ Len(reads) \in Nat /\ Len(queue) \in Nat /\ left \in Nat
  BY FtdiAssumption DEF FtdiInv, FtdiData, FtdiTypes
<1>1. /\ g = "check" /\ g' \in {"done", "submit"}
      /\ UNCHANGED <<on, left, queue, err, pc, stage, got, r, outcome, raw, reads, wire, cmd>>
  BY DEF F!checkStop, F!shared, F!caller, F!chip
<1>2. FtdiFlows
  BY <1>1, FtdiDrops DEF FtdiInv, FtdiData, FtdiRaw
<1>3. Len(reads') + (IF g' \in {"check", "submit"} THEN 1 ELSE 0) <= Depth
  BY <1>0, <1>1 DEF FtdiInv, FtdiResponse
<1>4. err' \in 0 .. 1 /\ raw' \in F!Answers \cup {"none", "empty"}
  BY <1>1 DEF FtdiInv, FtdiTypes
<1> QED
  BY <1>0, <1>1, <1>2, <1>3, <1>4, FtdiBeside

\* The receiver that submits a read again keeps them.
LEMMA FtdiSubmit == ASSUME FtdiInv, F!submitRead PROVE FtdiKeeps
<1>0. Depth \in Nat \ {0} /\ Len(reads) \in Nat /\ Len(queue) \in Nat /\ left \in Nat
  BY FtdiAssumption DEF FtdiInv, FtdiData, FtdiTypes
<1>1. /\ g = "submit" /\ on \subseteq on' /\ on' \subseteq on \cup {"gone"}
      /\ UNCHANGED <<left, queue, err, pc, stage, got, r, outcome, raw, wire, cmd>>
      /\ \/ g' = "deliver" /\ reads' = Append(reads, "pending")
         \/ g' = "report" /\ reads' = reads
  BY DEF F!submitRead, F!Lost, F!caller
<1>2. FtdiFlows /\ Len(reads') <= Depth /\ g' \notin {"check", "submit"}
  <2>1. CASE g' = "deliver" /\ reads' = Append(reads, "pending")
    <3>1. FtdiFlows /\ Len(reads') = Len(reads) + 1
      BY <1>1, <2>1, FtdiPosts DEF FtdiInv
    <3>2. Len(reads) + 1 <= Depth
      BY <1>0, <1>1 DEF FtdiInv, FtdiResponse
    <3> QED
      BY <2>1, <3>1, <3>2
  <2>2. CASE g' = "report" /\ reads' = reads
    <3>1. FtdiFlows
      BY <1>1, <2>2, FtdiDrops DEF FtdiInv, FtdiData, FtdiRaw
    <3> QED
      BY <1>0, <1>1, <2>2, <3>1 DEF FtdiInv, FtdiResponse
  <2> QED
    BY <1>1, <2>1, <2>2
<1>3. Len(reads') + (IF g' \in {"check", "submit"} THEN 1 ELSE 0) <= Depth
  <2>1. Len(reads') \in Nat
    BY <1>2 DEF FtdiFlows, FtdiData
  <2> QED
    BY <1>0, <1>2, <2>1
<1>4. err' \in 0 .. 1 /\ raw' \in F!Answers \cup {"none", "empty"} /\ g' \in {"deliver", "report"}
  BY <1>1 DEF FtdiInv, FtdiTypes
<1> QED
  BY <1>0, <1>1, <1>2, <1>3, <1>4, FtdiBeside

\* deliverUSBRead keeps them.
LEMMA FtdiDeliver == ASSUME FtdiInv, F!deliverUSBRead PROVE FtdiKeeps
<1>0. Depth \in Nat \ {0} /\ Len(reads) \in Nat /\ Len(queue) \in Nat /\ left \in Nat /\ FtdiFlight \in Nat
  BY FtdiAssumption, FtdiFlightNat DEF FtdiInv, FtdiData, FtdiTypes
<1>1. /\ g = "deliver" /\ raw' = "none" /\ UNCHANGED <<on, err, pc, stage, got, r, outcome, reads, wire, cmd>>
      /\ \/ g' \in {"wait", "report"} /\ UNCHANGED <<left, queue>>
         \/ /\ raw # "empty" /\ "receiving" \in on /\ left > 0 /\ left' = left - 1
            /\ \/ queue' = Append(queue, raw) /\ g' = "wait"
               \/ g' \in {"done", "report"} /\ UNCHANGED queue
  BY DEF F!deliverUSBRead, F!caller, F!chip, F!Is
<1>2. Len(reads') + (IF g' \in {"check", "submit"} THEN 1 ELSE 0) <= Depth
  BY <1>0, <1>1 DEF FtdiInv, FtdiResponse
<1>3. err' \in 0 .. 1 /\ raw' \in F!Answers \cup {"none", "empty"} /\ g' \in {"wait", "report", "done"}
  BY <1>1 DEF FtdiInv, FtdiTypes
<1>4. FtdiRaw'
  BY <1>1, <1>3 DEF FtdiRaw
<1>5. CASE UNCHANGED <<left, queue>>
  <2>1. FtdiFlows
    BY <1>1, <1>4, <1>5, FtdiDrops DEF FtdiInv
  <2> QED
    BY <1>0, <1>1, <1>2, <1>3, <1>5, <2>1, FtdiBeside
<1>6. CASE /\ raw # "empty" /\ "receiving" \in on /\ left > 0 /\ left' = left - 1
           /\ queue' = Append(queue, raw) /\ g' = "wait"
  <2>1. raw \in F!Answers
    BY <1>1, <1>6 DEF FtdiInv, FtdiTypes, FtdiData, FtdiRaw
  <2>2. FtdiFlows /\ FtdiFlight' = FtdiFlight - 1 /\ Len(queue') = Len(queue) + 1
    BY <1>1, <1>6, <2>1, FtdiDelivers DEF FtdiInv
  <2>3. left' \in Nat /\ FtdiFlight' < FtdiFlight /\ Len(queue') + left' <= Len(queue) + left
    BY <1>0, <1>6, <2>2
  <2> QED
    BY <1>0, <1>1, <1>2, <1>3, <1>6, <2>2, <2>3, FtdiBeside
<1>7. CASE /\ raw # "empty" /\ "receiving" \in on /\ left > 0 /\ left' = left - 1
           /\ g' \in {"done", "report"} /\ UNCHANGED queue
  <2>1. raw \in F!Answers
    BY <1>1, <1>7 DEF FtdiInv, FtdiTypes, FtdiData, FtdiRaw
  <2>2. FtdiFlows
    BY <1>1, <1>4, <1>7, FtdiDrops DEF FtdiInv
  <2>3. FtdiFlight' = FtdiFlight - 1
    <3>1. FtdiHeld = 1 /\ FtdiHeld' = 0
      BY <1>1, <2>1 DEF FtdiHeld, FtdiLive, F!Answers
    <3>2. Due(reads') = Due(reads) /\ Len(wire') = Len(wire)
      BY <1>1
    <3> QED
      BY <3>1, <3>2, FtdiFlightNat DEF FtdiInv, FtdiFlight
  <2>4. left' \in Nat /\ FtdiFlight' < FtdiFlight /\ Len(queue') + left' <= Len(queue) + left
    BY <1>0, <1>7, <2>3
  <2> QED
    BY <1>0, <1>1, <1>2, <1>3, <1>7, <2>2, <2>4, FtdiBeside
<1> QED
  BY <1>1, <1>5, <1>6, <1>7

\* The receiver that reports its error keeps them.
LEMMA FtdiReport == ASSUME FtdiInv, F!recordPoison \/ F!sendError PROVE FtdiKeeps
<1>0. Depth \in Nat \ {0} /\ Len(reads) \in Nat /\ Len(queue) \in Nat /\ left \in Nat
  BY FtdiAssumption DEF FtdiInv, FtdiData, FtdiTypes
<1>1. /\ g \in {"report", "send"} /\ g' \in {"send", "done"} /\ on \subseteq on' /\ on' \subseteq on \cup {"poisoned"}
      /\ err' \in 0 .. 1 /\ UNCHANGED <<left, queue, pc, stage, got, r, outcome, raw, reads, wire, cmd>>
  BY DEF F!recordPoison, F!sendError, F!caller, F!chip, FtdiInv, FtdiTypes
<1>2. FtdiFlows
  BY <1>1, FtdiDrops DEF FtdiInv, FtdiData, FtdiRaw
<1>3. Len(reads') + (IF g' \in {"check", "submit"} THEN 1 ELSE 0) <= Depth
  BY <1>0, <1>1 DEF FtdiInv, FtdiResponse
<1>4. raw' \in F!Answers \cup {"none", "empty"}
  BY <1>1 DEF FtdiInv, FtdiTypes
<1> QED
  BY <1>0, <1>1, <1>2, <1>3, <1>4, FtdiBeside

\* The kernel completes or cancels reads, the device goes away, faults end.
LEMMA FtdiOutside == ASSUME FtdiInv, F!CompleteRead \/ F!Unplug \/ F!FaultsEnd PROVE FtdiKeeps
<1>0. Depth \in Nat \ {0} /\ Len(reads) \in Nat /\ Len(queue) \in Nat /\ left \in Nat
  BY FtdiAssumption DEF FtdiInv, FtdiData, FtdiTypes
<1>1. /\ on \subseteq on' /\ on' \subseteq on \cup {"unplugged", "calm"}
      /\ UNCHANGED <<left, queue, err, pc, stage, got, r, outcome, g, raw, cmd>>
  BY DEF F!CompleteRead, F!Unplug, F!FaultsEnd, F!shared, F!caller, F!goroutine, F!chip
<1>2. FtdiFlows /\ Len(reads') = Len(reads)
  <2>1. CASE F!CompleteRead
    BY <2>1, FtdiCompletes DEF FtdiInv
  <2>2. CASE F!Unplug
    <3>1. reads' = F!Settled(reads) /\ wire' = << >>
      BY <2>2 DEF F!Unplug
    <3>2. FtdiFlows
      BY <1>1, <3>1, FtdiDrops DEF FtdiInv, FtdiData, FtdiRaw
    <3> QED
      BY <3>1, <3>2, DueSettled DEF FtdiInv, FtdiData
  <2>3. CASE F!FaultsEnd
    <3>1. reads' = reads /\ wire' = wire
      BY <2>3 DEF F!FaultsEnd, F!chip
    <3> QED
      BY <1>1, <3>1, FtdiStands DEF FtdiInv, FtdiStill
  <2> QED
    BY <2>1, <2>2, <2>3
<1>3. Len(reads') + (IF g' \in {"check", "submit"} THEN 1 ELSE 0) <= Depth
  BY <1>0, <1>1, <1>2 DEF FtdiInv, FtdiResponse
<1>4. /\ raw' \in F!Answers \cup {"none", "empty"} /\ err' \in 0 .. 1
      /\ g' \in {"none", "wait", "check", "submit", "deliver", "report", "send", "done"}
  BY <1>1 DEF FtdiInv, FtdiTypes
<1>5. reads = << >> => reads' = << >>
  BY <1>2 DEF FtdiFlows, FtdiData
<1> QED
  BY <1>0, <1>1, <1>2, <1>3, <1>4, <1>5, FtdiBeside

\* Every step of a channel keeps the invariant and the contract.
LEMMA FtdiSteps == ASSUME FtdiInv, F!Next PROVE FtdiKeeps
<1>1. CASE F!enterMPSSE \/ F!openUSBTransfers \/ F!beginResponse \/ F!writeReady \/ F!bulkWrite \/ F!writeDone
  BY <1>1, FtdiEnter, FtdiOpen, FtdiBegin, FtdiReady, FtdiWrite, FtdiSent
<1>2. CASE F!takePayload \/ F!takeError \/ F!contextDone \/ F!endResponse \/ F!NewChannel \/ F!clockStream
  BY <1>2, FtdiTake, FtdiError, FtdiEnd, FtdiNewChannel, FtdiClock
<1>3. CASE F!Close \/ F!drainOutput \/ F!resetChip \/ F!stopReceive \/ F!abortReads
  BY <1>3, FtdiClose, FtdiDrain, FtdiReset, FtdiStop, FtdiAbort
<1>4. CASE F!finishReceive \/ F!closeClaim \/ F!closeDevice
  BY <1>4, FtdiFinish, FtdiUnclaim, FtdiRelease
<1>5. CASE F!GoroutineStep
  BY <1>5, FtdiWaitRead, FtdiCheckStop, FtdiSubmit, FtdiDeliver, FtdiReport DEF F!GoroutineStep
<1>6. CASE F!CompleteRead \/ F!Unplug \/ F!FaultsEnd
  BY <1>6, FtdiOutside
<1> QED
  BY <1>1, <1>2, <1>3, <1>4, <1>5, <1>6 DEF F!Next, F!CallerStep

\* The invariant gives the properties of a channel.
LEMMA FtdiSafe ==
  ASSUME FtdiInv
  PROVE  F!TypeOK /\ F!AnswersMatch /\ F!NothingOrphaned /\ F!NothingInFlight /\ F!AbandonReported
<1>1. F!AnswersMatch
  BY DEF FtdiInv, FtdiTypes, F!AnswersMatch, F!Is
<1>2. F!NothingOrphaned
  BY DEF FtdiInv, FtdiControl, F!NothingOrphaned, F!Is
<1>3. F!AbandonReported
  BY DEF FtdiInv, FtdiControl, FtdiLate, F!AbandonReported, F!Is
<1>4. F!NothingInFlight
  BY FtdiFlightNat DEF FtdiInv, FtdiResponse, FtdiClear, FtdiLive, F!NothingInFlight, F!Is
<1>5. Depth \in Nat /\ Len(queue) \in Nat /\ Len(reads) \in Nat
  BY FtdiAssumption DEF FtdiInv, FtdiData
<1>6. queue \in UNION {[1 .. n -> F!Answers] : n \in 0 .. Depth}
  <2>1. Len(queue) \in 0 .. Depth /\ queue \in [1 .. Len(queue) -> F!Answers]
    BY <1>5 DEF FtdiInv, FtdiData, FtdiResponse
  <2> QED
    BY <2>1
<1>7. /\ Len(reads) <= Depth /\ \A k \in DOMAIN reads : reads[k] \in F!Answers \cup {"pending", "empty", "error"}
      /\ \A k \in DOMAIN wire : wire[k] \in F!Answers
  BY <1>5 DEF FtdiInv, FtdiData, FtdiResponse, FtdiReads
<1>8. "receiving" \in on /\ left > 0 => Len(queue) < Depth
  BY <1>5 DEF FtdiInv, FtdiResponse, FtdiTypes
<1>9. F!TypeOK
  BY <1>6, <1>7, <1>8 DEF FtdiInv, FtdiTypes, F!TypeOK, F!Is
<1> QED
  BY <1>1, <1>2, <1>3, <1>4, <1>9

=============================================================================
