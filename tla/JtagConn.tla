------------------------------ MODULE JtagConn ------------------------------
(***************************************************************************)
(* jtag.Conn: resets, moves and scans over a wire that may clock any       *)
(* prefix of a call and fail; and the chain of test access ports on that   *)
(* wire, with the TAP state machine of jtag/state.go that the host         *)
(* follows.  The hardware is that of IEEE 1149.1, as jtag/oracle_test.go   *)
(* has it.                                                                 *)
(*                                                                         *)
(* A chip is [cap, id]: what its instruction register captures, and its    *)
(* identification word, empty if it resets to BYPASS.  Chips and bits are  *)
(* listed from TDO.  An instruction of all ones is BYPASS, one of all      *)
(* zeros IDCODE if the chip has one, and any other a data register.        *)
(*                                                                         *)
(* An operator is a method of Conn and yields the set of its results       *)
(* [p, state, err, sent, got]: the chips, Conn.state, whether an error is  *)
(* returned, whether wire calls were made (Conn.serial changed) and the    *)
(* capture, <<>> for none.  With faulty FALSE nothing fails.  A word has   *)
(* WordBits bits, 32 in the code; MeasureIR is bounded by MaxIR, 65536 in  *)
(* the code.                                                               *)
(***************************************************************************)
EXTENDS Naturals, Sequences, SequencesExt

CONSTANTS WordBits, MaxIR,
          Limit              \* MaxTransferBits of the wire

Unknown == "Unknown"

transitions ==
  [Reset    |-> <<"Idle", "Reset">>,      Idle      |-> <<"Idle", "SelectDR">>,
   SelectDR |-> <<"CaptureDR", "SelectIR">>, CaptureDR |-> <<"ShiftDR", "Exit1DR">>,
   ShiftDR  |-> <<"ShiftDR", "Exit1DR">>, Exit1DR   |-> <<"PauseDR", "UpdateDR">>,
   PauseDR  |-> <<"PauseDR", "Exit2DR">>, Exit2DR   |-> <<"ShiftDR", "UpdateDR">>,
   UpdateDR |-> <<"Idle", "SelectDR">>,   SelectIR  |-> <<"CaptureIR", "Reset">>,
   CaptureIR |-> <<"ShiftIR", "Exit1IR">>, ShiftIR  |-> <<"ShiftIR", "Exit1IR">>,
   Exit1IR  |-> <<"PauseIR", "UpdateIR">>, PauseIR  |-> <<"PauseIR", "Exit2IR">>,
   Exit2IR  |-> <<"ShiftIR", "UpdateIR">>, UpdateIR |-> <<"Idle", "SelectDR">>]

States == DOMAIN transitions

Ones(n) == [k \in 1..n |-> 1]
Zeros(n) == [k \in 1..n |-> 0]

-----------------------------------------------------------------------------
\* The chips.

ResetIR(chip) == IF chip.id = <<>> THEN Ones(Len(chip.cap)) ELSE Zeros(Len(chip.cap))

\* The data register an instruction puts between TDI and TDO.
Register(chip, ir, dr) ==
  CASE ir = Ones(Len(ir)) -> <<0>>
    [] ir = Zeros(Len(ir)) /\ chip.id # <<>> -> chip.id
    [] OTHER -> dr

IsData(chip, ir) == ir # Ones(Len(ir)) /\ (ir = Zeros(Len(ir)) => chip.id = <<>>)

Registers(chips, p) == [i \in DOMAIN chips |-> Register(chips[i], p.ir[i], p.dr[i])]
Captures(chips) == [i \in DOMAIN chips |-> chips[i].cap]

\* The part of a flat register that stands where parts[i] stood.
Slice(flat, parts, i) ==
  LET before == Len(FlattenSeq(SubSeq(parts, 1, i - 1)))
  IN SubSeq(flat, before + 1, before + Len(parts[i]))

\* What a clock does in the state it finds: capture and shift.
Leaving(chips, p, tdi) ==
  CASE p.tap = "CaptureDR" -> [p EXCEPT !.shift = FlattenSeq(Registers(chips, p))]
    [] p.tap = "CaptureIR" -> [p EXCEPT !.shift = FlattenSeq(Captures(chips))]
    [] p.tap \in {"ShiftDR", "ShiftIR"} -> [p EXCEPT !.shift = Append(Tail(@), tdi)]
    [] OTHER -> p

\* What the state it leads to does: update and reset.
Entering(chips, p, state) ==
  LET q == [p EXCEPT !.tap = state]
  IN CASE state = "UpdateDR" ->
            [q EXCEPT !.shift = <<>>,
                      !.dr = [i \in DOMAIN chips |->
                                IF IsData(chips[i], p.ir[i]) THEN Slice(p.shift, Registers(chips, p), i) ELSE @[i]]]
       [] state = "UpdateIR" ->
            [q EXCEPT !.shift = <<>>, !.ir = [i \in DOMAIN chips |-> Slice(p.shift, Captures(chips), i)]]
       [] state = "Reset" -> [q EXCEPT !.ir = [i \in DOMAIN chips |-> ResetIR(chips[i])]]
       [] OTHER -> q

TDO(p) == IF p.tap \in {"ShiftDR", "ShiftIR"} THEN Head(p.shift) ELSE 1

RECURSIVE Trace(_, _, _)

\* The chips before, between and after the clocks of a stream of [tms, tdi], and
\* what TDO has shown by then.
Trace(chips, stream, steps) ==
  LET k == Len(steps)
      q == steps[k].p
      next == [p   |-> Entering(chips, Leaving(chips, q, stream[k].tdi), transitions[q.tap][stream[k].tms + 1]),
               out |-> Append(steps[k].out, TDO(q))]
  IN IF k > Len(stream) THEN steps ELSE Trace(chips, stream, Append(steps, next))

Clocked(chips, p, stream) == Trace(chips, stream, <<[p |-> p, out |-> <<>>]>>)

\* BYPASS in every chip, and clocks change nothing.
Parked(p) == p.tap = "Idle" /\ \A i \in DOMAIN p.ir : p.ir[i] = Ones(Len(p.ir[i]))

-----------------------------------------------------------------------------
\* The host's picture of the state machine.

\* The state the host believes in after n clocks.
Followed(state, stream, n) ==
  LET run[k \in 0..n] ==
        IF k = 0 \/ state = Unknown THEN state ELSE transitions[run[k - 1]][stream[k].tms + 1]
  IN run[n]

RECURSIVE Search(_, _, _)

\* Breadth first: TMS bits of a shortest path that enters Reset only to end there.
Search(queue, found, to) ==
  LET r    == Head(queue)
      step == [b \in 1..2 |-> [state |-> transitions[r.state][b], bits |-> Append(r.bits, b - 1)]]
      next == SelectSeq(step, LAMBDA q : q.state \notin found /\ (q.state = "Reset" => to = "Reset"))
  IN IF r.state = to THEN r.bits
     ELSE Search(Tail(queue) \o next, found \cup {q.state : q \in ToSet(next)}, to)

path == [from, to \in States |-> Search(<<[state |-> from, bits |-> <<>>]>>, {from}, to)]

-----------------------------------------------------------------------------
\* The methods of Conn.

Result(p, state, err, sent, got) == [p |-> p, state |-> state, err |-> err, sent |-> sent, got |-> got]

\* The next call of a method: it runs if the previous ones succeeded.
Then(results, Call(_)) ==
  UNION {IF r.err THEN {r} ELSE {[q EXCEPT !.sent = @ \/ r.sent] : q \in Call(r)} : r \in results}

\* Mutant: the state of the last successful call is kept.
FailedCallKept(state) == state

\* What Conn knows after a failed wire call.
FailedCall(state) == Unknown

\* One stream in wire calls of at most Limit bits.  A failed call has clocked some
\* prefix; a context that ends between calls leaves a known state.
clock(chips, p, state, stream, faulty) ==
  LET n == Len(stream)
      done(at, k) == Result(at.p, Followed(state, stream, k), k < n, k > 0, IF k = n THEN at.out ELSE <<>>)
      failed(at) == Result(at.p, FailedCall(state), TRUE, TRUE, <<>>)
      after(at, k) == (IF k = n \/ (faulty /\ k % Limit = 0) THEN {done(at, k)} ELSE {}) \cup
                      (IF faulty /\ n > 0 THEN {failed(at)} ELSE {}) \cup
                      (IF faulty /\ n = 0 THEN {[done(at, k) EXCEPT !.err = TRUE]} ELSE {})
  IN UNION {UNION {after(steps[k + 1], k) : k \in 0..n} : steps \in {Clocked(chips, p, stream)}}

Stream(tms, tdi) == [k \in DOMAIN tms |-> [tms |-> tms[k], tdi |-> tdi[k]]]

Reset(chips, p, state, faulty) ==
  {IF r.err THEN r ELSE [r EXCEPT !.state = "Reset"] : r \in clock(chips, p, state, Stream(Ones(5), Zeros(5)), faulty)}

Move(chips, p, state, target, faulty) ==
  IF state = Unknown THEN {Result(p, state, TRUE, FALSE, <<>>)}
  ELSE LET tms == path[state, target]
       IN clock(chips, p, state, Stream(tms, Zeros(Len(tms))), faulty)

\* TMS of a shift that exits with its last bit.
LastHigh(n) == [k \in 1..n |-> IF k = n THEN 1 ELSE 0]

\* A scan that failed after traffic has lost the state.
finishScan(r) == IF r.err /\ r.sent THEN [r EXCEPT !.state = Unknown] ELSE r

\* A scan through Idle.  It completes although the caller's context has ended, and
\* then reports that beside the capture.
scan(chips, p, state, data, shift, faulty) ==
  LET idle    == Move(chips, p, state, "Idle", faulty)
      entered == Then(idle, LAMBDA r : Move(chips, r.p, r.state, shift, faulty))
      shifted == Then(entered, LAMBDA r : clock(chips, r.p, r.state, Stream(LastHigh(Len(data)), data), faulty))
      left    == Then(shifted, LAMBDA r : {[q EXCEPT !.got = IF q.err THEN <<>> ELSE r.got]
                                             : q \in Move(chips, r.p, r.state, "Idle", faulty)})
      done(r) == {finishScan(r)} \cup (IF faulty THEN {[finishScan(r) EXCEPT !.err = TRUE]} ELSE {})
  IN UNION {done(r) : r \in left}

ScanIR(chips, p, state, data, faulty) == scan(chips, p, state, data, "ShiftIR", faulty)
ScanDR(chips, p, state, data, faulty) == scan(chips, p, state, data, "ShiftDR", faulty)

Idle(chips, p, state, cycles, faulty) ==
  IF cycles = 0 THEN {Result(p, state, FALSE, FALSE, <<>>)}
  ELSE Then(Move(chips, p, state, "Idle", faulty),
            LAMBDA r : clock(chips, r.p, r.state, Stream(Zeros(cycles), Zeros(cycles)), faulty))

-----------------------------------------------------------------------------

Word(data, offset) == SubSeq(data, offset + 1, offset + WordBits)

RECURSIVE Observe(_, _, _, _)

\* Reset registers up to the first word of ones: a word that starts with zero is a
\* bypass bit.  FALSE if none or more than max are found.
Observe(data, max, offset, found) ==
  LET value == Word(data, offset)
  IN CASE value = Ones(WordBits) -> [taps |-> found, ok |-> found # <<>>]
       [] value # Ones(WordBits) /\ Len(found) = max -> [taps |-> found, ok |-> FALSE]
       [] value # Ones(WordBits) /\ Len(found) # max /\ value[1] = 0 ->
            Observe(data, max, offset + 1, Append(found, <<>>))
       [] OTHER -> Observe(data, max, offset + WordBits, Append(found, value))

observations(data, max) == Observe(data, max, 0, <<>>)

\* Discover leaves what it observed in got.
Discover(chips, p, state, max, faulty) ==
  LET reset == Reset(chips, p, state, faulty)
      scanned == Then(reset, LAMBDA r : ScanDR(chips, r.p, r.state, Ones(WordBits * (max + 1)), faulty))
      observed(r) == observations(r.got, max)
  IN {IF r.err THEN [r EXCEPT !.got = <<>>]
      ELSE [r EXCEPT !.got = observed(r).taps, !.err = ~observed(r).ok] : r \in scanned}

\* The place of the only zero among the first max + 1 bits, 0 if there is none.
markerLength(output, max) ==
  LET zeros == {i \in 0..max : output[i + 1] = 0}
  IN IF \E i \in zeros : zeros = {i} /\ i >= 2 THEN CHOOSE i \in zeros : TRUE ELSE 0

\* MeasureIR leaves the length in got.
MeasureIR(chips, p, state, faulty) ==
  LET entered == Then(Move(chips, p, state, "Idle", faulty),
                      LAMBDA r : Move(chips, r.p, r.state, "ShiftIR", faulty))
      flushed == Then(entered, LAMBDA r : clock(chips, r.p, r.state, Stream(Zeros(MaxIR), Ones(MaxIR)), faulty))
      marked  == Then(flushed, LAMBDA r :
                   clock(chips, r.p, r.state, Stream(LastHigh(MaxIR + 1), <<0>> \o Ones(MaxIR)), faulty))
      left    == Then(marked, LAMBDA r : {[q EXCEPT !.got = r.got] : q \in Move(chips, r.p, r.state, "Idle", faulty)})
      measured(r) == markerLength(r.got, MaxIR)
  IN {IF r.err THEN [r EXCEPT !.got = <<>>]
      ELSE [r EXCEPT !.got = <<measured(r)>>, !.err = measured(r) = 0] : r \in left}

=============================================================================
