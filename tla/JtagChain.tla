----------------------------- MODULE JtagChain -----------------------------
(***************************************************************************)
(* jtag.Chain and the TAPs borrowed from it, on a wire with a chain of     *)
(* chips that may differ from the layout.  Every action is one call; other *)
(* callers may also use the Conn directly.                                 *)
(*                                                                         *)
(* Counters are kept as what they are compared for: current says that      *)
(* Chain.serial is still Conn.serial, live holds the TAPs borrowed since   *)
(* Chain.generation last changed.                                          *)
(***************************************************************************)
EXTENDS JtagConn

CONSTANTS Chains,    \* the chains of chips that can be on the wire
          Layouts,   \* the layouts a caller can expect
          DataBits,  \* bits of a data register
          ScanData,  \* what users of a TAP scan into it
          RawTargets \* states that other users of the Conn move to

VARIABLES chips,     \* the chain on the wire
          p,         \* its state: TAP state, instructions, data and shift registers
          state,     \* Conn.state
          c,         \* the Chain
          live,      \* TAPs that can be used
          want,      \* ghost: the instructions a user of a ready chain relies on
          truthful   \* ghost: data scans did what they reported

vars == <<chips, p, state, c, live, want, truthful>>

\* NewChain, before any traffic.
NewChain(layout) ==
  [layout |-> layout, valid |-> FALSE, current |-> FALSE, released |-> TRUE, selected |-> 0]

Init ==
  /\ chips \in Chains
  /\ \E tap \in States :
       p = [tap |-> tap,
            ir  |-> [i \in DOMAIN chips |-> ResetIR(chips[i])],
            dr  |-> [i \in DOMAIN chips |-> Zeros(DataBits)],
            shift |-> CASE tap \in {"ShiftDR", "Exit1DR", "PauseDR", "Exit2DR"} ->
                             FlattenSeq([i \in DOMAIN chips |-> Register(chips[i], ResetIR(chips[i]), <<>>)])
                        [] tap \in {"ShiftIR", "Exit1IR", "PauseIR", "Exit2IR"} -> FlattenSeq(Captures(chips))
                        [] OTHER -> <<>>]
  /\ state = Unknown
  /\ \E layout \in Layouts : c = NewChain(layout)
  /\ live = {} /\ want = <<>> /\ truthful = TRUE

-----------------------------------------------------------------------------
\* The Chain.

irBits(layout) == Len(FlattenSeq([i \in DOMAIN layout |-> Ones(layout[i].ir)]))

\* Bits of the instruction chain before TAP i.
irOffset(layout, i) == irBits(SubSeq(layout, 1, i - 1))

Bypass(layout) == [i \in DOMAIN layout |-> Ones(layout[i].ir)]

ready == c.valid /\ c.current

\* Every instruction register starts its capture with 1, 0, and the chain ends
\* where the layout ends.
checkIR(layout, capture) ==
  /\ \A i \in DOMAIN layout : capture[irOffset(layout, i) + 1] = 1 /\ capture[irOffset(layout, i) + 2] = 0
  /\ Word(capture, irBits(layout)) = Ones(WordBits)

Refuse(r, ok) == [r EXCEPT !.err = ~ok]

\* Connect on the wire: discover, compare, measure, capture and park.
Validate(faulty) ==
  LET layout == c.layout
      found    == {IF r.err THEN r ELSE Refuse(r, r.got = [i \in DOMAIN layout |-> layout[i].id])
                     : r \in Discover(chips, p, state, Len(layout), faulty)}
      measured == {IF r.err THEN r ELSE Refuse(r, r.got = <<irBits(layout)>>)
                     : r \in Then(found, LAMBDA r : MeasureIR(chips, r.p, r.state, faulty))}
  IN {IF r.err THEN r ELSE Refuse(r, checkIR(layout, r.got))
        : r \in Then(measured, LAMBDA r : ScanIR(chips, r.p, r.state, Ones(irBits(layout) + WordBits), faulty))}

\* Mutant: traffic of a failed Connect is forgotten.
ConnectedQuietly(r) ==
  [c EXCEPT !.valid = ~r.err, !.current = ~r.err, !.selected = 0, !.released = @ /\ r.err]

\* The Chain after such an attempt: whatever was sent needs Release.
Connected(r) ==
  [c EXCEPT !.valid = ~r.err, !.current = ~r.err, !.selected = 0, !.released = @ /\ ~r.sent]

\* The Chain after the parking scan of Release.
ParkedBy(r, chain) ==
  [chain EXCEPT !.valid = FALSE, !.current = FALSE, !.released = r.got # <<>>]

\* Mutant: a chain that was lost is not validated again.
ReleasedDirectly(faulty) ==
  {[r |-> r, c |-> ParkedBy(r, c)] : r \in ScanIR(chips, p, state, Ones(irBits(c.layout)), faulty)}

\* Release, with what it needs of Connect: pairs of wire result and Chain.
Released(faulty) ==
  LET checked == IF ready THEN {[r |-> Result(p, state, FALSE, FALSE, <<>>), c |-> c]}
                 ELSE {[r |-> r, c |-> Connected(r)] : r \in Validate(faulty)}
  IN UNION {IF v.r.err THEN {v}
            ELSE {[r |-> r, c |-> ParkedBy(r, v.c)]
                    : r \in ScanIR(chips, v.r.p, v.r.state, Ones(irBits(c.layout)), faulty)}
            : v \in checked}

Wire(r) == p' = r.p /\ state' = r.state

Connect ==
  /\ \E r \in Validate(TRUE) :
       /\ Wire(r)
       /\ c' = Connected(r)
       /\ want' = IF r.err THEN <<>> ELSE Bypass(c.layout)
  /\ live' = {}
  /\ UNCHANGED <<chips, truthful>>

Release ==
  /\ ~c.released
  /\ \E v \in Released(TRUE) : Wire(v.r) /\ c' = v.c
  /\ live' = {} /\ want' = <<>>
  /\ UNCHANGED <<chips, truthful>>

-----------------------------------------------------------------------------
\* Borrowed TAPs.

TAP(i) ==
  /\ ready /\ i \in DOMAIN c.layout \ live
  /\ live' = live \cup {i}
  /\ UNCHANGED <<chips, p, state, c, want, truthful>>

\* The Chain after a call on a TAP: an error invalidates it.
complete(r, chain) ==
  IF r.err THEN [c EXCEPT !.valid = FALSE, !.current = TRUE, !.selected = 0] ELSE [chain EXCEPT !.current = TRUE]

valid(i) == ready /\ i \in live

\* The instruction of TAP i and BYPASS for the others.
TapScanIR(i, instruction) ==
  /\ valid(i)
  /\ LET wanted == [Bypass(c.layout) EXCEPT ![i] = instruction]
     IN \E r \in ScanIR(chips, p, state, FlattenSeq(wanted), TRUE) :
          /\ Wire(r)
          /\ c' = complete(r, [c EXCEPT !.selected = i])
          /\ want' = IF r.err THEN <<>> ELSE wanted
  /\ UNCHANGED <<chips, live, truthful>>

\* Mutant: padding for all other TAPs on one side.
PaddedLate(data, i) == data \o Zeros(Len(c.layout) - 1)

\* Data for TAP i between bypass bits of the others.
Padded(data, i) == Zeros(i - 1) \o data \o Zeros(Len(c.layout) - i)

TapScanDR(i, data) ==
  /\ valid(i) /\ c.selected = i
  /\ \E r \in ScanDR(chips, p, state, Padded(data, i), TRUE) :
       /\ Wire(r)
       /\ c' = complete(r, c)
       /\ want' = IF r.err THEN <<>> ELSE want
       /\ truthful' = (truthful /\ (~r.err /\ IsData(chips[i], want[i]) =>
                         /\ SubSeq(r.got, i, i + Len(data) - 1) = p.dr[i]
                         /\ r.p.dr = [p.dr EXCEPT ![i] = data]))
  /\ UNCHANGED <<chips, live>>

TapIdle(i) ==
  /\ valid(i)
  /\ \E r \in Idle(chips, p, state, 1, TRUE) :
       Wire(r) /\ c' = complete(r, c) /\ want' = IF r.err THEN <<>> ELSE want
  /\ UNCHANGED <<chips, live, truthful>>

-----------------------------------------------------------------------------
\* Other use of the Conn.

Raw(results) ==
  /\ \E r \in results :
       /\ Wire(r)
       /\ c' = [c EXCEPT !.current = @ /\ ~r.sent]
       /\ want' = IF r.sent THEN <<>> ELSE want
  /\ UNCHANGED <<chips, live, truthful>>

RawReset == Raw(Reset(chips, p, state, TRUE))

RawMove(target) == Raw(Move(chips, p, state, target, TRUE))

RawScan(data) == Raw(ScanIR(chips, p, state, data, TRUE))

Next ==
  \/ Connect
  \/ Release
  \/ \E i \in DOMAIN c.layout :
       \/ TAP(i)
       \/ \E code \in {0, 1} : TapScanIR(i, <<code>> \o Ones(c.layout[i].ir - 1))
       \/ \E data \in ScanData : TapScanDR(i, data)
       \/ TapIdle(i)
  \/ RawReset
  \/ \E target \in RawTargets : RawMove(target)
  \/ RawScan(Ones(irBits(c.layout)))

Spec == Init /\ [][Next]_vars

-----------------------------------------------------------------------------

\* The layout describes the chain on the wire.
Fits == c.layout = [i \in DOMAIN chips |-> [ir |-> Len(chips[i].cap), id |-> chips[i].id]]

\* The layout agrees with the chain in what Connect can compare: the reset registers
\* and the length of the instruction chain.  Where one instruction register ends and
\* the next begins remains the caller's word.
Matches ==
  /\ [i \in DOMAIN c.layout |-> c.layout[i].id] = [i \in DOMAIN chips |-> chips[i].id]
  /\ irBits(c.layout) = Len(FlattenSeq(Captures(chips)))

\* Conn never believes in a wrong TAP state, whatever prefix of a call a failing
\* wire has clocked and wherever a context has ended (clock, finishScan).  A ready
\* Chain matches the wire, is at rest, and its instruction registers hold, end to
\* end, what its users last selected: raw traffic or a failed call ends it (Connect,
\* ready, complete).
TapsAgree ==
  /\ state \in {Unknown, p.tap}
  /\ ready => Matches /\ p.tap = "Idle" /\ state = "Idle" /\ FlattenSeq(p.ir) = FlattenSeq(want)

\* If the layout is the chain's, a data scan that reports success has read the
\* register of its own TAP, written it, and written no other (TAP.ScanDR).  A layout
\* that only matches the chain can divide it elsewhere, and gives no such promise.
ScansTruthful == Fits => truthful

\* The chain counts as released only while nothing was sent for it, or once all
\* TAPs are in BYPASS and Idle: a call of the chain that leaves it otherwise leaves
\* CleanupPending (Connect, Release).
ReleasedParked == [][c # c' /\ c'.released /\ (p' # p \/ ~c.released) => Parked(p')]_vars

\* From every state one Release without faults parks the chips, if they are the
\* ones of the layout (Release).
ReleaseConverges ==
  Fits /\ ~c.released => \A v \in Released(FALSE) : ~v.r.err /\ v.c.released /\ Parked(v.r.p)

=============================================================================
