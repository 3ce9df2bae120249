----------------------------- MODULE FtdiStream -----------------------------
(***************************************************************************)
(* clockStream of ftdi: an SWD or JTAG bit stream is encoded as MPSSE      *)
(* commands, the chip runs them, and decodeSWD puts the sampled bits back  *)
(* in their places.  Encoding and running take one command at a time.      *)
(*                                                                         *)
(* A stream is two bit vectors: direction and output (SWD), TMS and TDI    *)
(* (JTAG).  A byte holds ByteBits bits, 8 in the code.  Pins keep their    *)
(* level between commands, and the chip shifts sampled bits into a byte    *)
(* from the top, so a short sample leaves old bits below.                  *)
(***************************************************************************)
EXTENDS Naturals, Sequences, SequencesExt

CONSTANTS ByteBits, MaxStream   \* bits of a byte; of the longest stream

VARIABLES protocol, first, second,  \* the call: "SWD" or "JTAG", and the stream
          step,      \* "encode", "run" or "done"
          offset,    \* bits encoded
          commands,  \* the commands not yet run
          reads,     \* where the samples of each read command belong
          pins,      \* levels of data out and TMS, and whether they are driven
          seen,      \* what each clock showed the target
          shown,     \* the bit the target showed at each clock
          response,  \* the bytes the chip sent back
          input      \* the decoded stream

vars == <<protocol, first, second, step, offset, commands, reads, pins, seen, shown, response, input>>

Vectors(n) == [1..n -> BOOLEAN]

Bits == Len(first)

Init ==
  /\ protocol \in {"SWD", "JTAG"}
  /\ \E n \in 1..MaxStream : first \in Vectors(n) /\ second \in Vectors(n)
  /\ step = "encode" /\ offset = 0 /\ reads = <<>>
  /\ commands = IF protocol = "SWD" THEN <<>> ELSE <<[op |-> "set", drive |-> TRUE, data |-> FALSE]>>
  /\ pins = [drive |-> FALSE, data |-> FALSE, tms |-> FALSE]
  /\ seen = <<>> /\ shown = <<>> /\ response = <<>> /\ input = <<>>

-----------------------------------------------------------------------------
\* Encoding.

\* The longest run of at most limit bits at offset on which P holds.
RunWidth(limit, P(_)) ==
  LET runs == {w \in 0..limit : offset + w <= Bits /\ \A k \in offset + 1..offset + w : P(k)}
  IN CHOOSE w \in runs : \A v \in runs : v <= w

swdRunWidth == RunWidth(ByteBits, LAMBDA k : first[k] = first[offset + 1])

\* Bits of a vector from offset on.
swdRunData(vector, width) == SubSeq(vector, offset + 1, offset + width)

Emit(cmds, sampled, width) ==
  /\ commands' = commands \o cmds
  /\ reads' = IF sampled THEN Append(reads, [offset |-> offset, bits |-> width]) ELSE reads
  /\ offset' = offset + width
  /\ UNCHANGED <<protocol, first, second, step, pins, seen, shown, response, input>>

SetDataLow(drive, data) == [op |-> "set", drive |-> drive, data |-> data]

\* One iteration of swdCommands: a run the host drives, or one it samples.
swdCommands ==
  /\ step = "encode" /\ protocol = "SWD" /\ offset < Bits
  /\ LET width == swdRunWidth
         data == swdRunData(second, width)
     IN IF first[offset + 1]
        THEN Emit(<<SetDataLow(TRUE, data[1]), [op |-> "out", bits |-> data]>>, FALSE, width)
        ELSE Emit(<<SetDataLow(FALSE, FALSE), [op |-> "in", bits |-> data]>>, TRUE, width)

\* Mutant: the pins are not set before a run with TMS low.
jtagCommandsUnset ==
  /\ step = "encode" /\ protocol = "JTAG" /\ offset < Bits
  /\ LET low == RunWidth(ByteBits, LAMBDA k : ~first[k])
         width == IF low > 0 THEN low
                  ELSE RunWidth(ByteBits - 1, LAMBDA k : second[k] = second[offset + 1])
     IN IF low > 0
        THEN Emit(<<[op |-> "both", bits |-> swdRunData(second, width)]>>, TRUE, width)
        ELSE Emit(<<[op |-> "tms", bits |-> swdRunData(first, width), tdi |-> second[offset + 1]]>>, TRUE, width)

\* One iteration of jtagCommands: TDI bits while TMS is low, else TMS bits over
\* a constant TDI, which takes the top bit of the data byte.
jtagCommands ==
  /\ step = "encode" /\ protocol = "JTAG" /\ offset < Bits
  /\ LET low == RunWidth(ByteBits, LAMBDA k : ~first[k])
         width == IF low > 0 THEN low
                  ELSE RunWidth(ByteBits - 1, LAMBDA k : second[k] = second[offset + 1])
     IN IF low > 0
        THEN Emit(<<SetDataLow(TRUE, FALSE), [op |-> "both", bits |-> swdRunData(second, width)]>>, TRUE, width)
        ELSE Emit(<<[op |-> "tms", bits |-> swdRunData(first, width), tdi |-> second[offset + 1]]>>, TRUE, width)

\* An SWD stream ends with the data line released.
Encoded ==
  /\ step = "encode" /\ offset = Bits
  /\ commands' = IF protocol = "SWD" THEN Append(commands, SetDataLow(FALSE, FALSE)) ELSE commands
  /\ step' = "run"
  /\ UNCHANGED <<protocol, first, second, offset, reads, pins, seen, shown, response, input>>

-----------------------------------------------------------------------------
\* The chip.

\* The pins at the i-th clock of a command.
Level(c, i) ==
  CASE c.op \in {"out", "both"} -> [pins EXCEPT !.data = c.bits[i]]
    [] c.op = "tms" -> [pins EXCEPT !.data = c.tdi, !.tms = c.bits[i]]
    [] OTHER -> pins

\* A byte of samples: the last one on top, bits of earlier bytes at the bottom.
Shifted(samples, old) == [k \in 1..ByteBits - Len(samples) |-> old] \o samples

RunCommand ==
  /\ step = "run" /\ commands # <<>>
  /\ LET c == Head(commands) IN
     \/ /\ c.op = "set"
        /\ pins' = [drive |-> c.drive, data |-> c.data, tms |-> FALSE]
        /\ UNCHANGED <<seen, shown, response>>
     \/ /\ c.op # "set"
        /\ seen' = seen \o [i \in DOMAIN c.bits |-> Level(c, i)]
        /\ pins' = Level(c, Len(c.bits))
        /\ \E samples \in Vectors(Len(c.bits)), old \in BOOLEAN :
             /\ shown' = shown \o samples
             /\ response' = IF c.op = "out" THEN response ELSE Append(response, Shifted(samples, old))
  /\ commands' = Tail(commands)
  /\ UNCHANGED <<protocol, first, second, step, offset, reads, input>>

-----------------------------------------------------------------------------

\* Bit k of the result: the samples of a read sit on top of its byte.
decodeBit(k) ==
  \E i \in DOMAIN reads :
    /\ k \in reads[i].offset + 1..reads[i].offset + reads[i].bits
    /\ response[i][ByteBits - reads[i].bits + k - reads[i].offset]

decodeSWD ==
  /\ step = "run" /\ commands = <<>>
  /\ input' = [k \in 1..Bits |-> decodeBit(k)]
  /\ step' = "done"
  /\ UNCHANGED <<protocol, first, second, offset, commands, reads, pins, seen, shown, response>>

Next == swdCommands \/ jtagCommands \/ Encoded \/ RunCommand \/ decodeSWD

Spec == Init /\ [][Next]_vars

-----------------------------------------------------------------------------

\* The target sees the stream bit by bit: it is driven where the host drives, TMS
\* and TDI have their levels at every clock whatever earlier commands left on the
\* pins, and an SWD data line is released in the end.
StreamSeen ==
  /\ Len(seen) <= Bits /\ Len(shown) = Len(seen)
  /\ \A k \in DOMAIN seen :
       IF protocol = "SWD"
       THEN seen[k].drive = first[k] /\ (first[k] => seen[k].data = second[k])
       ELSE seen[k] = [drive |-> TRUE, data |-> second[k], tms |-> first[k]]
  /\ step = "done" => Len(seen) = Bits /\ (protocol = "SWD" => ~pins.drive)

\* Every sampled bit comes back at its own place, and no driven bit is reported.
SamplesInPlace ==
  step = "done" => \A k \in 1..Bits : input[k] = (shown[k] /\ (protocol = "SWD" => ~first[k]))

=============================================================================
