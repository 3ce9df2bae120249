----------------------------- MODULE CmsisPlan -----------------------------
(***************************************************************************)
(* planSWDStream: how cmsisdap cuts one SWD bit stream into                *)
(* DAP_SWD_Sequence packets.  A packet holds sequences, each of one        *)
(* direction; a driven sequence costs request bytes, a sampled one costs   *)
(* response bytes, and a target-driven phase must stay in one packet.  One *)
(* step adds one sequence or closes a packet.  The sizes the CMSIS-DAP format *)
(* fixes (a byte, 64 bits to a sequence, 255 sequences to a packet) are    *)
(* constants.                                                              *)
(***************************************************************************)
EXTENDS Naturals, Sequences, FiniteSets, SequencesExt, FiniteSetsExt

CONSTANTS ByteBits,      \* 8
          SequenceBits,  \* 64
          MaxSequences,  \* 255
          MaxBits,       \* the longest stream
          Sizes          \* packet sizes of the probes

VARIABLES direction,  \* TRUE where the host drives the bit
          size,       \* the probe's packet size
          packet,     \* the packet being filled: sequences, bytes, next bit
          packets,    \* the packets before it
          status      \* "planning", "done", "refused"

vars == <<direction, size, packet, packets, status>>

Streams == UNION {[1..n -> BOOLEAN] : n \in 1..MaxBits}

Bytes(bits) == (bits + ByteBits - 1) \div ByteBits

\* The first bit after the run of equal direction that starts after `from` bits.
swdRun(dir, from) ==
  Min({n \in from + 1..Len(dir) : n = Len(dir) \/ dir[n + 1] # dir[from + 1]}) - from

\* A whole target-driven phase fits what is left of the packet.
swdCaptureFits(bits, p, limit) ==
  LET descriptors == (bits + SequenceBits - 1) \div SequenceBits
  IN /\ p.response + Bytes(bits) <= limit
     /\ p.request + descriptors <= limit
     /\ Len(p.sequences) + descriptors <= MaxSequences

\* A packet takes a sampled sequence without looking at the rest of its phase.
NextCountGreedy(dir, p, limit) ==
  LET input    == ~dir[p.next + 1]
      capacity == IF input /\ p.request + 1 <= limit THEN (limit - p.response) * ByteBits
                  ELSE IF ~input /\ p.request + 1 < limit THEN (limit - p.request - 1) * ByteBits
                  ELSE 0
  IN IF p.next = Len(dir) \/ Len(p.sequences) = MaxSequences THEN 0
     ELSE Min({swdRun(dir, p.next), SequenceBits, capacity})

\* The bits of the next sequence of a packet; 0 closes the packet.
NextCount(dir, p, limit) ==
  LET run      == swdRun(dir, p.next)
      input    == ~dir[p.next + 1]
      capacity == IF input /\ p.request + 1 <= limit THEN (limit - p.response) * ByteBits
                  ELSE IF ~input /\ p.request + 1 < limit THEN (limit - p.request - 1) * ByteBits
                  ELSE 0
  IN IF p.next = Len(dir) \/ Len(p.sequences) = MaxSequences THEN 0
     ELSE IF input /\ ~swdCaptureFits(run, p, limit) THEN 0
     ELSE Min({run, SequenceBits, capacity})

Sequence(dir, p, count) ==
  [p EXCEPT !.sequences = Append(@, [host |-> dir[p.next + 1], from |-> p.next, bits |-> count]),
            !.request   = @ + 1 + IF dir[p.next + 1] THEN Bytes(count) ELSE 0,
            !.response  = @ + IF dir[p.next + 1] THEN 0 ELSE Bytes(count),
            !.next      = @ + count]

EmptyPacket(start) == [sequences |-> <<>>, request |-> 2, response |-> 2, next |-> start]

Init ==
  /\ direction \in Streams
  /\ size \in Sizes
  /\ packet = EmptyPacket(0)
  /\ packets = <<>>
  /\ status = IF direction[Len(direction)] THEN "planning" ELSE "refused"

Count == NextCount(direction, packet, size)

\* planSWDPacket adds sequences until one does not fit.
AddSequence ==
  /\ status = "planning"
  /\ Count > 0
  /\ packet' = Sequence(direction, packet, Count)
  /\ UNCHANGED <<direction, size, packets, status>>

\* planSWDStream takes the packet; one without progress refuses the stream.
ClosePacket ==
  /\ status = "planning"
  /\ Count = 0
  /\ IF packet.sequences = <<>>
     THEN status' = "refused" /\ UNCHANGED <<packet, packets>>
     ELSE /\ packets' = Append(packets, packet)
          /\ packet' = EmptyPacket(packet.next)
          /\ status' = IF packet.next = Len(direction) THEN "done" ELSE status
  /\ UNCHANGED <<direction, size>>

Next == AddSequence \/ ClosePacket

Spec == Init /\ [][Next]_vars

-----------------------------------------------------------------------------

\* Every packet and its answer fit the probe's packet size, its sequence count
\* fits the count byte, and its byte counts are those of its sequences.
PacketsFit ==
  \A i \in DOMAIN packets :
    LET p == packets[i]
        cost(host) == {k \in DOMAIN p.sequences : p.sequences[k].host = host}
        bytes(host) == MapThenSumSet(LAMBDA k : Bytes(p.sequences[k].bits), cost(host))
    IN /\ p.request = 2 + Len(p.sequences) + bytes(TRUE) /\ p.request <= size
       /\ p.response = 2 + bytes(FALSE) /\ p.response <= size
       /\ Len(p.sequences) \in 1..MaxSequences
       /\ \A k \in DOMAIN p.sequences : p.sequences[k].bits \in 1..SequenceBits

Position == IF packets = <<>> THEN 0 ELSE Last(packets).next

\* The sequences of all packets, in order, tile the planned bits, each over bits
\* of its own direction: nothing is lost, repeated or turned around.
StreamCovered ==
  LET all == FlattenSeq([i \in DOMAIN packets |-> packets[i].sequences])
      end(k) == all[k].from + all[k].bits
  IN /\ \A k \in DOMAIN all :
          /\ all[k].from = IF k = 1 THEN 0 ELSE end(k - 1)
          /\ \A bit \in all[k].from + 1..end(k) : direction[bit] = all[k].host
     /\ Position = IF all = <<>> THEN 0 ELSE end(Len(all))
     /\ status = "done" => Position = Len(direction)

\* A phase the target drives is sampled by a single packet: between two packets
\* the host drives the wire or is about to take it.
PhasesWhole ==
  \A i \in DOMAIN packets :
    LET cut == packets[i].next
    IN cut < Len(direction) => direction[cut] \/ direction[cut + 1]

\* A stream is refused only if it leaves the wire to the target or has a phase
\* that no packet of its own could hold: the packets before it do not matter.
RefusedForCause ==
  status = "refused" =>
    \/ ~direction[Len(direction)]
    \/ /\ ~direction[Position + 1]
       /\ ~swdCaptureFits(swdRun(direction, Position), EmptyPacket(Position), size)

=============================================================================
