------------------------------- MODULE Calls -------------------------------
(***************************************************************************)
(* Three algorithms that each run inside one call and share nothing: the   *)
(* walk over a target's ROM tables (RomWalk), and the translation of a     *)
(* wire stream by the adapters that do it for their probe, cmsisdap        *)
(* planning packets (CmsisPlan) and ftdi encoding commands and decoding    *)
(* samples (FtdiStream).  A behaviour is one call of one of them.          *)
(***************************************************************************)
EXTENDS RomWalk, FiniteSetsExt

CONSTANTS ByteBits,      \* bits of a byte of a CMSIS-DAP packet, 8
          SequenceBits,  \* bits of a sequence, 64
          MaxSequences,  \* sequences of a packet, 255
          MaxBits,       \* bits of the longest CMSIS-DAP stream
          Sizes,         \* packet sizes of the probes
          MaxStream,     \* bits of the longest FTDI stream
          ChipBits       \* bits of a byte of the FTDI chip, 8

ASSUME SizesAssumption ==
  /\ {ByteBits, SequenceBits, MaxSequences, MaxBits} \subseteq Nat \ {0}
  /\ SequenceBits % ByteBits = 0
  /\ Sizes \subseteq Nat /\ \A n \in Sizes : n >= 4

VARIABLES call,   \* "walk", "cmsis" or "ftdi"
          direction, size, packet, packets, status,
          protocol, first, second, step, offset, commands, reads, pins, sent, shown, response, input

P == INSTANCE CmsisPlan
F == INSTANCE FtdiStream WITH ByteBits <- ChipBits, seen <- sent

planVars == <<direction, size, packet, packets, status>>

ftdiVars == <<protocol, first, second, step, offset, commands, reads, pins, sent, shown, response, input>>

callVars == <<vars, call, planVars, ftdiVars>>

\* A call that is not made has one set of arguments.
NoWalk ==
  /\ rom = CHOOSE m \in Roms : TRUE
  /\ base = 0
  /\ limits = CHOOSE l \in Limits : l \in WalkLimits /\ Validate(l)
  /\ Init

NoPlan == direction = <<TRUE>> /\ size = Max(Sizes) /\ P!Init

NoStream == protocol = "SWD" /\ first = <<FALSE>> /\ second = <<FALSE>> /\ F!Init

CallInit ==
  \/ call = "walk" /\ NoPlan /\ NoStream /\ Init
  \/ call = "cmsis" /\ NoWalk /\ NoStream /\ P!Init
  \/ call = "ftdi" /\ NoWalk /\ NoPlan /\ F!Init

CallNext ==
  /\ \/ call = "walk" /\ Next /\ UNCHANGED <<planVars, ftdiVars>>
     \/ call = "cmsis" /\ P!Next /\ UNCHANGED <<vars, ftdiVars>>
     \/ call = "ftdi" /\ F!Next /\ UNCHANGED <<vars, planVars>>
  /\ UNCHANGED call

CallSpec == CallInit /\ [][CallNext]_callVars

-----------------------------------------------------------------------------

\* Nothing of a stream is lost, repeated or turned around: the sequences of a plan
\* tile it, each over bits of its own direction (planSWDStream), and the target of
\* an FTDI chip sees it bit by bit and every sample comes back at its own place
\* (swdCommands, jtagCommands, decodeSWD).  And a plan is sound: packets and
\* answers fit the probe, a phase the target drives is sampled by one packet, and a
\* refusal has its cause in the stream.
StreamKept ==
  /\ P!StreamCovered /\ F!StreamSeen /\ F!SamplesInPlace
  /\ P!PacketsFit /\ P!PhasesWhole /\ P!RefusedForCause

=============================================================================
