----------------------------- MODULE FtdiAdapter ----------------------------
(***************************************************************************)
(* An FTDI channel (FtdiChannel) as one of the Owners.                     *)
(***************************************************************************)
EXTENDS Adapter, Naturals, Sequences

CONSTANT Depth   \* FtdiChannel

ASSUME FtdiAssumption == Depth \in Nat \ {0}

VARIABLES on, left, queue, err, pc, stage, got, r, g, raw, reads, wire, cmd   \* FtdiChannel

F == INSTANCE FtdiChannel

ftdiVars == <<on, left, queue, err, pc, stage, got, r, g, raw, reads, wire, cmd>>

=============================================================================
