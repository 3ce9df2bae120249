---------------------------- MODULE JlinkAdapter ----------------------------
(***************************************************************************)
(* A J-Link session and its owner (JlinkHost) as one of the Owners.        *)
(***************************************************************************)
EXTENDS Adapter, Naturals, Sequences

CONSTANT MaxStale   \* JlinkSession

ASSUME JlinkAssumption == MaxStale \in Nat

J == INSTANCE JlinkHost

=============================================================================
