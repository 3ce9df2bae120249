---------------------------- MODULE CmsisAdapter ----------------------------
(***************************************************************************)
(* A CMSIS-DAP session and its owner (CmsisHost) as one of the Owners.     *)
(***************************************************************************)
EXTENDS Adapter, Naturals

CONSTANTS MaxUnread, MaxPackets   \* CmsisSession

ASSUME CmsisAssumption == MaxUnread \in Nat /\ MaxPackets \in Nat \ {0}

C == INSTANCE CmsisHost

=============================================================================
