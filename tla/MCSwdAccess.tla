---------------------------- MODULE MCSwdAccess ----------------------------
(***************************************************************************)
(* An instance of SwdAccess: two good identities and one whose constant    *)
(* bit is clear, one retry, two faults in a call and one in a batch.       *)
(***************************************************************************)
EXTENDS SwdAccess, TLC

CONSTANTS idA, idB, idBad

MCIds == {idA, idB, idBad}

MCBadIds == {idBad}

MCSymmetry == Permutations({idA, idB})

APW == Read("APW")

\* A batch whose chunk boundary depends on a buffered SELECT, one that hides a
\* write behind ABORT, and one that is packed whole.
MCBatches ==
  {<<[kind |-> "SELECT", data |-> <<"one", 0>>], Read("R4"), [kind |-> "W4", data |-> <<"turn", {}>>]>>,
   <<[kind |-> "SELECT", data |-> <<"zero", 0>>], Read("RDBUFF"), [kind |-> "W4", data |-> <<"set", {}>>]>>,
   <<APW, ABORT({"ORUN"}), APW>>}

=============================================================================
