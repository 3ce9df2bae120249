---------------------------- MODULE MCDapSession ----------------------------
(***************************************************************************)
(* An instance of DapSession.  Nothing tells the two power domains apart.  *)
(***************************************************************************)
EXTENDS DapSession, TLC

CONSTANTS debug, system

MCPowers == {debug, system}

MCSymmetry == Permutations(MCPowers)

=============================================================================
