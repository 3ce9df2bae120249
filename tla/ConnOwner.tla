----------------------------- MODULE ConnOwner ------------------------------
(***************************************************************************)
(* armdebug.Conn over probe.Probe (ArmConn) as one of the Owners.          *)
(***************************************************************************)
CONSTANT APs   \* ArmConn

ASSUME APsAssumption == "dp" \notin APs

VARIABLES h, c, at, setup, cause, holder, target, told, calm   \* ArmConn

A == INSTANCE ArmConn WITH pc <- at, err <- cause

connVars == <<h, c, at, setup, cause, holder, target, told, calm>>

=============================================================================
