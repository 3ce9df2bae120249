--------------------------- MODULE MCCortexTarget ---------------------------
(***************************************************************************)
(* Instances of CortexTarget: one core, either profile, and the events     *)
(* each run lets reach it.                                                 *)
(***************************************************************************)
EXTENDS CortexTarget

\* Either profile under every event it can meet; an M33 without the events that
\* end a halt unreported; and an M0 without them.
MCWorlds ==
  {[profile |-> "M33", events |-> AllEvents],
   [profile |-> "M33", events |-> {"ExternalHalt", "ExternalRestart", "SnapStall"}],
   [profile |-> "M0", events |-> {"ExternalHalt", "ExternalRestart", "WarmReset"}],
   [profile |-> "M0", events |-> {"ExternalHalt"}]}

MCReset == {[profile |-> "M0", events |-> {"ExternalHalt", "ExternalRestart", "WarmReset"}]}
MCRestart == {[profile |-> "M33", events |-> {"ExternalRestart"}]}
MCDenied == {[profile |-> "M33", events |-> {"ExternalHalt", "GrantSecureDebug", "RevokeSecureDebug"}]}

=============================================================================
