------------------------------ MODULE Backend ------------------------------
(***************************************************************************)
(* What probe.Probe may rely on in an adapter session: the comments of     *)
(* probe.Backend, RestorationState and CleanupState.                       *)
(*   pending  CleanupPending(): Close still has work                       *)
(*   able     RestorationPossible(): the session can reach the target      *)
(*   outcome  what the last Close returned                                 *)
(* The sessions of cmsisdap, jlink and ftdi are checked to implement it.   *)
(***************************************************************************)
VARIABLES pending, able, outcome

Init ==
  /\ pending = FALSE
  /\ able = FALSE
  /\ outcome = "none"

\* A session is opened.  One that is only retained for cleanup may be lost.
Opened ==
  /\ ~pending
  /\ pending' = TRUE
  /\ able' \in BOOLEAN
  /\ outcome' = "none"

\* A released session is forgotten.
Forgotten ==
  /\ ~pending
  /\ outcome' = "none"
  /\ UNCHANGED <<pending, able>>

\* Any call but Close: terminal loss is never taken back, and cleanup neither
\* appears nor disappears.
Used ==
  /\ able' \in {able, FALSE}
  /\ UNCHANGED <<pending, outcome>>

\* Close has released everything; every later call returns nil as well.
Released ==
  /\ pending' = FALSE
  /\ able' = FALSE
  /\ outcome' = "nil"

\* Close fails.  What is left stays pending for a retry; if nothing is left the
\* error is final.
Failed ==
  /\ pending
  /\ outcome' = "error"
  /\ pending' \in BOOLEAN
  /\ able' \in {able, FALSE}
  /\ able' => pending'

Next == Opened \/ Forgotten \/ Used \/ Released \/ Failed

Spec == Init /\ [][Next]_<<pending, able, outcome>>

=============================================================================
