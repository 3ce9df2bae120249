------------------------------ MODULE Adapter ------------------------------
(***************************************************************************)
(* What the adapters beneath a probe have in common: the last result of    *)
(* Close, the session with the owner that holds it (CmsisHost, JlinkHost), *)
(* and the steps the contract of probe.Backend allows (Backend).           *)
(***************************************************************************)
VARIABLES outcome,   \* what the last Close of an adapter returned
          x, held    \* CmsisHost and JlinkHost: the session and its owner

hostVars == <<x, held>>

\* One step of an adapter session, as its contract sees it: p and q tell whether
\* cleanup was and is pending, a and b whether restoration was and is possible, o and
\* n what the last Close had and has returned.
Keeps(p, a, o, q, b, n) ==
  \/ ~p /\ q /\ n = "none"
  \/ ~p /\ ~q /\ (b <=> a) /\ n = "none"
  \/ (q <=> p) /\ (b => a) /\ n = o
  \/ ~q /\ ~b /\ n = "nil"
  \/ p /\ (b => a /\ q) /\ n = "error"

=============================================================================
