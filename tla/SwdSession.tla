----------------------------- MODULE SwdSession -----------------------------
(***************************************************************************)
(* A client of swd.Conn and its environment.  The client calls Connect,    *)
(* Release, LineReset, single transfers and batches in any order, and the  *)
(* environment may exchange the target between two calls.  Conn is not     *)
(* safe for concurrent use, so a call is one step.                         *)
(***************************************************************************)
EXTENDS SwdBatch

CONSTANTS Batches,        \* the sequences of requests a client commits
          FaultsPerCall,  \* how many faults can hit one call
          FaultsPerBatch  \* how many faults can hit one Commit

VARIABLES conn,      \* the fields of swd.Conn
          target,    \* the attached target
          foreign,   \* ghost: exchanged while the connection held a session
          truthful   \* ghost: the results of every batch committed told the truth

vars == <<conn, target, foreign, truthful>>

Requests ==
  {Read("DPIDR"), Read("R4"), Read("RDBUFF"), Read("APR"), Read("APW")}
  \cup {[kind |-> "SELECT", data |-> b] : b \in Banks \X APs}
  \cup {[kind |-> "W4", data |-> w] : w \in Words \X SUBSET Powers}
  \cup {ABORT({"ORUN"}), ABORT(Flags)}

ASSUME FaultsAssumption == FaultsPerCall \in Nat /\ FaultsPerBatch \in Nat

ASSUME BatchesAssumption == Batches \subseteq Seq(Requests)

Init ==
  /\ conn = IdleConn
  /\ target \in FreshTargets
  /\ foreign = FALSE
  /\ truthful = TRUE

Call(left) == [c |-> conn, t |-> target, live |-> TRUE, left |-> left]

Settle(o) ==
  /\ conn' = o.s.c
  /\ target' = o.s.t
  /\ UNCHANGED <<foreign, truthful>>

DoConnect == \E o \in Connect(Call(FaultsPerCall)) : Settle(o)

DoRelease == conn.state # "idle" /\ \E o \in Release(Call(FaultsPerCall)) : Settle(o)

DoLineReset == \E o \in LineResetCall(Call(FaultsPerCall)) : Settle(o)

DoTransfer == \E req \in Requests : \E o \in Transfer(Call(FaultsPerCall), req) : Settle(o)

\* A success or a parity error means that the target accepted the frame, and an
\* accepted frame is reported as that or as indeterminate.  Once the target refused
\* or never saw an operation, it accepts only later ones that sticky flags do not
\* block.
Truthful(ops, rs) ==
  /\ \A i \in DOMAIN ops :
       LET completed == rs[i].err \in {{}, {"Parity"}}
       IN /\ completed => rs[i].acc
          /\ rs[i].acc => completed \/ "Indeterminate" \in rs[i].err
  /\ \A i, j \in DOMAIN ops :
       (i < j /\ ~rs[i].acc /\ rs[j].acc) => ops[j].kind \in {"DPIDR", "R4", "ABORT"}

DoCommit ==
  \E ops \in Batches : \E o \in Commit(Call(FaultsPerBatch), ops) :
    /\ conn' = o.s.c
    /\ target' = o.s.t
    /\ truthful' = (truthful /\ Truthful(ops, o.rs))
    /\ UNCHANGED foreign

\* Another target is attached; the session, if any, was not established with it.
Exchange ==
  /\ target' \in Attachable(conn.state # "idle")
  /\ foreign' = (conn.state # "idle")
  /\ UNCHANGED <<conn, truthful>>

Next == DoConnect \/ DoRelease \/ DoLineReset \/ DoTransfer \/ DoCommit \/ Exchange

Spec == Init /\ [][Next]_vars

-----------------------------------------------------------------------------

\* The fields are in range and consistent: an idle connection has forgotten all of
\* its session, a remembered setting has an identity, a pending SELECT a bank.
TypeOK ==
  /\ conn \in Conns
  /\ conn.state = "idle" => conn = IdleConn
  /\ conn.original # "unknown" => conn.identity # NoId
  /\ conn.pending => conn.bank # NoBank
  /\ target \in Targets
  /\ foreign \in BOOLEAN

\* While the connection is ready, host and target frames are aligned and both use
\* the same response grammar, whatever the buffered write turns out to do: no
\* sequence of failures, retries and client writes desynchronizes response and
\* ORUNDETECT without requireRepair noticing.
GrammarAgrees ==
  (conn.state = "ready" /\ ~target.swapped) =>
    \A t \in Settlements(target) : t.sync /\ t.orun = (conn.response = "overrun")

\* A ready connection that believes in a DP bank is right about it, whatever the
\* buffered write turns out to do, and while its SELECT is pending the target has
\* the new bank or the prior one: the write checks of validateTransfer and the
\* sticky exemptions of a chunk rest on it.
BankAgrees ==
  (conn.state = "ready" /\ ~target.swapped /\ conn.bank # NoBank) =>
    \A t \in Settlements(target) :
      t.bank = conn.bank \/ (conn.pending /\ conn.prior \in {t.bank, NoBank})

\* Whenever the connection owns no restoration, the target it was used with has
\* the ORUNDETECT setting it was found with: the setting is captured before the
\* first change and forgotten only after it has been restored.
OwnedBeforeChanged ==
  (conn.original = "unknown" /\ ~foreign) =>
    \A t \in Settlements(target) : t.orun = target.inherit

\* A batch tells the truth about every operation: none is reported as refused or
\* not executed that the target accepted, and none overtakes an earlier one the
\* target did not accept, although a whole chunk is sent before the first response
\* is read (commitOverrunChunk, markIndeterminate).
BatchTruth == truthful

\* From whatever state failures leave, two calls of Release that meet no further
\* fault end the session with the target it was established with and leave
\* ORUNDETECT as it was found.  (The first can be refused by a sticky flag while
\* another bank is selected; it then leaves a session that is entered again.)
ReleaseConverges ==
  (conn.state # "idle" /\ ~foreign) =>
    \A o \in UNION {Release(p.s) : p \in Release(Call(0))} :
      o.s.c.state = "idle" /\ PerformPost(o.s.t).orun = target.inherit

=============================================================================
