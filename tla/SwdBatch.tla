------------------------------ MODULE SwdBatch ------------------------------
(***************************************************************************)
(* Batch.Commit of swd/batch.go: an ordered queue of register operations.  *)
(* In the simple grammar the frames are sent one by one; in the overrun    *)
(* grammar up to Frames of them go out in one exchange and every response  *)
(* is inspected afterwards.                                                *)
(*                                                                         *)
(* ops is a sequence of requests.  The outcome of a commit is              *)
(* [s, rs, err]: rs[i] = [v, err, acc] is the resolved result of ops[i]    *)
(* (acc: did the target accept its frame) and err is Commit's own error.   *)
(***************************************************************************)
EXTENDS SwdConn, SequencesExt

CONSTANTS Frames         \* frames in one SWDIO call: MaxTransferBits / fixedFrameBits

ASSUME FramesAssumption == Frames \in Nat

Result(v, err, acc) == [v |-> v, err |-> err, acc |-> acc]

Unsent == Result(NoWord, {"NotExecuted"}, FALSE)

Progress(s, rs, err) == [s |-> s, rs |-> rs, err |-> err]

\* resolveSuffix: every operation that was not reached reports ErrNotExecuted.
ResolveSuffix(w, ops) ==
  [w EXCEPT !.rs = @ \o [i \in 1 .. Len(ops) - Len(@) |-> Unsent]]

\* The connection as if the operations had all succeeded.
Shadow(c, ops) == FoldLeft(LAMBDA d, req : ObserveTransfer(d, req, NoWord, {}), c, ops)

\* The operations rejected before traffic; a rejected one is not observed.
Rejected(c, ops) ==
  LET observe(d, req) == IF ValidateTransfer(d, req) THEN ObserveTransfer(d, req, NoWord, {}) ELSE d
      before(i) == FoldLeft(observe, c, SubSeq(ops, 1, i - 1))
  IN {i \in DOMAIN ops : ~ValidateTransfer(before(i), ops[i])}

\* Repeat Step from w until it stops or all operations are resolved.
Repeat(w, ops, Step(_)) ==
  LET after[n \in 0 .. Len(ops)] ==
        IF n = 0 THEN {w}
        ELSE UNION {IF u.err # {} \/ Len(u.rs) = Len(ops) THEN {u} ELSE Step(u) : u \in after[n - 1]}
  IN {ResolveSuffix(u, ops) : u \in after[Len(ops)]}

-----------------------------------------------------------------------------
\* The simple grammar.

SequentialStep(w, ops) ==
  LET i == Len(w.rs) + 1
      sent(u) == {[o EXCEPT !.s.c = ObserveTransfer(@, ops[i], o.v, o.err)] : o \in ExecuteFrame(u, ops[i])}
      resolved(o) == IF CompleteTransfer(o.err) THEN o.err ELSE o.err \cup {"Indeterminate"}
      after(o) == Progress(o.s, Append(w.rs, Result(o.v, resolved(o), o.acc)), resolved(o))
  IN UNION {
       IF ~u.live THEN {Progress(u, w.rs, {"Ctx"})}
       ELSE IF ~ValidateTransfer(u.c, ops[i])
       THEN {Progress(u, Append(w.rs, Result(NoWord, {"Invalid"}, FALSE)), {"Invalid"})}
       ELSE UNION {{[after(o) EXCEPT !.s = q, !.err = IF q.live THEN @ ELSE @ \cup {"Ctx"}]
                      : q \in Tick(o.s)} : o \in sent(u)}
       : u \in Tick(w.s)}

-----------------------------------------------------------------------------
\* The overrun grammar.

\* A chunk ends with an ABORT, or with a read that may be of CTRL/STAT while a
\* SELECT is still buffered: what follows depends on the response.
OverrunChunkEnd(c, ops, start) ==
  LET limit == IF start + Frames - 1 < Len(ops) THEN start + Frames - 1 ELSE Len(ops)
      before(i) == Shadow(c, SubSeq(ops, start, i - 1))
      boundary(i) == \/ ops[i].kind = "ABORT"
                     \/ before(i).pending /\ IsPossibleCTRLSTATRead(before(i), ops[i].kind)
  IN CHOOSE e \in start .. limit :
       /\ e = limit \/ boundary(e)
       /\ \A i \in start .. e - 1 : ~boundary(i)

\* All frames of a chunk served in order, with the results as decoded.
ServeChunk(s, chunk) ==
  FoldLeft(LAMBDA runs, req :
             UNION {UNION {{[t |-> r.t, left |-> d.left, rs |-> Append(w.rs, Result(d.v, d.err, d.acc))]
                              : d \in DecodeReply(req, r)}
                             : r \in Serve(w.t, req, TRUE, w.left)} : w \in runs},
           {[t |-> s.t, left |-> s.left, rs |-> <<>>]}, chunk)

\* The exchange fails after the target saw the first n frames.
FailOverrunExchange(w, s, chunk) ==
  UNION {
    {Progress(Repair(Unaligned(Served(s, run))),
              w.rs \o [i \in DOMAIN chunk |->
                         Result(NoWord, {"Indeterminate", "Wire"}, i <= n /\ run.rs[i].acc)],
              {"Wire"})
       : run \in ServeChunk(Faulted(s), SubSeq(chunk, 1, n))}
    : n \in 0 .. Len(chunk)}

StickyExempt(c, kind) ==
  \/ kind \in {"DPIDR", "ABORT"}
  \/ kind = "R4" /\ c.bank = "zero" /\ (c.pending => c.prior = "zero")

\* [c, exempt, waitWithPending] after looking at the results in order.
ObserveOverrunChunk(c, chunk, rs) ==
  FoldLeft(LAMBDA w, i :
             LET hold == rs[i].err = {"Wait"} /\ w.c.pending
             IN [c |-> IF hold THEN w.c ELSE ObserveTransfer(w.c, chunk[i], rs[i].v, rs[i].err),
                 exempt |-> IF StickyExempt(w.c, chunk[i].kind) THEN w.exempt \cup {i} ELSE w.exempt,
                 waitWithPending |-> w.waitWithPending \/ hold],
           [c |-> c, exempt |-> {}, waitWithPending |-> FALSE],
           [i \in DOMAIN chunk |-> i])

\* The first index from which on a result is one of errs; past the end if none.
FirstFrameError(rs, errs) ==
  CHOOSE i \in 1 .. Len(rs) + 1 :
    /\ i <= Len(rs) => rs[i].err \in errs
    /\ \A j \in 1 .. i - 1 : rs[j].err \notin errs

\* Mutant: results after a lost response are kept as decoded.
KeepDecoded(rs, first, last, cause) == rs

MarkIndeterminate(rs, first, last, cause) ==
  [i \in DOMAIN rs |->
     IF i \in first .. last THEN [rs[i] EXCEPT !.err = @ \cup {"Indeterminate", cause}] ELSE rs[i]]

\* The first operation after a WAIT or FAULT that the target did not abandon.
NotAbandoned(rs, failed, end, exempt) ==
  {i \in failed + 1 .. end :
     ~(rs[i].err = {"Fault"} \/ (i \in exempt /\ rs[i].err \in {{}, {"Parity"}}))}

\* STICKYORUN of a packed WAIT is cleared like that of a single one.
CleanupPackedWAIT(s, chunk, rs, waited, waitWithPending) ==
  LET joined(err) == [rs EXCEPT ![waited].err = @ \cup err]
      settle(u) == IF waitWithPending THEN Repair(u) ELSE u
  IN IF chunk[waited].kind = "ABORT"
     THEN {[s |-> Repair(s), rs |-> joined({"State"})]}
     ELSE {[s |-> settle(p.s), rs |-> IF p.err = {} THEN rs ELSE joined(p.err \cup {"State"})]
             : p \in ClearOverrunAfterWAIT(s)}

FinishOverrunChunk(s, chunk, raw, seen) ==
  LET protocol == FirstFrameError(raw, {{"Protocol"}})
      failed == FirstFrameError(raw, {{"Wait"}, {"Fault"}})
      waited == FirstFrameError(raw, {{"Wait"}})
      bad == NotAbandoned(raw, failed, protocol - 1, seen.exempt)
      marked == MarkIndeterminate(raw, protocol, Len(raw), "Protocol")
      rs == IF bad = {} THEN marked
            ELSE MarkIndeterminate(marked, Min(bad), protocol - 1, "State")
      u == IF protocol <= Len(raw) \/ bad # {} THEN Repair(s) ELSE s
  IN IF waited <= Len(raw) /\ u.c.state = "ready"
     THEN CleanupPackedWAIT(u, chunk, rs, waited, seen.waitWithPending)
     ELSE {[s |-> u, rs |-> rs]}

CommitOverrunChunk(w, s, chunk) ==
  UNION {
    LET seen == ObserveOverrunChunk(s.c, chunk, run.rs)
    IN {Progress(f.s, w.rs \o f.rs, UNION {f.rs[i].err : i \in DOMAIN f.rs})
          : f \in FinishOverrunChunk([s EXCEPT !.t = run.t, !.left = run.left, !.c = seen.c], chunk, run.rs, seen)}
    : run \in ServeChunk(s, chunk)}
  \cup (IF s.left = 0 THEN {} ELSE FailOverrunExchange(w, s, chunk))

OverrunStep(w, ops) ==
  LET start == Len(w.rs) + 1
  IN UNION {
       IF ~u.live THEN {Progress(u, w.rs, {"Ctx"})}
       ELSE IF ~ValidateTransfer(u.c, ops[start])
       THEN {Progress(u, Append(w.rs, Result(NoWord, {"Invalid"}, FALSE)), {"Invalid"})}
       ELSE LET chunk == SubSeq(ops, start, OverrunChunkEnd(u.c, ops, start))
            IN UNION {{[p EXCEPT !.s = q, !.err = IF q.live THEN @ ELSE @ \cup {"Ctx"}]
                         : q \in Tick(p.s)} : p \in CommitOverrunChunk(w, u, chunk)}
       : u \in Tick(w.s)}

-----------------------------------------------------------------------------

\* Commit.  In the overrun grammar transferLimit refuses a wire that cannot take one
\* whole frame, before any traffic.
Commit(s, ops) ==
  UNION {
    LET rejected == Rejected(u.c, ops)
        start == Progress(u, <<>>, {})
    IN IF u.c.state # "ready" \/ ~u.live
       THEN {ResolveSuffix([start EXCEPT !.err = {"State"}], ops)}
       ELSE IF rejected # {}
       THEN {Progress(u, [i \in DOMAIN ops |-> IF i \in rejected THEN Result(NoWord, {"Invalid"}, FALSE)
                                               ELSE Unsent], {"Invalid"})}
       ELSE IF u.c.response = "simple"
       THEN Repeat(start, ops, LAMBDA w : SequentialStep(w, ops))
       ELSE IF Frames = 0 THEN {ResolveSuffix([start EXCEPT !.err = {"Limit"}], ops)}
       ELSE Repeat(start, ops, LAMBDA w : OverrunStep(w, ops))
    : u \in Tick(s)}

=============================================================================
