------------------------------ MODULE SwdConn ------------------------------
(***************************************************************************)
(* swd.Conn: one serialized SWD transaction stream over a wire             *)
(* (swd/lifecycle.go, transfer.go, connection.go, dormant.go,              *)
(* sequences.go).                                                          *)
(*                                                                         *)
(* A call works on s = [c, t, live, left]: the connection's fields, the    *)
(* target, whether the caller's context is still live, and how many more   *)
(* faults (wire failure, noise, cancellation, a busy target) can happen to *)
(* it.  Every method is the set of its outcomes                            *)
(* [s, v, err, acc]: the state it leaves, the value read, the error as the *)
(* set of sentinel errors that errors.Is would find ({} is nil, and a      *)
(* singleton is the sentinel itself), and whether the target accepted the  *)
(* frame of a register operation.                                          *)
(***************************************************************************)
EXTENDS SwdTarget

CONSTANTS ConnectWaitLimit,     \* connectWaitLimit, 100 in the code
          BadIds                \* DPIDR values whose constant bit is clear

ASSUME WaitLimitAssumption == ConnectWaitLimit \in Nat

ASSUME BadIdsAssumption == BadIds \subseteq Ids

NoBank == "unknown"

IdleConn ==
  [state |-> "idle", response |-> "simple", identity |-> NoId, original |-> "unknown",
   bank |-> NoBank, prior |-> NoBank, pending |-> FALSE]

Conns ==
  [state    : {"idle", "ready", "repair"},
   response : {"simple", "overrun"},
   identity : Ids \cup {NoId},               \* identity with identityKnown
   original : {"unknown", "clear", "set"},   \* originalOverrun with originalKnown
   bank     : Banks \cup {NoBank},
   prior    : Banks \cup {NoBank},
   pending  : BOOLEAN]                       \* selectPending

Out(s, v, err) == [s |-> s, v |-> v, err |-> err, acc |-> FALSE]

Ok(s) == Out(s, NoWord, {})

Err(s, err) == Out(s, NoWord, err)

\* if err != nil { return err }: continue with F only where no error occurred.
OnOk(outs, F(_)) ==
  UNION {IF o.err # {} THEN {o} ELSE F(o) : o \in outs}

\* errors.Join of an error with earlier ones.
Join(outs, tags) == {[o EXCEPT !.err = IF @ = {} THEN {} ELSE @ \cup tags] : o \in outs}

\* What callers tell apart of an error of several frames.
Summary(outs) ==
  {[o EXCEPT !.err = IF @ = {} THEN {} ELSE {"Failed"} \cup (@ \cap {"Wait", "NotExecuted"})] : o \in outs}

\* The caller's context may end before any check of it.
Tick(s) ==
  IF s.left = 0 \/ ~s.live THEN {s} ELSE {s, [s EXCEPT !.live = FALSE, !.left = @ - 1]}

CompletionError(outs) ==
  UNION {{[o EXCEPT !.s = u, !.err = IF u.live THEN @ ELSE @ \cup {"Ctx"}] : u \in Tick(o.s)}
           : o \in outs}

-----------------------------------------------------------------------------
\* Connection bookkeeping.

ConfirmBank(c) == [c EXCEPT !.prior = NoBank, !.pending = FALSE]

InvalidateBank(c) == [ConfirmBank(c) EXCEPT !.bank = NoBank]

RequireRepair(c) ==
  IF c.state = "idle" THEN c ELSE InvalidateBank([c EXCEPT !.state = "repair"])

Repair(s) == [s EXCEPT !.c = RequireRepair(@)]

\* if err != nil { c.requireRepair(); return err }
RepairOnErr(outs) ==
  {IF o.err = {} THEN o ELSE [o EXCEPT !.s = Repair(@)] : o \in outs}

CompleteTransfer(err) == err \in {{}, {"Wait"}, {"Fault"}, {"Parity"}}

IsBankZeroCTRLSTATRead(c, kind) == kind = "R4" /\ c.bank = "zero" /\ c.prior = "zero"

IsPossibleCTRLSTATRead(c, kind) == kind = "R4" /\ c.prior \in {"zero", NoBank}

\* What a response tells about a SELECT write that is still buffered.
ObservePendingSelection(c, kind, v, err) ==
  CASE kind = "ABORT" -> IF err = {} THEN InvalidateBank(c) ELSE c
    [] kind = "DPIDR" -> c
    [] IsBankZeroCTRLSTATRead(c, kind) ->
         IF err # {} THEN c
         ELSE IF "WDATA" \in v.sticky THEN InvalidateBank(c) ELSE ConfirmBank(c)
    [] kind = "R4" /\ ~IsBankZeroCTRLSTATRead(c, kind) /\ IsPossibleCTRLSTATRead(c, kind) -> c
    [] OTHER -> IF err \in {{}, {"Parity"}} THEN ConfirmBank(c) ELSE c

RecordSelection(c, req, err) ==
  IF req.kind = "SELECT" /\ err = {} THEN [c EXCEPT !.prior = c.bank, !.bank = req.data[1], !.pending = TRUE] ELSE c

ObserveTransfer(c, req, v, err) ==
  IF ~CompleteTransfer(err) THEN RequireRepair(c)
  ELSE RecordSelection(IF c.pending THEN ObservePendingSelection(c, req.kind, v, err) ELSE c, req, err)

\* A write at 0x04 needs a known bank; in bank zero it must keep ORUNDETECT, in
\* bank one it must keep the turnaround.
ValidateTransfer(c, req) ==
  req.kind = "W4" =>
    /\ ~c.pending /\ c.bank # NoBank
    /\ c.bank = "zero" => (req.data[1] = "set") = (c.response = "overrun")
    /\ c.bank = "one" => req.data[1] # "turn"

-----------------------------------------------------------------------------
\* Frames.

\* Host and target are no longer aligned.
Unaligned(s) == [s EXCEPT !.t.sync = FALSE]

\* The state after a reply of the target, and after one more fault.
Served(s, r) == [s EXCEPT !.t = r.t, !.left = r.left]

Faulted(s) == [s EXCEPT !.left = @ - 1]

\* The wire fails before, during or after the target saw the frame.
WireFailures(s, req) ==
  IF s.left = 0 THEN {}
  ELSE {Err(Faulted(s), {"Wire"})} \cup
       {[Err(Unaligned(Served(s, r)), {"Wire"}) EXCEPT !.acc = (r.ack = "OK")]
          : r \in Serve(s.t, req, s.c.response = "overrun", s.left - 1)}

AckError(ack) == [OK |-> {}, WAIT |-> {"Wait"}, FAULT |-> {"Fault"}, PROTO |-> {"Protocol"}][ack]

IsRead(kind) == kind \in {"DPIDR", "R4", "RDBUFF", "APR"}

\* The results of one reply as the host decodes it: noise on the wire can spoil
\* the parity of read data, or the acknowledgement of any reply.
DecodeReply(req, r) ==
  LET acc == r.ack = "OK"
      result(v, err, left) == [v |-> v, err |-> err, acc |-> acc, left |-> left]
      spoilt(err) == result(NoWord, err, r.left - 1)
  IN {IF acc THEN result(r.v, {}, r.left) ELSE result(NoWord, AckError(r.ack), r.left)} \cup
     (IF r.left = 0 THEN {} ELSE {spoilt({"Protocol"})}) \cup
     (IF r.left = 0 \/ ~acc \/ ~IsRead(req.kind) THEN {} ELSE {spoilt({"Parity"})})

\* In the simple grammar a refused request takes one more exchange, which can
\* fail; misreading the acknowledgement there also loses the alignment.
FinishFailed(o, ack) ==
  LET refused == o.err \notin {{}, {"Parity"}}
      misread == refused /\ o.err # AckError(ack)
  IN {IF misread THEN [o EXCEPT !.s = Unaligned(@)] ELSE o} \cup
     (IF refused /\ o.s.left > 0
      THEN {[o EXCEPT !.s = Faulted(Unaligned(@)), !.err = @ \cup {"Wire"}]} ELSE {})

TransferFrame(s, req) ==
  WireFailures(s, req) \cup
  UNION {
    UNION {
      LET o == [s |-> [s EXCEPT !.t = r.t, !.left = d.left], v |-> d.v, err |-> d.err, acc |-> d.acc]
      IN IF s.c.response = "simple" THEN FinishFailed(o, r.ack) ELSE {o}
      : d \in DecodeReply(req, r)}
    : r \in Serve(s.t, req, s.c.response = "overrun", s.left)}

ABORT(flags) == [kind |-> "ABORT", data |-> flags]

Read(kind) == [kind |-> kind, data |-> "none"]

ClearOverrunAfterWAIT(s) == RepairOnErr(TransferFrame(s, ABORT({"ORUN"})))

\* A WAIT in overrun mode set STICKYORUN, which is cleared at once; a SELECT
\* that was still buffered may be abandoned by that ABORT.
ExecuteFrame(s, req) ==
  UNION {
    IF o.s.c.response # "overrun" \/ o.err # {"Wait"} THEN {o}
    ELSE IF req.kind = "ABORT" THEN {Err(Repair(o.s), {"Wait", "State"})}
    ELSE {IF p.err # {} THEN Err(p.s, {"Wait", "State"} \cup p.err)
          ELSE Err(IF p.s.c.pending THEN Repair(p.s) ELSE p.s, {"Wait"})
            : p \in ClearOverrunAfterWAIT(o.s)}
    : o \in TransferFrame(s, req)}

\* readRaw and writeRaw: one frame, if the context is live.
Raw(s, req) ==
  UNION {IF u.live THEN ExecuteFrame(u, req) ELSE {Err(u, {"NotExecuted", "Ctx"})} : u \in Tick(s)}

\* Bit sequences without a response: a line reset or the dormant activation.
Clock(s, Effect(_, _)) ==
  UNION {
    IF ~u.live THEN {Err(u, {"Ctx"})}
    ELSE {Ok(Served(u, r)) : r \in Effect(u.t, u.left)} \cup
         (IF u.left = 0 THEN {}
          ELSE {Err(Faulted(Unaligned(u)), {"Wire"})} \cup
               {Err(Unaligned(Served(u, r)), {"Wire"}) : r \in Effect(u.t, u.left - 1)})
    : u \in Tick(s)}

EnterSWD(s) == Clock(s, LineReset)

EnterThroughDormant(s) == Clock(s, Activate)

-----------------------------------------------------------------------------
\* Protocol entry.

\* Only a clean invalid ACK triggers the dormant activation, and only once.
ReadEntryIdentity(s) ==
  UNION {
    IF o.err # {"Protocol"} THEN {o}
    ELSE UNION {
      IF ~u.live THEN {Err(u, {"Ctx"})}
      ELSE OnOk(Join(EnterThroughDormant(u), {"Protocol"}), LAMBDA p : Raw(p.s, Read("DPIDR")))
      : u \in Tick(o.s)}
    : o \in Raw(s, Read("DPIDR"))}

SelectBankZero(s) ==
  OnOk(Raw(s, [kind |-> "SELECT", data |-> <<"zero", 0>>]), LAMBDA o : Raw(o.s, Read("RDBUFF")))

\* Identity first, then sticky state, then bank zero settled through RDBUFF.
BootstrapAttempt(s) ==
  Summary(OnOk(RepairOnErr(ReadEntryIdentity(s)), LAMBDA o :
    IF o.v.id \in BadIds /\ o.s.c.identity = NoId
    THEN {Err([o.s EXCEPT !.c = InvalidateBank([@ EXCEPT !.state = "idle", !.response = "simple"])],
              {"State"})}
    ELSE IF o.v.id \in BadIds \/ o.s.c.identity \notin {NoId, o.v.id}
    THEN {Err(Repair(o.s), {"State"})}
    ELSE OnOk(RepairOnErr(Raw([o.s EXCEPT !.c.identity = o.v.id], ABORT(Flags))), LAMBDA p :
           OnOk(RepairOnErr(SelectBankZero(p.s)), LAMBDA q : {Ok([q.s EXCEPT !.c.bank = "zero"])}))))

\* A WAIT buys one fresh entry; any later error is final.
Bootstrap(s) ==
  UNION {
    IF "Wait" \notin o.err THEN {o}
    ELSE OnOk(Join(EnterSWD([o.s EXCEPT !.c = InvalidateBank([@ EXCEPT !.response = "simple"])]),
                   o.err),
              LAMBDA p : Join(BootstrapAttempt(p.s), o.err))
    : o \in BootstrapAttempt(s)}

ReadCTRLSTAT(s) == RepairOnErr(Raw(s, Read("R4")))

PrepareConnection(s) ==
  LET entry == [s EXCEPT !.c = InvalidateBank([@ EXCEPT !.state = "repair", !.response = "simple"])]
  IN OnOk(EnterSWD(entry), LAMBDA o : OnOk(Bootstrap(o.s), LAMBDA p : ReadCTRLSTAT(p.s)))

-----------------------------------------------------------------------------
\* Changing ORUNDETECT without losing the response grammar.

SetResponse(s, overrun) == [s EXCEPT !.c.response = IF overrun THEN "overrun" ELSE "simple"]

\* Clear the sticky flags seen in CTRL/STAT before writing it.
PrepareOverrunWrite(s, seen) ==
  IF seen.sticky = {} THEN {Out(s, seen, {})}
  ELSE OnOk(RepairOnErr(Raw(s, ABORT(seen.sticky))),
            LAMBDA o : {Out(o.s, [seen EXCEPT !.sticky = {}], {})})

\* Mutant: the write is believed without reading it back.
BlindOverrunChange(s, enabled, allowFallback) == {Ok(SetResponse(s, enabled))}

VerifyOverrunChange(s, enabled, allowFallback) ==
  OnOk(RepairOnErr(Raw(SetResponse(s, enabled), Read("R4"))), LAMBDA o :
    IF o.v.orun = enabled THEN {Ok(o.s)}
    ELSE IF allowFallback THEN {Ok(SetResponse(o.s, FALSE))}
    ELSE {Err(Repair(SetResponse(o.s, FALSE)), {"State"})})

\* {"Retry"} asks changeOverrun for another attempt with the CTRL/STAT in v.
RecoverAbandonedOverrunWrite(s) ==
  OnOk(RepairOnErr(Raw(s, Read("R4"))), LAMBDA o :
    IF "WDATA" \notin o.v.sticky THEN {Out(o.s, o.v, {"Retry"})}
    ELSE OnOk(RepairOnErr(Raw(o.s, ABORT({"WDATA"}))),
              LAMBDA p : {Out(p.s, [o.v EXCEPT !.sticky = @ \ {"WDATA"}], {"Retry"})}))

ResolveOverrunFault(s, enabled, allowFallback) ==
  OnOk(Join(RepairOnErr(Raw(s, Read("R4"))), {"Fault"}), LAMBDA o :
    LET clear == o.v.sticky \cap {"WDATA", "ORUN"}
        known == SetResponse(o.s, o.v.orun)
        cleared == IF clear = {} THEN {Ok(known)} ELSE RepairOnErr(Raw(known, ABORT(clear)))
    IN OnOk(Join(cleared, {"Fault"}), LAMBDA p :
         IF o.v.orun = enabled \/ allowFallback THEN {Ok(p.s)}
         ELSE {Out(p.s, [o.v EXCEPT !.sticky = @ \ clear], {"Retry"})}))

ResolveOverrunBarrier(o, enabled, allowFallback) ==
  CASE o.err \in {{}, {"Parity"}} -> VerifyOverrunChange(o.s, enabled, allowFallback)
    [] o.err = {"Wait"}  -> RecoverAbandonedOverrunWrite(o.s)
    [] o.err = {"Fault"} -> ResolveOverrunFault(o.s, enabled, allowFallback)
    [] OTHER             -> {Err(Repair(o.s), o.err)}

\* A retry loop of connectWaitLimit + 1 rounds: Round is run where the previous
\* one asked for another, and where the last one still does the session needs
\* repair.
RetryLoop(o, Round(_), Again(_)) ==
  LET after[n \in 0 .. ConnectWaitLimit + 1] ==
        IF n = 0 THEN {o} ELSE UNION {IF n > 1 /\ ~Again(p) THEN {p} ELSE Round(p) : p \in after[n - 1]}
  IN {IF Again(p) THEN Err(Repair(p.s), {"State"}) ELSE p : p \in after[ConnectWaitLimit + 1]}

\* RDBUFF proves that the write was performed.  In the simple grammar it is
\* repeated while it WAITs.
SettleOverrunWrite(s, enabled, allowFallback) ==
  LET again(o) == o.err = {"Wait"} /\ o.s.c.response = "simple"
      barrier == RetryLoop(Ok(s), LAMBDA o : Raw(o.s, Read("RDBUFF")), again)
  IN UNION {ResolveOverrunBarrier(o, enabled, allowFallback) : o \in barrier}

ChangeOverrunAttempt(s, seen, enabled, allowFallback) ==
  OnOk(PrepareOverrunWrite(s, seen), LAMBDA o :
    OnOk(RepairOnErr(Raw(o.s, [kind |-> "W4", data |-> <<IF enabled THEN "set" ELSE "clear", o.v.power>>])),
         LAMBDA p : SettleOverrunWrite(p.s, enabled, allowFallback)))

ChangeOverrun(s, seen, enabled, allowFallback) ==
  RetryLoop(Out(s, seen, {}),
            LAMBDA o : ChangeOverrunAttempt(o.s, o.v, enabled, allowFallback),
            LAMBDA o : o.err = {"Retry"})

-----------------------------------------------------------------------------
\* Release.

ReenterForRelease(s) ==
  LET entry == [s EXCEPT !.c = InvalidateBank([@ EXCEPT !.response = "simple"])]
  IN OnOk(RepairOnErr(EnterSWD(entry)), LAMBDA o :
       OnOk(Bootstrap(o.s), LAMBDA p :
         OnOk(ReadCTRLSTAT(p.s), LAMBDA q : {Ok(SetResponse(q.s, q.v.orun))})))

\* Mutant: a session in need of repair is not entered again.
TrustingPrepareRelease(s) == IF s.c.bank \in {NoBank, "zero"} THEN {Ok(s)} ELSE SelectBankZero(s)

PrepareRelease(s) ==
  OnOk(IF s.c.state # "ready" \/ s.c.bank = NoBank \/ s.c.pending
       THEN ReenterForRelease(s) ELSE {Ok(s)},
       LAMBDA o : IF o.s.c.bank = "zero" THEN {Ok(o.s)}
                  ELSE OnOk(RepairOnErr(SelectBankZero(o.s)),
                            LAMBDA p : {Ok([p.s EXCEPT !.c.bank = "zero"])}))

RestoreOverrun(s) ==
  OnOk(ReadCTRLSTAT(s), LAMBDA o :
    LET want == IF s.c.original = "unknown" THEN o.v.orun ELSE s.c.original = "set"
    IN IF o.v.orun = want THEN {Ok(o.s)} ELSE ChangeOverrun(o.s, o.v, want, FALSE))

\* Mutant: the captured setting survives.
StickyFinishRelease(s) == [s EXCEPT !.c = [IdleConn EXCEPT !.original = s.c.original]]

FinishRelease(s) == [s EXCEPT !.c = IdleConn]

Release(s) ==
  IF s.c.state = "idle" THEN {Ok(s)}
  ELSE UNION {
    IF ~u.live THEN {Err(u, {"NotExecuted", "Ctx"})}
    ELSE Summary(CompletionError(
           OnOk(PrepareRelease(u), LAMBDA o :
             OnOk(RestoreOverrun(o.s), LAMBDA p : {Ok(FinishRelease(p.s))}))))
    : u \in Tick(s)}

-----------------------------------------------------------------------------
\* Connect.

\* Mutant: a failed attempt drops what it captured.
ForgetfulCleanup(s) == {FinishRelease(s)}

\* A failed first attempt that captured nothing owns nothing; otherwise Release
\* runs under a context of its own and may leave its obligation pending.
CleanupFailedConnect(s) ==
  IF s.c.original = "unknown" THEN {FinishRelease(s)}
  ELSE IF s.c.state = "idle" THEN {s}
  ELSE {p.s : p \in Release([s EXCEPT !.live = TRUE])}

EstablishGrammar(o) ==
  LET s == IF o.s.c.original # "unknown" THEN o.s
           ELSE [o.s EXCEPT !.c.original = IF o.v.orun THEN "set" ELSE "clear"]
  IN OnOk(IF o.v.orun THEN {Ok(SetResponse(s, TRUE))} ELSE ChangeOverrun(s, o.v, TRUE, TRUE),
          LAMBDA p : {Ok([p.s EXCEPT !.c.state = "ready"])})

Connect(s) ==
  UNION {
    IF ~u.live THEN {Err(u, {"Ctx"})}
    ELSE LET outs == CompletionError(OnOk(PrepareConnection(u), EstablishGrammar))
             failed == {o.s : o \in {p \in outs : p.err # {}}}
         IN {o \in outs : o.err = {}}
            \cup {Err(t, {"Failed"}) : t \in UNION {CleanupFailedConnect(r) : r \in failed}}
    : u \in Tick(s)}

-----------------------------------------------------------------------------
\* Single register operations and explicit resets.

Transfer(s, req) ==
  UNION {
    IF ~u.live \/ u.c.state # "ready" \/ ~ValidateTransfer(u.c, req)
    THEN {Err(u, {"NotExecuted"})}
    ELSE CompletionError(
           {[o EXCEPT !.s.c = ObserveTransfer(@, req, o.v, o.err)] : o \in ExecuteFrame(u, req)})
    : u \in Tick(s)}

LineResetCall(s) == EnterSWD(Repair(s))

CleanupPending(c) == c.original # "unknown"

=============================================================================
