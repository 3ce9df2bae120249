------------------------------ MODULE DapPort ------------------------------
(***************************************************************************)
(* dap.DebugPort on an SWD connection: protocol entry, ownership of power  *)
(* requests, the SELECT cache, WAIT retries and DAPABORT, and recovery     *)
(* from FAULT (dap/lifecycle.go, state.go, swddp.go, wait.go, ap.go,       *)
(* swd_ap.go, swd_executor.go).  The JTAG and register bindings, DPv3 and  *)
(* the sticky compare flag of a non-minimal port are left out.             *)
(*                                                                         *)
(* A call works on s = [c, t, live, left, d, g]: what SwdConn works on,    *)
(* the port's own fields d, and ghosts g.  Methods are sets of outcomes    *)
(* [s, v, err, acc] as in SwdConn; "Unsent", "Rejected", "State" and       *)
(* "WriteData" tell apart what callers ask of an error.                    *)
(***************************************************************************)
EXTENDS Naturals

CONSTANTS Ids, BadIds, Powers, APs, ConnectWaitLimit,   \* see SwdConn
          Waits                                         \* values of maxWaits; 0 is no limit

L == INSTANCE SwdLink

\* SELECT as the port caches it: a bank and an access port.
NoSel == <<"unknown", 0>>

SelZero == <<"zero", 0>>

Sels == (L!Banks \X APs) \cup {NoSel}

Ports ==
  [session    : {"idle", "connected", "repair"},
   response   : {"unchecked", "simple", "overrun", "lost"},
   sel        : Sels,              \* selectDP
   prior      : Sels,              \* priorSELECT
   pending    : BOOLEAN,           \* selectPending
   writing    : BOOLEAN,           \* dpWritePending
   owned      : SUBSET Powers,     \* ownedPower
   identity   : Ids \cup {L!NoId}, \* reentryID with reentryKnown
   handles    : BOOLEAN,           \* MemAP values of the current apGeneration exist
   reading    : BOOLEAN,           \* pendingRead
   maxWaits   : Waits]

NewDebugPort(n) ==
  [session |-> "idle", response |-> "unchecked", sel |-> NoSel, prior |-> NoSel, pending |-> FALSE,
   writing |-> FALSE, owned |-> {}, identity |-> L!NoId, handles |-> FALSE, reading |-> FALSE, maxWaits |-> n]

-----------------------------------------------------------------------------
\* debugPortState.

Valid(sel) == sel # NoSel

Bank(sel) == IF Valid(sel) THEN sel[1] ELSE "zero"

RecordSELECT(d, sel) == [d EXCEPT !.prior = d.sel, !.sel = sel, !.pending = TRUE]

ConfirmSELECT(d) == [d EXCEPT !.prior = NoSel, !.pending = FALSE]

InvalidateSELECT(d) == ConfirmSELECT([d EXCEPT !.sel = NoSel])

SettleDPWrite(d) == [d EXCEPT !.writing = FALSE]

\* Mutant: the framing stays lost.
StayLost(d) == SettleDPWrite(InvalidateSELECT(d))

BeginProtocolEntry(d) == SettleDPWrite(InvalidateSELECT([d EXCEPT !.response = "unchecked"]))

FaultBankZero(d) ==
  /\ Valid(d.sel) /\ Bank(d.sel) = "zero"
  /\ d.pending => Valid(d.prior) /\ Bank(d.prior) = "zero"

\* Mutant: a SELECT that was abandoned is believed.
TrustSELECT(d, v) == IF d.pending THEN ConfirmSELECT(d) ELSE d

ResolveSELECTFromCTRLSTAT(d, v) ==
  CASE ~d.pending                         -> d
    [] d.pending /\ "WDATA" \in v.sticky    -> InvalidateSELECT(d)
    [] d.pending /\ "WDATA" \notin v.sticky -> ConfirmSELECT(d)

ConfirmResponse(d, v) == [d EXCEPT !.response = IF v.orun THEN "overrun" ELSE "simple"]

ResponseKnown(d) == d.response \in {"simple", "overrun"}

InvalidateAP(d) == [d EXCEPT !.handles = FALSE]

LoseFraming(d) ==
  InvalidateSELECT([(IF d.response = "lost" THEN d ELSE InvalidateAP(d))
                    EXCEPT !.session = "repair", !.response = "lost"])

\* Mutant: the recorded identity is kept.
KeepIdentity(d) == SettleDPWrite([d EXCEPT !.session = "idle", !.owned = {}])

CompleteRelease(d) == SettleDPWrite([d EXCEPT !.session = "idle", !.owned = {}, !.identity = L!NoId])

\* if err != nil { loseFraming(); return err }
Lost(s, err) == L!Err([s EXCEPT !.d = LoseFraming(@)], err)

LostOnErr(outs) == {IF o.err = {} THEN o ELSE Lost(o.s, o.err) : o \in outs}

\* cleanupContext: work under a context of its own, and back to the caller's.
OwnContext(s) == [s EXCEPT !.live = TRUE]

CallersContext(outs, live) == {[o EXCEPT !.s.live = live] : o \in outs}

-----------------------------------------------------------------------------
\* One frame.

Read(kind) == [kind |-> kind, data |-> "none"]

SELECT(sel) == [kind |-> "SELECT", data |-> sel]

ABORT(flags) == [kind |-> "ABORT", data |-> flags]

DAPABORT == ABORT({"DAP"})

IsAP(req) == req.kind \in {"APR", "APW"}

\* Ghosts of an accepted frame: an access served by another access port than the
\* one meant, and one that may have changed access-port state.
Noted(s, req, acc) ==
  [s EXCEPT !.g = [stray |-> @.stray \/ (acc /\ IsAP(req) /\ s.t.ap # req.data.ap),
                   touched |-> @.touched \/ (acc /\ (req = DAPABORT \/ (IsAP(req) /\ req.data.raw)))]]

\* A batch of one operation; its own result, not Commit's.
Exchange(s, req) == {[o EXCEPT !.s = Noted(@, req, o.acc)] : o \in L!Exchange(s, req)}

ResponseSettlesPreviousDPWrite(req, err) ==
  err \in {{}, {"Wait"}, {"Parity"}} /\ req.kind \in {"APR", "APW", "RDBUFF"}

ResolveSELECT(d, req, v, err) ==
  CASE ~d.pending -> d
    [] d.pending /\ "Wait" \in err -> IF d.response = "overrun" THEN LoseFraming(d) ELSE d
    [] d.pending /\ "Wait" \notin err ->
         CASE req.kind = "ABORT" -> IF err = {} THEN InvalidateSELECT(d) ELSE d
           [] req.kind = "DPIDR" -> d
           [] req.kind = "R4" /\ Valid(d.sel) /\ Bank(d.sel) = "zero" ->
                IF err = {} THEN ResolveSELECTFromCTRLSTAT(d, v) ELSE d
           [] OTHER -> IF err \in {{}, {"Parity"}} THEN ConfirmSELECT(d) ELSE d

Observe(o, req, settlePrevious) ==
  [o EXCEPT !.s.d = [ResolveSELECT(@, req, o.v, o.err) EXCEPT
                       !.writing = @ /\ ~(settlePrevious /\ ResponseSettlesPreviousDPWrite(req, o.err))]]

-----------------------------------------------------------------------------
\* FAULT.

FaultMayAffectAP(req, apWork, v) ==
  /\ apWork /\ req.kind # "APW"
  /\ req.kind = "APR" \/ "WDATA" \notin v.sticky

\* Flags that remain after they were cleared leave the port to Release.
VerifyCleared(o, apWork) ==
  IF o.err # {} \/ o.v.sticky = {} THEN o
  ELSE LET d == IF apWork THEN InvalidateAP(o.s.d) ELSE o.s.d
       IN L!Err([o.s EXCEPT !.d = [d EXCEPT !.session = "repair"]], {"Fault"})

ClearFaultState(s, sticky, apWork) ==
  UNION {IF o.err # {} THEN {o}
         ELSE {VerifyCleared(p, apWork) : p \in LostOnErr(Exchange(o.s, Read("R4")))}
         : o \in LostOnErr(Exchange(s, ABORT(sticky)))}

\* What CTRL/STAT tells of the fault; it also settles earlier writes.
FaultState(o) == {"Fault", "State"} \cup (IF "WDATA" \in o.v.sticky THEN {"WriteData"} ELSE {})

FaultSettled(o) == [o.s EXCEPT !.d = ResolveSELECTFromCTRLSTAT(SettleDPWrite(@), o.v)]

\* The fault is read from CTRL/STAT and cleared, unless it is not known which
\* grammar and bank that read would meet.
HandleFault(s, req, apWork) ==
  IF ~ResponseKnown(s.d) \/ ~FaultBankZero(s.d) THEN {Lost(s, {"Fault"})}
  ELSE CallersContext(UNION {
         IF o.err # {} THEN {[o EXCEPT !.err = @ \cup {"Fault"}]}
         ELSE LET affected == FaultMayAffectAP(req, apWork, o.v)
              IN {IF p.err # {} THEN [p EXCEPT !.err = @ \cup FaultState(o)]
                  ELSE L!Err(IF affected THEN [p.s EXCEPT !.d = InvalidateAP(@)] ELSE p.s, FaultState(o))
                    : p \in IF o.v.sticky = {} THEN {L!Ok(FaultSettled(o))}
                            ELSE ClearFaultState(FaultSettled(o), o.v.sticky, affected)}
         : o \in LostOnErr(Exchange(OwnContext(s), Read("R4")))}, s.live)

-----------------------------------------------------------------------------
\* Transfers with WAIT retries.

FinishRetryError(o, req, apWork) ==
  CASE o.err = {"Fault"}  -> HandleFault(o.s, req, apWork)
    [] o.err = {"Parity"} -> {o}
    [] OTHER              -> {Lost(o.s, o.err)}

WaitForbidden(d, req) ==
  \/ req.kind \in {"DPIDR", "ABORT"}
  \/ req.kind = "R4" /\ Valid(d.sel) /\ Bank(d.sel) = "zero"

\* {"Retry"} asks for another attempt.  "Rejected" gives the request up: the
\* context has ended or maxWaits is reached (stopAfterWAIT).
PrepareWaitRetry(o, req, waits) ==
  LET d == o.s.d
  IN IF WaitForbidden(d, req) /\ o.err = {"Wait"} THEN {o}
     ELSE IF o.err # {"Wait"} \/ ~ResponseKnown(d) THEN {Lost(o.s, o.err)}
     ELSE IF d.reading /\ d.response = "overrun"
     THEN {L!Err([o.s EXCEPT !.d = InvalidateAP(@)], {"Indeterminate"})}
     ELSE {L!Err(u, IF u.live /\ (d.maxWaits = 0 \/ waits < d.maxWaits) THEN {"Retry"}
                    ELSE {"Rejected", IF u.live THEN "Wait" ELSE "Ctx"}) : u \in L!Tick(o.s)}

\* One attempt, after the given number of WAITs; none while the framing is lost.
Try(s, req, apWork, settlePrevious, waits) ==
  IF s.d.response = "lost" THEN {L!Err(s, {"Framing"})}
  ELSE UNION {
    CASE o.err = {} -> {o}
      [] o.err # {} /\ waits = 0 /\ "NotExecuted" \in o.err -> {[o EXCEPT !.err = @ \cup {"Unsent"}]}
      [] o.err # {} /\ ~(waits = 0 /\ "NotExecuted" \in o.err) /\ "Wait" \notin o.err ->
           FinishRetryError(o, req, apWork)
      [] OTHER -> PrepareWaitRetry(o, req, waits + 1)
    : o \in {Observe(e, req, settlePrevious) : e \in Exchange(s, req)}}

\* The loop of transferWithAPRecovery.  Every WAIT is a fault, so that left + 2
\* attempts are all there are.
Attempts(s, req, apWork, settlePrevious) ==
  LET after[n \in 0 .. s.left + 2] ==
        IF n = 0 THEN {L!Err(s, {"Retry"})}
        ELSE UNION {IF o.err # {"Retry"} THEN {o} ELSE Try(o.s, req, apWork, settlePrevious, n - 1)
                      : o \in after[n - 1]}
  IN after[s.left + 2]

RecordDPRead(d, reg, v) ==
  LET settled == IF reg \in {"DPIDR", "CTRLSTAT"} THEN d ELSE SettleDPWrite(d)
  IN IF reg = "CTRLSTAT" /\ Valid(d.sel) /\ Bank(d.sel) = "zero" THEN ConfirmResponse(settled, v) ELSE settled

\* recordDPWrite: every write leaves the target's buffer unsettled.
RecordDPWrite(d, req) ==
  LET begun == [d EXCEPT !.writing = TRUE]
  IN CASE req.kind = "SELECT" -> RecordSELECT(begun, req.data)
       [] req = DAPABORT      -> InvalidateAP(begun)
       [] OTHER               -> begun

ReadRecorded(outs, reg) ==
  {IF o.err = {} THEN [o EXCEPT !.s.d = RecordDPRead(@, reg, o.v)] ELSE o : o \in outs}

WriteRecorded(outs, req) ==
  {IF o.err = {} THEN [o EXCEPT !.s.d = RecordDPWrite(@, req)] ELSE o : o \in outs}

\* initialize and reenter: the link has just written SELECT and settled it.
Entered(s) == [s EXCEPT !.d = SettleDPWrite(ConfirmSELECT(RecordSELECT(@, SelZero)))]

\* With SELECT known and nothing unsettled, readDP of CTRL/STAT is one transfer,
\* and one that cannot WAIT.
Reenter(s) ==
  UNION {
    IF o.err # {} THEN {o}
    ELSE IF s.d.identity \notin {L!NoId, o.s.c.identity} THEN {Lost(o.s, {"State"})}
    ELSE LostOnErr(ReadRecorded(Try(Entered(o.s), Read("R4"), FALSE, TRUE, 0), "CTRLSTAT"))
    : o \in LostOnErr(L!LinkConnect([s EXCEPT !.d = BeginProtocolEntry(@)]))}

\* Transfers of the recovery itself are given up without another DAPABORT.
RestoreAfterAbort(s) ==
  IF ~FaultBankZero(s.d) THEN Reenter(s)
  ELSE UNION {
    IF o.err # {} THEN {o}
    ELSE LET u == [o.s EXCEPT !.d = ConfirmResponse(@, o.v)]
         IN UNION {IF p.err # {} THEN {p}
                   ELSE WriteRecorded(Attempts(p.s, SELECT(SelZero), FALSE, TRUE), SELECT(SelZero))
                   : p \in IF o.v.sticky = {} THEN {L!Ok(u)} ELSE Exchange(u, ABORT(o.v.sticky))}
    : o \in Exchange(s, Read("R4"))}

\* DAPABORT gives up what the access port still works on; the cause is reported
\* whether or not the port could be restored.
AbortWait(s, cause) ==
  {L!Err(o.s, cause) : o \in
     CallersContext(LostOnErr(UNION {
       IF o.err # {} THEN {o} ELSE RestoreAfterAbort(o.s)
       : o \in Exchange(OwnContext([s EXCEPT !.d = InvalidateAP(@)]), DAPABORT)}), s.live)}

TransferWithAPRecovery(s, req, apWork, settlePrevious) ==
  UNION {IF "Rejected" \in o.err THEN AbortWait(o.s, o.err) ELSE {o}
           : o \in Attempts(s, req, apWork, settlePrevious)}

\* transfer: waitMayAffectAP.
Transfer(s, req) == TransferWithAPRecovery(s, req, req.kind \in {"APR", "APW", "RDBUFF"}, TRUE)

-----------------------------------------------------------------------------
\* Debug-port registers.

ReadKind(reg) == IF reg \in {"CTRLSTAT", "DLCR"} THEN "R4" ELSE reg

\* RDBUFF while a DP write is unsettled is the barrier for it: success, a parity
\* error and a fault whose state was captured all settle the write.
ReadTransfer(s, reg) ==
  LET barrier == reg = "RDBUFF" /\ s.d.writing
  IN {IF barrier /\ (o.err = {} \/ "Parity" \in o.err \/ "State" \in o.err)
      THEN [o EXCEPT !.s.d = SettleDPWrite(@)] ELSE o
        : o \in TransferWithAPRecovery(s, Read(ReadKind(reg)), reg = "RDBUFF" /\ ~barrier, ~barrier)}

ReadDPRegister(s, reg) == ReadRecorded(ReadTransfer(s, reg), reg)

ConfirmPendingSELECT(s) == IF s.d.pending THEN ReadDPRegister(s, "RDBUFF") ELSE {L!Ok(s)}

WriteFrame(s, req) == WriteRecorded(Transfer(s, req), req)

\* A SELECT that is already cached is not written again.
Select(s, sel) ==
  UNION {IF o.err # {} THEN {o} ELSE ConfirmPendingSELECT(o.s)
           : o \in IF s.d.sel = sel THEN {L!Ok(s)} ELSE WriteFrame(s, SELECT(sel))}

InBank(s, bank) ==
  UNION {IF o.err # {} THEN {o} ELSE Select(o.s, <<bank, o.s.d.sel[2]>>) : o \in ConfirmPendingSELECT(s)}

SettlePreviousDPWrite(s) == IF s.d.writing THEN ReadTransfer(s, "RDBUFF") ELSE {L!Ok(s)}

readDP(s, reg) ==
  UNION {
    IF p.err # {} THEN {p} ELSE ReadDPRegister(p.s, reg)
    : p \in UNION {
        IF o.err # {} \/ reg \notin {"CTRLSTAT", "DLCR"} THEN {o}
        ELSE InBank(o.s, IF reg = "DLCR" THEN "one" ELSE "zero")
        : o \in IF reg \in {"CTRLSTAT", "DPIDR"} THEN SettlePreviousDPWrite(s) ELSE {L!Ok(s)}}}

\* writeDP of a register at address 0x04; validateSWDControl keeps ORUNDETECT.
WriteBanked(s, bank, word) ==
  IF bank = "zero" /\ (~ResponseKnown(s.d) \/ (word[1] = "set") # (s.d.response = "overrun"))
  THEN {L!Err(s, {"Invalid"})}
  ELSE UNION {IF o.err # {} THEN {o} ELSE WriteFrame(o.s, [kind |-> "W4", data |-> word])
                : o \in InBank(s, bank)}

-----------------------------------------------------------------------------
\* Access ports.

\* "Possible" says that the access may have had an effect on the access port.
MayHaveRun(o) ==
  IF o.err \cap {"Rejected", "Unsent", "Fault"} = {} THEN [o EXCEPT !.err = @ \cup {"Possible"}] ELSE o

\* RDBUFF completes a posted read and confirms a write, which WDATAERR shows to
\* have been abandoned.
Complete(s, req) ==
  {LET done == [o EXCEPT !.s.d.reading = FALSE]
   IN IF req.kind = "APW" /\ "WriteData" \in o.err THEN done ELSE [done EXCEPT !.err = @ \cup {"Possible"}]
     : o \in ReadDPRegister([s EXCEPT !.d.reading = (req.kind = "APR")], "RDBUFF")}

\* readAP and writeAP.
AccessAP(s, req) ==
  UNION {IF o.err # {} THEN {MayHaveRun(o)} ELSE Complete(o.s, req) : o \in Transfer(s, req)}

\* Mutant: only a failed access invalidates.
RevokeFailed(o) ==
  IF "Possible" \in o.err /\ o.err # {"Possible"} THEN [o EXCEPT !.s.d = InvalidateAP(@)] ELSE o

\* A raw access that may have run ends the MemAP values.
Revoke(o) == IF "Possible" \in o.err THEN [o EXCEPT !.s.d = InvalidateAP(@)] ELSE o

\* ReadRawAP, WriteRawAP, and the read of APIDR, which changes nothing in the
\* access port.
AccessRawAP(s, kind, ap, raw) ==
  UNION {
    IF o.err # {} THEN {o}
    ELSE {IF raw THEN Revoke(p) ELSE p : p \in AccessAP(o.s, [kind |-> kind, data |-> [ap |-> ap, raw |-> raw]])}
    : o \in Select(s, <<"zero", ap>>)}

-----------------------------------------------------------------------------
\* Power.

\* One look at the acknowledgements; {"Retry"} asks for another.
PollPower(s, acks, set) ==
  UNION {
    IF o.err # {} THEN {o}
    ELSE IF (set /\ acks \subseteq o.v.acks) \/ (~set /\ acks \cap o.v.acks = {}) THEN {L!Ok(o.s)}
    ELSE {L!Err(u, IF u.live THEN {"Retry"} ELSE {"Ctx"}) : u \in L!Tick(o.s)}
    : o \in readDP(s, "CTRLSTAT")}

\* The target follows its requests, so that left + 2 looks are enough.
WaitPower(s, acks, set) ==
  LET after[n \in 0 .. s.left + 2] ==
        IF n = 0 THEN {L!Err(s, {"Retry"})}
        ELSE UNION {IF o.err # {"Retry"} THEN {o} ELSE PollPower(o.s, acks, set) : o \in after[n - 1]}
  IN after[s.left + 2]

Word(v, power) == <<IF v.orun THEN "set" ELSE "clear", power>>

\* Mutant: all requests are dropped, inherited ones too.
AllPower(d, v) == {}

\* state &^ ownedPower.
WithoutOwned(d, v) == v.power \ d.owned

ReleasePower(s) ==
  IF s.d.owned = {} THEN {L!Ok(s)}
  ELSE UNION {
    IF q.err # {} THEN {q} ELSE {L!Ok([q.s EXCEPT !.d.owned = {}])}
    : q \in UNION {
        IF p.err # {} THEN {p} ELSE WaitPower(p.s, s.d.owned, FALSE)
        : p \in UNION {
            IF o.err # {} THEN {o} ELSE WriteBanked(o.s, "zero", Word(o.v, WithoutOwned(s.d, o.v)))
            : o \in readDP(s, "CTRLSTAT")}}}

-----------------------------------------------------------------------------
\* Release and Connect.

\* Mutant: a link that failed is taken for released.
ReleaseAnyway(s) == {[o EXCEPT !.s.d = CompleteRelease(@)] : o \in L!LinkRelease(s)}

\* A link that has nothing left to restore completes the release even if its
\* last step failed; one whose error says not executed keeps the framing.
ReleaseLink(s) ==
  {CASE o.err = {} \/ ~L!CleanupPending(o.s.c) -> [o EXCEPT !.s.d = CompleteRelease(@)]
     [] o.err # {} /\ L!CleanupPending(o.s.c) -> IF "NotExecuted" \in o.err THEN o ELSE Lost(o.s, o.err)
     : o \in L!LinkRelease(s)}

\* releasePower and releaseLink, which end Release and a failed Connect.
Relinquish(s) == UNION {IF o.err # {} THEN {o} ELSE ReleaseLink(o.s) : o \in ReleasePower(s)}

ClearSelection(s) ==
  UNION {IF o.err # {} THEN {o} ELSE ConfirmPendingSELECT(o.s) : o \in WriteFrame(s, SELECT(SelZero))}

Release(s) ==
  UNION {
    IF ~u.live THEN {L!Err(u, {"Ctx"})}
    ELSE UNION {
      IF p.err # {} THEN {p} ELSE Relinquish(p.s)
      : p \in UNION {
          IF o.err # {} THEN {o} ELSE ClearSelection(o.s)
          : o \in LET begun == [u EXCEPT !.d.session = "repair"]
                  IN IF ResponseKnown(u.d) THEN {L!Ok(begun)} ELSE Reenter(begun)}}
    : u \in L!Tick(s)}

FailConnect(s) ==
  CallersContext(UNION {IF o.err # {} THEN {o} ELSE Relinquish(o.s)
    : o \in IF s.d.response = "lost" \/ s.d.owned # {} THEN Reenter(OwnContext(s)) ELSE {L!Ok(OwnContext(s))}},
    s.live)

\* The link's own clean-up has left it idle, or with something to restore.
FailSWDConnect(s) ==
  {[o EXCEPT !.s.live = s.live, !.s.d = IF o.err = {} THEN CompleteRelease(@) ELSE LoseFraming(@)]
     : o \in L!LinkRelease([s EXCEPT !.live = FALSE])}

\* Only requests that are not asserted yet become owned, before they are written.
OwnPower(s, v) == WriteBanked([s EXCEPT !.d.owned = Powers \ v.power], "zero", Word(v, Powers))

AcquirePower(s, v) ==
  UNION {IF o.err # {} THEN {o} ELSE WaitPower(o.s, Powers, TRUE)
           : o \in IF Powers \subseteq v.power THEN {L!Ok(s)} ELSE OwnPower(s, v)}

\* initialize reads CTRL/STAT; a target found with transaction modes set is refused.
initialize(s) ==
  UNION {IF o.err # {} THEN {o} ELSE {o, L!Err(o.s, {"State"})}
           : o \in readDP([Entered(s) EXCEPT !.d.identity = s.c.identity], "CTRLSTAT")}

\* The link is up: initialize, power, and a last look at the context.
SetUp(s) ==
  UNION {
    {IF p.err # {} \/ u.live THEN L!Out(u, p.v, p.err) ELSE L!Err(u, {"Ctx"}) : u \in L!Tick(p.s)}
    : p \in UNION {IF o.err # {} THEN {o} ELSE AcquirePower(o.s, o.v) : o \in initialize(s)}}

BeginConnect(d) == BeginProtocolEntry([d EXCEPT !.identity = L!NoId, !.session = "repair", !.handles = FALSE])

\* MemAP values belong to one session.  Any failure after the link is up is rolled back.
Connect(s) ==
  UNION {
    IF ~u.live THEN {L!Err(u, {"Ctx"})}
    ELSE UNION {
      IF o.err # {} THEN FailSWDConnect(o.s)
      ELSE UNION {IF p.err # {} THEN FailConnect(p.s) ELSE {L!Ok([p.s EXCEPT !.d.session = "connected"])}
                  : p \in SetUp(o.s)}
      : o \in L!LinkConnect([u EXCEPT !.d = BeginConnect(@)])}
    : u \in L!Tick(s)}

=============================================================================
