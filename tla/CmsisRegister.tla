--------------------------- MODULE CmsisRegister ---------------------------
(***************************************************************************)
(* cmsisdap.RegisterSWD: register transfers the probe's firmware frames    *)
(* itself.  The host sets the firmware's response grammar, owns ORUNDETECT *)
(* and follows the DP bank through answers that say only how far a         *)
(* transfer came.  The session is that of CmsisSession, the target that of *)
(* SwdTarget.                                                              *)
(*                                                                         *)
(* A call works on z = [x, r, t, data, left]: the session, the RegisterSWD *)
(* fields, the target, the firmware's data-phase setting, and the faults   *)
(* that can still hit the call.                                            *)
(***************************************************************************)
EXTENDS CmsisSession

CONSTANTS Ids, Powers, APs,   \* see SwdTarget
          BadIds,             \* DPIDR values whose constant bit is clear
          Faulty              \* faults that can hit one call

SWD == INSTANCE SwdTarget

NoBank == "none"

Registers ==
  [active : BOOLEAN, known : BOOLEAN, original : BOOLEAN,
   identity : Ids \cup {SWD!NoId},
   bank : SWD!Banks \cup {NoBank}]     \* NoBank: ~bankKnown

NewRegisterSWD ==
  [active |-> FALSE, known |-> FALSE, original |-> FALSE, identity |-> SWD!NoId, bank |-> NoBank]

\* A result: the world after the call, the RegisterStatus, the error and the word.
Out(z, status, err, v) == [z |-> z, status |-> status, err |-> err, v |-> v]

Fail(z, status) == Out(z, status, "other", SWD!NoWord)

\* A call that completed may still report that its context was cancelled.
Cancelable(outs) ==
  outs \cup {[o EXCEPT !.err = "cancelled", !.z = [@ EXCEPT !.left = @ - 1]]
             : o \in {o \in outs : o.err = "nil" /\ o.z.left > 0}}

-----------------------------------------------------------------------------
\* The firmware runs one transfer: a write is followed by the RDBUFF read that
\* checks it, an AP read by the one that fetches its result.  done is whether
\* the answer counts the transfer.
Firmware(z, req) ==
  LET first == SWD!Serve(z.t, req, z.data, z.left)
      check(a) == SWD!Serve(a.t, [kind |-> "RDBUFF", data |-> "none"], z.data, a.left)
  IN UNION {IF a.ack # "OK" THEN {[t |-> a.t, ack |-> a.ack, done |-> FALSE, v |-> a.v, left |-> a.left]}
            ELSE IF req.kind \in {"DPIDR", "R4", "RDBUFF"}
                 THEN {[t |-> a.t, ack |-> "OK", done |-> TRUE, v |-> a.v, left |-> a.left]}
                 ELSE {[t |-> b.t, ack |-> b.ack, done |-> TRUE, v |-> a.v, left |-> b.left] : b \in check(a)}
            : a \in first}

\* decodeRegisterResponse on a well-formed answer.
decodeRegisterResponse(z, w, kind) ==
  CASE w.ack = "OK"                               -> Out(z, "completed", "nil", w.v)
    [] w.ack = "PROTO"                            -> Fail(z, "indeterminate")
    [] w.ack \in {"WAIT", "FAULT"} /\ ~w.done     -> Out(z, "rejected", w.ack, SWD!NoWord)
    [] w.ack = "FAULT" /\ w.done /\ kind = "APR"  -> Out(z, "completed", "FAULT", SWD!NoWord)
    [] OTHER                                      -> Out(z, "indeterminate", w.ack, SWD!NoWord)

\* What an exchange is worth to the register transport.
transferRegister(z, req) ==
  LET spent(e) == [z EXCEPT !.x = e.x, !.left = @ - 1]
      ran(e)   == {[spent(e) EXCEPT !.t = w.t] : w \in Firmware(spent(e), req)}
  IN Cancelable(UNION {
       CASE e.r = "ok" ->
              {decodeRegisterResponse([z EXCEPT !.x = e.x, !.t = w.t, !.left = w.left], w, req.kind)
                 : w \in Firmware(z, req)}
         [] e.r = "unsent" /\ z.left = 0          -> {Fail(z, "unsent")}
         [] e.r = "unsent" /\ z.left > 0          -> {Fail(spent(e), "unsent")}
         [] e.r = "unimplemented"                 -> {Fail(spent(e), "unsent")}
         [] e.r = "lost" /\ ~e.ran                -> {Fail(spent(e), "indeterminate")}
         [] e.r \in {"lost", "malformed"} /\ e.ran ->
              {Fail([y EXCEPT !.x = Poison(@)], "indeterminate") : y \in ran(e)}
         [] e.r \in {"odd", "malformed"} /\ ~e.ran ->
              {Fail([spent(e) EXCEPT !.x = Poison(@)], "indeterminate")}
         [] OTHER -> {}
       : e \in Exchange(z.x, "transfer", z.left = 0)})

-----------------------------------------------------------------------------
\* Commands that change the firmware and entry.

\* statusCommand with the effect of the command on firmware and target.
statusCommand(z, effect(_)) ==
  Cancelable(UNION {
         IF e.r = "ok" THEN {Out(y, "completed", "nil", SWD!NoWord) : y \in effect([z EXCEPT !.x = e.x])}
         ELSE LET spent == [z EXCEPT !.x = e.x, !.left = IF @ = 0 THEN 0 ELSE @ - 1]
              IN {Fail(y, "error") : y \in IF e.ran THEN effect(spent) ELSE {spent}}
         : e \in Command(z.x, "status", z.left = 0)})

setGrammar(z, overrun) ==
  LET set(y) == {[y EXCEPT !.data = overrun]}
  IN statusCommand(z, set)

\* JTAGToSWD ends in a line reset.
JTAGToSWD(z) ==
  LET reset(y) == {[y EXCEPT !.t = p.t, !.left = p.left] : p \in SWD!LineReset(y.t, y.left)}
  IN statusCommand(z, reset)

Write(kind, data) == [kind |-> kind, data |-> data]

\* Continue with F on success, keep the failure otherwise.
Then(outs, F(_)) == UNION {IF o.err = "nil" THEN F(o) ELSE {o} : o \in outs}

ready(z) == sequenceReady(z.x)

\* Mutant: any target may be restored.
AnyIdentity(r, id) == id \notin BadIds

SameIdentity(r, id) == id \notin BadIds /\ (~r.known \/ id = r.identity)

\* The settings of a transfer, the grammar without data phase, protocol entry,
\* the identity, ABORT and bank zero; the last result is CTRL/STAT.
prepare(z) ==
  LET idle    == [z EXCEPT !.r = [@ EXCEPT !.active = FALSE, !.bank = NoBank]]
      nothing(y) == {y}
      entered == Then(Then(statusCommand(idle, nothing), LAMBDA o : setGrammar(o.z, FALSE)), LAMBDA o : JTAGToSWD(o.z))
      named   == Then(entered, LAMBDA o : transferRegister(o.z, Write("DPIDR", "none")))
      checked == Then(named, LAMBDA o :
                   {IF SameIdentity(o.z.r, o.v.id) THEN [o EXCEPT !.z = [@ EXCEPT !.r = [@ EXCEPT !.identity = o.v.id]]]
                    ELSE Fail(o.z, "error")})
      cleared == Then(checked, LAMBDA o : transferRegister(o.z, Write("ABORT", SWD!Flags)))
      banked  == Then(cleared, LAMBDA o : transferRegister(o.z, Write("SELECT", <<"zero", 0>>)))
  IN IF ready(z) THEN Then(banked, LAMBDA o : transferRegister(o.z, Write("R4", "none")))
     ELSE {Fail(z, "error")}

observeOverrun(z, want) ==
  {CASE o.status = "completed" /\ o.v.orun = want -> [o EXCEPT !.status = "restored"]
     [] o.status = "completed" /\ o.v.orun # want -> [o EXCEPT !.status = "error", !.err = "other"]
     [] OTHER -> o
     : o \in transferRegister(z, Write("R4", "none"))}

\* The inherited setting is recorded before it is changed.
Recorded(z, orun) ==
  IF z.r.known THEN z ELSE [z EXCEPT !.r = [@ EXCEPT !.known = TRUE, !.original = orun]]

Connect(z) ==
  LET disabled(o) ==
        Then(Then(setGrammar(o.z, TRUE),
                  LAMBDA a : transferRegister(a.z, Write("W4", <<"clear", o.v.power>>))),
             LAMBDA b : setGrammar(b.z, FALSE))
      begun(o) == [o EXCEPT !.z = Recorded(@, o.v.orun)]
      owned == {IF o.err = "nil" THEN begun(o) ELSE o : o \in prepare(z)}
      quiet == Then(owned, LAMBDA o : IF o.v.orun THEN disabled(o) ELSE {o})
  IN Then(Then(quiet, LAMBDA o : observeOverrun(o.z, FALSE)),
          LAMBDA o : {[o EXCEPT !.z = [@ EXCEPT !.r = [@ EXCEPT !.active = TRUE, !.bank = "zero"]]]})

\* Release restores what Connect recorded and forgets it only once it has read it
\* back.
Release(z) ==
  LET want == IF z.r.original THEN "set" ELSE "clear"
      written == Then(prepare(z), LAMBDA o :
                   Then(setGrammar(o.z, o.v.orun),
                        LAMBDA a : transferRegister(a.z, Write("W4", <<want, o.v.power>>))))
      settled == Then(written, LAMBDA o : setGrammar(o.z, z.r.original))
      forgotten(o) == [o EXCEPT !.z = [@ EXCEPT !.r = [@ EXCEPT !.known = FALSE, !.active = FALSE]]]
  IN IF ~z.r.known THEN {Out(z, "completed", "nil", SWD!NoWord)}
     ELSE {IF o.status = "restored" THEN forgotten(o) ELSE o
             : o \in Then(settled, LAMBDA o : observeOverrun(o.z, z.r.original))}

-----------------------------------------------------------------------------
\* Register transfers of a client.

validateFramingWrite(r, req) ==
  req.kind = "W4" =>
    /\ r.bank # NoBank
    /\ r.bank = "zero" => req.data[1] # "set"
    /\ r.bank = "one" => req.data[1] # "turn"

observeBank(r, req, status) ==
  CASE req.kind = "SELECT" /\ status = "completed"     -> [r EXCEPT !.bank = req.data[1]]
    [] req.kind = "SELECT" /\ status = "indeterminate" -> [r EXCEPT !.bank = NoBank]
    [] OTHER -> r

transfer(z, req) ==
  LET observed(o) ==
        LET r == observeBank(o.z.r, req, o.status)
            lost == o.status = "indeterminate" /\ o.err # "FAULT"
        IN [o EXCEPT !.z = [@ EXCEPT !.r = IF lost THEN [r EXCEPT !.active = FALSE] ELSE r]]
  IN IF z.r.active /\ validateFramingWrite(z.r, req) THEN {observed(o) : o \in transferRegister(z, req)}
     ELSE {Fail(z, "unsent")}

-----------------------------------------------------------------------------
\* A client of RegisterSWD on a configured session: Connect, Release and register
\* transfers in any order, a probe that may be lost on the way, and a target that
\* may be exchanged.

VARIABLES x,         \* the session
          r,         \* the fields of RegisterSWD
          t,         \* the target
          data,      \* the firmware's data-phase setting
          foreign    \* ghost: exchanged while its restoration was owed

vars == <<x, r, t, data, foreign>>

Configured ==
  [on |-> {"device", "claim", "connected", "configured", "file", "iface", "port"}, unread |-> 0]

Init ==
  /\ x = Configured
  /\ r = NewRegisterSWD
  /\ t \in SWD!FreshTargets
  /\ data = FALSE
  /\ foreign = FALSE

World(left) == [x |-> x, r |-> r, t |-> t, data |-> data, left |-> left]

Settle(o) ==
  /\ x' = o.z.x
  /\ r' = o.z.r
  /\ t' = o.z.t
  /\ data' = o.z.data
  /\ UNCHANGED foreign

DoConnect == \E o \in Connect(World(Faulty)) : Settle(o)

DoRelease == r.known /\ \E o \in Release(World(Faulty)) : Settle(o)

Requests ==
  {Write(k, "none") : k \in {"DPIDR", "R4", "APR", "APW"}} \cup
  {Write("SELECT", b) : b \in SWD!Banks \X APs}
  \cup {Write("W4", w) : w \in SWD!Words \X SUBSET Powers}

DoTransfer == r.active /\ \E req \in Requests : \E o \in transfer(World(Faulty), req) : Settle(o)

DoAbort == r.active /\ \E o \in transfer(World(Faulty), Write("ABORT", SWD!Flags)) : Settle(o)

\* Another target is attached.
Swap ==
  /\ t' \in SWD!Attachable(r.known)
  /\ foreign' = r.known
  /\ UNCHANGED <<x, r, data>>

Next == DoConnect \/ DoRelease \/ DoTransfer \/ DoAbort \/ Swap

Spec == Init /\ [][Next]_vars

-----------------------------------------------------------------------------

\* The fields are in range; an active transport owns a restoration.
TypeOK ==
  /\ x \in Sessions
  /\ r \in Registers
  /\ t \in SWD!Targets
  /\ data \in BOOLEAN
  /\ r.active => r.known

\* While transfers are admitted on a live session, target and firmware are aligned
\* and agree that refused transfers have no data phase, whatever a write still in
\* the target's buffer turns out to do.
GrammarAgrees ==
  (r.active /\ transportReady(x) /\ ~t.swapped) =>
    ~data /\ \A u \in SWD!Settlements(t) : u.sync /\ ~u.orun

\* A bank the transport believes in is the target's, whatever a write still in the
\* target's buffer turns out to do: validateFramingWrite decides by it.
BankAgrees ==
  (r.active /\ r.bank # NoBank /\ transportReady(x) /\ ~t.swapped) =>
    \A u \in SWD!Settlements(t) : u.bank = r.bank

\* As long as no restoration is owed, the target has the ORUNDETECT setting it was
\* found with: Connect records it before the first change and Release forgets it
\* after reading it back, also when the last call was cancelled.
OwnedBeforeChanged ==
  (~r.known /\ ~foreign) => \A u \in SWD!Settlements(t) : u.orun = t.inherit

\* From whatever state failures leave, as long as the probe can be reached, one
\* Release without further faults restores the target.
RestoreConverges ==
  (r.known /\ transportReady(x) /\ ~foreign) =>
    \A o \in Release(World(0)) : ~o.z.r.known /\ o.z.t.orun = t.inherit

=============================================================================
