------------------------------ MODULE SwdLink ------------------------------
(***************************************************************************)
(* swd.Conn as the debug port above it relies on it: what one operation,   *)
(* Connect and Release promise, by what they leave in the connection and   *)
(* in the target.  SwdConn has the frames behind each of them, and the     *)
(* properties of SwdAccess are about those.                                *)
(***************************************************************************)
EXTENDS SwdConn

\* The result of a reply: as it is, or by a fault with spoilt parity or beyond
\* recognition, which leaves the connection to be repaired.
Replies(r, kind) ==
  LET acc == r.ack = "OK"
  IN {[err |-> AckError(r.ack), left |-> r.left]} \cup
     (IF r.left = 0 THEN {}
      ELSE {[err |-> {"Wire"}, left |-> r.left - 1]} \cup
           (IF acc /\ IsRead(kind) THEN {[err |-> {"Parity"}, left |-> r.left - 1]} ELSE {}))

Frame(s, req) ==
  UNION {
    {[s |-> [s EXCEPT !.t = r.t, !.left = q.left, !.c = ObserveTransfer(@, req, r.v, q.err)],
      v |-> r.v, err |-> q.err, acc |-> r.ack = "OK"] : q \in Replies(r, req.kind)}
    : r \in Serve(s.t, req, s.c.response = "overrun", s.left)}

\* In the overrun grammar a WAIT is followed by an ABORT that clears STICKYORUN.
\* It can end a buffered write, and it can fail.
Cleared(o) ==
  {Err(IF o.s.c.pending THEN Repair(u) ELSE u, {"Wait"})
     : u \in {[o.s EXCEPT !.t = [t EXCEPT !.sticky = @ \ {"ORUN"}]] : t \in {o.s.t, DropPost(o.s.t)}}} \cup
  (IF o.s.left = 0 THEN {} ELSE {Err(Repair(Faulted(o.s)), {"Wait", "State"})})

\* One register operation in a batch of its own; the wire may fail before the
\* target sees it.
Exchange(s, req) ==
  UNION {
    IF ~u.live \/ u.c.state # "ready" THEN {Err(u, {"NotExecuted"})}
    ELSE IF ~ValidateTransfer(u.c, req) THEN {Err(u, {"Invalid"})}
    ELSE UNION {IF o.err = {"Wait"} /\ o.s.c.response = "overrun" THEN Cleared(o) ELSE {o} : o \in Frame(u, req)}
         \cup (IF u.left = 0 THEN {} ELSE {Err(Repair(Faulted(u)), {"Wire"})})
    : u \in Tick(s)}

\* Protocol entry and ABORT end a write that is still buffered.
Ended(t) == {PerformPost(t), DropPost(t)}

Original(c, t) == IF c.original # "unknown" THEN c.original ELSE IF t.orun THEN "set" ELSE "clear"

\* The connection after Connect: the response grammar is the one ORUNDETECT asks for.
Ready(c, t) ==
  [state |-> "ready", response |-> IF t.orun THEN "overrun" ELSE "simple", identity |-> t.dpidr,
   original |-> Original(c, t), bank |-> "zero", prior |-> NoBank, pending |-> FALSE]

Attached(t, orun) ==
  [t EXCEPT !.sync = TRUE, !.dormant = FALSE, !.swapped = FALSE, !.sticky = {}, !.orun = orun,
            !.bank = "zero", !.ap = 0, !.post = NoPost]

Restored(c, t) == [t EXCEPT !.orun = IF c.original = "unknown" THEN @ ELSE c.original = "set"]

\* A target that some of the frames of an attempt have reached.
Partly(t) == {t} \cup {[u EXCEPT !.sync = FALSE] : u \in Ended(t)} \cup {Attached(u, u.orun) : u \in Ended(t)}

\* ORUNDETECT is switched on where the target has it; a write that got lost leaves
\* the simple grammar.
LinkUp(s) ==
  {LET t == Attached(u, s.t.hasOrun)
   IN Ok([s EXCEPT !.t = t, !.c = [Ready(s.c, t) EXCEPT !.original = Original(s.c, s.t)]])
     : u \in Ended(s.t)} \cup
  (IF s.left = 0 THEN {}
   ELSE {LET t == Attached(u, s.t.orun)
         IN Ok([Faulted(s) EXCEPT !.t = t, !.c = Ready(s.c, t)]) : u \in Ended(s.t)})

\* A failed attempt leaves an idle connection and ORUNDETECT as it was found, or
\* one that still owes its restoration.
LinkDown(s) ==
  {Err([s EXCEPT !.t = Restored(s.c, u), !.c = IdleConn], {"Failed"})
     : u \in IF s.c.original = "unknown" THEN Partly(s.t) ELSE {Attached(v, v.orun) : v \in Ended(s.t)}} \cup
  {Err([s EXCEPT !.t = u, !.c = [IdleConn EXCEPT !.state = "repair", !.identity = s.t.dpidr,
                                                 !.original = Original(s.c, s.t)]], {"Failed"})
     : u \in UNION {{v, [v EXCEPT !.orun = s.t.hasOrun]} : v \in Partly(s.t)}}

LinkConnect(s) ==
  UNION {
    IF ~u.live THEN {Err(u, {"Ctx"})}
    ELSE IF u.c.identity \notin {NoId, u.t.dpidr} THEN {Err(Repair(u), {"Failed"})}
    ELSE LinkUp(u) \cup (IF u.left = 0 THEN {} ELSE LinkDown(Faulted(u)))
    : u \in Tick(s)}

\* A failed attempt needs repair.  One that the end of the context stops between
\* two frames is among them, although its error says not executed.
LinkRelease(s) ==
  IF s.c.state = "idle" THEN {Ok(s)}
  ELSE UNION {
    LET failed(x, err) == {Err(Repair([x EXCEPT !.t = v]), err) : v \in Partly(x.t)}
        done(x) == {[x EXCEPT !.t = Restored(x.c, [v EXCEPT !.bank = "zero", !.sticky = {}]), !.c = IdleConn]
                      : v \in IF x.c.state = "ready" THEN {PerformPost(x.t)} ELSE {Attached(w, w.orun) : w \in Ended(x.t)}}
    IN IF ~u.live THEN {Err(u, {"NotExecuted", "Ctx"})}
       ELSE IF u.c.identity # u.t.dpidr THEN failed(u, {"Failed"})
       ELSE {Ok(v) : v \in done(u)} \cup
            (IF u.left = 0 THEN {}
             ELSE failed(Faulted(u), {"Failed"}) \cup failed(Faulted(u), {"NotExecuted", "Ctx"}) \cup
                  {Err([v EXCEPT !.live = FALSE], {"Ctx"}) : v \in done(Faulted(u))})
    : u \in Tick(s)}

=============================================================================
