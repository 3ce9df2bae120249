----------------------------- MODULE DapSession -----------------------------
(***************************************************************************)
(* A client of dap.DebugPort on an SWD connection, and its environment:    *)
(* Connect, Release, register and access-port operations in any order,     *)
(* with faults in each call, and targets exchanged between two calls.      *)
(* Calls to a DebugPort are serialized, so a call is one step.             *)
(***************************************************************************)
EXTENDS DapPort

CONSTANTS FaultsPerCall   \* how many faults can hit one call

VARIABLES dp,      \* the fields of dap.DebugPort
          conn,    \* the fields of swd.Conn
          target,  \* the attached target
          found,   \* ghost: its power requests when it was attached
          foreign, \* ghost: exchanged while the port held a session
          wrong,   \* ghost: what went wrong in some call
          tries    \* ghost: Release calls in a row that failed without a fault, up to 2

vars == <<dp, conn, target, found, foreign, wrong, tries>>

\* Protocol entry is the link's: whatever state a target is found in, it leaves it
\* awake, with its sticky flags and SELECT clear.
Found(session) == {t \in L!Attachable(session) : ~t.dormant /\ t.sticky = {} /\ t.bank = "zero"}

Init ==
  /\ dp \in {NewDebugPort(n) : n \in Waits}
  /\ conn = L!IdleConn
  /\ target \in Found(FALSE)
  /\ found = target.power
  /\ foreign = FALSE
  /\ wrong = {}
  /\ tries = 0

Call(left) ==
  [c |-> conn, t |-> target, live |-> TRUE, left |-> left, d |-> dp,
   g |-> [stray |-> FALSE, touched |-> FALSE]]

Settle(o) ==
  /\ dp' = o.s.d
  /\ conn' = o.s.c
  /\ target' = o.s.t
  /\ wrong' = wrong \cup (IF o.s.g.stray THEN {"stray"} ELSE {})
                    \cup (IF o.s.g.touched /\ o.s.d.handles THEN {"kept"} ELSE {})
  /\ UNCHANGED <<found, foreign>>

\* validateConnect refuses a port that is connected or to be repaired.
DoConnect == dp.session = "idle" /\ tries' = 0 /\ \E o \in Connect(Call(FaultsPerCall)) : Settle(o)

DoRelease ==
  /\ dp.session # "idle"
  /\ \E o \in Release(Call(FaultsPerCall)) :
       /\ Settle(o)
       /\ tries' = IF o.s.left < FaultsPerCall \/ o.s.d.session = "idle" THEN 0
                   ELSE IF tries < 2 THEN tries + 1 ELSE 2

\* requireOperational and requireConnected.
DoReadDP ==
  /\ dp.session = "connected" /\ tries' = 0
  /\ \E reg \in {"DPIDR", "CTRLSTAT", "DLCR", "RDBUFF"} : \E o \in readDP(Call(FaultsPerCall), reg) : Settle(o)

DoWriteSELECT ==
  /\ dp.session = "connected" /\ tries' = 0
  /\ \E sel \in L!Banks \X APs : \E o \in WriteFrame(Call(FaultsPerCall), SELECT(sel)) : Settle(o)

DoWriteABORT ==
  /\ dp.session = "connected" /\ tries' = 0
  /\ \E req \in {DAPABORT, ABORT(L!Flags)} : \E o \in WriteFrame(Call(FaultsPerCall), req) : Settle(o)

DoWriteDLCR ==
  /\ dp.session = "connected" /\ tries' = 0
  /\ \E o \in WriteBanked(Call(FaultsPerCall), "one", <<"clear", {}>>) : Settle(o)

DoAP ==
  /\ dp.session = "connected" /\ tries' = 0
  /\ \E ap \in APs, access \in {<<"APR", TRUE>>, <<"APW", TRUE>>, <<"APR", FALSE>>} :
       \E o \in AccessRawAP(Call(FaultsPerCall), access[1], ap, access[2]) : Settle(o)

\* A MemAP value is obtained; it is bound to the current apGeneration.
ObtainMemAP ==
  /\ dp.session = "connected" /\ ~dp.handles
  /\ dp' = [dp EXCEPT !.handles = TRUE]
  /\ UNCHANGED <<conn, target, found, foreign, wrong, tries>>

SetMaxWaits ==
  /\ dp.session = "idle"
  /\ \E n \in Waits : dp' = [dp EXCEPT !.maxWaits = n]
  /\ UNCHANGED <<conn, target, found, foreign, wrong, tries>>

\* Another target is attached.
Exchanged ==
  /\ target' \in Found(dp.session # "idle")
  /\ foreign' = (dp.session # "idle")
  /\ found' = IF foreign' THEN {} ELSE target'.power
  /\ tries' = 0
  /\ UNCHANGED <<dp, conn, wrong>>

Next ==
  \/ DoConnect \/ DoRelease \/ DoReadDP \/ DoWriteSELECT \/ DoWriteABORT \/ DoWriteDLCR \/ DoAP
  \/ ObtainMemAP \/ SetMaxWaits \/ Exchanged

Spec == Init /\ [][Next]_vars

-----------------------------------------------------------------------------

\* The fields are in range and consistent: transient flags are down between calls,
\* an idle port owns nothing, and a pending SELECT has a value.
TypeOK ==
  /\ dp \in Ports /\ ~dp.reading
  /\ conn \in L!Conns /\ target \in L!Targets
  /\ dp.session = "idle" => dp.owned = {} /\ dp.identity = L!NoId
  /\ dp.pending => Valid(dp.sel)

\* While operations are admitted, the cached SELECT is the target's, whatever the
\* buffered write turns out to do, or the target still has the prior one of a
\* pending write; and no access-port frame was ever served by another access port
\* than the one the caller named (selectAP skips a write it believes redundant).
SelectionAgrees ==
  /\ "stray" \notin wrong
  /\ (dp.session = "connected" /\ ~target.swapped /\ Valid(dp.sel) /\ ~dp.pending) =>
       \A t \in L!Settlements(target) : <<t.bank, t.ap>> = dp.sel

\* Power requests beyond those the target was found with are owned, inherited ones
\* are never dropped, a connected port has every domain requested, and an idle one
\* has left the requests as they were found: ownPower comes before the write, and
\* clearOwnedPower after the acknowledgement.
PowerOwned ==
  ~foreign =>
    \A t \in L!Settlements(target) :
      /\ found \subseteq t.power /\ t.power \ found \subseteq dp.owned
      /\ dp.session = "connected" => t.power = Powers

\* A MemAP value survives no call in which the target accepted DAPABORT or a raw
\* access to an access port.
HandlesRevoked == "kept" \notin wrong

\* From whatever state failures leave, a Release during which nothing fails ends
\* the session, at the latest the second in a row: "Release may be retried"
\* (Release and its calls; the comments on it and on DebugPort.Release).
ReleaseRetriable == tries < 2

\* The same, except where the link needs repair and the port believes its framing
\* known, so that it does not re-enter.
ReleaseConverges == tries = 2 => conn.state = "repair" /\ ResponseKnown(dp)

\* A port that holds no session has put back what it changed: the target has the
\* ORUNDETECT setting it was found with, and SELECT is zero.
IdleRestored ==
  (dp.session = "idle" /\ ~foreign /\ ~target.swapped) =>
    \A t \in L!Settlements(target) :
      conn.state = "idle" /\ t.orun = t.inherit /\ <<t.bank, t.ap>> = SelZero

=============================================================================
