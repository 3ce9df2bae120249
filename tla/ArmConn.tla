------------------------------ MODULE ArmConn ------------------------------
(***************************************************************************)
(* armdebug.Conn: the owner of a probe, of the debug port connected        *)
(* through it and of the MEM-APs acquired on that port.  Close releases    *)
(* them in reverse order and retries at the point it failed; it abandons   *)
(* the target only when the probe says restoration is impossible.          *)
(*                                                                         *)
(* pc names the step due inside the call in progress, "idle" between       *)
(* calls.  setup says that Close runs inside a failed Connect.  holder is  *)
(* what the caller owns: nothing, the probe, or the Conn.                  *)
(* target is ghost state: what the debug port and the MEM-APs changed in   *)
(* the target and have not put back; told, that a call has reported        *)
(* ErrRestorationAbandoned for it.                                         *)
(***************************************************************************)
EXTENDS ProbeOwner, Sequences, Functions

CONSTANT APs   \* memory access ports of the target

VARIABLES h, c, pc, setup, err, holder, target, told, calm

vars == <<h, c, pc, setup, err, holder, target, told, calm>>

\* The fields of armdebug.Conn; port is nil, bound but idle, or pending release,
\* which is still owed or refused for good (see LeftOwed).
Conns ==
  [probe : BOOLEAN, port : {"nil", "idle", "owed", "refused"}, closing : BOOLEAN,
   memories : {s \in Seq(APs) : \A i, j \in DOMAIN s : s[i] = s[j] => i = j}]

NoConn == [probe |-> FALSE, port |-> "nil", closing |-> FALSE, memories |-> <<>>]

Errors == {"error", "abandoned"}

\* (*DebugPort).CleanupPending.
PortPending(d) == d.port \in {"owed", "refused"}

Init ==
  /\ h = NoHost
  /\ c = NoConn
  /\ pc = "idle"
  /\ setup = FALSE
  /\ err = {}
  /\ holder = "none"
  /\ target = {}
  /\ told = FALSE
  /\ calm = FALSE

-----------------------------------------------------------------------------
\* The probe in the caller's hands.

\* discover.OpenProbe and probeusb's open functions: a failure leaves nothing.
OpenProbe(supports, reports) ==
  /\ pc = "idle"
  /\ holder = "none"
  /\ h' = OpenedHost(supports, reports)
  /\ c' = NoConn
  /\ holder' = "probe"
  /\ err' = {}
  /\ told' = FALSE
  /\ target' = {}
  /\ UNCHANGED <<pc, setup, calm>>

\* The caller uses the probe without a Conn: it activates a surface, or closes.
UseProbe ==
  /\ pc = "idle"
  /\ holder = "probe"
  /\ \E r \in (UNION {ProbeActivate(h, q, calm) : q \in Protocols}) \cup ProbeClose(h, calm) :
       /\ h' = r.h
       /\ err' = IF r.err THEN {"error"} ELSE {}
  /\ UNCHANGED <<c, pc, setup, holder, target, told, calm>>

\* A released owner is dropped.
Drop ==
  /\ pc = "idle"
  /\ \/ holder = "probe" /\ ~h.backend
     \/ holder = "conn" /\ ~c.probe
  /\ holder' = "none"
  /\ h' = NoHost
  /\ c' = NoConn
  /\ err' = {}
  /\ UNCHANGED <<pc, setup, target, told, calm>>

-----------------------------------------------------------------------------
\* Connect.

\* PortConfig.bind: the protocol surface the configuration asks for.
Bind(jtag) ==
  CASE jtag -> ProbeActivate(h, "jtag", calm)
    [] ~jtag /\ SupportsRegisterSWD(h) -> ProbeActivate(h, "register", calm)
    [] OTHER -> ProbeActivate(h, "swd", calm)

\* (*Conn).fail: Close, as a part of the failed Connect.
Fail(cause) ==
  /\ pc' = "close"
  /\ setup' = TRUE
  /\ err' = cause

\* Connect takes the probe on entry, whatever it then finds: an invalid
\* configuration, a probe that cannot be activated, or a layout NewChain refuses.
Connect(jtag) ==
  /\ pc = "idle"
  /\ holder = "probe"
  /\ holder' = "conn"
  /\ \/ /\ ~calm
        /\ h' = h
        /\ c' = [NoConn EXCEPT !.probe = TRUE]
        /\ Fail({"error"})
     \/ \E r \in Bind(jtag) :
          /\ h' = r.h
          /\ \/ /\ r.err \/ (jtag /\ ~calm)
                /\ c' = [NoConn EXCEPT !.probe = TRUE]
                /\ Fail({"error"})
             \/ /\ ~r.err
                /\ c' = [NoConn EXCEPT !.probe = TRUE, !.port = "idle"]
                /\ pc' = "entry"
                /\ UNCHANGED <<setup, err>>
  /\ UNCHANGED <<target, told, calm>>

\* What traffic may do to the session beneath it.
Traffic == h' \in {h} \cup (IF calm THEN {} ELSE {[h EXCEPT !.able = FALSE]})

\* What a failed release leaves of a pending port.  releaseLink may keep the framing
\* of an SWD link that has lost it, and then no later Release gets beyond the SELECT
\* write, healthy as the probe may be.
LeftOwed(port) == {port} \cup (IF calm \/ h.surface = "jtag" THEN {} ELSE {"refused"})

\* DebugPort.Connect.  A failure restores what it changed, or keeps it pending.
Entry ==
  /\ pc = "entry"
  /\ \/ /\ h.able
        /\ c' = [c EXCEPT !.port = "owed"]
        /\ target' = {"dp"}
        /\ pc' = "idle"
        /\ err' = {}
        /\ UNCHANGED <<h, setup>>
     \/ /\ ~calm
        /\ Traffic
        /\ \/ UNCHANGED <<c, target>>
           \/ /\ \E port \in LeftOwed("owed") : c' = [c EXCEPT !.port = port]
              /\ target' = {"dp"}
        /\ Fail({"error"})
  /\ UNCHANGED <<holder, told, calm>>

-----------------------------------------------------------------------------
\* The connection in use.

\* Mutant: the same access port can be acquired twice.
OpenTwice(ap) ==
  /\ pc = "idle"
  /\ holder = "conn"
  /\ ~c.closing
  /\ Len(c.memories) < 2
  /\ c.port # "nil" /\ h.able
  /\ c' = [c EXCEPT !.memories = Append(@, ap)]
  /\ target' = target \cup {ap}
  /\ UNCHANGED <<h, pc, setup, err, holder, told, calm>>

\* OpenMemAP: an AP already owned is refused before traffic.
OpenMemAP(ap) ==
  /\ pc = "idle"
  /\ holder = "conn"
  /\ ~c.closing
  /\ c.port # "nil"
  /\ ap \notin Range(c.memories)
  /\ \/ /\ h.able
        /\ c' = [c EXCEPT !.memories = Append(@, ap)]
        /\ target' = target \cup {ap}
        /\ err' = {}
        /\ UNCHANGED h
     \/ /\ ~calm
        /\ Traffic
        /\ err' = {"error"}
        /\ UNCHANGED <<c, target>>
  /\ UNCHANGED <<pc, setup, holder, told, calm>>

\* Any other call through a borrowed client.
Borrow ==
  /\ pc = "idle"
  /\ holder = "conn"
  /\ h.surface # "none"
  /\ Traffic
  /\ UNCHANGED <<c, pc, setup, err, holder, target, told, calm>>

-----------------------------------------------------------------------------
\* Close.

Close ==
  /\ pc = "idle"
  /\ holder = "conn"
  /\ pc' = "close"
  /\ setup' = FALSE
  /\ err' = {}
  /\ UNCHANGED <<h, c, holder, target, told, calm>>

\* Mutant: the loss of the target is dropped from what Close returns.
ReturnQuietly(released) ==
  /\ pc' = "idle"
  /\ told' = told
  /\ holder' = IF setup /\ released THEN "none" ELSE holder

\* Close returns.  Inside a failed Connect the Conn is kept only while it still
\* owns the probe and Close failed.
Return(released) ==
  /\ pc' = "idle"
  /\ told' = (told \/ "abandoned" \in err')
  /\ holder' = IF setup /\ released THEN "none" ELSE holder

\* Close gives up the target and goes on to the host.
Abandon(cause) ==
  /\ c' = [c EXCEPT !.closing = TRUE, !.memories = <<>>, !.port = "nil"]
  /\ err' = err \cup cause \cup {"abandoned"}
  /\ pc' = "host"
  /\ UNCHANGED <<holder, told>>

\* The start of releaseTarget: without a way to the target nothing is tried.
BeginClose ==
  /\ pc = "close"
  /\ IF c.probe /\ ~RestorationPossible(h)
     THEN IF c.memories # <<>> \/ PortPending(c)
          THEN Abandon({})
          ELSE /\ c' = [c EXCEPT !.closing = TRUE, !.port = "nil"]
               /\ pc' = "host"
               /\ UNCHANGED <<err, holder, told>>
     ELSE /\ c' = [c EXCEPT !.closing = TRUE]
          /\ pc' = "mem"
          /\ UNCHANGED <<err, holder, told>>
  /\ UNCHANGED <<h, setup, target, calm>>

\* Mutant: Close goes on to the probe although restoration is still possible.
ReleaseSkipped(d) == Traffic /\ Abandon({"error"})

\* A release fails, leaving the Conn as d.  While restoration is possible Close
\* returns, keeping what is left; otherwise it abandons the target.
ReleaseFails(d) ==
  /\ Traffic
  /\ IF ~c.probe \/ RestorationPossible(h')
     THEN /\ err' = err \cup {"error"}
          /\ c' = d
          /\ Return(FALSE)
     ELSE Abandon({"error"})

\* Mutant: a MEM-AP is forgotten before its release is known to succeed.
ReleaseForgets ==
  /\ pc = "mem"
  /\ c.memories # <<>>
  /\ \/ /\ h.able
        /\ target' = target \ {c.memories[Len(c.memories)]}
        /\ c' = [c EXCEPT !.memories = SubSeq(@, 1, Len(@) - 1)]
        /\ UNCHANGED <<h, pc, err, holder, told>>
     \/ ReleaseFails([c EXCEPT !.memories = SubSeq(@, 1, Len(@) - 1)]) /\ UNCHANGED target
  /\ UNCHANGED <<setup, calm>>

\* releaseMemAPs: the last acquired MEM-AP is released first.
ReleaseMemAP ==
  /\ pc = "mem"
  /\ c.memories # <<>>
  /\ \/ /\ h.able
        /\ c' = [c EXCEPT !.memories = SubSeq(@, 1, Len(@) - 1)]
        /\ target' = target \ {c.memories[Len(c.memories)]}
        /\ UNCHANGED <<h, pc, err, holder, told>>
     \/ /\ ~calm \/ ~h.able
        /\ ReleaseFails(c)
        /\ UNCHANGED target
  /\ UNCHANGED <<setup, calm>>

\* DebugPort.Release: idle at once where nothing is owed; it may restore
\* everything and still report an error.
ReleasePort ==
  /\ pc = "mem"
  /\ c.memories = <<>>
  /\ \/ /\ PortPending(c) => c.port = "owed" /\ h.able
        /\ c' = [c EXCEPT !.port = "nil"]
        /\ target' = target \ {"dp"}
        /\ pc' = "host"
        /\ UNCHANGED <<h, err, holder, told>>
     \/ /\ PortPending(c)
        /\ ~calm \/ ~h.able \/ c.port = "refused"
        /\ \E port \in LeftOwed(c.port) : ReleaseFails([c EXCEPT !.port = port])
        /\ UNCHANGED target
     \/ /\ c.port = "owed"
        /\ ~calm /\ h.able
        /\ ReleaseFails([c EXCEPT !.port = "idle"])
        /\ target' = target \ {"dp"}
  /\ UNCHANGED <<setup, calm>>

\* closeProbe: the Conn lets go of the probe once nothing is pending in it.
CloseProbe ==
  /\ pc = "host"
  /\ \E r \in IF c.probe THEN ProbeClose(h, calm) ELSE {Result(h, FALSE)} :
       /\ h' = r.h
       /\ c' = [c EXCEPT !.probe = CleanupPending(r.h)]
       /\ err' = err \cup (IF r.err THEN {"error"} ELSE {})
       /\ Return(~CleanupPending(r.h))
  /\ UNCHANGED <<setup, target, calm>>

-----------------------------------------------------------------------------
\* From here on calls meet no new fault.
Calm ==
  /\ ~calm
  /\ calm' = TRUE
  /\ UNCHANGED <<h, c, pc, setup, err, holder, target, told>>

CloseStep == BeginClose \/ ReleaseMemAP \/ ReleasePort \/ CloseProbe

Next ==
  \/ \E supports \in Backends, reports \in Reports : OpenProbe(supports, reports)
  \/ UseProbe
  \/ Drop
  \/ \E jtag \in BOOLEAN : Connect(jtag)
  \/ Entry
  \/ \E ap \in APs : OpenMemAP(ap)
  \/ Borrow
  \/ Close
  \/ CloseStep
  \/ Calm

Spec == Init /\ [][Next]_vars

\* A call that started goes on, and the caller retries Close while it still owns
\* the probe, as the documentation of Conn asks.
Fairness ==
  /\ WF_vars(Entry \/ CloseStep)
  /\ WF_vars(c.closing /\ c.probe /\ Close)

-----------------------------------------------------------------------------
\* Properties.

TypeOK ==
  /\ h \in Hosts
  /\ c \in Conns
  /\ pc \in {"idle", "entry", "close", "mem", "host"}
  /\ setup \in BOOLEAN
  /\ err \subseteq Errors
  /\ holder \in {"none", "probe", "conn"}
  /\ target \subseteq APs \cup {"dp"}
  /\ told \in BOOLEAN
  /\ calm \in BOOLEAN

\* USB resources are never orphaned: as long as any are open the caller holds an
\* owner from which Close still reaches them, through a failed activation, a
\* failed Connect and any number of failed closes (Connect, fail, closeProbe,
\* Probe.Close, owner.Close).
NoOrphan == h.open => /\ holder # "none"
                      /\ CleanupPending(h)
                      /\ holder = "conn" => c.probe

\* A probe that accepts an activation has the attachment to activate, which SWD,
\* JTAG and RegisterSWD of the USB owner dereference without a check; a lent
\* surface has its session behind it; and a Conn keeps its debug port only while
\* the surface the port talks through is lent.
SurfaceAlive ==
  /\ CanActivate(h) => h.device /\ ~h.session
  /\ h.surface # "none" => h.backend /\ h.session /\ ~h.closing
  /\ holder = "conn" /\ c.port # "nil" => h.surface # "none"

\* Until the target is abandoned, what Close will still put back is exactly what
\* was changed, and no MEM-AP outlives the debug port it is reached through.
OwedTracked ==
  "abandoned" \notin err /\ ~told =>
     /\ target = Range(c.memories) \cup (IF PortPending(c) THEN {"dp"} ELSE {})
     /\ c.memories # <<>> => c.port = "owed"

\* A target left changed after the host let go of the probe was reported by
\* ErrRestorationAbandoned on some call.
AbandonReported == pc = "idle" /\ ~h.open /\ target # {} => told

\* The USB resources are given back with the target still changed only after the
\* session has lost its way to the target.
RestoreFirst == h.open /\ ~h'.open /\ target # {} => ~h.able

\* Once the faults stop, a Conn whose cleanup began gives back the USB resources,
\* if it owes the target nothing, if the target can still be restored, or if the
\* session reports that restoration has become impossible (Close, releaseTarget,
\* RestorationState).  Close keeps the probe of a session that does not report, and
\* of one that is healthy while every release of its port is refused.
HostReleased ==
  /\ calm /\ holder = "conn" /\ c.closing
  /\ PortPending(c) => IF h.able THEN c.port # "refused" ELSE "restoration" \in h.reports
  ~> ~h.open

=============================================================================
