----------------------------- MODULE ProbeOwner -----------------------------
(***************************************************************************)
(* The host side of a probe: probe.Probe, the USB owner of                 *)
(* internal/probeusb beneath it, the adapter session an activation leaves  *)
(* behind, and the USB attachment.  One record h holds all four:           *)
(*   backend, surface, closing  the fields of probe.Probe (surface is the  *)
(*                              protocol whose wire or registers it lends) *)
(*   device, session            the fields of probeusb.owner               *)
(*   open                       USB resources not yet given back           *)
(*   able                       the session can still talk to the target   *)
(*   supports                   the protocols the backend implements       *)
(*   reports                    the state interfaces its session implements*)
(* An adapter session is known by its contract (probe.Backend,             *)
(* RestorationState, CleanupState); jlink, cmsisdap and ftdi implement it. *)
(* Operators map a host to the set of results of one call; an error that   *)
(* need not happen happens only while the caller's world is not calm.      *)
(***************************************************************************)
EXTENDS Naturals

\* The optional state interfaces a session may implement.
Reports == SUBSET {"cleanup", "restoration"}

Protocols == {"register", "swd", "jtag"}

\* Backends: an attachment without a wire, probeusb.Open, OpenRegisterSWD and
\* OpenProtocols.
Backends == {{}, {"swd"}, {"register"}, {"swd", "jtag"}}

Hosts ==
  [backend : BOOLEAN, surface : Protocols \cup {"none"}, closing : BOOLEAN,
   device : BOOLEAN, session : BOOLEAN, open : BOOLEAN, able : BOOLEAN,
   supports : Backends, reports : Reports]

\* Nothing is opened.
NoHost ==
  [backend |-> FALSE, surface |-> "none", closing |-> FALSE, device |-> FALSE,
   session |-> FALSE, open |-> FALSE, able |-> FALSE, supports |-> {}, reports |-> {}]

\* A freshly opened attachment, its interface not yet claimed.
OpenedHost(supports, reports) ==
  [NoHost EXCEPT !.backend = TRUE, !.device = TRUE, !.open = TRUE,
                 !.supports = supports, !.reports = reports]

-----------------------------------------------------------------------------
\* State queries, none of which performs I/O.

\* cleanupPending of a session: its own answer, or TRUE where it has none.
SessionPending(h) == "cleanup" \notin h.reports \/ h.open

OwnerPending(h) == (h.session /\ SessionPending(h)) \/ (h.device /\ h.open)

OwnerPossible(h) ==
  \/ h.session /\ ("restoration" \notin h.reports \/ h.able)
  \/ ~h.session /\ h.device

CleanupPending(h) == h.backend /\ OwnerPending(h)

\* Mutant: an owned probe is always believed to reach the target.
RestorationAssumed(h) == h.backend

RestorationPossible(h) == h.backend /\ OwnerPossible(h)

-----------------------------------------------------------------------------
\* Closing, from the session outwards.

Result(h, err) == [h |-> h, err |-> err]

\* A session's Close: success releases everything; a failure either retains
\* what is left for another attempt, or (told apart by CleanupState) is final.
SessionClose(h, calm) ==
  LET closed == [h EXCEPT !.open = FALSE, !.able = FALSE]
  IN IF ~h.open THEN {Result(closed, FALSE)}
     ELSE {Result(closed, FALSE)} \cup
          (IF calm THEN {}
           ELSE {Result([h EXCEPT !.able = a], TRUE) : a \in {h.able, FALSE}} \cup
                (IF "cleanup" \in h.reports THEN {Result(closed, TRUE)} ELSE {}))

\* usb.Device.Close of an attachment no session took: the claim or the file may
\* fail; a failed file close is final and its error comes back on every call.
DeviceClose(h, calm) ==
  LET closed == [h EXCEPT !.open = FALSE]
  IN {Result(closed, FALSE)} \cup
     (IF calm THEN {} ELSE {Result(closed, TRUE)}) \cup
     (IF calm \/ ~h.open THEN {} ELSE {Result(h, TRUE)})

\* Mutant: the owner forgets a session whose close failed.
OwnerForgets(h, calm) ==
  {Result([r.h EXCEPT !.session = FALSE], r.err) : r \in SessionClose(h, calm)}

\* (*owner).Close: a session whose cleanup is pending stops the close.
OwnerClose(h, calm) ==
  LET first == IF h.session THEN SessionClose(h, calm) ELSE {Result(h, FALSE)}
      stuck == {r \in first : h.session /\ r.err /\ SessionPending(r.h)}
      second(r) ==
        LET g == [r.h EXCEPT !.session = FALSE]
        IN IF ~g.device THEN {Result(g, r.err)}
           ELSE {Result([d.h EXCEPT !.device = d.err /\ d.h.open], r.err \/ d.err)
                   : d \in DeviceClose(g, calm)}
  IN stuck \cup UNION {second(r) : r \in first \ stuck}

\* (*Probe).Close: borrowed surfaces end at once; a failed close keeps the
\* backend only while cleanup is pending.
ProbeClose(h, calm) ==
  LET begun == [h EXCEPT !.closing = TRUE, !.surface = "none"]
  IN IF ~h.backend THEN {Result(begun, FALSE)}
     ELSE {Result([r.h EXCEPT !.backend = r.err /\ CleanupPending(r.h)], r.err)
             : r \in OwnerClose(begun, calm)}

-----------------------------------------------------------------------------
\* Activation of a protocol surface.

CanActivate(h) == h.backend /\ ~h.closing /\ h.surface = "none"

\* What an adapter's activate callback may leave: no session, the attachment
\* staying with the owner (jlink closes it first); or a session, with or without
\* an error.  A session returned with an error may be closed already (ftdi), or
\* hold cleanup it could not finish (cmsisdap).
Activations(h, calm) ==
  LET none(open) == [h |-> [h EXCEPT !.open = open], err |-> TRUE, surface |-> FALSE]
      kept(open, able, err, surface) ==
        [h |-> [h EXCEPT !.session = TRUE, !.device = FALSE, !.open = open, !.able = able],
         err |-> err, surface |-> surface]
  IN {kept(TRUE, TRUE, FALSE, TRUE)} \cup
     (IF calm THEN {}
      ELSE {none(open) : open \in {h.open, FALSE}} \cup
           {kept(TRUE, able, TRUE, TRUE) : able \in BOOLEAN} \cup
           {kept(FALSE, FALSE, TRUE, TRUE)} \cup
           {kept(TRUE, TRUE, FALSE, FALSE)})

\* Mutant: a failed activation does not close the probe.
ActivateAgain(h, protocol, calm) ==
  IF ~CanActivate(h) \/ protocol \notin h.supports THEN {Result(h, TRUE)}
  ELSE {IF a.err \/ ~a.surface THEN Result(a.h, TRUE)
        ELSE Result([a.h EXCEPT !.surface = protocol], FALSE) : a \in Activations(h, calm)}

\* SWD, JTAG and RegisterSWD of (*Probe): a failed activation closes the probe;
\* a request it may not serve, or an expired context, changes nothing.
ProbeActivate(h, protocol, calm) ==
  IF ~CanActivate(h) \/ protocol \notin h.supports THEN {Result(h, TRUE)}
  ELSE (IF calm THEN {} ELSE {Result(h, TRUE)}) \cup
       UNION {IF a.err \/ ~a.surface
              THEN {Result(r.h, TRUE) : r \in ProbeClose(a.h, calm)}
              ELSE {Result([a.h EXCEPT !.surface = protocol], FALSE)}
              : a \in Activations(h, calm)}

\* Whether armdebug prefers the completed-register transport.
SupportsRegisterSWD(h) == h.backend /\ ~h.closing /\ "register" \in h.supports

=============================================================================
