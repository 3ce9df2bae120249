---------------------------- MODULE CmsisSession ----------------------------
(***************************************************************************)
(* cmsisdap.Session: one CMSIS-DAP v2 command interface.  A command is one *)
(* bulk OUT packet answered by one bulk IN packet; an exchange that is not *)
(* known to be complete poisons the session, because the next answer read  *)
(* could belong to it.  Commands connect and disconnect the DAP port, and  *)
(* Close owes the disconnect.                                              *)
(*                                                                         *)
(* The record x holds the Session fields and what they stand for:          *)
(*   device, claim    the references the session holds                     *)
(*   poisoned, gone, connected, configured; prefix: closePrefix # nil      *)
(*   file, iface      the host's open file and claimed interface           *)
(*   port             the probe's DAP port is connected                    *)
(*   unread           answers in the IN pipe that nobody has read          *)
(*   mixed            an answer was taken for that of another command      *)
(*   torn             an SWD stream stopped after some of its packets ran  *)
(* An operator gives the set of results of a call.  A calm world has no    *)
(* faults.                                                                 *)
(***************************************************************************)
EXTENDS Naturals

CONSTANTS MaxUnread,   \* stale answers a previous user may have left
          MaxPackets   \* command packets of one SWD stream

Flags == {"device", "claim", "poisoned", "gone", "connected", "configured", "prefix",
          "file", "iface", "port", "mixed", "torn"}

\* The Boolean fields are the members of on.
Sessions == [on : SUBSET Flags, unread : 0..(MaxUnread + 1)]

Is(y, flag) == flag \in y.on

Set(y, flags) == [y EXCEPT !.on = @ \cup flags]

Clear(y, flags) == [y EXCEPT !.on = @ \ flags]

\* A probe whose previous user left answers unread.  They arrive before the quiet
\* interval of Open ends; a later reply is outside what Open guarantees.
Attached == {[on |-> {"file"}, unread |-> n] : n \in 0..MaxUnread}

\* The session after a call, what the call returned, whether the probe ran the
\* command.
Result(y, r, ran) == [x |-> y, r |-> r, ran |-> ran]

Res(y, r) == Result(y, r, FALSE)

Faults(calm, results) == IF calm THEN {} ELSE results

Losses(y) == {y, Set(y, {"gone"})}

Poison(y) == Set(y, {"poisoned"})

-----------------------------------------------------------------------------
\* One command exchange.

transportReady(y) == {"device", "claim"} \subseteq y.on /\ ~Is(y, "poisoned") /\ ~Is(y, "gone")

\* The probe runs a command and answers: ok, or with a port that is not SWD; it
\* refuses it by a status, by the single byte of a command not implemented, or
\* by that byte and more ("odd"); or the answer is malformed.
Run(y, command, calm) ==
  LET asked == [y EXCEPT !.unread = @ + 1]
      done  == CASE command = "connect"    -> Set(asked, {"port"})
                 [] command = "disconnect" -> Clear(asked, {"port"})
                 [] OTHER                  -> asked
      other == IF command = "connect" THEN {"other"} ELSE {}
  IN {Result(done, "ok", TRUE)} \cup
     Faults(calm, {Result(done, r, TRUE) : r \in {"malformed"} \cup other} \cup
                  {Res(asked, r) : r \in {"refused", "unimplemented", "odd", "malformed"}})

\* exchangeWithCompletion: "unsent" when the OUT packet was not accepted, "lost"
\* when it was and the exchange is not known to be complete.
Exchange(y, command, calm) ==
  LET answers == Run(y, command, calm)
      taken(z) == [(IF y.unread > 0 THEN Set(z, {"mixed"}) ELSE z) EXCEPT !.unread = @ - 1]
      whole   == {Result(taken(e.x), e.r, e.ran) : e \in answers}
      unsent  == {Res(z, "unsent") : z \in Losses(y)} \cup {Res(Poison(z), "lost") : z \in Losses(y)}
      lost    == {Result(Poison(e.x), "lost", e.ran) : e \in answers} \cup {Res(Poison(y), "lost")}
  IN IF ~transportReady(y) THEN {Res(y, "unsent")} ELSE whole \cup Faults(calm, unsent \cup lost)

\* exchange and validateStatusResponse: a malformed answer poisons.
Command(y, command, calm) ==
  {IF e.r = "malformed" THEN Result(Poison(e.x), "lost", e.ran) ELSE e : e \in Exchange(y, command, calm)}

-----------------------------------------------------------------------------
\* The DAP port.

clearSWDConfiguration(y) == Clear(y, {"connected", "configured"})

disconnect(y, calm) ==
  {IF e.r = "ok" THEN Res(clearSWDConfiguration(e.x), "ok") ELSE Res(e.x, "error")
     : e \in Command(y, "disconnect", calm)}

configureFailure(y, calm) ==
  IF ~Is(y, "connected") \/ Is(y, "poisoned") THEN {Res(y, "error")}
  ELSE {Res(e.x, "error") : e \in disconnect(y, calm)}

\* The port is owned before it is asked for, and given up again only where the
\* command did not run or opened no port.
connectSWD(y, calm) ==
  UNION {CASE e.r = "ok" -> {Res(e.x, "ok")}
           [] e.r \in {"unsent", "refused", "unimplemented"} ->
                {Res(Clear(e.x, {"connected"}), "error")}
           [] OTHER -> configureFailure(e.x, calm)
         : e \in Command(Set(y, {"connected"}), "connect", calm)}

ConfigureSWD(y, calm) ==
  LET free == IF Is(y, "connected") THEN disconnect(y, calm) ELSE {Res(y, "ok")}
      open == UNION {IF a.r = "ok" THEN connectSWD(a.x, calm) ELSE {a} : a \in free}
      requestSWDClock(z) ==
        UNION {IF e.r = "ok" THEN {Res(Set(e.x, {"configured"}), "ok")}
               ELSE configureFailure(e.x, calm)
               : e \in Command(z, "clock", calm)}
  IN IF ~transportReady(y) THEN {Res(y, "error")}
     ELSE UNION {IF b.r = "ok" THEN requestSWDClock(b.x) ELSE {b} : b \in open}

sequenceReady(y) == transportReady(y) /\ Is(y, "configured")

\* Every failed packet leaves the session usable.
sequenceRetry(y, packet) == y

\* A failure after the first packet of a stream poisons the session.
sequenceFailure(y, packet) == IF packet > 1 THEN Poison(y) ELSE y

\* The packets of one stream in order, none repeated.
SWDIO(y, packets, calm) ==
  LET cut(z, n) == IF n > 1 THEN Set(z, {"torn"}) ELSE z
      after[n \in 0..packets] ==
        IF n = 0 THEN {Res(y, "ok")}
        ELSE UNION {IF p.r # "ok" THEN {p}
                    ELSE {IF e.r = "ok" THEN e
                          ELSE Res(cut(sequenceFailure(e.x, n), n), "error")
                          : e \in Command(p.x, "sequence", calm)}
                    : p \in after[n - 1]}
  IN IF sequenceReady(y) THEN after[packets] ELSE {Res(y, "error")}

-----------------------------------------------------------------------------
\* Close.

RestorationPossible(y) == Is(y, "device") /\ ~Is(y, "gone") /\ ~Is(y, "poisoned")

CleanupPending(y) ==
  Is(y, "connected") \/ {"claim", "iface"} \subseteq y.on \/ {"device", "file"} \subseteq y.on

\* A port that cannot be disconnected is dropped without a word.
abandonQuietly(y) == clearSWDConfiguration(y)

abandonTargetPort(y) == clearSWDConfiguration(Set(y, {"prefix"}))

\* A failure of a live session stops Close; that of a lost one is remembered.
closeTargetPort(y, calm) ==
  CASE ~Is(y, "connected") -> {Res(y, "ok")}
    [] Is(y, "connected") /\ (Is(y, "gone") \/ Is(y, "poisoned")) -> {Res(abandonTargetPort(y), "ok")}
    [] OTHER -> {IF e.r = "ok" THEN e
                 ELSE IF RestorationPossible(e.x) THEN Res(e.x, "stop")
                 ELSE Res(abandonTargetPort(e.x), "ok")
                 : e \in disconnect(y, calm)}

\* Closing what the USB package owns: released, released with a final error, or
\* still pending.
CloseClaim(y, calm) ==
  LET gone == Clear(y, {"claim", "iface"})
  IN IF ~Is(y, "claim") THEN {Res(y, "ok")}
     ELSE {Res(gone, "ok")} \cup Faults(calm, {Res(gone, "error"), Res(y, "stop")})

CloseDevice(y, calm) ==
  LET gone == Clear(y, {"device", "file"})
  IN IF ~Is(y, "device") THEN {Res(y, "ok")}
     ELSE {Res(gone, "ok")} \cup Faults(calm, {Res(gone, "error"), Res(y, "stop")})

Close(y, calm) ==
  LET released(k) ==
        {IF d.r = "stop" THEN Res(d.x, "error")
         ELSE Res(Clear(d.x, {"prefix"}),
                  IF k.r = "ok" /\ d.r = "ok" /\ ~Is(k.x, "prefix") THEN "ok" ELSE "error")
         : d \in CloseDevice(k.x, calm)}
      host(z) == UNION {IF k.r = "stop" THEN {Res(k.x, "error")} ELSE released(k)
                        : k \in CloseClaim(z, calm)}
  IN UNION {IF p.r = "stop" THEN {Res(p.x, "error")} ELSE host(p.x) : p \in closeTargetPort(y, calm)}

-----------------------------------------------------------------------------
\* Open.

\* waitForInputQuiet and finishQuietRead: n reads have each taken an answer.  A read
\* that times out is cancelled, and counts as quiet only if the cancellation, not a
\* late answer, ended it.
Drained(y, n) == [y EXCEPT !.unread = @ - n]

\* Reading goes on until a read is quiet or fails.
synchronizeInput(y) ==
  {Res(Drained(y, y.unread), "quiet")} \cup
  UNION {{Res(z, "error") : z \in Losses(Drained(y, n))} : n \in 0..y.unread}

closeAfterOpenFailure(y) ==
  IF Is(y, "connected") /\ RestorationPossible(y)
  THEN UNION {IF e.r # "ok" /\ RestorationPossible(e.x) THEN {e} ELSE Close(e.x, FALSE)
              : e \in disconnect(y, FALSE)}
  ELSE Close(y, FALSE)

\* Eight DAP_Info exchanges, none of which changes the session unless it fails.
readInfo(y) == Exchange(y, "info", FALSE)

\* openSession with or without WithSWD.  "none" is a nil session: then whatever
\* device is still open is the caller's to close.
Open(y, swd) ==
  LET fresh    == Set(y, {"device"})
      claimed  == Set(fresh, {"claim", "iface"})
      synced   == {Res(claimed, "error")} \cup synchronizeInput(claimed)
      known    == UNION {IF a.r = "quiet" THEN readInfo(a.x) ELSE {a} : a \in synced}
      finished == UNION {IF b.r = "ok" /\ swd THEN ConfigureSWD(b.x, FALSE) ELSE {b} : b \in known}
      failures == {fresh} \cup {b.x : b \in finished}
      settled  == UNION {closeAfterOpenFailure(z) : z \in failures}
  IN {b \in finished : b.r = "ok"} \cup
     {Res(e.x, IF CleanupPending(e.x) THEN "error" ELSE "none") : e \in settled} \cup
     {Res(Clear(e.x, {"device"}), "none") : e \in CloseDevice(fresh, FALSE)}

=============================================================================
