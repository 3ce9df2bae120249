----------------------------- MODULE CmsisHost -----------------------------
(***************************************************************************)
(* A caller of cmsisdap: it opens a USB device, hands it to Open, uses the *)
(* session in any order of its calls, and closes it.  Every call may fail  *)
(* in every way the code distinguishes.                                    *)
(***************************************************************************)
EXTENDS CmsisSession

VARIABLES x,        \* the session and the probe behind it
          held,     \* who must close the USB device: "nobody", the "caller", a
                    \* "session", or one Open returned with an error ("leftover")
          outcome   \* what the last Close returned: "none", "nil", "error"

vars == <<x, held, outcome>>

Owned == held \in {"session", "leftover"}

Init ==
  /\ x \in Attached
  /\ held = "caller"
  /\ outcome = "none"

\* cmsisdap.Open takes the device over, or leaves it with the caller.  A session
\* returned with an error is only there to be closed.
OpenSession ==
  /\ held = "caller"
  /\ Is(x, "file")
  /\ \E swd \in BOOLEAN : \E e \in Open(x, swd) :
       /\ x' = e.x
       /\ held' = CASE e.r = "none" -> "caller" [] e.r = "ok" -> "session" [] OTHER -> "leftover"
  /\ outcome' = "none"

\* The caller closes a device Open gave back; another probe can be attached.
CloseAttachment ==
  /\ held = "caller"
  /\ held' = "nobody"
  /\ x' = Clear(x, {"file"})
  /\ UNCHANGED outcome

Attach ==
  /\ held = "nobody" \/ (Owned /\ ~CleanupPending(x))
  /\ x' \in Attached
  /\ held' = "caller"
  /\ outcome' = "none"

Call(results) ==
  /\ held = "session"
  /\ \E e \in results : x' = e.x
  /\ UNCHANGED <<held, outcome>>

Configure == Call(ConfigureSWD(x, FALSE))

Stream == \E n \in 1..MaxPackets : Call(SWDIO(x, n, FALSE))

\* SWJSequence and the register commands are one exchange each.
Single == sequenceReady(x) /\ Call(Command(x, "single", FALSE))

CloseSession ==
  /\ Owned
  /\ \E e \in Close(x, FALSE) : x' = e.x /\ outcome' = IF e.r = "ok" THEN "nil" ELSE "error"
  /\ UNCHANGED held

Next ==
  \/ OpenSession \/ CloseAttachment \/ Attach
  \/ Configure \/ Stream \/ Single \/ CloseSession

Spec == Init /\ [][Next]_vars

-----------------------------------------------------------------------------

\* The fields are in range, and SWD is configured only on an owned port.
TypeOK ==
  /\ x \in Sessions
  /\ held \in {"nobody", "caller", "session", "leftover"}
  /\ outcome \in {"none", "nil", "error"}
  /\ Is(x, "configured") => Is(x, "connected")

\* No command takes another command's answer for its own: answers to a previous user
\* that arrive before the quiet interval of Open ends are drained (synchronizeInput),
\* and after an exchange that may leave one behind the session sends no further command.
AnswersMatch == ~Is(x, "mixed")

\* While the session can still be used, a port the probe has connected is one it
\* owns, and a configured session has its port: connected is set before
\* DAP_Connect is sent and cleared only with proof.
PortOwned ==
  (held = "session" /\ ~Is(x, "poisoned") /\ ~Is(x, "gone")) =>
    /\ Is(x, "port") => Is(x, "connected")
    /\ Is(x, "configured") => Is(x, "port")

\* An SWD stream of which only a prefix of the packets ran is never followed by
\* more traffic of the same session.
PrefixFinal == Is(x, "torn") => ~transportReady(x)

\* The claimed interface belongs to the session, and an open USB device always
\* has someone to close it: no failure of Open or Close orphans either.
NothingOrphaned ==
  /\ Is(x, "iface") => Owned /\ Is(x, "claim")
  /\ Is(x, "file") => held = "caller" \/ (Owned /\ Is(x, "device"))

\* From whatever state failures leave a session in, one Close without further
\* faults releases everything.
CloseConverges ==
  Owned => \A e \in Close(x, TRUE) : ~CleanupPending(e.x)

=============================================================================
