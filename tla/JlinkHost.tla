----------------------------- MODULE JlinkHost -----------------------------
(***************************************************************************)
(* A caller of jlink: it opens a USB device, hands it to Open or has a     *)
(* probe do so, configures and scans in any order, and closes the session. *)
(* Every call may fail in every way the code distinguishes.                *)
(***************************************************************************)
EXTENDS JlinkSession

VARIABLES x,        \* the session and the probe behind it
          held,     \* who must close the USB device: "nobody", "caller", "session"
          outcome   \* what the last Close returned: "none", "nil", "error"

vars == <<x, held, outcome>>

Init ==
  /\ x \in Attached
  /\ held = "caller"
  /\ outcome = "none"

\* openSession: a probe opens with a protocol, a direct caller also without.  Every
\* failure has begun to close the device, which is then only there to be closed.
OpenSession ==
  /\ held = "caller"
  /\ x \in Attached
  /\ \E owned \in BOOLEAN, target \in Interfaces \cup {"none"} :
       /\ owned => target # "none"
       /\ \E e \in Open(x, target, owned) :
            /\ x' = e.x
            /\ held' = IF e.r = "none" THEN "caller" ELSE "session"
  /\ outcome' = "none"

\* The caller closes a device Open gave back, which also ends an interface claim
\* left on it; another probe can be attached.
CloseAttachment ==
  /\ held = "caller"
  /\ held' = "nobody"
  /\ x' = Clear(x, {"file", "iface"})
  /\ UNCHANGED outcome

Attach ==
  /\ held = "nobody" \/ (held = "session" /\ ~CleanupPending(x))
  /\ x' \in Attached
  /\ held' = "caller"
  /\ outcome' = "none"

Call(results) ==
  /\ held = "session"
  /\ \E e \in results : x' = e.x
  /\ UNCHANGED <<held, outcome>>

\* ConfigureSWD and ConfigureJTAG; a probe does not offer them to its user.
Configure == ~Is(x, "owned") /\ \E target \in Interfaces : Call(configureTarget(x, target, FALSE))

Scan == \E target \in Interfaces : Call(scanIO(x, target, FALSE))

CloseSession ==
  /\ held = "session"
  /\ \E e \in Close(x, FALSE) : x' = e.x /\ outcome' = IF e.r = "ok" THEN "nil" ELSE "error"
  /\ UNCHANGED held

Next ==
  \/ OpenSession \/ CloseAttachment \/ Attach
  \/ Configure \/ Scan \/ CloseSession

Spec == Init /\ [][Next]_vars

-----------------------------------------------------------------------------

\* The fields are in range, the pipe stays short, and a closing session is not
\* configured.
TypeOK ==
  /\ x.on \subseteq Flags
  /\ x.selected \in Interfaces /\ x.wire \in Interfaces
  /\ x.input \in Packets
  /\ Len(x.pipe) <= MaxStale + 4 /\ \A k \in DOMAIN x.pipe : x.pipe[k] \in Packets
  /\ Is(x, "closing") => ~Is(x, "configured")
  /\ held \in {"nobody", "caller", "session"}
  /\ outcome \in {"none", "nil", "error"}

\* No byte is taken for part of another command's answer: stale packets that arrive
\* before the quiet interval of Open ends are drained (synchronizeInput), an answer
\* that is short or long poisons the session, and a packet without data is skipped.
AnswersMatch == ~Is(x, "mixed")

\* A scan runs on the interface its caller asked for, although a failed
\* configuration can leave the probe on another one.
ScansInPlace == ~Is(x, "astray")

\* A session owned by a probe stays usable for cleanup as long as the probe can be
\* reached: after a failed scan, and after a failed recovery from one, the next
\* scan recovers it (MaxTransferBits stays above zero).
RecoveryKept ==
  (held = "session" /\ Is(x, "owned") /\ RestorationPossible(x)) =>
    Is(x, "configured") \/ recoverableScan(x)

\* The interface and the device always have someone who closes them.
NothingOrphaned ==
  /\ Is(x, "iface") => held = "caller" \/ (held = "session" /\ Is(x, "claim"))
  /\ Is(x, "file") => held = "caller" \/ (held = "session" /\ Is(x, "device"))

\* From whatever state failures leave a session in, one Close without further
\* faults releases everything, and no call after the first Close sends traffic.
CloseConverges ==
  held = "session" =>
    /\ \A e \in Close(x, TRUE) : ~CleanupPending(e.x)
    /\ outcome # "none" => \A target \in Interfaces : scanIO(x, target, FALSE) = {Res(x, "error")}

=============================================================================
