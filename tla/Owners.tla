------------------------------- MODULE Owners -------------------------------
(***************************************************************************)
(* Who owns what between the USB device and the caller.  A behaviour is    *)
(* that of one owner; kind says which, and the variables of the others     *)
(* rest.  armdebug.Conn over probe.Probe (ArmConn) knows an adapter session*)
(* by its contract; the three adapters, CMSIS-DAP (CmsisHost), J-Link      *)
(* (JlinkHost) and an FTDI channel (FtdiChannel), are shown to keep it     *)
(* (ImplementsBackend).  The other properties are shared as far as the     *)
(* owners are alike.                                                       *)
(***************************************************************************)
EXTENDS CmsisAdapter, JlinkAdapter, FtdiAdapter, ConnOwner

VARIABLE kind   \* "cmsis", "jlink", "ftdi" or "conn"

vars == <<kind, outcome, hostVars, ftdiVars, connVars>>

NoSession == x = "none" /\ held = "nobody"

Init ==
  /\ A!Init
  /\ F!Init
  /\ \/ kind = "cmsis" /\ C!Init
     \/ kind = "jlink" /\ J!Init
     \/ kind \in {"ftdi", "conn"} /\ NoSession

Next ==
  /\ \/ kind = "cmsis" /\ C!Next /\ UNCHANGED <<ftdiVars, connVars>>
     \/ kind = "jlink" /\ J!Next /\ UNCHANGED <<ftdiVars, connVars>>
     \/ kind = "ftdi" /\ F!Next /\ UNCHANGED <<hostVars, connVars>>
     \/ kind = "conn" /\ A!Next /\ UNCHANGED <<outcome, hostVars, ftdiVars>>
  /\ UNCHANGED kind

Spec == Init /\ [][Next]_vars /\ F!Fairness /\ A!Fairness

-----------------------------------------------------------------------------

\* Every variable of the owner in use has its type.
TypesOK ==
  CASE kind = "cmsis" -> C!TypeOK
    [] kind = "jlink" -> J!TypeOK
    [] kind = "ftdi"  -> F!TypeOK
    [] kind = "conn"  -> A!TypeOK

\* No command takes any part of another command's answer for its own.  An exchange
\* that may leave an answer behind poisons the session, so that no later command of
\* it is sent (poison, beginResponse).  Answers to an earlier user are drained by
\* Open if they arrive before its quiet interval ends (synchronizeInput); firmware
\* that replies later still is outside the guarantee of Open, and of this property.
AnswersMatch ==
  CASE kind = "cmsis" -> C!AnswersMatch
    [] kind = "jlink" -> J!AnswersMatch
    [] kind = "ftdi"  -> F!AnswersMatch
    [] kind = "conn"  -> TRUE

\* The open device, the claimed interface, the receive goroutine and the lent
\* surface always belong to someone who ends them: no failure of Open, activation,
\* Connect or Close orphans any (closeAfterOpenFailure, releaseUSB, owner.Close,
\* Probe.Close, closeProbe).
NothingOrphaned ==
  CASE kind = "cmsis" -> C!NothingOrphaned
    [] kind = "jlink" -> J!NothingOrphaned
    [] kind = "ftdi"  -> F!NothingOrphaned
    [] kind = "conn"  -> A!NoOrphan /\ A!SurfaceAlive

\* What an owner does next meets what it expects: a CMSIS-DAP port that may be
\* connected is owned and no command follows a stream that was cut short; a J-Link
\* scan runs on the interface asked for and can recover from a failure; a successful
\* FTDI exchange leaves nothing of its answer on the way; and what Conn.Close will
\* still put back is what was changed.
WorkInPlace ==
  CASE kind = "cmsis" -> C!PortOwned /\ C!PrefixFinal
    [] kind = "jlink" -> J!ScansInPlace /\ J!RecoveryKept
    [] kind = "ftdi"  -> F!NothingInFlight
    [] kind = "conn"  -> A!OwedTracked

\* From whatever state failures leave a CMSIS-DAP or J-Link session in, one Close
\* without further faults releases everything (Close).
CloseConverges ==
  CASE kind = "cmsis" -> C!CloseConverges
    [] kind = "jlink" -> J!CloseConverges
    [] kind \in {"ftdi", "conn"} -> TRUE

\* A target is given up only when there is no way left to it, and the loss is
\* reported: Conn.Close returns ErrRestorationAbandoned, a Close that returns nil
\* has disconnected the CMSIS-DAP port, and an FTDI chip left in MPSSE mode was
\* reported (releaseTarget, abandonTargetPort, restoreForClose).
AbandonReported ==
  [][/\ kind = "cmsis" /\ C!Owned /\ C!CleanupPending(x) /\ outcome' = "nil" => ~C!Is(x, "port")'
     /\ kind = "ftdi" => F!AbandonReported'
     /\ kind = "conn" => A!AbandonReported' /\ A!RestoreFirst]_vars

\* Once faults stop, a Conn that is being closed gives back the USB resources, if it
\* owes the target nothing, can still restore it, or its session reports that it
\* never will (while its debug port refuses every release over a healthy session,
\* Close returns before it reaches the probe); Close of an FTDI channel returns although the goroutine may post one more read after AbortBulk has
\* cancelled the others and the chip may stay silent; and a reader whose goroutine
\* has stopped is woken whatever its context allows.
ClosesEnd == A!HostReleased /\ F!CloseReturns /\ F!ReaderWoken

\* What CleanupPending and RestorationPossible answer for the owner's session.
Pending ==
  \/ kind = "cmsis" /\ C!Owned /\ C!CleanupPending(x)
  \/ kind = "jlink" /\ held = "session" /\ J!CleanupPending(x)
  \/ kind = "ftdi" /\ F!CleanupPending

Able ==
  \/ kind = "cmsis" /\ C!Owned /\ C!RestorationPossible(x)
  \/ kind = "jlink" /\ held = "session" /\ J!RestorationPossible(x)
  \/ kind = "ftdi" /\ F!RestorationPossible

\* Every adapter keeps the contract of probe.Backend, RestorationState and
\* CleanupState, which Backend states and ArmConn assumes.
Contract == INSTANCE Backend WITH pending <- Pending, able <- Able

ImplementsBackend == Contract!Spec

=============================================================================
