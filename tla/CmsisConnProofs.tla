-------------------------- MODULE CmsisConnProofs --------------------------
(***************************************************************************)
(* Two of the Owners: a CMSIS-DAP session (CmsisHost) and a connection     *)
(* over a probe (ArmConn).  Each has an inductive invariant, CmsisInv and  *)
(* ConnInv, that every step keeps and that gives the properties of Owners. *)
(***************************************************************************)
EXTENDS CmsisAdapter, ConnOwner, Naturals, Sequences, TLAPS, WellFoundedInduction

\* A set of natural numbers has a least member.
LEMMA LeastNat == ASSUME NEW T \in SUBSET Nat, T # {} PROVE \E n \in T : \A m \in T : n <= m
<1> DEFINE R == OpToRel(<, Nat)
<1>1. IsWellFoundedOn(R, Nat) BY Zenon, NatLessThanWellFounded
<1>2. \A a \in Nat, b \in Nat : b < a => <<b, a>> \in R BY DEF OpToRel
<1> HIDE DEF R
<1>3. PICK a \in T : \A y \in T : ~(<<y, a>> \in R) BY Zenon, <1>1, WFMin
<1>4. ASSUME NEW m \in T PROVE a <= m
  <2>1. a \in Nat /\ m \in Nat OBVIOUS
  <2>2. ~(m < a) BY Zenon, <1>2, <1>3, <2>1
  <2> QED BY <2>1, <2>2
<1> QED BY <1>4

-----------------------------------------------------------------------------
\* CMSIS-DAP.

\* What no command of a session changes.
CmsisLasting == {"device", "claim", "prefix", "file", "iface", "mixed"}

\* z may follow y in a session: it holds the same resources, and a poisoned or
\* removed session stays so.
CmsisSame(y, z) ==
  /\ z \in C!Sessions
  /\ \A f \in CmsisLasting : f \in z.on <=> f \in y.on
  /\ "poisoned" \in y.on => "poisoned" \in z.on
  /\ "gone" \in y.on => "gone" \in z.on
  /\ "torn" \in z.on => "torn" \in y.on \/ "poisoned" \in z.on

\* What Set and Clear do to a session.
LEMMA CmsisFlags ==
  ASSUME NEW y \in C!Sessions, NEW s \in SUBSET C!Flags
  PROVE  /\ C!Set(y, s) \in C!Sessions /\ C!Set(y, s).on = y.on \cup s /\ C!Set(y, s).unread = y.unread
         /\ C!Clear(y, s) \in C!Sessions /\ C!Clear(y, s).on = y.on \ s /\ C!Clear(y, s).unread = y.unread
         /\ y.unread \in Nat /\ y.on \subseteq C!Flags
BY CmsisAssumption DEF C!Sessions, C!Set, C!Clear

\* poison only marks the session.
LEMMA CmsisPoison ==
  ASSUME NEW y \in C!Sessions
  PROVE  C!Poison(y) \in C!Sessions /\ C!Poison(y).on = y.on \cup {"poisoned"} /\ C!Poison(y).unread = y.unread
BY CmsisFlags DEF C!Poison, C!Flags

\* What a command does in the probe: one reply is sent, and the port of the probe is
\* connected or disconnected as the reply says.
LEMMA CmsisRun ==
  ASSUME NEW y \in C!Sessions, NEW command, NEW quiet \in BOOLEAN, y.unread = 0,
         NEW e \in C!Run(y, command, quiet)
  PROVE  /\ e.x \in C!Sessions /\ e.x.unread = 1
         /\ \A f \in C!Flags \ {"port"} : f \in e.x.on <=> f \in y.on
         /\ command = "connect" /\ e.r \in {"ok", "other"} => "port" \in e.x.on
         /\ command = "disconnect" /\ e.r = "ok" => "port" \notin e.x.on
         /\ e.r \in {"refused", "unimplemented", "odd"} \/ command \notin {"connect", "disconnect"} =>
              ("port" \in e.x.on <=> "port" \in y.on)
         /\ e.r \in {"ok", "refused", "unimplemented", "odd", "malformed", "other"}
         /\ e.r = "other" => command = "connect"
         /\ quiet => e.r = "ok"
<1> DEFINE asked == [y EXCEPT !.unread = @ + 1]
           done  == CASE command = "connect"    -> C!Set(asked, {"port"})
                      [] command = "disconnect" -> C!Clear(asked, {"port"})
                      [] OTHER                  -> asked
<1>1. asked \in C!Sessions /\ asked.unread = 1 /\ asked.on = y.on BY CmsisAssumption DEF C!Sessions
<1>2. \/ e.x = done /\ e.r \in {"ok", "malformed"} /\ (quiet => e.r = "ok")
      \/ e.x = done /\ e.r = "other" /\ command = "connect" /\ ~quiet
      \/ e.x = asked /\ e.r \in {"refused", "unimplemented", "odd", "malformed"} /\ ~quiet
  BY DEF C!Run, C!Res, C!Result, C!Faults
<1> HIDE DEF asked
<1>3. /\ done \in C!Sessions /\ done.unread = 1
      /\ command = "connect" => done.on = y.on \cup {"port"}
      /\ command = "disconnect" => done.on = y.on \ {"port"}
      /\ command \notin {"connect", "disconnect"} => done.on = y.on
  <2>1. {"port"} \in SUBSET C!Flags BY DEF C!Flags
  <2>2. CASE command = "connect" BY <1>1, <2>1, <2>2, CmsisFlags
  <2>3. CASE command = "disconnect" BY <1>1, <2>1, <2>3, CmsisFlags
  <2>4. CASE command \notin {"connect", "disconnect"} BY <1>1, <2>4
  <2> QED BY <2>2, <2>3, <2>4
<1> HIDE DEF done
<1> QED BY <1>1, <1>2, <1>3

\* exchange reads the reply to its own command, or poisons the session.
LEMMA CmsisExchange ==
  ASSUME NEW y \in C!Sessions, NEW command, NEW quiet \in BOOLEAN, C!transportReady(y) => y.unread = 0,
         NEW e \in C!Exchange(y, command, quiet)
  PROVE  /\ CmsisSame(y, e.x)
         /\ \A f \in {"connected", "configured"} : f \in e.x.on <=> f \in y.on
         /\ e.r = "lost" => "poisoned" \in e.x.on
         /\ "poisoned" \notin e.x.on => e.x.unread = y.unread
         /\ e.r \notin {"unsent", "lost"} => C!transportReady(e.x)
         /\ command = "connect" /\ e.r \in {"ok", "other"} => "port" \in e.x.on
         /\ command = "disconnect" /\ e.r = "ok" => "port" \notin e.x.on
         /\ e.r \in {"unsent", "refused", "unimplemented", "odd"} \/ command \notin {"connect", "disconnect"} =>
              ("port" \in e.x.on <=> "port" \in y.on)
         /\ e.r \in {"ok", "refused", "unimplemented", "odd", "malformed", "other", "unsent", "lost"}
         /\ e.r = "other" => command = "connect"
         /\ quiet => e.r = "ok" \/ (e.r = "unsent" /\ e.x = y /\ ~C!transportReady(y))
<1>1. CASE ~C!transportReady(y)
  <2>1. e = C!Res(y, "unsent") BY <1>1 DEF C!Exchange
  <2> QED BY <1>1, <2>1 DEF C!Res, C!Result, CmsisSame
<1>2. CASE C!transportReady(y)
  <2> DEFINE taken(z) == [(IF y.unread > 0 THEN C!Set(z, {"mixed"}) ELSE z) EXCEPT !.unread = @ - 1]
  <2>0. y.unread = 0 /\ "poisoned" \notin y.on /\ "gone" \notin y.on /\ CmsisLasting \cup {"connected", "configured", "port"} \subseteq C!Flags
    BY <1>2 DEF C!transportReady, C!Is, C!Flags, CmsisLasting
  <2>1. \/ \E a \in C!Run(y, command, quiet) : e = C!Result(taken(a.x), a.r, a.ran)
        \/ ~quiet /\ \E z \in C!Losses(y) : e = C!Res(z, "unsent")
        \/ ~quiet /\ \E z \in C!Losses(y) : e = C!Res(C!Poison(z), "lost")
        \/ ~quiet /\ \E a \in C!Run(y, command, quiet) : e = C!Result(C!Poison(a.x), "lost", a.ran)
        \/ ~quiet /\ e = C!Res(C!Poison(y), "lost")
    BY <1>2 DEF C!Exchange, C!Faults
  <2>2. ASSUME NEW z \in C!Sessions, z.unread = 1
        PROVE  taken(z) \in C!Sessions /\ taken(z).on = z.on /\ taken(z).unread = 0
    <3>1. taken(z) = [z EXCEPT !.unread = 0] BY <2>0, <2>2
    <3> HIDE DEF taken
    <3> QED BY <2>2, <3>1, CmsisAssumption DEF C!Sessions
  <2>3. CASE \E a \in C!Run(y, command, quiet) : e = C!Result(taken(a.x), a.r, a.ran)
    <3>1. PICK a \in C!Run(y, command, quiet) : e = C!Result(taken(a.x), a.r, a.ran) BY Zenon, <2>3
    <3>2. e.x = taken(a.x) /\ e.r = a.r BY <3>1 DEF C!Result
    <3> HIDE DEF taken
    <3>3. a.x \in C!Sessions /\ a.x.unread = 1 BY <2>0, CmsisRun
    <3>4. e.x \in C!Sessions /\ e.x.on = a.x.on /\ e.x.unread = 0 BY <2>2, <3>2, <3>3
    <3>5. C!transportReady(e.x) BY <1>2, <2>0, <3>4, CmsisRun DEF C!transportReady, C!Is, C!Flags
    <3>6. CmsisSame(y, e.x) BY <2>0, <3>4, CmsisRun DEF CmsisSame, CmsisLasting, C!Flags
    <3> QED BY <2>0, <3>2, <3>4, <3>5, <3>6, CmsisRun
  <2>4. ASSUME NEW z \in C!Losses(y) PROVE z \in C!Sessions /\ (z.on = y.on \/ z.on = y.on \cup {"gone"}) /\ z.unread = y.unread
    BY CmsisFlags DEF C!Losses, C!Flags
  <2>5. CASE ~quiet /\ \E z \in C!Losses(y) : e = C!Res(z, "unsent")
    BY <2>5, <2>4, <2>0 DEF C!Res, C!Result, CmsisSame, CmsisLasting
  <2>6. CASE ~quiet /\ \E z \in C!Losses(y) : e = C!Res(C!Poison(z), "lost")
    BY <2>6, <2>4, CmsisPoison, <2>0 DEF C!Res, C!Result, CmsisSame, CmsisLasting
  <2>7. CASE ~quiet /\ e = C!Res(C!Poison(y), "lost")
    BY <2>7, CmsisPoison, <2>0 DEF C!Res, C!Result, CmsisSame, CmsisLasting
  <2>8. CASE ~quiet /\ \E a \in C!Run(y, command, quiet) : e = C!Result(C!Poison(a.x), "lost", a.ran)
    BY <2>8, CmsisPoison, <2>0, CmsisRun DEF C!Result, CmsisSame, CmsisLasting
  <2> QED BY Zenon, <2>1, <2>3, <2>5, <2>6, <2>7, <2>8
<1> QED BY <1>1, <1>2

\* The same for a command whose reply is decoded.
LEMMA CmsisCommand ==
  ASSUME NEW y \in C!Sessions, NEW command, NEW quiet \in BOOLEAN, C!transportReady(y) => y.unread = 0,
         NEW e \in C!Command(y, command, quiet)
  PROVE  /\ CmsisSame(y, e.x)
         /\ \A f \in {"connected", "configured"} : f \in e.x.on <=> f \in y.on
         /\ e.r = "lost" => "poisoned" \in e.x.on
         /\ "poisoned" \notin e.x.on => e.x.unread = y.unread
         /\ e.r \notin {"unsent", "lost"} => C!transportReady(e.x)
         /\ command = "connect" /\ e.r = "ok" => "port" \in e.x.on
         /\ command = "disconnect" /\ e.r = "ok" => "port" \notin e.x.on
         /\ e.r \in {"unsent", "refused", "unimplemented", "odd"} \/ command \notin {"connect", "disconnect"} =>
              ("port" \in e.x.on <=> "port" \in y.on)
         /\ e.r \in {"ok", "refused", "unimplemented", "odd", "other", "unsent", "lost"}
         /\ e.r = "other" => command = "connect"
         /\ quiet => e.r = "ok" \/ (e.r = "unsent" /\ e.x = y /\ ~C!transportReady(y))
<1>1. PICK a \in C!Exchange(y, command, quiet) :
        e = IF a.r = "malformed" THEN C!Result(C!Poison(a.x), "lost", a.ran) ELSE a
  BY DEF C!Command
<1>2. CASE a.r # "malformed" BY <1>1, <1>2, CmsisExchange
<1>3. CASE a.r = "malformed"
  <2>1. e.x = C!Poison(a.x) /\ e.r = "lost" BY <1>1, <1>3 DEF C!Result
  <2>2. CmsisSame(y, a.x) /\ (\A f \in {"connected", "configured"} : f \in a.x.on <=> f \in y.on)
        /\ (command \notin {"connect", "disconnect"} => ("port" \in a.x.on <=> "port" \in y.on)) /\ ~quiet
    BY <1>3, CmsisExchange
  <2>3. e.x \in C!Sessions /\ e.x.on = a.x.on \cup {"poisoned"} BY <2>1, <2>2, CmsisPoison DEF CmsisSame
  <2> QED BY <2>1, <2>2, <2>3 DEF CmsisSame, CmsisLasting
<1> QED BY <1>2, <1>3

\* What a session that may still be closed keeps: an SWD configuration is that of an
\* owned port; only a lost session holds a cut stream, an abandoned port or answers
\* of a port it owns; the rest belongs to the device.
CmsisFit(y) ==
  /\ y \in C!Sessions
  /\ "mixed" \notin y.on
  /\ "configured" \in y.on => "connected" \in y.on
  /\ "torn" \in y.on => "poisoned" \in y.on
  /\ "poisoned" \notin y.on /\ "gone" \notin y.on =>
       /\ "prefix" \notin y.on
       /\ "port" \in y.on => "connected" \in y.on
       /\ "configured" \in y.on => "port" \in y.on
       /\ "connected" \in y.on => y.unread = 0
  /\ "port" \in y.on /\ "connected" \notin y.on /\ "device" \in y.on => "prefix" \in y.on
  /\ "connected" \in y.on \/ "prefix" \in y.on \/ "claim" \in y.on => "device" \in y.on
  /\ "connected" \in y.on => "claim" \in y.on
  /\ "device" \in y.on <=> "file" \in y.on
  /\ "claim" \in y.on <=> "iface" \in y.on

\* A session that can still be used has read every answer.
CmsisDrained(y) == "poisoned" \notin y.on /\ "gone" \notin y.on => y.unread = 0

\* disconnect gives up the port only after the probe has confirmed it.
LEMMA CmsisDisconnect ==
  ASSUME NEW y, CmsisFit(y), "connected" \in y.on, NEW quiet \in BOOLEAN, NEW e \in C!disconnect(y, quiet)
  PROVE  /\ CmsisFit(e.x) /\ CmsisSame(y, e.x)
         /\ e.r \in {"ok", "error"}
         /\ e.r = "ok" => /\ C!transportReady(e.x) /\ e.x.unread = 0
                          /\ {"connected", "configured", "port"} \cap e.x.on = {}
         /\ e.r = "error" => "connected" \in e.x.on
         /\ quiet => e.r = "ok" \/ ~C!transportReady(y)
<1>1. y \in C!Sessions /\ (C!transportReady(y) => y.unread = 0) BY DEF CmsisFit, C!transportReady, C!Is
<1>2. PICK a \in C!Command(y, "disconnect", quiet) :
        e = IF a.r = "ok" THEN C!Res(C!clearSWDConfiguration(a.x), "ok") ELSE C!Res(a.x, "error")
  BY DEF C!disconnect
<1>3. CmsisSame(y, a.x) /\ a.x \in C!Sessions BY <1>1, CmsisCommand DEF CmsisSame
<1>4. CASE a.r = "ok"
  <2>1. e.x = C!Clear(a.x, {"connected", "configured"}) /\ e.r = "ok"
    BY <1>2, <1>4 DEF C!Res, C!Result, C!clearSWDConfiguration
  <2>2. e.x \in C!Sessions /\ e.x.on = a.x.on \ {"connected", "configured"} /\ e.x.unread = a.x.unread
    BY <1>3, <2>1, CmsisFlags DEF C!Flags
  <2>3. C!transportReady(a.x) /\ "port" \notin a.x.on /\ ("poisoned" \notin a.x.on => a.x.unread = y.unread) BY <1>1, <1>4, CmsisCommand
  <2>4. C!transportReady(e.x) BY <2>2, <2>3 DEF C!transportReady, C!Is
  <2>5. "poisoned" \notin a.x.on /\ "gone" \notin a.x.on BY <2>3 DEF C!transportReady, C!Is
  <2>6. "poisoned" \notin y.on /\ "gone" \notin y.on BY <2>5, <1>3 DEF CmsisSame
  <2>7. y.unread = 0 /\ "prefix" \notin y.on BY <2>6 DEF CmsisFit
  <2>8. CmsisSame(y, e.x) BY <1>3, <2>2 DEF CmsisSame, CmsisLasting
  <2>9. CmsisFit(e.x) BY <2>2, <2>3, <2>5, <2>7, <1>3 DEF CmsisSame, CmsisLasting, CmsisFit
  <2> QED BY <2>1, <2>2, <2>3, <2>4, <2>5, <2>7, <2>8, <2>9
<1>5. CASE a.r # "ok"
  <2>1. e.x = a.x /\ e.r = "error" BY <1>2, <1>5 DEF C!Res, C!Result
  <2>2. /\ \A f \in {"connected", "configured"} : f \in a.x.on <=> f \in y.on
        /\ "poisoned" \notin a.x.on => a.x.unread = y.unread
        /\ "poisoned" \notin a.x.on => ("port" \in a.x.on <=> "port" \in y.on)
        /\ quiet => ~C!transportReady(y)
    BY <1>1, <1>5, CmsisCommand
  <2>3. CmsisFit(e.x) BY <1>3, <2>1, <2>2 DEF CmsisFit, CmsisSame, CmsisLasting
  <2> QED BY <1>3, <2>1, <2>2, <2>3
<1> QED BY <1>4, <1>5

\* CmsisSame is transitive.
LEMMA CmsisSameTransitive ==
  ASSUME NEW y, NEW z, NEW w, CmsisSame(y, z), CmsisSame(z, w) PROVE CmsisSame(y, w)
BY DEF CmsisSame

\* A failed configuration disconnects again and reports an error.
LEMMA CmsisConfigureFailure ==
  ASSUME NEW y, CmsisFit(y), NEW quiet \in BOOLEAN, NEW e \in C!configureFailure(y, quiet)
  PROVE  CmsisFit(e.x) /\ CmsisSame(y, e.x) /\ e.r = "error" /\ (CmsisDrained(y) => CmsisDrained(e.x))
<1>1. CASE ~C!Is(y, "connected") \/ C!Is(y, "poisoned")
  BY <1>1 DEF C!configureFailure, C!Res, C!Result, CmsisSame, CmsisFit
<1>2. CASE ~(~C!Is(y, "connected") \/ C!Is(y, "poisoned"))
  <2>1. PICK a \in C!disconnect(y, quiet) : e = C!Res(a.x, "error") BY <1>2 DEF C!configureFailure
  <2>2. "connected" \in y.on BY <1>2 DEF C!Is
  <2>3. CmsisFit(a.x) /\ CmsisSame(y, a.x) /\ (a.r = "ok" => a.x.unread = 0) /\ (a.r # "ok" => "connected" \in a.x.on)
    BY <2>2, CmsisDisconnect
  <2>4. CmsisDrained(a.x) BY <2>3 DEF CmsisFit, CmsisDrained
  <2> QED BY <2>1, <2>3, <2>4 DEF C!Res, C!Result
<1> QED BY <1>1, <1>2

\* connectSWD owns the port of the probe whenever the probe may be connected.
LEMMA CmsisConnect ==
  ASSUME NEW y, CmsisFit(y), C!transportReady(y), y.unread = 0, {"connected", "configured"} \cap y.on = {},
         NEW quiet \in BOOLEAN, NEW e \in C!connectSWD(y, quiet)
  PROVE  /\ CmsisFit(e.x) /\ CmsisSame(y, e.x) /\ CmsisDrained(e.x) /\ e.r \in {"ok", "error"}
         /\ e.r = "ok" => C!transportReady(e.x) /\ {"connected", "port"} \subseteq e.x.on
<1> DEFINE z == C!Set(y, {"connected"})
<1>0. /\ {"device", "claim", "file", "iface"} \subseteq y.on /\ "poisoned" \notin y.on /\ "gone" \notin y.on
      /\ "port" \notin y.on /\ "prefix" \notin y.on
  BY DEF C!transportReady, C!Is, CmsisFit
<1>1. z \in C!Sessions /\ z.on = y.on \cup {"connected"} /\ z.unread = 0 BY CmsisFlags DEF C!Flags, CmsisFit
<1>2. PICK a \in C!Command(z, "connect", quiet) :
        e \in CASE a.r = "ok" -> {C!Res(a.x, "ok")}
                [] a.r \in {"unsent", "refused", "unimplemented"} -> {C!Res(C!Clear(a.x, {"connected"}), "error")}
                [] OTHER -> C!configureFailure(a.x, quiet)
  BY DEF C!connectSWD
<1> HIDE DEF z
<1>3. /\ CmsisSame(z, a.x) /\ a.x \in C!Sessions
      /\ "connected" \in a.x.on /\ "configured" \notin a.x.on
      /\ "poisoned" \notin a.x.on => a.x.unread = 0
  BY <1>1, CmsisCommand DEF CmsisSame
<1>4. CmsisSame(y, a.x) BY <1>1, <1>3 DEF CmsisSame, CmsisLasting
<1>5. CmsisFit(a.x) BY <1>0, <1>3, <1>4 DEF CmsisSame, CmsisLasting, CmsisFit
<1>6. CASE a.r = "ok"
  <2>1. e.x = a.x /\ e.r = "ok" BY <1>2, <1>6 DEF C!Res, C!Result
  <2>2. C!transportReady(a.x) /\ "port" \in a.x.on BY <1>1, <1>6, CmsisCommand
  <2> QED BY <1>3, <1>4, <1>5, <2>1, <2>2 DEF CmsisDrained
<1>7. CASE a.r \in {"unsent", "refused", "unimplemented"}
  <2>1. e.x = C!Clear(a.x, {"connected"}) /\ e.r = "error" BY <1>2, <1>7 DEF C!Res, C!Result
  <2>2. e.x \in C!Sessions /\ e.x.on = a.x.on \ {"connected"} /\ e.x.unread = a.x.unread BY <1>3, <2>1, CmsisFlags DEF C!Flags
  <2>3. "port" \notin a.x.on BY <1>0, <1>1, <1>7, CmsisCommand
  <2>4. CmsisSame(y, e.x) BY <1>4, <2>2 DEF CmsisSame, CmsisLasting
  <2>5. CmsisFit(e.x) BY <1>5, <1>3, <2>2, <2>3 DEF CmsisFit
  <2> QED BY <1>3, <2>1, <2>2, <2>4, <2>5 DEF CmsisDrained
<1>8. CASE a.r \notin {"ok", "unsent", "refused", "unimplemented"}
  <2>1. e \in C!configureFailure(a.x, quiet) BY <1>2, <1>8
  <2>2. CmsisDrained(a.x) BY <1>3 DEF CmsisDrained
  <2>3. CmsisFit(e.x) /\ CmsisSame(a.x, e.x) /\ e.r = "error" /\ CmsisDrained(e.x) BY <1>5, <2>1, <2>2, CmsisConfigureFailure
  <2> QED BY <1>4, <2>3, CmsisSameTransitive
<1> QED BY <1>6, <1>7, <1>8

\* ConfigureSWD keeps the session fit, whichever of its commands fails.
LEMMA CmsisConfigure ==
  ASSUME NEW y, CmsisFit(y), CmsisDrained(y), NEW quiet \in BOOLEAN, NEW e \in C!ConfigureSWD(y, quiet)
  PROVE  CmsisFit(e.x) /\ CmsisSame(y, e.x) /\ CmsisDrained(e.x) /\ e.r \in {"ok", "error"}
<1>1. CASE ~C!transportReady(y)
  BY <1>1 DEF C!ConfigureSWD, C!Res, C!Result, CmsisSame, CmsisFit
<1>2. CASE C!transportReady(y)
  <2> DEFINE free == IF C!Is(y, "connected") THEN C!disconnect(y, quiet) ELSE {C!Res(y, "ok")}
             opened == UNION {IF a.r = "ok" THEN C!connectSWD(a.x, quiet) ELSE {a} : a \in free}
             requestSWDClock(z) ==
               UNION {IF k.r = "ok" THEN {C!Res(C!Set(k.x, {"configured"}), "ok")}
                      ELSE C!configureFailure(k.x, quiet) : k \in C!Command(z, "clock", quiet)}
  <2>1. PICK b \in opened : e \in IF b.r = "ok" THEN requestSWDClock(b.x) ELSE {b} BY <1>2 DEF C!ConfigureSWD
  <2>2. PICK a \in free : b \in IF a.r = "ok" THEN C!connectSWD(a.x, quiet) ELSE {a} BY <2>1
  <2>3. /\ CmsisFit(a.x) /\ CmsisSame(y, a.x) /\ a.r \in {"ok", "error"} /\ CmsisDrained(a.x)
        /\ a.r = "ok" => /\ C!transportReady(a.x) /\ a.x.unread = 0
                         /\ {"connected", "configured"} \cap a.x.on = {}
    <3>1. CASE C!Is(y, "connected")
      <4>1. "connected" \in y.on /\ a \in C!disconnect(y, quiet) BY <2>2, <3>1 DEF C!Is
      <4>2. /\ CmsisFit(a.x) /\ CmsisSame(y, a.x) /\ a.r \in {"ok", "error"}
            /\ a.r = "ok" => C!transportReady(a.x) /\ a.x.unread = 0 /\ {"connected", "configured", "port"} \cap a.x.on = {}
            /\ a.r = "error" => "connected" \in a.x.on
        BY <4>1, CmsisDisconnect
      <4>3. CmsisDrained(a.x) BY <4>2 DEF CmsisDrained, CmsisFit
      <4> QED BY <4>2, <4>3
    <3>2. CASE ~C!Is(y, "connected")
      <4>1. a.x = y /\ a.r = "ok" BY <2>2, <3>2 DEF C!Res, C!Result
      <4> QED BY <4>1, <3>2, <1>2 DEF CmsisFit, CmsisDrained, CmsisSame, C!transportReady, C!Is
    <3> QED BY <3>1, <3>2
  <2>4. /\ CmsisFit(b.x) /\ CmsisSame(y, b.x) /\ CmsisDrained(b.x) /\ b.r \in {"ok", "error"}
        /\ b.r = "ok" => C!transportReady(b.x) /\ {"connected", "port"} \subseteq b.x.on
    <3> HIDE DEF free, opened
    <3>1. CASE a.r = "ok"
      <4>1. b \in C!connectSWD(a.x, quiet) BY <2>2, <3>1
      <4>2. CmsisFit(b.x) /\ CmsisSame(a.x, b.x) /\ CmsisDrained(b.x) /\ b.r \in {"ok", "error"}
            /\ (b.r = "ok" => C!transportReady(b.x) /\ {"connected", "port"} \subseteq b.x.on)
        BY <2>3, <3>1, <4>1, CmsisConnect
      <4> QED BY <2>3, <4>2, CmsisSameTransitive
    <3>2. CASE a.r # "ok" BY <2>2, <2>3, <3>2
    <3> QED BY <3>1, <3>2
  <2>5. CASE b.r # "ok" BY <2>1, <2>4, <2>5
  <2>6. CASE b.r = "ok"
    <3>1. PICK k \in C!Command(b.x, "clock", quiet) :
            e \in IF k.r = "ok" THEN {C!Res(C!Set(k.x, {"configured"}), "ok")} ELSE C!configureFailure(k.x, quiet)
      BY <2>1, <2>6
    <3> HIDE DEF free, opened, requestSWDClock
    <3>2. b.x \in C!Sessions /\ b.x.unread = 0 BY <2>4, <2>6 DEF CmsisFit, CmsisDrained, C!transportReady, C!Is
    <3>3. /\ CmsisSame(b.x, k.x)
          /\ \A f \in {"connected", "configured", "port"} : f \in k.x.on <=> f \in b.x.on
          /\ "poisoned" \notin k.x.on => k.x.unread = 0
      BY <3>2, CmsisCommand
    <3>4. CmsisFit(k.x) /\ CmsisSame(y, k.x) /\ CmsisDrained(k.x)
      BY <2>4, <2>6, <3>2, <3>3, CmsisSameTransitive DEF CmsisFit, CmsisSame, CmsisLasting, CmsisDrained
    <3>5. CASE k.r = "ok"
      <4>1. e.x = C!Set(k.x, {"configured"}) /\ e.r = "ok" BY <3>1, <3>5 DEF C!Res, C!Result
      <4>2. e.x \in C!Sessions /\ e.x.on = k.x.on \cup {"configured"} /\ e.x.unread = k.x.unread
        BY <3>4, <4>1, CmsisFlags DEF C!Flags, CmsisFit
      <4>3. CmsisFit(e.x) BY <2>4, <2>6, <3>3, <3>4, <4>2 DEF CmsisFit
      <4>4. CmsisSame(y, e.x) /\ CmsisDrained(e.x) BY <3>4, <4>2 DEF CmsisSame, CmsisLasting, CmsisDrained
      <4> QED BY <4>1, <4>3, <4>4
    <3>6. CASE k.r # "ok"
      <4>1. e \in C!configureFailure(k.x, quiet) BY <3>1, <3>6
      <4>2. CmsisFit(e.x) /\ CmsisSame(k.x, e.x) /\ e.r = "error" /\ CmsisDrained(e.x)
        BY <3>4, <4>1, CmsisConfigureFailure
      <4> QED BY <3>4, <4>2, CmsisSameTransitive
    <3> QED BY <3>5, <3>6
  <2> QED BY <2>5, <2>6
<1> QED BY <1>1, <1>2

\* A command that does not touch the port keeps the session fit.
LEMMA CmsisCommandFit ==
  ASSUME NEW y, CmsisFit(y), CmsisDrained(y), NEW command, command \notin {"connect", "disconnect"},
         NEW quiet \in BOOLEAN, NEW e \in C!Command(y, command, quiet)
  PROVE  CmsisFit(e.x) /\ CmsisSame(y, e.x) /\ CmsisDrained(e.x)
<1>1. y \in C!Sessions /\ (C!transportReady(y) => y.unread = 0) BY DEF CmsisFit, CmsisDrained, C!transportReady, C!Is
<1>2. /\ CmsisSame(y, e.x)
      /\ \A f \in {"connected", "configured", "port"} : f \in e.x.on <=> f \in y.on
      /\ "poisoned" \notin e.x.on => e.x.unread = y.unread
  BY <1>1, CmsisCommand
<1> QED BY <1>2 DEF CmsisFit, CmsisSame, CmsisLasting, CmsisDrained

\* SWDIO keeps the session fit, for any number of packets.  This is an induction
\* over the packets: the first state that is not fit would follow a fit one.
LEMMA CmsisSequence ==
  ASSUME NEW y, CmsisFit(y), CmsisDrained(y), NEW packets \in Nat, NEW quiet \in BOOLEAN,
         NEW e \in C!SWDIO(y, packets, quiet)
  PROVE  CmsisFit(e.x) /\ CmsisSame(y, e.x) /\ CmsisDrained(e.x)
<1> DEFINE cut(z, n) == IF n > 1 THEN C!Set(z, {"torn"}) ELSE z
           more(S, n) == UNION {IF p.r # "ok" THEN {p}
                                ELSE {IF k.r = "ok" THEN k
                                      ELSE C!Res(cut(C!sequenceFailure(k.x, n), n), "error")
                                      : k \in C!Command(p.x, "sequence", quiet)}
                                : p \in S}
           Def(f, N) == f = [n \in 0..N |-> IF n = 0 THEN {C!Res(y, "ok")} ELSE more(f[n - 1], n)]
           after == CHOOSE f : Def(f, packets)
<1>1. e \in after[packets] \/ e = C!Res(y, "error") BY DEF C!SWDIO
<1> HIDE DEF more
<1>2. \A N \in Nat : \E f : Def(f, N)
  <2> DEFINE T == {N \in Nat : ~\E f : Def(f, N)}
  <2> SUFFICES ASSUME T # {} PROVE FALSE BY Zenon
  <2>1. PICK N \in T : \A M \in T : N <= M
    <3>1. T \in SUBSET Nat OBVIOUS
    <3> HIDE DEF T
    <3> QED BY <3>1, LeastNat
  <2>2. N \in Nat /\ ~\E f : Def(f, N) BY <2>1
  <2>3. N # 0
    <3>1. Def([n \in 0..0 |-> {C!Res(y, "ok")}], 0) OBVIOUS
    <3> QED BY Zenon, <2>2, <3>1
  <2>4. N - 1 \in Nat /\ ~(N <= N - 1) BY <2>2, <2>3
  <2>5. N - 1 \notin T BY Zenon, <2>1, <2>4
  <2>6. PICK f : Def(f, N - 1)
    <3> HIDE DEF Def
    <3> QED BY <2>4, <2>5
  <2> DEFINE g == [n \in 0..N |-> IF n = N THEN more(f[N - 1], N) ELSE f[n]]
  <2>7. ASSUME NEW n \in 0..N PROVE g[n] = IF n = 0 THEN {C!Res(y, "ok")} ELSE more(g[n - 1], n)
    <3>1. CASE n = 0 BY <2>3, <2>4, <2>6, <3>1
    <3>2. CASE n # 0 /\ n # N
      <4>1. n \in 0..(N - 1) /\ n - 1 \in 0..N /\ n - 1 # N BY <2>2, <3>2
      <4>2. g[n] = f[n] /\ g[n - 1] = f[n - 1] BY <3>2, <4>1
      <4>3. f[n] = more(f[n - 1], n) BY Zenon, <2>6, <3>2, <4>1
      <4> QED BY <3>2, <4>2, <4>3
    <3>3. CASE n = N
      <4>1. N - 1 \in 0..N /\ N - 1 # N BY <2>2, <2>4
      <4>2. g[n] = more(f[N - 1], N) /\ g[N - 1] = f[N - 1] BY <3>3, <4>1
      <4> QED BY <2>3, <3>3, <4>2
    <3> QED BY <3>1, <3>2, <3>3
  <2>8. Def(g, N) BY <2>7
  <2> QED BY Zenon, <2>2, <2>8
<1>3. Def(after, packets) BY Zenon, <1>2
<1> DEFINE Good(p) == CmsisFit(p.x) /\ CmsisSame(y, p.x) /\ CmsisDrained(p.x)
<1>4. ASSUME NEW S, NEW n \in Nat, \A p \in S : Good(p) PROVE \A p \in more(S, n) : Good(p)
  <2> SUFFICES ASSUME NEW q \in more(S, n) PROVE Good(q) OBVIOUS
  <2>1. PICK p \in S : q \in IF p.r # "ok" THEN {p}
                             ELSE {IF k.r = "ok" THEN k
                                   ELSE C!Res(cut(C!sequenceFailure(k.x, n), n), "error")
                                   : k \in C!Command(p.x, "sequence", quiet)}
    BY DEF more
  <2>2. CASE p.r # "ok" BY <1>4, <2>1, <2>2
  <2>3. CASE p.r = "ok"
    <3>1. PICK k \in C!Command(p.x, "sequence", quiet) :
            q = IF k.r = "ok" THEN k ELSE C!Res(cut(C!sequenceFailure(k.x, n), n), "error")
      BY <2>1, <2>3
    <3>2. CmsisFit(k.x) /\ CmsisSame(p.x, k.x) /\ CmsisDrained(k.x) BY <1>4, CmsisCommandFit
    <3>3. CmsisSame(y, k.x) BY <1>4, <3>2, CmsisSameTransitive
    <3>4. CASE k.r = "ok" BY <3>1, <3>2, <3>3, <3>4
    <3>5. CASE k.r # "ok" /\ ~(n > 1)
      <4>1. q.x = k.x BY <3>1, <3>5 DEF C!sequenceFailure, C!Res, C!Result
      <4> QED BY <3>2, <3>3, <4>1
    <3>6. CASE k.r # "ok" /\ n > 1
      <4>1. q.x = C!Set(C!Poison(k.x), {"torn"}) BY <3>1, <3>6 DEF C!sequenceFailure, C!Res, C!Result
      <4>2. C!Poison(k.x) \in C!Sessions /\ C!Poison(k.x).on = k.x.on \cup {"poisoned"} BY <3>2, CmsisPoison DEF CmsisFit
      <4>3. q.x \in C!Sessions /\ q.x.on = k.x.on \cup {"poisoned", "torn"} BY <4>1, <4>2, CmsisFlags DEF C!Flags
      <4> QED BY <3>2, <3>3, <4>3 DEF CmsisFit, CmsisSame, CmsisLasting, CmsisDrained
    <3> QED BY <3>4, <3>5, <3>6
  <2> QED BY <2>2, <2>3
<1>5. Good(C!Res(y, "ok")) /\ Good(C!Res(y, "error")) BY Zenon DEF C!Res, C!Result, CmsisSame, CmsisFit
<1>6. \A n \in 0..packets : after[n] = IF n = 0 THEN {C!Res(y, "ok")} ELSE more(after[n - 1], n)
  <2> HIDE DEF after
  <2> QED BY Zenon, <1>3
<1> HIDE DEF after, Good
<1>7. \A p \in after[packets] : Good(p)
  <2> DEFINE T == {n \in 0..packets : ~\A p \in after[n] : Good(p)}
  <2> SUFFICES ASSUME T # {} PROVE FALSE OBVIOUS
  <2>1. PICK n \in T : \A m \in T : n <= m
    <3>1. T \in SUBSET Nat OBVIOUS
    <3> HIDE DEF T
    <3> QED BY <3>1, LeastNat
  <2>2. n \in 0..packets /\ ~\A p \in after[n] : Good(p) BY <2>1
  <2>3. CASE n = 0 BY <1>5, <1>6, <2>2, <2>3
  <2>4. CASE n # 0
    <3>1. n - 1 \in 0..packets /\ ~(n <= n - 1) BY <2>2, <2>4
    <3>2. n - 1 \notin T BY <2>1, <3>1
    <3>3. \A p \in after[n - 1] : Good(p) BY <3>1, <3>2
    <3>4. after[n] = more(after[n - 1], n) BY <1>6, <2>2, <2>4
    <3> QED BY <1>4, <2>2, <3>3, <3>4
  <2> QED BY <2>3, <2>4
<1> QED BY <1>1, <1>5, <1>7 DEF Good

\* closeTargetPort gives the port up unless a command of a usable session fails.
LEMMA CmsisClosePort ==
  ASSUME NEW y, CmsisFit(y), NEW quiet \in BOOLEAN, NEW e \in C!closeTargetPort(y, quiet)
  PROVE  /\ CmsisFit(e.x) /\ (CmsisDrained(y) => CmsisDrained(e.x))
         /\ \A f \in {"device", "claim"} : f \in e.x.on <=> f \in y.on
         /\ \A f \in {"gone", "poisoned"} : f \in y.on => f \in e.x.on
         /\ e.r \in {"ok", "stop"}
         /\ e.r = "ok" => "connected" \notin e.x.on
         /\ quiet => e.r = "ok"
<1>1. ASSUME NEW z, CmsisFit(z), "connected" \in z.on, C!Is(z, "gone") \/ C!Is(z, "poisoned")
      PROVE  /\ CmsisFit(C!abandonTargetPort(z)) /\ CmsisDrained(C!abandonTargetPort(z))
             /\ C!abandonTargetPort(z).on = (z.on \cup {"prefix"}) \ {"connected", "configured"}
  <2>1. C!Set(z, {"prefix"}) \in C!Sessions /\ C!Set(z, {"prefix"}).on = z.on \cup {"prefix"}
    BY <1>1, CmsisFlags DEF C!Flags, CmsisFit
  <2>2. /\ C!abandonTargetPort(z) \in C!Sessions
        /\ C!abandonTargetPort(z).on = (z.on \cup {"prefix"}) \ {"connected", "configured"}
    BY <2>1, CmsisFlags DEF C!Flags, C!abandonTargetPort, C!clearSWDConfiguration
  <2> QED BY <1>1, <2>2 DEF CmsisFit, CmsisDrained, C!Is
<1>2. CASE "connected" \notin y.on BY <1>2 DEF C!closeTargetPort, C!Is, C!Res, C!Result
<1>3. CASE "connected" \in y.on /\ (C!Is(y, "gone") \/ C!Is(y, "poisoned"))
  <2>1. e.x = C!abandonTargetPort(y) /\ e.r = "ok" BY <1>3 DEF C!closeTargetPort, C!Is, C!Res, C!Result
  <2> QED BY <1>1, <1>3, <2>1
<1>4. CASE "connected" \in y.on /\ ~(C!Is(y, "gone") \/ C!Is(y, "poisoned"))
  <2>1. PICK a \in C!disconnect(y, quiet) :
          e = IF a.r = "ok" THEN a
              ELSE IF C!RestorationPossible(a.x) THEN C!Res(a.x, "stop")
              ELSE C!Res(C!abandonTargetPort(a.x), "ok")
    BY <1>4 DEF C!closeTargetPort, C!Is
  <2>2. /\ CmsisFit(a.x) /\ CmsisSame(y, a.x)
        /\ a.r = "ok" => /\ C!transportReady(a.x) /\ a.x.unread = 0
                         /\ {"connected", "configured", "port"} \cap a.x.on = {}
        /\ a.r # "ok" => "connected" \in a.x.on
        /\ quiet => a.r = "ok" \/ ~C!transportReady(y)
    BY <1>4, CmsisDisconnect
  <2>3. C!transportReady(y) BY <1>4 DEF C!transportReady, CmsisFit, C!Is
  <2>4. /\ \A f \in {"device", "claim"} : f \in a.x.on <=> f \in y.on
        /\ \A f \in {"gone", "poisoned"} : f \in y.on => f \in a.x.on
    BY <2>2 DEF CmsisSame, CmsisLasting
  <2>5. CASE a.r = "ok"
    <3>1. "connected" \notin a.x.on BY <2>2, <2>5
    <3> QED BY <2>1, <2>2, <2>4, <2>5, <3>1 DEF CmsisDrained
  <2>6. CASE a.r # "ok" /\ C!RestorationPossible(a.x)
    <3>1. e.x = a.x /\ e.r = "stop" /\ ~quiet BY <2>1, <2>2, <2>3, <2>6 DEF C!Res, C!Result
    <3>2. CmsisDrained(a.x) BY <2>2, <2>6 DEF CmsisFit, CmsisDrained
    <3> QED BY <2>2, <2>4, <3>1, <3>2
  <2>7. CASE a.r # "ok" /\ ~C!RestorationPossible(a.x)
    <3>1. e.x = C!abandonTargetPort(a.x) /\ e.r = "ok" BY <2>1, <2>7 DEF C!Res, C!Result
    <3>2. C!Is(a.x, "gone") \/ C!Is(a.x, "poisoned") BY <2>2, <2>7 DEF C!RestorationPossible, C!Is, CmsisFit
    <3> QED BY <1>1, <2>2, <2>4, <2>7, <3>1, <3>2
  <2> QED BY <2>5, <2>6, <2>7
<1> QED BY <1>2, <1>3, <1>4

\* Close releases the interface and the device in order and forgets neither before it
\* is released.
LEMMA CmsisClose ==
  ASSUME NEW y, CmsisFit(y), NEW quiet \in BOOLEAN, NEW e \in C!Close(y, quiet)
  PROVE  /\ CmsisFit(e.x) /\ (CmsisDrained(y) => CmsisDrained(e.x))
         /\ "device" \in e.x.on => "device" \in y.on
         /\ \A f \in {"gone", "poisoned"} : f \in y.on => f \in e.x.on
         /\ e.r \in {"ok", "error"}
         /\ e.r = "ok" => "device" \notin e.x.on
         /\ e.r = "ok" /\ "device" \in y.on => "port" \notin e.x.on
         /\ "device" \notin y.on => e.r = "ok"
         /\ quiet => "device" \notin e.x.on
<1> DEFINE released(k) ==
             {IF d.r = "stop" THEN C!Res(d.x, "error")
              ELSE C!Res(C!Clear(d.x, {"prefix"}),
                         IF k.r = "ok" /\ d.r = "ok" /\ ~C!Is(k.x, "prefix") THEN "ok" ELSE "error")
              : d \in C!CloseDevice(k.x, quiet)}
           host(z) == UNION {IF k.r = "stop" THEN {C!Res(k.x, "error")} ELSE released(k)
                             : k \in C!CloseClaim(z, quiet)}
<1>1. PICK p \in C!closeTargetPort(y, quiet) : e \in IF p.r = "stop" THEN {C!Res(p.x, "error")} ELSE host(p.x)
  BY DEF C!Close
<1>2. /\ CmsisFit(p.x) /\ (CmsisDrained(y) => CmsisDrained(p.x))
      /\ \A f \in {"device", "claim"} : f \in p.x.on <=> f \in y.on
      /\ \A f \in {"gone", "poisoned"} : f \in y.on => f \in p.x.on
      /\ p.r \in {"ok", "stop"}
      /\ p.r = "ok" => "connected" \notin p.x.on
      /\ quiet => p.r = "ok"
  BY CmsisClosePort
<1>3. CASE p.r = "stop"
  <2>1. e.x = p.x /\ e.r = "error" BY <1>1, <1>3 DEF C!Res, C!Result
  <2>2. "device" \in p.x.on
    <3>1. CASE "connected" \in y.on BY <1>2, <3>1 DEF CmsisFit
    <3>2. CASE "connected" \notin y.on BY <1>3, <3>2 DEF C!closeTargetPort, C!Is, C!Res, C!Result
    <3> QED BY <3>1, <3>2
  <2> QED BY <1>2, <1>3, <2>1, <2>2
<1>4. CASE p.r = "ok"
  <2> HIDE DEF released
  <2>1. PICK k \in C!CloseClaim(p.x, quiet) : e \in IF k.r = "stop" THEN {C!Res(k.x, "error")} ELSE released(k)
    BY <1>1, <1>4
  <2>2. /\ C!Clear(p.x, {"claim", "iface"}) \in C!Sessions
        /\ C!Clear(p.x, {"claim", "iface"}).on = p.x.on \ {"claim", "iface"}
        /\ C!Clear(p.x, {"claim", "iface"}).unread = p.x.unread
    BY <1>2, CmsisFlags DEF CmsisFit, C!Flags
  <2>3. /\ k.x \in C!Sessions /\ k.x.unread = p.x.unread
        /\ \/ k.r \in {"ok", "error"} /\ k.x.on = p.x.on \ {"claim", "iface"}
           \/ k.r = "stop" /\ k.x = p.x /\ "claim" \in p.x.on /\ ~quiet
        /\ quiet \/ "claim" \notin p.x.on => k.r = "ok"
    <3>1. CASE "claim" \notin p.x.on BY <1>2, <3>1 DEF C!CloseClaim, C!Is, C!Res, C!Result, CmsisFit
    <3>2. CASE "claim" \in p.x.on BY <1>2, <2>2, <3>2 DEF C!CloseClaim, C!Is, C!Res, C!Result, C!Faults, CmsisFit
    <3> QED BY <3>1, <3>2
  <2>4. CmsisFit(k.x) /\ (CmsisDrained(y) => CmsisDrained(k.x)) BY <1>2, <1>4, <2>3 DEF CmsisFit, CmsisDrained
  <2>5. CASE k.r = "stop"
    <3>1. e.x = k.x /\ e.r = "error" BY <2>1, <2>5 DEF C!Res, C!Result
    <3> QED BY <1>2, <2>3, <2>4, <2>5, <3>1 DEF CmsisFit
  <2>6. CASE k.r # "stop"
    <3>1. PICK d \in C!CloseDevice(k.x, quiet) :
            e = IF d.r = "stop" THEN C!Res(d.x, "error")
                ELSE C!Res(C!Clear(d.x, {"prefix"}),
                           IF k.r = "ok" /\ d.r = "ok" /\ ~C!Is(k.x, "prefix") THEN "ok" ELSE "error")
      BY <2>1, <2>6 DEF released
    <3>2. /\ C!Clear(k.x, {"device", "file"}) \in C!Sessions
          /\ C!Clear(k.x, {"device", "file"}).on = k.x.on \ {"device", "file"}
          /\ C!Clear(k.x, {"device", "file"}).unread = k.x.unread
      BY <2>3, CmsisFlags DEF C!Flags
    <3>3. /\ d.x \in C!Sessions /\ d.x.unread = k.x.unread
          /\ \/ d.r \in {"ok", "error"} /\ d.x.on = k.x.on \ {"device", "file"}
             \/ d.r = "stop" /\ d.x = k.x /\ "device" \in k.x.on /\ ~quiet
          /\ quiet \/ "device" \notin k.x.on => d.r = "ok"
      <4>1. CASE "device" \notin k.x.on BY <2>4, <4>1 DEF C!CloseDevice, C!Is, C!Res, C!Result, CmsisFit
      <4>2. CASE "device" \in k.x.on BY <2>4, <3>2, <4>2 DEF C!CloseDevice, C!Is, C!Res, C!Result, C!Faults, CmsisFit
      <4> QED BY <4>1, <4>2
    <3>4. CASE d.r = "stop"
      <4>1. e.x = k.x /\ e.r = "error" BY ZenonT(30), <3>1, <3>3, <3>4 DEF C!Res, C!Result
      <4> QED BY <1>2, <2>3, <2>4, <3>3, <3>4, <4>1
    <3>5. CASE d.r # "stop"
      <4>1. /\ e.x = C!Clear(d.x, {"prefix"})
            /\ e.r = IF k.r = "ok" /\ d.r = "ok" /\ "prefix" \notin k.x.on THEN "ok" ELSE "error"
        BY <3>1, <3>5 DEF C!Res, C!Result, C!Is
      <4>2. e.x \in C!Sessions /\ e.x.on = d.x.on \ {"prefix"} /\ e.x.unread = d.x.unread
        BY <3>3, <4>1, CmsisFlags DEF C!Flags
      <4>3. e.x.on = k.x.on \ {"device", "file", "prefix"} BY <3>3, <3>5, <4>2
      <4>4. CmsisFit(e.x) /\ (CmsisDrained(y) => CmsisDrained(e.x))
        BY ZenonT(30), <1>2, <1>4, <2>3, <2>4, <2>6, <3>3, <4>2, <4>3 DEF CmsisFit, CmsisDrained
      <4>5. "port" \in k.x.on /\ "device" \in k.x.on => "prefix" \in k.x.on
        BY ZenonT(30), <1>2, <1>4, <2>3, <2>4, <2>6 DEF CmsisFit
      <4>6. \A f \in {"gone", "poisoned"} : f \in y.on => f \in e.x.on BY <1>2, <2>3, <4>3
      <4>7. "device" \in y.on <=> "device" \in k.x.on BY <1>2, <2>3
      <4>8. "device" \notin y.on => e.r = "ok"
        BY ZenonT(30), <1>2, <1>4, <2>3, <2>4, <2>6, <3>3, <4>1, <4>7 DEF CmsisFit
      <4> QED BY <4>1, <4>3, <4>4, <4>5, <4>6, <4>7, <4>8
    <3> QED BY <3>4, <3>5
  <2> QED BY <2>5, <2>6
<1> QED BY <1>2, <1>3, <1>4

\* An exchange that does not touch the port keeps the session fit.
LEMMA CmsisExchangeFit ==
  ASSUME NEW y, CmsisFit(y), CmsisDrained(y), NEW command, command \notin {"connect", "disconnect"},
         NEW quiet \in BOOLEAN, NEW e \in C!Exchange(y, command, quiet)
  PROVE  CmsisFit(e.x) /\ CmsisSame(y, e.x) /\ CmsisDrained(e.x)
<1>1. y \in C!Sessions /\ (C!transportReady(y) => y.unread = 0) BY DEF CmsisFit, CmsisDrained, C!transportReady, C!Is
<1>2. /\ CmsisSame(y, e.x)
      /\ \A f \in {"connected", "configured", "port"} : f \in e.x.on <=> f \in y.on
      /\ "poisoned" \notin e.x.on => e.x.unread = y.unread
  BY <1>1, CmsisExchange
<1> QED BY <1>2 DEF CmsisFit, CmsisSame, CmsisLasting, CmsisDrained

\* A successful synchronizeInput leaves no packet unread.
LEMMA CmsisSynchronize ==
  ASSUME NEW y, CmsisFit(y), "connected" \notin y.on, NEW e \in C!synchronizeInput(y)
  PROVE  CmsisFit(e.x) /\ CmsisSame(y, e.x) /\ e.r \in {"quiet", "error"} /\ (e.r = "quiet" => e.x.unread = 0)
<1>1. ASSUME NEW n \in 0..y.unread
      PROVE /\ C!Drained(y, n) \in C!Sessions /\ C!Drained(y, n).on = y.on
            /\ C!Drained(y, n).unread = y.unread - n
  BY CmsisAssumption DEF C!Drained, C!Sessions, CmsisFit
<1>2. y.unread \in 0..y.unread BY CmsisAssumption DEF C!Sessions, CmsisFit
<1>3. CASE e = C!Res(C!Drained(y, y.unread), "quiet")
  <2>1. e.x.on = y.on /\ e.x \in C!Sessions /\ e.x.unread = 0 /\ e.r = "quiet"
    <3>1. y.unread - y.unread = 0 BY <1>2
    <3> QED BY <1>1, <1>2, <1>3, <3>1 DEF C!Res, C!Result
  <2> QED BY <2>1 DEF CmsisFit, CmsisSame
<1>4. CASE e # C!Res(C!Drained(y, y.unread), "quiet")
  <2>1. PICK n \in 0..y.unread : \E z \in C!Losses(C!Drained(y, n)) : e = C!Res(z, "error")
    BY <1>4 DEF C!synchronizeInput
  <2>2. PICK z \in C!Losses(C!Drained(y, n)) : e = C!Res(z, "error") BY <2>1
  <2>3. C!Set(C!Drained(y, n), {"gone"}) \in C!Sessions /\ C!Set(C!Drained(y, n), {"gone"}).on = y.on \cup {"gone"}
    BY <1>1, CmsisFlags DEF C!Flags
  <2>4. e.x \in C!Sessions /\ e.x.on \in {y.on, y.on \cup {"gone"}} /\ e.r = "error"
    BY <1>1, <2>2, <2>3 DEF C!Losses, C!Res, C!Result
  <2> QED BY <2>4 DEF CmsisFit, CmsisSame, CmsisLasting
<1> QED BY <1>3, <1>4

\* closeAfterOpenFailure leaves a session that can be closed again.
LEMMA CmsisOpenFailure ==
  ASSUME NEW y, CmsisFit(y), NEW e \in C!closeAfterOpenFailure(y)
  PROVE  CmsisFit(e.x)
<1>1. CASE C!Is(y, "connected") /\ C!RestorationPossible(y)
  <2>1. PICK a \in C!disconnect(y, FALSE) :
          e \in IF a.r # "ok" /\ C!RestorationPossible(a.x) THEN {a} ELSE C!Close(a.x, FALSE)
    BY Zenon, <1>1 DEF C!closeAfterOpenFailure
  <2>2. CmsisFit(a.x) BY Zenon, <1>1, CmsisDisconnect DEF C!Is
  <2>3. CASE e = a BY <2>2, <2>3
  <2>4. CASE e \in C!Close(a.x, FALSE) BY Zenon, <2>2, <2>4, CmsisClose
  <2> QED BY Zenon, <2>1, <2>3, <2>4
<1>2. CASE ~(C!Is(y, "connected") /\ C!RestorationPossible(y))
  <2>1. e \in C!Close(y, FALSE) BY Zenon, <1>2 DEF C!closeAfterOpenFailure
  <2> QED BY Zenon, <2>1, CmsisClose
<1> QED BY <1>1, <1>2

\* A device that no session has: it may still be open.
CmsisLoose(y) == y \in C!Sessions /\ y.on \cap (C!Flags \ {"file", "poisoned", "gone", "port", "torn"}) = {}

\* Open returns a drained session, a session that is only retained for cleanup, or
\* nothing; then the file is the caller's again or closed.
LEMMA CmsisOpen ==
  ASSUME NEW y \in C!Attached, NEW swd \in BOOLEAN, NEW e \in C!Open(y, swd)
  PROVE  /\ e.r \in {"ok", "error", "none"}
         /\ e.r = "ok" => CmsisFit(e.x) /\ CmsisDrained(e.x) /\ "device" \in e.x.on
         /\ e.r = "error" => CmsisFit(e.x) /\ "device" \in e.x.on
         /\ e.r = "none" => CmsisLoose(e.x) /\ ("file" \in e.x.on => e.x \in C!Attached)
<1> DEFINE fresh    == C!Set(y, {"device"})
           claimed  == C!Set(fresh, {"claim", "iface"})
           synced   == {C!Res(claimed, "error")} \cup C!synchronizeInput(claimed)
           known    == UNION {IF a.r = "quiet" THEN C!readInfo(a.x) ELSE {a} : a \in synced}
           finished == UNION {IF b.r = "ok" /\ swd THEN C!ConfigureSWD(b.x, FALSE) ELSE {b} : b \in known}
           failures == {fresh} \cup {b.x : b \in finished}
           settled  == UNION {C!closeAfterOpenFailure(z) : z \in failures}
<1>1. \/ e \in finished /\ e.r = "ok"
      \/ \E s \in settled : e = C!Res(s.x, IF C!CleanupPending(s.x) THEN "error" ELSE "none")
      \/ \E s \in C!CloseDevice(fresh, FALSE) : e = C!Res(C!Clear(s.x, {"device"}), "none")
  BY Zenon DEF C!Open
<1>2. y \in C!Sessions /\ y.on = {"file"} /\ y.unread \in 0..MaxUnread
  BY CmsisAssumption DEF C!Attached, C!Sessions, C!Flags
<1>3. fresh \in C!Sessions /\ fresh.on = {"file", "device"} /\ fresh.unread = y.unread
  BY <1>2, CmsisFlags DEF C!Flags
<1> HIDE DEF fresh
<1>4. claimed \in C!Sessions /\ claimed.on = {"file", "device", "claim", "iface"}
  BY <1>3, CmsisFlags DEF C!Flags
<1> HIDE DEF claimed
<1>5. CmsisFit(fresh) /\ CmsisFit(claimed) BY <1>3, <1>4 DEF CmsisFit
<1>6. ASSUME NEW a \in synced
      PROVE  /\ CmsisFit(a.x) /\ CmsisSame(claimed, a.x) /\ a.r \in {"quiet", "error"}
             /\ a.r = "quiet" => CmsisDrained(a.x)
  <2>1. CASE a = C!Res(claimed, "error") BY <1>4, <1>5, <2>1 DEF C!Res, C!Result, CmsisSame
  <2>2. CASE a \in C!synchronizeInput(claimed) BY <1>4, <1>5, <2>2, CmsisSynchronize DEF CmsisDrained
  <2> QED BY <2>1, <2>2
<1> HIDE DEF synced
<1>7. ASSUME NEW b \in known
      PROVE  CmsisFit(b.x) /\ CmsisSame(claimed, b.x) /\ (b.r = "ok" => CmsisDrained(b.x))
  <2>1. PICK a \in synced : b \in IF a.r = "quiet" THEN C!readInfo(a.x) ELSE {a} OBVIOUS
  <2>2. CASE a.r = "quiet"
    <3>1. b \in C!Exchange(a.x, "info", FALSE) BY Zenon, <2>1, <2>2 DEF C!readInfo
    <3>2. CmsisFit(b.x) /\ CmsisSame(a.x, b.x) /\ CmsisDrained(b.x) BY Zenon, <1>6, <2>2, <3>1, CmsisExchangeFit
    <3> QED BY <1>6, <3>2, CmsisSameTransitive
  <2>3. CASE a.r # "quiet" BY <1>6, <2>1, <2>3
  <2> QED BY <2>2, <2>3
<1> HIDE DEF known
<1>8. ASSUME NEW b \in finished
      PROVE  CmsisFit(b.x) /\ CmsisSame(claimed, b.x) /\ (b.r = "ok" => CmsisDrained(b.x))
  <2>1. PICK a \in known : b \in IF a.r = "ok" /\ swd THEN C!ConfigureSWD(a.x, FALSE) ELSE {a} BY Zenon
  <2>2. CASE a.r = "ok" /\ swd
    <3>1. CmsisFit(b.x) /\ CmsisSame(a.x, b.x) /\ CmsisDrained(b.x) BY Zenon, <1>7, <2>1, <2>2, CmsisConfigure
    <3> QED BY <1>7, <3>1, CmsisSameTransitive
  <2>3. CASE ~(a.r = "ok" /\ swd) BY Zenon, <1>7, <2>1, <2>3
  <2> QED BY <2>2, <2>3
<1> HIDE DEF finished
<1>9. CASE e \in finished /\ e.r = "ok" BY <1>4, <1>8, <1>9 DEF CmsisSame, CmsisLasting
<1>10. ASSUME NEW s \in settled, e = C!Res(s.x, IF C!CleanupPending(s.x) THEN "error" ELSE "none")
       PROVE  /\ e.r \in {"error", "none"}
              /\ e.r = "error" => CmsisFit(e.x) /\ "device" \in e.x.on
              /\ e.r = "none" => CmsisLoose(e.x) /\ "file" \notin e.x.on
  <2>1. PICK z \in failures : s \in C!closeAfterOpenFailure(z) OBVIOUS
  <2>2. CmsisFit(z) BY <1>5, <1>8
  <2>3. CmsisFit(s.x) BY <2>1, <2>2, CmsisOpenFailure
  <2>4. e.x = s.x /\ e.r = IF C!CleanupPending(s.x) THEN "error" ELSE "none" BY <1>10 DEF C!Res, C!Result
  <2>5. C!CleanupPending(s.x) => "device" \in s.x.on BY <2>3 DEF C!CleanupPending, C!Is, CmsisFit
  <2>6. ~C!CleanupPending(s.x) => CmsisLoose(s.x) /\ "file" \notin s.x.on
    BY <2>3 DEF C!CleanupPending, C!Is, CmsisFit, CmsisLoose, C!Flags
  <2> QED BY <2>3, <2>4, <2>5, <2>6
<1> HIDE DEF settled
<1>11. ASSUME NEW s \in C!CloseDevice(fresh, FALSE), e = C!Res(C!Clear(s.x, {"device"}), "none")
       PROVE  e.r = "none" /\ CmsisLoose(e.x) /\ ("file" \in e.x.on => e.x \in C!Attached)
  <2>1. /\ C!Clear(fresh, {"device", "file"}) \in C!Sessions
        /\ C!Clear(fresh, {"device", "file"}).on = {}
    BY <1>3, CmsisFlags DEF C!Flags
  <2>2. s.x \in C!Sessions /\ (s.x = fresh \/ s.x.on = {})
    BY <1>3, <2>1 DEF C!CloseDevice, C!Res, C!Result, C!Faults
  <2>3. /\ e.x \in C!Sessions /\ e.r = "none" /\ e.x.on = s.x.on \ {"device"} /\ e.x.unread = s.x.unread
    BY <1>11, <2>2, CmsisFlags DEF C!Flags, C!Res, C!Result
  <2>4. CmsisLoose(e.x) BY <1>3, <2>2, <2>3 DEF CmsisLoose, C!Flags
  <2>5. ASSUME "file" \in e.x.on PROVE e.x \in C!Attached
    <3>1. e.x.on = {"file"} /\ e.x.unread = y.unread BY <1>3, <2>2, <2>3, <2>5
    <3>2. e.x = [on |-> {"file"}, unread |-> y.unread] BY Zenon, <2>3, <3>1 DEF C!Sessions
    <3> QED BY <1>2, <3>2 DEF C!Attached
  <2> QED BY <2>3, <2>4, <2>5
<1> QED BY Zenon, <1>1, <1>9, <1>10, <1>11

\* What CleanupPending and RestorationPossible answer for the session.
CmsisPending == C!Owned /\ C!CleanupPending(x)
CmsisAble == C!Owned /\ C!RestorationPossible(x)

\* The inductive invariant of a CMSIS-DAP session and its owner.
CmsisInv ==
  /\ held \in {"nobody", "caller", "session", "leftover"}
  /\ outcome \in {"none", "nil", "error"}
  /\ C!Owned => CmsisFit(x)
  /\ held = "session" => CmsisDrained(x)
  /\ ~C!Owned => CmsisLoose(x)
  /\ held = "nobody" => "file" \notin x.on
  /\ held = "caller" /\ "file" \in x.on => x \in C!Attached
  /\ C!Owned /\ outcome = "nil" => "device" \notin x.on

\* The invariant holds before anything is opened.
LEMMA CmsisStarts == C!Init => CmsisInv /\ ~CmsisPending /\ ~CmsisAble /\ outcome = "none"
<1> SUFFICES ASSUME C!Init PROVE CmsisInv /\ ~C!Owned
  BY DEF CmsisPending, CmsisAble, C!Init
<1>1. ~C!Owned BY DEF C!Init, C!Owned
<1>2. CmsisLoose(x) BY CmsisAssumption DEF C!Init, C!Attached, C!Sessions, C!Flags, CmsisLoose
<1> QED BY <1>1, <1>2 DEF C!Init, CmsisInv

\* CleanupPending and RestorationPossible in terms of the flags of a session.
LEMMA CmsisSessionPending ==
  ASSUME NEW y, CmsisFit(y)
  PROVE  /\ C!CleanupPending(y) <=> "device" \in y.on
         /\ C!RestorationPossible(y) <=> "device" \in y.on /\ "gone" \notin y.on /\ "poisoned" \notin y.on
BY DEF CmsisFit, C!CleanupPending, C!RestorationPossible, C!Is

\* A call that keeps the session fit keeps the invariant and the contract.
LEMMA CmsisUse ==
  ASSUME CmsisInv, held = "session", UNCHANGED <<held, outcome>>,
         CmsisFit(x'), CmsisSame(x, x'), CmsisDrained(x')
  PROVE  /\ CmsisInv' /\ Keeps(CmsisPending, CmsisAble, outcome, CmsisPending', CmsisAble', outcome')
         /\ CmsisPending /\ outcome' = "nil" => "port" \notin x'.on
<1>1. CmsisFit(x) /\ C!Owned /\ C!Owned' BY DEF CmsisInv, C!Owned
<1>2. /\ "device" \in x'.on <=> "device" \in x.on
      /\ "gone" \in x.on => "gone" \in x'.on
      /\ "poisoned" \in x.on => "poisoned" \in x'.on
  BY DEF CmsisSame, CmsisLasting
<1>3. /\ CmsisPending <=> "device" \in x.on
      /\ CmsisAble <=> "device" \in x.on /\ "gone" \notin x.on /\ "poisoned" \notin x.on
  BY <1>1, CmsisSessionPending DEF CmsisPending, CmsisAble
<1>4. /\ CmsisPending' <=> "device" \in x'.on
      /\ CmsisAble' <=> "device" \in x'.on /\ "gone" \notin x'.on /\ "poisoned" \notin x'.on
  BY <1>1, CmsisSessionPending DEF CmsisPending, CmsisAble
<1>5. CmsisInv' BY <1>1, <1>2 DEF CmsisInv
<1>6. Keeps(CmsisPending, CmsisAble, outcome, CmsisPending', CmsisAble', outcome')
  BY <1>2, <1>3, <1>4 DEF Keeps
<1> QED BY <1>1, <1>3, <1>5, <1>6 DEF CmsisInv

\* Every step of the owner keeps the invariant and the contract, and a Close that
\* returns nil has disconnected the port.
LEMMA CmsisSteps ==
  ASSUME CmsisInv, C!Next
  PROVE  /\ CmsisInv' /\ Keeps(CmsisPending, CmsisAble, outcome, CmsisPending', CmsisAble', outcome')
         /\ CmsisPending /\ outcome' = "nil" => "port" \notin x'.on
<1>1. CASE C!OpenSession
  <2>1. /\ held = "caller" /\ x \in C!Attached /\ outcome' = "none" /\ ~C!Owned
    BY <1>1 DEF C!OpenSession, CmsisInv, C!Owned, C!Is
  <2>2. PICK swd \in BOOLEAN : \E e \in C!Open(x, swd) :
          /\ x' = e.x
          /\ held' = CASE e.r = "none" -> "caller" [] e.r = "ok" -> "session" [] OTHER -> "leftover"
    BY <1>1 DEF C!OpenSession
  <2>3. PICK e \in C!Open(x, swd) :
          /\ x' = e.x
          /\ held' = CASE e.r = "none" -> "caller" [] e.r = "ok" -> "session" [] OTHER -> "leftover"
    BY <2>2
  <2>4. /\ e.r \in {"ok", "error", "none"}
        /\ e.r = "ok" => CmsisFit(e.x) /\ CmsisDrained(e.x) /\ "device" \in e.x.on
        /\ e.r = "error" => CmsisFit(e.x) /\ "device" \in e.x.on
        /\ e.r = "none" => CmsisLoose(e.x) /\ ("file" \in e.x.on => e.x \in C!Attached)
    BY <2>1, CmsisOpen
  <2>5. ~CmsisPending /\ ~CmsisAble BY <2>1 DEF CmsisPending, CmsisAble
  <2>6. CASE e.r = "none"
    <3>1. held' = "caller" /\ ~C!Owned' BY <2>3, <2>6 DEF C!Owned
    <3>2. CmsisInv' BY <2>1, <2>3, <2>4, <2>6, <3>1 DEF CmsisInv
    <3>3. ~CmsisPending' /\ ~CmsisAble' BY <3>1 DEF CmsisPending, CmsisAble
    <3> QED BY <2>1, <2>5, <3>2, <3>3 DEF Keeps
  <2>7. CASE e.r # "none"
    <3>1. held' = (IF e.r = "ok" THEN "session" ELSE "leftover") /\ C!Owned' BY <2>3, <2>7 DEF C!Owned
    <3>2. CmsisFit(x') /\ "device" \in x'.on /\ (held' = "session" => CmsisDrained(x')) BY <2>3, <2>4, <2>7, <3>1
    <3>3. CmsisInv' BY <2>1, <3>1, <3>2 DEF CmsisInv
    <3>4. CmsisPending' BY <3>1, <3>2, CmsisSessionPending DEF CmsisPending
    <3> QED BY <2>1, <2>5, <3>3, <3>4 DEF Keeps
  <2> QED BY <2>6, <2>7
<1>2. CASE C!CloseAttachment
  <2>1. /\ ~C!Owned /\ ~C!Owned' /\ CmsisLoose(x) /\ held' = "nobody" /\ outcome' = outcome
        /\ x' = C!Clear(x, {"file"})
    BY <1>2 DEF C!CloseAttachment, CmsisInv, C!Owned
  <2>2. x' \in C!Sessions /\ x'.on = x.on \ {"file"} BY <2>1, CmsisFlags DEF CmsisLoose, C!Flags
  <2>3. CmsisLoose(x') BY <2>1, <2>2 DEF CmsisLoose
  <2>4. CmsisInv' BY <2>1, <2>2, <2>3 DEF CmsisInv
  <2>5. ~CmsisPending /\ ~CmsisAble /\ ~CmsisPending' /\ ~CmsisAble' BY <2>1 DEF CmsisPending, CmsisAble
  <2> QED BY <2>1, <2>4, <2>5 DEF Keeps
<1>3. CASE C!Attach
  <2>1. /\ ~C!Owned' /\ x' \in C!Attached /\ held' = "caller" /\ outcome' = "none"
        /\ ~CmsisPending
    BY <1>3 DEF C!Attach, C!Owned, CmsisPending
  <2>2. ~CmsisAble
    <3>1. C!Owned => CmsisFit(x) BY DEF CmsisInv
    <3> QED BY <2>1, <3>1, CmsisSessionPending DEF CmsisAble, CmsisPending
  <2>3. CmsisLoose(x') BY <2>1, CmsisAssumption DEF C!Attached, C!Sessions, C!Flags, CmsisLoose
  <2>4. CmsisInv' BY <2>1, <2>3 DEF CmsisInv
  <2>5. ~CmsisPending' /\ ~CmsisAble' BY <2>1 DEF CmsisPending, CmsisAble
  <2> QED BY <2>1, <2>2, <2>4, <2>5 DEF Keeps
<1>4. CASE C!Configure
  <2>1. held = "session" /\ UNCHANGED <<held, outcome>> BY <1>4 DEF C!Configure, C!Call
  <2>2. PICK e \in C!ConfigureSWD(x, FALSE) : x' = e.x BY Zenon, <1>4 DEF C!Configure, C!Call
  <2>3. CmsisFit(x) /\ CmsisDrained(x) BY <2>1 DEF CmsisInv, C!Owned
  <2>4. CmsisFit(x') /\ CmsisSame(x, x') /\ CmsisDrained(x') BY Zenon, <2>2, <2>3, CmsisConfigure
  <2> QED BY <2>1, <2>4, CmsisUse
<1>5. CASE C!Stream
  <2>1. PICK n \in 1..MaxPackets : C!Call(C!SWDIO(x, n, FALSE)) BY Zenon, <1>5 DEF C!Stream
  <2>2. held = "session" /\ UNCHANGED <<held, outcome>> BY <2>1 DEF C!Call
  <2>3. PICK e \in C!SWDIO(x, n, FALSE) : x' = e.x BY Zenon, <2>1 DEF C!Call
  <2>4. CmsisFit(x) /\ CmsisDrained(x) BY <2>2 DEF CmsisInv, C!Owned
  <2>5. n \in Nat BY CmsisAssumption
  <2>6. CmsisFit(x') /\ CmsisSame(x, x') /\ CmsisDrained(x') BY Zenon, <2>3, <2>4, <2>5, CmsisSequence
  <2> QED BY <2>2, <2>6, CmsisUse
<1>6. CASE C!Single
  <2>1. held = "session" /\ UNCHANGED <<held, outcome>> BY <1>6 DEF C!Single, C!Call
  <2>2. PICK e \in C!Command(x, "single", FALSE) : x' = e.x BY Zenon, <1>6 DEF C!Single, C!Call
  <2>3. CmsisFit(x) /\ CmsisDrained(x) BY <2>1 DEF CmsisInv, C!Owned
  <2>4. CmsisFit(x') /\ CmsisSame(x, x') /\ CmsisDrained(x') BY ZenonT(30), <2>2, <2>3, CmsisCommandFit
  <2> QED BY <2>1, <2>4, CmsisUse
<1>7. CASE C!CloseSession
  <2>1. C!Owned /\ C!Owned' /\ held' = held /\ CmsisFit(x) BY <1>7 DEF C!CloseSession, CmsisInv, C!Owned
  <2>2. PICK e \in C!Close(x, FALSE) : x' = e.x /\ outcome' = IF e.r = "ok" THEN "nil" ELSE "error"
    BY ZenonT(30), <1>7 DEF C!CloseSession
  <2>3. /\ CmsisFit(x') /\ (CmsisDrained(x) => CmsisDrained(x'))
        /\ "device" \in x'.on => "device" \in x.on
        /\ \A f \in {"gone", "poisoned"} : f \in x.on => f \in x'.on
        /\ e.r = "ok" => "device" \notin x'.on
        /\ e.r = "ok" /\ "device" \in x.on => "port" \notin x'.on
        /\ "device" \notin x.on => e.r = "ok"
    <3>1. /\ CmsisFit(e.x) /\ (CmsisDrained(x) => CmsisDrained(e.x))
          /\ "device" \in e.x.on => "device" \in x.on
          /\ \A f \in {"gone", "poisoned"} : f \in x.on => f \in e.x.on
          /\ e.r = "ok" => "device" \notin e.x.on
          /\ e.r = "ok" /\ "device" \in x.on => "port" \notin e.x.on
          /\ "device" \notin x.on => e.r = "ok"
      <4>1. CmsisFit(e.x) /\ (CmsisDrained(x) => CmsisDrained(e.x)) BY Zenon, <2>1, CmsisClose
      <4>2. /\ "device" \in e.x.on => "device" \in x.on
            /\ "gone" \in x.on => "gone" \in e.x.on
            /\ "poisoned" \in x.on => "poisoned" \in e.x.on
         BY Zenon, <2>1, CmsisClose
      <4>3. /\ e.r = "ok" => "device" \notin e.x.on
            /\ e.r = "ok" /\ "device" \in x.on => "port" \notin e.x.on
         BY Zenon, <2>1, CmsisClose
      <4>4. "device" \notin x.on => e.r = "ok"
         BY Zenon, <2>1, CmsisClose
      <4> QED BY <4>1, <4>2, <4>3, <4>4
    <3> QED BY <2>2, <3>1
  <2>4. CmsisInv' BY <2>1, <2>2, <2>3 DEF CmsisInv, C!Owned
  <2>5. /\ CmsisPending <=> "device" \in x.on
        /\ CmsisAble <=> "device" \in x.on /\ "gone" \notin x.on /\ "poisoned" \notin x.on
    BY <2>1, CmsisSessionPending DEF CmsisPending, CmsisAble
  <2>6. /\ CmsisPending' <=> "device" \in x'.on
        /\ CmsisAble' <=> "device" \in x'.on /\ "gone" \notin x'.on /\ "poisoned" \notin x'.on
    BY <2>1, <2>3, CmsisSessionPending DEF CmsisPending, CmsisAble
  <2>7. Keeps(CmsisPending, CmsisAble, outcome, CmsisPending', CmsisAble', outcome')
    BY <2>2, <2>3, <2>5, <2>6 DEF Keeps
  <2> QED BY <2>2, <2>3, <2>4, <2>5, <2>7
<1> QED BY <1>1, <1>2, <1>3, <1>4, <1>5, <1>6, <1>7 DEF C!Next

\* The safety properties follow from the invariant.
LEMMA CmsisSafe ==
  CmsisInv => C!TypeOK /\ C!AnswersMatch /\ C!NothingOrphaned /\ C!PortOwned /\ C!PrefixFinal /\ C!CloseConverges
<1> SUFFICES ASSUME CmsisInv
    PROVE C!TypeOK /\ C!AnswersMatch /\ C!NothingOrphaned /\ C!PortOwned /\ C!PrefixFinal /\ C!CloseConverges
  OBVIOUS
<1>1. C!TypeOK /\ C!AnswersMatch
  BY DEF CmsisInv, CmsisFit, CmsisLoose, C!TypeOK, C!AnswersMatch, C!Owned, C!Is, C!Flags
<1>2. C!NothingOrphaned
  BY DEF CmsisInv, CmsisFit, CmsisLoose, C!NothingOrphaned, C!Owned, C!Is, C!Flags
<1>3. C!PortOwned /\ C!PrefixFinal
  BY DEF CmsisInv, CmsisFit, CmsisLoose, C!PortOwned, C!PrefixFinal, C!transportReady, C!Owned, C!Is, C!Flags
<1>4. C!CloseConverges
  <2> SUFFICES ASSUME C!Owned, NEW e \in C!Close(x, TRUE) PROVE ~C!CleanupPending(e.x) BY Zenon DEF C!CloseConverges
  <2>1. CmsisFit(x) BY DEF CmsisInv
  <2>2. CmsisFit(e.x) /\ "device" \notin e.x.on BY Zenon, <2>1, CmsisClose
  <2> QED BY <2>2, CmsisSessionPending
<1> QED BY <1>1, <1>2, <1>3, <1>4

-----------------------------------------------------------------------------
\* A connection.

\* A host between the steps of a call: resources in use belong to a session or to
\* the attachment, never to both, and only an owned one has either.
HostLoose(k) ==
  /\ k \in A!Hosts
  /\ k.open => k.backend
  /\ k.backend <=> (k.session \/ k.device)
  /\ ~(k.session /\ k.device)
  /\ k.able => k.session /\ k.open

\* A host between calls: it is owned exactly while its resources are open, and a
\* session is there to serve a lent surface or to be closed.
HostFit(k) ==
  /\ HostLoose(k)
  /\ k.backend => k.open
  /\ k.surface # "none" => k.session /\ ~k.closing
  /\ k.session => k.surface # "none" \/ k.closing

\* What a Conn will still put back in the target is what was changed.
Owed ==
  /\ target = A!Range(c.memories) \cup (IF A!PortPending(c) THEN {"dp"} ELSE {})
  /\ c.memories # <<>> => c.port = "owed"

\* The loss of the target has been decided.
Lost == "abandoned" \in cause \/ told

\* The inductive invariant of a connection: whoever holds the probe, what of it is
\* still owed, and how far Close has come.
ConnInv ==
  /\ A!TypeOK
  /\ HostFit(h)
  /\ h.open => holder # "none" /\ (holder = "conn" => c.probe)
  /\ at # "idle" => holder = "conn"
  /\ at = "entry" => c.port = "idle" /\ c.memories = <<>>
  /\ at \in {"mem", "host"} => c.closing
  /\ at = "host" => c.port = "nil" /\ c.memories = <<>>
  /\ at = "idle" /\ holder = "conn" => c.closing \/ c.port = "owed"
  /\ holder = "conn" /\ c.port # "nil" => h.surface # "none"
  /\ holder # "conn" => c.port = "nil" /\ c.memories = <<>>
  /\ holder = "probe" => target = {} /\ ~Lost
  /\ at \in {"idle", "entry"} /\ "abandoned" \in cause => told
  /\ Lost => ~h.able
  /\ ~Lost => Owed

-----------------------------------------------------------------------------
\* Closing a probe, from the session outwards.

\* SessionClose: a failure keeps the session or was final; nothing is gained.
LEMMA SessionCloses ==
  ASSUME NEW k, HostLoose(k), k.session, NEW quiet \in BOOLEAN, NEW e \in A!SessionClose(k, quiet)
  PROVE  /\ e.err \in BOOLEAN
         /\ \/ e.h = [k EXCEPT !.open = FALSE, !.able = FALSE] /\ (e.err => "cleanup" \in k.reports)
            \/ e.err /\ k.open /\ \E a \in {k.able, FALSE} : e.h = [k EXCEPT !.able = a]
<1> DEFINE closed == [k EXCEPT !.open = FALSE, !.able = FALSE]
<1>1. \/ e = A!Result(closed, FALSE)
      \/ k.open /\ \E a \in {k.able, FALSE} : e = A!Result([k EXCEPT !.able = a], TRUE)
      \/ e = A!Result(closed, TRUE) /\ "cleanup" \in k.reports
  BY Zenon DEF A!SessionClose
<1> HIDE DEF closed
<1>3. CASE e = A!Result(closed, FALSE) BY <1>3 DEF A!Result, closed
<1>4. CASE k.open /\ \E a \in {k.able, FALSE} : e = A!Result([k EXCEPT !.able = a], TRUE)
  <2>1. PICK a \in {k.able, FALSE} : e = A!Result([k EXCEPT !.able = a], TRUE) BY Zenon, <1>4
  <2> DEFINE g == [k EXCEPT !.able = a]
  <2>2. e.h = g /\ e.err = TRUE
    <3> HIDE DEF g
    <3> QED BY <2>1 DEF A!Result, g
  <2> QED BY Zenon, <1>4, <2>2
<1>5. CASE e = A!Result(closed, TRUE) /\ "cleanup" \in k.reports BY <1>5 DEF A!Result, closed
<1> QED BY Zenon, <1>1, <1>3, <1>4, <1>5

\* The device's Close: what stays open is an error.
LEMMA DeviceCloses ==
  ASSUME NEW k, NEW quiet \in BOOLEAN, NEW e \in A!DeviceClose(k, quiet)
  PROVE  /\ e.err \in BOOLEAN
         /\ e.h = [k EXCEPT !.open = FALSE] \/ (e.err /\ e.h = k /\ k.open)
<1> DEFINE closed == [k EXCEPT !.open = FALSE]
<1>1. \/ \E b \in BOOLEAN : e = A!Result(closed, b)
      \/ k.open /\ e = A!Result(k, TRUE)
  BY Zenon DEF A!DeviceClose
<1> HIDE DEF closed
<1>2. CASE \E b \in BOOLEAN : e = A!Result(closed, b) BY <1>2 DEF A!Result, closed
<1>3. CASE k.open /\ e = A!Result(k, TRUE) BY <1>3 DEF A!Result
<1> QED BY Zenon, <1>1, <1>2, <1>3

\* What OwnerClose makes of a host that is closing.
OwnerClosed(k, e) ==
  /\ e.err \in BOOLEAN
  /\ e.h \in A!Hosts
  /\ e.h.backend = k.backend /\ e.h.surface = k.surface /\ e.h.closing = k.closing
  /\ e.h.supports = k.supports /\ e.h.reports = k.reports
  /\ e.h.able => k.able /\ e.h.open /\ e.h.session
  /\ \/ e.err /\ e.h.open /\ k.open /\ e.h.session = k.session /\ e.h.device = k.device
     \/ ~e.h.open /\ ~e.h.session /\ ~e.h.device

\* owner.Close either keeps everything open that it failed to close, or leaves
\* nothing behind.
LEMMA OwnerCloses ==
  ASSUME NEW k, HostLoose(k), k.backend, NEW quiet \in BOOLEAN, NEW e \in A!OwnerClose(k, quiet)
  PROVE  OwnerClosed(k, e)
<1> DEFINE first == IF k.session THEN A!SessionClose(k, quiet) ELSE {A!Result(k, FALSE)}
           stuck == {f \in first : k.session /\ f.err /\ A!SessionPending(f.h)}
           bare(f) == [f.h EXCEPT !.session = FALSE]
           second(f) == IF ~bare(f).device THEN {A!Result(bare(f), f.err)}
                        ELSE {A!Result([d.h EXCEPT !.device = d.err /\ d.h.open], f.err \/ d.err)
                                : d \in A!DeviceClose(bare(f), quiet)}
<1>1. e \in stuck \/ \E f \in first \ stuck : e \in second(f)
  BY Zenon DEF A!OwnerClose
<1>2. CASE e \in stuck
  <2>1. k.session /\ e \in A!SessionClose(k, quiet) /\ e.err /\ A!SessionPending(e.h) BY Zenon, <1>2
  <2> HIDE DEF first, stuck, second
  <2>2. /\ e.err \in BOOLEAN
        /\ \/ e.h = [k EXCEPT !.open = FALSE, !.able = FALSE] /\ (e.err => "cleanup" \in k.reports)
           \/ e.err /\ k.open /\ \E a \in {k.able, FALSE} : e.h = [k EXCEPT !.able = a]
    BY Zenon, <2>1, SessionCloses
  <2>3. k \in A!Hosts BY DEF HostLoose
  <2>4. ~(e.h = [k EXCEPT !.open = FALSE, !.able = FALSE] /\ (e.err => "cleanup" \in k.reports))
    BY Zenon, <2>1, <2>3 DEF A!SessionPending, A!Hosts
  <2> QED BY Zenon, <2>1, <2>2, <2>3, <2>4 DEF OwnerClosed, A!Hosts
<1>3. ASSUME NEW f \in first \ stuck, e \in second(f)
      PROVE  OwnerClosed(k, e)
  <2>1. CASE k.session
    <3>1. f \in A!SessionClose(k, quiet) /\ ~(f.err /\ A!SessionPending(f.h)) BY <1>3, <2>1
    <3>2. /\ f.err \in BOOLEAN
          /\ \/ f.h = [k EXCEPT !.open = FALSE, !.able = FALSE] /\ (f.err => "cleanup" \in k.reports)
             \/ f.err /\ k.open /\ \E a \in {k.able, FALSE} : f.h = [k EXCEPT !.able = a]
      BY Zenon, <2>1, <3>1, SessionCloses
    <3>3. k \in A!Hosts /\ ~k.device BY <2>1 DEF HostLoose
    <3>4. f.h = [k EXCEPT !.open = FALSE, !.able = FALSE]
      BY <3>1, <3>2, <3>3 DEF A!SessionPending, A!Hosts
    <3>5. e = A!Result(bare(f), f.err) BY <1>3, <3>3, <3>4 DEF A!Hosts
    <3> QED BY ZenonT(30), <3>2, <3>3, <3>4, <3>5 DEF OwnerClosed, A!Hosts, A!Result
  <2>2. CASE ~k.session
    <3>1. f = A!Result(k, FALSE) BY <1>3, <2>2
    <3>2. k \in A!Hosts /\ k.device /\ ~k.able BY <2>2 DEF HostLoose
    <3>3. bare(f) = k BY <2>2, <3>1, <3>2 DEF A!Result, A!Hosts
    <3>4. PICK d \in A!DeviceClose(k, quiet) : e = A!Result([d.h EXCEPT !.device = d.err /\ d.h.open], f.err \/ d.err)
      BY Zenon, <1>3, <3>2, <3>3
    <3> HIDE DEF first, stuck, second, bare
    <3>5. d.err \in BOOLEAN /\ (d.h = [k EXCEPT !.open = FALSE] \/ (d.err /\ d.h = k /\ k.open)) BY <3>4, DeviceCloses
    <3>6. e.h = [d.h EXCEPT !.device = d.err /\ d.h.open] /\ e.err = d.err BY <3>1, <3>4, <3>5 DEF A!Result
    <3>7. CASE d.h = [k EXCEPT !.open = FALSE]
      <4>1. d.h \in A!Hosts /\ ~d.h.open /\ ~d.h.session /\ ~d.h.able /\ d.h.backend = k.backend /\ d.h.surface = k.surface
            /\ d.h.closing = k.closing /\ d.h.supports = k.supports /\ d.h.reports = k.reports
        BY Zenon, <2>2, <3>2, <3>7 DEF A!Hosts
      <4>2. e.h = [d.h EXCEPT !.device = FALSE] BY Zenon, <3>5, <3>6, <4>1
      <4> QED BY Zenon, <3>5, <3>6, <4>1, <4>2 DEF OwnerClosed, A!Hosts
    <3>8. CASE d.err /\ d.h = k /\ k.open
      <4>1. e.h = [k EXCEPT !.device = TRUE] BY Zenon, <3>6, <3>8
      <4>2. e.h = k BY <3>2, <4>1 DEF A!Hosts
      <4> QED BY Zenon, <2>2, <3>2, <3>5, <3>6, <3>8, <4>2 DEF OwnerClosed
    <3> QED BY <3>5, <3>7, <3>8
  <2> QED BY <2>1, <2>2
<1> QED BY Zenon, <1>1, <1>2, <1>3

\* Probe.Close leaves a host that is closed, or that is closing and still owned.
LEMMA ProbeCloses ==
  ASSUME NEW k, HostLoose(k), NEW quiet \in BOOLEAN, NEW e \in A!ProbeClose(k, quiet)
  PROVE  /\ HostFit(e.h) /\ e.err \in BOOLEAN /\ e.h.closing /\ e.h.surface = "none"
         /\ e.h.open => k.open
         /\ e.h.able => k.able
<1> DEFINE begun == [k EXCEPT !.closing = TRUE, !.surface = "none"]
<1>1. begun \in A!Hosts /\ HostLoose(begun) BY Zenon DEF HostLoose, A!Hosts
<1>2. CASE ~k.backend
  <2>1. e = A!Result(begun, FALSE) BY <1>2 DEF A!ProbeClose
  <2> QED BY Zenon, <1>1, <1>2, <2>1 DEF A!Result, HostFit, HostLoose, A!Hosts
<1>3. CASE k.backend
  <2>1. PICK o \in A!OwnerClose(begun, quiet) :
          e = A!Result([o.h EXCEPT !.backend = o.err /\ A!CleanupPending(o.h)], o.err)
    BY <1>3 DEF A!ProbeClose
  <2>2. begun.backend /\ begun.open = k.open /\ begun.able = k.able /\ begun.closing /\ begun.surface = "none"
        /\ begun.session = k.session /\ begun.device = k.device
    BY <1>3 DEF HostLoose, A!Hosts
  <2> HIDE DEF begun
  <2>3. OwnerClosed(begun, o) BY <1>1, <2>1, <2>2, OwnerCloses
  <2>4. e.h = [o.h EXCEPT !.backend = o.err /\ A!CleanupPending(o.h)] /\ e.err = o.err BY <2>1 DEF A!Result
  <2>5. A!CleanupPending(o.h) \in BOOLEAN BY DEF A!CleanupPending
  <2>6. o.err /\ o.h.open => A!CleanupPending(o.h)
    BY <1>1, <1>3, <2>2, <2>3 DEF OwnerClosed, A!CleanupPending, A!OwnerPending, A!SessionPending, HostLoose, A!Hosts
  <2>7. ~o.h.open => ~A!CleanupPending(o.h)
    BY <2>3 DEF OwnerClosed, A!CleanupPending, A!OwnerPending, A!Hosts
  <2> QED BY ZenonT(30), <1>1, <1>3, <2>2, <2>3, <2>4, <2>5, <2>6, <2>7 DEF OwnerClosed, HostFit, HostLoose, A!Hosts
<1> QED BY <1>2, <1>3

\* SWD, JTAG and RegisterSWD of a probe: a session that serves a surface, the host
\* as it was, or one that is closing.
LEMMA ProbeActivates ==
  ASSUME NEW k, HostFit(k), NEW protocol \in A!Protocols, NEW quiet \in BOOLEAN, NEW e \in A!ProbeActivate(k, protocol, quiet)
  PROVE  /\ HostFit(e.h) /\ e.err \in BOOLEAN
         /\ e.h.open => k.open
         /\ ~e.err => e.h.surface # "none"
<1> DEFINE none(o) == [h |-> [k EXCEPT !.open = o], err |-> TRUE, surface |-> FALSE]
           kept(o, a, err, surface) ==
             [h |-> [k EXCEPT !.session = TRUE, !.device = FALSE, !.open = o, !.able = a],
              err |-> err, surface |-> surface]
<1>1. CASE e = A!Result(k, TRUE) BY <1>1 DEF A!Result
<1>2. CASE e # A!Result(k, TRUE)
  <2>1. A!CanActivate(k) /\ e \in UNION {IF a.err \/ ~a.surface
              THEN {A!Result(f.h, TRUE) : f \in A!ProbeClose(a.h, quiet)}
              ELSE {A!Result([a.h EXCEPT !.surface = protocol], FALSE)}
              : a \in A!Activations(k, quiet)}
    BY Zenon, <1>2 DEF A!ProbeActivate
  <2>2. PICK a \in A!Activations(k, quiet) :
          e \in IF a.err \/ ~a.surface
                THEN {A!Result(f.h, TRUE) : f \in A!ProbeClose(a.h, quiet)}
                ELSE {A!Result([a.h EXCEPT !.surface = protocol], FALSE)}
    BY Zenon, <2>1
  <2>3. k \in A!Hosts /\ k.backend /\ ~k.closing /\ k.surface = "none" /\ k.device /\ ~k.session /\ k.open
    BY <2>1 DEF A!CanActivate, HostFit, HostLoose
  <2>4. \/ \E o \in BOOLEAN : a = none(o)
        \/ \E y \in BOOLEAN, z \in BOOLEAN : a = kept(TRUE, y, TRUE, z)
        \/ a = kept(FALSE, FALSE, TRUE, TRUE)
        \/ a = kept(TRUE, TRUE, FALSE, FALSE)
        \/ a = kept(TRUE, TRUE, FALSE, TRUE)
    BY Zenon, <2>2, <2>3 DEF A!Activations, A!Hosts
  <2>5. HostLoose(a.h)
    <3>1. ASSUME NEW o \in BOOLEAN, a = none(o) PROVE HostLoose(a.h)
      <4>1. a.h = [k EXCEPT !.open = o] BY <3>1
      <4>2. ~k.able BY <2>3 DEF HostFit, HostLoose
      <4> QED BY <2>3, <4>1, <4>2 DEF HostLoose, A!Hosts
    <3>2. ASSUME NEW o \in BOOLEAN, NEW y \in BOOLEAN, y => o, NEW err, NEW z, a = kept(o, y, err, z) PROVE HostLoose(a.h)
      <4>1. a.h = [k EXCEPT !.session = TRUE, !.device = FALSE, !.open = o, !.able = y] BY <3>2
      <4> QED BY Zenon, <2>3, <3>2, <4>1 DEF HostLoose, A!Hosts
    <3> QED BY Zenon, <2>4, <3>1, <3>2
  <2>6. CASE a.err \/ ~a.surface
    <3>1. PICK f \in A!ProbeClose(a.h, quiet) : e = A!Result(f.h, TRUE) BY Zenon, <2>2, <2>6
    <3>2. HostFit(f.h) BY <2>5, <3>1, ProbeCloses
    <3> QED BY <2>3, <3>1, <3>2 DEF A!Result
  <2>7. CASE ~(a.err \/ ~a.surface)
    <3>1. a = kept(TRUE, TRUE, FALSE, TRUE)
      <4>1. ASSUME NEW o, a = none(o) PROVE FALSE BY <2>7, <4>1
      <4>2. ASSUME NEW o, NEW y, NEW err, NEW z, a = kept(o, y, err, z), err \/ ~z PROVE FALSE BY <2>7, <4>2
      <4> QED BY Zenon, <2>4, <4>1, <4>2
    <3>2. e = A!Result([a.h EXCEPT !.surface = protocol], FALSE) BY <2>2, <2>7
    <3> QED BY Zenon, <2>3, <3>1, <3>2 DEF A!Result, HostFit, HostLoose, A!Hosts, A!Protocols
  <2> QED BY <2>6, <2>7
<1> QED BY Zenon, <1>1, <1>2

-----------------------------------------------------------------------------
\* The MEM-APs a Conn owns: a sequence without repetition.

\* The sequences of access ports without repetitions.
Memories == {s \in Seq(APs) : \A i, j \in DOMAIN s : s[i] = s[j] => i = j}

\* A Conn without MEM-APs.
LEMMA MemoriesNone == <<>> \in Memories /\ A!Range(<<>>) = {}
BY DEF Memories, A!Range

\* OpenMemAP appends an access port that is not owned yet.
LEMMA MemoriesAppend ==
  ASSUME NEW s \in Memories, NEW ap \in APs, ap \notin A!Range(s)
  PROVE  Append(s, ap) \in Memories /\ A!Range(Append(s, ap)) = A!Range(s) \cup {ap} /\ Append(s, ap) # <<>>
<1> DEFINE n == Len(s)
           z == Append(s, ap)
<1>1. s \in Seq(APs) /\ n \in Nat /\ DOMAIN s = 1..n /\ \A i, j \in 1..n : s[i] = s[j] => i = j BY DEF Memories
<1>2. z \in Seq(APs) /\ DOMAIN z = 1..(n + 1) /\ z[n + 1] = ap /\ (\A i \in 1..n : z[i] = s[i]) BY <1>1
<1>3. \A i \in 1..n : s[i] # ap BY <1>1 DEF A!Range
<1> HIDE DEF n, z
<1>4. \A i, j \in 1..(n + 1) : z[i] = z[j] => i = j BY <1>1, <1>2, <1>3
<1>5. A!Range(z) = A!Range(s) \cup {ap}
  <2>1. A!Range(z) = {z[i] : i \in 1..(n + 1)} BY <1>2 DEF A!Range
  <2>2. A!Range(s) = {s[i] : i \in 1..n} BY <1>1 DEF A!Range
  <2>3. 1..(n + 1) = (1..n) \cup {n + 1} BY <1>1
  <2> QED BY <1>2, <2>1, <2>2, <2>3
<1>6. z # <<>> BY <1>1, <1>2
<1> QED BY Zenon, <1>2, <1>4, <1>5, <1>6 DEF Memories, z

\* releaseMemAPs takes the last acquired access port off.
LEMMA MemoriesFront ==
  ASSUME NEW s \in Memories, s # <<>>
  PROVE  /\ SubSeq(s, 1, Len(s) - 1) \in Memories /\ s[Len(s)] \in APs
         /\ A!Range(SubSeq(s, 1, Len(s) - 1)) = A!Range(s) \ {s[Len(s)]}
<1> DEFINE n == Len(s)
           z == SubSeq(s, 1, n - 1)
<1>1. s \in Seq(APs) /\ n \in Nat \ {0} /\ DOMAIN s = 1..n /\ \A i, j \in 1..n : s[i] = s[j] => i = j BY DEF Memories
<1>2. z \in Seq(APs) /\ DOMAIN z = 1..(n - 1) /\ (\A i \in 1..(n - 1) : z[i] = s[i]) /\ s[n] \in APs BY <1>1
<1> HIDE DEF n, z
<1>3. \A i, j \in 1..(n - 1) : z[i] = z[j] => i = j BY <1>1, <1>2
<1>4. A!Range(z) = A!Range(s) \ {s[n]}
  <2>1. A!Range(z) = {z[i] : i \in 1..(n - 1)} BY <1>2 DEF A!Range
  <2>2. A!Range(s) = {s[i] : i \in 1..n} BY <1>1 DEF A!Range
  <2>3. 1..n = (1..(n - 1)) \cup {n} /\ n \notin 1..(n - 1) BY <1>1
  <2>4. \A i \in 1..(n - 1) : s[i] # s[n] BY <1>1
  <2> QED BY <1>2, <2>1, <2>2, <2>3, <2>4
<1> QED BY Zenon, <1>2, <1>3, <1>4 DEF Memories, z, n

\* The fields of a Conn.
LEMMA ConnFields ==
  ASSUME NEW y
  PROVE  y \in A!Conns <=>
           /\ y = [probe |-> y.probe, port |-> y.port, closing |-> y.closing, memories |-> y.memories]
           /\ y.probe \in BOOLEAN /\ y.port \in {"nil", "idle", "owed", "refused"} /\ y.closing \in BOOLEAN
           /\ y.memories \in Memories
BY DEF A!Conns, Memories

-----------------------------------------------------------------------------
\* Every step of ArmConn keeps ConnInv and RestoreFirst.

\* A step keeps the invariant and never closes the probe before the target is
\* restored.
ConnKept == ConnInv' /\ A!RestoreFirst

\* What TypeOK says, with the fields of the Conn.
LEMMA ConnTypes ==
  A!TypeOK <=>
    /\ h \in A!Hosts /\ c \in A!Conns /\ at \in {"idle", "entry", "close", "mem", "host"} /\ setup \in BOOLEAN
    /\ cause \subseteq {"error", "abandoned"} /\ holder \in {"none", "probe", "conn"}
    /\ target \subseteq APs \cup {"dp"} /\ told \in BOOLEAN /\ calm \in BOOLEAN
BY DEF A!TypeOK, A!Errors

\* A host nothing is opened on, and one freshly opened.
LEMMA HostOpens ==
  /\ HostFit(A!NoHost) /\ ~A!NoHost.open /\ ~A!NoHost.able /\ A!NoHost.surface = "none"
  /\ \A supports \in A!Backends, reports \in A!Reports :
       /\ HostFit(A!OpenedHost(supports, reports))
       /\ ~A!OpenedHost(supports, reports).able
<1>1. HostFit(A!NoHost) /\ ~A!NoHost.open /\ ~A!NoHost.able /\ A!NoHost.surface = "none"
  BY DEF HostFit, HostLoose, A!NoHost, A!Hosts, A!Backends, A!Reports
<1>2. ASSUME NEW supports \in A!Backends, NEW reports \in A!Reports
      PROVE  HostFit(A!OpenedHost(supports, reports)) /\ ~A!OpenedHost(supports, reports).able
  BY Zenon DEF HostFit, HostLoose, A!NoHost, A!OpenedHost, A!Hosts
<1> QED BY <1>1, <1>2

\* No Conn.
LEMMA ConnNone == A!NoConn \in A!Conns /\ A!NoConn.probe = FALSE /\ A!NoConn.port = "nil"
                  /\ A!NoConn.closing = FALSE /\ A!NoConn.memories = <<>>
BY Zenon, ConnFields, MemoriesNone DEF A!NoConn

\* The invariant holds before a probe is opened.
LEMMA ConnStarts == A!Init => ConnInv
<1> SUFFICES ASSUME A!Init PROVE ConnInv OBVIOUS
<1>1. h = A!NoHost /\ c = A!NoConn /\ at = "idle" /\ setup = FALSE /\ cause = {} /\ holder = "none" /\ target = {}
      /\ told = FALSE /\ calm = FALSE BY DEF A!Init
<1>2. HostFit(h) /\ ~h.open /\ ~h.able /\ h.surface = "none" BY <1>1, HostOpens
<1>3. c \in A!Conns /\ c.probe = FALSE /\ c.port = "nil" /\ c.closing = FALSE /\ c.memories = <<>> BY <1>1, ConnNone
<1>4. A!TypeOK BY Zenon, <1>1, <1>2, <1>3, ConnTypes DEF HostFit, HostLoose
<1>5. Owed BY <1>1, <1>3, MemoriesNone DEF Owed, A!PortPending
<1> QED BY <1>1, <1>2, <1>3, <1>4, <1>5 DEF ConnInv, Lost

\* OpenProbe keeps it.
LEMMA OpenProbeStep == ASSUME ConnInv, NEW supports \in A!Backends, NEW reports \in A!Reports, A!OpenProbe(supports, reports)
                       PROVE ConnKept
<1>1. h' = A!OpenedHost(supports, reports) /\ c' = A!NoConn /\ at' = "idle" /\ setup' = setup /\ cause' = {} /\ holder' = "probe"
      /\ target' = {} /\ told' = FALSE /\ calm' = calm /\ holder = "none"
  BY DEF A!OpenProbe
<1>2. HostFit(h') /\ ~h'.able BY <1>1, HostOpens
<1>3. c' \in A!Conns /\ c'.probe = FALSE /\ c'.port = "nil" /\ c'.closing = FALSE /\ c'.memories = <<>> BY <1>1, ConnNone
<1>4. A!TypeOK'
  <2>1. A!TypeOK BY DEF ConnInv
  <2> QED BY Zenon, <1>1, <1>2, <1>3, <2>1, ConnTypes DEF A!TypeOK, A!Errors, HostFit, HostLoose
<1>5. Owed' BY <1>1, <1>3, MemoriesNone DEF Owed, A!PortPending
<1>6. A!RestoreFirst BY <1>1 DEF ConnInv, A!RestoreFirst
<1> QED BY <1>1, <1>2, <1>3, <1>4, <1>5, <1>6 DEF ConnInv, Lost, ConnKept

\* The use of a probe without a connection keeps it.
LEMMA UseProbeStep == ASSUME ConnInv, A!UseProbe PROVE ConnKept
<1>1. /\ at = "idle" /\ holder = "probe"
      /\ UNCHANGED <<c, at, setup, holder, target, told, calm>>
      /\ \E e \in (UNION {A!ProbeActivate(h, q, calm) : q \in A!Protocols}) \cup A!ProbeClose(h, calm) :
           h' = e.h /\ cause' = IF e.err THEN {"error"} ELSE {}
  BY DEF A!UseProbe
<1>2. HostFit(h) /\ HostLoose(h) /\ calm \in BOOLEAN /\ A!TypeOK /\ target = {} /\ ~Lost /\ Owed
  BY <1>1 DEF ConnInv, A!TypeOK, HostFit
<1>3. HostFit(h') /\ cause' \subseteq {"error"}
  <2>1. PICK e \in (UNION {A!ProbeActivate(h, q, calm) : q \in A!Protocols}) \cup A!ProbeClose(h, calm) :
          h' = e.h /\ cause' = IF e.err THEN {"error"} ELSE {} BY <1>1
  <2>2. HostFit(e.h) BY <1>2, ProbeActivates, ProbeCloses
  <2> QED BY <2>1, <2>2
<1>4. A!TypeOK' BY <1>1, <1>2, <1>3, ConnTypes DEF A!TypeOK, A!Errors, HostFit, HostLoose
<1>5. Owed' /\ ~Lost' BY <1>1, <1>2, <1>3 DEF Owed, Lost, A!PortPending
<1>6. A!RestoreFirst BY <1>2 DEF A!RestoreFirst
<1> QED BY <1>1, <1>2, <1>3, <1>4, <1>5, <1>6 DEF ConnInv, Lost, ConnKept

\* An owner that drops a closed probe keeps it.
LEMMA DropStep == ASSUME ConnInv, A!Drop PROVE ConnKept
<1>1. /\ at = "idle" /\ ((holder = "probe" /\ ~h.backend) \/ (holder = "conn" /\ ~c.probe))
      /\ holder' = "none" /\ h' = A!NoHost /\ c' = A!NoConn /\ cause' = {}
      /\ UNCHANGED <<at, setup, target, told, calm>>
  BY DEF A!Drop
<1>2. HostFit(h') /\ ~h'.able /\ ~h'.open /\ h'.surface = "none" BY <1>1, HostOpens
<1>3. c' \in A!Conns /\ c'.probe = FALSE /\ c'.port = "nil" /\ c'.closing = FALSE /\ c'.memories = <<>> BY <1>1, ConnNone
<1>4. ~h.open BY <1>1 DEF ConnInv, HostFit, HostLoose
<1>5. A!TypeOK'
  <2>1. A!TypeOK BY DEF ConnInv
  <2> QED BY <1>1, <1>2, <1>3, <2>1, ConnTypes DEF A!TypeOK, A!Errors, HostFit, HostLoose
<1>6. ~Lost' => Owed'
  <2>1. SUFFICES ASSUME ~Lost' PROVE target = {} BY Zenon, <1>1, <1>3, MemoriesNone DEF Owed, A!PortPending
  <2>2. ~Lost BY <1>1, <2>1 DEF Lost, ConnInv
  <2>3. holder = "conn" => c.port = "nil"
    BY <1>4 DEF ConnInv, HostFit, HostLoose
  <2>4. c.port = "nil" /\ c.memories = <<>> BY <1>1, <2>2, <2>3 DEF ConnInv, Owed, A!PortPending
  <2> QED BY <2>2, <2>4, MemoriesNone DEF ConnInv, Owed, A!PortPending
<1>7. A!RestoreFirst BY <1>4 DEF A!RestoreFirst
<1> QED BY <1>1, <1>2, <1>3, <1>5, <1>6, <1>7 DEF ConnInv, Lost, ConnKept

\* What a change of the MEM-APs makes of a Conn.
LEMMA ConnMemories ==
  ASSUME NEW y \in A!Conns, NEW m \in Memories, NEW d, d = [y EXCEPT !.memories = m]
  PROVE  d \in A!Conns /\ d.probe = y.probe /\ d.port = y.port /\ d.closing = y.closing /\ d.memories = m
<1>1. y = [probe |-> y.probe, port |-> y.port, closing |-> y.closing, memories |-> y.memories]
      /\ y.probe \in BOOLEAN /\ y.port \in {"nil", "idle", "owed", "refused"} /\ y.closing \in BOOLEAN
  BY ConnFields
<1>2. A!Conns = [probe : BOOLEAN, port : {"nil", "idle", "owed", "refused"}, closing : BOOLEAN, memories : Memories]
  BY Zenon DEF A!Conns, Memories
<1> QED BY <1>1, <1>2

\* A change of its port, and of its hold on the probe.
LEMMA ConnPort ==
  ASSUME NEW y \in A!Conns, NEW q \in {"nil", "idle", "owed", "refused"}, NEW d, d = [y EXCEPT !.port = q]
  PROVE  d \in A!Conns /\ d.probe = y.probe /\ d.port = q /\ d.closing = y.closing /\ d.memories = y.memories
<1>1. y = [probe |-> y.probe, port |-> y.port, closing |-> y.closing, memories |-> y.memories]
      /\ y.probe \in BOOLEAN /\ y.port \in {"nil", "idle", "owed", "refused"} /\ y.closing \in BOOLEAN
      /\ y.memories \in Memories
  BY ConnFields
<1>2. A!Conns = [probe : BOOLEAN, port : {"nil", "idle", "owed", "refused"}, closing : BOOLEAN, memories : Memories]
  BY Zenon DEF A!Conns, Memories
<1> QED BY <1>1, <1>2

\* The same, of every connection and port.
LEMMA ConnPortChange ==
  \A y \in A!Conns, q \in {"nil", "idle", "owed", "refused"} :
    LET d == [y EXCEPT !.port = q]
    IN d \in A!Conns /\ d.probe = y.probe /\ d.port = q /\ d.closing = y.closing /\ d.memories = y.memories
<1> TAKE y \in A!Conns, q \in {"nil", "idle", "owed", "refused"}
<1> DEFINE d == [y EXCEPT !.port = q]
<1> QED BY ConnPort

\* Whether a connection holds its probe is told apart from what it owes.
LEMMA ConnProbe ==
  ASSUME NEW y \in A!Conns, NEW b \in BOOLEAN, NEW d, d = [y EXCEPT !.probe = b]
  PROVE  d \in A!Conns /\ d.probe = b /\ d.port = y.port /\ d.closing = y.closing /\ d.memories = y.memories
<1>1. y = [probe |-> y.probe, port |-> y.port, closing |-> y.closing, memories |-> y.memories]
      /\ y.probe \in BOOLEAN /\ y.port \in {"nil", "idle", "owed", "refused"} /\ y.closing \in BOOLEAN
      /\ y.memories \in Memories
  BY ConnFields
<1>2. A!Conns = [probe : BOOLEAN, port : {"nil", "idle", "owed", "refused"}, closing : BOOLEAN, memories : Memories]
  BY Zenon DEF A!Conns, Memories
<1> QED BY <1>1, <1>2

\* The start of its cleanup.
LEMMA ConnClosing ==
  ASSUME NEW y \in A!Conns, NEW d, d = [y EXCEPT !.closing = TRUE]
  PROVE  d \in A!Conns /\ d.probe = y.probe /\ d.port = y.port /\ d.closing = TRUE /\ d.memories = y.memories
<1>1. y = [probe |-> y.probe, port |-> y.port, closing |-> y.closing, memories |-> y.memories]
      /\ y.probe \in BOOLEAN /\ y.port \in {"nil", "idle", "owed", "refused"} /\ y.closing \in BOOLEAN
      /\ y.memories \in Memories
  BY ConnFields
<1>2. A!Conns = [probe : BOOLEAN, port : {"nil", "idle", "owed", "refused"}, closing : BOOLEAN, memories : Memories]
  BY Zenon DEF A!Conns, Memories
<1> QED BY Zenon, <1>1, <1>2

\* Connect keeps it.
LEMMA ConnectStep == ASSUME ConnInv, NEW jtag \in BOOLEAN, A!Connect(jtag) PROVE ConnKept
<1>1. /\ at = "idle" /\ holder = "probe" /\ holder' = "conn" /\ UNCHANGED <<target, told, calm>>
      /\ \/ h' = h /\ c' = [A!NoConn EXCEPT !.probe = TRUE] /\ at' = "close" /\ setup' = TRUE /\ cause' = {"error"}
         \/ \E e \in A!Bind(jtag) :
              /\ h' = e.h
              /\ \/ c' = [A!NoConn EXCEPT !.probe = TRUE] /\ at' = "close" /\ setup' = TRUE /\ cause' = {"error"}
                 \/ /\ ~e.err
                    /\ c' = [A!NoConn EXCEPT !.probe = TRUE, !.port = "idle"]
                    /\ at' = "entry" /\ UNCHANGED <<setup, cause>>
  BY DEF A!Connect, A!Fail
<1>2. HostFit(h) /\ calm \in BOOLEAN /\ A!TypeOK /\ target = {} /\ ~Lost
  BY <1>1 DEF ConnInv, A!TypeOK
<1>3. \A e \in A!Bind(jtag) : HostFit(e.h) /\ (~e.err => e.h.surface # "none")
  <2>1. TAKE e \in A!Bind(jtag)
  <2>2. \E q \in A!Protocols : e \in A!ProbeActivate(h, q, calm)
    BY <2>1 DEF A!Bind, A!Protocols
  <2> QED BY <1>2, <2>2, ProbeActivates
<1> DEFINE d == [A!NoConn EXCEPT !.probe = TRUE]
<1>4. d \in A!Conns /\ d.probe = TRUE /\ d.port = "nil" /\ d.closing = FALSE /\ d.memories = <<>>
  <2>1. d \in A!Conns /\ d.probe = TRUE /\ d.port = A!NoConn.port /\ d.closing = A!NoConn.closing
        /\ d.memories = A!NoConn.memories
    BY Zenon, ConnNone, ConnProbe
  <2> HIDE DEF d
  <2> QED BY <2>1, ConnNone
<1>5. [A!NoConn EXCEPT !.probe = TRUE, !.port = "idle"] = [d EXCEPT !.port = "idle"] BY DEF A!NoConn
<1> HIDE DEF d
<1>6. LET f == [d EXCEPT !.port = "idle"]
      IN f \in A!Conns /\ f.probe = TRUE /\ f.port = "idle" /\ f.closing = FALSE /\ f.memories = <<>>
  BY <1>4, ConnPort
<1>7. c' \in A!Conns /\ c'.probe = TRUE /\ c'.port \in {"nil", "idle"} /\ c'.closing = FALSE /\ c'.memories = <<>>
      /\ at' \in {"close", "entry"} /\ (at' = "entry" => c'.port = "idle") /\ (c'.port = "idle" => h'.surface # "none")
      /\ HostFit(h') /\ setup' \in BOOLEAN /\ (cause' = {"error"} \/ cause' = cause)
  BY Zenon, <1>1, <1>2, <1>3, <1>4, <1>5, <1>6 DEF A!TypeOK, d
<1>8. ~Lost' BY <1>1, <1>2, <1>7 DEF Lost
<1>9. A!TypeOK' BY <1>1, <1>2, <1>7 DEF A!TypeOK, A!Errors, HostFit, HostLoose
<1>10. Owed' BY <1>1, <1>2, <1>7, MemoriesNone DEF Owed, A!PortPending
<1>11. A!RestoreFirst BY <1>2 DEF A!RestoreFirst
<1> QED BY <1>1, <1>7, <1>8, <1>9, <1>10, <1>11 DEF ConnInv, ConnKept, Lost

\* Traffic may cost the session its way to the target, and nothing else.
LEMMA TrafficFits ==
  ASSUME HostFit(h), A!Traffic
  PROVE  HostFit(h') /\ h'.open = h.open /\ h'.surface = h.surface /\ h'.backend = h.backend /\ (h'.able => h.able)
<1>1. h' = h \/ h' = [h EXCEPT !.able = FALSE] BY DEF A!Traffic
<1>2. h \in A!Hosts BY DEF HostFit, HostLoose
<1> QED BY Zenon, <1>1, <1>2 DEF HostFit, HostLoose, A!Hosts

\* The entry sequence keeps it, whether or not it succeeds.
LEMMA EntryStep == ASSUME ConnInv, A!Entry PROVE ConnKept
<1>1. /\ at = "entry" /\ UNCHANGED <<holder, told, calm>>
      /\ \/ h.able /\ c' = [c EXCEPT !.port = "owed"] /\ target' = {"dp"} /\ at' = "idle" /\ cause' = {} /\ UNCHANGED <<h, setup>>
         \/ /\ A!Traffic
            /\ UNCHANGED <<c, target>> \/ \E p \in {"owed", "refused"} : c' = [c EXCEPT !.port = p] /\ target' = {"dp"}
            /\ at' = "close" /\ setup' = TRUE /\ cause' = {"error"}
  BY DEF A!Entry, A!Fail, A!LeftOwed
<1>2. HostFit(h) /\ A!TypeOK /\ holder = "conn" /\ c.port = "idle" /\ c.memories = <<>> /\ h.surface # "none"
      /\ (h.open => c.probe) /\ c \in A!Conns
  BY <1>1 DEF ConnInv, A!TypeOK
<1>3. HostFit(h') /\ h'.open = h.open /\ h'.surface = h.surface /\ (h'.able => h.able) BY <1>1, <1>2, TrafficFits
<1>4. c' \in A!Conns /\ c'.probe = c.probe /\ c'.closing = c.closing /\ c'.memories = c.memories
      /\ \/ c'.port = "owed" /\ target' = {"dp"}
         \/ c'.port = "refused" /\ target' = {"dp"} /\ at' = "close"
         \/ c'.port = c.port /\ target' = target /\ at' = "close"
  <2> DEFINE d(p) == [c EXCEPT !.port = p]
  <2>1. ASSUME NEW p \in {"owed", "refused"}
        PROVE  d(p) \in A!Conns /\ d(p).probe = c.probe /\ d(p).closing = c.closing /\ d(p).memories = c.memories /\ d(p).port = p
    BY <1>2, ConnPort
  <2>2. \/ c' = d("owed") /\ target' = {"dp"}
        \/ c' = d("refused") /\ target' = {"dp"} /\ at' = "close"
        \/ c' = c /\ target' = target /\ at' = "close"
    BY <1>1
  <2> HIDE DEF d
  <2> QED BY <1>2, <2>1, <2>2
<1>5. at' \in {"idle", "close"} /\ setup' \in BOOLEAN /\ cause' \subseteq {"error"} /\ holder' = holder /\ told' = told /\ calm' = calm
  BY Zenon, <1>1, <1>2 DEF A!TypeOK
<1>6. A!TypeOK' BY <1>2, <1>3, <1>4, <1>5 DEF A!TypeOK, A!Errors, HostFit, HostLoose
<1>7. (Lost' => Lost) /\ (~Lost => target = {})
  BY <1>2, <1>5, MemoriesNone DEF Lost, ConnInv, Owed, A!PortPending
<1>8. ~Lost' => Owed'
  <2>1. ~told' => ~Lost BY <1>1, <1>5 DEF Lost, ConnInv
  <2> QED BY <1>2, <1>4, <1>5, <1>7, <2>1, MemoriesNone DEF Owed, Lost, A!PortPending
<1>9. A!RestoreFirst BY <1>3 DEF A!RestoreFirst
<1> QED BY <1>2, <1>3, <1>4, <1>5, <1>6, <1>7, <1>8, <1>9 DEF ConnInv, ConnKept, Lost

\* OpenMemAP keeps it.
LEMMA OpenMemAPStep == ASSUME ConnInv, NEW ap \in APs, A!OpenMemAP(ap) PROVE ConnKept
<1> DEFINE m == Append(c.memories, ap)
<1>1. /\ at = "idle" /\ holder = "conn" /\ ~c.closing /\ c.port # "nil" /\ ap \notin A!Range(c.memories)
      /\ \/ h.able /\ c' = [c EXCEPT !.memories = m] /\ target' = target \cup {ap} /\ cause' = {} /\ UNCHANGED h
         \/ A!Traffic /\ cause' = {"error"} /\ UNCHANGED <<c, target>>
      /\ UNCHANGED <<at, setup, holder, told, calm>>
  BY Zenon DEF A!OpenMemAP
<1>2. HostFit(h) /\ A!TypeOK /\ c \in A!Conns /\ c.memories \in Memories /\ c.port = "owed"
  BY <1>1, ConnFields DEF ConnInv, A!TypeOK
<1>3. m \in Memories /\ A!Range(m) = A!Range(c.memories) \cup {ap} /\ m # <<>> BY <1>1, <1>2, MemoriesAppend
<1> HIDE DEF m
<1>4. HostFit(h') /\ h'.open = h.open /\ h'.surface = h.surface /\ (h'.able => h.able) BY <1>1, <1>2, TrafficFits
<1>5. c' \in A!Conns /\ c'.probe = c.probe /\ c'.closing = c.closing /\ c'.port = "owed"
      /\ \/ c'.memories = m /\ target' = target \cup {ap}
         \/ c'.memories = c.memories /\ target' = target
  <2> DEFINE d == [c EXCEPT !.memories = m]
  <2>1. d \in A!Conns /\ d.probe = c.probe /\ d.closing = c.closing /\ d.memories = m /\ d.port = c.port
    BY <1>2, <1>3, ConnMemories
  <2>2. (c' = d /\ target' = target \cup {ap}) \/ (c' = c /\ target' = target) BY <1>1
  <2> HIDE DEF d
  <2> QED BY <1>2, <2>1, <2>2
<1>6. A!TypeOK' BY <1>1, <1>2, <1>4, <1>5 DEF A!TypeOK, A!Errors, HostFit, HostLoose
<1>7. Lost' => Lost BY <1>1 DEF Lost
<1>8. ~Lost' => Owed'
  <2>1. ~Lost' => Owed BY <1>1 DEF Lost, ConnInv
  <2> QED BY <1>2, <1>3, <1>5, <2>1 DEF Owed, A!PortPending
<1>9. A!RestoreFirst BY <1>4 DEF A!RestoreFirst
<1> QED BY <1>1, <1>2, <1>4, <1>5, <1>6, <1>7, <1>8, <1>9 DEF ConnInv, ConnKept, Lost

\* Borrowing the session keeps it.
LEMMA BorrowStep == ASSUME ConnInv, A!Borrow PROVE ConnKept
<1>1. HostFit(h) /\ A!Traffic /\ at = "idle" /\ UNCHANGED <<c, at, setup, cause, holder, target, told, calm>>
  BY DEF A!Borrow, ConnInv
<1>2. HostFit(h') /\ h'.open = h.open /\ h'.surface = h.surface /\ (h'.able => h.able) BY <1>1, TrafficFits
<1>3. A!TypeOK' BY <1>1, <1>2 DEF A!TypeOK, HostFit, HostLoose, ConnInv
<1>4. Lost' = Lost /\ Owed' = Owed BY <1>1 DEF Lost, Owed, A!PortPending
<1>5. A!RestoreFirst BY <1>2 DEF A!RestoreFirst
<1> QED BY <1>1, <1>2, <1>3, <1>4, <1>5 DEF ConnInv, ConnKept

\* The start of Close keeps it.
LEMMA CloseStarts == ASSUME ConnInv, A!Close PROVE ConnKept
<1>1. at = "idle" /\ holder = "conn" /\ at' = "close" /\ setup' = FALSE /\ cause' = {}
      /\ UNCHANGED <<h, c, holder, target, told, calm>>
  BY DEF A!Close
<1>2. A!TypeOK' BY Zenon, <1>1 DEF A!TypeOK, ConnInv
<1>3. Lost' = Lost BY <1>1 DEF Lost, ConnInv
<1>4. Owed' = Owed /\ HostFit(h)' = HostFit(h) BY <1>1 DEF Owed, A!PortPending
<1>5. A!RestoreFirst BY <1>1 DEF A!RestoreFirst
<1> QED BY <1>1, <1>2, <1>3, <1>4, <1>5 DEF ConnInv, ConnKept

\* The end of all faults keeps it.
LEMMA CalmStep == ASSUME ConnInv, A!Calm PROVE ConnKept
<1>1. calm' = TRUE /\ UNCHANGED <<h, c, at, setup, cause, holder, target, told>> BY DEF A!Calm
<1>2. A!TypeOK' BY <1>1 DEF A!TypeOK, ConnInv
<1>3. Lost' = Lost /\ Owed' = Owed /\ HostFit(h)' = HostFit(h) BY <1>1 DEF Owed, Lost, A!PortPending
<1>4. A!RestoreFirst BY <1>1 DEF A!RestoreFirst
<1> QED BY <1>1, <1>2, <1>3, <1>4 DEF ConnInv, ConnKept

\* A probe that cannot restore the target has no way to it.
LEMMA Unreachable == ASSUME NEW k, HostFit(k), ~A!RestorationPossible(k) PROVE ~k.able
BY DEF HostFit, HostLoose, A!RestorationPossible, A!OwnerPossible

\* Giving up the target.
LEMMA AbandonStep ==
  ASSUME ConnInv, at \in {"close", "mem"}, HostFit(h'), ~h'.able, h'.open = h.open,
         NEW why \in SUBSET {"error"}, A!Abandon(why), UNCHANGED <<setup, calm>>,
         target' \subseteq target
  PROVE  ConnKept
<1> DEFINE d == [c EXCEPT !.closing = TRUE]
           f == [d EXCEPT !.memories = <<>>]
           g == [f EXCEPT !.port = "nil"]
<1>1. c' = [c EXCEPT !.closing = TRUE, !.memories = <<>>, !.port = "nil"]
      /\ cause' = cause \cup why \cup {"abandoned"} /\ at' = "host" /\ UNCHANGED <<holder, told>>
  BY DEF A!Abandon
<1>2. c \in A!Conns /\ A!TypeOK /\ holder = "conn" BY DEF ConnInv, A!TypeOK
<1>3. c' = g BY <1>1, <1>2 DEF A!Conns
<1>4. d \in A!Conns /\ d.probe = c.probe /\ d.closing = TRUE BY Zenon, <1>2, ConnClosing
<1> HIDE DEF d
<1>5. f \in A!Conns /\ f.probe = d.probe /\ f.closing = d.closing /\ f.memories = <<>> BY <1>4, MemoriesNone, ConnMemories
<1> HIDE DEF f
<1>6. g \in A!Conns /\ g.probe = f.probe /\ g.closing = f.closing /\ g.memories = f.memories /\ g.port = "nil" BY <1>5, ConnPort
<1> HIDE DEF g
<1>7. A!TypeOK' BY <1>1, <1>2, <1>3, <1>6 DEF A!TypeOK, A!Errors, HostFit, HostLoose
<1>8. Lost' BY <1>1 DEF Lost
<1>9. A!RestoreFirst BY DEF A!RestoreFirst
<1> QED BY <1>1, <1>2, <1>3, <1>4, <1>5, <1>6, <1>7, <1>8, <1>9 DEF ConnInv, ConnKept

\* The first step of Close keeps it.
LEMMA BeginCloseStep == ASSUME ConnInv, A!BeginClose PROVE ConnKept
<1>1. at = "close" /\ UNCHANGED <<h, setup, target, calm>> BY DEF A!BeginClose
<1>2. HostFit(h) /\ A!TypeOK /\ holder = "conn" /\ c \in A!Conns BY <1>1 DEF ConnInv, A!TypeOK
<1>3. CASE A!Abandon({}) /\ c.probe /\ ~A!RestorationPossible(h)
  <2>1. ~h'.able /\ HostFit(h') /\ h'.open = h.open BY <1>1, <1>2, <1>3, Unreachable
  <2> QED BY <1>1, <1>3, <2>1, AbandonStep
<1>4. CASE /\ c.probe /\ ~A!RestorationPossible(h) /\ ~(c.memories # <<>> \/ A!PortPending(c))
           /\ c' = [c EXCEPT !.closing = TRUE, !.port = "nil"] /\ at' = "host" /\ UNCHANGED <<cause, holder, told>>
  <2> DEFINE d == [c EXCEPT !.closing = TRUE]
  <2>1. d \in A!Conns /\ d.probe = c.probe /\ d.closing = TRUE /\ d.memories = c.memories /\ d.port = c.port BY Zenon, <1>2, ConnClosing
  <2>2. c' = [d EXCEPT !.port = "nil"] BY <1>2, <1>4 DEF A!Conns
  <2> HIDE DEF d
  <2>3. c' \in A!Conns /\ c'.probe = d.probe /\ c'.closing = d.closing /\ c'.memories = d.memories /\ c'.port = "nil"
    BY <2>1, <2>2, ConnPort
  <2>4. A!TypeOK' BY <1>1, <1>2, <1>4, <2>3 DEF A!TypeOK
  <2>5. Lost' = Lost BY <1>4 DEF Lost
  <2>6. Owed => Owed' BY <1>1, <1>4, <2>1, <2>3 DEF Owed, A!PortPending
  <2>7. A!RestoreFirst BY <1>1 DEF A!RestoreFirst
  <2> QED BY <1>1, <1>2, <1>4, <2>1, <2>3, <2>4, <2>5, <2>6, <2>7 DEF ConnInv, ConnKept
<1>5. CASE c' = [c EXCEPT !.closing = TRUE] /\ at' = "mem" /\ UNCHANGED <<cause, holder, told>>
  <2>1. c' \in A!Conns /\ c'.probe = c.probe /\ c'.closing = TRUE /\ c'.memories = c.memories /\ c'.port = c.port
    BY Zenon, <1>2, <1>5, ConnClosing
  <2>2. A!TypeOK' BY <1>1, <1>2, <1>5, <2>1 DEF A!TypeOK
  <2>3. Lost' = Lost BY <1>5 DEF Lost
  <2>4. Owed => Owed' BY <1>1, <2>1 DEF Owed, A!PortPending
  <2>5. A!RestoreFirst BY <1>1 DEF A!RestoreFirst
  <2> QED BY <1>1, <1>2, <1>5, <2>1, <2>2, <2>3, <2>4, <2>5 DEF ConnInv, ConnKept
<1> QED BY <1>3, <1>4, <1>5, Zenon DEF A!BeginClose

\* A release fails: the Conn stays d, or the target is given up.
LEMMA ReleaseFailsStep ==
  ASSUME ConnInv, at = "mem", NEW d \in A!Conns, d.probe = c.probe, d.closing = c.closing, d.memories = c.memories,
         d.port # "nil" => c.port # "nil", A!ReleaseFails(d), UNCHANGED <<setup, calm>>, target' \subseteq target,
         Owed => /\ target' = A!Range(d.memories) \cup (IF A!PortPending(d) THEN {"dp"} ELSE {})
                 /\ d.memories # <<>> => d.port = "owed"
  PROVE  ConnKept
<1>1. HostFit(h) /\ A!TypeOK /\ holder = "conn" /\ c.closing BY DEF ConnInv
<1>2. A!Traffic BY DEF A!ReleaseFails
<1>3. HostFit(h') /\ h'.open = h.open /\ h'.surface = h.surface /\ (h'.able => h.able) BY <1>1, <1>2, TrafficFits
<1>4. CASE A!Abandon({"error"}) /\ ~A!RestorationPossible(h')
  <2>1. ~h'.able BY <1>3, <1>4, Unreachable
  <2> QED BY <1>3, <1>4, <2>1, AbandonStep
<1>5. CASE cause' = cause \cup {"error"} /\ c' = d /\ A!Return(FALSE)
  <2>1. at' = "idle" /\ told' = (told \/ "abandoned" \in cause) /\ holder' = holder
    <3>1. setup' = setup /\ setup \in BOOLEAN BY <1>1 DEF A!TypeOK
    <3> QED BY <1>5, <3>1 DEF A!Return
  <2>2. A!TypeOK' BY <1>1, <1>3, <1>5, <2>1 DEF A!TypeOK, A!Errors, HostFit, HostLoose
  <2>3. Lost' = Lost BY Zenon, <1>5, <2>1 DEF Lost
  <2>4. Owed => Owed' BY <1>5 DEF Owed, A!PortPending
  <2>5. A!RestoreFirst BY <1>3 DEF A!RestoreFirst
  <2> QED BY Zenon, <1>1, <1>3, <1>5, <2>1, <2>2, <2>3, <2>4, <2>5 DEF ConnInv, ConnKept, Lost
<1> QED BY Zenon, <1>4, <1>5 DEF A!ReleaseFails

\* The release of an access port keeps it.
LEMMA ReleaseMemAPStep == ASSUME ConnInv, A!ReleaseMemAP PROVE ConnKept
<1> DEFINE m == SubSeq(c.memories, 1, Len(c.memories) - 1)
           last == c.memories[Len(c.memories)]
<1>1. /\ at = "mem" /\ c.memories # <<>> /\ UNCHANGED <<setup, calm>>
      /\ \/ c' = [c EXCEPT !.memories = m] /\ target' = target \ {last} /\ UNCHANGED <<h, at, cause, holder, told>>
         \/ A!ReleaseFails(c) /\ UNCHANGED target
  BY Zenon DEF A!ReleaseMemAP
<1>2. A!TypeOK /\ c \in A!Conns /\ c.memories \in Memories /\ holder = "conn" /\ c.closing
  BY <1>1, ConnFields DEF ConnInv, A!TypeOK
<1>3. m \in Memories /\ A!Range(m) = A!Range(c.memories) \ {last} /\ last \in APs BY <1>1, <1>2, MemoriesFront
<1> HIDE DEF m, last
<1>4. CASE c' = [c EXCEPT !.memories = m] /\ target' = target \ {last} /\ UNCHANGED <<h, at, cause, holder, told>>
  <2>1. c' \in A!Conns /\ c'.probe = c.probe /\ c'.closing = c.closing /\ c'.memories = m /\ c'.port = c.port
    <3> DEFINE d == [c EXCEPT !.memories = m]
    <3>1. d \in A!Conns /\ d.probe = c.probe /\ d.closing = c.closing /\ d.memories = m /\ d.port = c.port
      <4>1. c \in A!Conns /\ m \in Memories BY <1>2, <1>3
      <4> QED BY <4>1, ConnMemories
    <3>2. c' = d BY <1>4
    <3> HIDE DEF d
    <3> QED BY <3>1, <3>2
  <2>2. A!TypeOK' BY <1>1, <1>2, <1>4, <2>1 DEF A!TypeOK
  <2>3. Lost' = Lost /\ HostFit(h)' = HostFit(h) BY <1>4 DEF Lost
  <2>4. Owed => Owed' BY <1>1, <1>3, <1>4, <2>1, APsAssumption DEF Owed, A!PortPending
  <2>5. A!RestoreFirst BY <1>4 DEF A!RestoreFirst
  <2> QED BY <1>1, <1>2, <1>4, <2>1, <2>2, <2>3, <2>4, <2>5 DEF ConnInv, ConnKept
<1>5. CASE A!ReleaseFails(c) /\ UNCHANGED target
  BY Zenon, <1>1, <1>2, <1>5, ReleaseFailsStep DEF Owed, A!PortPending
<1> QED BY <1>1, <1>4, <1>5

\* The release of the debug port keeps it.
LEMMA ReleasePortStep == ASSUME ConnInv, A!ReleasePort PROVE ConnKept
<1> DEFINE idle == [c EXCEPT !.port = "idle"]
<1>1. /\ at = "mem" /\ c.memories = <<>> /\ UNCHANGED <<setup, calm>>
      /\ \/ c' = [c EXCEPT !.port = "nil"] /\ target' = target \ {"dp"} /\ at' = "host" /\ UNCHANGED <<h, cause, holder, told>>
         \/ /\ A!PortPending(c) /\ UNCHANGED target
            /\ \E p \in {c.port, "refused"} : A!ReleaseFails([c EXCEPT !.port = p])
         \/ c.port = "owed" /\ A!ReleaseFails(idle) /\ target' = target \ {"dp"}
  BY ZenonT(30) DEF A!ReleasePort, A!LeftOwed
<1>2. A!TypeOK /\ c \in A!Conns /\ holder = "conn" /\ c.closing BY <1>1 DEF ConnInv, A!TypeOK
<1>3. idle \in A!Conns /\ idle.probe = c.probe /\ idle.closing = c.closing /\ idle.memories = c.memories /\ idle.port = "idle"
  BY <1>2, ConnPortChange
<1> HIDE DEF idle
<1>4. CASE c' = [c EXCEPT !.port = "nil"] /\ target' = target \ {"dp"} /\ at' = "host" /\ UNCHANGED <<h, cause, holder, told>>
  <2>1. c' \in A!Conns /\ c'.probe = c.probe /\ c'.closing = c.closing /\ c'.memories = c.memories /\ c'.port = "nil"
    BY <1>2, <1>4, ConnPortChange
  <2>2. A!TypeOK' BY <1>1, <1>2, <1>4, <2>1 DEF A!TypeOK
  <2>3. Lost' = Lost /\ HostFit(h)' = HostFit(h) BY <1>4 DEF Lost
  <2>4. Owed => Owed' BY <1>1, <1>4, <2>1, MemoriesNone DEF Owed, A!PortPending
  <2>5. A!RestoreFirst BY <1>4 DEF A!RestoreFirst
  <2> QED BY <1>1, <1>2, <1>4, <2>1, <2>2, <2>3, <2>4, <2>5 DEF ConnInv, ConnKept
<1>5. CASE /\ A!PortPending(c) /\ UNCHANGED target
           /\ \E p \in {c.port, "refused"} : A!ReleaseFails([c EXCEPT !.port = p])
  <2>1. PICK p \in {c.port, "refused"} : A!ReleaseFails([c EXCEPT !.port = p]) BY <1>5
  <2> DEFINE d == [c EXCEPT !.port = p]
  <2>2. p \in {"owed", "refused"} BY <1>5 DEF A!PortPending
  <2>3. d \in A!Conns /\ d.probe = c.probe /\ d.closing = c.closing /\ d.memories = c.memories /\ d.port = p
    <3>1. p \in {"nil", "idle", "owed", "refused"} BY <2>2
    <3> QED BY Zenon, <1>2, <3>1, ConnPortChange
  <2> HIDE DEF d
  <2>4. Owed => target' = A!Range(d.memories) \cup (IF A!PortPending(d) THEN {"dp"} ELSE {})
                /\ (d.memories # <<>> => d.port = "owed")
    BY <1>1, <1>5, <2>2, <2>3, MemoriesNone DEF Owed, A!PortPending
  <2>5. A!ReleaseFails(d) BY <2>1 DEF d
  <2> QED BY <1>1, <1>5, <2>2, <2>3, <2>4, <2>5, ReleaseFailsStep DEF A!PortPending
<1>6. CASE c.port = "owed" /\ A!ReleaseFails(idle) /\ target' = target \ {"dp"}
  <2>1. Owed => target' = A!Range(idle.memories) \cup (IF A!PortPending(idle) THEN {"dp"} ELSE {})
                /\ (idle.memories # <<>> => idle.port = "owed")
    BY <1>1, <1>3, <1>6, MemoriesNone DEF Owed, A!PortPending
  <2> QED BY <1>1, <1>3, <1>6, <2>1, ReleaseFailsStep DEF A!PortPending
<1> QED BY <1>1, <1>4, <1>5, <1>6

\* The release of the probe keeps it.
LEMMA CloseProbeStep == ASSUME ConnInv, A!CloseProbe PROVE ConnKept
<1>1. /\ at = "host" /\ UNCHANGED <<setup, target, calm>>
      /\ \E e \in IF c.probe THEN A!ProbeClose(h, calm) ELSE {A!Result(h, FALSE)} :
           /\ h' = e.h
           /\ c' = [c EXCEPT !.probe = A!CleanupPending(e.h)]
           /\ cause' = cause \cup (IF e.err THEN {"error"} ELSE {})
           /\ A!Return(~A!CleanupPending(e.h))
  BY Zenon DEF A!CloseProbe
<1>2. PICK e \in IF c.probe THEN A!ProbeClose(h, calm) ELSE {A!Result(h, FALSE)} :
        /\ h' = e.h
        /\ c' = [c EXCEPT !.probe = A!CleanupPending(h')]
        /\ cause' = cause \cup (IF e.err THEN {"error"} ELSE {})
        /\ A!Return(~A!CleanupPending(h'))
  BY Zenon, <1>1
<1>3. A!TypeOK /\ HostFit(h) /\ HostLoose(h) /\ calm \in BOOLEAN /\ c \in A!Conns /\ holder = "conn" /\ c.closing
      /\ c.port = "nil" /\ c.memories = <<>> /\ setup \in BOOLEAN /\ (h.open => c.probe)
  BY <1>1 DEF ConnInv, HostFit, A!TypeOK
<1>4. HostFit(h') /\ (h'.open => h.open) /\ (h'.able => h.able)
  <2>1. CASE c.probe BY <1>2, <1>3, <2>1, ProbeCloses
  <2>2. CASE ~c.probe BY <1>2, <1>3, <2>2 DEF A!Result
  <2> QED BY <2>1, <2>2
<1>5. A!CleanupPending(h') <=> h'.open
  BY <1>4 DEF HostFit, HostLoose, A!CleanupPending, A!OwnerPending, A!SessionPending
<1>6. A!CleanupPending(h') \in BOOLEAN BY DEF A!CleanupPending
<1>7. c' \in A!Conns /\ c'.probe = A!CleanupPending(h') /\ c'.closing = c.closing /\ c'.memories = <<>> /\ c'.port = "nil"
  BY ZenonT(30), <1>2, <1>3, <1>6, ConnProbe
<1>8. at' = "idle" /\ (told' <=> told \/ "abandoned" \in cause) /\ told' \in BOOLEAN /\ holder' \in {"none", "conn"}
      /\ (holder' = "none" => ~h'.open)
  BY Zenon, <1>1, <1>2, <1>3, <1>5 DEF A!Return, A!TypeOK
<1>9. A!TypeOK' BY <1>1, <1>2, <1>3, <1>4, <1>7, <1>8 DEF A!TypeOK, A!Errors, HostFit, HostLoose
<1>10. (Lost' <=> Lost) /\ ("abandoned" \in cause' => told') BY <1>2, <1>8 DEF Lost
<1>11. Owed => Owed' BY <1>1, <1>3, <1>7 DEF Owed, A!PortPending
<1>12. A!RestoreFirst
  <2>1. ~Lost => target = {} BY <1>3, MemoriesNone DEF ConnInv, Owed, A!PortPending
  <2> QED BY <2>1 DEF A!RestoreFirst, ConnInv
<1> QED BY <1>3, <1>4, <1>5, <1>7, <1>8, <1>9, <1>10, <1>11, <1>12 DEF ConnInv, ConnKept

\* Every step of ArmConn keeps ConnInv, and gives back the USB resources with the
\* target still changed only after the way to it is lost.
LEMMA ConnSteps == ASSUME ConnInv, A!Next PROVE ConnKept
BY OpenProbeStep, UseProbeStep, DropStep, ConnectStep, EntryStep, OpenMemAPStep, BorrowStep, CloseStarts, CalmStep,
   BeginCloseStep, ReleaseMemAPStep, ReleasePortStep, CloseProbeStep
   DEF A!Next, A!CloseStep

\* What ConnInv gives the properties of Owners.
LEMMA ConnSafe == ASSUME ConnInv
  PROVE A!TypeOK /\ A!NoOrphan /\ A!SurfaceAlive /\ A!OwedTracked /\ A!AbandonReported
<1>1. A!TypeOK BY DEF ConnInv
<1>2. A!NoOrphan BY DEF ConnInv, A!NoOrphan, HostFit, HostLoose, A!CleanupPending, A!OwnerPending, A!SessionPending
<1>3. A!SurfaceAlive BY DEF ConnInv, A!SurfaceAlive, HostFit, HostLoose, A!CanActivate
<1>4. A!OwedTracked BY DEF ConnInv, A!OwedTracked, Lost, Owed, A!PortPending
<1>5. A!AbandonReported
  <2>1. SUFFICES ASSUME at = "idle", ~h.open, ~told PROVE target = {} BY DEF A!AbandonReported
  <2>2. ~Lost BY <2>1 DEF ConnInv, Lost
  <2>3. Owed BY <2>2 DEF ConnInv
  <2>4. c.port = "nil" BY <2>1 DEF ConnInv, HostFit, HostLoose
  <2> QED BY <2>3, <2>4, MemoriesNone DEF Owed, A!PortPending
<1> QED BY <1>1, <1>2, <1>3, <1>4, <1>5

=============================================================================
