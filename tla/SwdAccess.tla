----------------------------- MODULE SwdAccess -----------------------------
(***************************************************************************)
(* The two ways to the registers of an SWD target: swd.Conn, which frames  *)
(* every transfer itself (SwdSession), and cmsisdap.RegisterSWD, where the *)
(* probe's firmware does (CmsisRegister).  armdebug binds a debug port to  *)
(* one of them for good, so path never changes.  Both promise the same of  *)
(* the target, and the properties here say it of both.                     *)
(***************************************************************************)
EXTENDS SwdSession

CONSTANTS MaxUnread, MaxPackets   \* see CmsisSession

VARIABLES path,      \* "wire" or "register"
          x, r, data \* the state of CmsisRegister; the target is shared

accessVars == <<vars, path, x, r, data>>

R == INSTANCE CmsisRegister WITH t <- target, Faulty <- FaultsPerCall

AccessInit == path \in {"wire", "register"} /\ Init /\ R!Init

AccessNext ==
  /\ \/ path = "wire" /\ Next /\ UNCHANGED <<x, r, data>>
     \/ path = "register" /\ R!Next /\ UNCHANGED <<conn, truthful>>
  /\ UNCHANGED path

AccessSpec == AccessInit /\ [][AccessNext]_accessVars

-----------------------------------------------------------------------------

\* The state of either path is in range and consistent.
TypesOK == path \in {"wire", "register"} /\ TypeOK /\ R!TypeOK

\* While transfers are admitted, host, firmware and target agree on the alignment
\* of frames and on the response grammar, whatever a write still in the target's
\* buffer turns out to do (requireRepair, RegisterSWD.active); and a DP bank the host
\* believes in is the target's, for validateTransfer and validateFramingWrite decide
\* by it which writes are safe.
FramingAgrees == GrammarAgrees /\ R!GrammarAgrees /\ BankAgrees /\ R!BankAgrees

\* As long as no restoration is owed, the target has the ORUNDETECT setting it was
\* found with: Connect records it before the first change, and Release forgets it
\* after reading it back.
RestorationOwned == IF path = "wire" THEN OwnedBeforeChanged ELSE R!OwnedBeforeChanged

\* Restoration is forgotten only on the target whose DPIDR was recorded with it, so
\* Release never declares itself done on an exchanged target whose DPIDR differs; one
\* with the same DPIDR cannot be told apart.
IdentityKept ==
  [][/\ conn.original # "unknown" /\ conn'.original = "unknown" => target.dpidr = conn.identity
     /\ r.known /\ ~r'.known => target.dpidr = r.identity]_accessVars

\* From whatever state failures leave, Release without further faults restores the
\* target: twice on the wire, once through registers of a probe within reach.
RestoreConverges == ReleaseConverges /\ R!RestoreConverges

=============================================================================
