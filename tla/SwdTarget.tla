----------------------------- MODULE SwdTarget -----------------------------
(***************************************************************************)
(* The debug port at the far end of an SWD wire, as the host code in swd/  *)
(* meets it: acknowledgements, sticky flags, ORUNDETECT, the DP bank, and  *)
(* the one-deep write buffer.  The behaviour is that of dap/sim/target.go  *)
(* driven by swd/sim/wire.go; the write buffer is hardware that the        *)
(* fixtures of swd/sim model by hand (pendingDP) and is marked external.   *)
(*                                                                         *)
(* A request is [kind, data].  The kinds name the (APnDP, RnW, address)    *)
(* triples the host uses:                                                  *)
(*   DPIDR read 0x00, ABORT write 0x00, R4/W4 read and write 0x04 (banked: *)
(*   CTRL/STAT in bank 0, DLCR in bank 1), SELECT write 0x08, RDBUFF read  *)
(*   0x0c, APR/APW access-port read and write.                             *)
(* Every operator maps one target to the SET of what may happen to it.     *)
(* What need not happen (a busy target, a write held back or abandoned, an *)
(* access port error) is a fault and uses up one of the left faults of the *)
(* running call; with none left the target behaves.                        *)
(***************************************************************************)
EXTENDS Naturals

CONSTANTS Ids,         \* DPIDR values of the targets that can be attached
          Powers,      \* the power domains of CTRL/STAT, debug and system
          APs          \* SELECT.APSEL values

NoId == "none"

ASSUME IdsAssumption == Ids # {} /\ NoId \notin Ids

ASSUME APsAssumption == 0 \in APs

Banks == {"zero", "one"}

\* CTRL/STAT sticky flags; "CMP" behaves as "ERR" for every rule modelled here.
Flags == {"ORUN", "ERR", "WDATA"}

\* What a write to address 0x04 carries: ORUNDETECT clear, ORUNDETECT set, or
\* a DLCR value that changes the turnaround (its bit 0 is clear).
Words == {"clear", "set", "turn"}

NoPost == [kind |-> "none", data |-> "none"]

\* SELECT carries a bank and an access port, a word its power requests.
Posts == {NoPost} \cup [kind : {"SELECT"}, data : Banks \X APs]
                  \cup [kind : {"W4"}, data : Words \X SUBSET Powers]

Targets ==
  [dpidr   : Ids,
   sync    : BOOLEAN,       \* frames of host and target are aligned
   dormant : BOOLEAN,       \* needs the dormant activation sequence
   swapped : BOOLEAN,       \* attached since the last protocol entry
   hasOrun : BOOLEAN,       \* implements ORUNDETECT
   orun    : BOOLEAN,       \* CTRL/STAT.ORUNDETECT
   inherit : BOOLEAN,       \* ghost: ORUNDETECT when the target was attached
   sticky  : SUBSET Flags,
   bank    : Banks,         \* SELECT.DPBANKSEL
   ap      : APs,           \* SELECT.APSEL
   power   : SUBSET Powers, \* CTRL/STAT power requests
   acks    : SUBSET Powers, \* CTRL/STAT power acknowledgements
   post    : Posts]         \* the write accepted but not yet performed

\* A target as it can be found at power-up or left by another debugger.
FreshTargets ==
  {t \in [dpidr : Ids, sync : {FALSE}, dormant : BOOLEAN, swapped : {TRUE},
          hasOrun : BOOLEAN, orun : BOOLEAN, inherit : BOOLEAN,
          sticky : {{}, {"ERR"}}, bank : Banks, ap : {0}, power : SUBSET Powers,
          acks : SUBSET Powers, post : {NoPost}] :
     /\ t.orun => t.hasOrun
     /\ t.inherit = t.orun
     /\ t.acks = t.power}

\* One that is attached: in the middle of a session a target just powered up.
Attachable(session) ==
  {t \in FreshTargets : session => ~t.orun /\ t.sticky = {} /\ t.bank = "zero" /\ t.power = {}}

-----------------------------------------------------------------------------
\* The write buffer.

\* The buffered write takes effect: SELECT moves bank and access port; a
\* word at 0x04 reaches CTRL/STAT or DLCR.  A changed turnaround breaks the host's framing.
PerformPost(t) ==
  LET done == [t EXCEPT !.post = NoPost]
  IN CASE t.post.kind = "none"   -> t
       [] t.post.kind = "SELECT" -> [done EXCEPT !.bank = t.post.data[1], !.ap = t.post.data[2]]
       [] t.post.kind = "W4" /\ t.bank = "zero" ->
            [done EXCEPT !.orun = t.hasOrun /\ t.post.data[1] = "set", !.power = t.post.data[2]]
       [] t.post.kind = "W4" /\ t.bank = "one" ->
            [done EXCEPT !.sync = t.sync /\ t.post.data[1] # "turn"]

\* The buffered write is abandoned, which the target records as WDATAERR.
DropPost(t) ==
  [t EXCEPT !.post = NoPost,
            !.sticky = IF t.post.kind = "none" THEN @ ELSE @ \cup {"WDATA"}]

\* What a buffered write may turn out to have done.
Settlements(t) == {t, PerformPost(t), DropPost(t)}

\* The buffer before the next request is looked at: it performs the write, or
\* by a fault holds it back or abandons it.
SettlePost(t, left) ==
  {[t |-> PerformPost(t), left |-> left]} \cup
  {[t |-> u, left |-> left - 1] : u \in IF left = 0 \/ t.post.kind = "none" THEN {} ELSE {t, DropPost(t)}}

-----------------------------------------------------------------------------
\* Acknowledgements.

\* Requests sticky flags cannot block.
IsStickyExempt(t, kind) ==
  \/ kind \in {"DPIDR", "ABORT"}
  \/ kind = "R4" /\ t.bank = "zero"

\* A request that is not exempt WAITs behind the buffered write, FAULTs on a
\* sticky flag, and may WAIT because an access port is busy.
Acknowledge(t, kind, left) ==
  CASE ~t.sync                           -> {"PROTO"}
    [] t.sync /\ IsStickyExempt(t, kind) -> {"OK"}
    [] t.sync /\ ~IsStickyExempt(t, kind) /\ t.sticky # {} -> {"FAULT"}
    [] t.sync /\ ~IsStickyExempt(t, kind) /\ t.sticky = {} /\ t.post.kind # "none" -> {"WAIT"}
    [] OTHER -> IF left = 0 THEN {"OK"} ELSE {"OK", "BUSY"}

\* A refused request sets STICKYORUN while overrun detection is on.  The target
\* then expects a data phase, and without overrun detection it does not: a host
\* clocking the other grammar is no longer aligned.
ObserveResponse(t, hostOverrun) ==
  [t EXCEPT !.sticky = IF t.orun THEN @ \cup {"ORUN"} ELSE @,
            !.sync   = t.sync /\ hostOverrun = t.orun]

\* The effects of an accepted request.  The power controller acknowledges what is
\* requested by the next time CTRL/STAT is looked at.
Execute(t, req, left) ==
  LET done(u) == [t |-> u, left |-> left]
  IN CASE req.kind \in {"SELECT", "W4"} -> {done([t EXCEPT !.post = req])}
       [] req.kind = "ABORT" ->
            LET cleared == [t EXCEPT !.sticky = @ \ req.data]
            IN {done(cleared), done(DropPost(cleared))}
       [] req.kind \in {"APR", "APW"} ->
            {done(t)} \cup
            (IF left = 0 THEN {} ELSE {[t |-> [t EXCEPT !.sticky = @ \cup {"ERR"}], left |-> left - 1]})
       [] req.kind = "R4" -> {done([t EXCEPT !.acks = t.power])}
       [] OTHER -> {done(t)}

NoWord == [id |-> NoId, orun |-> FALSE, sticky |-> {}, power |-> {}, acks |-> {}]

\* The word a read returns: the identity, or CTRL/STAT as the host uses it.
ReadWord(t, kind) ==
  CASE kind = "DPIDR" -> [NoWord EXCEPT !.id = t.dpidr]
    [] kind = "R4" /\ t.bank = "zero" -> 
         [NoWord EXCEPT !.orun = t.orun, !.sticky = t.sticky, !.power = t.power, !.acks = t.acks]
    [] OTHER -> NoWord

\* One request served by the target: every pair of acknowledgement and effect.
Serve(t, req, hostOverrun, left) ==
  UNION {
    UNION {
      LET refused(reply, rest) ==
            [t |-> ObserveResponse(p.t, hostOverrun), ack |-> reply, v |-> NoWord, left |-> rest]
      IN CASE ack = "OK" ->
                {[t |-> q.t, ack |-> "OK", v |-> ReadWord(p.t, req.kind), left |-> q.left]
                   : q \in Execute(p.t, req, p.left)}
           [] ack = "BUSY" -> {refused("WAIT", p.left - 1)}
           [] OTHER -> {refused(ack, p.left)}
      : ack \in Acknowledge(p.t, req.kind, p.left)}
    : p \in SettlePost(t, left)}

\* A line reset realigns the target; with overrun detection it also sets
\* STICKYORUN, and a DPv3 returns to bank zero.  A dormant target ignores it.
LineReset(t, left) ==
  IF t.dormant THEN {[t |-> t, left |-> left]}
  ELSE UNION {{[t |-> [p.t EXCEPT !.sync = TRUE, !.swapped = FALSE, !.bank = bank,
                                  !.sticky = IF p.t.orun THEN @ \cup {"ORUN"} ELSE @],
                left |-> p.left] : bank \in {p.t.bank, "zero"}}
              : p \in SettlePost(t, left)}

\* The dormant activation sequence wakes the target and ends in a line reset.
Activate(t, left) == LineReset([t EXCEPT !.dormant = FALSE], left)

=============================================================================
