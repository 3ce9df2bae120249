--------------------------- MODULE RomWalkProofs ---------------------------
(***************************************************************************)
(* Proofs about RomWalk, for every target memory and all limits: a walk    *)
(* keeps its limits, reads no table twice, and one that reports success    *)
(* has inspected everything.                                               *)
(***************************************************************************)
EXTENDS RomWalk, SequenceTheorems, TLAPS

-----------------------------------------------------------------------------
\* Sequences.

\* What Append does to a sequence: it keeps the elements and adds one.
LEMMA Appending ==
  ASSUME NEW S, NEW s \in Seq(S), NEW e \in S
  PROVE  /\ Append(s, e) \in Seq(S)
         /\ Len(Append(s, e)) = Len(s) + 1
         /\ \A i \in 1 .. Len(s) : Append(s, e)[i] = s[i]
         /\ Append(s, e)[Len(s) + 1] = e
  OBVIOUS

\* What removing the last element leaves.
LEMMA Popping ==
  ASSUME NEW S, NEW s \in Seq(S), s # <<>>
  PROVE  LET p == SubSeq(s, 1, Len(s) - 1)
         IN p \in Seq(S) /\ Len(p) = Len(s) - 1 /\ \A i \in 1 .. Len(p) : p[i] = s[i]
  <1> DEFINE n == Len(s) - 1
  <1>1. n \in Nat /\ n \in Int /\ 1 \in Int /\ \A i \in 1 .. n : s[i] \in S
    OBVIOUS
  <1> HIDE DEF n
  <1>2. SubSeq(s, 1, n) \in Seq(S)
    BY <1>1, SubSeqProperties
  <1>3. Len(SubSeq(s, 1, n)) = n
    BY <1>1, SubSeqProperties
  <1>4. ASSUME NEW i \in 1 .. n PROVE SubSeq(s, 1, n)[i] = s[i]
    BY <1>1, SubSeqProperties
  <1> QED BY <1>2, <1>3, <1>4 DEF n

\* A frame whose next has moved on keeps its other fields.
LEMMA MovedOn ==
  ASSUME NEW f \in Frame
  PROVE  LET g == [f EXCEPT !.next = @ + 1]
         IN g \in Frame /\ g.next = f.next + 1 /\ g.base = f.base /\ g.parent = f.parent /\ g.depth = f.depth
  BY DEF Frame

\* The stack after frame.next has moved on.
LEMMA Advancing ==
  ASSUME stack \in Seq(Frame), stack # <<>>
  PROVE  /\ Advanced \in Seq(Frame) /\ Len(Advanced) = Len(stack)
         /\ \A n \in 1 .. Len(stack) :
              /\ Advanced[n].base = stack[n].base /\ Advanced[n].parent = stack[n].parent
              /\ Advanced[n].depth = stack[n].depth
              /\ n < Len(stack) => Advanced[n].next = stack[n].next
         /\ Advanced[Len(stack)].next = Top.next + 1
  <1> DEFINE f == [Top EXCEPT !.next = @ + 1]
  <1>1. Len(stack) \in 1 .. Len(stack) /\ Top \in Frame
    BY DEF Top
  <1>2. /\ f \in Frame /\ f.next = Top.next + 1
        /\ f.base = Top.base /\ f.parent = Top.parent /\ f.depth = Top.depth
    BY <1>1, MovedOn
  <1> HIDE DEF f
  <1>3. Advanced = [stack EXCEPT ![Len(stack)] = f]
    BY DEF Advanced, f
  <1>4. /\ Advanced \in Seq(Frame) /\ Len(Advanced) = Len(stack)
        /\ \A n \in 1 .. Len(stack) : Advanced[n] = IF n = Len(stack) THEN f ELSE stack[n]
    BY <1>1, <1>2, <1>3
  <1> QED BY <1>1, <1>2, <1>4 DEF Top

\* entryBase notices every address that leaves the address space.
LEMMA ChildExact ==
  ASSUME NEW m \in Roms, NEW b \in DOMAIN m, m[b].class = "table", NEW i \in 0 .. EntryCount(m, b) - 1
  PROVE  /\ Child(m, b, i) \in Int
         /\ Decoded(m, b, i) = "present" => Child(m, b, i) = b + Offset(m, b, m[b].entries[i + 1].offset)
  <1> DEFINE raw == m[b].entries[i + 1].offset
             width == IF m[b].wide THEN Pages ELSE NarrowPages
             offset == Signed(raw, width)
  <1>1. raw \in 0 .. width - 1 /\ width \in 2 .. Pages /\ Pages \in Nat /\ b \in 0 .. Pages - 1
    BY SMTT(60), RomsAssumption, PagesAssumption DEF EntryCount
  <1> HIDE DEF raw, width
  <1>2. offset \in Int /\ -Pages < offset /\ offset < Pages
    BY <1>1 DEF Signed
  <1>3. Offset(m, b, raw) = offset
    BY DEF Offset, width
  <1> HIDE DEF offset
  <1>4. entryBase(m, b, raw) \in Int
    BY <1>1, <1>2, <1>3 DEF entryBase, Wrapped
  <1>5. entryBase(m, b, raw) # -1 => entryBase(m, b, raw) = b + offset
    BY <1>1, <1>2, <1>3 DEF entryBase, Wrapped
  <1> QED BY <1>3, <1>4, <1>5 DEF Child, Decoded, raw

-----------------------------------------------------------------------------
\* The inductive invariant.  Its parts take the state they speak of as parameters,
\* so that a step can use them for the stack it is about to store.

\* The frames are those of visited tables, one level each.
FramesOK(m, vs, l, k) ==
  /\ Len(k) <= l.MaxDepth + 1
  /\ \A n \in 1 .. Len(k) :
       /\ k[n].parent \in 1 .. Len(vs)
       /\ vs[k[n].parent].outcome = "table" /\ vs[k[n].parent].base = k[n].base
       /\ k[n].next <= EntryCount(m, k[n].base)
       /\ k[n].depth = n - 1

\* The visited tables are tables, seen, and different.
TablesOK(m, vs, s) ==
  /\ \A v \in 1 .. Len(vs) :
       vs[v].outcome = "table" => vs[v].base \in s /\ vs[v].base \in DOMAIN m /\ m[vs[v].base].class = "table"
  /\ \A v, w \in 1 .. Len(vs) :
       vs[v].outcome = "table" /\ vs[w].outcome = "table" /\ vs[v].base = vs[w].base => v = w

NoneFailed(vs) == \A v \in 1 .. Len(vs) : vs[v].outcome # "failed"

\* The entries behind the frames are handled.
FramesHandled(m, vs, k) == \A n \in 1 .. Len(k) : \A i \in 0 .. k[n].next - 1 : Handled(m, vs, k[n].parent, i)

\* A visited table has a frame, or all its entries are handled.
TablesHandled(m, vs, k) ==
  \A v \in 1 .. Len(vs) :
    vs[v].outcome = "table" => \/ \E n \in 1 .. Len(k) : k[n].parent = v
                               \/ \A i \in Inhabited(m, vs[v].base) : Handled(m, vs, v, i)

IInv ==
  /\ rom \in Roms /\ TypeOK
  /\ FramesOK(rom, visits, limits, stack) /\ TablesOK(rom, visits, seen) /\ VisitsFaithful(rom, visits)
  /\ Len(visits) <= limits.MaxComponents /\ entries <= limits.MaxEntries
  /\ visits = <<>> => stack = <<>>
  /\ result # "error" =>
       /\ NoneFailed(visits) /\ FramesHandled(rom, visits, stack) /\ TablesHandled(rom, visits, stack)
       /\ visits # <<>> => visits[1].base = base
       /\ result # "running" => stack = <<>> /\ visits # <<>>

\* A further visit leaves what was handled as it is.
LEMMA HandledKept ==
  ASSUME NEW m, NEW vs \in Seq(Visit), NEW e \in Visit, NEW p \in 1 .. Len(vs), NEW i, Handled(m, vs, p, i)
  PROVE  Handled(m, Append(vs, e), p, i)
  <1>1. Append(vs, e)[p].base = vs[p].base
    BY Appending
  <1>2. CASE Decoded(m, vs[p].base, i) = "absent"
    BY <1>1, <1>2 DEF Handled
  <1>3. CASE Decoded(m, vs[p].base, i) # "absent"
    <2>1. PICK v \in 1 .. Len(vs) :
             /\ vs[v].parent = p /\ vs[v].index = i /\ vs[v].base = Child(m, vs[p].base, i)
             /\ vs[v].outcome \in (IF Powered(m, vs[p].base, i) THEN {"skipped"} ELSE {"table", "leaf"})
      BY <1>3 DEF Handled
    <2>2. Append(vs, e)[v] = vs[v] /\ v \in 1 .. Len(Append(vs, e))
      BY SMTT(60), Appending
    <2> QED BY <1>1, <1>3, <2>1, <2>2 DEF Handled
  <1> QED BY <1>2, <1>3

-----------------------------------------------------------------------------
\* inspect, called with the stack k.

\* The entries behind the frames of k are handled, up to the one being inspected.
Owing(k, parent, index) ==
  \A n \in 1 .. Len(k) : \A i \in 0 .. k[n].next - 1 :
    Handled(rom, visits, k[n].parent, i) \/ (k[n].parent = parent /\ i = index)

\* The component to inspect is the child of the entry at index.
Entered(b, parent, index, power) ==
  /\ parent \in 1 .. Len(visits) /\ visits[parent].outcome = "table"
  /\ Decoded(rom, visits[parent].base, index) = "present"
  /\ b = Child(rom, visits[parent].base, index) /\ power = Powered(rom, visits[parent].base, index)
  /\ b = visits[parent].base
         + Offset(rom, visits[parent].base, rom[visits[parent].base].entries[index + 1].offset)

\* What holds when inspect is called.
Inspectable(b, parent, index, power, depth, k) ==
  /\ b \in Int /\ parent \in Nat /\ index \in Int /\ power \in BOOLEAN /\ depth \in Nat
  /\ k \in Seq(Frame) /\ Len(k) = depth
  /\ FramesOK(rom, visits, limits, k) /\ TablesHandled(rom, visits, k) /\ Owing(k, parent, index)
  /\ visits # <<>> => Entered(b, parent, index, power)
  /\ visits = <<>> => b = base /\ k = <<>>

\* What holds of the visits vs that end in one of b with outcome o.
Recorded(vs, b, power, o, k) ==
  /\ Len(vs) = Len(visits) + 1
  /\ \A v \in 1 .. Len(visits) : vs[v] = visits[v]
  /\ vs[Len(vs)].base = b /\ vs[Len(vs)].outcome = o
  /\ \A p \in 1 .. Len(visits), i \in Int : Handled(rom, visits, p, i) => Handled(rom, vs, p, i)
  /\ FramesOK(rom, vs, limits, k) /\ VisitsFaithful(rom, vs)
  /\ o \in (IF power THEN {"skipped"} ELSE {"table", "leaf"}) => FramesHandled(rom, vs, k)

\* A visit of e leaves true what held, and settles what was owed.
LEMMA Extending ==
  ASSUME IInv, NEW b, NEW parent, NEW index, NEW power, NEW depth, NEW k,
         Inspectable(b, parent, index, power, depth, k),
         NEW o, NEW e, e.parent = parent, e.index = index, e.base = b, e.outcome = o,
         NEW vs, Len(vs) = Len(visits) + 1, vs[Len(visits) + 1] = e,
         \A v \in 1 .. Len(visits) : vs[v] = visits[v],
         \A p \in 1 .. Len(visits), i \in Int : Handled(rom, visits, p, i) => Handled(rom, vs, p, i)
  PROVE  Recorded(vs, b, power, o, k)
  <1>1. Len(visits) \in Nat
    BY DEF IInv, TypeOK
  <1>2. FramesOK(rom, vs, limits, k)
    <2>1. FramesOK(rom, visits, limits, k)
      BY DEF Inspectable
    <2>2. \A p \in 1 .. Len(visits) : p \in 1 .. Len(vs)
      BY <1>1
    <2> QED BY SMTT(60), <2>1, <2>2 DEF FramesOK
  <1>3. ASSUME o \in (IF power THEN {"skipped"} ELSE {"table", "leaf"})
        PROVE  FramesHandled(rom, vs, k)
    <2> SUFFICES ASSUME NEW n \in 1 .. Len(k), NEW i \in 0 .. k[n].next - 1
                 PROVE  Handled(rom, vs, k[n].parent, i)
      BY DEF FramesHandled
    <2>1. k[n].parent \in 1 .. Len(visits) /\ i \in Int /\ visits # <<>>
      BY DEF Inspectable, FramesOK
    <2>2. CASE Handled(rom, visits, k[n].parent, i)
      BY <2>1, <2>2
    <2>3. CASE k[n].parent = parent /\ i = index
      <3>1. Entered(b, parent, index, power)
        BY SMTT(60), <2>1 DEF Inspectable
      <3>2. vs[parent].base = visits[parent].base
        BY ZenonT(60), <1>1, <3>1 DEF Entered
      <3> DEFINE w == Len(visits) + 1
      <3>3. w \in 1 .. Len(vs) /\ vs[w].parent = parent /\ vs[w].index = index /\ vs[w].base = b /\ vs[w].outcome = o
        BY SMTT(60), <1>1
      <3> HIDE DEF w
      <3>4. Decoded(rom, vs[parent].base, index) = "present"
        BY ZenonT(60), <3>1, <3>2 DEF Entered
      <3>5. vs[w].base = Child(rom, vs[parent].base, index) /\ power = Powered(rom, vs[parent].base, index)
        BY ZenonT(60), <3>1, <3>2, <3>3 DEF Entered
      <3>6. \E v \in 1 .. Len(vs) :
               /\ vs[v].parent = parent /\ vs[v].index = index /\ vs[v].base = Child(rom, vs[parent].base, index)
               /\ vs[v].outcome \in (IF Powered(rom, vs[parent].base, index) THEN {"skipped"} ELSE {"table", "leaf"})
        BY ZenonT(60), Zenon, <1>3, <3>3, <3>5
      <3>7. Handled(rom, vs, parent, index)
        BY ZenonT(60), Zenon, <3>4, <3>6 DEF Handled
      <3> QED BY SMTT(60), <2>3, <3>7
    <2> QED BY SMTT(60), <2>2, <2>3 DEF Inspectable, Owing
  <1>4. VisitsFaithful(rom, vs)
    <2> SUFFICES ASSUME NEW v \in 2 .. Len(vs)
                 PROVE  /\ vs[v].parent \in 1 .. v - 1 /\ vs[vs[v].parent].outcome = "table"
                        /\ LET c == vs[vs[v].parent].base
                           IN vs[v].base = c + Offset(rom, c, rom[c].entries[vs[v].index + 1].offset)
      BY ZenonT(60) DEF VisitsFaithful
    <2>1. CASE v \in 2 .. Len(visits)
      <3>1. /\ visits[v].parent \in 1 .. v - 1 /\ visits[visits[v].parent].outcome = "table"
            /\ LET c == visits[visits[v].parent].base
               IN visits[v].base = c + Offset(rom, c, rom[c].entries[visits[v].index + 1].offset)
        BY ZenonT(60), <2>1 DEF IInv, VisitsFaithful
      <3>2. v \in 1 .. Len(visits) /\ visits[v].parent \in 1 .. Len(visits)
        <4>1. visits[v].parent \in 1 .. v - 1
          BY <3>1
        <4> QED BY <1>1, <2>1, <4>1
      <3>3. vs[v] = visits[v] /\ vs[visits[v].parent] = visits[visits[v].parent]
        BY SMTT(60), <1>1, <3>2
      <3> QED BY ZenonT(60), <3>1, <3>3
    <2>2. CASE v = Len(visits) + 1
      <3>1. visits # <<>>
        BY <1>1, <2>2
      <3>2. Entered(b, parent, index, power)
        BY SMTT(60), <3>1 DEF Inspectable
      <3>3. parent \in 1 .. Len(visits)
        BY ZenonT(60), <3>2 DEF Entered
      <3>4. vs[v] = e /\ vs[parent] = visits[parent] /\ parent \in 1 .. v - 1
        BY <1>1, <2>2, <3>3
      <3> QED BY ZenonT(60), <3>2, <3>4 DEF Entered
    <2>3. v \in 2 .. Len(visits) \/ v = Len(visits) + 1
      BY SMTT(60), <1>1
    <2> QED BY ONLY <2>1, <2>2, <2>3, ZenonT(60)
  <1> QED BY SMTT(60), <1>2, <1>3, <1>4 DEF Recorded

\* A recorded visit leaves true what held, and settles what was owed.
LEMMA Recording ==
  ASSUME IInv, NEW b, NEW parent, NEW index, NEW power, NEW depth, NEW k,
         Inspectable(b, parent, index, power, depth, k),
         NEW o \in {"table", "leaf", "failed", "skipped"},
         NEW vs, vs = Append(visits, [parent |-> parent, index |-> index, base |-> b, outcome |-> o])
  PROVE  vs \in Seq(Visit) /\ Recorded(vs, b, power, o, k)
  <1> DEFINE e == [parent |-> parent, index |-> index, base |-> b, outcome |-> o]
  <1>1. visits \in Seq(Visit) /\ e \in Visit
    BY DEF IInv, TypeOK, Visit, Inspectable
  <1>2. /\ vs \in Seq(Visit) /\ Len(vs) = Len(visits) + 1
        /\ \A v \in 1 .. Len(visits) : vs[v] = visits[v]
        /\ vs[Len(visits) + 1] = e
    <2> HIDE DEF e
    <2> QED BY <1>1, Appending DEF e
  <1>3. ASSUME NEW p \in 1 .. Len(visits), NEW i \in Int, Handled(rom, visits, p, i)
        PROVE  Handled(rom, vs, p, i)
    BY <1>1, <1>3, HandledKept
  <1> HIDE DEF e
  <1> QED BY ZenonT(60), <1>1, <1>2, <1>3, Extending DEF e

\* TablesHandled after a visit, for a stack that has the frames of k and of the visit.
LEMMA TablesKept ==
  ASSUME NEW m, NEW vs \in Seq(Visit), NEW ws \in Seq(Visit), NEW k \in Seq(Frame), NEW j \in Seq(Frame),
         TablesHandled(m, vs, k), Len(ws) = Len(vs) + 1,
         \A v \in 1 .. Len(vs) : ws[v] = vs[v],
         \A p \in 1 .. Len(vs), i \in Int : Handled(m, vs, p, i) => Handled(m, ws, p, i),
         Len(k) <= Len(j), \A n \in 1 .. Len(k) : j[n] = k[n],
         ws[Len(ws)].outcome = "table" => \E n \in 1 .. Len(j) : j[n].parent = Len(ws)
  PROVE  TablesHandled(m, ws, j)
  <1> SUFFICES ASSUME NEW v \in 1 .. Len(ws), ws[v].outcome = "table",
                      ~ \E n \in 1 .. Len(j) : j[n].parent = v
               PROVE  \A i \in Inhabited(m, ws[v].base) : Handled(m, ws, v, i)
    BY DEF TablesHandled
  <1>1. v \in 1 .. Len(vs) /\ ws[v] = vs[v]
    <2>1. v # Len(ws)
      OBVIOUS
    <2> QED BY <2>1
  <1>2. ~ \E n \in 1 .. Len(k) : k[n].parent = v
    BY SMTT(60)
  <1>3. \A i \in Inhabited(m, vs[v].base) : Handled(m, vs, v, i)
    BY ZenonT(60), <1>1, <1>2 DEF TablesHandled
  <1>4. \A i \in Inhabited(m, vs[v].base) : i \in Int
    BY SMTT(60) DEF Inhabited
  <1> QED BY <1>1, <1>3, <1>4

\* TablesOK after a visit.
LEMMA TablesAdded ==
  ASSUME NEW m, NEW vs \in Seq(Visit), NEW ws \in Seq(Visit), NEW s, NEW t,
         TablesOK(m, vs, s), Len(ws) = Len(vs) + 1, s \subseteq t,
         \A v \in 1 .. Len(vs) : ws[v] = vs[v],
         LET w == ws[Len(ws)]
         IN w.outcome = "table" => /\ w.base \in t /\ w.base \notin s
                                   /\ w.base \in DOMAIN m /\ m[w.base].class = "table"
  PROVE  TablesOK(m, ws, t)
  <1>1. Len(vs) \in Nat /\ \A v \in 1 .. Len(ws) : v \in 1 .. Len(vs) \/ v = Len(ws)
    BY SMTT(60)
  <1>2. ASSUME NEW v \in 1 .. Len(ws), ws[v].outcome = "table"
        PROVE  ws[v].base \in t /\ ws[v].base \in DOMAIN m /\ m[ws[v].base].class = "table"
    BY SMTT(60), <1>1, <1>2 DEF TablesOK
  <1>3. ASSUME NEW v \in 1 .. Len(ws), NEW w \in 1 .. Len(ws),
               ws[v].outcome = "table", ws[w].outcome = "table", ws[v].base = ws[w].base
        PROVE  v = w
    <2>1. CASE v \in 1 .. Len(vs) /\ w \in 1 .. Len(vs)
      BY SMTT(60), <1>3, <2>1 DEF TablesOK
    <2>2. CASE v \in 1 .. Len(vs) /\ w = Len(ws)
      BY SMTT(60), <1>3, <2>2 DEF TablesOK
    <2>3. CASE w \in 1 .. Len(vs) /\ v = Len(ws)
      BY SMTT(60), <1>3, <2>3 DEF TablesOK
    <2> QED BY SMTT(60), <1>1, <2>1, <2>2, <2>3
  <1> QED BY <1>2, <1>3 DEF TablesOK

\* What inspect does keeps the invariant.
LEMMA Inspecting ==
  ASSUME IInv, Running, UNCHANGED <<rom, limits, base>>, entries' \in Nat, entries' <= limits.MaxEntries,
         NEW b, NEW parent, NEW index, NEW power, NEW depth, NEW k,
         Inspectable(b, parent, index, power, depth, k),
         inspect(b, parent, index, power, depth, k)
  PROVE  IInv'
  <1> DEFINE limited == depth > limits.MaxDepth \/ Len(visits) = limits.MaxComponents
             Rec(o)  == Append(visits, [parent |-> parent, index |-> index, base |-> b, outcome |-> o])
  <1>a. /\ k \in Seq(Frame) /\ depth \in Nat /\ Len(k) = depth /\ visits \in Seq(Visit)
        /\ limits \in WalkLimits /\ Validate(limits) /\ result # "error"
    BY SMTT(60) DEF IInv, TypeOK, Inspectable, Running
  <1>b. /\ rom' \in Roms /\ base' \in 0 .. Pages - 1 /\ limits' \in WalkLimits /\ Validate(limits')
        /\ entries' \in Nat /\ entries' <= limits'.MaxEntries
    BY SMTT(60) DEF IInv, TypeOK, Validate
  <1>c. ~limited => Len(visits) + 1 <= limits.MaxComponents
    BY SMTT(60), <1>a DEF IInv, WalkLimits
  <1>1. CASE limited /\ Fails /\ UNCHANGED visits /\ Keeping(k)
    <2>1. FramesOK(rom', visits', limits', stack') /\ TablesOK(rom', visits', seen')
      BY SMTT(60), <1>1 DEF IInv, Inspectable, Keeping
    <2>2. visits' = <<>> => stack' = <<>>
      BY SMTT(60), <1>1 DEF Inspectable, Keeping
    <2> QED BY SMTT(60), <1>a, <1>b, <1>1, <2>1, <2>2 DEF IInv, TypeOK, Fails, Keeping
  <1>2. CASE ~limited /\ power /\ Skip(b, parent, index, k)
    <2>1. visits' = Rec("skipped")
      BY SMTT(60), <1>2 DEF Skip, Record
    <2>r. visits' \in Seq(Visit) /\ Recorded(visits', b, power, "skipped", k)
      BY ZenonT(60), <2>1, Recording
    <2>2. /\ visits' \in Seq(Visit) /\ Len(visits') = Len(visits) + 1
          /\ \A v \in 1 .. Len(visits) : visits'[v] = visits[v]
          /\ visits'[Len(visits')].base = b /\ visits'[Len(visits')].outcome = "skipped"
          /\ \A p \in 1 .. Len(visits), i \in Int : Handled(rom, visits, p, i) => Handled(rom, visits', p, i)
          /\ FramesOK(rom, visits', limits, k) /\ FramesHandled(rom, visits', k) /\ VisitsFaithful(rom, visits')
      BY SMTT(60), <1>2, <2>r DEF Recorded
    <2>3. stack' = k /\ seen' = seen /\ skipped' = TRUE /\ result' = result
      BY SMTT(60), <1>2 DEF Skip
    <2>4. TablesHandled(rom, visits', k)
      <3>1. TablesHandled(rom, visits, k)
        BY DEF Inspectable
      <3> QED BY SMTT(60), <1>a, <2>2, <3>1, TablesKept
    <2>5. TablesOK(rom, visits', seen) /\ NoneFailed(visits')
      <3>1. TablesOK(rom, visits, seen) /\ NoneFailed(visits)
        BY <1>a DEF IInv
      <3>2. TablesOK(rom, visits', seen)
        BY ZenonT(60), <1>a, <2>2, <3>1, TablesAdded
      <3>3. NoneFailed(visits')
        BY SMTT(60), <1>a, <2>2, <3>1 DEF NoneFailed
      <3> QED BY SMTT(60), <3>2, <3>3
    <2>6. visits' # <<>> /\ visits'[1].base = base
      BY SMTT(60), <1>a, <2>2 DEF IInv, Inspectable
    <2>7. seen' \subseteq Int /\ skipped' \in BOOLEAN /\ result' \in {"running", "ok", "skipped", "error"} /\ result' = "running"
      BY SMTT(60), <2>3 DEF IInv, TypeOK, Running
    <2>8. Len(visits') <= limits.MaxComponents
      BY SMTT(60), <1>2, <1>c, <2>2
    <2> HIDE DEF limited, Rec
    <2> QED BY SMTT(60), <1>a, <1>b, <2>2, <2>3, <2>4, <2>5, <2>6, <2>7, <2>8 DEF IInv, TypeOK
  <1>3. CASE ~limited /\ ~power /\ Descend(b, parent, index, depth, k)
    <2> DEFINE f == [base |-> b, parent |-> Len(visits) + 1, next |-> 0, depth |-> depth]
    <2>1. visits' = Rec("table") /\ b \in Int /\ seen \subseteq Int
      BY SMTT(60), <1>3 DEF Descend, Record, Inspectable, IInv, TypeOK
    <2>r. visits' \in Seq(Visit) /\ Recorded(visits', b, power, "table", k)
      BY ZenonT(60), <2>1, Recording
    <2>2. /\ visits' \in Seq(Visit) /\ Len(visits') = Len(visits) + 1
          /\ \A v \in 1 .. Len(visits) : visits'[v] = visits[v]
          /\ visits'[Len(visits')].base = b /\ visits'[Len(visits')].outcome = "table"
          /\ \A p \in 1 .. Len(visits), i \in Int : Handled(rom, visits, p, i) => Handled(rom, visits', p, i)
          /\ FramesOK(rom, visits', limits, k) /\ FramesHandled(rom, visits', k) /\ VisitsFaithful(rom, visits')
      BY <1>3, <2>r DEF Recorded
    <2>3. stack' = Append(k, f) /\ seen' = seen \cup {b} /\ skipped' = skipped /\ result' = result
      BY SMTT(60), <1>3 DEF Descend
    <2>4. /\ stack' \in Seq(Frame) /\ Len(stack') = Len(k) + 1
          /\ \A n \in 1 .. Len(k) : stack'[n] = k[n]
          /\ stack'[Len(k) + 1] = f
      <3>1. f \in Frame
        BY SMTT(60), <1>a, <2>1 DEF Frame
      <3> HIDE DEF f
      <3> QED BY <1>a, <2>3, <3>1, Appending
    <2>5. b \notin seen /\ b \in DOMAIN rom /\ rom[b].class = "table"
      BY SMTT(60), <1>3 DEF Descend, Component
    <2>6. 0 <= EntryCount(rom, b)
      BY SMTT(60), <2>5, RomsAssumption DEF EntryCount, IInv
    <2>7. FramesOK(rom, visits', limits, stack')
      <3>1. Len(stack') <= limits.MaxDepth + 1
        BY SMTT(60), <1>3, <1>a, <2>4 DEF WalkLimits
      <3>2. ASSUME NEW n \in 1 .. Len(stack')
            PROVE  /\ stack'[n].parent \in 1 .. Len(visits')
                   /\ visits'[stack'[n].parent].outcome = "table" /\ visits'[stack'[n].parent].base = stack'[n].base
                   /\ stack'[n].next <= EntryCount(rom, stack'[n].base)
                   /\ stack'[n].depth = n - 1
        <4>1. CASE n \in 1 .. Len(k)
          <5>1. stack'[n] = k[n]
            BY SMTT(60), <2>4, <4>1
          <5>2. FramesOK(rom, visits', limits, k)
            BY SMTT(60), <2>2
          <5> QED BY SMTT(60), <4>1, <5>1, <5>2 DEF FramesOK
        <4>2. CASE n = Len(k) + 1
          BY SMTT(60), <1>a, <2>2, <2>4, <2>6, <4>2
        <4> QED BY SMTT(60), <1>a, <2>4, <4>1, <4>2
      <3> QED BY SMTT(60), <3>1, <3>2 DEF FramesOK
    <2>8. FramesHandled(rom, visits', stack')
      <3> SUFFICES ASSUME NEW n \in 1 .. Len(stack'), NEW i \in 0 .. stack'[n].next - 1
                   PROVE  Handled(rom, visits', stack'[n].parent, i)
        BY SMTT(60) DEF FramesHandled
      <3>1. CASE n \in 1 .. Len(k)
        BY SMTT(60), <2>2, <2>4, <3>1 DEF FramesHandled
      <3>2. CASE n = Len(k) + 1
        BY SMTT(60), <2>4, <3>2
      <3> QED BY SMTT(60), <1>a, <2>4, <3>1, <3>2
    <2>9. TablesHandled(rom, visits', stack')
      <3>1. \E n \in 1 .. Len(stack') : stack'[n].parent = Len(visits')
        BY SMTT(60), <1>a, <2>2, <2>4
      <3>2. TablesHandled(rom, visits, k)
        BY DEF Inspectable
      <3>3. Len(k) <= Len(stack')
        BY <1>a, <2>4
      <3> HIDE DEF f
      <3> QED BY ZenonT(60), <1>a, <2>2, <2>4, <3>1, <3>2, <3>3, TablesKept
    <2>10. TablesOK(rom, visits', seen') /\ NoneFailed(visits')
      <3>1. TablesOK(rom, visits, seen) /\ NoneFailed(visits)
        BY <1>a DEF IInv
      <3>2. TablesOK(rom, visits', seen')
        BY ZenonT(60), <1>a, <2>2, <2>3, <2>5, <3>1, TablesAdded
      <3>3. NoneFailed(visits')
        BY SMTT(60), <1>a, <2>2, <3>1 DEF NoneFailed
      <3> QED BY SMTT(60), <3>2, <3>3
    <2>11. visits' # <<>> /\ visits'[1].base = base
      BY SMTT(60), <1>a, <2>2 DEF IInv, Inspectable
    <2>12. seen' \subseteq Int /\ skipped' \in BOOLEAN /\ result' = "running"
      <3>1. skipped \in BOOLEAN /\ result = "running"
        BY SMTT(60) DEF IInv, TypeOK, Running
      <3> HIDE DEF f, Rec
      <3> QED BY SMTT(60), <2>1, <2>3, <3>1
    <2>13. Len(visits') <= limits.MaxComponents
      BY SMTT(60), <1>3, <1>c, <2>2
    <2> HIDE DEF limited, Rec, f
    <2> QED BY SMTT(60), <1>a, <1>b, <2>2, <2>4, <2>7, <2>8, <2>9, <2>10, <2>11, <2>12, <2>13 DEF IInv, TypeOK
  <1>4. CASE ~limited /\ ~power /\ Leaf(b, parent, index, k)
    <2>1. visits' = Rec("leaf")
      BY SMTT(60), <1>4 DEF Leaf, Record
    <2>r. visits' \in Seq(Visit) /\ Recorded(visits', b, power, "leaf", k)
      BY ZenonT(60), <2>1, Recording
    <2>2. /\ visits' \in Seq(Visit) /\ Len(visits') = Len(visits) + 1
          /\ \A v \in 1 .. Len(visits) : visits'[v] = visits[v]
          /\ visits'[Len(visits')].base = b /\ visits'[Len(visits')].outcome = "leaf"
          /\ \A p \in 1 .. Len(visits), i \in Int : Handled(rom, visits, p, i) => Handled(rom, visits', p, i)
          /\ FramesOK(rom, visits', limits, k) /\ FramesHandled(rom, visits', k) /\ VisitsFaithful(rom, visits')
      BY SMTT(60), <1>4, <2>r DEF Recorded
    <2>3. stack' = k /\ seen' = seen /\ skipped' = skipped /\ result' = result
      BY SMTT(60), <1>4 DEF Leaf, Keeping
    <2>4. TablesHandled(rom, visits', k)
      <3>1. TablesHandled(rom, visits, k)
        BY DEF Inspectable
      <3> QED BY SMTT(60), <1>a, <2>2, <3>1, TablesKept
    <2>5. TablesOK(rom, visits', seen) /\ NoneFailed(visits')
      <3>1. TablesOK(rom, visits, seen) /\ NoneFailed(visits)
        BY <1>a DEF IInv
      <3>2. TablesOK(rom, visits', seen)
        BY ZenonT(60), <1>a, <2>2, <3>1, TablesAdded
      <3>3. NoneFailed(visits')
        BY SMTT(60), <1>a, <2>2, <3>1 DEF NoneFailed
      <3> QED BY <3>2, <3>3
    <2>6. visits' # <<>> /\ visits'[1].base = base
      BY SMTT(60), <1>a, <2>2 DEF IInv, Inspectable
    <2>7. seen' \subseteq Int /\ skipped' \in BOOLEAN /\ result' = "running"
      BY SMTT(60), <2>3 DEF IInv, TypeOK, Running
    <2>8. Len(visits') <= limits.MaxComponents
      BY SMTT(60), <1>4, <1>c, <2>2
    <2> HIDE DEF limited, Rec
    <2> QED BY SMTT(60), <1>a, <1>b, <2>2, <2>3, <2>4, <2>5, <2>6, <2>7, <2>8 DEF IInv, TypeOK
  <1>5. CASE ~limited /\ ~power /\ Unidentified(b, parent, index, k)
    <2>1. visits' = Rec("failed")
      BY SMTT(60), <1>5 DEF Unidentified, Record
    <2>r. visits' \in Seq(Visit) /\ Recorded(visits', b, power, "failed", k)
      BY ZenonT(60), <2>1, Recording
    <2>2. /\ visits' \in Seq(Visit) /\ Len(visits') = Len(visits) + 1
          /\ \A v \in 1 .. Len(visits) : visits'[v] = visits[v]
          /\ visits'[Len(visits')].base = b /\ visits'[Len(visits')].outcome = "failed"
          /\ FramesOK(rom, visits', limits, k) /\ VisitsFaithful(rom, visits')
      BY <2>r DEF Recorded
    <2>3. stack' = k /\ seen' = seen /\ skipped' = skipped /\ result' = "error"
      BY <1>5 DEF Unidentified, Keeping, Fails
    <2>4. TablesOK(rom, visits', seen) /\ visits' # <<>>
      <3>1. TablesOK(rom, visits, seen)
        BY SMTT(60) DEF IInv
      <3>2. TablesOK(rom, visits', seen)
        BY ZenonT(60), <1>a, <2>2, <3>1, TablesAdded
      <3>3. visits' # <<>>
        BY SMTT(60), <1>a, <2>2
      <3> QED BY <3>2, <3>3
    <2>5. seen' \subseteq Int /\ skipped' \in BOOLEAN
      BY SMTT(60), <2>3 DEF IInv, TypeOK
    <2>6. Len(visits') <= limits.MaxComponents
      BY SMTT(60), <1>5, <1>c, <2>2
    <2> HIDE DEF limited, Rec
    <2> QED BY SMTT(60), <1>a, <1>b, <2>2, <2>3, <2>4, <2>5, <2>6 DEF IInv, TypeOK
  <1> HIDE DEF Rec
  <1> QED BY SMTT(60), <1>1, <1>2, <1>3, <1>4, <1>5 DEF inspect

-----------------------------------------------------------------------------
\* The steps.

\* The table of the top frame, whose next entry is within its capacity.
LEMMA TopFacts ==
  ASSUME IInv, stack # <<>>
  PROVE  /\ Len(stack) \in Nat \ {0} /\ Top = stack[Len(stack)] /\ Top \in Frame
         /\ Top.parent \in 1 .. Len(visits) /\ visits[Top.parent].base = Top.base
         /\ visits[Top.parent].outcome = "table"
         /\ Top.base \in DOMAIN rom /\ rom[Top.base].class = "table"
         /\ Top.depth = Len(stack) - 1
         /\ EntryCount(rom, Top.base) \in Nat /\ Top.next \in 0 .. EntryCount(rom, Top.base)
  <1>1. Len(stack) \in Nat \ {0} /\ Top = stack[Len(stack)] /\ Top \in Frame
    BY SMTT(60) DEF IInv, TypeOK, Top
  <1>2. /\ Top.parent \in 1 .. Len(visits) /\ visits[Top.parent].base = Top.base
        /\ visits[Top.parent].outcome = "table"
        /\ Top.depth = Len(stack) - 1 /\ Top.next <= EntryCount(rom, Top.base)
    BY SMTT(60), <1>1 DEF IInv, FramesOK
  <1>3. Top.base \in DOMAIN rom /\ rom[Top.base].class = "table"
    BY SMTT(60), <1>2 DEF IInv, TablesOK
  <1>4. EntryCount(rom, Top.base) \in Nat
    BY SMTT(60), <1>3, RomsAssumption DEF EntryCount, IInv
  <1> QED BY SMTT(60), <1>1, <1>2, <1>3, <1>4 DEF Frame

\* A table is left when none of its inhabited entries is ahead.
LEMMA PopStep ==
  ASSUME IInv, Running, stack # <<>>, stack' = Popped,
         UNCHANGED <<rom, limits, base, visits, seen, skipped, result>>,
         entries' \in Nat, entries' <= limits.MaxEntries,
         \A i \in Inhabited(rom, Top.base) : i \in 0 .. Top.next - 1
  PROVE  IInv'
  <1>1. /\ stack' \in Seq(Frame) /\ Len(stack') = Len(stack) - 1
        /\ \A n \in 1 .. Len(stack') : stack'[n] = stack[n]
    BY SMTT(60), Popping DEF Popped, IInv, TypeOK
  <1>2. FramesOK(rom, visits, limits, stack')
    <2>1. FramesOK(rom, visits, limits, stack) /\ Len(stack) \in Nat /\ limits.MaxDepth \in Int
      BY SMTT(60) DEF IInv, TypeOK, WalkLimits
    <2>2. Len(stack') <= limits.MaxDepth + 1 /\ \A n \in 1 .. Len(stack') : n \in 1 .. Len(stack)
      BY SMTT(60), <1>1, <2>1 DEF FramesOK
    <2> QED BY ZenonT(60), <1>1, <2>1, <2>2 DEF FramesOK
  <1>3. FramesHandled(rom, visits, stack) /\ TablesHandled(rom, visits, stack) /\ NoneFailed(visits)
    BY SMTT(60) DEF IInv, Running
  <1>4. FramesHandled(rom, visits, stack')
    <2>1. \A n \in 1 .. Len(stack') : n \in 1 .. Len(stack)
      BY SMTT(60), <1>1 DEF IInv, TypeOK
    <2> QED BY ZenonT(60), <1>1, <1>3, <2>1 DEF FramesHandled
  <1>5. TablesHandled(rom, visits, stack')
    <2> SUFFICES ASSUME NEW v \in 1 .. Len(visits), visits[v].outcome = "table",
                        ~ \E n \in 1 .. Len(stack') : stack'[n].parent = v
                 PROVE  \A i \in Inhabited(rom, visits[v].base) : Handled(rom, visits, v, i)
      BY SMTT(60) DEF TablesHandled
    <2>1. CASE v = Top.parent
      BY SMTT(60), <1>3, <2>1, TopFacts DEF FramesHandled
    <2>2. CASE v # Top.parent
      <3>1. ~ \E n \in 1 .. Len(stack) : stack[n].parent = v
        <4>1. Len(stack) \in Nat /\ Top = stack[Len(stack)]
          BY SMTT(60), TopFacts
        <4> SUFFICES ASSUME NEW n \in 1 .. Len(stack), stack[n].parent = v PROVE FALSE
          OBVIOUS
        <4>2. n # Len(stack)
          BY <2>2, <4>1
        <4>3. n \in 1 .. Len(stack')
          BY <1>1, <4>1, <4>2
        <4> QED BY SMTT(60), <1>1, <4>3
      <3> QED BY SMTT(60), <1>3, <3>1 DEF TablesHandled
    <2> QED BY SMTT(60), <2>1, <2>2
  <1>6. visits # <<>>
    BY DEF IInv
  <1> QED BY SMTT(60), <1>1, <1>2, <1>3, <1>4, <1>5, <1>6 DEF IInv, TypeOK, Running

\* Leaving a table without further entries keeps the invariant (next).
LEMMA FinishedStep == ASSUME IInv, Finished PROVE IInv'
  <1>1. \A i \in Inhabited(rom, Top.base) : i \in 0 .. Top.next - 1
    BY SMTT(60), TopFacts DEF Finished, Exhausted, Inhabited
  <1>2. entries' \in Nat /\ entries' <= limits.MaxEntries
    BY SMTT(60) DEF Finished, IInv, TypeOK
  <1> QED BY <1>1, <1>2, PopStep DEF Finished

\* entries stays within its limit.
LEMMA ReadingBounded ==
  ASSUME IInv, Reading
  PROVE  entries' \in Nat /\ entries' <= limits.MaxEntries
  BY SMTT(60) DEF Reading, IInv, TypeOK, WalkLimits

\* Leaving a table at its terminator keeps the invariant (next).
LEMMA TerminatorStep == ASSUME IInv, Terminator PROVE IInv'
  <1>1. \A i \in Inhabited(rom, Top.base) : i \in 0 .. Top.next - 1
    <2>1. Reading /\ Decoded(rom, Top.base, Top.next) = "end"
      BY DEF Terminator
    <2>2. stack # <<>>
      BY SMTT(60), <2>1 DEF Reading
    <2> QED BY <2>1, <2>2, TopFacts DEF Inhabited
  <1> QED BY SMTT(60), <1>1, ReadingBounded, PopStep DEF Terminator, Reading

\* The frame that has moved on: the entries behind it are handled but for one.
LEMMA AdvancedFacts ==
  ASSUME IInv, Reading
  PROVE  /\ Advanced \in Seq(Frame) /\ Len(Advanced) = Len(stack)
         /\ FramesOK(rom, visits, limits, Advanced) /\ TablesHandled(rom, visits, Advanced)
         /\ Owing(Advanced, Top.parent, Top.next)
  <1>a. stack # <<>> /\ Running /\ stack \in Seq(Frame) /\ Top.next # EntryCount(rom, Top.base)
    BY SMTT(60) DEF Reading, IInv, TypeOK, Exhausted
  <1>b. Top.next + 1 <= EntryCount(rom, Top.base) /\ Top.next \in Nat
    BY <1>a, TopFacts
  <1>1. /\ Advanced \in Seq(Frame) /\ Len(Advanced) = Len(stack)
        /\ \A n \in 1 .. Len(stack) :
             /\ Advanced[n].base = stack[n].base /\ Advanced[n].parent = stack[n].parent
             /\ Advanced[n].depth = stack[n].depth
             /\ n < Len(stack) => Advanced[n].next = stack[n].next
        /\ Advanced[Len(stack)].next = Top.next + 1
    BY SMTT(60), <1>a, Advancing
  <1>2. FramesOK(rom, visits, limits, Advanced)
    <2>1. FramesOK(rom, visits, limits, stack) /\ Len(stack) \in Nat
      BY SMTT(60), <1>a DEF IInv
    <2>2. ASSUME NEW n \in 1 .. Len(stack) PROVE Advanced[n].next <= EntryCount(rom, Advanced[n].base)
      <3>1. CASE n = Len(stack)
        BY SMTT(60), <1>b, <1>1, <3>1 DEF Top
      <3>2. CASE n # Len(stack)
        <4>1. n < Len(stack)
          BY SMTT(60), <2>1, <3>2
        <4>2. stack[n].next <= EntryCount(rom, stack[n].base)
          BY SMTT(60), <2>1 DEF FramesOK
        <4> QED BY SMTT(60), <1>1, <4>1, <4>2
      <3> QED BY SMTT(60), <3>1, <3>2
    <2> QED BY SMTT(60), <1>1, <2>1, <2>2 DEF FramesOK
  <1>3. TablesHandled(rom, visits, Advanced)
    BY SMTT(60), <1>a, <1>1 DEF IInv, TablesHandled, Running
  <1>4. Owing(Advanced, Top.parent, Top.next)
    <2> SUFFICES ASSUME NEW n \in 1 .. Len(stack), NEW i \in 0 .. Advanced[n].next - 1
                 PROVE  Handled(rom, visits, stack[n].parent, i) \/ (stack[n].parent = Top.parent /\ i = Top.next)
      BY SMTT(60), <1>1 DEF Owing
    <2>1. FramesHandled(rom, visits, stack)
      BY SMTT(60), <1>a DEF IInv, Running
    <2>2. CASE i \in 0 .. stack[n].next - 1
      BY SMTT(60), <2>1, <2>2 DEF FramesHandled
    <2>3. CASE i \notin 0 .. stack[n].next - 1
      <3>1. n = Len(stack)
        BY SMTT(60), <1>a, <1>1, <2>3
      <3> QED BY SMTT(60), <1>a, <1>b, <1>1, <2>3, <3>1, TopFacts
    <2> QED BY SMTT(60), <2>2, <2>3
  <1> QED BY SMTT(60), <1>1, <1>2, <1>3, <1>4

\* Passing over an absent entry keeps the invariant (next).
LEMMA AbsentStep == ASSUME IInv, Absent PROVE IInv'
  <1>a. /\ Reading /\ stack' = Advanced /\ Decoded(rom, Top.base, Top.next) = "absent"
        /\ UNCHANGED <<rom, limits, base, visits, seen, skipped, result>>
    BY DEF Absent
  <1>b. stack # <<>> /\ Running /\ visits # <<>>
    BY SMTT(60), <1>a DEF Reading, IInv
  <1>1. /\ stack' \in Seq(Frame) /\ Len(stack') = Len(stack)
        /\ FramesOK(rom, visits, limits, stack') /\ TablesHandled(rom, visits, stack')
        /\ Owing(stack', Top.parent, Top.next)
    BY SMTT(60), <1>a, AdvancedFacts
  <1>2. Handled(rom, visits, Top.parent, Top.next)
    BY SMTT(60), <1>a, <1>b, TopFacts DEF Handled
  <1>3. FramesHandled(rom, visits, stack')
    BY <1>1, <1>2 DEF FramesHandled, Owing
  <1>4. entries' \in Nat /\ entries' <= limits.MaxEntries
    BY SMTT(60), <1>a, ReadingBounded
  <1> QED BY SMTT(60), <1>a, <1>b, <1>1, <1>3, <1>4 DEF IInv, TypeOK, Running

\* Inspecting the child of a present entry keeps the invariant (next, inspect).
LEMMA PresentStep == ASSUME IInv, Present PROVE IInv'
  <1> DEFINE b == Child(rom, Top.base, Top.next)
             power == Powered(rom, Top.base, Top.next)
  <1>a. /\ Reading /\ Decoded(rom, Top.base, Top.next) = "present"
        /\ UNCHANGED <<rom, limits, base>>
        /\ inspect(b, Top.parent, Top.next, power, Top.depth + 1, Advanced)
    BY SMTT(60) DEF Present
  <1>b. stack # <<>> /\ Running /\ visits # <<>> /\ Top.next # EntryCount(rom, Top.base)
    BY SMTT(60), <1>a DEF Reading, IInv, Exhausted
  <1>c. Top.next \in 0 .. EntryCount(rom, Top.base) - 1 /\ rom \in Roms
    BY SMTT(60), <1>b, TopFacts DEF IInv
  <1>1. b \in Int /\ b = Top.base + Offset(rom, Top.base, rom[Top.base].entries[Top.next + 1].offset)
    <2>1. Top.base \in DOMAIN rom /\ rom[Top.base].class = "table"
      BY SMTT(60), <1>b, TopFacts
    <2> QED BY SMTT(60), <1>a, <1>c, <2>1, ChildExact
  <1>2. power \in BOOLEAN
    <2>1. rom[Top.base].entries \in Seq(Entry) /\ Top.next + 1 \in 1 .. Len(rom[Top.base].entries)
      BY SMTT(60), <1>b, <1>c, TopFacts, RomsAssumption DEF EntryCount
    <2>2. rom[Top.base].entries[Top.next + 1] \in Entry
      BY SMTT(60), <2>1, ElementOfSeq
    <2> QED BY SMTT(60), <2>2 DEF Powered, Entry
  <1>3. /\ Advanced \in Seq(Frame) /\ Len(Advanced) = Len(stack)
        /\ FramesOK(rom, visits, limits, Advanced) /\ TablesHandled(rom, visits, Advanced)
        /\ Owing(Advanced, Top.parent, Top.next)
    BY SMTT(60), <1>a, AdvancedFacts
  <1>4. Entered(b, Top.parent, Top.next, power)
    <2>1. Top.parent \in 1 .. Len(visits) /\ visits[Top.parent].outcome = "table" /\ visits[Top.parent].base = Top.base
      BY SMTT(60), <1>b, TopFacts
    <2> QED BY SMTT(60), <1>a, <1>1, <2>1 DEF Entered
  <1> HIDE DEF b, power
  <1>5. Inspectable(b, Top.parent, Top.next, power, Top.depth + 1, Advanced)
    <2>1. Top.parent \in Nat /\ Top.next \in Int /\ Top.depth + 1 \in Nat /\ Len(Advanced) = Top.depth + 1
      <3>1. Top \in Frame /\ Top.depth = Len(stack) - 1
        BY SMTT(60), <1>b, TopFacts
      <3>2. Top.parent \in Nat /\ Top.next \in Nat /\ Top.depth \in Nat
        BY SMTT(60), <3>1 DEF Frame
      <3>3. Len(Advanced) = Top.depth + 1
        BY SMTT(60), <1>3, <3>1, <3>2 DEF IInv, TypeOK
      <3> QED BY <3>2, <3>3
    <2> QED BY ZenonT(60), <1>b, <1>1, <1>2, <1>3, <1>4, <2>1 DEF Inspectable
  <1>6. entries' \in Nat /\ entries' <= limits.MaxEntries
    BY <1>a, ReadingBounded
  <1> QED BY <1>a, <1>b, <1>5, <1>6, Inspecting

\* Inspecting the root keeps the invariant (Walk).
LEMMA StartStep == ASSUME IInv, Start PROVE IInv'
  <1>a. /\ Running /\ visits = <<>> /\ UNCHANGED <<rom, limits, base, entries>>
        /\ inspect(base, 0, -1, FALSE, 0, stack)
    BY ZenonT(60) DEF Start
  <1>1. base \in Int
    BY SMTT(60), RomsAssumption, PagesAssumption DEF IInv, TypeOK
  <1>2. Inspectable(base, 0, -1, FALSE, 0, stack)
    <2>1. stack = <<>> /\ stack \in Seq(Frame) /\ FramesOK(rom, visits, limits, stack)
      BY SMTT(60), <1>a DEF IInv, TypeOK
    <2>2. Len(stack) = 0 /\ Len(visits) = 0
      BY <1>a, <2>1
    <2>3. Owing(stack, 0, -1) /\ TablesHandled(rom, visits, stack)
      BY SMTT(60), <2>2 DEF Owing, TablesHandled
    <2> QED BY SMTT(60), <1>a, <1>1, <2>1, <2>2, <2>3 DEF Inspectable
  <1>3. entries' \in Nat /\ entries' <= limits.MaxEntries
    BY SMTT(60), <1>a DEF IInv, TypeOK
  <1> QED BY ZenonT(60), <1>a, <1>2, <1>3, Inspecting

\* Giving up, for whatever reason, keeps the invariant.
LEMMA FailStep ==
  ASSUME IInv, Running, result' = "error", entries' \in Nat, entries' <= limits.MaxEntries,
         UNCHANGED <<rom, limits, base, visits, stack, seen, skipped>>
  PROVE  IInv'
  BY SMTT(60) DEF IInv, TypeOK

\* Returning with the stack empty keeps the invariant (Walk).
LEMMA ReturnStep == ASSUME IInv, Return PROVE IInv'
  BY DEF IInv, TypeOK, Return, Running

\* A walk starts without visits.
LEMMA InitInv == Init => IInv
  <1> SUFFICES ASSUME Init PROVE IInv
    OBVIOUS
  <1>1. TypeOK /\ rom \in Roms
    <2>1. visits \in Seq(Visit) /\ stack \in Seq(Frame)
      BY DEF Init
    <2> QED BY ZenonT(60), <2>1 DEF Init, TypeOK
  <1>2. Len(visits) = 0 /\ Len(stack) = 0 /\ visits = <<>> /\ stack = <<>> /\ entries = 0 /\ result = "running"
    BY SMTT(60) DEF Init
  <1>3. 0 <= limits.MaxDepth + 1 /\ 0 <= limits.MaxComponents /\ 0 <= limits.MaxEntries
    BY SMTT(60) DEF Init, Validate, WalkLimits
  <1>4. /\ FramesOK(rom, visits, limits, stack) /\ TablesOK(rom, visits, seen) /\ NoneFailed(visits)
        /\ VisitsFaithful(rom, visits) /\ FramesHandled(rom, visits, stack) /\ TablesHandled(rom, visits, stack)
    BY SMTT(60), <1>2, <1>3 DEF FramesOK, TablesOK, NoneFailed, VisitsFaithful, FramesHandled, TablesHandled
  <1> QED BY <1>1, <1>2, <1>3, <1>4 DEF IInv

\* Every step of a walk keeps the invariant.
LEMMA StepInv == IInv /\ [Next]_vars => IInv'
  <1> SUFFICES ASSUME IInv, [Next]_vars PROVE IInv'
    BY SMTT(60)
  <1>a. entries \in Nat /\ entries <= limits.MaxEntries
    BY DEF IInv, TypeOK
  <1>1. CASE Start BY <1>1, StartStep
  <1>2. CASE Cancelled BY SMTT(60), <1>a, <1>2, FailStep DEF Cancelled, Fails
  <1>3. CASE Finished BY SMTT(60), <1>3, FinishedStep
  <1>4. CASE Limited BY <1>a, <1>4, FailStep DEF Limited, Fails
  <1>5. CASE ReadFailed BY SMTT(60), <1>5, FailStep, ReadingBounded DEF ReadFailed, Reading, Fails
  <1>6. CASE Terminator BY <1>6, TerminatorStep
  <1>7. CASE Absent BY <1>7, AbsentStep
  <1>8. CASE Present BY <1>8, PresentStep
  <1>9. CASE Return BY <1>9, ReturnStep
  <1>10. CASE UNCHANGED vars BY <1>10 DEF vars, IInv, TypeOK
  <1> QED BY SMTT(60), <1>1, <1>2, <1>3, <1>4, <1>5, <1>6, <1>7, <1>8, <1>9, <1>10 DEF Next

\* The inductive invariant holds throughout every walk, whatever the tables say.
THEOREM InvHolds == Spec => []IInv
  BY InitInv, StepInv, PTL DEF Spec

\* Whatever the memory of the target: Walk visits what the tables list, at addresses
\* that did not wrap around, and a walk it does not report as failed has inspected the
\* child of every present entry of every table it reached.
THEOREM WalkIsFaithful == Spec => []WalkFaithful
  <1>1. IInv => WalkFaithful
    BY SMTT(60) DEF IInv, WalkFaithful, NoneFailed, TablesHandled
  <1> QED BY <1>1, InvHolds, PTL

\* Whatever the memory of the target: no table is read twice and no limit exceeded.
THEOREM WalkIsBounded == Spec => []WalkBounded
  <1>1. IInv => WalkBounded
    BY DEF IInv, WalkBounded, TablesOK, FramesOK
  <1> QED BY <1>1, InvHolds, PTL

=============================================================================
