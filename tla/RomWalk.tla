------------------------------ MODULE RomWalk ------------------------------
(***************************************************************************)
(* coresight.Walk: the depth-first walk over the ROM tables of a target,   *)
(* within limits (coresight/walk.go, rom.go, component.go).  Addresses are *)
(* counted in pages of 4 KiB.  The target answers reads from rom, which a  *)
(* walk does not change; a read can fail and the context can end at any    *)
(* time.                                                                   *)
(***************************************************************************)
EXTENDS Integers, Sequences

CONSTANTS Roms,         \* memories of targets: functions on pages
          Limits,       \* values of WalkLimits
          Pages,        \* number of pages of the address space, 2^52
          NarrowPages   \* number of pages a 32-bit offset tells apart, 2^20

Entry == [form : {"end", "absent", "present", "invalid"}, offset : Int, power : BOOLEAN]

ASSUME PagesAssumption == {Pages, NarrowPages} \subseteq Nat \ {0, 1} /\ NarrowPages <= Pages

ASSUME RomsAssumption ==
  \A m \in Roms :
    /\ DOMAIN m \subseteq 0 .. Pages - 1
    /\ \A b \in DOMAIN m :
         m[b].class = "table" =>
           /\ m[b].wide \in BOOLEAN /\ m[b].entries \in Seq(Entry)
           /\ \A i \in 1 .. Len(m[b].entries) :
                m[b].entries[i].offset \in 0 .. (IF m[b].wide THEN Pages ELSE NarrowPages) - 1

VARIABLES rom, limits,
          base,     \* the address of the root
          visits, stack, seen, entries, skipped,   \* the fields of walker
          result    \* "running", or what Walk returned: "ok", "skipped" or "error"

vars == <<rom, limits, base, visits, stack, seen, entries, skipped, result>>

-----------------------------------------------------------------------------
\* Components and ROM tables.

\* What Identify and ROMTable tell of the page at an address.
Component(m, b) == IF b \in DOMAIN m THEN m[b] ELSE [class |-> "invalid"]

EntryCount(m, b) == Len(m[b].entries)

\* int64(raw &^ 0xfff), or that of the low word as int32.
Signed(raw, limit) == IF raw < limit \div 2 THEN raw ELSE raw - limit

Offset(m, b, raw) == Signed(raw, IF m[b].wide THEN Pages ELSE NarrowPages)

\* Addition of 64-bit addresses, for sums at most one address space away.
Wrapped(sum) == IF sum >= Pages THEN sum - Pages ELSE IF sum < 0 THEN sum + Pages ELSE sum

\* Mutant: an address that leaves the address space wraps around.
WrappedBase(m, b, raw) ==
  LET offset == Offset(m, b, raw)
  IN IF offset = 0 THEN -1 ELSE Wrapped(b + offset)

\* The address of a child, or -1: the offset is zero or leads out of the address
\* space, which shows in 64-bit addition as a sum on the wrong side of b.
entryBase(m, b, raw) ==
  LET offset == Offset(m, b, raw)
      sum    == Wrapped(b + offset)
  IN IF offset = 0 \/ (offset > 0 /\ sum < b) \/ (offset < 0 /\ sum > b) THEN -1 ELSE sum

\* decode: "end", "absent", "present" or "invalid".
Decoded(m, b, i) ==
  LET e == m[b].entries[i + 1]
  IN IF e.form = "present" /\ entryBase(m, b, e.offset) = -1 THEN "invalid" ELSE e.form

Child(m, b, i) == entryBase(m, b, m[b].entries[i + 1].offset)

Powered(m, b, i) == m[b].entries[i + 1].power

-----------------------------------------------------------------------------
\* The walker.

WalkLimits == [MaxDepth : Int, MaxComponents : Int, MaxEntries : Int]

Validate(l) == l.MaxDepth >= 0 /\ l.MaxComponents > 0 /\ l.MaxEntries > 0

Running == result = "running"

Fails == result' = "error"

Record(parent, index, b, outcome) ==
  visits' = Append(visits, [parent |-> parent, index |-> index, base |-> b, outcome |-> outcome])

\* The fields of the walker that a call leaves as they are, k being its stack.
Keeping(k) == stack' = k /\ UNCHANGED <<seen, skipped>>

\* Mutant: a table is not remembered.
DescendAgain(b, parent, index, depth, k) ==
  /\ Component(rom, b).class = "table"
  /\ Record(parent, index, b, "table")
  /\ stack' = Append(k, [base |-> b, parent |-> Len(visits) + 1, next |-> 0, depth |-> depth])
  /\ UNCHANGED <<seen, skipped, result>>

\* identify: a table that was not seen before is pushed.
Descend(b, parent, index, depth, k) ==
  /\ b \notin seen /\ Component(rom, b).class = "table"
  /\ Record(parent, index, b, "table")
  /\ seen' = seen \cup {b}
  /\ stack' = Append(k, [base |-> b, parent |-> Len(visits) + 1, next |-> 0, depth |-> depth])
  /\ UNCHANGED <<skipped, result>>

\* identify: not a ROM table.
Leaf(b, parent, index, k) ==
  /\ b \notin seen /\ Component(rom, b).class = "leaf"
  /\ Record(parent, index, b, "leaf")
  /\ Keeping(k) /\ UNCHANGED result

\* identify: a repeated table, no valid identification, an unsupported format or,
\* at any component, a failed read.
Unidentified(b, parent, index, k) == Record(parent, index, b, "failed") /\ Fails /\ Keeping(k)

\* A child in a power domain is recorded and not accessed.
Skip(b, parent, index, k) ==
  /\ Record(parent, index, b, "skipped")
  /\ skipped' = TRUE /\ stack' = k
  /\ UNCHANGED <<seen, result>>

inspect(b, parent, index, power, depth, k) ==
  LET limited == depth > limits.MaxDepth \/ Len(visits) = limits.MaxComponents
  IN \/ limited /\ Fails /\ UNCHANGED visits /\ Keeping(k)
     \/ ~limited /\ power /\ Skip(b, parent, index, k)
     \/ ~limited /\ ~power /\ Descend(b, parent, index, depth, k)
     \/ ~limited /\ ~power /\ Leaf(b, parent, index, k)
     \/ ~limited /\ ~power /\ Unidentified(b, parent, index, k)

\* Walk: the root has no parent and no entry.
Start ==
  /\ Running /\ visits = <<>>
  /\ inspect(base, 0, -1, FALSE, 0, stack)
  /\ UNCHANGED <<rom, limits, base, entries>>

Top == stack[Len(stack)]

Popped == SubSeq(stack, 1, Len(stack) - 1)

Exhausted == Top.next = EntryCount(rom, Top.base)

\* next: the context has ended.
Cancelled ==
  /\ Running /\ stack # <<>>
  /\ Fails
  /\ UNCHANGED <<rom, limits, base, visits, stack, seen, entries, skipped>>

\* next: a table without further entries.
Finished ==
  /\ Running /\ stack # <<>> /\ Exhausted
  /\ stack' = Popped
  /\ UNCHANGED <<rom, limits, base, visits, seen, entries, skipped, result>>

\* next: the limit of entries is reached.
Limited ==
  /\ Running /\ stack # <<>> /\ ~Exhausted /\ entries = limits.MaxEntries
  /\ Fails
  /\ UNCHANGED <<rom, limits, base, visits, stack, seen, entries, skipped>>

\* next: an entry is read; frame.next moves on before the entry is looked at.
Reading == Running /\ stack # <<>> /\ ~Exhausted /\ entries # limits.MaxEntries /\ entries' = entries + 1

Advanced == [stack EXCEPT ![Len(stack)] = [Top EXCEPT !.next = @ + 1]]

ReadFailed ==
  /\ Reading /\ Fails
  /\ UNCHANGED <<rom, limits, base, visits, stack, seen, skipped>>

Terminator ==
  /\ Reading /\ Decoded(rom, Top.base, Top.next) = "end"
  /\ stack' = Popped
  /\ UNCHANGED <<rom, limits, base, visits, seen, skipped, result>>

Absent ==
  /\ Reading /\ Decoded(rom, Top.base, Top.next) = "absent"
  /\ stack' = Advanced
  /\ UNCHANGED <<rom, limits, base, visits, seen, skipped, result>>

Present ==
  /\ Reading /\ Decoded(rom, Top.base, Top.next) = "present"
  /\ inspect(Child(rom, Top.base, Top.next), Top.parent, Top.next,
             Powered(rom, Top.base, Top.next), Top.depth + 1, Advanced)
  /\ UNCHANGED <<rom, limits, base>>

\* Walk returns; power domains that were skipped make it an error as well.
Return ==
  /\ Running /\ visits # <<>> /\ stack = <<>>
  /\ result' = IF skipped THEN "skipped" ELSE "ok"
  /\ UNCHANGED <<rom, limits, base, visits, stack, seen, entries, skipped>>

Init ==
  /\ rom \in Roms /\ base \in 0 .. Pages - 1
  /\ limits \in Limits \cap WalkLimits /\ Validate(limits)
  /\ visits = <<>> /\ stack = <<>> /\ seen = {} /\ entries = 0 /\ skipped = FALSE
  /\ result = "running"

Next ==
  \/ Start \/ Cancelled \/ Finished \/ Limited \/ ReadFailed \/ Terminator \/ Absent \/ Present \/ Return

Spec == Init /\ [][Next]_vars

-----------------------------------------------------------------------------

Visit == [parent : Nat, index : Int, base : Int, outcome : {"table", "leaf", "failed", "skipped"}]

Frame == [base : Int, parent : Nat, next : Nat, depth : Nat]

\* The fields have their types.
TypeOK ==
  /\ base \in 0 .. Pages - 1
  /\ limits \in WalkLimits /\ Validate(limits)
  /\ visits \in Seq(Visit) /\ stack \in Seq(Frame)
  /\ seen \subseteq Int /\ entries \in Nat /\ skipped \in BOOLEAN
  /\ result \in {"running", "ok", "skipped", "error"}

\* Entry i of the table of visit p was absent, or its child is among the visits vs.
Handled(m, vs, p, i) ==
  LET b == vs[p].base
  IN \/ Decoded(m, b, i) = "absent"
     \/ /\ Decoded(m, b, i) = "present"
        /\ \E v \in 1 .. Len(vs) :
             /\ vs[v].parent = p /\ vs[v].index = i /\ vs[v].base = Child(m, b, i)
             /\ vs[v].outcome \in (IF Powered(m, b, i) THEN {"skipped"} ELSE {"table", "leaf"})

\* The entries before the terminator.
Inhabited(m, b) == {i \in 0 .. EntryCount(m, b) - 1 : \A j \in 0 .. i : Decoded(m, b, j) # "end"}

\* Each visit but that of the root is of an entry: its parent is an earlier visit of
\* a table, and its base is where the entry's signed offset leads, without wrapping.
VisitsFaithful(m, vs) ==
  \A v \in 2 .. Len(vs) :
    LET visit == vs[v]
    IN /\ visit.parent \in 1 .. v - 1 /\ vs[visit.parent].outcome = "table"
       /\ LET b == vs[visit.parent].base
          IN visit.base = b + Offset(m, b, m[b].entries[visit.index + 1].offset)

\* Walk visits what the tables list, and a walk that reports no more than skipped power
\* domains has inspected all of it: the root, and the child of every present entry before
\* the terminator of every table; only children in power domains were left out.
WalkFaithful ==
  /\ VisitsFaithful(rom, visits)
  /\ result \in {"ok", "skipped"} =>
       /\ visits # <<>> /\ visits[1].base = base
       /\ \A v \in 1 .. Len(visits) :
            /\ visits[v].outcome # "failed"
            /\ visits[v].outcome = "table" => \A i \in Inhabited(rom, visits[v].base) : Handled(rom, visits, v, i)

\* However tables refer to each other, Walk reads none twice, and keeps to WalkLimits.
WalkBounded ==
  /\ \A v, w \in 1 .. Len(visits) :
       visits[v].outcome = "table" /\ visits[w].outcome = "table" /\ visits[v].base = visits[w].base => v = w
  /\ Len(visits) <= limits.MaxComponents /\ entries <= limits.MaxEntries
  /\ Len(stack) <= limits.MaxDepth + 1

=============================================================================
