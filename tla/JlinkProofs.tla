---------------------------- MODULE JlinkProofs ----------------------------
(***************************************************************************)
(* A J-Link session (JlinkHost), one of the Owners: its inductive          *)
(* invariant JlinkInv, kept by every step of every command.                *)
(***************************************************************************)
EXTENDS JlinkAdapter, TLAPS

-----------------------------------------------------------------------------
\* J-Link.

\* What Set and Clear do to a session.
LEMMA JlinkFlags ==
  ASSUME NEW y \in J!Sessions, NEW s \in SUBSET J!Flags
  PROVE  /\ J!Set(y, s) \in J!Sessions /\ J!Set(y, s).on = y.on \cup s
         /\ J!Set(y, s).selected = y.selected /\ J!Set(y, s).wire = y.wire
         /\ J!Set(y, s).input = y.input /\ J!Set(y, s).pipe = y.pipe
         /\ J!Clear(y, s) \in J!Sessions /\ J!Clear(y, s).on = y.on \ s
         /\ J!Clear(y, s).selected = y.selected /\ J!Clear(y, s).wire = y.wire
         /\ J!Clear(y, s).input = y.input /\ J!Clear(y, s).pipe = y.pipe
BY DEF J!Sessions, J!Set, J!Clear

\* Nothing the session may still read is an answer, but for an empty packet.
JlinkClean(y) ==
  y.input.items = 0 /\ Len(y.pipe) <= 1 /\ \A k \in 1..Len(y.pipe) : y.pipe[k].items = 0

\* No answer the session may still read belongs to an earlier command.
JlinkFresh(y) ==
  /\ y.input.items > 0 => ~y.input.stale
  /\ \A k \in 1..Len(y.pipe) : y.pipe[k].items > 0 => ~y.pipe[k].stale

\* Of the n packets of s, one with items is followed by at most one packet, which has
\* none.
JlinkLast(s, n) ==
  \A k \in 1..n : s[k].items > 0 => n <= k + 1 /\ \A m \in 1..n : m > k => s[m].items = 0

\* The first packet with items is followed by what the second part of an answer needs.
JlinkTwo(s, n) ==
  \A k \in 1..n : s[k].items > 0 /\ (\A m \in 1..n : m < k => s[m].items = 0) =>
    \/ s[k].items = 1 /\ \A m \in 1..n : m > k /\ s[m].items > 0 =>
                            n <= m + 1 /\ \A l \in 1..n : l > m => s[l].items = 0
    \/ s[k].items > 1 /\ n <= k + 1 /\ \A m \in 1..n : m > k => s[m].items = 0

\* What Append does to a sequence.
LEMMA Appended ==
  ASSUME NEW S, NEW s \in Seq(S), NEW b \in S
  PROVE  Append(s, b) \in Seq(S) /\ Len(Append(s, b)) = Len(s) + 1 /\ Append(s, b)[Len(s) + 1] = b
OBVIOUS

\* Append keeps the elements before it.
LEMMA AppendKeeps ==
  ASSUME NEW S, NEW s \in Seq(S), NEW b \in S, NEW k \in 1..Len(s) PROVE Append(s, b)[k] = s[k]
OBVIOUS

\* A sequence of one element and another.
LEMMA AppendedToOne ==
  ASSUME NEW S, NEW s \in Seq(S), NEW b \in S, Len(s) = 1
  PROVE  Append(s, b) \in Seq(S) /\ Len(Append(s, b)) = 2 /\ Append(s, b)[1] = s[1] /\ Append(s, b)[2] = b
<1>1. Len(s) + 1 = 2 /\ 1 \in 1..Len(s) OBVIOUS
<1>2. Append(s, b) \in Seq(S) /\ Len(Append(s, b)) = Len(s) + 1 BY Zenon, Appended
<1>3. \A k \in 1..Len(s) : Append(s, b)[k] = s[k] BY AppendKeeps
<1>4. Append(s, b)[Len(s) + 1] = b BY ZenonT(30), Appended
<1> QED BY <1>1, <1>2, <1>3, <1>4

\* A sequence of two elements and another.
LEMMA AppendedToTwo ==
  ASSUME NEW S, NEW s \in Seq(S), NEW b \in S, Len(s) = 2
  PROVE  /\ Append(s, b) \in Seq(S) /\ Len(Append(s, b)) = 3
         /\ Append(s, b)[1] = s[1] /\ Append(s, b)[2] = s[2] /\ Append(s, b)[3] = b
<1>1. Len(s) + 1 = 3 /\ 1 \in 1..Len(s) /\ 2 \in 1..Len(s) OBVIOUS
<1>2. Append(s, b) \in Seq(S) /\ Len(Append(s, b)) = Len(s) + 1 BY Zenon, Appended
<1>3. \A k \in 1..Len(s) : Append(s, b)[k] = s[k] BY Zenon, AppendKeeps
<1>4. Append(s, b)[Len(s) + 1] = b BY ZenonT(30), Appended
<1> QED BY <1>1, <1>2, <1>3, <1>4

\* At most one empty packet follows a complete answer.
LEMMA JlinkShapeLast ==
  ASSUME NEW s, NEW n \in 1..2, n = 2 => s[2].items = 0
  PROVE  JlinkLast(s, n)
<1>1. CASE n = 1 BY <1>1 DEF JlinkLast
<1>2. CASE n = 2 BY <1>2 DEF JlinkLast
<1> QED BY <1>1, <1>2

\* The shapes of an answer in two items.
LEMMA JlinkShapeTwo ==
  ASSUME NEW s, NEW n \in 1..3, s[1].items \in 0..3,
         n = 2 => s[2].items = 0 \/ (s[1].items = 1 /\ s[2].items = 1),
         n = 3 => s[1].items = 1 /\ s[2].items = 1 /\ s[3].items = 0
  PROVE  JlinkTwo(s, n)
<1>1. CASE n = 1 BY <1>1 DEF JlinkTwo
<1>2. CASE n = 2 BY <1>2 DEF JlinkTwo
<1>3. CASE n = 3 BY <1>3 DEF JlinkTwo
<1> QED BY <1>1, <1>2, <1>3

\* The packets an answer of one item arrives in.
LEMMA JlinkAnswersOne ==
  ASSUME NEW quiet \in BOOLEAN, NEW a \in J!AnswerSet(1, quiet)
  PROVE  /\ a \in Seq(J!Packets) /\ Len(a) \in 1..3 /\ JlinkLast(a, Len(a))
         /\ \A k \in 1..Len(a) : ~a[k].stale
<1> DEFINE zero == [items |-> 0, stale |-> FALSE]
           one == [items |-> 1, stale |-> FALSE]
           two == [items |-> 2, stale |-> FALSE]
<1>1. \/ a = <<one>> \/ a = [j \in 1..1 |-> one]
      \/ a = Append(<<one>>, zero) \/ a = Append([j \in 1..1 |-> one], zero)
      \/ a = <<two>> \/ a = <<zero>> \/ a = <<zero, zero>>
  <2>1. 1 + 1 = 2 /\ 1 - 1 = 0 OBVIOUS
  <2> QED BY <2>1 DEF J!AnswerSet, J!Faults, J!Answers, J!FaultyAnswers
<1>2. /\ {zero, one, two} \subseteq J!Packets
      /\ zero.items = 0 /\ ~zero.stale /\ ~one.stale /\ ~two.stale
  BY DEF J!Packets
<1> HIDE DEF zero, one, two
<1>3. ASSUME NEW w, w = <<one>> \/ w = [j \in 1..1 |-> one]
      PROVE  w \in Seq(J!Packets) /\ Len(w) = 1 /\ w[1] = one
  <2>1. one \in J!Packets BY <1>2
  <2>2. CASE w = <<one>> BY <2>1, <2>2
  <2>3. CASE w = [j \in 1..1 |-> one] BY <2>1, <2>3
  <2> QED BY <1>3, <2>2, <2>3
<1>4. /\ a \in Seq(J!Packets)
      /\ \/ Len(a) = 1 /\ a[1] \in {zero, one, two}
         \/ Len(a) = 2 /\ a[1] \in {zero, one} /\ a[2] = zero
  <2>1. CASE a = <<one>> \/ a = [j \in 1..1 |-> one] BY <1>3, <2>1
  <2>2. ASSUME NEW w, w = <<one>> \/ w = [j \in 1..1 |-> one], a = Append(w, zero)
        PROVE  a \in Seq(J!Packets) /\ Len(a) = 2 /\ a[1] = one /\ a[2] = zero
    <3>1. w \in Seq(J!Packets) /\ Len(w) = 1 /\ w[1] = one BY <1>3, <2>2
    <3>2. zero \in J!Packets BY <1>2
    <3>3. /\ Append(w, zero) \in Seq(J!Packets) /\ Len(Append(w, zero)) = 2
          /\ Append(w, zero)[1] = w[1] /\ Append(w, zero)[2] = zero
      BY <3>1, <3>2, AppendedToOne
    <3> QED BY <2>2, <3>1, <3>3
  <2>3. CASE a = <<two>> \/ a = <<zero>>
    <3>1. {zero, two} \subseteq J!Packets BY <1>2
    <3>2. CASE a = <<two>> BY <3>1, <3>2
    <3>3. CASE a = <<zero>> BY <3>1, <3>3
    <3> QED BY <2>3, <3>2, <3>3
  <2>4. CASE a = <<zero, zero>> BY <1>2, <2>4
  <2> QED BY Zenon, <1>1, <2>1, <2>2, <2>3, <2>4
<1> DEFINE n == Len(a)
<1>5. n \in 1..2 /\ (n = 2 => a[2].items = 0) BY <1>2, <1>4
<1>6. n \in 1..2 /\ ~a[1].stale /\ (n = 2 => ~a[2].stale) BY <1>2, <1>4
<1> HIDE DEF n
<1>7. JlinkLast(a, n) BY <1>5, JlinkShapeLast
<1>8. \A k \in 1..n : ~a[k].stale BY <1>6
<1>9. n \in 1..3 BY <1>6
<1> QED BY <1>4, <1>7, <1>8, <1>9 DEF n

\* The packets an answer of two items arrives in.
LEMMA JlinkAnswersTwo ==
  ASSUME NEW quiet \in BOOLEAN, NEW a \in J!AnswerSet(2, quiet)
  PROVE  /\ a \in Seq(J!Packets) /\ Len(a) \in 1..3 /\ JlinkTwo(a, Len(a))
         /\ \A k \in 1..Len(a) : ~a[k].stale
<1> DEFINE zero == [items |-> 0, stale |-> FALSE]
           one == [items |-> 1, stale |-> FALSE]
           two == [items |-> 2, stale |-> FALSE]
           three == [items |-> 3, stale |-> FALSE]
<1>1. \/ a = <<two>> \/ a = [j \in 1..2 |-> one]
      \/ a = Append(<<two>>, zero) \/ a = Append([j \in 1..2 |-> one], zero)
      \/ a = <<three>> \/ a = <<one>> \/ a = <<zero, zero>>
  <2>1. 2 + 1 = 3 /\ 2 - 1 = 1 /\ 2 # 0 OBVIOUS
  <2> QED BY <2>1 DEF J!AnswerSet, J!Faults, J!Answers, J!FaultyAnswers
<1>2. /\ {zero, one, two, three} \subseteq J!Packets
      /\ zero.items = 0 /\ one.items = 1 /\ two.items = 2 /\ three.items = 3
      /\ ~zero.stale /\ ~one.stale /\ ~two.stale /\ ~three.stale
  BY DEF J!Packets
<1> HIDE DEF zero, one, two, three
<1>3. ASSUME NEW p, p \in {one, two, three}
      PROVE  <<p>> \in Seq(J!Packets) /\ Len(<<p>>) = 1 /\ <<p>>[1] = p
  <2>1. p \in J!Packets BY <1>2, <1>3
  <2> QED BY <2>1
<1>4. [j \in 1..2 |-> one] \in Seq(J!Packets) /\ Len([j \in 1..2 |-> one]) = 2
      /\ [j \in 1..2 |-> one][1] = one /\ [j \in 1..2 |-> one][2] = one
  <2>1. one \in J!Packets BY <1>2
  <2> QED BY <2>1
<1>5. /\ a \in Seq(J!Packets)
      /\ \/ Len(a) = 1 /\ a[1] \in {one, two, three}
         \/ Len(a) = 2 /\ a[1] \in {zero, two} /\ a[2] = zero
         \/ Len(a) = 2 /\ a[1] = one /\ a[2] = one
         \/ Len(a) = 3 /\ a[1] = one /\ a[2] = one /\ a[3] = zero
  <2>0. zero \in J!Packets BY <1>2
  <2>1. CASE a = <<two>> BY <1>3, <2>1
  <2>2. CASE a = [j \in 1..2 |-> one] BY <1>4, <2>2
  <2>3. CASE a = Append(<<two>>, zero)
    <3> DEFINE w == <<two>>
    <3>1. w \in Seq(J!Packets) /\ Len(w) = 1 /\ w[1] = two BY <1>3
    <3> HIDE DEF w
    <3>2. /\ Append(w, zero) \in Seq(J!Packets) /\ Len(Append(w, zero)) = 2
          /\ Append(w, zero)[1] = w[1] /\ Append(w, zero)[2] = zero
      BY <2>0, <3>1, AppendedToOne
    <3>3. a = Append(w, zero) BY <2>3 DEF w
    <3> QED BY <3>1, <3>2, <3>3
  <2>4. CASE a = Append([j \in 1..2 |-> one], zero)
    <3> DEFINE w == [j \in 1..2 |-> one]
    <3>1. w \in Seq(J!Packets) /\ Len(w) = 2 /\ w[1] = one /\ w[2] = one BY <1>4
    <3> HIDE DEF w
    <3>2. /\ Append(w, zero) \in Seq(J!Packets) /\ Len(Append(w, zero)) = 3
          /\ Append(w, zero)[1] = w[1] /\ Append(w, zero)[2] = w[2] /\ Append(w, zero)[3] = zero
      BY <2>0, <3>1, AppendedToTwo
    <3>3. a = Append(w, zero) BY <2>4 DEF w
    <3> QED BY <3>1, <3>2, <3>3
  <2>5. CASE a = <<three>> \/ a = <<one>> BY Zenon, <1>3, <2>5
  <2>6. CASE a = <<zero, zero>> BY <2>0, <2>6
  <2> QED BY <1>1, <2>1, <2>2, <2>3, <2>4, <2>5, <2>6
<1> DEFINE n == Len(a)
<1>6. /\ n \in 1..3 /\ a[1].items \in 0..3
      /\ n = 2 => a[2].items = 0 \/ (a[1].items = 1 /\ a[2].items = 1)
      /\ n = 3 => a[1].items = 1 /\ a[2].items = 1 /\ a[3].items = 0
  <2>1. CASE n = 1 BY <1>2, <1>5, <2>1
  <2>2. CASE n = 2 BY <1>2, <1>5, <2>2
  <2>3. CASE n = 3 BY <1>2, <1>5, <2>3
  <2> QED BY <1>5, <2>1, <2>2, <2>3
<1>7. /\ n \in 1..3 /\ ~a[1].stale /\ (n >= 2 => ~a[2].stale) /\ (n = 3 => ~a[3].stale) BY <1>2, <1>5
<1> HIDE DEF n
<1>8. JlinkTwo(a, n) BY <1>6, JlinkShapeTwo
<1>9. \A k \in 1..n : ~a[k].stale BY <1>7
<1> QED BY <1>5, <1>7, <1>8, <1>9 DEF n

\* What concatenation does to sequences.
LEMMA Joined ==
  ASSUME NEW S, NEW s \in Seq(S), NEW t \in Seq(S)
  PROVE  s \o t \in Seq(S) /\ Len(s \o t) = Len(s) + Len(t)
OBVIOUS

\* The elements of the first sequence.
LEMMA JoinedLeft ==
  ASSUME NEW S, NEW s \in Seq(S), NEW t \in Seq(S), NEW k \in 1..Len(s) PROVE (s \o t)[k] = s[k]
OBVIOUS

\* The elements of the second sequence.
LEMMA JoinedRight ==
  ASSUME NEW S, NEW s \in Seq(S), NEW t \in Seq(S), NEW k \in 1..Len(t) PROVE (s \o t)[Len(s) + k] = t[k]
OBVIOUS

\* An empty packet before an answer does not change its shape.
LEMMA JlinkBehind ==
  ASSUME NEW v, NEW a, NEW m \in 0..1, NEW n \in 0..3,
         m = 1 => v[1].items = 0, \A k \in 1..n : v[m + k] = a[k]
  PROVE  /\ JlinkLast(a, n) => JlinkLast(v, m + n)
         /\ JlinkTwo(a, n) => JlinkTwo(v, m + n)
<1>1. CASE m = 0
  <2>1. \A k \in 1..n : v[k] = a[k]
    <3>1. \A k \in 1..n : m + k = k BY <1>1
    <3> QED BY <3>1
  <2>2. m + n = n BY <1>1
  <2>3. JlinkLast(a, n) => JlinkLast(v, n) BY <2>1 DEF JlinkLast
  <2>4. JlinkTwo(a, n) => JlinkTwo(v, n) BY <2>1 DEF JlinkTwo
  <2> QED BY <2>2, <2>3, <2>4
<1>2. CASE m = 1
  <2>1. \A k \in 1..(m + n) : k = 1 \/ (k - 1 \in 1..n /\ v[k] = a[k - 1])
    <3> SUFFICES ASSUME NEW k \in 1..(m + n), k # 1 PROVE k - 1 \in 1..n /\ v[k] = a[k - 1] OBVIOUS
    <3>1. k - 1 \in 1..n /\ m + (k - 1) = k BY <1>2
    <3> QED BY <3>1
  <2>2. v[1].items = 0 /\ m + n = n + 1 BY <1>2
  <2>3. ASSUME JlinkLast(a, n) PROVE JlinkLast(v, n + 1)
    <3> SUFFICES ASSUME NEW k \in 1..(n + 1), v[k].items > 0
        PROVE  n + 1 <= k + 1 /\ \A l \in 1..(n + 1) : l > k => v[l].items = 0
      BY DEF JlinkLast
    <3>1. k # 1 /\ k - 1 \in 1..n /\ v[k] = a[k - 1] BY <2>1, <2>2
    <3>2. n <= (k - 1) + 1 /\ \A l \in 1..n : l > k - 1 => a[l].items = 0 BY <2>3, <3>1 DEF JlinkLast
    <3>3. ASSUME NEW l \in 1..(n + 1), l > k PROVE v[l].items = 0
      <4>1. l - 1 \in 1..n /\ v[l] = a[l - 1] /\ l - 1 > k - 1 BY <2>1, <2>2, <3>1, <3>3
      <4> QED BY <3>2, <4>1
    <3> QED BY <3>1, <3>2, <3>3
  <2>4. ASSUME JlinkTwo(a, n) PROVE JlinkTwo(v, n + 1)
    <3> SUFFICES ASSUME NEW k \in 1..(n + 1), v[k].items > 0, \A j \in 1..(n + 1) : j < k => v[j].items = 0
        PROVE  \/ v[k].items = 1 /\ \A j \in 1..(n + 1) : j > k /\ v[j].items > 0 =>
                                n + 1 <= j + 1 /\ \A l \in 1..(n + 1) : l > j => v[l].items = 0
               \/ v[k].items > 1 /\ n + 1 <= k + 1 /\ \A j \in 1..(n + 1) : j > k => v[j].items = 0
      BY DEF JlinkTwo
    <3>1. k # 1 /\ k - 1 \in 1..n /\ v[k] = a[k - 1] BY <2>1, <2>2
    <3>2. ASSUME NEW j \in 1..n, j < k - 1 PROVE a[j].items = 0
      <4>1. j + 1 \in 1..(m + n) /\ j + 1 \in 1..(n + 1) /\ j + 1 # 1 /\ (j + 1) - 1 = j /\ j + 1 < k
        BY <2>2, <3>1, <3>2
      <4> QED BY <2>1, <4>1
    <3>3. \/ a[k - 1].items = 1 /\ \A j \in 1..n : j > k - 1 /\ a[j].items > 0 =>
                                n <= j + 1 /\ \A l \in 1..n : l > j => a[l].items = 0
          \/ a[k - 1].items > 1 /\ n <= (k - 1) + 1 /\ \A j \in 1..n : j > k - 1 => a[j].items = 0
      BY <2>4, <3>1, <3>2 DEF JlinkTwo
    <3>4. \A j \in 1..(n + 1) : j > k => j - 1 \in 1..n /\ v[j] = a[j - 1] /\ j - 1 > k - 1 BY <2>1, <2>2, <3>1
    <3>5. CASE a[k - 1].items > 1 /\ n <= (k - 1) + 1 /\ \A j \in 1..n : j > k - 1 => a[j].items = 0
      BY <3>1, <3>4, <3>5
    <3>6. CASE a[k - 1].items = 1 /\ \A j \in 1..n : j > k - 1 /\ a[j].items > 0 =>
                                n <= j + 1 /\ \A l \in 1..n : l > j => a[l].items = 0
      <4>1. ASSUME NEW j \in 1..(n + 1), j > k, v[j].items > 0 PROVE n + 1 <= j + 1
        BY <3>4, <3>6, <4>1
      <4>2. ASSUME NEW j \in 1..(n + 1), j > k, v[j].items > 0, NEW l \in 1..(n + 1), l > j
            PROVE  v[l].items = 0
        <5>1. l > k /\ l - 1 > j - 1 BY <4>2
        <5> QED BY <3>4, <3>6, <4>2, <5>1
      <4> QED BY <3>1, <3>6, <4>1, <4>2
    <3> QED BY <3>3, <3>5, <3>6
  <2> QED BY <2>2, <2>3, <2>4
<1> QED BY <1>1, <1>2

\* What the session may read after a command is its answer.
LEMMA JlinkSent ==
  ASSUME NEW y \in J!Sessions, JlinkClean(y), NEW a \in Seq(J!Packets), Len(a) \in 0..3,
         \A k \in 1..Len(a) : ~a[k].stale
  PROVE  /\ J!Sent(y, a) \in J!Sessions /\ J!Sent(y, a).on = y.on
         /\ J!Sent(y, a).selected = y.selected /\ J!Sent(y, a).wire = y.wire
         /\ J!Sent(y, a).input.items = 0 /\ JlinkFresh(J!Sent(y, a))
         /\ Len(J!Sent(y, a).pipe) = Len(y.pipe) + Len(a)
         /\ JlinkLast(a, Len(a)) => JlinkLast(J!Sent(y, a).pipe, Len(J!Sent(y, a).pipe))
         /\ JlinkTwo(a, Len(a)) => JlinkTwo(J!Sent(y, a).pipe, Len(J!Sent(y, a).pipe))
         /\ Len(a) = 0 => JlinkClean(J!Sent(y, a))
<1> DEFINE z == J!Sent(y, a)
           old == J!Aged(y.pipe)
           m == Len(y.pipe)
           n == Len(a)
           v == old \o a
<1>0. y.pipe \in Seq(J!Packets) BY DEF J!Sessions
<1>1. m \in 0..1 /\ DOMAIN y.pipe = 1..m /\ n \in 0..3
  <2>1. m \in Nat /\ DOMAIN y.pipe = 1..m BY <1>0
  <2>2. m <= 1 /\ n \in 0..3 BY DEF JlinkClean
  <2> HIDE DEF m, n
  <2> QED BY <2>1, <2>2
<1>2. \A k \in 1..m : y.pipe[k] \in J!Packets /\ y.pipe[k].items = 0 BY <1>0 DEF JlinkClean
<1>3. \A k \in 1..m : old[k] = [y.pipe[k] EXCEPT !.stale = TRUE] BY <1>1 DEF J!Aged
<1>4. \A k \in 1..m : old[k] \in J!Packets /\ old[k].items = 0
  <2>1. ASSUME NEW p \in J!Packets
        PROVE  [p EXCEPT !.stale = TRUE] \in J!Packets /\ [p EXCEPT !.stale = TRUE].items = p.items
    BY Zenon DEF J!Packets
  <2> HIDE DEF old, m
  <2> QED BY Zenon, <1>2, <1>3, <2>1
<1>5. old \in Seq(J!Packets) /\ Len(old) = m
  <2>1. old \in [1..m -> J!Packets] BY Zenon, <1>1, <1>3, <1>4 DEF J!Aged
  <2> HIDE DEF old, m
  <2> QED BY <1>1, <2>1
<1>6. /\ z.pipe = v /\ z.on = y.on /\ z.selected = y.selected /\ z.wire = y.wire
      /\ z.input = J!AgedInput(y.input)
      /\ z = [on |-> y.on, selected |-> y.selected, wire |-> y.wire, input |-> z.input, pipe |-> v]
  <2> DEFINE input == J!AgedInput(y.input)
  <2>1. z = [y EXCEPT !.pipe = v, !.input = input] BY DEF J!Sent
  <2>2. y = [on |-> y.on, selected |-> y.selected, wire |-> y.wire, input |-> y.input, pipe |-> y.pipe]
    BY DEF J!Sessions
  <2> HIDE DEF z, v, input
  <2>3. z = [on |-> y.on, selected |-> y.selected, wire |-> y.wire, input |-> input, pipe |-> v] BY Zenon, <2>1, <2>2
  <2> QED BY <2>3 DEF input
<1> HIDE DEF z, old, m, n
<1>7. z.input \in [items : 0..3, stale : BOOLEAN] /\ z.input.items = 0 BY <1>6 DEF J!Sessions, JlinkClean, J!AgedInput
<1>8. v \in Seq(J!Packets) /\ Len(v) = m + n BY <1>5, Joined DEF n
<1>9. \A k \in 1..m : v[k] = old[k]
  <2> SUFFICES ASSUME NEW k \in 1..Len(old) PROVE v[k] = old[k] BY <1>5
  <2> QED BY <1>5, JoinedLeft
<1>10. \A k \in 1..n : v[m + k] = a[k]
  <2> SUFFICES ASSUME NEW k \in 1..Len(a) PROVE v[Len(old) + k] = a[k] BY <1>5 DEF n
  <2> QED BY <1>5, JoinedRight
<1> HIDE DEF v
<1>11. z \in J!Sessions BY <1>6, <1>7, <1>8 DEF J!Sessions
<1>12. m = 1 => v[1].items = 0 BY <1>4, <1>9
<1>13. (JlinkLast(a, n) => JlinkLast(v, m + n)) /\ (JlinkTwo(a, n) => JlinkTwo(v, m + n))
  BY Zenon, <1>1, <1>10, <1>12, JlinkBehind
<1>14. ASSUME NEW k \in 1..(m + n), v[k].items > 0 PROVE ~v[k].stale
  <2>1. k > m
    <3>1. CASE k \in 1..m
      <4>1. v[k].items = 0 BY <1>4, <1>9, <3>1
      <4> QED BY <1>14, <4>1
    <3>2. CASE k \notin 1..m BY <1>1, <3>2
    <3> QED BY <3>1, <3>2
  <2>2. k - m \in 1..n /\ m + (k - m) = k BY <1>1, <2>1
  <2>3. v[k] = a[k - m] BY <1>10, <2>2
  <2>4. ~a[k - m].stale BY <2>2 DEF n
  <2> QED BY <2>3, <2>4
<1>15. JlinkFresh(z) BY <1>6, <1>7, <1>8, <1>14 DEF JlinkFresh
<1>16. n = 0 => JlinkClean(z)
  <2> SUFFICES ASSUME n = 0 PROVE z.input.items = 0 /\ Len(v) <= 1 /\ \A k \in 1..Len(v) : v[k].items = 0
    BY <1>6 DEF JlinkClean
  <2>1. Len(v) = m BY <1>1, <1>8
  <2> QED BY <1>1, <1>4, <1>7, <1>9, <2>1
<1> QED BY <1>6, <1>7, <1>8, <1>11, <1>13, <1>15, <1>16 DEF z, m, n

\* What the commands of a session leave alone.
JlinkLasting == {"device", "claim", "file", "iface", "closing", "owned"}

\* z may follow y in a session: it holds the same resources, and a poisoned or
\* removed session stays so.
JlinkSame(y, z) ==
  /\ z \in J!Sessions
  /\ \A f \in JlinkLasting : f \in z.on <=> f \in y.on
  /\ "poisoned" \in y.on => "poisoned" \in z.on
  /\ "gone" \in y.on => "gone" \in z.on
  /\ "mixed" \in z.on => "mixed" \in y.on
  /\ "astray" \in z.on => "astray" \in y.on
  /\ Len(y.pipe) <= MaxStale + 4 => Len(z.pipe) <= MaxStale + 4

\* JlinkSame is transitive.
LEMMA JlinkSameTransitive ==
  ASSUME NEW y, NEW z, NEW w, JlinkSame(y, z), JlinkSame(z, w) PROVE JlinkSame(y, w)
BY DEF JlinkSame

\* The configuration of a session is unchanged.
JlinkKept(y, z) ==
  /\ z.selected = y.selected /\ z.wire = y.wire
  /\ \A f \in {"configured", "failed"} : f \in z.on <=> f \in y.on

\* JlinkKept is transitive.
LEMMA JlinkKeptTransitive ==
  ASSUME NEW y, NEW z, NEW w, JlinkKept(y, z), JlinkKept(z, w) PROVE JlinkKept(y, w)
BY DEF JlinkKept

\* A removal of the device changes nothing else.
LEMMA JlinkLosses ==
  ASSUME NEW y \in J!Sessions, NEW z \in J!Losses(y)
  PROVE  /\ JlinkSame(y, z) /\ JlinkKept(y, z) /\ z.input = y.input /\ z.pipe = y.pipe
         /\ z = y \/ "gone" \in z.on
<1>1. /\ J!Set(y, {"gone"}) \in J!Sessions /\ J!Set(y, {"gone"}).on = y.on \cup {"gone"}
      /\ J!Set(y, {"gone"}).selected = y.selected /\ J!Set(y, {"gone"}).wire = y.wire
      /\ J!Set(y, {"gone"}).input = y.input /\ J!Set(y, {"gone"}).pipe = y.pipe
  BY JlinkFlags DEF J!Flags
<1>2. CASE z = y BY <1>2 DEF JlinkSame, JlinkKept
<1>3. CASE z = J!Set(y, {"gone"}) BY <1>1, <1>3 DEF JlinkSame, JlinkKept, JlinkLasting
<1> QED BY <1>2, <1>3 DEF J!Losses

\* poison only marks the session.
LEMMA JlinkPoison ==
  ASSUME NEW y \in J!Sessions
  PROVE  /\ JlinkSame(y, J!Poison(y)) /\ JlinkKept(y, J!Poison(y)) /\ "poisoned" \in J!Poison(y).on
         /\ J!Poison(y).pipe = y.pipe
<1>1. /\ J!Poison(y) \in J!Sessions /\ J!Poison(y).on = y.on \cup {"poisoned"}
      /\ J!Poison(y).selected = y.selected /\ J!Poison(y).wire = y.wire /\ J!Poison(y).pipe = y.pipe
  BY JlinkFlags DEF J!Flags, J!Poison
<1> QED BY <1>1 DEF JlinkSame, JlinkKept, JlinkLasting

\* sessionReady in terms of the flags.
LEMMA JlinkReady ==
  ASSUME NEW y PROVE J!sessionReady(y) <=> /\ "device" \in y.on /\ "claim" \in y.on
                                           /\ "closing" \notin y.on /\ "gone" \notin y.on /\ "poisoned" \notin y.on
BY DEF J!sessionReady

\* Answers a command may bring.
JlinkAnswer(a) == a \in Seq(J!Packets) /\ Len(a) \in 0..3 /\ \A k \in 1..Len(a) : ~a[k].stale

\* A command changes only what may be read.
LEMMA JlinkSending ==
  ASSUME NEW y \in J!Sessions, JlinkClean(y), NEW a, JlinkAnswer(a)
  PROVE  /\ JlinkSame(y, J!Sent(y, a)) /\ JlinkKept(y, J!Sent(y, a)) /\ J!Sent(y, a).on = y.on
<1>1. /\ J!Sent(y, a) \in J!Sessions /\ J!Sent(y, a).on = y.on
      /\ J!Sent(y, a).selected = y.selected /\ J!Sent(y, a).wire = y.wire
      /\ Len(J!Sent(y, a).pipe) = Len(y.pipe) + Len(a)
  BY JlinkSent DEF JlinkAnswer
<1>2. Len(y.pipe) \in Nat
  <2>1. y.pipe \in Seq(J!Packets) BY DEF J!Sessions
  <2> QED BY <2>1
<1>3. Len(J!Sent(y, a).pipe) <= MaxStale + 4
  <2>1. Len(y.pipe) <= 1 /\ Len(a) \in 0..3 BY DEF JlinkClean, JlinkAnswer
  <2> DEFINE m == Len(y.pipe)
             n == Len(a)
  <2> HIDE DEF m, n
  <2>2. m \in Nat /\ m <= 1 /\ n \in 0..3 BY <1>2, <2>1 DEF m, n
  <2>3. m + n <= MaxStale + 4 BY <2>2, JlinkAssumption
  <2> QED BY <1>1, <2>3 DEF m, n
<1> QED BY <1>1, <1>3 DEF JlinkSame, JlinkKept

\* writeExact sends the whole command, or nothing to a session that stays usable.
LEMMA JlinkWrite ==
  ASSUME NEW y \in J!Sessions, J!sessionReady(y) => JlinkClean(y), NEW answers, \A a \in answers : JlinkAnswer(a),
         NEW quiet \in BOOLEAN, NEW e \in J!writeExact(y, answers, quiet)
  PROVE  /\ JlinkSame(y, e.x) /\ JlinkKept(y, e.x) /\ e.r \in {"ok", "error"}
         /\ e.r = "ok" => J!sessionReady(y) /\ \E a \in answers : e.x = J!Sent(y, a)
         /\ e.r = "ok" => J!sessionReady(e.x)
         /\ e.r = "error" /\ J!sessionReady(e.x) => e.x = y /\ JlinkClean(y)
<1>1. CASE ~J!sessionReady(y)
  <2>1. e = J!Res(y, "error") BY <1>1 DEF J!writeExact
  <2> QED BY <1>1, <2>1 DEF J!Res, JlinkSame, JlinkKept
<1>2. CASE J!sessionReady(y)
  <2>1. JlinkClean(y) BY <1>2
  <2>2. \/ \E a \in answers : e = J!Res(J!Sent(y, a), "ok")
        \/ \E z \in J!Losses(y) : e = J!Res(z, "error")
        \/ \E a \in answers : e = J!Res(J!Poison(J!Res(J!Sent(y, a), "ok").x), "error")
        \/ e = J!Res(J!Poison(J!Res(y, "").x), "error")
    BY Zenon, <1>2 DEF J!writeExact, J!Faults
  <2>3. ASSUME NEW a \in answers, e = J!Res(J!Sent(y, a), "ok")
        PROVE  JlinkSame(y, e.x) /\ JlinkKept(y, e.x) /\ e.r = "ok" /\ J!sessionReady(e.x) /\ e.x = J!Sent(y, a)
    <3>1. e.x = J!Sent(y, a) /\ e.r = "ok" BY <2>3 DEF J!Res
    <3>2. JlinkSame(y, e.x) /\ JlinkKept(y, e.x) /\ e.x.on = y.on BY <2>1, <3>1, JlinkSending
    <3> QED BY <1>2, <3>1, <3>2, JlinkReady
  <2>4. ASSUME NEW z \in J!Losses(y), e = J!Res(z, "error")
        PROVE  JlinkSame(y, e.x) /\ JlinkKept(y, e.x) /\ e.r = "error" /\ (J!sessionReady(e.x) => e.x = y)
    BY <2>4, JlinkLosses, JlinkReady DEF J!Res
  <2>5. ASSUME NEW w \in J!Sessions, JlinkSame(y, w), JlinkKept(y, w), e = J!Res(J!Poison(w), "error")
        PROVE  JlinkSame(y, e.x) /\ JlinkKept(y, e.x) /\ e.r = "error" /\ ~J!sessionReady(e.x)
    <3>1. e.x = J!Poison(w) /\ e.r = "error" BY <2>5 DEF J!Res
    <3>2. JlinkSame(w, e.x) /\ JlinkKept(w, e.x) /\ "poisoned" \in e.x.on BY <3>1, JlinkPoison
    <3> QED BY <2>5, <3>1, <3>2, JlinkSameTransitive, JlinkKeptTransitive, JlinkReady
  <2>6. ASSUME NEW a \in answers, e = J!Res(J!Poison(J!Res(J!Sent(y, a), "ok").x), "error")
        PROVE  JlinkSame(y, e.x) /\ JlinkKept(y, e.x) /\ e.r = "error" /\ ~J!sessionReady(e.x)
    <3>1. J!Res(J!Sent(y, a), "ok").x = J!Sent(y, a) BY DEF J!Res
    <3>2. JlinkSame(y, J!Sent(y, a)) /\ JlinkKept(y, J!Sent(y, a)) BY <2>1, JlinkSending
    <3> QED BY <2>5, <2>6, <3>1, <3>2 DEF JlinkSame
  <2>7. ASSUME e = J!Res(J!Poison(J!Res(y, "").x), "error")
        PROVE  JlinkSame(y, e.x) /\ JlinkKept(y, e.x) /\ e.r = "error" /\ ~J!sessionReady(e.x)
    <3>1. J!Res(y, "").x = y BY DEF J!Res
    <3>2. JlinkSame(y, y) /\ JlinkKept(y, y) BY DEF JlinkSame, JlinkKept
    <3> QED BY Zenon, <2>5, <2>7, <3>1, <3>2
  <2> QED BY Zenon, <1>2, <2>1, <2>2, <2>3, <2>4, <2>6, <2>7
<1> QED BY <1>1, <1>2

\* At most one empty packet is left.
JlinkEmpty(s, n) == n <= 1 /\ \A k \in 1..n : s[k].items = 0

\* What is left to read is the last part of an answer, or two parts of it.
JlinkOwesOne(y) ==
  /\ JlinkFresh(y)
  /\ \/ y.input.items = 0 /\ JlinkLast(y.pipe, Len(y.pipe))
     \/ y.input.items > 0 /\ JlinkEmpty(y.pipe, Len(y.pipe))

\* An answer of two items is on its way.
JlinkOwesTwo(y) == JlinkFresh(y) /\ y.input.items = 0 /\ JlinkTwo(y.pipe, Len(y.pipe))

\* The end of a sequence.
LEMMA Suffix ==
  ASSUME NEW S, NEW s \in Seq(S), NEW j \in 0..Len(s)
  PROVE  SubSeq(s, j + 1, Len(s)) \in Seq(S) /\ Len(SubSeq(s, j + 1, Len(s))) = Len(s) - j
OBVIOUS

\* The elements of the end of a sequence.
LEMMA SuffixElement ==
  ASSUME NEW S, NEW s \in Seq(S), NEW j \in 0..Len(s), NEW k \in 1..(Len(s) - j)
  PROVE  SubSeq(s, j + 1, Len(s))[k] = s[j + k]
OBVIOUS

\* What Tail does to a sequence.
LEMMA Tailed ==
  ASSUME NEW S, NEW s \in Seq(S), s # <<>>
  PROVE  /\ Tail(s) \in Seq(S) /\ Len(Tail(s)) = Len(s) - 1 /\ Head(s) = s[1] /\ Len(s) >= 1
OBVIOUS

\* The elements of the tail.
LEMMA TailElement ==
  ASSUME NEW S, NEW s \in Seq(S), s # <<>>, NEW k \in 1..(Len(s) - 1)
  PROVE  Tail(s)[k] = s[k + 1]
OBVIOUS

\* What is left of an answer once the packet of its first item is read.
LEMMA JlinkRest ==
  ASSUME NEW s, NEW t, NEW n \in Nat, NEW j \in 1..n, s[j].items \in Nat, s[j].items > 0,
         \A k \in 1..(n - j) : t[k] = s[j + k]
  PROVE  /\ JlinkLast(s, n) => JlinkEmpty(t, n - j)
         /\ JlinkTwo(s, n) /\ (\A m \in 1..n : m < j => s[m].items = 0) =>
              \/ s[j].items = 1 /\ JlinkLast(t, n - j)
              \/ s[j].items > 1 /\ JlinkEmpty(t, n - j)
<1>0. \A k \in 1..(n - j) : j + k \in 1..n /\ j + k > j OBVIOUS
<1>1. ASSUME n <= j + 1, \A m \in 1..n : m > j => s[m].items = 0 PROVE JlinkEmpty(t, n - j)
  <2>1. n - j <= 1 BY <1>1
  <2>2. \A k \in 1..(n - j) : t[k].items = 0 BY <1>0, <1>1
  <2> QED BY <2>1, <2>2 DEF JlinkEmpty
<1>2. JlinkLast(s, n) => JlinkEmpty(t, n - j) BY <1>1 DEF JlinkLast
<1>3. ASSUME JlinkTwo(s, n), \A m \in 1..n : m < j => s[m].items = 0
      PROVE  (s[j].items = 1 /\ JlinkLast(t, n - j)) \/ (s[j].items > 1 /\ JlinkEmpty(t, n - j))
  <2> DEFINE Behind == \A m \in 1..n : m > j /\ s[m].items > 0 =>
                                       n <= m + 1 /\ \A l \in 1..n : l > m => s[l].items = 0
             Nothing == n <= j + 1 /\ \A m \in 1..n : m > j => s[m].items = 0
  <2>1. (s[j].items = 1 /\ Behind) \/ (s[j].items > 1 /\ Nothing) BY <1>3 DEF JlinkTwo
  <2>2. ASSUME Behind PROVE JlinkLast(t, n - j)
    <3> SUFFICES ASSUME NEW k \in 1..(n - j), t[k].items > 0
        PROVE  n - j <= k + 1 /\ \A l \in 1..(n - j) : l > k => t[l].items = 0
      BY DEF JlinkLast
    <3>1. n <= (j + k) + 1 /\ \A l \in 1..n : l > j + k => s[l].items = 0 BY <1>0, <2>2
    <3>2. n - j <= k + 1 BY <3>1
    <3>3. \A l \in 1..(n - j) : l > k => j + l > j + k OBVIOUS
    <3> QED BY <1>0, <3>1, <3>2, <3>3
  <2>3. Nothing => JlinkEmpty(t, n - j) BY <1>1
  <2> HIDE DEF Behind, Nothing
  <2> QED BY <2>1, <2>2, <2>3
<1> QED BY <1>2, <1>3

\* A session with other packets on their way.
LEMMA JlinkPiped ==
  ASSUME NEW y \in J!Sessions, NEW p \in Seq(J!Packets), NEW z, z = [y EXCEPT !.pipe = p]
  PROVE  /\ z \in J!Sessions /\ z.on = y.on /\ z.selected = y.selected /\ z.wire = y.wire
         /\ z.pipe = p /\ z.input = y.input
BY DEF J!Sessions

\* A session with another input buffer.
LEMMA JlinkBuffered ==
  ASSUME NEW y \in J!Sessions, NEW i \in J!Packets, NEW z, z = [y EXCEPT !.input = i]
  PROVE  /\ z \in J!Sessions /\ z.on = y.on /\ z.selected = y.selected /\ z.wire = y.wire
         /\ z.pipe = y.pipe /\ z.input = i
BY DEF J!Sessions, J!Packets

\* The first packet that is not empty fills the buffer.
LEMMA JlinkFill ==
  ASSUME NEW y \in J!Sessions
  PROVE  LET f == J!Fill(y) IN
         /\ f.x \in J!Sessions /\ f.x.on = y.on /\ f.x.selected = y.selected /\ f.x.wire = y.wire
         /\ f.r \in {"ok", "error"} /\ Len(f.x.pipe) <= Len(y.pipe)
         /\ f.r = "ok" => \E j \in 1..Len(y.pipe) :
              /\ f.x.input = y.pipe[j] /\ y.pipe[j].items > 0
              /\ \A m \in 1..Len(y.pipe) : m < j => y.pipe[m].items = 0
              /\ Len(f.x.pipe) = Len(y.pipe) - j
              /\ \A k \in 1..(Len(y.pipe) - j) : f.x.pipe[k] = y.pipe[j + k]
<1> DEFINE s == y.pipe
           n == Len(s)
           skip == IF s # <<>> /\ Head(s).items = 0 THEN 1 ELSE 0
           rest == SubSeq(s, skip + 1, n)
           f == J!Fill(y)
<1>1. s \in Seq(J!Packets) BY DEF J!Sessions
<1>2. n \in Nat /\ skip \in 0..n /\ skip \in 0..1 /\ (skip = 1 => s[1].items = 0)
  <2> HIDE DEF s
  <2>1. CASE s = <<>> BY <1>1, <2>1
  <2>2. CASE s # <<>> BY <1>1, <2>2, Tailed
  <2> QED BY <2>1, <2>2
<1>3. f = IF rest = <<>> \/ Head(rest).items = 0 THEN J!Res([y EXCEPT !.pipe = rest], "error")
          ELSE J!Res([y EXCEPT !.pipe = Tail(rest), !.input = Head(rest)], "ok")
  BY DEF J!Fill
<1>4. rest \in Seq(J!Packets) /\ Len(rest) = n - skip
  <2> HIDE DEF s, skip
  <2> QED BY <1>1, <1>2, Suffix
<1>5. \A k \in 1..(n - skip) : rest[k] = s[skip + k]
  <2> HIDE DEF s, skip
  <2> QED BY <1>1, <1>2, SuffixElement
<1> HIDE DEF rest, skip, s, f
<1>6. CASE rest = <<>> \/ Head(rest).items = 0
  <2>2. f = J!Res([y EXCEPT !.pipe = rest], "error") BY <1>3, <1>6
  <2>3. f.x = [y EXCEPT !.pipe = rest] /\ f.r = "error" BY <2>2 DEF J!Res
  <2>4. f.x \in J!Sessions /\ f.x.on = y.on /\ f.x.selected = y.selected /\ f.x.wire = y.wire /\ f.x.pipe = rest
    BY <1>4, <2>3, JlinkPiped
  <2>5. Len(f.x.pipe) <= n
    <3>1. n - skip <= n BY <1>2
    <3> QED BY <1>4, <2>4, <3>1
  <2> QED BY <2>3, <2>4, <2>5 DEF f, s
<1>7. CASE ~(rest = <<>> \/ Head(rest).items = 0)
  <2>1. /\ Tail(rest) \in Seq(J!Packets) /\ Len(Tail(rest)) = Len(rest) - 1 /\ Head(rest) = rest[1]
        /\ Len(rest) >= 1
    BY <1>4, <1>7, Tailed
  <2>2. \A k \in 1..(Len(rest) - 1) : Tail(rest)[k] = rest[k + 1] BY <1>4, <1>7, TailElement
  <2> DEFINE j == skip + 1
             t == Tail(rest)
             h == Head(rest)
  <2>3. j \in 1..n /\ 1 \in 1..(n - skip) BY <1>2, <1>4, <2>1
  <2>4. h = s[j] /\ h \in J!Packets
    <3>1. rest[1] = s[skip + 1] BY <1>5, <2>3
    <3>2. s[j] \in J!Packets BY <1>1, <2>3
    <3> QED BY <2>1, <3>1, <3>2
  <2>5. f = J!Res([y EXCEPT !.pipe = t, !.input = h], "ok") BY <1>3, <1>7
  <2>6. h.items # 0 /\ h.items \in 0..3 BY <1>7, <2>4 DEF J!Packets
  <2>7. Len(t) = n - j /\ t \in Seq(J!Packets) /\ n - j <= n
    <3>1. Len(t) = (n - skip) - 1 BY <1>4, <2>1
    <3>2. (n - skip) - 1 = n - j /\ n - j <= n BY <1>2
    <3> QED BY <2>1, <3>1, <3>2
  <2>8. \A k \in 1..(n - j) : t[k] = s[j + k]
    <3> SUFFICES ASSUME NEW k \in 1..(n - j) PROVE t[k] = s[j + k] BY Zenon
    <3>1. k \in 1..(Len(rest) - 1) /\ k + 1 \in 1..(n - skip) /\ skip + (k + 1) = j + k BY <1>2, <1>4
    <3> QED BY <1>5, <2>2, <3>1
  <2>9. \A m \in 1..n : m < j => s[m].items = 0
    <3>1. \A m \in 1..n : m < skip + 1 => skip = 1 /\ m = 1 BY <1>2
    <3> QED BY <1>2, <3>1
  <2> HIDE DEF j, t, h
  <2>10. f.x = [y EXCEPT !.pipe = t, !.input = h] /\ f.r = "ok" BY <2>5 DEF J!Res
  <2>0. t \in Seq(J!Packets) /\ h \in J!Packets BY <2>4, <2>7
  <2>11. /\ f.x \in J!Sessions /\ f.x.on = y.on /\ f.x.selected = y.selected /\ f.x.wire = y.wire
         /\ f.x.pipe = t /\ f.x.input = h
    <3> DEFINE u == [y EXCEPT !.pipe = t]
    <3>1. /\ u \in J!Sessions /\ u.on = y.on /\ u.selected = y.selected /\ u.wire = y.wire
          /\ u.pipe = t
      BY <2>0, JlinkPiped
    <3>2. f.x = [u EXCEPT !.input = h] BY <2>10
    <3> HIDE DEF u
    <3>3. /\ f.x \in J!Sessions /\ f.x.on = u.on /\ f.x.selected = u.selected /\ f.x.wire = u.wire
          /\ f.x.pipe = u.pipe /\ f.x.input = h
      BY <2>0, <3>1, <3>2, JlinkBuffered
    <3> QED BY <3>1, <3>3
  <2>12. Len(f.x.pipe) = n - j /\ Len(f.x.pipe) <= n BY <2>7, <2>11
  <2>13. s[j].items > 0 BY <2>4, <2>6
  <2>14. \A k \in 1..(n - j) : f.x.pipe[k] = s[j + k] BY <2>8, <2>11
  <2>15. f.x.input = s[j] BY <2>4, <2>11
  <2> HIDE DEF n
  <2> QED BY <2>3, <2>9, <2>10, <2>11, <2>12, <2>13, <2>14, <2>15 DEF f, s, n
<1> QED BY <1>6, <1>7

\* An item is taken from the buffer.
LEMMA JlinkTake ==
  ASSUME NEW y \in J!Sessions, y.input.items > 0, ~y.input.stale
  PROVE  LET z == J!Take(y) IN
         /\ z \in J!Sessions /\ z.on = y.on /\ z.selected = y.selected /\ z.wire = y.wire /\ z.pipe = y.pipe
         /\ z.input.items = y.input.items - 1 /\ ~z.input.stale
<1> DEFINE i == J!OneLess(y.input)
           z == J!Take(y)
<1>1. y.input \in J!Packets BY DEF J!Sessions, J!Packets
<1>2. i \in J!Packets /\ i.items = y.input.items - 1 /\ ~i.stale BY <1>1 DEF J!Packets, J!OneLess
<1>3. z = [y EXCEPT !.input = i] BY DEF J!Take
<1> HIDE DEF z, i
<1>4. /\ z \in J!Sessions /\ z.on = y.on /\ z.selected = y.selected /\ z.wire = y.wire /\ z.pipe = y.pipe
      /\ z.input = i
  BY <1>2, <1>3, JlinkBuffered
<1> QED BY <1>2, <1>4 DEF z

\* Taking an item when one is owed, or two.
JlinkTaken(y, z) ==
  /\ z.on = y.on /\ JlinkFresh(z)
  /\ JlinkOwesOne(y) => JlinkEmpty(z.pipe, Len(z.pipe))
  /\ JlinkOwesTwo(y) => JlinkOwesOne(z)

\* An item of the buffer is one of the answer.
LEMMA JlinkTook ==
  ASSUME NEW y \in J!Sessions, JlinkFresh(y), y.input.items > 0
  PROVE  LET z == J!Take(y) IN JlinkSame(y, z) /\ JlinkKept(y, z) /\ JlinkTaken(y, z)
<1> DEFINE z == J!Take(y)
<1>1. ~y.input.stale BY DEF JlinkFresh
<1>2. /\ z \in J!Sessions /\ z.on = y.on /\ z.selected = y.selected /\ z.wire = y.wire /\ z.pipe = y.pipe
      /\ z.input.items = y.input.items - 1 /\ ~z.input.stale
  BY <1>1, JlinkTake
<1> HIDE DEF z
<1>3. JlinkSame(y, z) /\ JlinkKept(y, z) BY <1>2 DEF JlinkSame, JlinkKept
<1>4. JlinkFresh(z) BY <1>2 DEF JlinkFresh
<1>5. y.input.items # 0
  <2>1. y.input.items \in 0..3 BY DEF J!Sessions
  <2> QED BY <2>1
<1>6. JlinkTaken(y, z) BY <1>2, <1>4, <1>5 DEF JlinkTaken, JlinkOwesOne, JlinkOwesTwo
<1> QED BY <1>3, <1>6 DEF z

\* So is the first item of the next packet.
LEMMA JlinkFillTake ==
  ASSUME NEW y \in J!Sessions, JlinkFresh(y), y.input.items = 0, J!Fill(y).r = "ok"
  PROVE  LET z == J!Take(J!Fill(y).x) IN JlinkSame(y, z) /\ JlinkKept(y, z) /\ JlinkTaken(y, z)
<1> DEFINE u == J!Fill(y).x
           z == J!Take(u)
           s == y.pipe
           n == Len(s)
<1>1. /\ u \in J!Sessions /\ u.on = y.on /\ u.selected = y.selected /\ u.wire = y.wire /\ Len(u.pipe) <= n
  BY JlinkFill
<1>2. PICK j \in 1..n :
        /\ u.input = s[j] /\ s[j].items > 0
        /\ \A m \in 1..n : m < j => s[m].items = 0
        /\ Len(u.pipe) = n - j
        /\ \A k \in 1..(n - j) : u.pipe[k] = s[j + k]
  BY JlinkFill
<1>3. s \in Seq(J!Packets) BY DEF J!Sessions
<1>4. n \in Nat /\ s[j] \in J!Packets
  <2> HIDE DEF s
  <2> QED BY <1>3
<1> HIDE DEF u
<1>5. s[j].items \in Nat /\ ~s[j].stale
  <2>1. s[j].items \in 0..3 BY <1>4 DEF J!Packets
  <2>2. ~s[j].stale BY <1>2 DEF JlinkFresh
  <2> QED BY <2>1, <2>2
<1>6. /\ z \in J!Sessions /\ z.on = u.on /\ z.selected = u.selected /\ z.wire = u.wire /\ z.pipe = u.pipe
      /\ z.input.items = u.input.items - 1 /\ ~z.input.stale
  <2>1. u.input.items > 0 /\ ~u.input.stale BY <1>2, <1>5
  <2> QED BY <1>1, <2>1, JlinkTake
<1> DEFINE t == z.pipe
<1> HIDE DEF z
<1>7. Len(t) = n - j /\ \A k \in 1..(n - j) : t[k] = s[j + k] BY <1>2, <1>6
<1>8. /\ JlinkLast(s, n) => JlinkEmpty(t, n - j)
      /\ JlinkTwo(s, n) =>
           \/ s[j].items = 1 /\ JlinkLast(t, n - j)
           \/ s[j].items > 1 /\ JlinkEmpty(t, n - j)
  <2> HIDE DEF t, s, n
  <2>1. JlinkLast(s, n) => JlinkEmpty(t, n - j) BY <1>2, <1>4, <1>5, <1>7, JlinkRest
  <2>2. JlinkTwo(s, n) =>
           \/ s[j].items = 1 /\ JlinkLast(t, n - j)
           \/ s[j].items > 1 /\ JlinkEmpty(t, n - j)
    BY Zenon, <1>2, <1>4, <1>5, <1>7, JlinkRest
  <2> QED BY <2>1, <2>2
<1>9. JlinkFresh(z)
  <2>1. \A k \in 1..n : s[k].items > 0 => ~s[k].stale BY DEF JlinkFresh
  <2>2. \A k \in 1..(n - j) : j + k \in 1..n BY <1>4
  <2>3. \A k \in 1..(n - j) : t[k].items > 0 => ~t[k].stale BY <1>7, <2>1, <2>2
  <2>4. ~z.input.stale BY <1>6
  <2> QED BY <1>7, <2>3, <2>4 DEF JlinkFresh
<1>10. JlinkOwesOne(y) => JlinkEmpty(t, n - j)
  <2>1. JlinkOwesOne(y) => JlinkLast(s, n) BY DEF JlinkOwesOne
  <2> QED BY <1>8, <2>1
<1>11. JlinkOwesTwo(y) => JlinkOwesOne(z)
  <2> SUFFICES ASSUME JlinkOwesTwo(y) PROVE JlinkOwesOne(z) OBVIOUS
  <2>1. JlinkTwo(s, n) BY DEF JlinkOwesTwo
  <2>2. CASE s[j].items = 1 /\ JlinkLast(t, n - j)
    <3>1. z.input.items = 0 BY <1>2, <1>6, <2>2
    <3> QED BY <1>7, <1>9, <2>2, <3>1 DEF JlinkOwesOne
  <2>3. CASE s[j].items > 1 /\ JlinkEmpty(t, n - j)
    <3>1. z.input.items > 0 BY <1>2, <1>5, <1>6, <2>3
    <3> QED BY <1>7, <1>9, <2>3, <3>1 DEF JlinkOwesOne
  <2> QED BY <1>8, <2>1, <2>2, <2>3
<1>12. JlinkSame(y, z) /\ JlinkKept(y, z)
  <2>1. Len(z.pipe) \in Nat /\ Len(z.pipe) <= n
    <3>1. n - j \in Nat /\ n - j <= n BY <1>4
    <3> QED BY <1>7, <3>1
  <2>2. n <= MaxStale + 4 => Len(z.pipe) <= MaxStale + 4
    <3> DEFINE l == Len(z.pipe)
    <3> HIDE DEF l, n
    <3>1. l \in Nat /\ l <= n BY <2>1 DEF l
    <3>2. n <= MaxStale + 4 => l <= MaxStale + 4 BY <1>4, <3>1, JlinkAssumption
    <3> QED BY <3>2 DEF l
  <2> QED BY <1>1, <1>6, <2>2 DEF JlinkSame, JlinkKept
<1> QED BY <1>1, <1>6, <1>7, <1>9, <1>10, <1>11, <1>12 DEF JlinkTaken, z, u

\* readPart takes one item of the answer or poisons the session.
LEMMA JlinkPart ==
  ASSUME NEW y \in J!Sessions, JlinkFresh(y), NEW quiet \in BOOLEAN, NEW e \in J!readPart(y, quiet)
  PROVE  /\ JlinkSame(y, e.x) /\ JlinkKept(y, e.x) /\ e.r \in {"ok", "error"}
         /\ e.r = "ok" => JlinkTaken(y, e.x)
         /\ e.r = "error" => "poisoned" \in e.x.on
<1>1. ASSUME NEW w, JlinkSame(y, w), JlinkKept(y, w), e = J!Res(J!Poison(w), "error")
      PROVE  JlinkSame(y, e.x) /\ JlinkKept(y, e.x) /\ e.r = "error" /\ "poisoned" \in e.x.on
  <2>1. e.x = J!Poison(w) /\ e.r = "error" BY <1>1 DEF J!Res
  <2>2. w \in J!Sessions BY <1>1 DEF JlinkSame
  <2>3. JlinkSame(w, e.x) /\ JlinkKept(w, e.x) /\ "poisoned" \in e.x.on BY <2>1, <2>2, JlinkPoison
  <2> QED BY <1>1, <2>1, <2>3, JlinkSameTransitive, JlinkKeptTransitive
<1> DEFINE filled == IF y.input.items > 0 THEN J!Res(y, "ok") ELSE J!Fill(y)
<1>2. \/ filled.r = "ok" /\ e = J!Res(J!Take(filled.x), "ok")
      \/ filled.r # "ok" /\ e = J!Res(J!Poison(filled.x), "error")
      \/ \E z \in J!Losses(y) : e = J!Res(J!Poison(z), "error")
  BY DEF J!readPart, J!Faults
<1>3. CASE filled.r = "ok" /\ e = J!Res(J!Take(filled.x), "ok")
  <2>1. e.x = J!Take(filled.x) /\ e.r = "ok" BY <1>3 DEF J!Res
  <2>2. CASE y.input.items > 0
    <3>1. filled.x = y BY <2>2 DEF J!Res
    <3>2. LET z == J!Take(y) IN JlinkSame(y, z) /\ JlinkKept(y, z) /\ JlinkTaken(y, z) BY <2>2, JlinkTook
    <3> QED BY <2>1, <3>1, <3>2
  <2>3. CASE ~(y.input.items > 0)
    <3>1. filled = J!Fill(y) /\ J!Fill(y).r = "ok" BY <1>3, <2>3
    <3>2. y.input.items = 0
      <4>1. y.input.items \in 0..3 BY DEF J!Sessions
      <4> QED BY <2>3, <4>1
    <3>3. LET z == J!Take(J!Fill(y).x) IN JlinkSame(y, z) /\ JlinkKept(y, z) /\ JlinkTaken(y, z)
      BY <3>1, <3>2, JlinkFillTake
    <3> QED BY <2>1, <3>1, <3>3
  <2> QED BY <2>2, <2>3
<1>4. CASE filled.r # "ok" /\ e = J!Res(J!Poison(filled.x), "error")
  <2>1. filled = J!Fill(y) BY <1>4 DEF J!Res
  <2> DEFINE u == J!Fill(y).x
  <2>2. u \in J!Sessions /\ u.on = y.on /\ u.selected = y.selected /\ u.wire = y.wire /\ Len(u.pipe) <= Len(y.pipe)
    BY JlinkFill
  <2> HIDE DEF u
  <2>3. Len(y.pipe) <= MaxStale + 4 => Len(u.pipe) <= MaxStale + 4
    <3>1. u.pipe \in Seq(J!Packets) /\ y.pipe \in Seq(J!Packets) BY <2>2 DEF J!Sessions
    <3>2. Len(u.pipe) \in Nat /\ Len(y.pipe) \in Nat BY <3>1
    <3> DEFINE l == Len(u.pipe)
               n == Len(y.pipe)
    <3>3. l \in Nat /\ n \in Nat /\ l <= n BY <2>2, <3>2
    <3> HIDE DEF l, n
    <3>4. n <= MaxStale + 4 => l <= MaxStale + 4 BY <3>3, JlinkAssumption
    <3> QED BY <3>4 DEF l, n
  <2>4. JlinkSame(y, u) /\ JlinkKept(y, u) BY <2>2, <2>3 DEF JlinkSame, JlinkKept
  <2>5. e = J!Res(J!Poison(u), "error") BY <1>4, <2>1 DEF u
  <2> QED BY <1>1, <2>4, <2>5
<1>5. ASSUME NEW z \in J!Losses(y), e = J!Res(J!Poison(z), "error")
      PROVE  JlinkSame(y, e.x) /\ JlinkKept(y, e.x) /\ e.r = "error" /\ "poisoned" \in e.x.on
  <2>1. JlinkSame(y, z) /\ JlinkKept(y, z) BY JlinkLosses
  <2> QED BY <1>1, <1>5, <2>1
<1> QED BY <1>2, <1>3, <1>4, <1>5

\* What a command leaves a session in: its answer has been read to the end, or
\* nothing was sent, or no further command is possible.
JlinkRead(y, e) ==
  /\ JlinkSame(y, e.x) /\ e.r \in {"ok", "error"}
  /\ e.r = "ok" => JlinkClean(e.x) /\ e.x.on = y.on
  /\ e.r = "error" => "poisoned" \in e.x.on

\* readResponse takes the answer, and nothing but the answer, or poisons the
\* session.
LEMMA JlinkResponse ==
  ASSUME NEW y \in J!Sessions, JlinkOwesOne(y), NEW quiet \in BOOLEAN, NEW e \in J!readResponse(y, quiet)
  PROVE  JlinkRead(y, e) /\ JlinkKept(y, e.x)
<1>1. PICK p \in J!readPart(y, quiet) : IF p.r = "ok" THEN e = J!Ended(p.x) ELSE e = p
  BY DEF J!readResponse, J!Then
<1>2. JlinkFresh(y) BY DEF JlinkOwesOne
<1>3. JlinkSame(y, p.x) /\ JlinkKept(y, p.x) /\ p.r \in {"ok", "error"} BY <1>2, JlinkPart
<1>4. (p.r = "ok" => JlinkTaken(y, p.x)) /\ (p.r = "error" => "poisoned" \in p.x.on) BY <1>2, JlinkPart
<1>5. CASE p.r = "error" BY <1>1, <1>3, <1>4, <1>5 DEF JlinkRead
<1>6. CASE p.r = "ok" /\ p.x.input.items > 0
  <2>1. e = J!Res(J!Poison(p.x), "error") BY <1>1, <1>6 DEF J!Ended
  <2>2. e.x = J!Poison(p.x) /\ e.r = "error" BY <2>1 DEF J!Res
  <2>3. p.x \in J!Sessions BY <1>3 DEF JlinkSame
  <2>4. JlinkSame(p.x, e.x) /\ JlinkKept(p.x, e.x) /\ "poisoned" \in e.x.on BY <2>2, <2>3, JlinkPoison
  <2>5. JlinkSame(y, e.x) /\ JlinkKept(y, e.x) BY <1>3, <2>4, JlinkSameTransitive, JlinkKeptTransitive
  <2> QED BY <2>2, <2>4, <2>5 DEF JlinkRead
<1>7. CASE p.r = "ok" /\ ~(p.x.input.items > 0)
  <2>1. e = J!Res(p.x, "ok") BY <1>1, <1>7 DEF J!Ended
  <2>2. e.x = p.x /\ e.r = "ok" BY <2>1 DEF J!Res
  <2>3. JlinkEmpty(e.x.pipe, Len(e.x.pipe)) /\ e.x.on = y.on BY <1>4, <1>7, <2>2 DEF JlinkTaken
  <2>4. e.x.input.items = 0
    <3>1. e.x.input.items \in 0..3 BY <1>3, <2>2 DEF JlinkSame, J!Sessions
    <3> QED BY <1>7, <2>2, <3>1
  <2>5. JlinkClean(e.x) BY <2>3, <2>4 DEF JlinkClean, JlinkEmpty
  <2> QED BY <1>3, <2>2, <2>3, <2>5 DEF JlinkRead
<1> QED BY <1>3, <1>5, <1>6, <1>7

\* A command is answered with one item.
LEMMA JlinkOwedOne ==
  ASSUME NEW y \in J!Sessions, JlinkClean(y), NEW quiet \in BOOLEAN, NEW a \in J!AnswerSet(1, quiet)
  PROVE  JlinkOwesOne(J!Sent(y, a)) /\ Len(J!Sent(y, a).pipe) > Len(y.pipe)
<1>1. a \in Seq(J!Packets) /\ Len(a) \in 1..3 /\ JlinkLast(a, Len(a)) /\ \A k \in 1..Len(a) : ~a[k].stale
  BY JlinkAnswersOne
<1>2. Len(a) \in 0..3 BY <1>1
<1> DEFINE z == J!Sent(y, a)
<1>3. /\ z.input.items = 0 /\ JlinkFresh(z) /\ Len(z.pipe) = Len(y.pipe) + Len(a)
      /\ JlinkLast(a, Len(a)) => JlinkLast(z.pipe, Len(z.pipe))
  BY <1>1, <1>2, JlinkSent
<1> HIDE DEF z
<1>4. JlinkOwesOne(z) BY <1>1, <1>3 DEF JlinkOwesOne
<1>5. Len(y.pipe) \in Nat
  <2>1. y.pipe \in Seq(J!Packets) BY DEF J!Sessions
  <2> QED BY <2>1
<1>6. Len(y.pipe) + Len(a) > Len(y.pipe)
  <2> DEFINE m == Len(y.pipe)
             n == Len(a)
  <2>1. m \in Nat /\ n \in 1..3 BY <1>1, <1>5
  <2> HIDE DEF m, n
  <2>2. m + n > m BY <2>1
  <2> QED BY <2>2 DEF m, n
<1> QED BY <1>3, <1>4, <1>6 DEF z

\* A command is answered with two items.
LEMMA JlinkOwedTwo ==
  ASSUME NEW y \in J!Sessions, JlinkClean(y), NEW quiet \in BOOLEAN, NEW a \in J!AnswerSet(2, quiet)
  PROVE  JlinkOwesTwo(J!Sent(y, a))
<1>1. a \in Seq(J!Packets) /\ Len(a) \in 1..3 /\ JlinkTwo(a, Len(a)) /\ \A k \in 1..Len(a) : ~a[k].stale
  BY JlinkAnswersTwo
<1>2. Len(a) \in 0..3 BY <1>1
<1> DEFINE z == J!Sent(y, a)
<1>3. /\ z.input.items = 0 /\ JlinkFresh(z)
      /\ JlinkTwo(a, Len(a)) => JlinkTwo(z.pipe, Len(z.pipe))
  BY <1>1, <1>2, JlinkSent
<1> HIDE DEF z
<1>4. JlinkOwesTwo(z) BY <1>1, <1>3 DEF JlinkOwesTwo
<1> QED BY <1>4 DEF z

\* Every answer may be sent.
LEMMA JlinkAnswerable ==
  ASSUME NEW quiet \in BOOLEAN
  PROVE  /\ \A a \in J!AnswerSet(1, quiet) : JlinkAnswer(a)
         /\ \A a \in J!AnswerSet(2, quiet) : JlinkAnswer(a)
<1>1. ASSUME NEW a \in J!AnswerSet(1, quiet) PROVE JlinkAnswer(a)
  <2>1. a \in Seq(J!Packets) /\ Len(a) \in 1..3 /\ \A k \in 1..Len(a) : ~a[k].stale BY JlinkAnswersOne
  <2>2. Len(a) \in 0..3 BY <2>1
  <2> QED BY <2>1, <2>2 DEF JlinkAnswer
<1>2. ASSUME NEW a \in J!AnswerSet(2, quiet) PROVE JlinkAnswer(a)
  <2>1. a \in Seq(J!Packets) /\ Len(a) \in 1..3 /\ \A k \in 1..Len(a) : ~a[k].stale BY JlinkAnswersTwo
  <2>2. Len(a) \in 0..3 BY <2>1
  <2> QED BY <2>1, <2>2 DEF JlinkAnswer
<1> QED BY <1>1, <1>2

\* A usable session has no answer unread.
JlinkSettled(y) == J!sessionReady(y) => JlinkClean(y)

\* A whole command, from writing it to the end of its answer.
JlinkCommanded(y, e) ==
  /\ JlinkSame(y, e.x) /\ e.r \in {"ok", "error"}
  /\ e.r = "ok" => J!sessionReady(y) /\ JlinkClean(e.x) /\ e.x.on = y.on
  /\ e.r = "error" /\ J!sessionReady(e.x) => e.x = y

\* A command whose answer is read leaves nothing unread.
LEMMA JlinkAnswered ==
  ASSUME NEW y, NEW w, NEW e, JlinkSame(y, w), w.on = y.on, J!sessionReady(y), JlinkRead(w, e)
  PROVE  JlinkCommanded(y, e)
<1>1. JlinkSame(w, e.x) BY DEF JlinkRead
<1>2. JlinkSame(y, e.x) BY <1>1, JlinkSameTransitive
<1> QED BY <1>2, JlinkReady DEF JlinkRead, JlinkCommanded

\* A command that was not sent leaves a usable session as it was.
LEMMA JlinkRefused ==
  ASSUME NEW y, NEW e, JlinkSame(y, e.x), e.r = "error", J!sessionReady(e.x) => e.x = y
  PROVE  JlinkCommanded(y, e)
BY DEF JlinkCommanded

\* Sending a command changes no flag.
LEMMA JlinkSentOn ==
  ASSUME NEW y \in J!Sessions, JlinkClean(y), NEW a, JlinkAnswer(a)
  PROVE  J!Sent(y, a) \in J!Sessions /\ J!Sent(y, a).on = y.on
BY JlinkSending DEF JlinkSame

\* exchange reads the answer to its own command, or poisons the session.
LEMMA JlinkExchange ==
  ASSUME NEW y \in J!Sessions, JlinkSettled(y), NEW quiet \in BOOLEAN, NEW e \in J!exchange(y, quiet)
  PROVE  JlinkCommanded(y, e) /\ JlinkKept(y, e.x)
<1>1. PICK w \in J!writeExact(y, J!AnswerSet(1, quiet), quiet) :
        IF w.r = "ok" THEN e \in J!readResponse(w.x, quiet) ELSE e = w
  BY DEF J!exchange, J!Then
<1>2. JlinkSame(y, w.x) /\ JlinkKept(y, w.x) /\ w.r \in {"ok", "error"}
  BY JlinkWrite, JlinkAnswerable DEF JlinkSettled
<1>3. /\ w.r = "ok" => J!sessionReady(y) /\ \E a \in J!AnswerSet(1, quiet) : w.x = J!Sent(y, a)
      /\ w.r = "error" /\ J!sessionReady(w.x) => w.x = y
  BY JlinkWrite, JlinkAnswerable DEF JlinkSettled
<1>4. CASE w.r = "error" BY <1>1, <1>2, <1>3, <1>4, JlinkRefused
<1>5. CASE w.r = "ok"
  <2>1. J!sessionReady(y) /\ JlinkClean(y) BY <1>3, <1>5 DEF JlinkSettled
  <2>2. PICK a \in J!AnswerSet(1, quiet) : w.x = J!Sent(y, a) BY <1>3, <1>5
  <2>3. JlinkOwesOne(w.x) BY <2>1, <2>2, JlinkOwedOne
  <2>4. w.x \in J!Sessions /\ w.x.on = y.on BY <2>1, <2>2, JlinkAnswerable, JlinkSentOn
  <2>5. e \in J!readResponse(w.x, quiet) BY <1>1, <1>5
  <2>6. JlinkRead(w.x, e) /\ JlinkKept(w.x, e.x) BY <2>3, <2>4, <2>5, JlinkResponse
  <2>7. JlinkCommanded(y, e) BY <1>2, <2>1, <2>4, <2>6, JlinkAnswered
  <2> QED BY <1>2, <2>6, <2>7, JlinkKeptTransitive
<1> QED BY <1>2, <1>4, <1>5

\* The answer in two parts: the version, and the samples of a scan with its status.
LEMMA JlinkExchangeTwo ==
  ASSUME NEW y \in J!Sessions, JlinkSettled(y), NEW quiet \in BOOLEAN,
         NEW e \in J!Then(J!Then(J!writeExact(y, J!AnswerSet(2, quiet), quiet), LAMBDA z : J!readPart(z, quiet)),
                          LAMBDA z : J!readResponse(z, quiet))
  PROVE  JlinkCommanded(y, e) /\ JlinkKept(y, e.x)
<1>1. PICK w \in J!writeExact(y, J!AnswerSet(2, quiet), quiet) :
        IF w.r = "ok" THEN \E p \in J!readPart(w.x, quiet) :
                             IF p.r = "ok" THEN e \in J!readResponse(p.x, quiet) ELSE e = p
        ELSE e = w
  <2>1. PICK p \in J!Then(J!writeExact(y, J!AnswerSet(2, quiet), quiet), LAMBDA z : J!readPart(z, quiet)) :
          IF p.r = "ok" THEN e \in J!readResponse(p.x, quiet) ELSE e = p
    BY DEF J!Then
  <2>2. PICK w \in J!writeExact(y, J!AnswerSet(2, quiet), quiet) :
          IF w.r = "ok" THEN p \in J!readPart(w.x, quiet) ELSE p = w
    BY DEF J!Then
  <2> QED BY <2>1, <2>2
<1>2. JlinkSame(y, w.x) /\ JlinkKept(y, w.x) /\ w.r \in {"ok", "error"}
  BY JlinkWrite, JlinkAnswerable DEF JlinkSettled
<1>3. /\ w.r = "ok" => J!sessionReady(y) /\ \E a \in J!AnswerSet(2, quiet) : w.x = J!Sent(y, a)
      /\ w.r = "error" /\ J!sessionReady(w.x) => w.x = y
  BY JlinkWrite, JlinkAnswerable DEF JlinkSettled
<1>4. CASE w.r = "error" BY <1>1, <1>2, <1>3, <1>4, JlinkRefused
<1>5. CASE w.r = "ok"
  <2>1. J!sessionReady(y) /\ JlinkClean(y) BY <1>3, <1>5 DEF JlinkSettled
  <2>2. PICK a \in J!AnswerSet(2, quiet) : w.x = J!Sent(y, a) BY <1>3, <1>5
  <2>3. JlinkOwesTwo(w.x) /\ JlinkFresh(w.x) BY <2>1, <2>2, JlinkOwedTwo DEF JlinkOwesTwo
  <2>4. w.x \in J!Sessions /\ w.x.on = y.on BY <2>1, <2>2, JlinkAnswerable, JlinkSentOn
  <2>5. PICK p \in J!readPart(w.x, quiet) : IF p.r = "ok" THEN e \in J!readResponse(p.x, quiet) ELSE e = p
    BY <1>1, <1>5
  <2>6. JlinkSame(w.x, p.x) /\ JlinkKept(w.x, p.x) /\ p.r \in {"ok", "error"} BY <2>3, <2>4, <2>5, JlinkPart
  <2>7. (p.r = "ok" => JlinkTaken(w.x, p.x)) /\ (p.r = "error" => "poisoned" \in p.x.on)
    BY <2>3, <2>4, <2>5, JlinkPart
  <2>8. JlinkSame(y, p.x) /\ JlinkKept(y, p.x) BY <1>2, <2>6, JlinkSameTransitive, JlinkKeptTransitive
  <2>9. CASE p.r = "error" BY <2>5, <2>7, <2>8, <2>9, JlinkReady, JlinkRefused
  <2>10. CASE p.r = "ok"
    <3>1. p.x.on = y.on /\ JlinkOwesOne(p.x) /\ p.x \in J!Sessions
      BY <2>3, <2>4, <2>6, <2>7, <2>10 DEF JlinkTaken, JlinkSame
    <3>2. e \in J!readResponse(p.x, quiet) BY <2>5, <2>10
    <3>3. JlinkRead(p.x, e) /\ JlinkKept(p.x, e.x) BY <3>1, <3>2, JlinkResponse
    <3>4. JlinkCommanded(y, e) BY <2>1, <2>8, <3>1, <3>3, JlinkAnswered
    <3> QED BY <2>8, <3>3, <3>4, JlinkKeptTransitive
  <2> QED BY <2>6, <2>9, <2>10
<1> QED BY <1>2, <1>4, <1>5

\* What Wired and Chosen do to a session.
LEMMA JlinkInterfaces ==
  ASSUME NEW y \in J!Sessions, NEW i \in J!Interfaces
  PROVE  /\ J!Wired(y, i) \in J!Sessions /\ J!Wired(y, i).on = y.on /\ J!Wired(y, i).pipe = y.pipe
         /\ J!Wired(y, i).input = y.input /\ J!Wired(y, i).selected = y.selected /\ J!Wired(y, i).wire = i
         /\ J!Chosen(y, i) \in J!Sessions /\ J!Chosen(y, i).on = y.on /\ J!Chosen(y, i).pipe = y.pipe
         /\ J!Chosen(y, i).input = y.input /\ J!Chosen(y, i).selected = i /\ J!Chosen(y, i).wire = y.wire
<1>1. /\ J!Wired(y, i) \in J!Sessions /\ J!Wired(y, i).on = y.on /\ J!Wired(y, i).pipe = y.pipe
      /\ J!Wired(y, i).input = y.input /\ J!Wired(y, i).selected = y.selected /\ J!Wired(y, i).wire = i
  BY DEF J!Sessions, J!Wired
<1>2. /\ J!Chosen(y, i) \in J!Sessions /\ J!Chosen(y, i).on = y.on /\ J!Chosen(y, i).pipe = y.pipe
      /\ J!Chosen(y, i).input = y.input /\ J!Chosen(y, i).selected = i /\ J!Chosen(y, i).wire = y.wire
  BY DEF J!Sessions, J!Chosen
<1> QED BY <1>1, <1>2

\* Another interface on the wire or in the session leaves the answers alone.
LEMMA JlinkWired ==
  ASSUME NEW y, NEW z \in J!Sessions, NEW i \in J!Interfaces, JlinkSame(y, z)
  PROVE  /\ JlinkSame(y, J!Wired(z, i)) /\ JlinkSame(y, J!Chosen(z, i))
         /\ JlinkClean(z) => JlinkClean(J!Wired(z, i)) /\ JlinkClean(J!Chosen(z, i))
         /\ JlinkOwesOne(z) => JlinkOwesOne(J!Wired(z, i))
         /\ J!sessionReady(J!Wired(z, i)) <=> J!sessionReady(z)
         /\ J!sessionReady(J!Chosen(z, i)) <=> J!sessionReady(z)
<1> DEFINE u == J!Wired(z, i)
           v == J!Chosen(z, i)
<1>1. u \in J!Sessions /\ u.on = z.on /\ u.pipe = z.pipe /\ u.input = z.input BY JlinkInterfaces
<1>2. v \in J!Sessions /\ v.on = z.on /\ v.pipe = z.pipe /\ v.input = z.input BY JlinkInterfaces
<1> HIDE DEF u, v
<1>3. JlinkSame(y, u) BY <1>1 DEF JlinkSame
<1>4. JlinkSame(y, v) BY <1>2 DEF JlinkSame
<1>5. JlinkClean(z) => JlinkClean(u) BY <1>1 DEF JlinkClean
<1>6. JlinkClean(z) => JlinkClean(v) BY <1>2 DEF JlinkClean
<1>7. JlinkOwesOne(z) => JlinkOwesOne(u) BY <1>1 DEF JlinkOwesOne, JlinkFresh
<1>8. (J!sessionReady(u) <=> J!sessionReady(z)) /\ (J!sessionReady(v) <=> J!sessionReady(z))
  BY <1>1, <1>2, JlinkReady
<1> QED BY <1>3, <1>4, <1>5, <1>6, <1>7, <1>8 DEF u, v

\* A command leaves the session settled.
LEMMA JlinkCommandSettles ==
  ASSUME NEW y, NEW e, JlinkSettled(y), JlinkCommanded(y, e)
  PROVE  JlinkSettled(e.x) /\ (e.r = "ok" => J!sessionReady(e.x))
<1>1. CASE e.r = "ok"
  <2>1. J!sessionReady(y) /\ JlinkClean(e.x) /\ e.x.on = y.on BY <1>1 DEF JlinkCommanded
  <2> QED BY <2>1, JlinkReady DEF JlinkSettled
<1>2. CASE e.r = "error"
  <2>1. J!sessionReady(e.x) => e.x = y BY <1>2 DEF JlinkCommanded
  <2> QED BY <1>2, <2>1 DEF JlinkSettled
<1> QED BY <1>1, <1>2 DEF JlinkCommanded

\* A confirmed selection is the interface on the wire.
LEMMA JlinkSelected ==
  ASSUME NEW y \in J!Sessions, JlinkSettled(y), NEW target \in J!Interfaces, NEW quiet \in BOOLEAN,
         NEW e \in J!Selected(y, target, quiet)
  PROVE  /\ JlinkCommanded(y, e) /\ e.x.selected = y.selected /\ (e.r = "ok" => e.x.wire = target)
         /\ \A f \in {"configured", "failed"} : f \in e.x.on <=> f \in y.on
<1>1. PICK u : /\ IF u.r = "ok" THEN e \in J!readResponse(u.x, quiet) ELSE e = u
               /\ \E w \in J!writeExact(y, J!AnswerSet(1, quiet), quiet) :
                    u = IF Len(w.x.pipe) > Len(y.pipe) THEN J!Res(J!Wired(w.x, target), w.r) ELSE w
  BY DEF J!Selected, J!Then
<1>2. PICK w \in J!writeExact(y, J!AnswerSet(1, quiet), quiet) :
        u = IF Len(w.x.pipe) > Len(y.pipe) THEN J!Res(J!Wired(w.x, target), w.r) ELSE w
  BY <1>1
<1>3. JlinkSame(y, w.x) /\ JlinkKept(y, w.x) /\ w.r \in {"ok", "error"}
  BY JlinkWrite, JlinkAnswerable DEF JlinkSettled
<1>4. /\ w.r = "ok" => J!sessionReady(y) /\ \E a \in J!AnswerSet(1, quiet) : w.x = J!Sent(y, a)
      /\ w.r = "error" /\ J!sessionReady(w.x) => w.x = y
  BY JlinkWrite, JlinkAnswerable DEF JlinkSettled
<1>5. w.x \in J!Sessions BY <1>3 DEF JlinkSame
<1>6. /\ u.r = w.r /\ JlinkSame(y, u.x) /\ u.x.selected = y.selected /\ u.x.on = w.x.on
      /\ J!sessionReady(u.x) <=> J!sessionReady(w.x)
  <2>1. CASE Len(w.x.pipe) > Len(y.pipe)
    <3>1. u.r = w.r /\ u.x = J!Wired(w.x, target) BY <1>2, <2>1 DEF J!Res
    <3>2. JlinkSame(y, u.x) /\ (J!sessionReady(u.x) <=> J!sessionReady(w.x)) BY <1>3, <1>5, <3>1, JlinkWired
    <3>3. u.x.selected = w.x.selected /\ u.x.on = w.x.on BY <1>5, <3>1, JlinkInterfaces
    <3> QED BY <1>3, <3>1, <3>2, <3>3 DEF JlinkKept
  <2>2. CASE ~(Len(w.x.pipe) > Len(y.pipe)) BY <1>2, <1>3, <2>2 DEF JlinkKept
  <2> QED BY <2>1, <2>2
<1>7. \A f \in {"configured", "failed"} : f \in u.x.on <=> f \in y.on BY <1>3, <1>6 DEF JlinkKept
<1>8. CASE w.r = "error"
  <2>1. e = u BY <1>1, <1>6, <1>8
  <2>2. J!sessionReady(w.x) => u = w
    <3> SUFFICES ASSUME w.x = y PROVE ~(Len(w.x.pipe) > Len(y.pipe)) BY <1>2, <1>4, <1>8
    <3>1. y.pipe \in Seq(J!Packets) BY DEF J!Sessions
    <3>2. Len(y.pipe) \in Nat BY <3>1
    <3> QED BY <3>2
  <2>3. J!sessionReady(e.x) => e.x = y BY <1>4, <1>6, <1>8, <2>1, <2>2
  <2>4. JlinkCommanded(y, e) BY <1>6, <1>8, <2>1, <2>3, JlinkRefused
  <2> QED BY <1>6, <1>7, <1>8, <2>1, <2>4
<1>9. CASE w.r = "ok"
  <2>1. J!sessionReady(y) /\ JlinkClean(y) BY <1>4, <1>9 DEF JlinkSettled
  <2>2. PICK a \in J!AnswerSet(1, quiet) : w.x = J!Sent(y, a) BY <1>4, <1>9
  <2>3. JlinkOwesOne(w.x) /\ Len(w.x.pipe) > Len(y.pipe) BY <2>1, <2>2, JlinkOwedOne
  <2>4. w.x.on = y.on BY <2>1, <2>2, JlinkAnswerable, JlinkSentOn
  <2>5. u.x = J!Wired(w.x, target) BY <1>2, <2>3 DEF J!Res
  <2>6. u.x \in J!Sessions /\ u.x.wire = target BY <1>5, <2>5, JlinkInterfaces
  <2>7. JlinkOwesOne(u.x) BY <1>3, <1>5, <2>3, <2>5, JlinkWired
  <2>8. e \in J!readResponse(u.x, quiet) BY <1>1, <1>6, <1>9
  <2>9. JlinkRead(u.x, e) /\ JlinkKept(u.x, e.x) BY <2>6, <2>7, <2>8, JlinkResponse
  <2>10. u.x.on = y.on BY <1>6, <2>4
  <2>11. JlinkCommanded(y, e) BY <1>6, <2>1, <2>9, <2>10, JlinkAnswered
  <2> QED BY <1>6, <1>7, <2>6, <2>9, <2>11 DEF JlinkKept
<1> QED BY <1>3, <1>8, <1>9

\* A session in the middle of its configuration.
JlinkUnset(y, e) ==
  /\ JlinkSame(y, e.x) /\ e.r \in {"ok", "error"} /\ JlinkSettled(e.x)
  /\ e.r = "ok" => J!sessionReady(e.x)
  /\ "configured" \notin e.x.on /\ "failed" \notin e.x.on

\* The interface asked for is the selected one.
JlinkOn(e, target) == e.r = "ok" => e.x.selected = target /\ e.x.wire = target

\* A selection the session records is the one on the wire.
LEMMA JlinkChosen ==
  ASSUME NEW y \in J!Sessions, J!sessionReady(y), JlinkClean(y), NEW target \in J!Interfaces,
         NEW quiet \in BOOLEAN, NEW s \in J!Selected(J!Begun(y), target, quiet), NEW e,
         IF s.r = "ok" THEN e = J!Res(J!Chosen(s.x, target), "ok") \/ e = J!Res(s.x, "error") ELSE e = s
  PROVE  JlinkUnset(y, e) /\ JlinkOn(e, target)
<1> DEFINE b == J!Begun(y)
<1>1. b \in J!Sessions /\ b.on = y.on \ {"configured", "failed"} /\ b.pipe = y.pipe /\ b.input = y.input
  BY JlinkFlags DEF J!Begun, J!Flags
<1> HIDE DEF b
<1>2. JlinkSame(y, b) /\ JlinkSettled(b)
  <2>1. JlinkSame(y, b) BY <1>1 DEF JlinkSame, JlinkLasting
  <2>2. JlinkClean(b) BY <1>1 DEF JlinkClean
  <2> QED BY <2>1, <2>2 DEF JlinkSettled
<1>3. JlinkCommanded(b, s) /\ (s.r = "ok" => s.x.wire = target) BY <1>1, <1>2, JlinkSelected DEF b
<1>4. \A f \in {"configured", "failed"} : f \in s.x.on <=> f \in b.on BY <1>1, <1>2, JlinkSelected DEF b
<1>5. JlinkSettled(s.x) /\ (s.r = "ok" => J!sessionReady(s.x)) BY <1>2, <1>3, JlinkCommandSettles
<1>6. JlinkSame(b, s.x) /\ s.r \in {"ok", "error"} /\ (s.r = "ok" => JlinkClean(s.x)) BY <1>3 DEF JlinkCommanded
<1>7. JlinkSame(y, s.x) BY <1>2, <1>6, JlinkSameTransitive
<1>8. "configured" \notin s.x.on /\ "failed" \notin s.x.on BY <1>1, <1>4
<1>9. CASE s.r = "error" BY <1>5, <1>7, <1>8, <1>9 DEF JlinkUnset, JlinkOn
<1>10. CASE s.r = "ok" /\ e = J!Res(s.x, "error")
  <2>1. e.x = s.x /\ e.r = "error" BY <1>10 DEF J!Res
  <2> QED BY <1>5, <1>7, <1>8, <2>1 DEF JlinkUnset, JlinkOn
<1>11. CASE s.r = "ok" /\ e = J!Res(J!Chosen(s.x, target), "ok")
  <2>1. e.x = J!Chosen(s.x, target) /\ e.r = "ok" BY <1>11 DEF J!Res
  <2>2. s.x \in J!Sessions BY <1>7 DEF JlinkSame
  <2>3. e.x.selected = target /\ e.x.wire = s.x.wire /\ e.x.on = s.x.on BY <2>1, <2>2, JlinkInterfaces
  <2>4. JlinkSame(y, e.x) /\ (JlinkClean(s.x) => JlinkClean(e.x)) /\ (J!sessionReady(e.x) <=> J!sessionReady(s.x))
    BY <1>7, <2>1, <2>2, JlinkWired
  <2>5. JlinkUnset(y, e) BY <1>5, <1>6, <1>8, <1>11, <2>1, <2>3, <2>4 DEF JlinkUnset, JlinkSettled
  <2> QED BY <1>3, <1>11, <2>3, <2>5 DEF JlinkOn
<1> QED BY <1>6, <1>9, <1>10, <1>11

\* The speed query leaves the selection alone.
LEMMA JlinkClocked ==
  ASSUME NEW y, NEW c, JlinkUnset(y, c), c.r = "ok", NEW quiet \in BOOLEAN, NEW k \in J!exchange(c.x, quiet),
         NEW e, NEW target, JlinkOn(c, target),
         IF k.r = "ok" THEN e = J!Res(k.x, "ok") \/ e = J!Res(k.x, "error") ELSE e = k
  PROVE  JlinkUnset(y, e) /\ JlinkOn(e, target)
<1>1. c.x \in J!Sessions /\ JlinkSettled(c.x) BY DEF JlinkUnset, JlinkSame
<1>2. JlinkCommanded(c.x, k) /\ JlinkKept(c.x, k.x) BY <1>1, JlinkExchange
<1>3. JlinkSettled(k.x) /\ (k.r = "ok" => J!sessionReady(k.x)) BY <1>1, <1>2, JlinkCommandSettles
<1>4. JlinkSame(c.x, k.x) /\ k.r \in {"ok", "error"} BY <1>2 DEF JlinkCommanded
<1>5. JlinkSame(y, k.x) BY <1>4, JlinkSameTransitive DEF JlinkUnset
<1>6. "configured" \notin k.x.on /\ "failed" \notin k.x.on BY <1>2 DEF JlinkKept, JlinkUnset
<1>7. e.x = k.x /\ e.r \in {"ok", "error"} /\ (e.r = "ok" => k.r = "ok") BY <1>4 DEF J!Res
<1>8. JlinkUnset(y, e) BY <1>3, <1>5, <1>6, <1>7 DEF JlinkUnset
<1> QED BY <1>2, <1>7, <1>8 DEF JlinkKept, JlinkOn

\* So does the speed command.
LEMMA JlinkSpeed ==
  ASSUME NEW y, NEW c, JlinkUnset(y, c), c.r = "ok", NEW quiet \in BOOLEAN,
         NEW e \in J!writeExact(c.x, {<<>>}, quiet), NEW target, JlinkOn(c, target)
  PROVE  JlinkUnset(y, e) /\ JlinkOn(e, target)
<1>1. c.x \in J!Sessions /\ JlinkSettled(c.x) /\ J!sessionReady(c.x) /\ JlinkClean(c.x)
  BY DEF JlinkUnset, JlinkSame, JlinkSettled
<1>2. JlinkAnswer(<<>>) /\ Len(<<>>) = 0 /\ <<>> \in Seq(J!Packets) /\ Len(<<>>) \in 0..3
      /\ \A k \in 1..Len(<<>>) : ~<<>>[k].stale
  BY DEF JlinkAnswer
<1>3. JlinkSame(c.x, e.x) /\ JlinkKept(c.x, e.x) /\ e.r \in {"ok", "error"} BY <1>1, <1>2, JlinkWrite
<1>4. /\ e.r = "ok" => e.x = J!Sent(c.x, <<>>)
      /\ e.r = "ok" => J!sessionReady(e.x)
      /\ e.r = "error" /\ J!sessionReady(e.x) => e.x = c.x
  BY <1>1, <1>2, JlinkWrite
<1>5. JlinkClean(J!Sent(c.x, <<>>)) BY Zenon, <1>1, <1>2, JlinkSent
<1>6. JlinkSettled(e.x) BY <1>1, <1>3, <1>4, <1>5 DEF JlinkSettled
<1>7. JlinkSame(y, e.x) BY <1>3, JlinkSameTransitive DEF JlinkUnset
<1>8. "configured" \notin e.x.on /\ "failed" \notin e.x.on BY <1>3 DEF JlinkKept, JlinkUnset
<1>9. JlinkUnset(y, e) BY <1>3, <1>4, <1>6, <1>7, <1>8 DEF JlinkUnset
<1> QED BY <1>3, <1>9 DEF JlinkKept, JlinkOn

\* configureTarget leaves a usable session on the interface it was asked for, or one that
\* is not configured.
JlinkConfigured(y, target, e) ==
  /\ JlinkSame(y, e.x) /\ e.r \in {"ok", "error"} /\ JlinkSettled(e.x)
  /\ e.r = "ok" => /\ J!sessionReady(e.x) /\ "configured" \in e.x.on /\ "failed" \notin e.x.on
                   /\ e.x.selected = target /\ e.x.wire = target
  /\ e.r = "error" => \/ e.x = y /\ ~J!sessionReady(y)
                      \/ "configured" \notin e.x.on /\ "failed" \notin e.x.on

\* configureTarget leaves a session that is configured for the interface on the wire,
\* or not configured.
LEMMA JlinkConfigure ==
  ASSUME NEW y \in J!Sessions, JlinkSettled(y), NEW target \in J!Interfaces, NEW quiet \in BOOLEAN,
         NEW e \in J!configureTarget(y, target, quiet)
  PROVE  JlinkConfigured(y, target, e)
<1>1. CASE ~J!sessionReady(y)
  <2>1. e = J!Res(y, "error") BY Zenon, <1>1 DEF J!configureTarget
  <2>2. e.x = y /\ e.r = "error" BY <2>1 DEF J!Res
  <2>3. JlinkSame(y, y) BY DEF JlinkSame
  <2> QED BY <1>1, <2>2, <2>3 DEF JlinkConfigured
<1>2. CASE J!sessionReady(y)
  <2>1. JlinkClean(y) BY <1>2 DEF JlinkSettled
  <2> DEFINE chosen == J!Then(J!Selected(J!Begun(y), target, quiet), LAMBDA z :
                         {J!Res(J!Chosen(z, target), "ok")} \cup J!Faults(quiet, {J!Res(z, "error")}))
             clocked == J!Then(chosen, LAMBDA z :
                          J!Then(J!exchange(z, quiet), LAMBDA u :
                            {J!Res(u, "ok")} \cup J!Faults(quiet, {J!Res(u, "error")})))
             set == J!Then(clocked, LAMBDA z : J!writeExact(z, {<<>>}, quiet))
  <2>2. e \in J!Then(set, LAMBDA z : {J!Res(J!Set(z, {"configured"}), "ok")}) BY Zenon, <1>2 DEF J!configureTarget
  <2>3. ASSUME NEW c \in chosen PROVE JlinkUnset(y, c) /\ JlinkOn(c, target)
    <3>1. PICK s \in J!Selected(J!Begun(y), target, quiet) :
            IF s.r = "ok" THEN c = J!Res(J!Chosen(s.x, target), "ok") \/ c = J!Res(s.x, "error") ELSE c = s
      BY <2>3 DEF J!Then, J!Faults
    <3> QED BY Zenon, <1>2, <2>1, <3>1, JlinkChosen
  <2> HIDE DEF chosen
  <2>4. ASSUME NEW k \in clocked PROVE JlinkUnset(y, k) /\ JlinkOn(k, target)
    <3>1. PICK c \in chosen :
            IF c.r = "ok" THEN k \in J!Then(J!exchange(c.x, quiet), LAMBDA u :
                                 {J!Res(u, "ok")} \cup J!Faults(quiet, {J!Res(u, "error")}))
            ELSE k = c
      BY <2>4 DEF J!Then
    <3>2. CASE c.r = "ok"
      <4>1. PICK u \in J!exchange(c.x, quiet) :
              IF u.r = "ok" THEN k = J!Res(u.x, "ok") \/ k = J!Res(u.x, "error") ELSE k = u
        BY <3>1, <3>2 DEF J!Then, J!Faults
      <4>2. JlinkUnset(y, c) /\ JlinkOn(c, target) BY Zenon, <2>3
      <4> QED BY Zenon, <3>2, <4>1, <4>2, JlinkClocked
    <3>3. CASE c.r # "ok" BY Zenon, <2>3, <3>1, <3>3
    <3> QED BY Zenon, <3>2, <3>3
  <2> HIDE DEF clocked
  <2>5. ASSUME NEW w \in set PROVE JlinkUnset(y, w) /\ JlinkOn(w, target)
    <3>1. PICK k \in clocked : IF k.r = "ok" THEN w \in J!writeExact(k.x, {<<>>}, quiet) ELSE w = k
      BY <2>5 DEF J!Then
    <3>2. CASE k.r = "ok"
      <4>1. w \in J!writeExact(k.x, {<<>>}, quiet) BY <3>1, <3>2
      <4>2. JlinkUnset(y, k) /\ JlinkOn(k, target) BY <2>4
      <4> QED BY <3>2, <4>1, <4>2, JlinkSpeed
    <3>3. CASE k.r # "ok" BY <2>4, <3>1, <3>3
    <3> QED BY <3>2, <3>3
  <2> HIDE DEF set
  <2>6. PICK w \in set : IF w.r = "ok" THEN e = J!Res(J!Set(w.x, {"configured"}), "ok") ELSE e = w
    BY <2>2 DEF J!Then
  <2>7. CASE w.r # "ok" BY <2>5, <2>6, <2>7 DEF JlinkUnset, JlinkConfigured
  <2>8. CASE w.r = "ok"
    <3>1. e.x = J!Set(w.x, {"configured"}) /\ e.r = "ok" BY <2>6, <2>8 DEF J!Res
    <3>2. JlinkUnset(y, w) /\ w.x.selected = target /\ w.x.wire = target BY <2>5, <2>8 DEF JlinkOn
    <3>3. w.x \in J!Sessions BY <3>2 DEF JlinkUnset, JlinkSame
    <3>4. /\ e.x \in J!Sessions /\ e.x.on = w.x.on \cup {"configured"} /\ e.x.selected = w.x.selected
          /\ e.x.wire = w.x.wire /\ e.x.input = w.x.input /\ e.x.pipe = w.x.pipe
      BY <3>1, <3>3, JlinkFlags DEF J!Flags
    <3>5. JlinkSame(y, e.x) BY <3>2, <3>4 DEF JlinkUnset, JlinkSame, JlinkLasting
    <3>6. J!sessionReady(e.x) BY <2>8, <3>2, <3>4, JlinkReady DEF JlinkUnset
    <3>7. JlinkClean(e.x) BY <2>8, <3>2, <3>4 DEF JlinkUnset, JlinkSettled, JlinkClean
    <3> QED BY <3>1, <3>2, <3>4, <3>5, <3>6, <3>7 DEF JlinkConfigured, JlinkUnset, JlinkSettled
  <2> QED BY <2>7, <2>8
<1> QED BY <1>1, <1>2

\* The state of an open session between two calls.
JlinkFit(y) ==
  /\ y \in J!Sessions /\ "mixed" \notin y.on /\ "astray" \notin y.on /\ Len(y.pipe) <= MaxStale + 4
  /\ "file" \in y.on <=> "device" \in y.on
  /\ "iface" \in y.on <=> "claim" \in y.on
  /\ "claim" \in y.on => "device" \in y.on
  /\ "device" \in y.on /\ "closing" \notin y.on => "claim" \in y.on
  /\ "closing" \in y.on => "configured" \notin y.on
  /\ JlinkSettled(y)
  /\ J!sessionReady(y) /\ "configured" \in y.on => y.wire = y.selected
  /\ J!sessionReady(y) /\ "owned" \in y.on => "configured" \in y.on \/ "failed" \in y.on

\* What a session must keep to stay fit.
LEMMA JlinkFits ==
  ASSUME NEW y, NEW z, JlinkFit(y), JlinkSame(y, z), JlinkSettled(z),
         "closing" \in z.on => "configured" \notin z.on,
         J!sessionReady(z) /\ "configured" \in z.on => z.wire = z.selected,
         J!sessionReady(z) /\ "owned" \in z.on => "configured" \in z.on \/ "failed" \in z.on
  PROVE  JlinkFit(z)
<1>1. \A f \in JlinkLasting : f \in z.on <=> f \in y.on BY DEF JlinkSame
<1>2. /\ "file" \in z.on <=> "device" \in z.on
      /\ "iface" \in z.on <=> "claim" \in z.on
      /\ "claim" \in z.on => "device" \in z.on
      /\ "device" \in z.on /\ "closing" \notin z.on => "claim" \in z.on
  BY <1>1 DEF JlinkFit, JlinkLasting
<1>3. z \in J!Sessions /\ "mixed" \notin z.on /\ "astray" \notin z.on /\ Len(z.pipe) <= MaxStale + 4
  BY DEF JlinkFit, JlinkSame
<1> QED BY <1>2, <1>3 DEF JlinkFit

\* RestorationPossible says whether the session is usable.
LEMMA JlinkPossible ==
  ASSUME NEW y, JlinkFit(y) PROVE J!RestorationPossible(y) <=> J!sessionReady(y)
BY JlinkReady DEF JlinkFit, J!RestorationPossible, J!Is

\* A failed scan and the ownership of the target only mark the session.
LEMMA JlinkMarked ==
  ASSUME NEW y \in J!Sessions, NEW f \in {"failed", "owned"}
  PROVE  LET z == J!Set(y, {f}) IN
         /\ z \in J!Sessions /\ z.on = y.on \cup {f} /\ z.selected = y.selected /\ z.wire = y.wire
         /\ J!sessionReady(z) <=> J!sessionReady(y)
         /\ JlinkClean(y) => JlinkClean(z)
         /\ f = "failed" => JlinkSame(y, z)
<1> DEFINE z == J!Set(y, {f})
<1>1. /\ z \in J!Sessions /\ z.on = y.on \cup {f} /\ z.selected = y.selected /\ z.wire = y.wire
      /\ z.input = y.input /\ z.pipe = y.pipe
  BY JlinkFlags DEF J!Flags
<1> HIDE DEF z
<1>2. J!sessionReady(z) <=> J!sessionReady(y) BY <1>1, JlinkReady
<1>3. JlinkClean(y) => JlinkClean(z) BY <1>1 DEF JlinkClean
<1>4. f = "failed" => JlinkSame(y, z) BY <1>1 DEF JlinkSame, JlinkLasting
<1> QED BY <1>1, <1>2, <1>3, <1>4 DEF z

\* recoverScan configures the session again or reports an error.
LEMMA JlinkRecover ==
  ASSUME NEW y, JlinkFit(y), J!sessionReady(y), "configured" \in y.on \/ J!recoverableScan(y), NEW quiet \in BOOLEAN,
         NEW e \in J!recoverScan(y, quiet)
  PROVE  /\ JlinkSame(y, e.x) /\ JlinkFit(e.x) /\ e.r \in {"ok", "error"}
         /\ e.r = "ok" => J!sessionReady(e.x) /\ "configured" \in e.x.on
<1>0. y \in J!Sessions /\ JlinkSettled(y) /\ y.selected \in J!Interfaces BY DEF JlinkFit, J!Sessions
<1>1. CASE ~J!recoverableScan(y)
  <2>1. e = J!Res(y, "ok") BY <1>1 DEF J!recoverScan
  <2>2. e.x = y /\ e.r = "ok" BY <2>1 DEF J!Res
  <2>3. JlinkSame(y, y) BY <1>0 DEF JlinkSame
  <2> QED BY <1>1, <2>2, <2>3
<1>2. CASE J!recoverableScan(y)
  <2>1. PICK c \in J!configureTarget(y, y.selected, quiet) :
          e = IF c.r # "ok" /\ J!RestorationPossible(c.x) THEN J!Res(J!Set(c.x, {"failed"}), "error") ELSE c
    BY <1>2 DEF J!recoverScan
  <2>2. JlinkConfigured(y, y.selected, c) BY <1>0, JlinkConfigure
  <2>3. JlinkSame(y, c.x) /\ c.r \in {"ok", "error"} /\ JlinkSettled(c.x) /\ c.x \in J!Sessions
    BY <2>2 DEF JlinkConfigured, JlinkSame
  <2>4. CASE c.r = "ok"
    <3>1. /\ J!sessionReady(c.x) /\ "configured" \in c.x.on /\ c.x.wire = c.x.selected
      BY <2>2, <2>4 DEF JlinkConfigured
    <3>2. "closing" \notin c.x.on BY <3>1, JlinkReady
    <3>3. JlinkFit(c.x) BY <2>3, <3>1, <3>2, JlinkFits
    <3>4. e = c BY <2>1, <2>4
    <3> QED BY <2>3, <2>4, <3>1, <3>3, <3>4
  <2>5. CASE c.r = "error"
    <3>1. "configured" \notin c.x.on BY <2>2, <2>5 DEF JlinkConfigured
    <3>2. CASE J!RestorationPossible(c.x)
      <4>1. e.x = J!Set(c.x, {"failed"}) /\ e.r = "error" BY <2>1, <2>5, <3>2 DEF J!Res
      <4>2. e.x.on = c.x.on \cup {"failed"} /\ JlinkSame(c.x, e.x) BY <2>3, <4>1, JlinkMarked
      <4>3. JlinkSettled(e.x) BY <2>3, <4>1, JlinkMarked DEF JlinkSettled
      <4>4. JlinkSame(y, e.x) BY <2>3, <4>2, JlinkSameTransitive
      <4>5. JlinkFit(e.x) BY <3>1, <4>2, <4>3, <4>4, JlinkFits
      <4> QED BY <4>1, <4>4, <4>5
    <3>3. CASE ~J!RestorationPossible(c.x)
      <4>1. e = c BY <2>1, <3>3
      <4>2. ~J!sessionReady(c.x) BY <3>3, JlinkReady DEF J!RestorationPossible, J!Is
      <4>3. JlinkFit(c.x) BY <2>3, <3>1, <4>2, JlinkFits
      <4> QED BY <2>3, <2>5, <4>1, <4>3
    <3> QED BY <3>2, <3>3
  <2> QED BY <2>3, <2>4, <2>5
<1> QED BY <1>1, <1>2

\* scan keeps the session fit.
LEMMA JlinkScan ==
  ASSUME NEW y, JlinkFit(y), J!sessionReady(y), "configured" \in y.on, NEW quiet \in BOOLEAN,
         NEW e \in J!scan(y, quiet)
  PROVE  JlinkSame(y, e.x) /\ JlinkFit(e.x)
<1>1. y \in J!Sessions /\ JlinkSettled(y) /\ y.wire = y.selected BY DEF JlinkFit
<1> DEFINE status == J!Then(J!Then(J!writeExact(y, J!AnswerSet(2, quiet), quiet), LAMBDA z : J!readPart(z, quiet)),
                            LAMBDA z : J!readResponse(z, quiet))
<1>2. e \in J!Then(status, LAMBDA z :
             {J!Res(z, "ok")} \cup
             J!Faults(quiet, {J!Res(J!Set(J!Clear(z, {"configured"}), {"failed"}), "error")}))
  BY Zenon, <1>1 DEF J!scan
<1>3. ASSUME NEW s \in status PROVE JlinkCommanded(y, s) /\ JlinkKept(y, s.x) BY ZenonT(30), <1>1, <1>3, JlinkExchangeTwo
<1> HIDE DEF status
<1>4. PICK s \in status :
        IF s.r = "ok" THEN \/ e = J!Res(s.x, "ok")
                           \/ e = J!Res(J!Set(J!Clear(s.x, {"configured"}), {"failed"}), "error")
        ELSE e = s
  BY <1>2 DEF J!Then, J!Faults
<1>5. JlinkCommanded(y, s) /\ JlinkKept(y, s.x) BY <1>3
<1>6. JlinkSettled(s.x) /\ JlinkSame(y, s.x) BY <1>1, <1>5, JlinkCommandSettles DEF JlinkCommanded
<1>7. /\ s.x.wire = s.x.selected /\ "configured" \in s.x.on /\ s.x \in J!Sessions
      /\ "closing" \notin s.x.on
  BY <1>1, <1>5, <1>6, JlinkReady DEF JlinkKept, JlinkSame, JlinkLasting
<1>8. JlinkFit(s.x) BY <1>6, <1>7, JlinkFits
<1>9. CASE e.x = s.x BY <1>6, <1>8, <1>9
<1>10. CASE e = J!Res(J!Set(J!Clear(s.x, {"configured"}), {"failed"}), "error")
  <2> DEFINE c == J!Clear(s.x, {"configured"})
  <2>1. /\ c \in J!Sessions /\ c.on = s.x.on \ {"configured"} /\ c.input = s.x.input /\ c.pipe = s.x.pipe
    BY <1>7, JlinkFlags DEF J!Flags
  <2>2. e.x = J!Set(c, {"failed"}) BY <1>10 DEF J!Res
  <2> HIDE DEF c
  <2>3. JlinkSame(s.x, c) BY <1>7, <2>1 DEF JlinkSame, JlinkLasting
  <2>4. JlinkSettled(c) BY <1>6, <2>1, JlinkReady DEF JlinkSettled, JlinkClean
  <2>5. e.x.on = c.on \cup {"failed"} /\ JlinkSame(c, e.x) BY <2>1, <2>2, JlinkMarked
  <2>6. JlinkSettled(e.x) BY <2>1, <2>2, <2>4, JlinkMarked DEF JlinkSettled
  <2>7. JlinkSame(y, e.x) BY <1>6, <2>3, <2>5, JlinkSameTransitive
  <2>8. "configured" \notin e.x.on /\ "failed" \in e.x.on BY <2>1, <2>5
  <2>9. JlinkFit(e.x) BY <2>6, <2>7, <2>8, JlinkFits
  <2> QED BY <2>7, <2>9
<1> QED BY <1>4, <1>9, <1>10 DEF J!Res

\* So does scanIO.
LEMMA JlinkScanIO ==
  ASSUME NEW y, JlinkFit(y), NEW target \in J!Interfaces, NEW quiet \in BOOLEAN,
         NEW e \in J!scanIO(y, target, quiet)
  PROVE  JlinkSame(y, e.x) /\ JlinkFit(e.x)
<1>1. CASE J!sessionReady(y) /\ (J!Is(y, "configured") \/ J!recoverableScan(y)) /\ y.selected = target
  <2>1. PICK c \in J!recoverScan(y, quiet) : IF c.r = "ok" THEN e \in J!scan(c.x, quiet) ELSE e = c
    BY <1>1 DEF J!scanIO, J!Then
  <2>2. "configured" \in y.on \/ J!recoverableScan(y) BY <1>1 DEF J!Is
  <2>3. /\ JlinkSame(y, c.x) /\ JlinkFit(c.x) /\ c.r \in {"ok", "error"}
        /\ c.r = "ok" => J!sessionReady(c.x) /\ "configured" \in c.x.on
    BY <1>1, <2>1, <2>2, JlinkRecover
  <2>4. CASE c.r = "ok"
    <3>1. JlinkSame(c.x, e.x) /\ JlinkFit(e.x) BY <2>1, <2>3, <2>4, JlinkScan
    <3> QED BY <2>3, <3>1, JlinkSameTransitive
  <2>5. CASE c.r = "error" BY <2>1, <2>3, <2>5
  <2> QED BY <2>3, <2>4, <2>5
<1>2. CASE ~(J!sessionReady(y) /\ (J!Is(y, "configured") \/ J!recoverableScan(y)) /\ y.selected = target)
  <2>1. e.x = y BY <1>2 DEF J!scanIO, J!Res
  <2>2. JlinkSame(y, y) BY DEF JlinkFit, JlinkSame
  <2> QED BY <2>1, <2>2
<1> QED BY <1>1, <1>2

\* A resource is forgotten only once it is released.
LEMMA JlinkCloseOwned ==
  ASSUME NEW y \in J!Sessions, NEW ref \in J!Flags \ {"gone"}, NEW res \in J!Flags \ {"gone"}, NEW quiet \in BOOLEAN,
         NEW k \in J!CloseOwned(y, ref, res, quiet)
  PROVE  /\ k.x \in J!Sessions /\ k.x.pipe = y.pipe /\ k.r \in {"ok", "error", "stop"}
         /\ \A f \in J!Flags \ {"gone", ref, res} : f \in k.x.on <=> f \in y.on
         /\ "gone" \in y.on => "gone" \in k.x.on
         /\ k.r = "stop" => /\ ref \in k.x.on <=> ref \in y.on
                            /\ res \in k.x.on <=> res \in y.on
         /\ k.r # "stop" => /\ ref \notin k.x.on
                            /\ ref \in y.on => res \notin k.x.on
                            /\ ref \notin y.on => (res \in k.x.on <=> res \in y.on)
         /\ ref \notin y.on \/ quiet => k.r = "ok"
<1> DEFINE released == J!Clear(y, {ref, res})
<1>1. released \in J!Sessions /\ released.on = y.on \ {ref, res} /\ released.pipe = y.pipe BY JlinkFlags
<1>2. CASE ref \notin y.on
  <2>1. k.x = y /\ k.r = "ok" BY <1>2 DEF J!CloseOwned, J!Is, J!Res
  <2> QED BY <1>2, <2>1
<1>3. CASE ref \in y.on
  <2> HIDE DEF released
  <2>1. \/ k = J!Res(released, "ok")
        \/ ~quiet /\ \E z \in J!Losses(released) : k = J!Res(z, "error")
        \/ ~quiet /\ \E z \in J!Losses(y) : k = J!Res(z, "stop")
    BY <1>3 DEF J!CloseOwned, J!Is, J!Faults, released
  <2>2. CASE k = J!Res(released, "ok")
    <3>1. k.x = released /\ k.r = "ok" BY <2>2 DEF J!Res
    <3> QED BY <1>1, <1>3, <3>1
  <2>3. ASSUME ~quiet, NEW u \in J!Sessions, NEW z \in J!Losses(u)
        PROVE  /\ z \in J!Sessions /\ z.pipe = u.pipe /\ ("gone" \in u.on => "gone" \in z.on)
               /\ \A f \in J!Flags \ {"gone"} : f \in z.on <=> f \in u.on
    <3>1. J!Set(u, {"gone"}) \in J!Sessions /\ J!Set(u, {"gone"}).on = u.on \cup {"gone"}
          /\ J!Set(u, {"gone"}).pipe = u.pipe
      BY JlinkFlags DEF J!Flags
    <3> QED BY <2>3, <3>1 DEF J!Losses
  <2>4. ASSUME ~quiet, NEW z \in J!Losses(released), k = J!Res(z, "error")
        PROVE  /\ k.x = z /\ k.r = "error" /\ z \in J!Sessions /\ z.pipe = y.pipe
               /\ ("gone" \in y.on => "gone" \in z.on) /\ ref \notin z.on /\ res \notin z.on
               /\ \A f \in J!Flags \ {"gone", ref, res} : f \in z.on <=> f \in y.on
    <3>1. /\ z \in J!Sessions /\ z.pipe = released.pipe /\ ("gone" \in released.on => "gone" \in z.on)
          /\ \A f \in J!Flags \ {"gone"} : f \in z.on <=> f \in released.on
      BY <1>1, <2>3, <2>4
    <3>2. k.x = z /\ k.r = "error" BY <2>4 DEF J!Res
    <3> QED BY <1>1, <3>1, <3>2
  <2>5. ASSUME ~quiet, NEW z \in J!Losses(y), k = J!Res(z, "stop")
        PROVE  /\ k.x = z /\ k.r = "stop" /\ z \in J!Sessions /\ z.pipe = y.pipe
               /\ ("gone" \in y.on => "gone" \in z.on)
               /\ \A f \in J!Flags \ {"gone"} : f \in z.on <=> f \in y.on
    <3>1. /\ z \in J!Sessions /\ z.pipe = y.pipe /\ ("gone" \in y.on => "gone" \in z.on)
          /\ \A f \in J!Flags \ {"gone"} : f \in z.on <=> f \in y.on
      BY <2>3, <2>5
    <3>2. k.x = z /\ k.r = "stop" BY <2>5 DEF J!Res
    <3> QED BY <3>1, <3>2
  <2>6. CASE ~quiet /\ \E z \in J!Losses(released) : k = J!Res(z, "error") BY <1>3, <2>4, <2>6
  <2>7. CASE ~quiet /\ \E z \in J!Losses(y) : k = J!Res(z, "stop") BY <1>3, <2>5, <2>7
  <2> QED BY <2>1, <2>2, <2>6, <2>7
<1> QED BY <1>2, <1>3

\* The references of a session are to what is open.
JlinkPaired(y) ==
  /\ "file" \in y.on <=> "device" \in y.on
  /\ "iface" \in y.on <=> "claim" \in y.on
  /\ "claim" \in y.on => "device" \in y.on

\* Close releases the interface and the device in order.
LEMMA JlinkClose ==
  ASSUME NEW y \in J!Sessions, JlinkPaired(y), NEW quiet \in BOOLEAN, NEW e \in J!Close(y, quiet)
  PROVE  /\ e.x \in J!Sessions /\ e.x.pipe = y.pipe /\ e.r \in {"ok", "error"}
         /\ JlinkPaired(e.x) /\ "closing" \in e.x.on /\ "configured" \notin e.x.on
         /\ \A f \in {"poisoned", "mixed", "astray", "owned"} : f \in e.x.on <=> f \in y.on
         /\ ("gone" \in y.on => "gone" \in e.x.on) /\ ("device" \in e.x.on => "device" \in y.on)
         /\ ("device" \notin y.on => e.r = "ok") /\ (e.r = "ok" \/ quiet => "device" \notin e.x.on)
<1> DEFINE t == J!Set(y, {"closing"})
           s == J!Clear(t, {"configured"})
<1>1. t \in J!Sessions /\ t.on = y.on \cup {"closing"} /\ t.pipe = y.pipe BY JlinkFlags DEF J!Flags
<1>2. s \in J!Sessions /\ s.on = t.on \ {"configured"} /\ s.pipe = t.pipe
  <2> HIDE DEF t
  <2> QED BY <1>1, JlinkFlags DEF J!Flags
<1>3. PICK k \in J!CloseOwned(s, "claim", "iface", quiet) :
        IF k.r = "stop" THEN e = J!Res(k.x, "error")
        ELSE \E d \in J!CloseOwned(k.x, "device", "file", quiet) :
               e = J!Res(d.x, IF k.r = "ok" /\ d.r = "ok" THEN "ok" ELSE "error")
  BY DEF J!Close
<1> HIDE DEF s, t
<1>4. "claim" \in J!Flags \ {"gone"} /\ "iface" \in J!Flags \ {"gone"}
      /\ "device" \in J!Flags \ {"gone"} /\ "file" \in J!Flags \ {"gone"}
  BY DEF J!Flags
<1>5. /\ k.x \in J!Sessions /\ k.x.pipe = s.pipe /\ k.r \in {"ok", "error", "stop"}
      /\ \A f \in J!Flags \ {"gone", "claim", "iface"} : f \in k.x.on <=> f \in s.on
      /\ "gone" \in s.on => "gone" \in k.x.on
      /\ k.r = "stop" => /\ "claim" \in k.x.on <=> "claim" \in s.on
                         /\ "iface" \in k.x.on <=> "iface" \in s.on
      /\ k.r # "stop" => /\ "claim" \notin k.x.on
                         /\ "claim" \in s.on => "iface" \notin k.x.on
                         /\ "claim" \notin s.on => ("iface" \in k.x.on <=> "iface" \in s.on)
      /\ "claim" \notin s.on \/ quiet => k.r = "ok"
  BY <1>2, <1>4, JlinkCloseOwned
<1>6. /\ k.x.pipe = y.pipe /\ "closing" \in k.x.on /\ "configured" \notin k.x.on
      /\ \A f \in {"poisoned", "mixed", "astray", "owned", "device", "file"} : f \in k.x.on <=> f \in y.on
      /\ "gone" \in y.on => "gone" \in k.x.on
      /\ "iface" \in k.x.on <=> "claim" \in k.x.on
      /\ k.r = "stop" => "claim" \in y.on /\ ~quiet
      /\ k.r = "stop" => ("claim" \in k.x.on => "device" \in k.x.on)
      /\ k.r # "stop" => "claim" \notin k.x.on
      /\ "device" \notin y.on => k.r = "ok"
  BY <1>1, <1>2, <1>5 DEF JlinkPaired, J!Flags
<1>7. CASE k.r = "stop"
  <2>1. e.x = k.x /\ e.r = "error" BY <1>3, <1>7 DEF J!Res
  <2> QED BY <1>5, <1>6, <1>7, <2>1 DEF JlinkPaired
<1>8. CASE k.r # "stop"
  <2>1. PICK d \in J!CloseOwned(k.x, "device", "file", quiet) :
               e = J!Res(d.x, IF k.r = "ok" /\ d.r = "ok" THEN "ok" ELSE "error")
    BY <1>3, <1>8
  <2>2. e.x = d.x /\ e.r = IF k.r = "ok" /\ d.r = "ok" THEN "ok" ELSE "error" BY <2>1 DEF J!Res
  <2>3. /\ d.x \in J!Sessions /\ d.x.pipe = k.x.pipe /\ d.r \in {"ok", "error", "stop"}
        /\ \A f \in J!Flags \ {"gone", "device", "file"} : f \in d.x.on <=> f \in k.x.on
        /\ "gone" \in k.x.on => "gone" \in d.x.on
        /\ d.r = "stop" => /\ "device" \in d.x.on <=> "device" \in k.x.on
                           /\ "file" \in d.x.on <=> "file" \in k.x.on
        /\ d.r # "stop" => /\ "device" \notin d.x.on
                           /\ "device" \in k.x.on => "file" \notin d.x.on
                           /\ "device" \notin k.x.on => ("file" \in d.x.on <=> "file" \in k.x.on)
        /\ "device" \notin k.x.on \/ quiet => d.r = "ok"
    BY <1>4, <1>5, <2>1, JlinkCloseOwned
  <2>4. /\ \A f \in {"poisoned", "mixed", "astray", "owned"} : f \in d.x.on <=> f \in y.on
        /\ "closing" \in d.x.on /\ "configured" \notin d.x.on /\ "claim" \notin d.x.on /\ "iface" \notin d.x.on
        /\ "gone" \in y.on => "gone" \in d.x.on
    BY <1>6, <1>8, <2>3 DEF J!Flags
  <2>5. /\ "file" \in d.x.on <=> "device" \in d.x.on
        /\ "device" \in d.x.on => "device" \in y.on /\ d.r = "stop"
    BY <1>6, <2>3 DEF JlinkPaired
  <2> QED BY <1>5, <1>6, <1>8, <2>2, <2>3, <2>4, <2>5 DEF JlinkPaired
<1> QED BY <1>7, <1>8

\* Draining removes packets from the front only.
LEMMA JlinkDrained ==
  ASSUME NEW y \in J!Sessions, NEW n \in 0..Len(y.pipe)
  PROVE  /\ JlinkSame(y, J!Drained(y, n)) /\ JlinkKept(y, J!Drained(y, n)) /\ J!Drained(y, n).on = y.on
         /\ J!Drained(y, n).input = y.input
         /\ n = Len(y.pipe) => Len(J!Drained(y, n).pipe) = 0
<1> DEFINE p == SubSeq(y.pipe, n + 1, Len(y.pipe))
           z == J!Drained(y, n)
           m == Len(y.pipe)
<1>0. y.pipe \in Seq(J!Packets) BY DEF J!Sessions
<1>1. p \in Seq(J!Packets) /\ Len(p) = m - n BY <1>0, Suffix
<1>2. m \in Nat BY <1>0
<1>3. z = [y EXCEPT !.pipe = p] BY DEF J!Drained
<1> HIDE DEF p, z
<1>4. /\ z \in J!Sessions /\ z.on = y.on /\ z.selected = y.selected /\ z.wire = y.wire
      /\ z.pipe = p /\ z.input = y.input
  BY <1>1, <1>3, JlinkPiped
<1>5. /\ m <= MaxStale + 4 => m - n <= MaxStale + 4
      /\ n = m => m - n = 0
  <2>1. m \in Nat /\ n \in 0..m BY <1>2
  <2> HIDE DEF m
  <2> QED BY <2>1, JlinkAssumption
<1>6. JlinkSame(y, z) /\ JlinkKept(y, z) BY <1>1, <1>4, <1>5 DEF JlinkSame, JlinkKept
<1> QED BY <1>1, <1>4, <1>5, <1>6 DEF z

\* A successful synchronizeInput leaves nothing unread.
LEMMA JlinkSynchronize ==
  ASSUME NEW y \in J!Sessions, y.input.items = 0, NEW e \in J!synchronizeInput(y)
  PROVE  /\ JlinkSame(y, e.x) /\ JlinkKept(y, e.x) /\ e.r \in {"ok", "error"}
         /\ e.r = "ok" => e.x.on = y.on /\ JlinkClean(e.x)
<1>1. CASE e = J!Res(J!Drained(y, Len(y.pipe)), "ok")
  <2> DEFINE z == J!Drained(y, Len(y.pipe))
  <2>1. Len(y.pipe) \in 0..Len(y.pipe)
    <3>1. y.pipe \in Seq(J!Packets) BY DEF J!Sessions
    <3>2. Len(y.pipe) \in Nat BY <3>1
    <3> QED BY <3>2
  <2>2. JlinkSame(y, z) /\ JlinkKept(y, z) /\ z.on = y.on /\ z.input = y.input /\ Len(z.pipe) = 0
    BY <2>1, JlinkDrained
  <2>3. e.x = z /\ e.r = "ok" BY <1>1 DEF J!Res
  <2> HIDE DEF z
  <2>4. JlinkClean(z) BY <2>2 DEF JlinkClean
  <2> QED BY <2>2, <2>3, <2>4
<1>2. CASE \E n \in 0..Len(y.pipe) : \E z \in J!Losses(J!Drained(y, n)) : e = J!Res(z, "error")
  <2>1. PICK n \in 0..Len(y.pipe) : \E z \in J!Losses(J!Drained(y, n)) : e = J!Res(z, "error") BY <1>2
  <2> DEFINE u == J!Drained(y, n)
  <2>2. PICK z \in J!Losses(u) : e = J!Res(z, "error") BY <2>1
  <2>3. JlinkSame(y, u) /\ JlinkKept(y, u) BY JlinkDrained
  <2> HIDE DEF u
  <2>4. u \in J!Sessions BY <2>3 DEF JlinkSame
  <2>5. JlinkSame(u, z) /\ JlinkKept(u, z) BY <2>2, <2>4, JlinkLosses
  <2>6. e.x = z /\ e.r = "error" BY <2>2 DEF J!Res
  <2> QED BY <2>3, <2>5, <2>6, JlinkSameTransitive, JlinkKeptTransitive
<1> QED BY <1>1, <1>2 DEF J!synchronizeInput

\* readInfo leaves the session settled.
LEMMA JlinkInfo ==
  ASSUME NEW y \in J!Sessions, JlinkSettled(y), NEW e \in J!readInfo(y)
  PROVE  /\ JlinkSame(y, e.x) /\ e.r \in {"ok", "error"} /\ JlinkSettled(e.x)
         /\ e.r = "ok" => J!sessionReady(e.x)
         /\ \A f \in {"configured", "failed"} : f \in e.x.on <=> f \in y.on
<1> DEFINE version == J!Then(J!Then(J!writeExact(y, J!AnswerSet(2, FALSE), FALSE), LAMBDA z : J!readPart(z, FALSE)),
                             LAMBDA z : J!readResponse(z, FALSE))
<1>1. PICK v \in version :
        IF v.r = "ok"
        THEN \E k \in J!exchange(v.x, FALSE) : e = IF k.r = "ok" THEN J!Res(J!Chosen(k.x, k.x.wire), "ok") ELSE k
        ELSE e = v
  BY Zenon DEF J!readInfo, J!Then
<1>2. JlinkCommanded(y, v) /\ JlinkKept(y, v.x)
  <2>1. FALSE \in BOOLEAN OBVIOUS
  <2> QED BY Zenon, <1>1, <2>1, JlinkExchangeTwo
<1> HIDE DEF version
<1>3. JlinkSettled(v.x) /\ (v.r = "ok" => J!sessionReady(v.x)) BY <1>2, JlinkCommandSettles
<1>4. JlinkSame(y, v.x) /\ v.r \in {"ok", "error"} BY <1>2 DEF JlinkCommanded
<1>5. CASE v.r = "error" BY <1>1, <1>2, <1>3, <1>4, <1>5 DEF JlinkKept
<1>6. CASE v.r = "ok"
  <2>1. PICK k \in J!exchange(v.x, FALSE) : e = IF k.r = "ok" THEN J!Res(J!Chosen(k.x, k.x.wire), "ok") ELSE k
    BY Zenon, <1>1, <1>6
  <2>2. v.x \in J!Sessions BY <1>4 DEF JlinkSame
  <2>3. JlinkCommanded(v.x, k) /\ JlinkKept(v.x, k.x) BY ZenonT(30), <1>3, <2>1, <2>2, JlinkExchange
  <2>4. JlinkSettled(k.x) /\ (k.r = "ok" => J!sessionReady(k.x)) BY <1>3, <2>3, JlinkCommandSettles
  <2>5. JlinkSame(v.x, k.x) /\ k.r \in {"ok", "error"} BY <2>3 DEF JlinkCommanded
  <2>6. JlinkSame(y, k.x) /\ JlinkKept(y, k.x) BY <1>2, <1>4, <2>3, <2>5, JlinkSameTransitive, JlinkKeptTransitive
  <2>7. CASE k.r = "error" BY <2>1, <2>4, <2>6, <2>7 DEF JlinkKept
  <2>8. CASE k.r = "ok"
    <3>1. e.x = J!Chosen(k.x, k.x.wire) /\ e.r = "ok" BY <2>1, <2>8 DEF J!Res
    <3>2. k.x \in J!Sessions /\ k.x.wire \in J!Interfaces BY <2>6 DEF JlinkSame, J!Sessions
    <3>3. /\ JlinkSame(y, e.x) /\ (JlinkClean(k.x) => JlinkClean(e.x))
          /\ (J!sessionReady(e.x) <=> J!sessionReady(k.x))
      BY <2>6, <3>1, <3>2, JlinkWired
    <3>4. e.x.on = k.x.on BY <3>1, <3>2, JlinkInterfaces
    <3> QED BY <2>4, <2>6, <2>8, <3>1, <3>3, <3>4 DEF JlinkSettled, JlinkKept
  <2> QED BY <2>5, <2>7, <2>8
<1> QED BY <1>4, <1>5, <1>6

\* A probe without an open session.
JlinkLoose(y) ==
  /\ y \in J!Sessions /\ Len(y.pipe) <= MaxStale + 4
  /\ \A f \in {"device", "claim", "mixed", "astray", "configured"} : f \notin y.on

\* What a session starts from.
LEMMA JlinkAttached ==
  ASSUME NEW y \in J!Attached
  PROVE  y \in J!Sessions /\ y.on = {"file"} /\ y.input.items = 0 /\ Len(y.pipe) <= MaxStale
<1>1. PICK i \in J!Interfaces, n \in 0..MaxStale, m \in 0..1 :
        y = [on |-> {"file"}, selected |-> "SWD", wire |-> i, input |-> J!NoInput,
             pipe |-> [k \in 1..n |-> [items |-> m, stale |-> TRUE]]]
  BY DEF J!Attached
<1> DEFINE s == [k \in 1..n |-> [items |-> m, stale |-> TRUE]]
<1>2. [items |-> m, stale |-> TRUE] \in J!Packets BY DEF J!Packets
<1>3. n \in Nat /\ n <= MaxStale BY JlinkAssumption
<1>4. s \in [1..n -> J!Packets] BY <1>2
<1>5. y = [on |-> {"file"}, selected |-> "SWD", wire |-> i, input |-> J!NoInput, pipe |-> s] BY <1>1
<1> HIDE DEF s
<1>6. s \in Seq(J!Packets) /\ Len(s) = n BY <1>3, <1>4
<1>7. Len(y.pipe) <= MaxStale BY <1>3, <1>5, <1>6
<1>8. y \in J!Sessions BY <1>5, <1>6 DEF J!Sessions, J!Flags, J!Interfaces, J!NoInput
<1>9. y.on = {"file"} /\ y.input.items = 0 BY <1>5 DEF J!NoInput
<1> QED BY <1>7, <1>8, <1>9

\* Each step of Open leaves a session that is usable, or one that failed.
LEMMA JlinkOpening ==
  ASSUME NEW y \in J!Attached, NEW target \in J!Interfaces \cup {"none"},
         NEW claimed, claimed = J!Set(J!Set(y, {"device"}), {"claim", "iface"}),
         NEW synced, synced = J!Then(J!Then({J!Res(claimed, "ok"), J!Res(claimed, "error")}, J!synchronizeInput), J!readInfo),
         NEW e \in IF target = "none" THEN synced ELSE J!Then(synced, LAMBDA z : J!configureTarget(z, target, FALSE))
  PROVE  /\ JlinkSame(claimed, e.x) /\ e.r \in {"ok", "error"}
         /\ e.r = "ok" => /\ J!sessionReady(e.x) /\ JlinkClean(e.x)
                          /\ "configured" \in e.x.on <=> target # "none"
                          /\ target # "none" => e.x.wire = e.x.selected
<1>0. y \in J!Sessions /\ y.on = {"file"} /\ y.input.items = 0 BY JlinkAttached
<1> DEFINE fresh == J!Set(y, {"device"})
<1>1. fresh \in J!Sessions /\ fresh.on = {"file", "device"} /\ fresh.input = y.input
  BY <1>0, JlinkFlags DEF J!Flags
<1> HIDE DEF fresh
<1>2. claimed \in J!Sessions /\ claimed.on = {"file", "device", "claim", "iface"} /\ claimed.input.items = 0
  BY <1>0, <1>1, JlinkFlags DEF J!Flags, fresh
<1>3. JlinkSame(claimed, claimed) BY <1>2 DEF JlinkSame
<1>4. ASSUME NEW s \in synced
      PROVE  /\ JlinkSame(claimed, s.x) /\ s.r \in {"ok", "error"}
             /\ s.r = "ok" => /\ J!sessionReady(s.x) /\ JlinkClean(s.x)
                              /\ "configured" \notin s.x.on /\ "failed" \notin s.x.on
  <2>1. PICK i \in J!Then({J!Res(claimed, "ok"), J!Res(claimed, "error")}, J!synchronizeInput) :
          IF i.r = "ok" THEN s \in J!readInfo(i.x) ELSE s = i
    BY <1>4 DEF J!Then
  <2>2. i \in J!synchronizeInput(claimed) \/ i = J!Res(claimed, "error")
    BY DEF J!Then, J!Res
  <2>3. /\ JlinkSame(claimed, i.x) /\ i.r \in {"ok", "error"}
        /\ i.r = "ok" => i.x.on = claimed.on /\ JlinkClean(i.x)
    <3>1. CASE i \in J!synchronizeInput(claimed) BY <1>2, <3>1, JlinkSynchronize
    <3>2. CASE i = J!Res(claimed, "error") BY <1>3, <3>2 DEF J!Res
    <3> QED BY <2>2, <3>1, <3>2
  <2>4. CASE i.r = "error" BY <2>1, <2>3, <2>4
  <2>5. CASE i.r = "ok"
    <3>1. s \in J!readInfo(i.x) /\ i.x \in J!Sessions /\ JlinkSettled(i.x)
      BY <2>1, <2>3, <2>5 DEF JlinkSame, JlinkSettled
    <3>2. /\ JlinkSame(i.x, s.x) /\ s.r \in {"ok", "error"} /\ JlinkSettled(s.x)
          /\ s.r = "ok" => J!sessionReady(s.x)
          /\ \A f \in {"configured", "failed"} : f \in s.x.on <=> f \in i.x.on
      BY <3>1, JlinkInfo
    <3>3. "configured" \notin i.x.on /\ "failed" \notin i.x.on BY <1>2, <2>3, <2>5
    <3>4. JlinkSame(claimed, s.x) BY <2>3, <3>2, JlinkSameTransitive
    <3> QED BY <3>2, <3>3, <3>4 DEF JlinkSettled
  <2> QED BY <2>3, <2>4, <2>5
<1>5. CASE target = "none" BY <1>4, <1>5
<1>6. CASE target # "none"
  <2>1. PICK s \in synced : IF s.r = "ok" THEN e \in J!configureTarget(s.x, target, FALSE) ELSE e = s
    BY ZenonT(30), <1>6 DEF J!Then
  <2>2. /\ JlinkSame(claimed, s.x) /\ s.r \in {"ok", "error"}
        /\ s.r = "ok" => J!sessionReady(s.x) /\ JlinkClean(s.x)
    BY Zenon, <1>4
  <2>3. CASE s.r = "error" BY <2>1, <2>2, <2>3
  <2>4. CASE s.r = "ok"
    <3>1. e \in J!configureTarget(s.x, target, FALSE) /\ s.x \in J!Sessions /\ JlinkSettled(s.x)
      BY Zenon, <2>1, <2>2, <2>4 DEF JlinkSame, JlinkSettled
    <3>2. target \in J!Interfaces BY <1>6
    <3>3. JlinkConfigured(s.x, target, e) BY ZenonT(30), <3>1, <3>2, JlinkConfigure
    <3>4. JlinkSame(s.x, e.x) BY <3>3 DEF JlinkConfigured
    <3>5. JlinkSame(claimed, e.x) BY <2>2, <3>4, JlinkSameTransitive
    <3> QED BY <1>6, <3>3, <3>5 DEF JlinkConfigured, JlinkSettled
  <2> QED BY <2>2, <2>3, <2>4
<1> QED BY <1>5, <1>6

\* Open returns a session that is fit, or nothing.
LEMMA JlinkOpen ==
  ASSUME NEW y \in J!Attached, NEW target \in J!Interfaces \cup {"none"}, NEW owned \in BOOLEAN,
         owned => target # "none", NEW e \in J!Open(y, target, owned)
  PROVE  /\ e.r \in {"ok", "none"}
         /\ e.r = "ok" => JlinkFit(e.x) /\ "device" \in e.x.on
         /\ e.r = "none" => JlinkLoose(e.x)
<1> DEFINE fresh == J!Set(y, {"device"})
           claimed == J!Set(fresh, {"claim", "iface"})
           synced == J!Then(J!Then({J!Res(claimed, "ok"), J!Res(claimed, "error")}, J!synchronizeInput), J!readInfo)
           finished == IF target = "none" THEN synced ELSE J!Then(synced, LAMBDA z : J!configureTarget(z, target, FALSE))
<1>0. y \in J!Sessions /\ y.on = {"file"} /\ y.input.items = 0 /\ Len(y.pipe) <= MaxStale BY JlinkAttached
<1>1. \/ \E s \in finished : s.r = "ok" /\ e = J!Res(IF owned THEN J!Set(s.x, {"owned"}) ELSE s.x, "ok")
      \/ \E d \in J!CloseOwned(fresh, "device", "file", FALSE) : e = J!Res(J!Clear(d.x, {"device", "claim"}), "none")
      \/ \E d \in J!Close(fresh, FALSE) : e = J!Res(J!Clear(d.x, {"device", "claim"}), "none")
      \/ \E s \in finished : s.r # "ok" /\ \E d \in J!Close(s.x, FALSE) :
            e = J!Res(J!Clear(d.x, {"device", "claim"}), "none")
  BY ZenonT(30) DEF J!Open
<1>2. ASSUME NEW s \in finished
      PROVE  /\ JlinkSame(claimed, s.x) /\ s.r \in {"ok", "error"}
             /\ s.r = "ok" => /\ J!sessionReady(s.x) /\ JlinkClean(s.x)
                              /\ "configured" \in s.x.on <=> target # "none"
                              /\ target # "none" => s.x.wire = s.x.selected
  BY Zenon, <1>2, JlinkOpening
<1> HIDE DEF finished, synced
<1>3. fresh \in J!Sessions /\ fresh.on = {"file", "device"} /\ fresh.pipe = y.pipe
  BY <1>0, JlinkFlags DEF J!Flags
<1> HIDE DEF fresh
<1>4. claimed \in J!Sessions /\ claimed.on = {"file", "device", "claim", "iface"} /\ claimed.pipe = y.pipe
  BY <1>3, JlinkFlags DEF J!Flags
<1> HIDE DEF claimed
<1>5. Len(y.pipe) <= MaxStale + 4
  <2>1. y.pipe \in Seq(J!Packets) BY <1>0 DEF J!Sessions
  <2>2. Len(y.pipe) \in Nat BY <2>1
  <2> DEFINE n == Len(y.pipe)
  <2>3. n \in Nat /\ n <= MaxStale BY <1>0, <2>2
  <2> HIDE DEF n
  <2>4. n <= MaxStale + 4 BY <2>3, JlinkAssumption
  <2> QED BY <2>4 DEF n
<1>6. ASSUME NEW s \in finished
      PROVE  /\ s.x \in J!Sessions /\ JlinkPaired(s.x) /\ Len(s.x.pipe) <= MaxStale + 4
             /\ "mixed" \notin s.x.on /\ "astray" \notin s.x.on /\ "owned" \notin s.x.on
             /\ "device" \in s.x.on /\ "claim" \in s.x.on /\ "closing" \notin s.x.on
  <2>1. JlinkSame(claimed, s.x) BY <1>2, <1>6
  <2>2. \A f \in JlinkLasting : f \in s.x.on <=> f \in claimed.on BY <2>1 DEF JlinkSame
  <2>3. /\ "file" \in s.x.on /\ "device" \in s.x.on /\ "claim" \in s.x.on /\ "iface" \in s.x.on
        /\ "closing" \notin s.x.on /\ "owned" \notin s.x.on
    BY <1>4, <2>2 DEF JlinkLasting
  <2>4. /\ s.x \in J!Sessions /\ "mixed" \notin s.x.on /\ "astray" \notin s.x.on /\ Len(s.x.pipe) <= MaxStale + 4
    BY <1>4, <1>5, <2>1 DEF JlinkSame
  <2> QED BY <2>3, <2>4 DEF JlinkPaired
<1>7. ASSUME NEW d, d.x \in J!Sessions, Len(d.x.pipe) <= MaxStale + 4,
             "mixed" \notin d.x.on, "astray" \notin d.x.on, "configured" \notin d.x.on,
             e = J!Res(J!Clear(d.x, {"device", "claim"}), "none")
      PROVE  e.r = "none" /\ JlinkLoose(e.x)
  <2>1. e.x = J!Clear(d.x, {"device", "claim"}) /\ e.r = "none" BY <1>7 DEF J!Res
  <2>2. e.x \in J!Sessions /\ e.x.on = d.x.on \ {"device", "claim"} /\ e.x.pipe = d.x.pipe
    BY <1>7, <2>1, JlinkFlags DEF J!Flags
  <2> QED BY <1>7, <2>1, <2>2 DEF JlinkLoose
<1>8. ASSUME NEW s \in finished, s.r = "ok", e = J!Res(IF owned THEN J!Set(s.x, {"owned"}) ELSE s.x, "ok")
      PROVE  e.r = "ok" /\ JlinkFit(e.x) /\ "device" \in e.x.on
  <2>1. /\ J!sessionReady(s.x) /\ JlinkClean(s.x) /\ ("configured" \in s.x.on <=> target # "none")
        /\ (target # "none" => s.x.wire = s.x.selected)
    BY ZenonT(30), <1>2, <1>8
  <2>2. JlinkFit(s.x) BY ZenonT(30), <1>6, <1>8, <2>1 DEF JlinkFit, JlinkPaired, JlinkSettled
  <2>3. CASE ~owned BY <1>6, <1>8, <2>2, <2>3 DEF J!Res
  <2>4. CASE owned
    <3> DEFINE z == J!Set(s.x, {"owned"})
    <3>1. e.x = z /\ e.r = "ok" BY <1>8, <2>4 DEF J!Res
    <3>2. /\ z \in J!Sessions /\ z.on = s.x.on \cup {"owned"} /\ z.selected = s.x.selected /\ z.wire = s.x.wire
          /\ JlinkClean(z)
      BY ZenonT(30), <1>6, <1>8, <2>1, JlinkMarked
    <3>3. z.pipe = s.x.pipe BY ZenonT(30), <1>6, <1>8, JlinkFlags DEF J!Flags
    <3> HIDE DEF z
    <3>4. "configured" \in z.on /\ z.wire = z.selected BY <2>1, <2>4, <3>2
    <3>5. JlinkFit(z) BY ZenonT(30), <1>6, <1>8, <3>2, <3>3, <3>4 DEF JlinkFit, JlinkPaired, JlinkSettled
    <3> QED BY <1>6, <1>8, <3>1, <3>2, <3>5
  <2> QED BY <2>3, <2>4
<1>9. ASSUME NEW d \in J!CloseOwned(fresh, "device", "file", FALSE), e = J!Res(J!Clear(d.x, {"device", "claim"}), "none")
      PROVE  e.r = "none" /\ JlinkLoose(e.x)
  <2>1. "device" \in J!Flags \ {"gone"} /\ "file" \in J!Flags \ {"gone"} BY DEF J!Flags
  <2> DEFINE quiet == FALSE
  <2>0. quiet \in BOOLEAN /\ d \in J!CloseOwned(fresh, "device", "file", quiet) BY Zenon, <1>9
  <2> HIDE DEF quiet
  <2>2. /\ d.x \in J!Sessions /\ d.x.pipe = fresh.pipe
        /\ \A f \in J!Flags \ {"gone", "device", "file"} : f \in d.x.on <=> f \in fresh.on
    BY <1>3, <2>0, <2>1, JlinkCloseOwned
  <2>3. "mixed" \notin d.x.on /\ "astray" \notin d.x.on /\ "configured" \notin d.x.on BY <1>3, <2>2 DEF J!Flags
  <2> QED BY ZenonT(30), <1>3, <1>5, <1>7, <1>9, <2>2, <2>3
<1>10. ASSUME NEW z \in J!Sessions, JlinkPaired(z), Len(z.pipe) <= MaxStale + 4, "mixed" \notin z.on, "astray" \notin z.on,
              NEW d \in J!Close(z, FALSE), e = J!Res(J!Clear(d.x, {"device", "claim"}), "none")
       PROVE  e.r = "none" /\ JlinkLoose(e.x)
  <2>1. /\ d.x \in J!Sessions /\ d.x.pipe = z.pipe /\ "configured" \notin d.x.on
        /\ \A f \in {"poisoned", "mixed", "astray", "owned"} : f \in d.x.on <=> f \in z.on
    BY Zenon, <1>10, JlinkClose
  <2> QED BY <1>7, <1>10, <2>1
<1>11. ASSUME NEW d \in J!Close(fresh, FALSE), e = J!Res(J!Clear(d.x, {"device", "claim"}), "none")
       PROVE  e.r = "none" /\ JlinkLoose(e.x)
  <2>1. JlinkPaired(fresh) /\ Len(fresh.pipe) <= MaxStale + 4 /\ "mixed" \notin fresh.on /\ "astray" \notin fresh.on
    BY <1>3, <1>5 DEF JlinkPaired
  <2> QED BY ZenonT(30), <1>3, <1>10, <1>11, <2>1
<1>12. ASSUME NEW s \in finished, NEW d \in J!Close(s.x, FALSE), e = J!Res(J!Clear(d.x, {"device", "claim"}), "none")
       PROVE  e.r = "none" /\ JlinkLoose(e.x)
  BY Zenon, <1>6, <1>10, <1>12
<1> QED BY Zenon, <1>1, <1>8, <1>9, <1>11, <1>12

\* What CleanupPending and RestorationPossible answer for the session.
JlinkPending == held = "session" /\ J!CleanupPending(x)
JlinkAble == held = "session" /\ J!RestorationPossible(x)

\* The inductive invariant of a J-Link session and its owner.
JlinkInv ==
  /\ held \in {"nobody", "caller", "session"}
  /\ outcome \in {"none", "nil", "error"}
  /\ held = "session" => JlinkFit(x) /\ (outcome # "none" => "closing" \in x.on) /\ (outcome = "nil" => "device" \notin x.on)
  /\ held # "session" => JlinkLoose(x)
  /\ held = "nobody" => "file" \notin x.on /\ "iface" \notin x.on

\* A device nobody has opened is held by nobody.
LEMMA JlinkAttachedLoose == ASSUME NEW y \in J!Attached PROVE JlinkLoose(y)
<1>1. y \in J!Sessions /\ y.on = {"file"} /\ Len(y.pipe) <= MaxStale BY JlinkAttached
<1>2. y.pipe \in Seq(J!Packets) BY <1>1 DEF J!Sessions
<1>3. Len(y.pipe) \in Nat BY <1>2
<1>4. Len(y.pipe) <= MaxStale + 4
  <2> DEFINE n == Len(y.pipe)
  <2>1. n \in Nat /\ n <= MaxStale BY <1>1, <1>3
  <2> HIDE DEF n
  <2>2. n <= MaxStale + 4 BY <2>1, JlinkAssumption
  <2> QED BY <2>2 DEF n
<1> QED BY <1>1, <1>4 DEF JlinkLoose

\* The invariant holds before anything is opened.
LEMMA JlinkStarts == J!Init => JlinkInv /\ ~JlinkPending /\ ~JlinkAble /\ outcome = "none"
BY JlinkAttachedLoose DEF J!Init, JlinkInv, JlinkPending, JlinkAble

\* CleanupPending and RestorationPossible in terms of the flags of a session.
LEMMA JlinkSessionPending ==
  ASSUME NEW y, JlinkFit(y)
  PROVE  /\ J!CleanupPending(y) <=> "device" \in y.on
         /\ J!RestorationPossible(y) <=> /\ "device" \in y.on /\ "closing" \notin y.on
                                         /\ "gone" \notin y.on /\ "poisoned" \notin y.on
BY DEF JlinkFit, J!CleanupPending, J!RestorationPossible, J!Is

\* A call that keeps the session fit keeps the invariant and the contract.
LEMMA JlinkUse ==
  ASSUME JlinkInv, held = "session", UNCHANGED <<held, outcome>>, JlinkFit(x'), JlinkSame(x, x')
  PROVE  JlinkInv' /\ Keeps(JlinkPending, JlinkAble, outcome, JlinkPending', JlinkAble', outcome')
<1>1. JlinkFit(x) /\ held' = "session" BY DEF JlinkInv
<1>2. /\ "device" \in x'.on <=> "device" \in x.on
      /\ "closing" \in x'.on <=> "closing" \in x.on
      /\ "gone" \in x.on => "gone" \in x'.on
      /\ "poisoned" \in x.on => "poisoned" \in x'.on
  BY DEF JlinkSame, JlinkLasting
<1>3. /\ JlinkPending <=> "device" \in x.on
      /\ JlinkAble <=> /\ "device" \in x.on /\ "closing" \notin x.on
                       /\ "gone" \notin x.on /\ "poisoned" \notin x.on
  BY <1>1, JlinkSessionPending DEF JlinkPending, JlinkAble
<1>4. /\ JlinkPending' <=> "device" \in x'.on
      /\ JlinkAble' <=> /\ "device" \in x'.on /\ "closing" \notin x'.on
                        /\ "gone" \notin x'.on /\ "poisoned" \notin x'.on
  BY <1>1, JlinkSessionPending DEF JlinkPending, JlinkAble
<1>5. JlinkInv' BY <1>1, <1>2 DEF JlinkInv
<1>6. Keeps(JlinkPending, JlinkAble, outcome, JlinkPending', JlinkAble', outcome')
  BY <1>2, <1>3, <1>4 DEF Keeps
<1> QED BY <1>5, <1>6

\* Every step of the owner keeps the invariant and the contract.
LEMMA JlinkSteps ==
  ASSUME JlinkInv, J!Next
  PROVE  JlinkInv' /\ Keeps(JlinkPending, JlinkAble, outcome, JlinkPending', JlinkAble', outcome')
<1>1. CASE J!OpenSession
  <2>1. held = "caller" /\ x \in J!Attached /\ outcome' = "none" BY <1>1 DEF J!OpenSession
  <2>2. PICK owned \in BOOLEAN, target \in J!Interfaces \cup {"none"} :
          /\ owned => target # "none"
          /\ \E e \in J!Open(x, target, owned) :
               x' = e.x /\ held' = IF e.r = "none" THEN "caller" ELSE "session"
    BY <1>1 DEF J!OpenSession
  <2>3. PICK e \in J!Open(x, target, owned) : x' = e.x /\ held' = IF e.r = "none" THEN "caller" ELSE "session"
    BY <2>2
  <2>4. /\ e.r \in {"ok", "none"}
        /\ e.r = "ok" => JlinkFit(e.x) /\ "device" \in e.x.on
        /\ e.r = "none" => JlinkLoose(e.x)
    BY <2>1, <2>2, <2>3, JlinkOpen
  <2>5. ~JlinkPending /\ ~JlinkAble BY <2>1 DEF JlinkPending, JlinkAble
  <2>6. CASE e.r = "none"
    <3>1. held' = "caller" /\ JlinkLoose(x') BY <2>3, <2>4, <2>6
    <3>2. JlinkInv' BY <2>1, <3>1 DEF JlinkInv
    <3>3. ~JlinkPending' /\ ~JlinkAble' BY <3>1 DEF JlinkPending, JlinkAble
    <3> QED BY <2>1, <2>5, <3>2, <3>3 DEF Keeps
  <2>7. CASE e.r = "ok"
    <3>1. held' = "session" /\ JlinkFit(x') /\ "device" \in x'.on BY <2>3, <2>4, <2>7
    <3>2. JlinkInv' BY <2>1, <3>1 DEF JlinkInv
    <3>3. JlinkPending' BY <3>1, JlinkSessionPending DEF JlinkPending
    <3> QED BY <2>1, <2>5, <3>2, <3>3 DEF Keeps
  <2> QED BY ZenonT(30), <2>4, <2>6, <2>7
<1>2. CASE J!CloseAttachment
  <2>1. held = "caller" /\ held' = "nobody" /\ outcome' = outcome /\ x' = J!Clear(x, {"file", "iface"}) /\ JlinkLoose(x)
    BY <1>2 DEF J!CloseAttachment, JlinkInv
  <2>2. x' \in J!Sessions /\ x'.on = x.on \ {"file", "iface"} /\ x'.pipe = x.pipe
    BY <2>1, JlinkFlags DEF JlinkLoose, J!Flags
  <2>3. JlinkLoose(x') BY <2>1, <2>2 DEF JlinkLoose
  <2>4. JlinkInv' BY <2>1, <2>2, <2>3 DEF JlinkInv
  <2>5. ~JlinkPending /\ ~JlinkAble /\ ~JlinkPending' /\ ~JlinkAble' BY <2>1 DEF JlinkPending, JlinkAble
  <2> QED BY <2>1, <2>4, <2>5 DEF Keeps
<1>3. CASE J!Attach
  <2>1. x' \in J!Attached /\ held' = "caller" /\ outcome' = "none" /\ ~JlinkPending
    BY <1>3 DEF J!Attach, JlinkPending
  <2>2. ~JlinkAble
    <3>1. held = "session" => JlinkFit(x) BY DEF JlinkInv
    <3> QED BY <2>1, <3>1, JlinkSessionPending DEF JlinkAble, JlinkPending
  <2>3. JlinkLoose(x') BY <2>1, JlinkAttachedLoose
  <2>4. JlinkInv' BY <2>1, <2>3 DEF JlinkInv
  <2>5. ~JlinkPending' /\ ~JlinkAble' BY <2>1 DEF JlinkPending, JlinkAble
  <2> QED BY <2>1, <2>2, <2>4, <2>5 DEF Keeps
<1>4. CASE J!Configure
  <2>1. PICK target \in J!Interfaces : J!Call(J!configureTarget(x, target, FALSE)) BY Zenon, <1>4 DEF J!Configure
  <2>2. held = "session" /\ UNCHANGED <<held, outcome>> BY <2>1 DEF J!Call
  <2>3. PICK e \in J!configureTarget(x, target, FALSE) : x' = e.x BY ZenonT(30), <2>1 DEF J!Call
  <2>4. JlinkFit(x) /\ "owned" \notin x.on BY <1>4, <2>2 DEF JlinkInv, J!Configure, J!Is
  <2>5. x \in J!Sessions /\ JlinkSettled(x) BY <2>4 DEF JlinkFit
  <2>6. JlinkConfigured(x, target, e) BY ZenonT(30), <2>3, <2>5, JlinkConfigure
  <2>7. JlinkSame(x, e.x) /\ JlinkSettled(e.x) /\ e.r \in {"ok", "error"} BY <2>6 DEF JlinkConfigured
  <2>8. "owned" \notin e.x.on BY <2>4, <2>7 DEF JlinkSame, JlinkLasting
  <2>9. CASE e.r = "ok"
    <3>1. "closing" \notin e.x.on /\ e.x.wire = e.x.selected BY <2>6, <2>9, JlinkReady DEF JlinkConfigured
    <3>2. JlinkFit(e.x) BY <2>4, <2>7, <2>8, <3>1, JlinkFits
    <3> QED BY <2>2, <2>3, <2>7, <3>2, JlinkUse
  <2>10. CASE e.r = "error"
    <3>1. e.x = x \/ "configured" \notin e.x.on BY <2>6, <2>10 DEF JlinkConfigured
    <3>2. JlinkFit(e.x) BY <2>4, <2>7, <2>8, <3>1, JlinkFits
    <3> QED BY <2>2, <2>3, <2>7, <3>2, JlinkUse
  <2> QED BY <2>7, <2>9, <2>10
<1>5. CASE J!Scan
  <2>1. PICK target \in J!Interfaces : J!Call(J!scanIO(x, target, FALSE)) BY Zenon, <1>5 DEF J!Scan
  <2>2. held = "session" /\ UNCHANGED <<held, outcome>> BY <2>1 DEF J!Call
  <2>3. PICK e \in J!scanIO(x, target, FALSE) : x' = e.x BY Zenon, <2>1 DEF J!Call
  <2>4. JlinkFit(x) BY <2>2 DEF JlinkInv
  <2>5. JlinkSame(x, x') /\ JlinkFit(x') BY ZenonT(30), <2>3, <2>4, JlinkScanIO
  <2> QED BY <2>2, <2>5, JlinkUse
<1>6. CASE J!CloseSession
  <2>1. held = "session" /\ held' = held BY <1>6 DEF J!CloseSession
  <2>2. PICK e \in J!Close(x, FALSE) : x' = e.x /\ outcome' = IF e.r = "ok" THEN "nil" ELSE "error"
    BY ZenonT(30), <1>6 DEF J!CloseSession
  <2>3. JlinkFit(x) /\ x \in J!Sessions /\ JlinkPaired(x) BY <2>1 DEF JlinkInv, JlinkFit, JlinkPaired
  <2>4. /\ e.x \in J!Sessions /\ e.x.pipe = x.pipe /\ e.r \in {"ok", "error"}
        /\ JlinkPaired(e.x) /\ "closing" \in e.x.on /\ "configured" \notin e.x.on
    BY Zenon, <2>2, <2>3, JlinkClose
  <2> DEFINE quiet == FALSE
  <2>0. quiet \in BOOLEAN /\ e \in J!Close(x, quiet) BY ZenonT(30), <2>2
  <2> HIDE DEF quiet
  <2>5. \A f \in {"poisoned", "mixed", "astray", "owned"} : f \in e.x.on <=> f \in x.on BY <2>0, <2>3, JlinkClose
  <2>6. ("device" \in e.x.on => "device" \in x.on) /\ ("device" \notin x.on => e.r = "ok") BY <2>0, <2>3, JlinkClose
  <2>7. e.r = "ok" => "device" \notin e.x.on BY <2>0, <2>3, JlinkClose
  <2>8. ~J!sessionReady(e.x) BY <2>4, JlinkReady
  <2>9. JlinkFit(x') BY <2>2, <2>3, <2>4, <2>5, <2>8 DEF JlinkFit, JlinkPaired, JlinkSettled
  <2>10. JlinkInv' BY <2>1, <2>2, <2>4, <2>7, <2>9 DEF JlinkInv
  <2>11. /\ JlinkPending <=> "device" \in x.on
         /\ JlinkPending' <=> "device" \in x'.on
         /\ ~JlinkAble'
    BY <2>1, <2>2, <2>3, <2>4, <2>9, JlinkSessionPending DEF JlinkPending, JlinkAble
  <2> QED BY <2>2, <2>4, <2>6, <2>7, <2>10, <2>11 DEF Keeps
<1> QED BY <1>1, <1>2, <1>3, <1>4, <1>5, <1>6 DEF J!Next

\* The safety properties follow from the invariant.
LEMMA JlinkSafe ==
  ASSUME JlinkInv
  PROVE  /\ J!TypeOK /\ J!AnswersMatch /\ J!ScansInPlace /\ J!RecoveryKept
         /\ J!NothingOrphaned /\ J!CloseConverges
<1>1. /\ x \in J!Sessions /\ Len(x.pipe) <= MaxStale + 4 /\ "mixed" \notin x.on /\ "astray" \notin x.on
      /\ "closing" \in x.on => "configured" \notin x.on
  BY DEF JlinkInv, JlinkFit, JlinkLoose
<1>2. \A k \in DOMAIN x.pipe : x.pipe[k] \in J!Packets
  <2>1. x.pipe \in Seq(J!Packets) BY <1>1 DEF J!Sessions
  <2> QED BY <2>1
<1>3. J!TypeOK BY <1>1, <1>2 DEF JlinkInv, J!TypeOK, J!Sessions, J!Packets, J!Is
<1>4. J!AnswersMatch /\ J!ScansInPlace BY <1>1 DEF J!AnswersMatch, J!ScansInPlace, J!Is
<1>5. J!RecoveryKept
  <2> SUFFICES ASSUME held = "session", "owned" \in x.on, J!RestorationPossible(x)
      PROVE  J!Is(x, "configured") \/ J!recoverableScan(x)
    BY DEF J!RecoveryKept, J!Is
  <2>1. JlinkFit(x) BY DEF JlinkInv
  <2>2. J!sessionReady(x) BY <2>1, JlinkPossible
  <2> QED BY <2>1, <2>2 DEF JlinkFit, J!recoverableScan, J!Is
<1>6. J!NothingOrphaned BY DEF JlinkInv, JlinkFit, J!NothingOrphaned, J!Is
<1>7. J!CloseConverges
  <2> SUFFICES ASSUME held = "session"
      PROVE  /\ \A e \in J!Close(x, TRUE) : ~J!CleanupPending(e.x)
             /\ outcome # "none" => \A target \in J!Interfaces : J!scanIO(x, target, FALSE) = {J!Res(x, "error")}
    BY Zenon DEF J!CloseConverges
  <2>1. JlinkFit(x) /\ x \in J!Sessions /\ JlinkPaired(x) BY DEF JlinkInv, JlinkFit, JlinkPaired
  <2>2. ASSUME NEW e \in J!Close(x, TRUE) PROVE ~J!CleanupPending(e.x)
    <3>1. JlinkPaired(e.x) BY Zenon, <2>1, <2>2, JlinkClose
    <3>2. "device" \notin e.x.on BY Zenon, <2>1, <2>2, JlinkClose
    <3> QED BY <3>1, <3>2 DEF J!CleanupPending, JlinkPaired
  <2>3. ASSUME outcome # "none", NEW target \in J!Interfaces PROVE J!scanIO(x, target, FALSE) = {J!Res(x, "error")}
    <3>1. "closing" \in x.on BY <2>3 DEF JlinkInv
    <3>2. ~J!sessionReady(x) BY <3>1, JlinkReady
    <3> QED BY <3>2 DEF J!scanIO
  <2> QED BY Zenon, <2>2, <2>3
<1> QED BY <1>3, <1>4, <1>5, <1>6, <1>7

=============================================================================
