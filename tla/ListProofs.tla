----------------------------- MODULE ListProofs -----------------------------
(* The singly linked lists of list.h, for any number of lists and elements:  *)
(* whatever the calling code does, each list is the path of the links from   *)
(* its head, through the elements the caller has put in it, and a stored     *)
(* tail is at its end.  All operations come down to three changes: a node is *)
(* put in at a place of the path, one is taken out, all are.  That gives the *)
(* order of the elements as well, so List is shown to implement sequences.   *)
EXTENDS List, Integers, FiniteSetTheorems, SequenceTheorems, TLAPS

\* Every set of natural numbers but the empty one has a least member, because
\* the intervals up to its members have one.
LEMMA LeastNatural ==
    ASSUME NEW S \in SUBSET Nat, S # {}
    PROVE  \E m \in S : \A n \in S : m <= n
<1> DEFINE T == {1 .. n : n \in S}
<1>1. \A n \in S : 1 .. n \in FiniteSubsetsOf(Nat)
  BY FS_Interval DEF FiniteSubsetsOf
<1>2. T \subseteq FiniteSubsetsOf(Nat) /\ T # {}
  BY <1>1
<1>3. PICK x \in T : \A y \in T : <<y, x>> \notin StrictSubsetOrdering(Nat)
  <2> HIDE DEF T
  <2> QED
  BY <1>2, WFMin, FS_StrictSubsetOrderingWellFounded
<1>4. PICK m \in S : x = 1 .. m
  OBVIOUS
<1>5. ASSUME NEW n \in S, n < m PROVE FALSE
  <2>1. <<1 .. n, 1 .. m>> \notin StrictSubsetOrdering(Nat)
    BY <1>3, <1>4
  <2>2. /\ m \in 1 .. m /\ m \notin 1 .. n
        /\ 1 .. n \subseteq 1 .. m /\ 1 .. m \subseteq Nat
    BY <1>5
  <2>3. 1 .. n # 1 .. m
    BY <2>2
  <2> QED
    BY <2>1, <2>2, <2>3 DEF StrictSubsetOrdering
<1> QED
  BY <1>5

\* A set of naturals with zero and the successor of each is all of them.
LEMMA AllNaturals ==
    ASSUME NEW P, 0 \in P, \A n \in Nat : n \in P => n + 1 \in P
    PROVE  Nat \subseteq P
<1>1. ASSUME Nat \ P # {} PROVE FALSE
  <2>1. PICK m \in Nat \ P : \A n \in Nat \ P : m <= n
    BY <1>1, LeastNatural
  <2>2. m # 0 /\ m - 1 \in Nat /\ m - 1 \in P
    BY <2>1
  <2> QED
    BY <2>1, <2>2
<1> QED
  BY <1>1

StaysIn(step, S) == step \in [S -> S]

Repeats(f, step, S, a) ==
  f \in [Nat -> S] /\ f[0] = a /\ \A n \in Nat : f[n + 1] = step[f[n]]

\* A step that stays in a set can be repeated without end.
LEMMA StepsGoOn ==
    ASSUME NEW S, NEW step, StaysIn(step, S), NEW a \in S
    PROVE  \E f : Repeats(f, step, S, a)
<1> USE DEF StaysIn
<1> DEFINE Goes(f, n) == f[0] = a /\ \A i \in 0..(n - 1) : f[i + 1] = step[f[i]]
           Long == {n \in Nat : \E f \in [0..n -> S] : Goes(f, n)}
<1>1. Nat \subseteq Long
  <2>1. 0 \in Long
    <3>1. [i \in 0..0 |-> a] \in [0..0 -> S] /\ Goes([i \in 0..0 |-> a], 0)
      OBVIOUS
    <3> QED
      BY <3>1
  <2>2. ASSUME NEW n \in Nat, n \in Long PROVE n + 1 \in Long
    <3>1. PICK f \in [0..n -> S] : Goes(f, n)
      BY <2>2
    <3> DEFINE g == [i \in 0..(n + 1) |-> IF i = n + 1 THEN step[f[n]] ELSE f[i]]
    <3>2. g \in [0..(n + 1) -> S]
      OBVIOUS
    <3>3. Goes(g, n + 1)
      BY <3>1
    <3> HIDE DEF g, Goes
    <3> QED
      BY <3>2, <3>3
  <2> HIDE DEF Long
  <2> QED
    BY <2>1, <2>2, AllNaturals
<1>2. ASSUME NEW n \in Nat, NEW m \in Nat, n <= m, NEW f, NEW g, Goes(f, n), Goes(g, m)
      PROVE  f[n] = g[n]
  <2> DEFINE Same == {i \in Nat : i <= n => f[i] = g[i]}
  <2>1. 0 \in Same
    BY <1>2
  <2>2. ASSUME NEW i \in Nat, i \in Same PROVE i + 1 \in Same
    BY <1>2, <2>2
  <2>3. Nat \subseteq Same
    <3> HIDE DEF Same
    <3> QED
      BY <2>1, <2>2, AllNaturals
  <2> QED
    BY <2>3
<1> DEFINE G(n) == CHOOSE f \in [0..n -> S] : Goes(f, n)
           h == [n \in Nat |-> G(n)[n]]
<1>3. \A n \in Nat : G(n) \in [0..n -> S] /\ Goes(G(n), n)
  <2> TAKE n \in Nat
  <2>1. \E f \in [0..n -> S] : Goes(f, n)
    BY <1>1
  <2> HIDE DEF Goes
  <2> QED
    BY <2>1
<1> HIDE DEF G
<1>4. h \in [Nat -> S] /\ h[0] = a
  BY <1>3
<1>5. ASSUME NEW n \in Nat PROVE h[n + 1] = step[h[n]]
  <2>1. h[n] = G(n)[n] /\ h[n + 1] = G(n + 1)[n + 1]
    OBVIOUS
  <2>2. G(n + 1)[n + 1] = step[G(n + 1)[n]]
    BY <1>3
  <2>3. G(n)[n] = G(n + 1)[n]
    <3> HIDE DEF Goes
    <3> QED
      BY <1>2, <1>3
  <2> QED
    BY <2>1, <2>2, <2>3
<1> QED
  BY <1>4, <1>5 DEF Repeats

-----------------------------------------------------------------------------
\* The loop along the links from first on comes by the nodes of q, each once and
\* in this order, and to an end.
IsPath(q, Node, next, first) ==
    /\ q \in Seq(Node)
    /\ \A i, j \in 1..Len(q) : q[i] = q[j] => i = j
    /\ IF q = <<>> THEN first \notin Node ELSE first = q[1]
    /\ \A i \in 1..Len(q) : IF i < Len(q) THEN next[q[i]] = q[i + 1]
                            ELSE next[q[i]] \notin Node

\* The nodes of a path are those that the loop comes by.
LEMMA OnwardIsPath ==
    ASSUME NEW Node, NEW next, NEW first, NEW q, IsPath(q, Node, next, first)
    PROVE  Onward(Node, next, first) = Range(q)
<1>1. /\ q \in [1..Len(q) -> Node] /\ Len(q) \in Nat /\ Range(q) = {q[i] : i \in 1..Len(q)}
      /\ q = <<>> <=> Len(q) = 0
  BY LenProperties, EmptySeq DEF IsPath, Range
<1>2. Range(q) \in Closed(Node, next, first)
  <2>1. Range(q) \in SUBSET Node
    BY <1>1
  <2>2. first \in Node => first \in Range(q)
    BY <1>1 DEF IsPath
  <2>3. ASSUME NEW x \in Range(q), next[x] \in Node PROVE next[x] \in Range(q)
    <3>1. PICK i \in 1..Len(q) : x = q[i]
      BY <1>1
    <3>2. i < Len(q) /\ next[x] = q[i + 1]
      BY <2>3, <3>1 DEF IsPath
    <3> QED
      BY <1>1, <3>2
  <2> QED
    BY <2>1, <2>2, <2>3 DEF Closed
<1>3. ASSUME NEW S \in Closed(Node, next, first) PROVE Range(q) \subseteq S
  <2> DEFINE In == {n \in Nat : n + 1 \in 1..Len(q) => q[n + 1] \in S}
  <2>1. 0 \in In
    BY <1>1 DEF Closed, IsPath
  <2>2. ASSUME NEW n \in Nat, n \in In PROVE n + 1 \in In
    <3> SUFFICES ASSUME n + 2 \in 1..Len(q) PROVE q[n + 2] \in S
      OBVIOUS
    <3>1. n + 1 \in 1..Len(q) /\ n + 1 < Len(q)
      BY <1>1
    <3>2. q[n + 1] \in S
      BY ONLY <2>2, <3>1 DEF In
    <3>3. next[q[n + 1]] = q[n + 1 + 1] /\ n + 1 + 1 = n + 2
      BY ONLY <3>1, IsPath(q, Node, next, first), n \in Nat DEF IsPath
    <3>4. q[n + 2] \in Node
      BY ONLY <1>1, n + 2 \in 1..Len(q)
    <3> QED
      BY <3>2, <3>3, <3>4 DEF Closed
  <2>3. Nat \subseteq In
    <3> HIDE DEF In
    <3> QED
      BY <2>1, <2>2, AllNaturals
  <2>4. ASSUME NEW i \in 1..Len(q) PROVE q[i] \in S
    <3>1. i - 1 \in In /\ (i - 1) + 1 = i
      BY <1>1, <2>3
    <3> QED
      BY <1>1, <3>1
  <2> QED
    BY <1>1, <2>4
<1> QED
  BY <1>1, <1>2, <1>3 DEF Onward, Closed

\* A path is the only one from its first node.
LEMMA PathIs ==
    ASSUME NEW Node, NEW next, NEW first, NEW q, IsPath(q, Node, next, first)
    PROVE  Path(Node, next, first) = q
<1>1. /\ q \in [1..Len(q) -> Node] /\ Len(q) \in Nat
      /\ q = <<>> <=> Len(q) = 0
  BY LenProperties, EmptySeq DEF IsPath
<1>2. Cardinality(Onward(Node, next, first)) = Len(q)
  <2>1. q \in Bijection(1..Len(q), Range(q))
    BY <1>1 DEF IsPath, Bijection, Injection, Surjection, IsInjective, Range
  <2>2. IsFiniteSet(1..Len(q)) /\ Cardinality(1..Len(q)) = Len(q)
    <3>1. 1 \in Int /\ Len(q) \in Int
      BY <1>1
    <3>2. IsFiniteSet(1..Len(q)) /\ Cardinality(1..Len(q)) = IF 1 > Len(q) THEN 0 ELSE Len(q) - 1 + 1
      BY <3>1, FS_Interval
    <3> QED
      BY <1>1, <3>2
  <2>3. ExistsBijection(1..Len(q), Range(q))
    BY <2>1 DEF ExistsBijection
  <2>4. Cardinality(Range(q)) = Cardinality(1..Len(q))
    BY <2>2, <2>3, FS_Bijection
  <2> QED
    BY <2>2, <2>4, OnwardIsPath
<1>3. \E S, step : /\ S = Node \cup {first} \cup {next[x] : x \in Node}
                    /\ step = [x \in S |-> IF x \in Node THEN next[x] ELSE x]
  OBVIOUS
<1>4. PICK S, step : /\ S = Node \cup {first} \cup {next[x] : x \in Node}
                     /\ step = [x \in S |-> IF x \in Node THEN next[x] ELSE x]
  BY <1>3
<1>5. StaysIn(step, S) /\ first \in S
  BY <1>4 DEF StaysIn
<1>6. PICK f : Repeats(f, step, S, first)
  BY <1>5, StepsGoOn
<1> USE DEF Repeats
<1> DEFINE hop[n \in Nat] == IF n = 0 THEN first
                             ELSE IF hop[n - 1] \in Node THEN next[hop[n - 1]]
                             ELSE hop[n - 1]
           Hops(h) == h = [n \in Nat |-> IF n = 0 THEN first
                                         ELSE IF h[n - 1] \in Node THEN next[h[n - 1]]
                                         ELSE h[n - 1]]
<1>7. Hops(f)
  <2>1. \A n \in Nat : f[n] = IF n = 0 THEN first
                              ELSE IF f[n - 1] \in Node THEN next[f[n - 1]] ELSE f[n - 1]
    <3> TAKE n \in Nat
    <3>1. CASE n = 0
      BY <1>6, <3>1
    <3>2. CASE n # 0
      <4>1. n - 1 \in Nat /\ (n - 1) + 1 = n
        BY <3>2
      <4>2. f[n] = step[f[n - 1]] /\ f[n - 1] \in S
        BY <1>6, <4>1
      <4> QED
        BY <1>4, <3>2, <4>2
    <3> QED
      BY <3>1, <3>2
  <2> QED
    BY <1>6, <2>1
<1>8. Hops(hop)
  <2>1. hop = CHOOSE h : Hops(h)
    OBVIOUS
  <2> HIDE DEF hop, Hops
  <2> QED
    BY <1>7, <2>1
<1>9. Path(Node, next, first) = [n \in 1..Len(q) |-> hop[n - 1]]
  BY <1>2 DEF Path
<1> HIDE DEF hop
<1> DEFINE Same == {n \in Nat : n + 1 \in 1..Len(q) => hop[n] = q[n + 1]}
<1>10. 0 \in Same
  BY <1>1, <1>8 DEF IsPath
<1>11. ASSUME NEW n \in Nat, n \in Same PROVE n + 1 \in Same
  <2> SUFFICES ASSUME n + 2 \in 1..Len(q) PROVE hop[n + 1] = q[n + 2]
    OBVIOUS
  <2>1. n + 1 \in 1..Len(q) /\ n + 1 < Len(q)
    BY <1>1
  <2>2. hop[n] = q[n + 1] /\ q[n + 1] \in Node /\ next[q[n + 1]] = q[n + 2]
    BY <1>1, <1>11, <2>1 DEF IsPath
  <2>3. hop[n + 1] = IF hop[n] \in Node THEN next[hop[n]] ELSE hop[n]
    BY <1>8
  <2> QED
    BY <2>2, <2>3
<1>12. Nat \subseteq Same
  <2> HIDE DEF Same
  <2> QED
    BY <1>10, <1>11, AllNaturals
<1>13. \A i \in 1..Len(q) : hop[i - 1] = q[i]
  <2> TAKE i \in 1..Len(q)
  <2>1. i - 1 \in Same /\ (i - 1) + 1 = i
    BY <1>1, <1>12
  <2> QED
    BY <2>1
<1> QED
  BY <1>1, <1>9, <1>13

-----------------------------------------------------------------------------
\* What InsertAt and RemoveAt put where.
PutAt(p, q, i, y) ==
    /\ Len(p) = Len(q) + 1
    /\ \A j \in 1..(Len(q) + 1) :
         p[j] = IF j < i THEN q[j] ELSE IF j = i THEN y ELSE q[j - 1]

CutAt(p, q, i) ==
    /\ Len(p) = Len(q) - 1
    /\ \A j \in 1..(Len(q) - 1) : p[j] = IF j < i THEN q[j] ELSE q[j + 1]

\* They do.
LEMMA InsertedIs ==
    ASSUME NEW S, NEW q \in Seq(S), NEW i \in 1..(Len(q) + 1), NEW y \in S
    PROVE  InsertAt(q, i, y) \in Seq(S) /\ PutAt(InsertAt(q, i, y), q, i, y)
<1> DEFINE a == SubSeq(q, 1, i - 1)
           b == SubSeq(q, i, Len(q))
<1>1. Len(q) \in Nat /\ i \in Int
  BY LenProperties
<1>2. /\ a \in Seq(S) /\ Len(a) = i - 1
      /\ \A j \in 1..(i - 1) : a[j] = q[j]
  BY <1>1
<1>3. /\ b \in Seq(S) /\ Len(b) = Len(q) - i + 1
      /\ \A j \in 1..(Len(q) - i + 1) : b[j] = q[i + j - 1]
  BY <1>1
<1>4. InsertAt(q, i, y) = a \o <<y>> \o b
  BY DEF InsertAt
<1> HIDE DEF a, b
<1>5. /\ a \o <<y>> \in Seq(S) /\ Len(a \o <<y>>) = i
      /\ \A j \in 1..i : (a \o <<y>>)[j] = IF j < i THEN q[j] ELSE y
  BY <1>1, <1>2
<1> DEFINE c == a \o <<y>>
<1>6. InsertAt(q, i, y) = c \o b
  BY <1>4
<1> HIDE DEF c
<1>7. /\ c \in Seq(S) /\ Len(c) = i
      /\ \A j \in 1..i : c[j] = IF j < i THEN q[j] ELSE y
  BY <1>5 DEF c
<1>8. /\ c \o b \in Seq(S) /\ Len(c \o b) = Len(q) + 1
      /\ \A j \in 1..(Len(q) + 1) : (c \o b)[j] = IF j <= i THEN c[j] ELSE b[j - i]
  <2>1. c \in Seq(S) /\ b \in Seq(S) /\ Len(c) = i /\ Len(b) = Len(q) - i + 1
    BY <1>3, <1>7
  <2>2. c \o b \in Seq(S) /\ Len(c \o b) = Len(q) + 1
    BY <1>1, <2>1
  <2>3. \A j \in 1..(Len(c) + Len(b)) :
          (c \o b)[j] = IF j <= Len(c) THEN c[j] ELSE b[j - Len(c)]
    BY <2>1
  <2> QED
    BY <1>1, <2>1, <2>2, <2>3
<1> QED
  BY <1>1, <1>3, <1>6, <1>7, <1>8 DEF PutAt

\* RemoveAt leaves the i-th out and moves up those after it.
LEMMA RemovedIs ==
    ASSUME NEW S, NEW q \in Seq(S), NEW i \in 1..Len(q)
    PROVE  RemoveAt(q, i) \in Seq(S) /\ CutAt(RemoveAt(q, i), q, i)
<1> DEFINE a == SubSeq(q, 1, i - 1)
           b == SubSeq(q, i + 1, Len(q))
<1>1. Len(q) \in Nat /\ i \in Int
  BY LenProperties
<1>2. /\ a \in Seq(S) /\ Len(a) = i - 1
      /\ \A j \in 1..(i - 1) : a[j] = q[j]
  BY <1>1
<1>3. /\ b \in Seq(S) /\ Len(b) = Len(q) - i
      /\ \A j \in 1..(Len(q) - i) : b[j] = q[i + j]
  BY <1>1
<1>4. RemoveAt(q, i) = a \o b
  BY DEF RemoveAt
<1> HIDE DEF a, b
<1>5. /\ a \o b \in Seq(S) /\ Len(a \o b) = Len(q) - 1
      /\ \A j \in 1..(Len(q) - 1) : (a \o b)[j] = IF j < i THEN a[j] ELSE b[j - i + 1]
  <2>1. /\ a \o b \in Seq(S) /\ Len(a \o b) = Len(a) + Len(b)
        /\ \A j \in 1..(Len(a) + Len(b)) :
             (a \o b)[j] = IF j <= Len(a) THEN a[j] ELSE b[j - Len(a)]
    BY <1>2, <1>3, ConcatProperties
  <2>2. Len(a) + Len(b) = Len(q) - 1
    BY <1>1, <1>2, <1>3
  <2>3. ASSUME NEW j \in 1..(Len(q) - 1)
        PROVE  (a \o b)[j] = IF j < i THEN a[j] ELSE b[j - i + 1]
    <3>1. /\ (a \o b)[j] = IF j <= Len(a) THEN a[j] ELSE b[j - Len(a)]
          /\ Len(a) = i - 1
      BY <1>2, <2>1, <2>2
    <3>2. (j <= i - 1 <=> j < i) /\ j - (i - 1) = j - i + 1
      BY <1>1
    <3> QED
      BY <3>1, <3>2
  <2> QED
    BY <2>1, <2>2, <2>3
<1>6. ASSUME NEW j \in 1..(Len(q) - 1)
      PROVE  (a \o b)[j] = IF j < i THEN q[j] ELSE q[j + 1]
  <2>1. CASE j < i
    BY <1>1, <1>2, <1>5, <2>1
  <2>2. CASE j >= i
    <3>1. j - i + 1 \in 1..(Len(q) - i) /\ i + (j - i + 1) = j + 1
      BY <1>1, <2>2
    <3> QED
      BY <1>1, <1>3, <1>5, <2>2, <3>1, SMTT(60)
  <2>3. j < i \/ j >= i
    BY <1>1
  <2> QED
    BY <2>1, <2>2, <2>3
<1> QED
  BY <1>4, <1>5, <1>6 DEF CutAt

\* Two sequences of the same length and elements are the same.
LEMMA SameSequence ==
    ASSUME NEW S, NEW p \in Seq(S), NEW q \in Seq(S), Len(p) = Len(q),
           \A i \in 1..Len(q) : p[i] = q[i]
    PROVE  p = q
  BY SeqEqual

\* Nothing else does.
LEMMA OnlyInserted ==
    ASSUME NEW S, NEW q \in Seq(S), NEW i \in 1..(Len(q) + 1), NEW y \in S,
           NEW p \in Seq(S), PutAt(p, q, i, y)
    PROVE  p = InsertAt(q, i, y)
<1>1. InsertAt(q, i, y) \in Seq(S) /\ PutAt(InsertAt(q, i, y), q, i, y)
  BY InsertedIs
<1> QED
  BY <1>1, SameSequence DEF PutAt

\* Nothing else leaves just that one out.
LEMMA OnlyRemoved ==
    ASSUME NEW S, NEW q \in Seq(S), NEW i \in 1..Len(q), NEW p \in Seq(S), CutAt(p, q, i)
    PROVE  p = RemoveAt(q, i)
<1>1. RemoveAt(q, i) \in Seq(S) /\ CutAt(RemoveAt(q, i), q, i)
  BY RemovedIs
<1> QED
  BY <1>1, SameSequence DEF CutAt

\* The ends of a sequence.
LEMMA EndsAre ==
    ASSUME NEW S, NEW q \in Seq(S), NEW y \in S
    PROVE  /\ <<y>> \o q = InsertAt(q, 1, y)
           /\ Append(q, y) = InsertAt(q, Len(q) + 1, y)
           /\ q # <<>> => Tail(q) = RemoveAt(q, 1) /\ Front(q) = RemoveAt(q, Len(q))
<1>1. Len(q) \in Nat /\ 1 \in 1..(Len(q) + 1) /\ Len(q) + 1 \in 1..(Len(q) + 1)
      /\ (q # <<>> => 1 \in 1..Len(q) /\ Len(q) \in 1..Len(q))
  BY LenProperties
<1>2. <<y>> \o q = InsertAt(q, 1, y)
  <2>1. <<y>> \o q \in Seq(S) /\ PutAt(<<y>> \o q, q, 1, y)
    BY <1>1 DEF PutAt
  <2> QED
    BY <1>1, <2>1, OnlyInserted
<1>3. Append(q, y) = InsertAt(q, Len(q) + 1, y)
  <2>1. /\ Append(q, y) \in Seq(S) /\ Len(Append(q, y)) = Len(q) + 1
        /\ \A j \in 1..(Len(q) + 1) : Append(q, y)[j] = IF j <= Len(q) THEN q[j] ELSE y
    BY <1>1
  <2>2. PutAt(Append(q, y), q, Len(q) + 1, y)
    BY <1>1, <2>1 DEF PutAt
  <2> QED
    BY <1>1, <2>1, <2>2, OnlyInserted
<1>4. ASSUME q # <<>> PROVE Tail(q) = RemoveAt(q, 1)
  <2>1. Tail(q) \in Seq(S) /\ CutAt(Tail(q), q, 1)
    BY <1>1, <1>4 DEF CutAt
  <2> QED
    BY <1>1, <1>4, <2>1, OnlyRemoved
<1>5. ASSUME q # <<>> PROVE Front(q) = RemoveAt(q, Len(q))
  <2>1. /\ Front(q) \in Seq(S) /\ Len(Front(q)) = Len(q) - 1
        /\ \A j \in 1..(Len(q) - 1) : Front(q)[j] = q[j]
    <3> DEFINE m == Len(q) - 1
    <3>1. m \in Nat /\ m + 1 = Len(q)
      BY <1>1, <1>5
    <3> HIDE DEF m
    <3>2. SubSeq(q, 1, m) \in Seq(S) /\ Len(SubSeq(q, 1, m)) = m
      BY <1>1, <3>1
    <3>3. \A j \in 1..m : SubSeq(q, 1, m)[j] = q[j]
      BY <1>1, <3>1
    <3> QED
      BY <3>2, <3>3 DEF m, Front
  <2>2. CutAt(Front(q), q, Len(q))
    BY <1>1, <2>1 DEF CutAt
  <2> QED
    BY <1>1, <1>5, <2>1, <2>2, OnlyRemoved
<1> QED
  BY <1>2, <1>3, <1>4, <1>5

\* The nodes of a sequence.
LEMMA RangeIs ==
    ASSUME NEW S, NEW q \in Seq(S)
    PROVE  Range(q) = {q[i] : i \in 1..Len(q)}
<1>1. DOMAIN q = 1..Len(q)
  BY LenProperties
<1> QED
  BY <1>1 DEF Range

\* What is put in or taken out, and nothing else, is more or less in it.
LEMMA RangeInserted ==
    ASSUME NEW S, NEW q \in Seq(S), NEW i \in 1..(Len(q) + 1), NEW y \in S
    PROVE  Range(InsertAt(q, i, y)) = Range(q) \cup {y}
<1> DEFINE p == InsertAt(q, i, y)
<1>1. Len(q) \in Nat /\ i \in Int
  BY LenProperties
<1>2. /\ p \in Seq(S) /\ Len(p) = Len(q) + 1
      /\ \A j \in 1..(Len(q) + 1) :
           p[j] = IF j < i THEN q[j] ELSE IF j = i THEN y ELSE q[j - 1]
  BY InsertedIs DEF PutAt
<1> HIDE DEF p
<1>3. Range(p) = {p[j] : j \in 1..Len(p)} /\ Range(q) = {q[j] : j \in 1..Len(q)}
  BY <1>2, RangeIs
<1>4. ASSUME NEW j \in 1..Len(p) PROVE p[j] \in Range(q) \cup {y}
  <2>1. j \in 1..(Len(q) + 1) /\ (j < i => j \in 1..Len(q))
        /\ (~(j < i) /\ j # i => j - 1 \in 1..Len(q))
    BY <1>1, <1>2
  <2> QED
    BY <1>2, <1>3, <2>1
<1>5. y \in Range(p)
  <2>1. i \in 1..Len(p) /\ ~(i < i)
    BY <1>1, <1>2
  <2> QED
    BY <1>2, <1>3, <2>1
<1>6. ASSUME NEW j \in 1..Len(q) PROVE q[j] \in Range(p)
  <2>1. CASE j < i
    <3>1. j \in 1..Len(p) /\ j \in 1..(Len(q) + 1)
      BY <1>1, <1>2
    <3> QED
      BY <1>2, <1>3, <2>1, <3>1
  <2>2. CASE j >= i
    <3>1. /\ j + 1 \in 1..Len(p) /\ j + 1 \in 1..(Len(q) + 1) /\ ~(j + 1 < i)
          /\ j + 1 # i /\ (j + 1) - 1 = j
      BY <1>1, <1>2, <2>2
    <3>2. p[j + 1] = q[j]
      BY <1>2, <3>1
    <3> QED
      BY <1>3, <3>1, <3>2
  <2>3. j < i \/ j >= i
    BY <1>1
  <2> QED
    BY <2>1, <2>2, <2>3
<1>7. Range(p) = Range(q) \cup {y}
  BY <1>3, <1>4, <1>5, <1>6
<1> QED
  BY <1>7 DEF p

\* With no element twice, one taken out is in the sequence no more.
LEMMA RangeRemoved ==
    ASSUME NEW S, NEW q \in Seq(S), NEW i \in 1..Len(q),
           \A j, k \in 1..Len(q) : q[j] = q[k] => j = k
    PROVE  Range(RemoveAt(q, i)) = Range(q) \ {q[i]}
<1> DEFINE p == RemoveAt(q, i)
<1>1. Len(q) \in Nat /\ i \in Int
  BY LenProperties
<1>2. /\ p \in Seq(S) /\ Len(p) = Len(q) - 1
      /\ \A j \in 1..(Len(q) - 1) : p[j] = IF j < i THEN q[j] ELSE q[j + 1]
  BY RemovedIs DEF CutAt
<1> HIDE DEF p
<1>3. Range(p) = {p[j] : j \in 1..Len(p)} /\ Range(q) = {q[j] : j \in 1..Len(q)}
  BY <1>2, RangeIs
<1>4. ASSUME NEW j \in 1..Len(p) PROVE p[j] \in Range(q) \ {q[i]}
  <2>1. j \in 1..(Len(q) - 1) /\ j \in 1..Len(q) /\ j + 1 \in 1..Len(q)
    BY <1>1, <1>2
  <2>2. CASE j < i
    BY <1>1, <1>2, <1>3, <2>1, <2>2
  <2>3. CASE ~(j < i)
    <3>1. p[j] = q[j + 1] /\ j + 1 # i
      BY <1>1, <1>2, <2>1, <2>3
    <3> QED
      BY <1>3, <2>1, <3>1
  <2> QED
    BY <2>2, <2>3
<1>5. ASSUME NEW j \in 1..Len(q), q[j] # q[i] PROVE q[j] \in Range(p)
  <2>1. CASE j < i
    <3>1. j \in 1..Len(p) /\ j \in 1..(Len(q) - 1)
      BY <1>1, <1>2, <2>1
    <3> QED
      BY <1>2, <1>3, <2>1, <3>1
  <2>2. CASE j > i
    <3>1. j - 1 \in 1..Len(p) /\ j - 1 \in 1..(Len(q) - 1) /\ ~(j - 1 < i) /\ (j - 1) + 1 = j
      BY <1>1, <1>2, <2>2
    <3>2. p[j - 1] = q[j]
      BY <1>2, <3>1
    <3> QED
      BY <1>3, <3>1, <3>2
  <2>3. j < i \/ j > i
    BY <1>1, <1>5
  <2> QED
    BY <2>1, <2>2, <2>3
<1>6. Range(p) = Range(q) \ {q[i]}
  BY <1>3, <1>4, <1>5, SMTT(60)
<1> QED
  BY <1>6 DEF p

\* A mirror image of a sequence is changed at the place seen from the other end.
LEMMA ReversedIs ==
    ASSUME NEW S, NEW q \in Seq(S)
    PROVE  /\ Reverse(q) \in Seq(S) /\ Len(Reverse(q)) = Len(q)
           /\ \A j \in 1..Len(q) : Reverse(q)[j] = q[Len(q) - j + 1]
<1>1. Len(q) \in Nat /\ \A j \in 1..Len(q) : q[Len(q) - j + 1] \in S
  BY LenProperties
<1>2. Reverse(q) \in [1..Len(q) -> S]
  BY <1>1 DEF Reverse
<1>3. Reverse(q) \in Seq(S)
  BY <1>1, <1>2
<1>4. DOMAIN Reverse(q) = 1..Len(q)
  BY <1>2
<1>5. Len(Reverse(q)) = Len(q)
  BY <1>1, <1>3, <1>4, LenProperties
<1> QED
  BY <1>1, <1>3, <1>5 DEF Reverse

\* The mirror image of an insertion is one at the mirrored place.
LEMMA MirrorInsert ==
    ASSUME NEW S, NEW q \in Seq(S), NEW i \in 1..(Len(q) + 1), NEW y \in S
    PROVE  Reverse(InsertAt(q, i, y)) = InsertAt(Reverse(q), Len(q) - i + 2, y)
<1>1. Len(q) \in Nat /\ i \in Int
  BY LenProperties
<1> DEFINE p == InsertAt(q, i, y)
           r == Reverse(q)
           k == Len(q) - i + 2
<1>2. /\ p \in Seq(S) /\ Len(p) = Len(q) + 1
      /\ \A j \in 1..(Len(q) + 1) :
           p[j] = IF j < i THEN q[j] ELSE IF j = i THEN y ELSE q[j - 1]
  BY InsertedIs DEF PutAt
<1>3. /\ r \in Seq(S) /\ Len(r) = Len(q)
      /\ \A j \in 1..Len(q) : r[j] = q[Len(q) - j + 1]
  BY ReversedIs
<1>4. k \in 1..(Len(r) + 1)
  BY <1>1, <1>3
<1> HIDE DEF p, r, k
<1>5. /\ InsertAt(r, k, y) \in Seq(S) /\ Len(InsertAt(r, k, y)) = Len(r) + 1
      /\ \A j \in 1..(Len(r) + 1) :
           InsertAt(r, k, y)[j] = IF j < k THEN r[j] ELSE IF j = k THEN y ELSE r[j - 1]
  BY <1>3, <1>4, InsertedIs DEF PutAt
<1>6. /\ Reverse(p) \in Seq(S) /\ Len(Reverse(p)) = Len(p)
      /\ \A j \in 1..Len(p) : Reverse(p)[j] = p[Len(p) - j + 1]
  BY <1>2, ReversedIs
<1>7. \A j \in 1..(Len(q) + 1) : Reverse(p)[j] = InsertAt(r, k, y)[j]
  <2> TAKE j \in 1..(Len(q) + 1)
  <2>0. /\ k = Len(q) - i + 2 /\ j \in 1..(Len(q) + 1) /\ i \in 1..(Len(q) + 1)
        /\ Reverse(p)[j] = p[Len(q) - j + 2] /\ Len(q) - j + 2 \in 1..(Len(q) + 1)
    <3>1. Reverse(p)[j] = p[Len(p) - j + 1] /\ Len(p) - j + 1 = Len(q) - j + 2
      BY <1>1, <1>2, <1>6
    <3> QED
      BY <1>1, <3>1 DEF k
  <2>1. CASE j < k
    <3>1. /\ InsertAt(r, k, y)[j] = q[Len(q) - j + 1]
      BY <1>1, <1>3, <1>5, <2>0, <2>1
    <3>2. ~(Len(q) - j + 2 < i) /\ Len(q) - j + 2 # i /\ (Len(q) - j + 2) - 1 = Len(q) - j + 1
      BY <1>1, <2>0, <2>1
    <3> QED
      BY <1>2, <2>0, <3>1, <3>2
  <2>2. CASE j = k
    <3>1. /\ InsertAt(r, k, y)[j] = y
      BY <1>1, <1>3, <1>5, <2>0, <2>2
    <3>2. Len(q) - j + 2 = i
      BY <1>1, <2>0, <2>2
    <3> QED
      BY <1>2, <2>0, <3>1, <3>2
  <2>3. CASE j > k
    <3>1. j - 1 \in 1..Len(q) /\ Len(q) - (j - 1) + 1 = Len(q) - j + 2
      BY <1>1, <2>0, <2>3
    <3>2. r[j - 1] = q[Len(q) - j + 2]
      BY <1>3, <3>1
    <3>4. InsertAt(r, k, y)[j] = r[j - 1]
      BY <1>1, <1>3, <1>5, <2>0, <2>3
    <3>3. Len(q) - j + 2 < i
      BY <1>1, <2>0, <2>3
    <3> QED
      BY <1>2, <2>0, <3>2, <3>3, <3>4
  <2> QED
    BY <1>1, <2>0, <2>1, <2>2, <2>3
<1>8. Reverse(p) = InsertAt(r, k, y)
  BY <1>2, <1>3, <1>5, <1>6, <1>7, SameSequence
<1> QED
  BY <1>8 DEF p, r, k

\* The mirror image of a removal is one at the mirrored place.
LEMMA MirrorRemove ==
    ASSUME NEW S, NEW q \in Seq(S), NEW i \in 1..Len(q)
    PROVE  Reverse(RemoveAt(q, i)) = RemoveAt(Reverse(q), Len(q) - i + 1)
<1>1. Len(q) \in Nat /\ i \in Int
  BY LenProperties
<1> DEFINE p == RemoveAt(q, i)
           r == Reverse(q)
           k == Len(q) - i + 1
<1>2. /\ p \in Seq(S) /\ Len(p) = Len(q) - 1
      /\ \A j \in 1..(Len(q) - 1) : p[j] = IF j < i THEN q[j] ELSE q[j + 1]
  BY RemovedIs DEF CutAt
<1>3. /\ r \in Seq(S) /\ Len(r) = Len(q)
      /\ \A j \in 1..Len(q) : r[j] = q[Len(q) - j + 1]
  BY ReversedIs
<1>4. k \in 1..Len(r)
  BY <1>1, <1>3
<1> HIDE DEF p, r, k
<1>5. /\ RemoveAt(r, k) \in Seq(S) /\ Len(RemoveAt(r, k)) = Len(r) - 1
      /\ \A j \in 1..(Len(r) - 1) :
           RemoveAt(r, k)[j] = IF j < k THEN r[j] ELSE r[j + 1]
  BY <1>3, <1>4, RemovedIs DEF CutAt
<1>6. /\ Reverse(p) \in Seq(S) /\ Len(Reverse(p)) = Len(p)
      /\ \A j \in 1..Len(p) : Reverse(p)[j] = p[Len(p) - j + 1]
  BY <1>2, ReversedIs
<1>7. \A j \in 1..(Len(q) - 1) : Reverse(p)[j] = RemoveAt(r, k)[j]
  <2> TAKE j \in 1..(Len(q) - 1)
  <2>0. /\ k = Len(q) - i + 1 /\ j \in 1..(Len(q) - 1) /\ i \in 1..Len(q)
        /\ Reverse(p)[j] = p[Len(q) - j] /\ Len(q) - j \in 1..(Len(q) - 1)
    BY <1>1, <1>2, <1>6 DEF k
  <2>1. CASE j < k
    <3>1. RemoveAt(r, k)[j] = q[Len(q) - j + 1]
      <4>1. RemoveAt(r, k)[j] = r[j]
        BY <1>3, <1>5, <2>0, <2>1
      <4>2. j \in 1..Len(q)
        BY <1>1, <2>0
      <4> QED
        BY <1>3, <4>1, <4>2
    <3>2. ~(Len(q) - j < i)
      BY <1>1, <2>0, <2>1
    <3> QED
      BY <1>2, <2>0, <3>1, <3>2
  <2>2. CASE j >= k
    <3>1. j + 1 \in 1..Len(q) /\ Len(q) - (j + 1) + 1 = Len(q) - j
      BY <1>1, <2>0, <2>2
    <3>2. RemoveAt(r, k)[j] = q[Len(q) - j]
      BY <1>1, <1>3, <1>5, <2>0, <2>2, <3>1
    <3>3. Len(q) - j < i
      BY <1>1, <2>0, <2>2
    <3> QED
      BY <1>2, <2>0, <3>2, <3>3
  <2> QED
    BY <1>1, <2>0, <2>1, <2>2
<1>8. Reverse(p) = RemoveAt(r, k)
  BY <1>2, <1>3, <1>5, <1>6, <1>7, SameSequence
<1> QED
  BY <1>8 DEF p, r, k

-----------------------------------------------------------------------------
\* Put after the i-th node of a path, or first if i is 0, a node is its next.
LEMMA PathInsert ==
    ASSUME NEW Node, NEW next, NEW first, NEW q, IsPath(q, Node, next, first),
           NEW y \in Node, y \notin Range(q), NEW i \in 0..Len(q), NEW n, NEW f,
           IF i = 0 THEN f = y /\ n[y] = first
           ELSE f = first /\ n[q[i]] = y /\ n[y] = next[q[i]],
           \A j \in 1..Len(q) : j # i => n[q[j]] = next[q[j]]
    PROVE  IsPath(InsertAt(q, i + 1, y), Node, n, f)
<1> DEFINE p == InsertAt(q, i + 1, y)
<1>1. /\ q \in Seq(Node) /\ Len(q) \in Nat /\ \A j \in 1..Len(q) : q[j] \in Node /\ q[j] # y
      /\ q = <<>> <=> Len(q) = 0
  BY LenProperties, EmptySeq DEF IsPath, Range
<1>2. /\ p \in Seq(Node) /\ Len(p) = Len(q) + 1
      /\ \A j \in 1..(Len(q) + 1) :
           p[j] = IF j < i + 1 THEN q[j] ELSE IF j = i + 1 THEN y ELSE q[j - 1]
  <2> DEFINE k == i + 1
  <2>1. k \in 1..(Len(q) + 1)
    BY <1>1
  <2> HIDE DEF k
  <2>2. /\ InsertAt(q, k, y) \in Seq(Node) /\ Len(InsertAt(q, k, y)) = Len(q) + 1
        /\ \A j \in 1..(Len(q) + 1) :
             InsertAt(q, k, y)[j] = IF j < k THEN q[j] ELSE IF j = k THEN y ELSE q[j - 1]
    BY <1>1, <2>1, InsertedIs DEF PutAt
  <2> QED
    BY <2>2 DEF k
<1> HIDE DEF p
<1>3. /\ p[i + 1] = y
      /\ \A j \in 1..i : p[j] = q[j]
      /\ \A j \in (i + 1)..Len(q) : p[j + 1] = q[j]
  <2>1. ASSUME NEW j \in 1..i PROVE p[j] = q[j]
    <3>1. j \in 1..(Len(q) + 1) /\ j < i + 1
      BY <1>1
    <3>2. p[j] = IF j < i + 1 THEN q[j] ELSE IF j = i + 1 THEN y ELSE q[j - 1]
      BY <1>2, <3>1
    <3> QED
      BY <3>1, <3>2
  <2>2. ASSUME NEW j \in (i + 1)..Len(q) PROVE p[j + 1] = q[j]
    <3>1. /\ j + 1 \in 1..(Len(q) + 1) /\ ~(j + 1 < i + 1) /\ j + 1 # i + 1
          /\ (j + 1) - 1 = j
      BY <1>1
    <3> QED
      BY <1>2, <3>1
  <2>3. p[i + 1] = y
    BY <1>1, <1>2
  <2> QED
    BY <2>1, <2>2, <2>3
<1>4. ASSUME NEW j \in 1..Len(p)
      PROVE  \/ j \in 1..i /\ p[j] = q[j]
             \/ j = i + 1 /\ p[j] = y
             \/ j - 1 \in (i + 1)..Len(q) /\ p[j] = q[j - 1]
  <2>1. j \in 1..i \/ j = i + 1 \/ (j - 1 \in (i + 1)..Len(q) /\ (j - 1) + 1 = j)
    BY <1>1, <1>2
  <2> QED
    BY <1>3, <2>1
<1>5. ASSUME NEW j \in 1..Len(p), NEW k \in 1..Len(p), p[j] = p[k] PROVE j = k
  <2>1. \A a, b \in 1..Len(q) : q[a] = q[b] => a = b
    BY DEF IsPath
  <2>2. \A a \in 1..Len(q) : q[a] # y
    BY <1>1
  <2>3. /\ \A a \in 1..i : a \in 1..Len(q) /\ a # i + 1
        /\ \A a \in (i + 1)..Len(q) : a \in 1..Len(q) /\ a \notin 1..i
    BY <1>1
  <2>4. CASE j \in 1..i /\ p[j] = q[j]
    <3>1. p[k] # y /\ \A a \in (i + 1)..Len(q) : p[k] # q[a]
      <4>1. p[k] = q[j] /\ j \in 1..Len(q) /\ \A a \in (i + 1)..Len(q) : a # j
        BY <1>5, <2>3, <2>4
      <4>2. ASSUME NEW a \in (i + 1)..Len(q) PROVE p[k] # q[a]
        <5>1. a \in 1..Len(q) /\ a # j
          BY <2>3, <4>1
        <5> QED
          BY <2>1, <4>1, <5>1
      <4> QED
        BY <2>2, <4>1, <4>2
    <3>2. k \in 1..i /\ p[k] = q[k]
      BY <1>4, <3>1
    <3>3. q[j] = q[k] /\ j \in 1..Len(q) /\ k \in 1..Len(q)
      BY ONLY <1>5, <2>3, <2>4, <3>2
    <3> QED
      BY ONLY <2>1, <3>3
  <2>5. CASE j = i + 1 /\ p[j] = y
    BY <1>1, <1>4, <1>5, <2>2, <2>3, <2>5
  <2>6. CASE j - 1 \in (i + 1)..Len(q) /\ p[j] = q[j - 1]
    <3>1. k - 1 \in (i + 1)..Len(q) /\ p[k] = q[k - 1]
      <4>1. p[k] = q[j - 1] /\ j - 1 \in 1..Len(q) /\ j - 1 \notin 1..i
        BY <1>5, <2>3, <2>6
      <4>2. p[k] # y
        BY <2>2, <4>1
      <4>3. ~(k \in 1..i /\ p[k] = q[k])
        BY <2>1, <2>3, <4>1
      <4> QED
        BY <1>4, <4>2, <4>3
    <3> DEFINE a == j - 1
               b == k - 1
    <3>2. a \in 1..Len(q) /\ b \in 1..Len(q) /\ q[a] = q[b]
      BY <1>5, <2>3, <2>6, <3>1
    <3>3. j = a + 1 /\ k = b + 1
      BY <1>2
    <3> HIDE DEF a, b
    <3>4. a = b
      BY <2>1, <3>2
    <3> QED
      BY <3>3, <3>4
  <2> QED
    BY <1>4, <2>4, <2>5, <2>6
<1>6. p # <<>> /\ f = p[1]
  <2>1. p # <<>>
    <3>1. Len(p) # 0
      BY <1>1, <1>2
    <3> QED
      BY <3>1
  <2>2. CASE i = 0
    BY <1>3, <2>1, <2>2
  <2>3. CASE i # 0
    <3>1. 1 \in 1..i /\ q # <<>>
      BY <1>1, <2>3
    <3>2. p[1] = q[1] /\ first = q[1] /\ f = first
      BY <1>3, <2>3, <3>1 DEF IsPath
    <3> QED
      BY <2>1, <3>2
  <2> QED
    BY <2>1, <2>2, <2>3
<1>7. ASSUME NEW j \in 1..Len(p)
      PROVE  IF j < Len(p) THEN n[p[j]] = p[j + 1] ELSE n[p[j]] \notin Node
  <2>1. \A a \in 1..Len(q) : IF a < Len(q) THEN next[q[a]] = q[a + 1] ELSE next[q[a]] \notin Node
    BY DEF IsPath
  <2>2. CASE j \in 1..i /\ j # i
    <3>1. /\ p[j] = q[j] /\ j + 1 \in 1..i /\ p[j + 1] = q[j + 1] /\ j \in 1..Len(q)
          /\ j < Len(q) /\ j < Len(p)
      BY <1>1, <1>2, <1>3, <2>2
    <3> QED
      BY <2>1, <2>2, <3>1
  <2>3. CASE j = i
    <3>1. p[j] = q[j] /\ j \in 1..Len(q) /\ p[j + 1] = y /\ j < Len(p) /\ i # 0
      BY <1>1, <1>2, <1>3, <2>3
    <3> QED
      BY <2>3, <3>1
  <2>4. CASE j = i + 1
    <3>1. p[j] = y
      BY <1>3, <2>4
    <3>2. n[y] = IF i = 0 THEN first ELSE next[q[i]]
      OBVIOUS
    <3>3. CASE j < Len(p)
      <4>1. i + 1 \in (i + 1)..Len(q) /\ p[j + 1] = q[i + 1] /\ i < Len(q)
        <5>1. i + 1 \in (i + 1)..Len(q)
          BY <1>1, <1>2, <2>4, <3>3
        <5> QED
          BY <1>1, <1>3, <2>4, <5>1
      <4>2. CASE i = 0
        <5>1. first = q[1]
          BY <1>1, <4>1, <4>2 DEF IsPath
        <5> QED
          BY <3>1, <3>2, <3>3, <4>1, <4>2, <5>1
      <4>3. CASE i # 0
        BY <1>1, <2>1, <3>1, <3>2, <3>3, <4>1, <4>3
      <4> QED
        BY <4>2, <4>3
    <3>4. CASE ~(j < Len(p))
      <4>1. i = Len(q)
        BY <1>1, <1>2, <2>4, <3>4
      <4>2. CASE i = 0
        BY <1>1, <3>1, <3>2, <3>4, <4>1, <4>2 DEF IsPath
      <4>3. CASE i # 0
        BY <1>1, <2>1, <3>1, <3>2, <3>4, <4>1, <4>3
      <4> QED
        BY <4>2, <4>3
    <3> QED
      BY <3>3, <3>4
  <2>5. CASE j - 1 \in (i + 1)..Len(q) /\ p[j] = q[j - 1]
    <3> DEFINE a == j - 1
    <3>1. a \in 1..Len(q) /\ a # i /\ j = a + 1 /\ p[j] = q[a] /\ a \in (i + 1)..Len(q)
      BY <1>1, <1>2, <2>5
    <3> HIDE DEF a
    <3>2. n[p[j]] = next[q[a]]
      BY <3>1
    <3>3. CASE j < Len(p)
      <4>1. a < Len(q) /\ a + 1 \in (i + 1)..Len(q)
        BY <1>1, <1>2, <3>1, <3>3
      <4>2. p[j + 1] = q[a + 1] /\ next[q[a]] = q[a + 1]
        BY <1>3, <2>1, <3>1, <4>1
      <4> QED
        BY <3>2, <3>3, <4>2
    <3>4. CASE ~(j < Len(p))
      <4>1. ~(a < Len(q))
        BY <1>1, <1>2, <3>1, <3>4
      <4> QED
        BY <2>1, <3>1, <3>2, <3>4, <4>1
    <3> QED
      BY <3>3, <3>4
  <2> QED
    BY <1>4, <2>2, <2>3, <2>4, <2>5
<1>8. IsPath(p, Node, n, f)
  BY <1>2, <1>5, <1>6, <1>7 DEF IsPath
<1> QED
  BY <1>8 DEF p

\* With the i-th node of a path left out the rest of it is a path.
LEMMA PathRemove ==
    ASSUME NEW Node, NEW next, NEW first, NEW q, IsPath(q, Node, next, first),
           NEW i \in 1..Len(q), NEW n, NEW f,
           IF i = 1 THEN f = next[q[1]] ELSE f = first /\ n[q[i - 1]] = next[q[i]],
           \A j \in 1..Len(q) : j # i /\ j # i - 1 => n[q[j]] = next[q[j]]
    PROVE  IsPath(RemoveAt(q, i), Node, n, f)
<1> DEFINE p == RemoveAt(q, i)
<1>1. /\ q \in Seq(Node) /\ Len(q) \in Nat /\ \A j \in 1..Len(q) : q[j] \in Node
      /\ Len(q) > 0 /\ i \in Int
  BY LenProperties DEF IsPath
<1>2. /\ p \in Seq(Node) /\ Len(p) = Len(q) - 1
      /\ \A j \in 1..(Len(q) - 1) : p[j] = IF j < i THEN q[j] ELSE q[j + 1]
  BY <1>1, RemovedIs DEF CutAt
<1> HIDE DEF p
<1>3. /\ \A j \in 1..Len(p) : p[j] = IF j < i THEN q[j] ELSE q[j + 1]
      /\ \A j \in 1..Len(p) : j \in 1..Len(q) /\ j + 1 \in 1..Len(q)
  BY <1>1, <1>2
<1>4. \A a, b \in 1..Len(q) : q[a] = q[b] => a = b
  BY DEF IsPath
<1>5. \A a \in 1..Len(q) : IF a < Len(q) THEN next[q[a]] = q[a + 1] ELSE next[q[a]] \notin Node
  BY DEF IsPath
<1>6. ASSUME NEW j \in 1..Len(p), NEW k \in 1..Len(p), p[j] = p[k] PROVE j = k
  <2> DEFINE at(m) == IF m < i THEN m ELSE m + 1
  <2>1. /\ p[j] = q[at(j)] /\ at(j) \in 1..Len(q)
        /\ p[k] = q[at(k)] /\ at(k) \in 1..Len(q)
    BY <1>3
  <2> DEFINE a == at(j)
             b == at(k)
  <2>2. a \in 1..Len(q) /\ b \in 1..Len(q) /\ q[a] = q[b]
    BY <1>6, <2>1
  <2>3. a = b => j = k
    BY <1>1, <1>2
  <2> HIDE DEF a, b
  <2> QED
    BY <1>4, <2>2, <2>3
<1>7. IF p = <<>> THEN f \notin Node ELSE f = p[1]
  <2>1. p = <<>> <=> Len(p) = 0
    BY <1>2, EmptySeq
  <2>2. q # <<>> /\ first = q[1]
    <3>1. q # <<>>
      BY <1>1
    <3> QED
      BY <3>1 DEF IsPath
  <2>3. CASE Len(p) = 0
    <3>1. i = 1 /\ ~(1 < Len(q)) /\ 1 \in 1..Len(q)
      <4>1. Len(q) = 1
        BY <1>1, <1>2, <2>3
      <4> QED
        BY <4>1
    <3> QED
      BY <1>5, <2>1, <2>3, <3>1
  <2>4. CASE Len(p) # 0
    <3>1. 1 \in 1..Len(p) /\ 1 < Len(q) /\ 1 \in 1..Len(q) /\ 1 + 1 = 2
      BY <1>1, <1>2, <2>4
    <3>2. p[1] = IF i = 1 THEN q[2] ELSE q[1]
      BY <1>1, <1>3, <3>1
    <3>3. next[q[1]] = q[2]
      BY <1>5, <3>1
    <3> QED
      BY <2>1, <2>2, <2>4, <3>2, <3>3
  <2> QED
    BY <2>3, <2>4
<1>8. ASSUME NEW j \in 1..Len(p)
      PROVE  IF j < Len(p) THEN n[p[j]] = p[j + 1] ELSE n[p[j]] \notin Node
  <2>1. CASE j < i - 1
    <3>1. /\ p[j] = q[j] /\ j \in 1..Len(q) /\ j # i /\ j # i - 1 /\ j < Len(q)
          /\ j + 1 \in 1..Len(p) /\ j + 1 < i /\ j < Len(p)
      BY <1>1, <1>2, <1>3, <2>1
    <3>2. p[j + 1] = q[j + 1]
      BY <1>3, <3>1
    <3> QED
      BY <1>5, <3>1, <3>2
  <2>2. CASE j = i - 1
    <3>1. p[j] = q[j] /\ n[q[j]] = next[q[i]] /\ i # 1
      BY <1>1, <1>3, <2>2
    <3>2. CASE j < Len(p)
      <4>1. j + 1 \in 1..Len(p) /\ j + 1 = i /\ ~(i < i) /\ i < Len(q)
        BY <1>1, <1>2, <2>2, <3>2
      <4>2. p[j + 1] = q[i + 1]
        BY <1>3, <4>1
      <4> QED
        BY <1>5, <3>1, <3>2, <4>1, <4>2
    <3>3. CASE ~(j < Len(p))
      <4>1. ~(i < Len(q))
        BY <1>1, <1>2, <2>2, <3>3
      <4> QED
        BY <1>5, <3>1, <3>3, <4>1
    <3> QED
      BY <3>2, <3>3
  <2>3. CASE j >= i
    <3>1. /\ p[j] = q[j + 1] /\ j + 1 \in 1..Len(q) /\ j + 1 # i /\ j + 1 # i - 1
      BY <1>1, <1>3, <2>3
    <3>2. n[p[j]] = next[q[j + 1]]
      BY <3>1
    <3>3. CASE j < Len(p)
      <4>1. j + 1 \in 1..Len(p) /\ j + 1 < Len(q) /\ ~(j + 1 < i) /\ (j + 1) + 1 = j + 2
        BY <1>1, <1>2, <2>3, <3>3
      <4>2. p[j + 1] = q[(j + 1) + 1]
        BY <1>3, <4>1
      <4> QED
        BY <1>5, <3>1, <3>2, <3>3, <4>1, <4>2
    <3>4. CASE ~(j < Len(p))
      <4>1. ~(j + 1 < Len(q))
        BY <1>1, <1>2, <3>4
      <4> QED
        BY <1>5, <3>1, <3>2, <3>4, <4>1
    <3> QED
      BY <3>3, <3>4
  <2>4. j < i - 1 \/ j = i - 1 \/ j >= i
    BY <1>1
  <2> QED
    BY <2>1, <2>2, <2>3, <2>4
<1>9. IsPath(p, Node, n, f)
  BY <1>2, <1>6, <1>7, <1>8 DEF IsPath
<1> QED
  BY <1>9 DEF p

\* Where its links stay as they are a path does too.
LEMMA PathSame ==
    ASSUME NEW Node, NEW next, NEW first, NEW q, IsPath(q, Node, next, first),
           NEW n, \A x \in Range(q) : n[x] = next[x]
    PROVE  IsPath(q, Node, n, first)
<1>1. \A j \in 1..Len(q) : n[q[j]] = next[q[j]]
  BY LenProperties DEF IsPath, Range
<1> QED
  BY <1>1 DEF IsPath

\* A null pointer starts the path of no nodes.
LEMMA PathEmpty ==
    ASSUME NEW Node, NEW next, NEW first, first \notin Node
    PROVE  IsPath(<<>>, Node, next, first)
<1>1. <<>> \in Seq(Node) /\ Len(<<>>) = 0
  BY EmptySeq
<1> QED
  BY <1>1 DEF IsPath

\* Every node of a path has its place in it, and the path starts and ends there.
LEMMA PathPlaces ==
    ASSUME NEW Node, NEW next, NEW first, NEW q, IsPath(q, Node, next, first)
    PROVE  /\ q \in Seq(Node) /\ Len(q) \in Nat
           /\ Range(q) = {q[i] : i \in 1..Len(q)} /\ Range(q) \subseteq Node
           /\ \A x \in Range(q) : \E i \in 1..Len(q) : q[i] = x
           /\ \A i \in 1..Len(q) : q[i] \in Range(q)
           /\ q = <<>> <=> Len(q) = 0
           /\ q = <<>> <=> Range(q) = {}
           /\ q = <<>> <=> first \notin Node
<1>1. /\ q \in Seq(Node) /\ Len(q) \in Nat /\ q \in [1..Len(q) -> Node]
      /\ q = <<>> <=> Len(q) = 0
  BY LenProperties, EmptySeq DEF IsPath
<1>2. Range(q) = {q[i] : i \in 1..Len(q)} /\ Range(q) \subseteq Node
  BY <1>1 DEF Range
<1>3. q # <<>> => 1 \in 1..Len(q) /\ first = q[1]
  BY <1>1 DEF IsPath
<1>4. q = <<>> => Range(q) = {} /\ first \notin Node
  <2> SUFFICES ASSUME q = <<>> PROVE Range(q) = {} /\ first \notin Node
    OBVIOUS
  <2>1. 1..Len(q) = {}
    BY <1>1
  <2> QED
    BY <1>2, <2>1 DEF IsPath
<1> QED
  BY <1>1, <1>2, <1>3, <1>4

-----------------------------------------------------------------------------
Owners == [Elem -> List \cup {null}]

IsChain(s, l, q) == IsPath(q, Elem, s.next, s.head[l])

HasElements(own, l, q) == Range(q) = {x \in Elem : own[x] = l}

\* The lists are paths of links, through the elements that are in them.
Chained(s, own) ==
  \A l \in List : IsChain(s, l, Chain(s, l)) /\ HasElements(own, l, Chain(s, l))

\* A stored tail is an element of the list that leads nowhere.
TailsLast(s, own) ==
  \A l \in StoreTail :
    IF s.head[l] = null THEN s.tail[l] = null
    ELSE s.tail[l] \in Elem /\ own[s.tail[l]] = l /\ s.next[s.tail[l]] = null

\* The storage holds the lists in which the elements are as own says.
Sound(s, own) ==
  s \in Storage /\ own \in Owners /\ Chained(s, own) /\ TailsLast(s, own)

\* The elements in no list.
Spare(s) == {x \in Elem : \A l \in List : x \notin Range(Chain(s, l))}

\* From s to n the list l becomes p, no other list changes, and elements in no
\* list keep their links.
Becomes(s, n, l, p) ==
  /\ Chain(n, l) = p
  /\ \A k \in List : k # l => Chain(n, k) = Chain(s, k)
  /\ \A x \in Spare(n) : n.next[x] = s.next[x]

-----------------------------------------------------------------------------
\* What the fields of a storage can be.
LEMMA InStorage ==
  ASSUME NEW s, NEW own, Sound(s, own)
  PROVE  /\ s \in Storage /\ own \in Owners
         /\ s.head \in [List -> Handle] /\ s.tail \in [List -> Handle]
         /\ s.next \in [Elem -> Handle]
  BY DEF Sound, Storage

\* The path of a list, place by place.
LEMMA ChainIs ==
  ASSUME NEW s, NEW own, Sound(s, own), NEW l \in List, NEW q, q = Chain(s, l)
  PROVE  /\ IsChain(s, l, q)
         /\ q \in Seq(Elem) /\ Len(q) \in Nat
         /\ \A i \in 1..Len(q) : /\ q[i] \in Elem /\ own[q[i]] = l
                                 /\ s.next[q[i]] = IF i < Len(q) THEN q[i + 1] ELSE null
         /\ \A x \in Elem : own[x] = l => \E i \in 1..Len(q) : q[i] = x
         /\ \A i, j \in 1..Len(q) : q[i] = q[j] => i = j
         /\ Range(q) = {x \in Elem : own[x] = l}
         /\ Range(q) = {q[i] : i \in 1..Len(q)}
         /\ IF s.head[l] = null THEN q = <<>> /\ Len(q) = 0
            ELSE q # <<>> /\ 1 \in 1..Len(q) /\ Len(q) \in 1..Len(q) /\ q[1] = s.head[l]
<1> USE ListOpsAssumption
<1>1. IsChain(s, l, q) /\ Range(q) = {x \in Elem : own[x] = l}
  BY DEF Sound, Chained, HasElements
<1>2. s.head[l] \in Handle /\ \A x \in Elem : s.next[x] \in Handle
  BY InStorage
<1>3. /\ q \in Seq(Elem) /\ Len(q) \in Nat
      /\ Range(q) = {q[i] : i \in 1..Len(q)}
      /\ q = <<>> <=> Len(q) = 0
      /\ q = <<>> <=> s.head[l] \notin Elem
  BY <1>1, PathPlaces DEF IsChain
<1>4. \A i \in 1..Len(q) : q[i] \in Elem /\ own[q[i]] = l
  BY <1>1, <1>3
<1>5. ASSUME NEW i \in 1..Len(q)
      PROVE  s.next[q[i]] = IF i < Len(q) THEN q[i + 1] ELSE null
  <2>1. IF i < Len(q) THEN s.next[q[i]] = q[i + 1] ELSE s.next[q[i]] \notin Elem
    BY <1>1 DEF IsChain, IsPath
  <2> QED
    BY <1>2, <1>4, <2>1 DEF Handle
<1>6. \A i, j \in 1..Len(q) : q[i] = q[j] => i = j
  BY <1>1 DEF IsChain, IsPath
<1>7. s.head[l] = null <=> s.head[l] \notin Elem
  BY <1>2 DEF Handle
<1>8. q # <<>> => 1 \in 1..Len(q) /\ Len(q) \in 1..Len(q) /\ q[1] = s.head[l]
  BY <1>1, <1>3 DEF IsChain, IsPath
<1> QED
  BY <1>1, <1>3, <1>4, <1>5, <1>6, <1>7, <1>8

\* What a loop from the head comes by is the list.
LEMMA VisitedIsList ==
  ASSUME NEW s, NEW own, Sound(s, own), NEW l \in List
  PROVE  Visited(s, l) = {x \in Elem : own[x] = l}
  BY OnwardIsPath DEF Sound, Chained, IsChain, HasElements, Visited

\* The element before the one at a place is the one at the place before.
LEMMA BeforeIs ==
  ASSUME NEW s, NEW own, Sound(s, own), NEW l \in List, NEW q, q = Chain(s, l),
         NEW i \in 1..Len(q)
  PROVE  Before(s, l, q[i]) = IF i = 1 THEN null ELSE q[i - 1]
<1> USE ListOpsAssumption
<1>1. /\ Len(q) \in Nat /\ i \in Int
      /\ \A j \in 1..Len(q) : /\ q[j] \in Elem
                              /\ s.next[q[j]] = IF j < Len(q) THEN q[j + 1] ELSE null
      /\ \A j, k \in 1..Len(q) : q[j] = q[k] => j = k
      /\ s.head[l] # null /\ q[1] = s.head[l] /\ 1 \in 1..Len(q)
      /\ Range(q) = {x \in Elem : own[x] = l}
      /\ Range(q) = {q[j] : j \in 1..Len(q)}
  BY ChainIs
<1>2. CASE i = 1
  BY <1>1, <1>2 DEF Before
<1>3. CASE i # 1
  <2>1. /\ i - 1 \in 1..Len(q) /\ i - 1 < Len(q) /\ (i - 1) + 1 = i
        /\ s.head[l] # q[i]
    BY <1>1, <1>3
  <2>2. s.next[q[i - 1]] = q[i]
    BY <1>1, <2>1
  <2>3. Visited(s, l) = {q[j] : j \in 1..Len(q)}
    BY <1>1, VisitedIsList
  <2>4. \A p \in Visited(s, l) : s.next[p] = q[i] => p = q[i - 1]
    <3> SUFFICES ASSUME NEW j \in 1..Len(q), s.next[q[j]] = q[i] PROVE q[j] = q[i - 1]
      BY <2>3
    <3>1. q[i] # null
      BY <1>1
    <3>2. j < Len(q) /\ q[j + 1] = q[i] /\ j + 1 \in 1..Len(q)
      BY <1>1, <3>1
    <3>3. j + 1 = i
      BY <1>1, <3>2
    <3>4. j = i - 1
      BY <1>1, <3>3
    <3> QED
      BY <3>4
  <2>5. q[i - 1] \in Visited(s, l)
    BY <2>1, <2>3
  <2>6. (CHOOSE p \in Visited(s, l) : s.next[p] = q[i]) = q[i - 1]
    BY <2>2, <2>4, <2>5
  <2> QED
    BY <1>3, <2>1, <2>6 DEF Before
<1> QED
  BY <1>2, <1>3

\* The last element is the one at the last place, and alone leads nowhere.
LEMMA LastIs ==
  ASSUME NEW s, NEW own, Sound(s, own), NEW l \in List, s.head[l] # null,
         NEW q, q = Chain(s, l)
  PROVE  /\ LastOf(s, l) = q[Len(q)]
         /\ \A x \in Elem : own[x] = l /\ s.next[x] = null => x = q[Len(q)]
<1> USE ListOpsAssumption
<1>1. /\ Len(q) \in Nat /\ Len(q) \in 1..Len(q)
      /\ \A j \in 1..Len(q) : /\ q[j] \in Elem
                              /\ s.next[q[j]] = IF j < Len(q) THEN q[j + 1] ELSE null
      /\ \A x \in Elem : own[x] = l => \E j \in 1..Len(q) : q[j] = x
      /\ Range(q) = {x \in Elem : own[x] = l}
  BY ChainIs
<1>2. ASSUME NEW x \in Elem, own[x] = l, s.next[x] = null PROVE x = q[Len(q)]
  <2>1. PICK j \in 1..Len(q) : q[j] = x
    BY <1>1, <1>2
  <2>2. CASE j < Len(q)
    <3>1. j + 1 \in 1..Len(q) /\ s.next[x] = q[j + 1]
      BY <1>1, <2>1, <2>2
    <3> QED
      BY <1>1, <1>2, <3>1
  <2>3. CASE ~(j < Len(q))
    <3>1. j = Len(q)
      BY <1>1, <2>3
    <3> QED
      BY <2>1, <3>1
  <2> QED
    BY <2>2, <2>3
<1>3. /\ q[Len(q)] \in Elem /\ s.next[q[Len(q)]] = null
      /\ q[Len(q)] \in Visited(s, l)
  <2>1. q[Len(q)] \in Range(q) /\ ~(Len(q) < Len(q))
    BY <1>1, ChainIs, RangeIs
  <2> QED
    BY <1>1, <2>1, VisitedIsList
<1>4. (CHOOSE p \in Visited(s, l) : s.next[p] = null) = q[Len(q)]
  BY <1>2, <1>3, VisitedIsList
<1> QED
  BY <1>2, <1>4 DEF LastOf

\* The element before another is found.
LEMMA BeforeIsBefore ==
  ASSUME NEW s, NEW own, Sound(s, own), NEW l \in List,
         NEW x \in Elem, own[x] = l, s.head[l] # x
  PROVE  /\ Before(s, l, x) \in Elem /\ own[Before(s, l, x)] = l
         /\ s.next[Before(s, l, x)] = x
<1> DEFINE q == Chain(s, l)
<1>1. /\ Len(q) \in Nat
      /\ \A j \in 1..Len(q) : /\ q[j] \in Elem /\ own[q[j]] = l
                              /\ s.next[q[j]] = IF j < Len(q) THEN q[j + 1] ELSE null
      /\ \E j \in 1..Len(q) : q[j] = x
      /\ s.head[l] # null => q[1] = s.head[l]
      /\ s.head[l] = null => Len(q) = 0
  BY ChainIs
<1>2. PICK i \in 1..Len(q) : q[i] = x
  BY <1>1
<1>3. /\ i # 1 /\ i - 1 \in 1..Len(q) /\ i - 1 < Len(q) /\ (i - 1) + 1 = i
  BY <1>1, <1>2
<1>4. Before(s, l, x) = q[i - 1]
  <2> HIDE DEF q
  <2>1. q = Chain(s, l)
    BY DEF q
  <2> QED
    BY <1>2, <1>3, <2>1, BeforeIs
<1> HIDE DEF q
<1> QED
  BY <1>1, <1>2, <1>3, <1>4

\* The last element is in the list and leads nowhere.
LEMMA LastIsLast ==
  ASSUME NEW s, NEW own, Sound(s, own), NEW l \in List, s.head[l] # null
  PROVE  /\ LastOf(s, l) \in Elem /\ own[LastOf(s, l)] = l
         /\ s.next[LastOf(s, l)] = null
         /\ \A x \in Elem : own[x] = l /\ s.next[x] = null => x = LastOf(s, l)
<1> DEFINE q == Chain(s, l)
<1>1. /\ Len(q) \in Nat /\ Len(q) \in 1..Len(q)
      /\ \A j \in 1..Len(q) : /\ q[j] \in Elem /\ own[q[j]] = l
                              /\ s.next[q[j]] = IF j < Len(q) THEN q[j + 1] ELSE null
  <2> HIDE DEF q
  <2>1. q = Chain(s, l)
    BY DEF q
  <2> QED
    BY <2>1, ChainIs
<1>2. /\ LastOf(s, l) = q[Len(q)]
      /\ \A x \in Elem : own[x] = l /\ s.next[x] = null => x = q[Len(q)]
  BY LastIs
<1> HIDE DEF q
<1> QED
  BY <1>1, <1>2

-----------------------------------------------------------------------------
\* From s to n no list but l changes.
LeavesRest(s, own, n, o, l) ==
  /\ \A k \in List : k # l => n.head[k] = s.head[k]
  /\ \A k \in List : k # l => \A x \in Elem : o[x] = k <=> own[x] = k
  /\ \A x \in Elem : own[x] # null /\ own[x] # l => n.next[x] = s.next[x]
  /\ \A x \in Elem : o[x] = null => n.next[x] = s.next[x]

\* One list changes: its new path, the new elements in it and the tails are all
\* there is to know.
LEMMA OneListChanges ==
  ASSUME NEW s, NEW own, Sound(s, own), NEW l \in List,
         NEW n \in Storage, NEW o \in Owners, NEW p, IsChain(n, l, p),
         HasElements(o, l, p), LeavesRest(s, own, n, o, l), TailsLast(n, o)
  PROVE  Sound(n, o) /\ Becomes(s, n, l, p)
<1> USE ListOpsAssumption DEF HasElements, LeavesRest
<1>1. Chain(n, l) = p
  BY PathIs DEF Chain, IsChain
<1>2. ASSUME NEW k \in List, k # l
      PROVE  /\ Chain(n, k) = Chain(s, k) /\ IsChain(n, k, Chain(n, k))
             /\ Range(Chain(n, k)) = {x \in Elem : o[x] = k}
  <2> DEFINE q == Chain(s, k)
  <2>1. IsChain(s, k, q) /\ Range(q) = {x \in Elem : own[x] = k}
    BY DEF Sound, Chained
  <2> HIDE DEF q
  <2>2. \A x \in Range(q) : n.next[x] = s.next[x]
    BY <1>2, <2>1
  <2>3. IsPath(q, Elem, n.next, s.head[k])
    BY <2>1, <2>2, PathSame DEF IsChain
  <2>4. IsChain(n, k, q)
    BY <1>2, <2>3 DEF IsChain
  <2>5. Chain(n, k) = q
    BY <2>4, PathIs DEF Chain, IsChain
  <2>6. {x \in Elem : o[x] = k} = {x \in Elem : own[x] = k}
    BY <1>2
  <2> QED
    BY <2>1, <2>4, <2>5, <2>6 DEF q
<1>3. Chained(n, o)
  BY <1>1, <1>2 DEF Chained
<1>4. ASSUME NEW x \in Spare(n) PROVE o[x] = null
  BY <1>3, <1>4 DEF Spare, Chained, Owners
<1> QED
  BY <1>1, <1>2, <1>3, <1>4 DEF Sound, Becomes, Spare

\* In n the element y is linked in after the i-th of the list l, or first.
PutsIn(s, l, q, i, y, n) ==
  /\ n \in Storage
  /\ n.head = IF i = 0 THEN [s.head EXCEPT ![l] = y] ELSE s.head
  /\ n.next = IF i = 0 THEN [s.next EXCEPT ![y] = s.head[l]]
              ELSE [s.next EXCEPT ![y] = s.next[q[i]], ![q[i]] = y]
  /\ \A k \in StoreTail : n.tail[k] = IF k = l /\ i = Len(q) THEN y ELSE s.tail[k]

\* In n the i-th element of the list l is passed over.
TakesOut(s, l, q, i, n) ==
  /\ n \in Storage
  /\ n.head = IF i = 1 THEN [s.head EXCEPT ![l] = s.next[q[i]]] ELSE s.head
  /\ n.next = IF i = 1 THEN s.next ELSE [s.next EXCEPT ![q[i - 1]] = s.next[q[i]]]
  /\ \A k \in StoreTail :
       n.tail[k] = IF k = l /\ i = Len(q) THEN IF i = 1 THEN null ELSE q[i - 1]
                   ELSE s.tail[k]

\* An element is put in after the i-th of a list, or first.
LEMMA PutIn ==
  ASSUME NEW s, NEW own, Sound(s, own), NEW l \in List, NEW q, q = Chain(s, l),
         NEW y \in Elem, own[y] = null, NEW i \in 0..Len(q), NEW n, PutsIn(s, l, q, i, y, n)
  PROVE  /\ Sound(n, [own EXCEPT ![y] = l])
         /\ Becomes(s, n, l, InsertAt(q, i + 1, y))
<1> USE ListOpsAssumption DEF PutsIn
<1> DEFINE o == [own EXCEPT ![y] = l]
           p == InsertAt(q, i + 1, y)
<1>1. /\ s \in Storage /\ own \in Owners /\ l # null /\ y # null
      /\ s.next \in [Elem -> Handle] /\ s.head \in [List -> Handle]
  BY InStorage
<1>2. o \in Owners /\ \A e \in Elem : o[e] = IF e = y THEN l ELSE own[e]
  BY <1>1 DEF Owners
<1>3. /\ IsChain(s, l, q) /\ q \in Seq(Elem) /\ Len(q) \in Nat
      /\ \A j \in 1..Len(q) : /\ q[j] \in Elem /\ own[q[j]] = l
                              /\ s.next[q[j]] = IF j < Len(q) THEN q[j + 1] ELSE null
      /\ \A j, k \in 1..Len(q) : q[j] = q[k] => j = k
      /\ Range(q) = {x \in Elem : own[x] = l}
      /\ IF s.head[l] = null THEN q = <<>> /\ Len(q) = 0
         ELSE q # <<>> /\ 1 \in 1..Len(q) /\ Len(q) \in 1..Len(q) /\ q[1] = s.head[l]
  BY ChainIs, SMTT(60)
<1>4. \A j \in 1..Len(q) : q[j] # y
  BY <1>1, <1>3
<1>5. IF i = 0 THEN n.head[l] = y /\ n.next[y] = s.head[l]
      ELSE n.head[l] = s.head[l] /\ n.next[q[i]] = y /\ n.next[y] = s.next[q[i]]
  BY <1>1, <1>3, <1>4
<1>6. /\ \A e \in Elem : e # y /\ (i # 0 => e # q[i]) => n.next[e] = s.next[e]
      /\ \A k \in List : k # l => n.head[k] = s.head[k]
  BY <1>1, <1>3
<1>7. IsChain(n, l, p) /\ HasElements(o, l, p)
  <2>1. y \notin Range(q)
    BY <1>1, <1>3
  <2>2. \A j \in 1..Len(q) : j # i => n.next[q[j]] = s.next[q[j]]
    <3> SUFFICES ASSUME NEW j \in 1..Len(q), j # i PROVE n.next[q[j]] = s.next[q[j]]
      OBVIOUS
    <3>1. i # 0 => q[j] # q[i]
      BY <1>3
    <3> QED
      BY <1>3, <1>4, <1>6, <3>1
  <2>3. IsPath(q, Elem, s.next, s.head[l])
    BY <1>3 DEF IsChain
  <2>4. i \in 0..Len(q) /\ y \in Elem
    OBVIOUS
  <2>5. IsPath(p, Elem, n.next, n.head[l])
    BY ONLY <1>5, <2>1, <2>2, <2>3, <2>4, PathInsert
  <2>6. Range(p) = Range(q) \cup {y}
    <3> DEFINE k == i + 1
    <3>1. k \in 1..(Len(q) + 1)
      BY <1>3
    <3> HIDE DEF k
    <3>2. Range(InsertAt(q, k, y)) = Range(q) \cup {y}
      BY <1>3, <3>1, RangeInserted
    <3> QED
      BY <3>2 DEF k
  <2> HIDE DEF p, o
  <2>7. Range(p) = {x \in Elem : o[x] = l}
    BY <1>2, <1>3, <2>6
  <2> QED
    BY <2>5, <2>7 DEF IsChain, HasElements
<1> HIDE DEF p, o
<1>8. TailsLast(n, o)
  <2> SUFFICES ASSUME NEW k \in StoreTail
               PROVE  IF n.head[k] = null THEN n.tail[k] = null
                      ELSE n.tail[k] \in Elem /\ o[n.tail[k]] = k /\ n.next[n.tail[k]] = null
    BY DEF TailsLast
  <2>1. IF s.head[k] = null THEN s.tail[k] = null
        ELSE s.tail[k] \in Elem /\ own[s.tail[k]] = k /\ s.next[s.tail[k]] = null
    BY DEF Sound, TailsLast
  <2>2. k \in List /\ k # null
    OBVIOUS
  <2>3. CASE k = l /\ i = Len(q)
    <3>1. n.tail[k] = y /\ n.head[k] # null
      BY <1>1, <1>3, <1>5, <2>3
    <3>2. n.next[y] = null
      BY <1>3, <1>5, <2>3
    <3> QED
      BY <1>2, <2>3, <3>1, <3>2
  <2>4. CASE k = l /\ i # Len(q)
    <3>1. s.head[k] # null /\ Len(q) \in 1..Len(q) /\ i < Len(q)
      BY <1>3, <2>4
    <3>2. s.tail[k] = q[Len(q)]
      BY <2>1, <2>4, <3>1, LastIs
    <3>3. q[Len(q)] # y /\ (i # 0 => q[Len(q)] # q[i])
      BY <1>3, <1>4, <3>1
    <3>4. n.next[q[Len(q)]] = null
      <4>1. q[Len(q)] \in Elem /\ s.next[q[Len(q)]] = null
        BY <2>1, <3>1, <3>2
      <4> QED
        BY <1>6, <3>3, <4>1
    <3>5. n.head[k] # null
      BY <1>1, <1>5, <2>4, <3>1
    <3> QED
      BY <1>2, <2>1, <2>4, <3>1, <3>2, <3>3, <3>4, <3>5
  <2>5. CASE k # l
    <3>1. n.head[k] = s.head[k] /\ n.tail[k] = s.tail[k]
      BY <1>6, <2>2, <2>5
    <3>2. s.head[k] # null => s.tail[k] # y /\ (i # 0 => s.tail[k] # q[i])
      BY <1>3, <2>1, <2>2, <2>5
    <3> QED
      BY <1>2, <1>6, <2>1, <3>1, <3>2
  <2> QED
    BY <2>3, <2>4, <2>5
<1>9. LeavesRest(s, own, n, o, l)
  <2>1. i # 0 => i \in 1..Len(q) /\ o[q[i]] = l
    BY <1>2, <1>3
  <2> QED
    BY <1>1, <1>2, <1>3, <1>6, <2>1 DEF LeavesRest
<1>10. Sound(n, o) /\ Becomes(s, n, l, p)
  BY <1>2, <1>7, <1>8, <1>9, OneListChanges
<1> QED
  BY <1>10 DEF o, p

\* The i-th element of a list is taken out.
LEMMA TakeOut ==
  ASSUME NEW s, NEW own, Sound(s, own), NEW l \in List, NEW q, q = Chain(s, l),
         NEW i \in 1..Len(q), NEW n, TakesOut(s, l, q, i, n)
  PROVE  /\ Sound(n, [own EXCEPT ![q[i]] = null])
         /\ Becomes(s, n, l, RemoveAt(q, i))
<1> USE ListOpsAssumption DEF TakesOut
<1> DEFINE o == [own EXCEPT ![q[i]] = null]
           p == RemoveAt(q, i)
<1>1. /\ s \in Storage /\ own \in Owners /\ l # null
      /\ s.next \in [Elem -> Handle] /\ s.head \in [List -> Handle]
  BY InStorage
<1>2. /\ IsChain(s, l, q) /\ q \in Seq(Elem) /\ Len(q) \in Nat
      /\ \A j \in 1..Len(q) : /\ q[j] \in Elem /\ own[q[j]] = l
                              /\ s.next[q[j]] = IF j < Len(q) THEN q[j + 1] ELSE null
      /\ \A j, k \in 1..Len(q) : q[j] = q[k] => j = k
      /\ Range(q) = {x \in Elem : own[x] = l}
      /\ s.head[l] # null /\ 1 \in 1..Len(q) /\ Len(q) \in 1..Len(q) /\ q[1] = s.head[l]
  BY ChainIs
<1>3. o \in Owners /\ \A e \in Elem : o[e] = IF e = q[i] THEN null ELSE own[e]
  BY <1>1, <1>2 DEF Owners
<1>4. i # 1 => i - 1 \in 1..Len(q) /\ (i - 1) + 1 = i
  BY <1>2
<1>5. IF i = 1 THEN n.head[l] = s.next[q[1]]
      ELSE n.head[l] = s.head[l] /\ n.next[q[i - 1]] = s.next[q[i]]
  BY <1>1, <1>2, <1>4
<1>6. /\ \A e \in Elem : (i # 1 => e # q[i - 1]) => n.next[e] = s.next[e]
      /\ \A k \in List : k # l => n.head[k] = s.head[k]
  BY <1>1, <1>2, <1>4
<1>7. IsChain(n, l, p) /\ HasElements(o, l, p)
  <2>1. \A j \in 1..Len(q) : j # i /\ j # i - 1 => n.next[q[j]] = s.next[q[j]]
    <3> SUFFICES ASSUME NEW j \in 1..Len(q), j # i - 1 PROVE n.next[q[j]] = s.next[q[j]]
      OBVIOUS
    <3>1. i # 1 => q[j] # q[i - 1]
      BY <1>2, <1>4
    <3> QED
      BY <1>2, <1>6, <3>1
  <2>2. IsPath(q, Elem, s.next, s.head[l])
    BY <1>2 DEF IsChain
  <2>3. IF i = 1 THEN n.head[l] = s.next[q[1]]
        ELSE n.head[l] = s.head[l] /\ n.next[q[i - 1]] = s.next[q[i]]
    BY <1>5
  <2>4. i \in 1..Len(q)
    OBVIOUS
  <2>5. IsPath(p, Elem, n.next, n.head[l])
    BY ONLY <2>1, <2>2, <2>3, <2>4, PathRemove
  <2>6. Range(p) = Range(q) \ {q[i]}
    BY <1>2, RangeRemoved
  <2> HIDE DEF p, o
  <2>7. Range(p) = {x \in Elem : o[x] = l}
    BY <1>1, <1>2, <1>3, <2>6
  <2> QED
    BY <2>5, <2>7 DEF IsChain, HasElements
<1> HIDE DEF p, o
<1>8. TailsLast(n, o)
  <2> SUFFICES ASSUME NEW k \in StoreTail
               PROVE  IF n.head[k] = null THEN n.tail[k] = null
                      ELSE n.tail[k] \in Elem /\ o[n.tail[k]] = k /\ n.next[n.tail[k]] = null
    BY DEF TailsLast
  <2>1. IF s.head[k] = null THEN s.tail[k] = null
        ELSE s.tail[k] \in Elem /\ own[s.tail[k]] = k /\ s.next[s.tail[k]] = null
    BY DEF Sound, TailsLast
  <2>2. k \in List /\ k # null
    OBVIOUS
  <2>3. CASE k = l /\ i = Len(q) /\ i = 1
    <3>1. ~(1 < Len(q))
      BY <1>2, <2>3
    <3>2. n.head[k] = null
      BY <1>2, <1>5, <2>3, <3>1
    <3> QED
      BY <2>3, <3>2
  <2>4. CASE k = l /\ i = Len(q) /\ i # 1
    <3>1. n.tail[k] = q[i - 1] /\ q[i - 1] # q[i] /\ n.head[k] # null
      BY <1>2, <1>4, <1>5, <2>4
    <3>2. n.next[q[i - 1]] = null
      BY <1>2, <1>5, <2>4
    <3> QED
      BY <1>2, <1>3, <1>4, <2>4, <3>1, <3>2
  <2>5. CASE k = l /\ i # Len(q)
    <3>1. s.tail[k] = q[Len(q)] /\ n.tail[k] = s.tail[k] /\ s.tail[k] \in Elem
      BY <1>2, <2>1, <2>5, LastIs
    <3>2. q[Len(q)] # q[i] /\ (i # 1 => q[Len(q)] # q[i - 1])
      BY <1>2, <1>4, <2>5
    <3>3. n.next[q[Len(q)]] = null
      BY <1>2, <1>6, <2>1, <2>5, <3>1, <3>2
    <3>4. n.head[k] # null
      <4>1. CASE i = 1
        <5>1. 1 < Len(q)
          <6>1. Len(q) \in Nat /\ 1 <= Len(q)
            BY <1>2
          <6>2. Len(q) # 1
            BY <2>5, <4>1
          <6>3. \A m \in Nat : 1 <= m /\ m # 1 => 1 < m
            OBVIOUS
          <6> QED
            BY <6>1, <6>2, <6>3
        <5>2. 1 + 1 \in 1..Len(q)
          BY <1>2, <5>1
        <5> QED
          BY <1>2, <1>5, <2>5, <4>1, <5>1, <5>2
      <4>2. CASE i # 1
        BY <1>2, <1>5, <2>5, <4>2
      <4> QED
        BY <4>1, <4>2
    <3> QED
      BY <1>2, <1>3, <2>1, <2>5, <3>1, <3>2, <3>3, <3>4
  <2>6. CASE k # l
    <3>1. n.head[k] = s.head[k] /\ n.tail[k] = s.tail[k]
      BY <1>6, <2>2, <2>6
    <3>2. s.head[k] # null => s.tail[k] # q[i] /\ (i # 1 => s.tail[k] # q[i - 1])
      BY <1>2, <1>4, <2>1, <2>2, <2>6
    <3> QED
      BY <1>3, <1>6, <2>1, <3>1, <3>2
  <2> QED
    BY <2>3, <2>4, <2>5, <2>6
<1>9. LeavesRest(s, own, n, o, l)
  <2>1. i # 1 => q[i - 1] # q[i] /\ o[q[i - 1]] = l
    BY <1>2, <1>3, <1>4, SMTT(60)
  <2> QED
    BY <1>1, <1>2, <1>3, <1>4, <1>6, <2>1, SMTT(30) DEF LeavesRest
<1>10. Sound(n, o) /\ Becomes(s, n, l, p)
  BY <1>3, <1>7, <1>8, <1>9, OneListChanges
<1> QED
  BY <1>10 DEF o, p

\* All elements of a list are.
LEMMA AllOut ==
  ASSUME NEW s, NEW own, Sound(s, own), NEW l \in List,
         NEW n \in Storage, n.next = s.next, n.head = [s.head EXCEPT ![l] = null],
         \A k \in StoreTail : n.tail[k] = IF k = l THEN null ELSE s.tail[k]
  PROVE  /\ Sound(n, [x \in Elem |-> IF own[x] = l THEN null ELSE own[x]])
         /\ Becomes(s, n, l, <<>>)
<1> USE ListOpsAssumption
<1> DEFINE o == [x \in Elem |-> IF own[x] = l THEN null ELSE own[x]]
<1>1. /\ s \in Storage /\ own \in Owners /\ l # null /\ s.head \in [List -> Handle]
  BY InStorage
<1>2. o \in Owners /\ \A x \in Elem : o[x] = IF own[x] = l THEN null ELSE own[x]
  BY <1>1 DEF Owners
<1>3. n.head[l] = null /\ \A k \in List : k # l => n.head[k] = s.head[k]
  BY <1>1
<1> HIDE DEF o
<1>4. IsChain(n, l, <<>>) /\ HasElements(o, l, <<>>)
  <2>1. IsPath(<<>>, Elem, n.next, n.head[l])
    BY <1>3, PathEmpty
  <2>2. Range(<<>>) = {}
    BY <2>1, PathPlaces
  <2> QED
    BY <1>1, <1>2, <2>1, <2>2 DEF IsChain, HasElements
<1>5. TailsLast(n, o)
  <2> SUFFICES ASSUME NEW k \in StoreTail
               PROVE  IF n.head[k] = null THEN n.tail[k] = null
                      ELSE n.tail[k] \in Elem /\ o[n.tail[k]] = k /\ n.next[n.tail[k]] = null
    BY DEF TailsLast
  <2>1. k \in List
    OBVIOUS
  <2> QED
    BY <1>2, <1>3, <2>1 DEF Sound, TailsLast
<1>6. LeavesRest(s, own, n, o, l)
  BY <1>2, <1>3 DEF LeavesRest
<1>7. Sound(n, o) /\ Becomes(s, n, l, <<>>)
  BY <1>2, <1>4, <1>5, <1>6, OneListChanges
<1> QED
  BY <1>7 DEF o

-----------------------------------------------------------------------------
\* In n the tail of l, if it is stored, is h, and all else as in m.
TailIs(m, l, h, n) ==
  /\ n \in Storage /\ n.head = m.head /\ n.next = m.next
  /\ \A k \in StoreTail : n.tail[k] = IF k = l THEN h ELSE m.tail[k]

\* tail() = h
LEMMA TailedSets ==
  ASSUME NEW s \in Storage, NEW l \in List, NEW h \in Handle
  PROVE  TailIs(s, l, h, Tailed(s, l, h))
<1> USE ListOpsAssumption DEF TailIs
<1>1. CASE l \in StoreTail
  BY <1>1 DEF Tailed, Storage
<1>2. CASE l \notin StoreTail
  BY <1>2 DEF Tailed
<1> QED
  BY <1>1, <1>2

\* The end of a list as push() takes it, stored or looked for, is its last element.
LEMMA StartReverse ==
  ASSUME NEW s, NEW own, Sound(s, own), NEW l \in List
  PROVE  /\ l \in StoreTail => Start(s, l, reverse) = LastOf(s, l)
         /\ s.head[l] # null => Start(s, l, reverse) = LastOf(s, l)
<1>1. Start(s, l, reverse) = IF l \in StoreTail THEN s.tail[l] ELSE LastOf(s, l)
  BY DEF Start, reverse, forward
<1>2. l \in StoreTail =>
        IF s.head[l] = null THEN s.tail[l] = null
        ELSE s.tail[l] \in Elem /\ own[s.tail[l]] = l /\ s.next[s.tail[l]] = null
  BY DEF Sound, TailsLast
<1>3. CASE s.head[l] = null
  BY <1>1, <1>2, <1>3 DEF LastOf
<1>4. CASE s.head[l] # null
  BY <1>1, <1>2, <1>4, LastIsLast
<1> QED
  BY <1>3, <1>4

\* push()
LEMMA PushSound ==
  ASSUME NEW s, NEW own, Sound(s, own), NEW l \in List, NEW x \in Elem,
         own[x] = null, NEW d \in Direction, NEW q, q = Chain(s, l)
  PROVE  /\ Sound(Push(s, l, x, d), [own EXCEPT ![x] = l])
         /\ Becomes(s, Push(s, l, x, d), l,
                    InsertAt(q, IF d = forward THEN 1 ELSE Len(q) + 1, x))
<1> USE ListOpsAssumption
<1> DEFINE n == Push(s, l, x, d)
           i == IF d = forward THEN 0 ELSE Len(q)
<1>1. /\ s \in Storage /\ s.head \in [List -> Handle] /\ s.next \in [Elem -> Handle]
      /\ x \in Handle /\ null \in Handle
  BY InStorage DEF Handle
<1>2. /\ Len(q) \in Nat
      /\ \A j \in 1..Len(q) : /\ q[j] \in Elem /\ own[q[j]] = l
                              /\ s.next[q[j]] = IF j < Len(q) THEN q[j + 1] ELSE null
      /\ IF s.head[l] = null THEN Len(q) = 0
         ELSE Len(q) \in 1..Len(q) /\ Len(q) # 0
  BY ChainIs
<1>3. PutsIn(s, l, q, i, x, n)
  <2>1. CASE s.head[l] = null
    <3> DEFINE m == [s EXCEPT !.next[x] = null, !.head[l] = x]
    <3>1. /\ m \in Storage /\ m.head = [s.head EXCEPT ![l] = x]
          /\ m.next = [s.next EXCEPT ![x] = null] /\ m.tail = s.tail
      BY <1>1 DEF Storage
    <3>2. n = Tailed(m, l, x) /\ i = 0 /\ Len(q) = 0
      BY <1>2, <2>1 DEF Push, Empty
    <3> HIDE DEF m, n, i
    <3>3. TailIs(m, l, x, n)
      BY <1>1, <3>1, <3>2, TailedSets
    <3> QED
      BY <2>1, <3>1, <3>2, <3>3 DEF PutsIn, TailIs
  <2>2. CASE s.head[l] # null /\ d = forward
    <3>1. n = [s EXCEPT !.next[x] = s.head[l], !.head[l] = x] /\ i = 0 /\ Len(q) # 0
      BY <1>2, <2>2 DEF Push, Empty
    <3> HIDE DEF n, i
    <3> QED
      BY <1>1, <3>1 DEF Storage, PutsIn
  <2>3. CASE s.head[l] # null /\ d # forward
    <3>1. Start(s, l, reverse) = q[Len(q)]
      BY <2>3, StartReverse, LastIs
    <3>2. i = Len(q) /\ i # 0 /\ i \in 1..Len(q) /\ s.next[q[i]] = null
      <4>1. Len(q) \in 1..Len(q) /\ ~(Len(q) < Len(q))
        BY <1>2, <2>3
      <4> QED
        BY <1>2, <2>3, <4>1
    <3> DEFINE m == [s EXCEPT !.next[x] = null, !.next[q[i]] = x]
    <3>3. n = Tailed(m, l, x)
      BY <2>3, <3>1, <3>2 DEF Push, Empty
    <3> HIDE DEF n, i
    <3>4. /\ m \in Storage /\ m.head = s.head /\ m.tail = s.tail
          /\ m.next = [s.next EXCEPT ![x] = s.next[q[i]], ![q[i]] = x]
      BY <1>1, <1>2, <3>2 DEF Storage
    <3> HIDE DEF m
    <3>5. TailIs(m, l, x, n)
      BY <1>1, <3>3, <3>4, TailedSets
    <3> QED
      BY <3>2, <3>4, <3>5 DEF PutsIn, TailIs
  <2> QED
    BY <2>1, <2>2, <2>3
<1>4. i \in 0..Len(q) /\ i + 1 = IF d = forward THEN 1 ELSE Len(q) + 1
  BY <1>2
<1> HIDE DEF n, i
<1>5. Sound(n, [own EXCEPT ![x] = l]) /\ Becomes(s, n, l, InsertAt(q, i + 1, x))
  BY <1>3, <1>4, PutIn
<1> QED
  BY <1>4, <1>5 DEF n

\* insert(), whatever the direction, once the element to go after is known.
LEMMA InsertAfterSound ==
  ASSUME NEW s, NEW own, Sound(s, own), NEW l \in List, NEW q, q = Chain(s, l),
         NEW i \in 1..Len(q), NEW y \in Elem, own[y] = null
  PROVE  /\ Sound(InsertAfter(s, l, q[i], y, s.next[q[i]]), [own EXCEPT ![y] = l])
         /\ Becomes(s, InsertAfter(s, l, q[i], y, s.next[q[i]]), l, InsertAt(q, i + 1, y))
<1> USE ListOpsAssumption
<1> DEFINE n == InsertAfter(s, l, q[i], y, s.next[q[i]])
           m == [s EXCEPT !.next[y] = s.next[q[i]], !.next[q[i]] = y]
<1>1. s \in Storage /\ s.next \in [Elem -> Handle] /\ y \in Handle
  BY InStorage DEF Handle
<1>2. /\ q[i] \in Elem /\ Len(q) \in Nat
      /\ s.next[q[i]] = IF i < Len(q) THEN q[i + 1] ELSE null
      /\ (i < Len(q) => q[i + 1] \in Elem)
  <2>1. /\ Len(q) \in Nat
        /\ \A j \in 1..Len(q) : /\ q[j] \in Elem
                                /\ s.next[q[j]] = IF j < Len(q) THEN q[j + 1] ELSE null
    BY ChainIs
  <2>2. i < Len(q) => i + 1 \in 1..Len(q)
    BY <2>1
  <2> QED
    BY <2>1, <2>2
<1>3. s.next[q[i]] = null <=> i = Len(q)
  BY <1>2
<1>4. /\ m \in Storage /\ m.head = s.head /\ m.tail = s.tail
      /\ m.next = [s.next EXCEPT ![y] = s.next[q[i]], ![q[i]] = y]
  BY <1>1, <1>2 DEF Storage
<1>5. n = IF s.next[q[i]] = null THEN Tailed(m, l, y) ELSE m
  BY DEF InsertAfter
<1>6. i # 0 /\ i \in 0..Len(q)
  BY <1>2
<1> HIDE DEF m, n
<1>7. ASSUME i = Len(q) PROVE PutsIn(s, l, q, i, y, n)
  <2>1. TailIs(m, l, y, n)
    BY <1>1, <1>3, <1>4, <1>5, <1>7, TailedSets
  <2> QED
    BY <1>4, <1>6, <1>7, <2>1 DEF PutsIn, TailIs
<1>8. ASSUME i # Len(q) PROVE PutsIn(s, l, q, i, y, n)
  BY <1>3, <1>4, <1>5, <1>6, <1>8 DEF PutsIn
<1>9. PutsIn(s, l, q, i, y, n)
  BY <1>7, <1>8
<1>10. Sound(n, [own EXCEPT ![y] = l]) /\ Becomes(s, n, l, InsertAt(q, i + 1, y))
  BY <1>6, <1>9, PutIn
<1> QED
  BY <1>10 DEF n

\* insert()
LEMMA InsertSound ==
  ASSUME NEW s, NEW own, Sound(s, own), NEW l \in List, NEW q, q = Chain(s, l),
         NEW i \in 1..Len(q), NEW y \in Elem, own[y] = null, NEW d \in Direction
  PROVE  /\ Sound(Insert(s, l, q[i], y, d), [own EXCEPT ![y] = l])
         /\ Becomes(s, Insert(s, l, q[i], y, d), l,
                    InsertAt(q, IF d = forward THEN i + 1 ELSE i, y))
<1> USE ListOpsAssumption
<1>1. /\ Len(q) \in Nat /\ i \in Int /\ forward # reverse
      /\ \A j \in 1..Len(q) : /\ q[j] \in Elem
                              /\ s.next[q[j]] = IF j < Len(q) THEN q[j + 1] ELSE null
  BY ChainIs DEF forward, reverse
<1>2. CASE d = forward
  <2>1. Insert(s, l, q[i], y, d) = InsertAfter(s, l, q[i], y, s.next[q[i]])
    BY <1>2 DEF Insert, LinkOf
  <2> QED
    BY <1>2, <2>1, InsertAfterSound, SMTT(30)
<1>3. CASE d # forward /\ i = 1
  <2>1. Before(s, l, q[i]) = null
    BY <1>3, BeforeIs
  <2>2. Insert(s, l, q[i], y, d) = Push(s, l, y, forward)
    BY <1>3, <2>1 DEF Insert, LinkOf
  <2>3. forward \in Direction
    BY DEF Direction
  <2>4. /\ Sound(Push(s, l, y, forward), [own EXCEPT ![y] = l])
        /\ Becomes(s, Push(s, l, y, forward), l, InsertAt(q, 1, y))
    BY <2>3, PushSound
  <2> QED
    BY <1>3, <2>2, <2>4
<1>4. CASE d # forward /\ i # 1
  <2> DEFINE k == i - 1
  <2>1. k \in 1..Len(q) /\ k < Len(q) /\ k + 1 = i
    BY <1>1, <1>4
  <2>2. Before(s, l, q[i]) = q[k]
    BY <1>4, BeforeIs
  <2> HIDE DEF k
  <2>3. s.next[q[k]] = q[i] /\ q[k] # null
    BY <1>1, <2>1
  <2>4. Insert(s, l, q[i], y, d) = InsertAfter(s, l, q[k], y, s.next[q[k]])
    BY <1>4, <2>2, <2>3 DEF Insert, LinkOf
  <2>5. /\ Sound(InsertAfter(s, l, q[k], y, s.next[q[k]]), [own EXCEPT ![y] = l])
        /\ Becomes(s, InsertAfter(s, l, q[k], y, s.next[q[k]]), l, InsertAt(q, k + 1, y))
    BY <2>1, InsertAfterSound
  <2> QED
    BY <1>4, <2>1, <2>4, <2>5
<1> QED
  BY <1>2, <1>3, <1>4

\* The storage after the i-th element of a list is cut off with the link of the
\* one before it, or the head.
Unlinked(s, l, q, i) ==
  LET m == IF i = 1 THEN [s EXCEPT !.head[l] = s.next[q[i]]]
           ELSE [s EXCEPT !.next[q[i - 1]] = s.next[q[i]]]
  IN IF s.next[q[i]] = null THEN Tailed(m, l, IF i = 1 THEN null ELSE q[i - 1]) ELSE m

\* Cut off so, the i-th element is out of the list and the rest of it is as it was.
LEMMA CutSound ==
  ASSUME NEW s, NEW own, Sound(s, own), NEW l \in List, NEW q, q = Chain(s, l),
         NEW i \in 1..Len(q)
  PROVE  /\ Sound(Unlinked(s, l, q, i), [own EXCEPT ![q[i]] = null])
         /\ Becomes(s, Unlinked(s, l, q, i), l, RemoveAt(q, i))
<1> USE ListOpsAssumption
<1> DEFINE h == IF i = 1 THEN null ELSE q[i - 1]
           m == IF i = 1 THEN [s EXCEPT !.head[l] = s.next[q[i]]]
                ELSE [s EXCEPT !.next[q[i - 1]] = s.next[q[i]]]
           n == Unlinked(s, l, q, i)
<1>1. /\ s \in Storage /\ s.next \in [Elem -> Handle] /\ s.head \in [List -> Handle]
      /\ null \in Handle
  BY InStorage DEF Handle
<1>2. /\ Len(q) \in Nat /\ i \in Int
      /\ \A j \in 1..Len(q) : /\ q[j] \in Elem
                              /\ s.next[q[j]] = IF j < Len(q) THEN q[j + 1] ELSE null
  BY ChainIs
<1>3. i # 1 => i - 1 \in 1..Len(q) /\ q[i - 1] \in Elem
  BY <1>2
<1>4. (s.next[q[i]] = null <=> i = Len(q)) /\ s.next[q[i]] \in Handle
  <2>1. i < Len(q) => i + 1 \in 1..Len(q)
    BY <1>2
  <2> QED
    BY <1>1, <1>2, <2>1
<1>5. /\ m \in Storage /\ m.tail = s.tail
      /\ m.head = IF i = 1 THEN [s.head EXCEPT ![l] = s.next[q[i]]] ELSE s.head
      /\ m.next = IF i = 1 THEN s.next ELSE [s.next EXCEPT ![q[i - 1]] = s.next[q[i]]]
  <2>1. CASE i = 1
    BY <1>1, <1>4, <2>1 DEF Storage
  <2>2. CASE i # 1
    BY <1>1, <1>3, <1>4, <2>2 DEF Storage
  <2> QED
    BY <2>1, <2>2
<1>6. h \in Handle
  BY <1>3 DEF Handle
<1>7. n = IF i = Len(q) THEN Tailed(m, l, h) ELSE m
  BY <1>4 DEF Unlinked
<1>8. h = IF i = 1 THEN null ELSE q[i - 1]
  OBVIOUS
<1> HIDE DEF h, m, n
<1>9. ASSUME i = Len(q) PROVE TakesOut(s, l, q, i, n)
  <2>1. TailIs(m, l, h, n)
    BY <1>5, <1>6, <1>7, <1>9, TailedSets
  <2> QED
    BY <1>5, <1>8, <1>9, <2>1 DEF TakesOut, TailIs
<1>10. ASSUME i # Len(q) PROVE TakesOut(s, l, q, i, n)
  BY <1>5, <1>7, <1>10 DEF TakesOut
<1>11. Sound(n, [own EXCEPT ![q[i]] = null]) /\ Becomes(s, n, l, RemoveAt(q, i))
  BY <1>9, <1>10, TakeOut
<1> QED
  BY <1>11 DEF n

\* remove_forward()
LEMMA RemoveForwardSound ==
  ASSUME NEW s, NEW own, Sound(s, own), NEW l \in List, NEW q, q = Chain(s, l),
         NEW i \in 1..Len(q), s.next[q[i]] # null
  PROVE  /\ i + 1 \in 1..Len(q) /\ s.next[q[i]] = q[i + 1]
         /\ Sound(RemoveForward(s, l, q[i]), [own EXCEPT ![q[i + 1]] = null])
         /\ Becomes(s, RemoveForward(s, l, q[i]), l, RemoveAt(q, i + 1))
<1> USE ListOpsAssumption
<1> DEFINE k == i + 1
<1>1. /\ Len(q) \in Nat /\ i \in Int
      /\ \A j \in 1..Len(q) : /\ q[j] \in Elem
                              /\ s.next[q[j]] = IF j < Len(q) THEN q[j + 1] ELSE null
  BY ChainIs
<1>2. k \in 1..Len(q) /\ k # 1 /\ k - 1 = i /\ s.next[q[i]] = q[k]
  BY <1>1
<1>3. RemoveForward(s, l, q[i]) =
        IF s.next[s.next[q[i]]] = null
        THEN Tailed([s EXCEPT !.next[q[i]] = s.next[s.next[q[i]]]], l, q[i])
        ELSE [s EXCEPT !.next[q[i]] = s.next[s.next[q[i]]]]
  BY DEF RemoveForward
<1> HIDE DEF k
<1>4. RemoveForward(s, l, q[i]) = Unlinked(s, l, q, k)
  BY <1>2, <1>3 DEF Unlinked
<1>5. /\ Sound(Unlinked(s, l, q, k), [own EXCEPT ![q[k]] = null])
      /\ Becomes(s, Unlinked(s, l, q, k), l, RemoveAt(q, k))
  BY <1>2, CutSound
<1> QED
  BY <1>2, <1>4, <1>5 DEF k

\* remove()
LEMMA RemoveElemSound ==
  ASSUME NEW s, NEW own, Sound(s, own), NEW l \in List, NEW q, q = Chain(s, l),
         NEW i \in 1..Len(q)
  PROVE  /\ Sound(RemoveElem(s, l, q[i]), [own EXCEPT ![q[i]] = null])
         /\ Becomes(s, RemoveElem(s, l, q[i]), l, RemoveAt(q, i))
<1> USE ListOpsAssumption
<1>1. /\ \A j \in 1..Len(q) : q[j] \in Elem
      /\ i # 1 => i - 1 \in 1..Len(q)
  BY ChainIs
<1> DEFINE r == IF i = 1 THEN null ELSE q[i - 1]
           m == IF i = 1 THEN [s EXCEPT !.head[l] = s.next[q[i]]]
                ELSE [s EXCEPT !.next[q[i - 1]] = s.next[q[i]]]
           n == RemoveElem(s, l, q[i])
<1>2. Before(s, l, q[i]) = r
  BY BeforeIs
<1>3. r = null <=> i = 1
  BY <1>1
<1>4. n = IF s.next[q[i]] = null THEN Tailed(m, l, r) ELSE m
  <2>1. m = IF r = null THEN [s EXCEPT !.head[l] = s.next[q[i]]]
            ELSE [s EXCEPT !.next[r] = s.next[q[i]]]
    BY <1>3
  <2> HIDE DEF m, r
  <2> QED
    BY <1>2, <2>1 DEF RemoveElem
<1>5. n = Unlinked(s, l, q, i)
  BY <1>4 DEF Unlinked
<1> HIDE DEF m, n, r
<1> QED
  BY <1>5, CutSound DEF n

\* The place of the element pop() takes.
EndPlace(q, d) == IF d = forward THEN 1 ELSE Len(q)

\* pop()
LEMMA PopSound ==
  ASSUME NEW s, NEW own, Sound(s, own), NEW l \in List, s.head[l] # null,
         NEW d \in Direction, NEW q, q = Chain(s, l), NEW i, i = EndPlace(q, d)
  PROVE  /\ i \in 1..Len(q) /\ Popped(s, l, d) = q[i]
         /\ Sound(Pop(s, l, d), [own EXCEPT ![q[i]] = null])
         /\ Becomes(s, Pop(s, l, d), l, RemoveAt(q, i))
<1> USE ListOpsAssumption
<1>1. /\ Len(q) \in Nat
      /\ \A j \in 1..Len(q) : /\ q[j] \in Elem
                              /\ s.next[q[j]] = IF j < Len(q) THEN q[j + 1] ELSE null
      /\ 1 \in 1..Len(q) /\ Len(q) \in 1..Len(q) /\ q[1] = s.head[l]
  BY ChainIs
<1>2. LastOf(s, l) = q[Len(q)]
  BY LastIs
<1>3. i \in 1..Len(q) /\ Popped(s, l, d) = q[i]
  BY <1>1, <1>2 DEF Popped, EndPlace
<1>4. /\ d # forward <=> d = reverse
      /\ i = IF d = forward THEN 1 ELSE Len(q)
  BY DEF EndPlace, Direction, forward, reverse
<1> DEFINE m == IF i = 1 THEN [s EXCEPT !.head[l] = s.next[q[i]]]
                ELSE [s EXCEPT !.next[q[i - 1]] = s.next[q[i]]]
           n == Pop(s, l, d)
           f == s.next[s.head[l]]
<1>5. n = IF s.next[q[i]] = null THEN Tailed(m, l, IF i = 1 THEN null ELSE q[i - 1])
          ELSE m
  <2>1. f = null <=> Len(q) = 1
    <3>1. 1 < Len(q) => 1 + 1 \in 1..Len(q)
      BY <1>1
    <3>2. 1 < Len(q) \/ Len(q) = 1
      <4>1. \A j \in Nat : 1 <= j => 1 < j \/ j = 1
        OBVIOUS
      <4>2. 1 <= Len(q)
        BY <1>1
      <4> QED
        BY <1>1, <4>1, <4>2
    <3> QED
      BY <1>1, <3>1, <3>2
  <2>2. CASE i = 1
    <3>1. ~(d = reverse /\ f # null)
      BY <1>1, <1>4, <2>1, <2>2
    <3>2. n = IF f = null THEN Tailed([s EXCEPT !.head[l] = f], l, null)
              ELSE [s EXCEPT !.head[l] = f]
      BY <3>1 DEF Pop
    <3>3. f = s.next[q[i]]
      BY <1>1, <2>2
    <3> HIDE DEF n, f
    <3> QED
      BY <2>2, <3>2, <3>3
  <2>3. CASE i # 1
    <3>1. d = reverse /\ i = Len(q) /\ f # null
      BY <1>1, <1>4, <2>1, <2>3
    <3>2. s.next[q[i]] = null
      BY <1>1, <3>1
    <3>3. Before(s, l, LastOf(s, l)) = q[i - 1]
      BY <1>2, <1>3, <2>3, <3>1, BeforeIs
    <3>4. n = Tailed([s EXCEPT !.next[q[i - 1]] = null], l, q[i - 1])
      BY <3>1, <3>3 DEF Pop
    <3> HIDE DEF n, f
    <3> QED
      BY <2>3, <3>2, <3>4
  <2> QED
    BY <2>2, <2>3
<1>6. n = Unlinked(s, l, q, i)
  BY <1>5 DEF Unlinked
<1> HIDE DEF m, n, f
<1> QED
  BY <1>3, <1>6, CutSound DEF n

\* purge()
LEMMA PurgeSound ==
  ASSUME NEW s, NEW own, Sound(s, own), NEW l \in List
  PROVE  /\ Sound(Purge(s, l), [x \in Elem |-> IF own[x] = l THEN null ELSE own[x]])
         /\ Becomes(s, Purge(s, l), l, <<>>)
<1> USE ListOpsAssumption
<1> DEFINE m == [s EXCEPT !.head[l] = null]
           n == Purge(s, l)
<1>1. s \in Storage /\ null \in Handle
  BY InStorage DEF Handle
<1>2. /\ m \in Storage /\ m.next = s.next /\ m.tail = s.tail
      /\ m.head = [s.head EXCEPT ![l] = null]
  BY <1>1 DEF Storage
<1>3. n = Tailed(m, l, null)
  BY DEF Purge
<1> HIDE DEF m, n
<1>4. TailIs(m, l, null, n)
  BY <1>1, <1>2, <1>3, TailedSets
<1>5. /\ n \in Storage /\ n.next = s.next /\ n.head = [s.head EXCEPT ![l] = null]
      /\ \A k \in StoreTail : n.tail[k] = IF k = l THEN null ELSE s.tail[k]
  BY <1>2, <1>4 DEF TailIs
<1> QED
  BY <1>5, AllOut DEF n

\* make_detached(): the link of an element in no list does not matter.
LEMMA MakeDetachedSound ==
  ASSUME NEW s, NEW own, Sound(s, own), NEW x \in Elem, own[x] = null
  PROVE  /\ Sound(MakeDetached(s, x), own)
         /\ \A l \in List : Chain(MakeDetached(s, x), l) = Chain(s, l)
<1> USE ListOpsAssumption
<1>1. s \in Storage /\ x \in Handle
  BY InStorage DEF Handle
<1> DEFINE n == MakeDetached(s, x)
<1>2. /\ n \in Storage /\ n.head = s.head /\ n.tail = s.tail
      /\ \A e \in Elem : e # x => n.next[e] = s.next[e]
  BY <1>1 DEF MakeDetached, Storage
<1> HIDE DEF n
<1>3. ASSUME NEW l \in List
      PROVE  /\ Chain(n, l) = Chain(s, l) /\ IsChain(n, l, Chain(n, l))
             /\ HasElements(own, l, Chain(n, l))
  <2> DEFINE q == Chain(s, l)
  <2>1. IsChain(s, l, q) /\ HasElements(own, l, q)
    BY DEF Sound, Chained
  <2> HIDE DEF q
  <2>2. \A e \in Range(q) : n.next[e] = s.next[e]
    BY <1>2, <2>1 DEF HasElements
  <2>3. IsChain(n, l, q)
    BY <1>2, <2>1, <2>2, PathSame DEF IsChain
  <2>4. Chain(n, l) = q
    BY <2>3, PathIs DEF Chain, IsChain
  <2> QED
    BY <2>1, <2>3, <2>4 DEF q
<1>4. TailsLast(n, own)
  BY <1>2 DEF Sound, TailsLast
<1> QED
  BY <1>2, <1>3, <1>4 DEF Sound, Chained, n

\* Empty lists, whatever the links of the elements.
LEMMA EmptySound ==
  ASSUME NEW s \in Storage, \A l \in List : s.head[l] = null,
         \A l \in StoreTail : s.tail[l] = null
  PROVE  /\ Sound(s, [x \in Elem |-> null])
         /\ \A l \in List : Chain(s, l) = <<>>
<1> USE ListOpsAssumption
<1> DEFINE o == [x \in Elem |-> null]
<1>1. o \in Owners /\ \A x \in Elem : o[x] = null
  BY DEF Owners
<1> HIDE DEF o
<1>2. ASSUME NEW l \in List
      PROVE  /\ Chain(s, l) = <<>> /\ IsChain(s, l, Chain(s, l))
             /\ HasElements(o, l, Chain(s, l))
  <2>1. s.head[l] \notin Elem
    OBVIOUS
  <2>2. IsPath(<<>>, Elem, s.next, s.head[l])
    BY <2>1, PathEmpty
  <2>3. Chain(s, l) = <<>>
    BY <2>2, PathIs DEF Chain
  <2>4. Range(<<>>) = {}
    BY <2>2, PathPlaces
  <2> QED
    BY <1>1, <2>2, <2>3, <2>4 DEF IsChain, HasElements
<1>3. TailsLast(s, o)
  BY DEF TailsLast
<1> QED
  BY <1>1, <1>2, <1>3 DEF Sound, Chained, o

\* list()
LEMMA FreshSound ==
  ASSUME NEW s \in Fresh
  PROVE  /\ Sound(s, [x \in Elem |-> null])
         /\ \A l \in List : Chain(s, l) = <<>>
<1> USE ListOpsAssumption
<1>1. s \in Storage /\ \A l \in List : s.head[l] = null /\ s.tail[l] = null
  BY DEF Fresh, Storage, Handle
<1> QED
  BY <1>1, EmptySound

-----------------------------------------------------------------------------
\* The lists are as the calling code has built them: the inductive invariant.
ListInv == Sound(heap, owner)

\* A state of the invariant is one of the types.
LEMMA TypeFromInv == ListInv => TypeOK
  BY InStorage DEF ListInv, TypeOK, Owners

\* New lists are empty, whatever the elements' storage holds.
LEMMA InitSound == Init => ListInv
  BY FreshSound DEF Init, ListInv

\* What the calling code takes out of a list is at a place of it.
LEMMA HasPlace ==
  ASSUME ListInv, NEW l \in List, NEW x \in Elem, owner[x] = l,
         NEW q, q = Chain(heap, l)
  PROVE  \E i \in 1..Len(q) : q[i] = x
  BY ChainIs, ListOpsAssumption DEF ListInv

\* The elements that look detached.
Loose(s) == {x \in Elem : IsDetached(s, x)}

\* An element in a list never looks detached.
LEMMA ListedNotLoose ==
  ASSUME NEW s, NEW own, Sound(s, own)
  PROVE  Loose(s) \subseteq {x \in Elem : own[x] = null}
<1> USE ListOpsAssumption
<1> SUFFICES ASSUME NEW x \in Elem, own[x] # null PROVE s.next[x] # x
  BY DEF Loose, IsDetached
<1>1. own[x] \in List
  BY InStorage DEF Owners
<1> DEFINE q == Chain(s, own[x])
<1>2. /\ Len(q) \in Nat
      /\ \A i \in 1..Len(q) : /\ q[i] \in Elem
                              /\ s.next[q[i]] = IF i < Len(q) THEN q[i + 1] ELSE null
      /\ \A i, j \in 1..Len(q) : q[i] = q[j] => i = j
      /\ \E i \in 1..Len(q) : q[i] = x
  BY <1>1, ChainIs
<1>3. PICK i \in 1..Len(q) : q[i] = x
  BY <1>2
<1> HIDE DEF q
<1>4. i < Len(q) => i + 1 \in 1..Len(q) /\ i + 1 # i
  BY <1>2
<1> QED
  BY <1>2, <1>3, <1>4

\* What is in no list is what the caller has put in none.
LEMMA SpareAre ==
  ASSUME NEW s, NEW own, Sound(s, own)
  PROVE  Spare(s) = {x \in Elem : own[x] = null}
  BY ListOpsAssumption DEF Sound, Chained, HasElements, Spare, Owners

\* When a list changes, only elements put in it stop looking detached.
LEMMA LooseChange ==
  ASSUME NEW s, NEW own, Sound(s, own), NEW n, NEW o, Sound(n, o),
         NEW l, NEW p, Becomes(s, n, l, p)
  PROVE  Loose(n) = {x \in Loose(s) : o[x] = null}
<1>1. Loose(n) \subseteq {x \in Elem : o[x] = null}
  BY ListedNotLoose
<1>2. \A x \in Elem : o[x] = null => n.next[x] = s.next[x]
  BY SpareAre DEF Becomes
<1> QED
  BY <1>1, <1>2 DEF Loose, IsDetached

\* The state of SequenceList when list l becomes p.
LEMMA MapsTo ==
  ASSUME ListInv, ListInv', NEW l \in List, NEW p, Becomes(heap, heap', l, p)
  PROVE  /\ [k \in List |-> Chain(heap, k)]'
              = [[k \in List |-> Chain(heap, k)] EXCEPT ![l] = p]
         /\ Loose(heap)' = {x \in Loose(heap) : owner'[x] = null}
<1>1. Loose(heap)' = {x \in Loose(heap) : owner'[x] = null}
  BY LooseChange DEF ListInv
<1>2. \A k \in List : Chain(heap, k)' = IF k = l THEN p ELSE Chain(heap, k)
  BY DEF Becomes
<1> QED
  BY <1>1, <1>2

\* The sequences of List and of SequenceList have the same operators.
LEMMA SameOperators ==
  ASSUME NEW q, NEW i, NEW x
  PROVE  /\ SL!Range(q) = Range(q)
         /\ SL!InsertAt(q, i, x) = InsertAt(q, i, x)
         /\ SL!RemoveAt(q, i) = RemoveAt(q, i)
         /\ SL!Front(q) = Front(q)
         /\ SL!Direction = Direction /\ SL!forward = forward
  BY DEF SL!Range, Range, SL!InsertAt, InsertAt, SL!RemoveAt, RemoveAt, SL!Front, Front,
         SL!Direction, Direction, SL!forward, forward, SL!reverse, reverse

\* What is in some sequence is what the caller has put in some list.
LEMMA PlacedAre ==
  ASSUME ListInv
  PROVE  \A x \in Elem : x \in SL!Placed <=> owner[x] # null
<1>1. \A l \in List : SL!Range(Chain(heap, l)) = {x \in Elem : owner[x] = l}
  BY SameOperators DEF ListInv, Sound, Chained, HasElements
<1>2. owner \in Owners
  BY InStorage DEF ListInv
<1> QED
  BY <1>1, <1>2, ListOpsAssumption DEF Owners, SL!Placed

\* Ends and places of a list as SequenceList has them.
LEMMA PlacesAre ==
  ASSUME NEW q \in Seq(Elem), NEW x \in Elem, NEW d \in Direction
  PROVE  /\ SL!Pushed(q, x, d) = InsertAt(q, IF d = forward THEN 1 ELSE Len(q) + 1, x)
         /\ q # <<>> =>
              SL!Popped(q, d) = RemoveAt(q, IF d = forward THEN 1 ELSE Len(q))
         /\ (\A i, j \in 1..Len(q) : q[i] = q[j] => i = j) =>
              \A i \in 1..Len(q) :
                /\ SL!Beside(q, q[i], x, d)
                     = InsertAt(q, IF d = forward THEN i + 1 ELSE i, x)
                /\ RemoveAt(q, SL!PlaceOf(q, q[i])) = RemoveAt(q, i)
<1>1. SL!forward = forward
  BY SameOperators
<1>2. SL!Pushed(q, x, d) = InsertAt(q, IF d = forward THEN 1 ELSE Len(q) + 1, x)
  BY <1>1, EndsAre DEF SL!Pushed
<1>3. ASSUME q # <<>>
      PROVE  SL!Popped(q, d) = RemoveAt(q, IF d = forward THEN 1 ELSE Len(q))
  <2>1. Tail(q) = RemoveAt(q, 1) /\ Front(q) = RemoveAt(q, Len(q))
    BY <1>3, EndsAre
  <2> QED
    BY <1>1, <2>1, SameOperators DEF SL!Popped
<1>4. ASSUME \A i, j \in 1..Len(q) : q[i] = q[j] => i = j, NEW i \in 1..Len(q)
      PROVE  SL!PlaceOf(q, q[i]) = i
  <2>1. DOMAIN q = 1..Len(q)
    BY LenProperties
  <2> QED
    BY <1>4, <2>1 DEF SL!PlaceOf
<1>5. ASSUME \A i, j \in 1..Len(q) : q[i] = q[j] => i = j, NEW i \in 1..Len(q)
      PROVE  SL!Beside(q, q[i], x, d) = InsertAt(q, IF d = forward THEN i + 1 ELSE i, x)
  <2>1. SL!PlaceOf(q, q[i]) = i
    BY <1>4, <1>5
  <2>2. SL!Beside(q, q[i], x, d) = SL!InsertAt(q, IF d = forward THEN i + 1 ELSE i, x)
    BY <1>1, <2>1 DEF SL!Beside
  <2> QED
    BY <2>2, SameOperators
<1> QED
  BY <1>2, <1>3, <1>4, <1>5

\* A list of the invariant as the lemmas about one list want it.
LEMMA ListIs ==
  ASSUME ListInv, NEW l \in List, NEW q, q = Chain(heap, l)
  PROVE  /\ q \in Seq(Elem) /\ Len(q) \in Nat
         /\ \A i, j \in 1..Len(q) : q[i] = q[j] => i = j
         /\ \A i \in 1..Len(q) : q[i] \in Elem /\ owner[q[i]] = l
         /\ SL!Range(q) = {x \in Elem : owner[x] = l}
         /\ heap.head[l] = null <=> q = <<>>
<1>1. /\ q \in Seq(Elem) /\ Len(q) \in Nat
      /\ \A i, j \in 1..Len(q) : q[i] = q[j] => i = j
      /\ \A i \in 1..Len(q) : q[i] \in Elem /\ owner[q[i]] = l
      /\ Range(q) = {x \in Elem : owner[x] = l}
      /\ IF heap.head[l] = null THEN q = <<>> ELSE q # <<>>
  <2>1. Sound(heap, owner)
    BY DEF ListInv
  <2>2. /\ q \in Seq(Elem) /\ Len(q) \in Nat
        /\ \A i, j \in 1..Len(q) : q[i] = q[j] => i = j
        /\ Range(q) = {x \in Elem : owner[x] = l}
    BY <2>1, ChainIs
  <2>3. \A i \in 1..Len(q) : q[i] \in Elem /\ owner[q[i]] = l
    BY <2>1, ChainIs
  <2>4. IF heap.head[l] = null THEN q = <<>> ELSE q # <<>>
    BY <2>1, ChainIs
  <2> QED
    BY <2>2, <2>3, <2>4
<1>2. SL!Range(q) = Range(q)
  BY SameOperators
<1> QED
  BY <1>1, <1>2

-----------------------------------------------------------------------------
\* push() puts the new element at the end asked for.
LEMMA PushStep ==
  ASSUME ListInv, NEW l \in List, NEW x \in Elem, NEW d \in Direction, DoPush(l, x, d)
  PROVE  ListInv' /\ SL!Push(l, x, d)
<1> USE ListOpsAssumption
<1> DEFINE q == Chain(heap, l)
           p == InsertAt(q, IF d = forward THEN 1 ELSE Len(q) + 1, x)
<1>1. /\ owner[x] = null /\ heap' = Push(heap, l, x, d)
      /\ owner' = [owner EXCEPT ![x] = l] /\ owner \in Owners
  BY InStorage DEF DoPush, Puts, ListInv
<1>2. q = Chain(heap, l) /\ q \in Seq(Elem)
  BY ListIs
<1>3. p = SL!Pushed(q, x, d)
  BY <1>2, PlacesAre
<1>4. p = InsertAt(q, IF d = forward THEN 1 ELSE Len(q) + 1, x)
  OBVIOUS
<1> HIDE DEF p, q
<1>5. ListInv' /\ Becomes(heap, heap', l, p)
  BY <1>1, <1>2, <1>4, PushSound DEF ListInv
<1>6. /\ [k \in List |-> Chain(heap, k)]'
           = [[k \in List |-> Chain(heap, k)] EXCEPT ![l] = p]
      /\ Loose(heap)' = {y \in Loose(heap) : owner'[y] = null}
  BY <1>5, MapsTo
<1>7. Loose(heap)' = Loose(heap) \ {x}
  BY <1>1, <1>6, ListedNotLoose DEF ListInv, Owners, Loose
<1>8. x \notin SL!Placed
  BY <1>1, PlacedAre
<1> QED
  BY <1>2, <1>3, <1>5, <1>6, <1>7, <1>8 DEF SL!Push, Loose

\* insert() puts the new element beside the one given, in either direction.
LEMMA InsertStep ==
  ASSUME ListInv, NEW l \in List, NEW x \in Elem, NEW y \in Elem, NEW d \in Direction,
         DoInsert(l, x, y, d)
  PROVE  ListInv' /\ SL!Insert(l, x, y, d)
<1> USE ListOpsAssumption
<1> DEFINE q == Chain(heap, l)
<1>1. /\ owner[x] = l /\ owner[y] = null /\ heap' = Insert(heap, l, x, y, d)
      /\ owner' = [owner EXCEPT ![y] = l] /\ owner \in Owners
  BY InStorage DEF DoInsert, Puts, ListInv
<1>2. /\ q = Chain(heap, l) /\ q \in Seq(Elem)
      /\ \A i, j \in 1..Len(q) : q[i] = q[j] => i = j
      /\ SL!Range(q) = {e \in Elem : owner[e] = l}
  BY ListIs
<1>3. PICK i \in 1..Len(q) : q[i] = x
  BY <1>1, HasPlace
<1> DEFINE p == InsertAt(q, IF d = forward THEN i + 1 ELSE i, y)
<1>4. p = SL!Beside(q, x, y, d)
  BY <1>2, <1>3, PlacesAre
<1>5. p = InsertAt(q, IF d = forward THEN i + 1 ELSE i, y)
  OBVIOUS
<1> HIDE DEF p, q
<1>6. ListInv' /\ Becomes(heap, heap', l, p)
  <2>1. Sound(heap, owner)
    BY DEF ListInv
  <2>2. /\ Sound(Insert(heap, l, q[i], y, d), [owner EXCEPT ![y] = l])
        /\ Becomes(heap, Insert(heap, l, q[i], y, d), l,
                   InsertAt(q, IF d = forward THEN i + 1 ELSE i, y))
    BY <1>1, <1>2, <2>1, InsertSound
  <2> QED
    BY <1>1, <1>3, <1>5, <2>2 DEF ListInv
<1>7. /\ [k \in List |-> Chain(heap, k)]'
           = [[k \in List |-> Chain(heap, k)] EXCEPT ![l] = p]
      /\ Loose(heap)' = {e \in Loose(heap) : owner'[e] = null}
  BY <1>6, MapsTo
<1>8. Loose(heap)' = Loose(heap) \ {y}
  BY <1>1, <1>7, ListedNotLoose DEF ListInv, Owners, Loose
<1>9. y \notin SL!Placed
  BY <1>1, PlacedAre
<1> QED
  BY <1>1, <1>2, <1>4, <1>6, <1>7, <1>8, <1>9 DEF SL!Insert, Loose

\* The two removals: the i-th element is taken out of a list.
LEMMA TakenStep ==
  ASSUME ListInv, ListInv', NEW l \in List, NEW q, q = Chain(heap, l),
         NEW i \in 1..Len(q), owner' = [owner EXCEPT ![q[i]] = null],
         Becomes(heap, heap', l, RemoveAt(q, i))
  PROVE  /\ [k \in List |-> Chain(heap, k)]'
              = [[k \in List |-> Chain(heap, k)] EXCEPT ![l] = RemoveAt(q, i)]
         /\ Loose(heap)' = Loose(heap)
         /\ SL!RemoveElem(l, q[i])
<1> DEFINE p == RemoveAt(q, i)
<1>1. /\ q \in Seq(Elem) /\ q[i] \in Elem /\ owner[q[i]] = l
      /\ \A j, k \in 1..Len(q) : q[j] = q[k] => j = k
      /\ SL!Range(q) = {e \in Elem : owner[e] = l}
  BY ListIs
<1>2. RemoveAt(q, SL!PlaceOf(q, q[i])) = p
  <2>1. forward \in Direction
    BY DEF Direction
  <2> QED
    BY <1>1, <2>1, PlacesAre
<1>3. SL!RemoveAt(q, SL!PlaceOf(q, q[i])) = p
  BY <1>2, SameOperators
<1> HIDE DEF p
<1>4. Becomes(heap, heap', l, p)
  BY DEF p
<1>5. /\ [k \in List |-> Chain(heap, k)]'
           = [[k \in List |-> Chain(heap, k)] EXCEPT ![l] = p]
      /\ Loose(heap)' = {e \in Loose(heap) : owner'[e] = null}
  BY <1>4, MapsTo
<1>6. Loose(heap)' = Loose(heap)
  BY <1>1, <1>5, ListedNotLoose, InStorage DEF ListInv, Owners, Loose
<1> QED
  BY <1>1, <1>3, <1>5, <1>6 DEF SL!RemoveElem, Loose, p

\* remove_forward() takes out the element after the one given.
LEMMA RemoveForwardStep ==
  ASSUME ListInv, NEW l \in List, NEW x \in Elem, DoRemoveForward(l, x)
  PROVE  ListInv' /\ SL!RemoveElem(l, heap.next[x])
<1> USE ListOpsAssumption
<1> DEFINE q == Chain(heap, l)
<1>1. /\ owner[x] = l /\ heap.next[x] # null /\ heap' = RemoveForward(heap, l, x)
      /\ owner' = [owner EXCEPT ![heap.next[x]] = null]
  BY DEF DoRemoveForward, Takes
<1>2. q = Chain(heap, l)
  OBVIOUS
<1> HIDE DEF q
<1>3. PICK i \in 1..Len(q) : q[i] = x
  BY <1>1, <1>2, HasPlace
<1> DEFINE k == i + 1
<1>4. /\ k \in 1..Len(q) /\ heap.next[x] = q[k]
      /\ Sound(RemoveForward(heap, l, x), [owner EXCEPT ![q[k]] = null])
      /\ Becomes(heap, RemoveForward(heap, l, x), l, RemoveAt(q, k))
  <2>1. Sound(heap, owner)
    BY DEF ListInv
  <2>2. heap.next[q[i]] # null
    BY <1>1, <1>3
  <2>3. /\ i + 1 \in 1..Len(q) /\ heap.next[q[i]] = q[i + 1]
        /\ Sound(RemoveForward(heap, l, q[i]), [owner EXCEPT ![q[i + 1]] = null])
        /\ Becomes(heap, RemoveForward(heap, l, q[i]), l, RemoveAt(q, i + 1))
    <3>1. i \in 1..Len(q)
      BY <1>3
    <3>2. i + 1 \in 1..Len(q) /\ heap.next[q[i]] = q[i + 1]
      <4>1. /\ Len(q) \in Nat
            /\ heap.next[q[i]] = IF i < Len(q) THEN q[i + 1] ELSE null
        BY <1>2, <2>1, <3>1, ChainIs
      <4> QED
        BY <2>2, <3>1, <4>1
    <3>3. Sound(RemoveForward(heap, l, q[i]), [owner EXCEPT ![q[i + 1]] = null])
      BY <1>2, <2>1, <2>2, <3>1, RemoveForwardSound
    <3>4. Becomes(heap, RemoveForward(heap, l, q[i]), l, RemoveAt(q, i + 1))
      BY <1>2, <2>1, <2>2, <3>1, RemoveForwardSound
    <3> QED
      BY <3>2, <3>3, <3>4
  <2>4. k = i + 1
    OBVIOUS
  <2> HIDE DEF k
  <2>5. /\ k \in 1..Len(q) /\ heap.next[q[i]] = q[k]
        /\ Sound(RemoveForward(heap, l, q[i]), [owner EXCEPT ![q[k]] = null])
        /\ Becomes(heap, RemoveForward(heap, l, q[i]), l, RemoveAt(q, k))
    BY <2>3, <2>4
  <2> QED
    BY <1>3, <2>5
<1> HIDE DEF k
<1>5. ListInv' /\ Becomes(heap, heap', l, RemoveAt(q, k))
  BY <1>1, <1>4 DEF ListInv
<1>6. SL!RemoveElem(l, q[k])
  BY <1>1, <1>2, <1>4, <1>5, TakenStep
<1> QED
  BY <1>4, <1>5, <1>6

\* remove() takes out the element given.
LEMMA RemoveStep ==
  ASSUME ListInv, NEW l \in List, NEW x \in Elem, DoRemove(l, x)
  PROVE  ListInv' /\ SL!RemoveElem(l, x)
<1> USE ListOpsAssumption
<1> DEFINE q == Chain(heap, l)
<1>1. /\ owner[x] = l /\ heap' = RemoveElem(heap, l, x)
      /\ owner' = [owner EXCEPT ![x] = null]
  BY DEF DoRemove, Takes
<1>2. q = Chain(heap, l)
  OBVIOUS
<1> HIDE DEF q
<1>3. PICK i \in 1..Len(q) : q[i] = x
  BY <1>1, <1>2, HasPlace
<1>4. ListInv' /\ Becomes(heap, heap', l, RemoveAt(q, i))
  <2>1. Sound(heap, owner)
    BY DEF ListInv
  <2>2. /\ Sound(RemoveElem(heap, l, q[i]), [owner EXCEPT ![q[i]] = null])
        /\ Becomes(heap, RemoveElem(heap, l, q[i]), l, RemoveAt(q, i))
    BY <1>2, <2>1, RemoveElemSound
  <2> QED
    BY <1>1, <1>3, <2>2 DEF ListInv
<1>5. owner' = [owner EXCEPT ![q[i]] = null]
  BY <1>1, <1>3
<1>6. SL!RemoveElem(l, q[i])
  BY <1>2, <1>4, <1>5, TakenStep
<1> QED
  BY <1>3, <1>4, <1>6

\* pop() takes out the element at the end asked for.
LEMMA PopStep ==
  ASSUME ListInv, NEW l \in List, NEW d \in Direction, DoPop(l, d)
  PROVE  ListInv' /\ SL!Pop(l, d)
<1> USE ListOpsAssumption
<1> DEFINE q == Chain(heap, l)
           i == EndPlace(q, d)
<1>1. /\ heap.head[l] # null /\ heap' = Pop(heap, l, d)
      /\ owner' = [owner EXCEPT ![Popped(heap, l, d)] = null]
  BY DEF DoPop, Takes, Empty
<1>2. q = Chain(heap, l) /\ q \in Seq(Elem) /\ q # <<>>
  BY <1>1, ListIs
<1>3. i = EndPlace(q, d)
  OBVIOUS
<1>4. SL!Popped(q, d) = RemoveAt(q, i)
  <2>1. PICK x \in Elem : TRUE
    BY <1>2, LenProperties, EmptySeq, ListIs
  <2> QED
    BY <1>2, <2>1, PlacesAre DEF EndPlace
<1> HIDE DEF i, q
<1>5. /\ i \in 1..Len(q) /\ Popped(heap, l, d) = q[i]
      /\ Sound(Pop(heap, l, d), [owner EXCEPT ![q[i]] = null])
      /\ Becomes(heap, Pop(heap, l, d), l, RemoveAt(q, i))
  <2>1. Sound(heap, owner)
    BY DEF ListInv
  <2>2. l \in List /\ d \in Direction /\ q = Chain(heap, l) /\ heap.head[l] # null
    BY <1>1, <1>2
  <2> QED
    BY <1>3, <2>1, <2>2, PopSound
<1>6. ListInv' /\ Becomes(heap, heap', l, RemoveAt(q, i))
  BY <1>1, <1>5 DEF ListInv
<1>7. /\ [k \in List |-> Chain(heap, k)]'
           = [[k \in List |-> Chain(heap, k)] EXCEPT ![l] = RemoveAt(q, i)]
      /\ Loose(heap)' = Loose(heap)
  BY <1>1, <1>2, <1>5, <1>6, TakenStep
<1> QED
  BY <1>2, <1>4, <1>6, <1>7 DEF SL!Pop, Loose

\* purge() leaves the empty sequence.
LEMMA PurgeStep ==
  ASSUME ListInv, NEW l \in List, DoPurge(l)
  PROVE  ListInv' /\ SL!Purge(l)
<1> USE ListOpsAssumption
<1>1. /\ heap' = Purge(heap, l) /\ owner \in Owners
      /\ owner' = [x \in Elem |-> IF owner[x] = l THEN null ELSE owner[x]]
  BY InStorage DEF DoPurge, ListInv
<1>2. ListInv' /\ Becomes(heap, heap', l, <<>>)
  BY <1>1, PurgeSound DEF ListInv
<1>3. /\ [k \in List |-> Chain(heap, k)]'
           = [[k \in List |-> Chain(heap, k)] EXCEPT ![l] = <<>>]
      /\ Loose(heap)' = {e \in Loose(heap) : owner'[e] = null}
  BY <1>2, MapsTo
<1>4. Loose(heap)' = Loose(heap)
  BY <1>1, <1>3, ListedNotLoose DEF ListInv, Owners, Loose
<1> QED
  BY <1>2, <1>3, <1>4 DEF SL!Purge, Loose

\* make_detached() changes no sequence.
LEMMA MakeDetachedStep ==
  ASSUME ListInv, NEW x \in Elem, DoMakeDetached(x)
  PROVE  ListInv' /\ SL!MakeDetached(x)
<1> USE ListOpsAssumption
<1>1. owner[x] = null /\ heap' = MakeDetached(heap, x) /\ owner' = owner
  BY DEF DoMakeDetached
<1>2. ListInv' /\ \A l \in List : Chain(heap', l) = Chain(heap, l)
  BY <1>1, MakeDetachedSound DEF ListInv
<1>3. x \notin SL!Placed
  BY <1>1, PlacedAre
<1>4. Loose(heap)' = Loose(heap) \cup {x}
  BY <1>1, InStorage DEF ListInv, Loose, IsDetached, MakeDetached, Storage
<1>5. [k \in List |-> Chain(heap, k)]' = [k \in List |-> Chain(heap, k)]
  BY <1>2
<1> QED
  BY <1>2, <1>3, <1>4, <1>5 DEF SL!MakeDetached, Loose

-----------------------------------------------------------------------------
\* Whatever the caller does next keeps the lists, and is a step on sequences.
LEMMA NextStep ==
  ASSUME ListInv, [Next]_vars
  PROVE  ListInv' /\ OperationsMatch /\ [SL!Next]_(SL!listVars)
<1>1. ASSUME Next PROVE ListInv' /\ SL!Next
  <2> USE <1>1
  <2>1. ASSUME NEW x \in Elem, DoMakeDetached(x) PROVE ListInv' /\ SL!Next
    BY <2>1, MakeDetachedStep DEF SL!Next
  <2>2. ASSUME NEW l \in List, NEW x \in Elem, NEW y \in Elem, NEW d \in Direction,
               DoInsert(l, x, y, d)
        PROVE  ListInv' /\ SL!Next
    BY <2>2, InsertStep, SameOperators DEF SL!Next
  <2>3. ASSUME NEW l \in List, NEW x \in Elem, NEW d \in Direction, DoPush(l, x, d)
        PROVE  ListInv' /\ SL!Next
    BY <2>3, PushStep, SameOperators DEF SL!Next
  <2>4. ASSUME NEW l \in List, NEW x \in Elem, DoRemoveForward(l, x)
        PROVE  ListInv' /\ SL!Next
    <3>1. heap.next[x] \in Elem
      BY <2>4, InStorage DEF ListInv, DoRemoveForward, Handle
    <3> QED
      BY <2>4, <3>1, RemoveForwardStep DEF SL!Next
  <2>5. ASSUME NEW l \in List, NEW x \in Elem, DoRemove(l, x) PROVE ListInv' /\ SL!Next
    BY <2>5, RemoveStep DEF SL!Next
  <2>6. ASSUME NEW l \in List, NEW d \in Direction, DoPop(l, d) PROVE ListInv' /\ SL!Next
    BY <2>6, PopStep, SameOperators DEF SL!Next
  <2>7. ASSUME NEW l \in List, DoPurge(l) PROVE ListInv' /\ SL!Next
    BY <2>7, PurgeStep DEF SL!Next
  <2> QED
    BY <2>1, <2>2, <2>3, <2>4, <2>5, <2>6, <2>7 DEF Next
<1>2. ASSUME UNCHANGED vars PROVE ListInv' /\ UNCHANGED SL!listVars
  BY <1>2 DEF vars, ListInv, SL!listVars
<1>3. OperationsMatch
  BY PushStep, InsertStep, RemoveStep, RemoveForwardStep, PopStep, PurgeStep,
     MakeDetachedStep DEF OperationsMatch
<1> QED
  BY <1>1, <1>2, <1>3

\* The lists are always as the calling code has built them.
THEOREM ListsSound == Spec => []ListInv
<1>1. Init => ListInv
  BY InitSound
<1>2. ListInv /\ [Next]_vars => ListInv'
  BY NextStep
<1> QED
  BY <1>1, <1>2, PTL DEF Spec

\* A stored tail is the element the links lead to last, for every list of a
\* class with store_tail and after any calls.
THEOREM TailIsLastHolds == Spec => []TailIsLast
<1>1. ListInv => TailIsLast
  BY StartReverse, ListOpsAssumption DEF ListInv, TailIsLast
<1> QED
  BY <1>1, ListsSound, PTL

\* The links from a head come by exactly the elements the caller has put in
\* the list, and to an end.
THEOREM ChainIsContentsHolds == Spec => []ChainIsContents
<1>1. ASSUME ListInv PROVE ChainIsContents
  <2> SUFFICES ASSUME NEW l \in List
               PROVE  /\ Visited(heap, l) = Contents(l)
                      /\ Contents(l) # {} => \E x \in Contents(l) : heap.next[x] = null
    BY <1>1, TypeFromInv DEF ChainIsContents
  <2>1. Visited(heap, l) = Contents(l)
    BY <1>1, VisitedIsList DEF ListInv, Contents
  <2>2. ASSUME NEW x \in Elem, owner[x] = l PROVE heap.head[l] # null
    <3>1. PICK i \in 1..Len(Chain(heap, l)) : Chain(heap, l)[i] = x
      BY <1>1, <2>2, HasPlace
    <3> QED
      BY <1>1, <3>1, ChainIs DEF ListInv
  <2>3. heap.head[l] # null =>
          LastOf(heap, l) \in Contents(l) /\ heap.next[LastOf(heap, l)] = null
    BY <1>1, LastIsLast DEF ListInv, Contents
  <2> QED
    BY <2>1, <2>2, <2>3 DEF Contents
<1> QED
  BY <1>1, ListsSound, PTL

\* The singly linked lists are sequences, each operation the one on sequences it
\* stands for, for any number of lists and elements, with and without tails.
THEOREM RefinesSequenceList == Spec => ImplementsSequenceList
<1>1. Init => SL!Init
  BY FreshSound DEF Init, SL!Init
<1>2. ListInv /\ [Next]_vars => [SL!Next]_(SL!listVars) /\ [OperationsMatch]_vars
  BY NextStep
<1> QED
  BY <1>1, <1>2, ListsSound, PTL DEF Spec, SL!Spec, ImplementsSequenceList
=============================================================================
