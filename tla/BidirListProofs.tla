-------------------------- MODULE BidirListProofs ---------------------------
(* The doubly linked lists of bidir_list.h, for any number of lists and      *)
(* elements, and whatever the unused links hold: along either direction each *)
(* list is a path of the links, the path in reverse is the mirror image of   *)
(* the one forward, and on it are the elements the caller has put in.  Every *)
(* operation puts one element in at a place of both paths, takes one out, or *)
(* drops all of them, so the lists implement sequences; that the ends and    *)
(* the links agree, and that no element in a list leads to itself, follows.  *)
EXTENDS BidirList, FiniteSetTheorems, SequenceTheorems, TLAPS

\* What is proved of paths and sequences in ListProofs, where no element, list or
\* storage has part in it.
LP == INSTANCE ListProofs WITH Elem <- {}, StoreTail <- {}, heap <- links

\* The links of one direction.
Along(lk, d) == [x \in Elem |-> lk[x][d]]

\* With the heads h and the links lk, a walk of l in direction d visits q.
IsWalk(h, lk, l, d, q) == LP!IsPath(q, Elem, Along(lk, d), h[l][d])

HasElements(own, l, q) == Range(q) = {x \in Elem : own[x] = l}

\* In direction d the list l is p, in the other one the mirror image.
Line(h, lk, own, l, d, p) ==
  IsWalk(h, lk, l, d, p) /\ IsWalk(h, lk, l, 1 - d, Reverse(p)) /\ HasElements(own, l, p)

Forward(h, lk, l) == Path(Elem, Along(lk, forward), h[l][forward])

Types(h, lk, own) ==
  /\ h \in [List -> [Direction -> Handle]]
  /\ lk \in [Elem -> [Direction -> Handle]]
  /\ own \in [Elem -> List \union {null}]

\* The heads and the links hold the lists in which the elements are as own says.
Sound(h, lk, own) ==
  Types(h, lk, own) /\ \A l \in List : Line(h, lk, own, l, forward, Forward(h, lk, l))

\* The list l becomes p, all others stay, and so do the links of the elements
\* in no list.
Becomes(h, lk, g, mk, o, l, p) ==
  /\ Forward(g, mk, l) = p
  /\ \A k \in List : k # l => Forward(g, mk, k) = Forward(h, lk, k)
  /\ \A x \in Elem : o[x] = null => mk[x][forward] = lk[x][forward]

-----------------------------------------------------------------------------
\* The assumptions of ListProofs on the elements it is used with.
LEMMA NoElements ==
  /\ null \notin {} /\ null \notin List /\ LP!IsFiniteSet({}) /\ {} \subseteq List
<1>1. \E seq \in Seq({}) : \A x \in {} : \E n \in 1..Len(seq) : seq[n] = x
  BY EmptySeq
<1>2. LP!IsFiniteSet({})
  BY <1>1 DEF LP!IsFiniteSet
<1> QED
  BY <1>2, ListAssumption

\* The operators have the same names there.
LEMMA PathOperators ==
  /\ \A q : LP!Range(q) = Range(q) /\ LP!Reverse(q) = Reverse(q) /\ LP!Front(q) = Front(q)
  /\ \A q, i, x : LP!InsertAt(q, i, x) = InsertAt(q, i, x)
  /\ \A q, i : LP!RemoveAt(q, i) = RemoveAt(q, i)
  /\ \A Node, next, first : LP!Path(Node, next, first) = Path(Node, next, first)
  BY DEF Range, LP!Range, Reverse, LP!Reverse, Front, LP!Front, InsertAt, LP!InsertAt,
         RemoveAt, LP!RemoveAt, Path, LP!Path, Onward, LP!Onward, Closed, LP!Closed,
         Cardinality, LP!Cardinality, IsFiniteSet, LP!IsFiniteSet

\* A path is the only one from its first node.
LEMMA PathIs ==
    ASSUME NEW Node, NEW next, NEW first, NEW q, LP!IsPath(q, Node, next, first)
    PROVE  Path(Node, next, first) = q
  BY NoElements, PathOperators, LP!PathIs

\* Two sequences of the same length and elements are the same.
LEMMA SameSequence ==
    ASSUME NEW S, NEW p \in Seq(S), NEW q \in Seq(S), Len(p) = Len(q),
           \A i \in 1..Len(q) : p[i] = q[i]
    PROVE  p = q
  BY NoElements, PathOperators, LP!SameSequence

\* The ends of a sequence.
LEMMA EndsAre ==
    ASSUME NEW S, NEW q \in Seq(S), NEW y \in S
    PROVE  /\ <<y>> \o q = InsertAt(q, 1, y)
           /\ Append(q, y) = InsertAt(q, Len(q) + 1, y)
           /\ q # <<>> => Tail(q) = RemoveAt(q, 1) /\ Front(q) = RemoveAt(q, Len(q))
  BY NoElements, PathOperators, LP!EndsAre

\* The nodes of a sequence.
LEMMA RangeIs ==
    ASSUME NEW S, NEW q \in Seq(S)
    PROVE  Range(q) = {q[i] : i \in 1..Len(q)}
  BY NoElements, PathOperators, LP!RangeIs

\* What is put in or taken out, and nothing else, is more or less in it.
LEMMA RangeInserted ==
    ASSUME NEW S, NEW q \in Seq(S), NEW i \in 1..(Len(q) + 1), NEW y \in S
    PROVE  Range(InsertAt(q, i, y)) = Range(q) \cup {y}
  BY NoElements, PathOperators, LP!RangeInserted

\* With no element twice, one taken out is in the sequence no more.
LEMMA RangeRemoved ==
    ASSUME NEW S, NEW q \in Seq(S), NEW i \in 1..Len(q),
           \A j, k \in 1..Len(q) : q[j] = q[k] => j = k
    PROVE  Range(RemoveAt(q, i)) = Range(q) \ {q[i]}
  BY NoElements, PathOperators, LP!RangeRemoved

\* A mirror image of a sequence is changed at the place seen from the other end.
LEMMA ReversedIs ==
    ASSUME NEW S, NEW q \in Seq(S)
    PROVE  /\ Reverse(q) \in Seq(S) /\ Len(Reverse(q)) = Len(q)
           /\ \A j \in 1..Len(q) : Reverse(q)[j] = q[Len(q) - j + 1]
  BY NoElements, PathOperators, LP!ReversedIs

\* The mirror image of an insertion is one at the mirrored place.
LEMMA MirrorInsert ==
    ASSUME NEW S, NEW q \in Seq(S), NEW i \in 1..(Len(q) + 1), NEW y \in S
    PROVE  Reverse(InsertAt(q, i, y)) = InsertAt(Reverse(q), Len(q) - i + 2, y)
  BY NoElements, PathOperators, LP!MirrorInsert

\* The mirror image of a removal is one at the mirrored place.
LEMMA MirrorRemove ==
    ASSUME NEW S, NEW q \in Seq(S), NEW i \in 1..Len(q)
    PROVE  Reverse(RemoveAt(q, i)) = RemoveAt(Reverse(q), Len(q) - i + 1)
  BY NoElements, PathOperators, LP!MirrorRemove

\* Put after the i-th node of a path, or first if i is 0, a node is its next.
LEMMA PathInsert ==
    ASSUME NEW Node, NEW next, NEW first, NEW q, LP!IsPath(q, Node, next, first),
           NEW y \in Node, y \notin Range(q), NEW i \in 0..Len(q), NEW n, NEW f,
           IF i = 0 THEN f = y /\ n[y] = first
           ELSE f = first /\ n[q[i]] = y /\ n[y] = next[q[i]],
           \A j \in 1..Len(q) : j # i => n[q[j]] = next[q[j]]
    PROVE  LP!IsPath(InsertAt(q, i + 1, y), Node, n, f)
  BY NoElements, PathOperators, LP!PathInsert

\* With the i-th node of a path left out the rest of it is a path.
LEMMA PathRemove ==
    ASSUME NEW Node, NEW next, NEW first, NEW q, LP!IsPath(q, Node, next, first),
           NEW i \in 1..Len(q), NEW n, NEW f,
           IF i = 1 THEN f = next[q[1]] ELSE f = first /\ n[q[i - 1]] = next[q[i]],
           \A j \in 1..Len(q) : j # i /\ j # i - 1 => n[q[j]] = next[q[j]]
    PROVE  LP!IsPath(RemoveAt(q, i), Node, n, f)
  BY NoElements, PathOperators, LP!PathRemove

\* Where its links stay as they are a path does too.
LEMMA PathSame ==
    ASSUME NEW Node, NEW next, NEW first, NEW q, LP!IsPath(q, Node, next, first),
           NEW n, \A x \in Range(q) : n[x] = next[x]
    PROVE  LP!IsPath(q, Node, n, first)
  BY NoElements, PathOperators, LP!PathSame

\* A null pointer starts the path of no nodes.
LEMMA PathEmpty ==
    ASSUME NEW Node, NEW next, NEW first, first \notin Node
    PROVE  LP!IsPath(<<>>, Node, next, first)
  BY NoElements, PathOperators, LP!PathEmpty

\* Every node of a path has its place in it, and the path starts and ends there.
LEMMA PathPlaces ==
    ASSUME NEW Node, NEW next, NEW first, NEW q, LP!IsPath(q, Node, next, first)
    PROVE  /\ q \in Seq(Node) /\ Len(q) \in Nat
           /\ Range(q) = {q[i] : i \in 1..Len(q)} /\ Range(q) \subseteq Node
           /\ \A x \in Range(q) : \E i \in 1..Len(q) : q[i] = x
           /\ \A i \in 1..Len(q) : q[i] \in Range(q)
           /\ q = <<>> <=> Len(q) = 0
           /\ q = <<>> <=> Range(q) = {}
           /\ q = <<>> <=> first \notin Node
  BY NoElements, PathOperators, LP!PathPlaces

-----------------------------------------------------------------------------
\* There are two directions.
LEMMA Directions ==
  /\ forward \in Direction /\ reverse \in Direction
  /\ \A d \in Direction : 1 - d \in Direction /\ 1 - (1 - d) = d /\ 1 - d # d
  /\ \A d, e \in Direction : e = d \/ e = 1 - d
  BY DEF Direction, forward, reverse

\* The mirror image of a mirror image.
LEMMA ReversedTwice ==
  ASSUME NEW S, NEW q \in Seq(S)
  PROVE  Reverse(Reverse(q)) = q /\ Range(Reverse(q)) = Range(q)
<1> DEFINE r == Reverse(q)
<1>1. /\ r \in Seq(S) /\ Len(r) = Len(q) /\ Len(q) \in Nat
      /\ \A j \in 1..Len(q) : r[j] = q[Len(q) - j + 1]
  BY ReversedIs, LenProperties
<1> HIDE DEF r
<1>2. /\ Reverse(r) \in Seq(S) /\ Len(Reverse(r)) = Len(q)
      /\ \A j \in 1..Len(q) : Reverse(r)[j] = r[Len(q) - j + 1]
  BY <1>1, ReversedIs
<1>3. ASSUME NEW j \in 1..Len(q)
      PROVE  /\ Len(q) - j + 1 \in 1..Len(q)
             /\ r[Len(q) - j + 1] = q[j] /\ r[j] = q[Len(q) - j + 1]
  <2>1. Len(q) - j + 1 \in 1..Len(q) /\ Len(q) - (Len(q) - j + 1) + 1 = j
    BY <1>1
  <2> QED
    BY <1>1, <2>1
<1>4. Reverse(r) = q
  BY <1>1, <1>2, <1>3, SameSequence
<1>5. Range(r) = {r[j] : j \in 1..Len(q)} /\ Range(q) = {q[j] : j \in 1..Len(q)}
  BY <1>1, RangeIs
<1>6. Range(r) = Range(q)
  BY <1>3, <1>5, SMTT(60)
<1> QED
  BY <1>4, <1>6 DEF r

\* A list read the other way.
LEMMA LineTurned ==
  ASSUME NEW h, NEW lk, NEW own, NEW l \in List, NEW d \in Direction, NEW p,
         Line(h, lk, own, l, d, p)
  PROVE  Line(h, lk, own, l, 1 - d, Reverse(p))
<1>1. p \in Seq(Elem)
  BY DEF Line, IsWalk, LP!IsPath
<1>2. Reverse(Reverse(p)) = p /\ Range(Reverse(p)) = Range(p)
  BY <1>1, ReversedTwice
<1>3. 1 - (1 - d) = d
  BY Directions
<1> QED
  BY <1>2, <1>3 DEF Line, HasElements

\* A walk, place by place.
LEMMA WalkIs ==
  ASSUME NEW h, NEW lk, NEW own, Types(h, lk, own), NEW l \in List, NEW d \in Direction,
         NEW p, IsWalk(h, lk, l, d, p)
  PROVE  /\ p \in Seq(Elem) /\ Len(p) \in Nat
         /\ \A i \in 1..Len(p) : /\ p[i] \in Elem
                                 /\ lk[p[i]][d] = IF i < Len(p) THEN p[i + 1] ELSE null
         /\ \A i, j \in 1..Len(p) : p[i] = p[j] => i = j
         /\ Range(p) = {p[i] : i \in 1..Len(p)}
         /\ p = <<>> <=> Len(p) = 0
         /\ h[l][d] = IF p = <<>> THEN null ELSE p[1]
<1> USE ListAssumption
<1>1. LP!IsPath(p, Elem, Along(lk, d), h[l][d])
  BY DEF IsWalk
<1>2. h[l][d] \in Handle /\ \A x \in Elem : Along(lk, d)[x] = lk[x][d] /\ lk[x][d] \in Handle
  BY DEF Types, Along
<1>3. /\ p \in Seq(Elem) /\ Len(p) \in Nat
      /\ Range(p) = {p[i] : i \in 1..Len(p)}
      /\ p = <<>> <=> Len(p) = 0
      /\ \A i \in 1..Len(p) : p[i] \in Elem
  BY <1>1, PathPlaces
<1>4. ASSUME NEW i \in 1..Len(p)
      PROVE  lk[p[i]][d] = IF i < Len(p) THEN p[i + 1] ELSE null
  <2>1. IF i < Len(p) THEN Along(lk, d)[p[i]] = p[i + 1] ELSE Along(lk, d)[p[i]] \notin Elem
    BY <1>1 DEF LP!IsPath
  <2> QED
    BY <1>2, <1>3, <2>1 DEF Handle
<1>5. h[l][d] = IF p = <<>> THEN null ELSE p[1]
  BY <1>1, <1>2 DEF LP!IsPath, Handle
<1> QED
  BY <1>1, <1>3, <1>4, <1>5 DEF LP!IsPath

\* A list, place by place in both directions.
LEMMA LineIs ==
  ASSUME NEW h, NEW lk, NEW own, Types(h, lk, own), NEW l \in List, NEW d \in Direction,
         NEW p, Line(h, lk, own, l, d, p)
  PROVE  /\ p \in Seq(Elem) /\ Len(p) \in Nat
         /\ \A i \in 1..Len(p) : /\ p[i] \in Elem /\ own[p[i]] = l
                                 /\ lk[p[i]][d] = IF i < Len(p) THEN p[i + 1] ELSE null
                                 /\ lk[p[i]][1 - d] = IF i > 1 THEN p[i - 1] ELSE null
         /\ \A x \in Elem : own[x] = l => \E i \in 1..Len(p) : p[i] = x
         /\ \A i, j \in 1..Len(p) : p[i] = p[j] => i = j
         /\ Range(p) = {x \in Elem : own[x] = l}
         /\ p = <<>> <=> Len(p) = 0
         /\ h[l][d] = IF Len(p) = 0 THEN null ELSE p[1]
         /\ h[l][1 - d] = IF Len(p) = 0 THEN null ELSE p[Len(p)]
<1> DEFINE r == Reverse(p)
<1>1. /\ p \in Seq(Elem) /\ Len(p) \in Nat
      /\ \A i \in 1..Len(p) : /\ p[i] \in Elem
                              /\ lk[p[i]][d] = IF i < Len(p) THEN p[i + 1] ELSE null
      /\ \A i, j \in 1..Len(p) : p[i] = p[j] => i = j
      /\ Range(p) = {p[i] : i \in 1..Len(p)}
      /\ p = <<>> <=> Len(p) = 0
      /\ h[l][d] = IF p = <<>> THEN null ELSE p[1]
  <2>1. IsWalk(h, lk, l, d, p)
    BY DEF Line
  <2> QED
    BY <2>1, WalkIs
<1>2. /\ r \in Seq(Elem) /\ Len(r) = Len(p)
      /\ \A j \in 1..Len(p) : r[j] = p[Len(p) - j + 1]
  BY <1>1, ReversedIs
<1>3. /\ \A i \in 1..Len(r) : lk[r[i]][1 - d] = IF i < Len(r) THEN r[i + 1] ELSE null
      /\ r = <<>> <=> Len(r) = 0
      /\ h[l][1 - d] = IF r = <<>> THEN null ELSE r[1]
  <2>1. IsWalk(h, lk, l, 1 - d, r) /\ 1 - d \in Direction
    BY Directions DEF Line
  <2> HIDE DEF r
  <2> QED
    BY <2>1, WalkIs
<1> HIDE DEF r
<1>4. ASSUME NEW i \in 1..Len(p)
      PROVE  lk[p[i]][1 - d] = IF i > 1 THEN p[i - 1] ELSE null
  <2> DEFINE j == Len(p) - i + 1
  <2>1. j \in 1..Len(p) /\ Len(p) - j + 1 = i /\ (j < Len(p) <=> i > 1)
    BY <1>1
  <2>2. j < Len(p) => j + 1 \in 1..Len(p) /\ Len(p) - (j + 1) + 1 = i - 1
    BY <1>1
  <2> HIDE DEF j
  <2>3. r[j] = p[i] /\ (j < Len(p) => r[j + 1] = p[i - 1])
    BY <1>2, <2>1, <2>2
  <2> QED
    BY <1>2, <1>3, <2>1, <2>3
<1>5. h[l][1 - d] = IF Len(p) = 0 THEN null ELSE p[Len(p)]
  <2>1. Len(p) # 0 => 1 \in 1..Len(p) /\ Len(p) - 1 + 1 = Len(p)
    BY <1>1
  <2> QED
    BY <1>2, <1>3, <2>1
<1>6. Range(p) = {x \in Elem : own[x] = l}
  BY DEF Line, HasElements
<1> QED
  BY <1>1, <1>4, <1>5, <1>6

-----------------------------------------------------------------------------
\* In direction d alone, y is linked in after the i-th element of p, or first.
PutsIn(h, lk, l, d, p, i, y, g, mk) ==
  /\ IF i = 0 THEN g[l][d] = y /\ mk[y][d] = h[l][d]
     ELSE g[l][d] = h[l][d] /\ mk[y][d] = lk[p[i]][d] /\ mk[p[i]][d] = y
  /\ \A j \in 1..Len(p) : j # i => mk[p[j]][d] = lk[p[j]][d]

\* In direction d alone, the i-th element of p is passed over.
TakesOut(h, lk, l, d, p, i, g, mk) ==
  /\ IF i = 1 THEN g[l][d] = lk[p[1]][d]
     ELSE g[l][d] = h[l][d] /\ mk[p[i - 1]][d] = lk[p[i]][d]
  /\ \A j \in 1..Len(p) : j # i /\ j # i - 1 => mk[p[j]][d] = lk[p[j]][d]

\* From one state to another no list but l changes.
LeavesRest(h, lk, own, g, mk, o, l) ==
  /\ \A k \in List : k # l => g[k] = h[k]
  /\ \A k \in List : k # l => \A x \in Elem : o[x] = k <=> own[x] = k
  /\ \A x \in Elem : own[x] # null /\ own[x] # l => mk[x] = lk[x]
  /\ \A x \in Elem : o[x] = null => mk[x][forward] = lk[x][forward]

\* The walk in one direction gets one element more.
LEMMA PutInWalk ==
  ASSUME NEW h, NEW lk, NEW own, Types(h, lk, own), NEW l \in List, NEW d \in Direction,
         NEW p, IsWalk(h, lk, l, d, p), NEW y \in Elem, y \notin Range(p),
         NEW i \in 0..Len(p), NEW g, NEW mk, PutsIn(h, lk, l, d, p, i, y, g, mk)
  PROVE  IsWalk(g, mk, l, d, InsertAt(p, i + 1, y))
<1>1. p \in Seq(Elem) /\ Len(p) \in Nat /\ \A j \in 1..Len(p) : p[j] \in Elem
  BY WalkIs
<1>2. \A x \in Elem : Along(lk, d)[x] = lk[x][d] /\ Along(mk, d)[x] = mk[x][d]
  BY DEF Along
<1>3. IF i = 0 THEN g[l][d] = y /\ Along(mk, d)[y] = h[l][d]
      ELSE /\ g[l][d] = h[l][d] /\ Along(mk, d)[p[i]] = y
           /\ Along(mk, d)[y] = Along(lk, d)[p[i]]
  <2>1. i # 0 => i \in 1..Len(p)
    BY <1>1
  <2> QED
    BY <1>1, <1>2, <2>1 DEF PutsIn
<1>4. \A j \in 1..Len(p) : j # i => Along(mk, d)[p[j]] = Along(lk, d)[p[j]]
  BY <1>1, <1>2 DEF PutsIn
<1>5. LP!IsPath(p, Elem, Along(lk, d), h[l][d])
  BY DEF IsWalk
<1>6. LP!IsPath(InsertAt(p, i + 1, y), Elem, Along(mk, d), g[l][d])
  BY <1>3, <1>4, <1>5, PathInsert
<1> QED
  BY <1>6 DEF IsWalk

\* The walk in one direction leaves one element out.
LEMMA TakenOutOfWalk ==
  ASSUME NEW h, NEW lk, NEW own, Types(h, lk, own), NEW l \in List, NEW d \in Direction,
         NEW p, IsWalk(h, lk, l, d, p), NEW i \in 1..Len(p), NEW g, NEW mk,
         TakesOut(h, lk, l, d, p, i, g, mk)
  PROVE  IsWalk(g, mk, l, d, RemoveAt(p, i))
<1>1. p \in Seq(Elem) /\ Len(p) \in Nat /\ \A j \in 1..Len(p) : p[j] \in Elem
  BY WalkIs
<1>2. \A x \in Elem : Along(lk, d)[x] = lk[x][d] /\ Along(mk, d)[x] = mk[x][d]
  BY DEF Along
<1>3. IF i = 1 THEN g[l][d] = Along(lk, d)[p[1]]
      ELSE g[l][d] = h[l][d] /\ Along(mk, d)[p[i - 1]] = Along(lk, d)[p[i]]
  <2>1. i # 1 => i - 1 \in 1..Len(p)
    BY <1>1
  <2> QED
    BY <1>1, <1>2, <2>1 DEF TakesOut
<1>4. \A j \in 1..Len(p) : j # i /\ j # i - 1 => Along(mk, d)[p[j]] = Along(lk, d)[p[j]]
  BY <1>1, <1>2 DEF TakesOut
<1>5. LP!IsPath(p, Elem, Along(lk, d), h[l][d])
  BY DEF IsWalk
<1>6. LP!IsPath(RemoveAt(p, i), Elem, Along(mk, d), g[l][d])
  BY <1>3, <1>4, <1>5, PathRemove
<1> QED
  BY <1>6 DEF IsWalk

\* So does the list, when both directions get it.
LEMMA PutInLine ==
  ASSUME NEW h, NEW lk, NEW own, Types(h, lk, own), NEW l \in List, NEW d \in Direction,
         NEW p, Line(h, lk, own, l, d, p), NEW y \in Elem, own[y] = null,
         NEW i \in 0..Len(p), NEW g, NEW mk, PutsIn(h, lk, l, d, p, i, y, g, mk),
         PutsIn(h, lk, l, 1 - d, Reverse(p), Len(p) - i, y, g, mk)
  PROVE  Line(g, mk, [own EXCEPT ![y] = l], l, d, InsertAt(p, i + 1, y))
<1> USE ListAssumption
<1> DEFINE r == Reverse(p)
           k == Len(p) - i
           m == i + 1
           q == InsertAt(p, m, y)
<1>1. /\ p \in Seq(Elem) /\ Len(p) \in Nat /\ Range(p) = {x \in Elem : own[x] = l}
  BY LineIs
<1>2. r \in Seq(Elem) /\ Len(r) = Len(p) /\ Range(r) = Range(p)
  BY <1>1, ReversedIs, ReversedTwice
<1>3. y \notin Range(p) /\ y \notin Range(r)
  BY <1>1, <1>2
<1>4. k \in 0..Len(r) /\ m \in 1..(Len(p) + 1) /\ Len(p) - m + 2 = k + 1
  BY <1>1, <1>2
<1>5. IsWalk(g, mk, l, d, q)
  BY <1>3, PutInWalk DEF Line
<1>6. IsWalk(g, mk, l, 1 - d, InsertAt(r, k + 1, y))
  <2>1. /\ IsWalk(h, lk, l, 1 - d, r) /\ 1 - d \in Direction
        /\ PutsIn(h, lk, l, 1 - d, r, k, y, g, mk)
    BY Directions DEF Line
  <2> HIDE DEF r, k
  <2> QED
    BY <1>3, <1>4, <2>1, PutInWalk
<1> HIDE DEF k, m
<1>7. Reverse(q) = InsertAt(r, k + 1, y)
  BY <1>1, <1>4, MirrorInsert
<1>8. Range(q) = Range(p) \cup {y}
  BY <1>1, <1>4, RangeInserted
<1>9. Types(h, lk, own) => own \in [Elem -> List \union {null}]
  BY DEF Types
<1>10. HasElements([own EXCEPT ![y] = l], l, q)
  <2> HIDE DEF q
  <2> QED
    BY <1>1, <1>8, <1>9 DEF HasElements
<1>11. Line(g, mk, [own EXCEPT ![y] = l], l, d, q)
  BY <1>5, <1>6, <1>7, <1>10 DEF Line
<1> QED
  BY <1>11 DEF m

\* An element is out of a list when both directions pass it over.
LEMMA TakenOutOfLine ==
  ASSUME NEW h, NEW lk, NEW own, Types(h, lk, own), NEW l \in List, NEW d \in Direction,
         NEW p, Line(h, lk, own, l, d, p), NEW i \in 1..Len(p), NEW g, NEW mk,
         TakesOut(h, lk, l, d, p, i, g, mk),
         TakesOut(h, lk, l, 1 - d, Reverse(p), Len(p) - i + 1, g, mk)
  PROVE  Line(g, mk, [own EXCEPT ![p[i]] = null], l, d, RemoveAt(p, i))
<1> USE ListAssumption
<1> DEFINE r == Reverse(p)
           k == Len(p) - i + 1
           q == RemoveAt(p, i)
<1>1. /\ p \in Seq(Elem) /\ Len(p) \in Nat /\ Range(p) = {x \in Elem : own[x] = l}
      /\ \A j, m \in 1..Len(p) : p[j] = p[m] => j = m
      /\ p[i] \in Elem /\ own[p[i]] = l
  BY LineIs
<1>2. r \in Seq(Elem) /\ Len(r) = Len(p)
  BY <1>1, ReversedIs
<1>3. k \in 1..Len(r)
  BY <1>1, <1>2
<1>4. IsWalk(g, mk, l, d, q)
  BY TakenOutOfWalk DEF Line
<1>5. IsWalk(g, mk, l, 1 - d, RemoveAt(r, k))
  <2>1. /\ IsWalk(h, lk, l, 1 - d, r) /\ 1 - d \in Direction
        /\ TakesOut(h, lk, l, 1 - d, r, k, g, mk)
    BY Directions DEF Line
  <2> HIDE DEF r, k
  <2> QED
    BY <1>3, <2>1, TakenOutOfWalk
<1>6. Reverse(q) = RemoveAt(r, k)
  BY <1>1, MirrorRemove
<1>7. Range(q) = Range(p) \ {p[i]}
  BY <1>1, RangeRemoved
<1>8. HasElements([own EXCEPT ![p[i]] = null], l, q)
  <2> HIDE DEF q
  <2> QED
    BY <1>1, <1>7 DEF HasElements, Types
<1> QED
  BY <1>4, <1>5, <1>6, <1>8 DEF Line

\* One list changes: its new line is all there is to know.
LEMMA OneListChanges ==
  ASSUME NEW h, NEW lk, NEW own, Sound(h, lk, own), NEW l \in List,
         NEW g, NEW mk, NEW o, Types(g, mk, o), NEW p, Line(g, mk, o, l, forward, p),
         LeavesRest(h, lk, own, g, mk, o, l)
  PROVE  Sound(g, mk, o) /\ Becomes(h, lk, g, mk, o, l, p)
<1> USE ListAssumption DEF LeavesRest
<1>1. Forward(g, mk, l) = p
  BY PathIs DEF Line, IsWalk, Forward
<1>2. ASSUME NEW k \in List, k # l
      PROVE  /\ Forward(g, mk, k) = Forward(h, lk, k)
             /\ Line(g, mk, o, k, forward, Forward(g, mk, k))
  <2> DEFINE q == Forward(h, lk, k)
  <2>1. Line(h, lk, own, k, forward, q) /\ Types(h, lk, own)
    BY DEF Sound
  <2> HIDE DEF q
  <2>2. /\ q \in Seq(Elem) /\ Range(q) = {x \in Elem : own[x] = k}
    BY <2>1, LineIs, Directions
  <2>3. Range(Reverse(q)) = Range(q)
    BY <2>2, ReversedTwice
  <2>4. g[k] = h[k] /\ \A x \in Range(q) : mk[x] = lk[x]
    BY <1>2, <2>2
  <2>5. ASSUME NEW d \in Direction, NEW r, IsWalk(h, lk, k, d, r), Range(r) = Range(q)
        PROVE  IsWalk(g, mk, k, d, r)
    <3>1. \A x \in Range(r) : Along(mk, d)[x] = Along(lk, d)[x]
      BY <2>2, <2>4, <2>5 DEF Along
    <3>2. LP!IsPath(r, Elem, Along(mk, d), h[k][d])
      BY <2>5, <3>1, PathSame DEF IsWalk
    <3> QED
      BY <2>4, <3>2 DEF IsWalk
  <2>6. IsWalk(g, mk, k, forward, q) /\ IsWalk(g, mk, k, 1 - forward, Reverse(q))
    BY <2>1, <2>3, <2>5, Directions DEF Line
  <2>7. HasElements(o, k, q)
    BY <1>2, <2>2 DEF HasElements
  <2>8. Forward(g, mk, k) = q
    BY <2>6, PathIs DEF IsWalk, Forward
  <2> QED
    BY <2>6, <2>7, <2>8 DEF Line, q
<1>3. \A k \in List : Line(g, mk, o, k, forward, Forward(g, mk, k))
  BY <1>1, <1>2
<1> QED
  BY <1>1, <1>2, <1>3 DEF Sound, Becomes

-----------------------------------------------------------------------------
\* A list as a walk in direction d visits it.
Facing(q, d) == IF d = forward THEN q ELSE Reverse(q)

\* The place the i-th one of n elements has when the list is turned to d.
FacingPlace(i, n, d) == IF d = forward THEN i ELSE n - i + 1

\* Against the direction d, y is linked in before the element of p after the
\* i-th, or last.
PutsBefore(h, lk, l, d, p, i, y, g, mk) ==
  /\ IF i = Len(p) THEN g[l][1 - d] = y /\ mk[y][1 - d] = h[l][1 - d]
     ELSE /\ g[l][1 - d] = h[l][1 - d] /\ mk[y][1 - d] = lk[p[i + 1]][1 - d]
          /\ mk[p[i + 1]][1 - d] = y
  /\ \A j \in 1..Len(p) : j # i + 1 => mk[p[j]][1 - d] = lk[p[j]][1 - d]

\* Against the direction d, the i-th element of p is passed over.
TakesBefore(h, lk, l, d, p, i, g, mk) ==
  /\ IF i = Len(p) THEN g[l][1 - d] = lk[p[i]][1 - d]
     ELSE g[l][1 - d] = h[l][1 - d] /\ mk[p[i + 1]][1 - d] = lk[p[i]][1 - d]
  /\ \A j \in 1..Len(p) : j # i /\ j # i + 1 => mk[p[j]][1 - d] = lk[p[j]][1 - d]

\* That is to put it in after an element of the mirror image.
LEMMA PutsMirrored ==
  ASSUME NEW h, NEW lk, NEW l, NEW d, NEW p \in Seq(Elem), NEW y, NEW i \in 0..Len(p),
         NEW g, NEW mk, PutsBefore(h, lk, l, d, p, i, y, g, mk)
  PROVE  PutsIn(h, lk, l, 1 - d, Reverse(p), Len(p) - i, y, g, mk)
<1> DEFINE r == Reverse(p)
           k == Len(p) - i
<1>1. /\ Len(p) \in Nat /\ r \in Seq(Elem) /\ Len(r) = Len(p)
      /\ \A j \in 1..Len(p) : r[j] = p[Len(p) - j + 1]
  BY ReversedIs, LenProperties
<1> HIDE DEF r
<1>2. k = 0 <=> i = Len(p)
  BY <1>1
<1>3. k # 0 => k \in 1..Len(p) /\ Len(p) - k + 1 = i + 1
  BY <1>1
<1> HIDE DEF k
<1>4. k # 0 => r[k] = p[i + 1]
  BY <1>1, <1>3
<1>5. ASSUME NEW j \in 1..Len(r), j # k PROVE mk[r[j]][1 - d] = lk[r[j]][1 - d]
  <2> DEFINE m == Len(p) - j + 1
  <2>1. m \in 1..Len(p) /\ m # i + 1
    BY <1>1, <1>5 DEF k
  <2>2. r[j] = p[m]
    BY <1>1
  <2> HIDE DEF m
  <2> QED
    BY <2>1, <2>2 DEF PutsBefore
<1> QED
  BY <1>2, <1>4, <1>5 DEF PutsBefore, PutsIn, r, k

\* And to take it out of the mirror image.
LEMMA TakesMirrored ==
  ASSUME NEW h, NEW lk, NEW l \in List, NEW d \in Direction, NEW p \in Seq(Elem),
         NEW i \in 1..Len(p), NEW g, NEW mk, TakesBefore(h, lk, l, d, p, i, g, mk)
  PROVE  TakesOut(h, lk, l, 1 - d, Reverse(p), Len(p) - i + 1, g, mk)
<1> DEFINE r == Reverse(p)
           k == Len(p) - i + 1
<1>1. /\ Len(p) \in Nat /\ r \in Seq(Elem) /\ Len(r) = Len(p)
      /\ \A j \in 1..Len(p) : r[j] = p[Len(p) - j + 1]
  BY ReversedIs, LenProperties
<1> HIDE DEF r
<1>2. k \in 1..Len(p) /\ (k = 1 <=> i = Len(p)) /\ Len(p) - k + 1 = i
  BY <1>1
<1>3. k # 1 => k - 1 \in 1..Len(p) /\ Len(p) - (k - 1) + 1 = i + 1
  BY <1>1
<1> HIDE DEF k
<1>4. r[k] = p[i] /\ (k # 1 => r[k - 1] = p[i + 1])
  BY <1>1, <1>2, <1>3
<1>5. ASSUME NEW j \in 1..Len(r), j # k, j # k - 1
      PROVE  mk[r[j]][1 - d] = lk[r[j]][1 - d]
  <2> DEFINE m == Len(p) - j + 1
  <2>1. m \in 1..Len(p) /\ m # i /\ m # i + 1
    BY <1>1, <1>5 DEF k
  <2>2. r[j] = p[m]
    BY <1>1
  <2> HIDE DEF m
  <2> QED
    BY <2>1, <2>2 DEF TakesBefore
<1>6. IF k = 1 THEN g[l][1 - d] = lk[r[1]][1 - d]
      ELSE g[l][1 - d] = h[l][1 - d] /\ mk[r[k - 1]][1 - d] = lk[r[k]][1 - d]
  BY <1>2, <1>4 DEF TakesBefore
<1>7. TakesOut(h, lk, l, 1 - d, r, k, g, mk)
  BY <1>5, <1>6 DEF TakesOut
<1> QED
  BY <1>7 DEF r, k

\* A sound list is a line in either direction.
LEMMA Faced ==
  ASSUME NEW h, NEW lk, NEW own, Sound(h, lk, own), NEW l \in List, NEW d \in Direction,
         NEW q, q = Forward(h, lk, l)
  PROVE  Line(h, lk, own, l, d, Facing(q, d)) /\ q \in Seq(Elem)
<1>1. Line(h, lk, own, l, forward, q)
  BY DEF Sound
<1>2. q \in Seq(Elem)
  BY <1>1 DEF Line, IsWalk, LP!IsPath
<1>3. d = forward \/ d = 1 - forward
  BY Directions
<1>4. 1 - forward # forward
  BY Directions
<1> QED
  BY <1>1, <1>2, <1>3, <1>4, LineTurned, Directions DEF Facing

\* A line in either direction is one forward.
LEMMA FacedBack ==
  ASSUME NEW h, NEW lk, NEW own, NEW l \in List, NEW d \in Direction, NEW p,
         Line(h, lk, own, l, d, p)
  PROVE  Line(h, lk, own, l, forward, Facing(p, d))
<1>1. d = forward \/ 1 - d = forward
  BY Directions
<1> QED
  BY <1>1, LineTurned DEF Facing

\* The places of a list seen from either end.
LEMMA FacingIs ==
  ASSUME NEW q \in Seq(Elem), NEW d \in Direction
  PROVE  /\ Facing(q, d) \in Seq(Elem) /\ Len(Facing(q, d)) = Len(q)
         /\ Facing(Facing(q, d), d) = q
         /\ \A i \in 1..Len(q) : /\ FacingPlace(i, Len(q), d) \in 1..Len(q)
                                 /\ Facing(q, d)[FacingPlace(i, Len(q), d)] = q[i]
<1>1. /\ Reverse(q) \in Seq(Elem) /\ Len(Reverse(q)) = Len(q) /\ Len(q) \in Nat
      /\ \A j \in 1..Len(q) : Reverse(q)[j] = q[Len(q) - j + 1]
      /\ Reverse(Reverse(q)) = q
  BY ReversedIs, ReversedTwice, LenProperties
<1>2. ASSUME NEW i \in 1..Len(q)
      PROVE  Len(q) - i + 1 \in 1..Len(q) /\ Reverse(q)[Len(q) - i + 1] = q[i]
  <2>1. Len(q) - i + 1 \in 1..Len(q) /\ Len(q) - (Len(q) - i + 1) + 1 = i
    BY <1>1
  <2> QED
    BY <1>1, <2>1
<1> QED
  BY <1>1, <1>2 DEF Facing, FacingPlace

\* Putting in after the i-th element in direction d, seen forward.
LEMMA FacingPut ==
  ASSUME NEW q \in Seq(Elem), NEW d \in Direction, NEW i \in 0..Len(q), NEW y \in Elem
  PROVE  Facing(InsertAt(Facing(q, d), i + 1, y), d)
           = InsertAt(q, IF d = forward THEN i + 1 ELSE Len(q) - i + 1, y)
<1>1. CASE d = forward
  BY <1>1 DEF Facing
<1>2. CASE d # forward
  <2> DEFINE r == Reverse(q)
             m == i + 1
  <2>1. /\ r \in Seq(Elem) /\ Len(r) = Len(q) /\ Len(q) \in Nat /\ Reverse(r) = q
    BY ReversedIs, ReversedTwice, LenProperties
  <2> HIDE DEF r
  <2>2. m \in 1..(Len(r) + 1) /\ Len(r) - m + 2 = Len(q) - i + 1
    BY <2>1
  <2> HIDE DEF m
  <2>3. Reverse(InsertAt(r, m, y)) = InsertAt(q, Len(q) - i + 1, y)
    BY <2>1, <2>2, MirrorInsert
  <2> QED
    BY <1>2, <2>3 DEF Facing, r, m
<1> QED
  BY <1>1, <1>2

\* Taking the i-th element in direction d out, seen forward.
LEMMA FacingTaken ==
  ASSUME NEW q \in Seq(Elem), NEW d \in Direction, NEW i \in 1..Len(q)
  PROVE  Facing(RemoveAt(Facing(q, d), FacingPlace(i, Len(q), d)), d) = RemoveAt(q, i)
<1>1. CASE d = forward
  BY <1>1 DEF Facing, FacingPlace
<1>2. CASE d # forward
  <2> DEFINE r == Reverse(q)
             m == Len(q) - i + 1
  <2>1. /\ r \in Seq(Elem) /\ Len(r) = Len(q) /\ Len(q) \in Nat /\ Reverse(r) = q
    BY ReversedIs, ReversedTwice, LenProperties
  <2> HIDE DEF r
  <2>2. m \in 1..Len(r) /\ Len(r) - m + 1 = i
    BY <2>1
  <2> HIDE DEF m
  <2>3. Reverse(RemoveAt(r, m)) = RemoveAt(q, i)
    BY <2>1, <2>2, MirrorRemove
  <2> QED
    BY <1>2, <2>3 DEF Facing, FacingPlace, r, m
<1> QED
  BY <1>1, <1>2

-----------------------------------------------------------------------------
\* An element is put in after the i-th, in direction d, of a list.
LEMMA PutIn ==
  ASSUME NEW h, NEW lk, NEW own, Sound(h, lk, own), NEW l \in List, NEW d \in Direction,
         NEW q, q = Forward(h, lk, l), NEW p, p = Facing(q, d),
         NEW y \in Elem, own[y] = null, NEW i \in 0..Len(q), NEW g, NEW mk,
         NEW o, o = [own EXCEPT ![y] = l], Types(g, mk, o),
         PutsIn(h, lk, l, d, p, i, y, g, mk), PutsBefore(h, lk, l, d, p, i, y, g, mk),
         LeavesRest(h, lk, own, g, mk, o, l)
  PROVE  /\ Sound(g, mk, o)
         /\ Becomes(h, lk, g, mk, o, l,
                    InsertAt(q, IF d = forward THEN i + 1 ELSE Len(q) - i + 1, y))
<1>1. Line(h, lk, own, l, d, p) /\ q \in Seq(Elem) /\ Types(h, lk, own)
  BY Faced DEF Sound
<1>2. p \in Seq(Elem) /\ Len(p) = Len(q)
  BY <1>1, FacingIs
<1>3. PutsIn(h, lk, l, 1 - d, Reverse(p), Len(p) - i, y, g, mk)
  BY <1>2, PutsMirrored
<1>4. Line(g, mk, o, l, d, InsertAt(p, i + 1, y))
  BY <1>1, <1>2, <1>3, PutInLine
<1>5. Line(g, mk, o, l, forward, Facing(InsertAt(p, i + 1, y), d))
  BY <1>4, FacedBack
<1>6. Facing(InsertAt(p, i + 1, y), d)
        = InsertAt(q, IF d = forward THEN i + 1 ELSE Len(q) - i + 1, y)
  BY <1>1, FacingPut
<1> QED
  BY <1>5, <1>6, OneListChanges

\* The i-th element of a list is taken out; d is the direction it is seen in.
LEMMA TakeOut ==
  ASSUME NEW h, NEW lk, NEW own, Sound(h, lk, own), NEW l \in List, NEW d \in Direction,
         NEW q, q = Forward(h, lk, l), NEW p, p = Facing(q, d), NEW i \in 1..Len(q),
         NEW k, k = FacingPlace(i, Len(q), d), NEW g, NEW mk,
         NEW o, o = [own EXCEPT ![q[i]] = null], Types(g, mk, o),
         TakesOut(h, lk, l, d, p, k, g, mk), TakesBefore(h, lk, l, d, p, k, g, mk),
         LeavesRest(h, lk, own, g, mk, o, l)
  PROVE  Sound(g, mk, o) /\ Becomes(h, lk, g, mk, o, l, RemoveAt(q, i))
<1>1. Line(h, lk, own, l, d, p) /\ q \in Seq(Elem) /\ Types(h, lk, own)
  BY Faced DEF Sound
<1>2. p \in Seq(Elem) /\ Len(p) = Len(q) /\ k \in 1..Len(p) /\ p[k] = q[i]
  BY <1>1, FacingIs
<1>3. TakesOut(h, lk, l, 1 - d, Reverse(p), Len(p) - k + 1, g, mk)
  BY <1>2, TakesMirrored
<1>4. Line(g, mk, o, l, d, RemoveAt(p, k))
  <2>1. Line(g, mk, [own EXCEPT ![p[k]] = null], l, d, RemoveAt(p, k))
    BY <1>1, <1>2, <1>3, TakenOutOfLine
  <2> QED
    BY <1>2, <2>1
<1>5. Line(g, mk, o, l, forward, Facing(RemoveAt(p, k), d))
  BY <1>4, FacedBack
<1>6. Facing(RemoveAt(p, k), d) = RemoveAt(q, i)
  BY <1>1, FacingTaken
<1> QED
  BY <1>5, <1>6, OneListChanges

-----------------------------------------------------------------------------
\* The lists are as the calling code has built them: the inductive invariant.
LinesInv == Sound(head, links, owner)

\* What the operations read.
LEMMA InTypes ==
  ASSUME LinesInv
  PROVE  /\ Types(head, links, owner)
         /\ head \in [List -> [Direction -> Handle]]
         /\ links \in [Elem -> [Direction -> Handle]]
         /\ owner \in [Elem -> List \union {null}]
  BY DEF LinesInv, Sound, Types

\* A list as it is seen in direction d, place by place.
LEMMA SeenIs ==
  ASSUME LinesInv, NEW l \in List, NEW d \in Direction,
         NEW q, q = Forward(head, links, l), NEW p, p = Facing(q, d)
  PROVE  /\ q \in Seq(Elem) /\ p \in Seq(Elem) /\ Len(p) = Len(q) /\ Len(q) \in Nat
         /\ \A i \in 1..Len(p) : /\ p[i] \in Elem /\ owner[p[i]] = l
                                 /\ links[p[i]][d] = IF i < Len(p) THEN p[i + 1] ELSE null
                                 /\ links[p[i]][1 - d] = IF i > 1 THEN p[i - 1] ELSE null
         /\ \A x \in Elem : owner[x] = l => \E i \in 1..Len(p) : p[i] = x
         /\ \A i, j \in 1..Len(p) : p[i] = p[j] => i = j
         /\ Range(p) = {x \in Elem : owner[x] = l}
         /\ p = <<>> <=> Len(p) = 0
         /\ head[l][d] = IF Len(p) = 0 THEN null ELSE p[1]
         /\ head[l][1 - d] = IF Len(p) = 0 THEN null ELSE p[Len(p)]
<1>1. Line(head, links, owner, l, d, p) /\ q \in Seq(Elem)
  BY Faced DEF LinesInv
<1>2. p \in Seq(Elem) /\ Len(p) = Len(q)
  BY <1>1, FacingIs
<1>3. Types(head, links, owner)
  BY InTypes
<1>4. Len(p) \in Nat
  BY <1>2, LenProperties
<1> QED
  BY <1>1, <1>2, <1>3, <1>4, LineIs

\* insert() links the new element in beside another one.
LEMMA InsertSound ==
  ASSUME LinesInv, NEW l \in List, NEW x \in Elem, NEW y \in Elem, NEW d \in Direction,
         Insert(l, x, y, d), NEW q, q = Forward(head, links, l),
         NEW k \in 1..Len(q), q[k] = x
  PROVE  /\ LinesInv'
         /\ Becomes(head, links, head', links', owner', l,
                    InsertAt(q, IF d = forward THEN k + 1 ELSE k, y))
<1> USE ListAssumption
<1> DEFINE p == Facing(q, d)
           i == FacingPlace(k, Len(q), d)
           n == links[x][d]
<1>1. /\ p = Facing(q, d)
      /\ q \in Seq(Elem) /\ p \in Seq(Elem) /\ Len(p) = Len(q) /\ Len(q) \in Nat
      /\ \A j \in 1..Len(p) : /\ p[j] \in Elem /\ owner[p[j]] = l
                              /\ links[p[j]][d] = IF j < Len(p) THEN p[j + 1] ELSE null
                              /\ links[p[j]][1 - d] = IF j > 1 THEN p[j - 1] ELSE null
      /\ \A j, m \in 1..Len(p) : p[j] = p[m] => j = m
      /\ head[l][d] = IF Len(p) = 0 THEN null ELSE p[1]
      /\ head[l][1 - d] = IF Len(p) = 0 THEN null ELSE p[Len(p)]
  BY SeenIs, SMTT(30)
<1>2. i \in 1..Len(p) /\ p[i] = x /\ i \in 0..Len(q)
  BY <1>1, FacingIs
<1>3. (IF d = forward THEN i + 1 ELSE Len(q) - i + 1) = IF d = forward THEN k + 1 ELSE k
  BY <1>1 DEF FacingPlace
<1> HIDE DEF p, i
<1>4. /\ owner[x] = l /\ owner[y] = null /\ x # y /\ owner' = [owner EXCEPT ![y] = l]
      /\ \A j \in 1..Len(p) : p[j] # y
      /\ d \in Direction /\ 1 - d \in Direction /\ 1 - d # d
      /\ \A e \in Direction : e = d \/ e = 1 - d
  BY <1>1, Directions DEF Insert
<1>5. /\ n \in Handle /\ n # y
      /\ IF i = Len(p) THEN n = null
         ELSE n = p[i + 1] /\ i + 1 \in 1..Len(p) /\ n \in Elem /\ links[n][1 - d] = x
  <2>1. i # Len(p) => i < Len(p) /\ i + 1 \in 1..Len(p) /\ i + 1 > 1 /\ (i + 1) - 1 = i
    BY <1>1, <1>2
  <2>2. n = IF i < Len(p) THEN p[i + 1] ELSE null
    BY <1>1, <1>2
  <2> QED
    <3>1. CASE i = Len(p)
      BY <1>1, <1>4, <2>2, <3>1 DEF Handle
    <3>2. CASE i # Len(p)
      BY <1>1, <1>2, <1>4, <2>1, <2>2, <3>2 DEF Handle
    <3> QED
      BY <3>1, <3>2
<1>6. /\ \A e \in Elem : owner'[e] = IF e = y THEN l ELSE owner[e]
      /\ Types(head', links', owner')
  <2>1. owner' = [owner EXCEPT ![y] = l] /\ owner' \in [Elem -> List \cup {null}]
    BY <1>4, InTypes DEF Insert
  <2>2. head' \in [List -> [Direction -> Handle]]
    BY <1>4, InTypes DEF Insert, Handle
  <2>3. links' \in [Elem -> [Direction -> Handle]]
    BY <1>4, <1>5, InTypes DEF Insert, Linked, Handle
  <2> QED
    BY <1>4, <2>1, <2>2, <2>3, InTypes DEF Types
<1>7. /\ links'[y][d] = n /\ links'[y][1 - d] = x
      /\ links'[x][d] = y
      /\ n # null => links'[n][1 - d] = y
      /\ \A e \in Elem : e # y /\ e # x => links'[e][d] = links[e][d]
      /\ \A e \in Elem : e # y /\ e # n => links'[e][1 - d] = links[e][1 - d]
  BY <1>4, <1>5, InTypes, SMTT(60) DEF Insert, Linked, Handle
<1>8. /\ \A e \in Elem : e # y /\ e # x /\ e # n => links'[e] = links[e]
      /\ \A m \in List : m # l => head'[m] = head[m]
      /\ head'[l][d] = head[l][d]
      /\ head'[l][1 - d] = IF n = null THEN y ELSE head[l][1 - d]
  BY <1>4, <1>5, InTypes DEF Insert, Linked, Handle
<1>9. PutsIn(head, links, l, d, p, i, y, head', links')
  <2>1. \A j \in 1..Len(p) : j # i => p[j] \in Elem /\ p[j] # y /\ p[j] # x
    BY <1>1, <1>2, <1>4
  <2>2. i # 0
    BY <1>1, <1>2
  <2> QED
    BY <1>2, <1>7, <1>8, <2>1, <2>2 DEF PutsIn
<1>10. PutsBefore(head, links, l, d, p, i, y, head', links')
  <2>1. ASSUME NEW j \in 1..Len(p), j # i + 1
        PROVE  links'[p[j]][1 - d] = links[p[j]][1 - d]
    <3>1. p[j] \in Elem /\ p[j] # y /\ p[j] # n
      BY <1>1, <1>4, <1>5, <2>1
    <3> QED
      BY <1>7, <3>1
  <2>2. CASE i = Len(p)
    <3>1. n = null /\ head[l][1 - d] = x
      BY <1>1, <1>2, <1>5, <2>2
    <3> QED
      BY <1>7, <1>8, <2>1, <2>2, <3>1 DEF PutsBefore
  <2>3. CASE i # Len(p)
    <3>1. n = p[i + 1] /\ n # null /\ links[n][1 - d] = x
      BY <1>5, <2>3
    <3> QED
      BY <1>7, <1>8, <2>1, <2>3, <3>1 DEF PutsBefore
  <2> QED
    BY <2>2, <2>3
<1>11. LeavesRest(head, links, owner, head', links', owner', l)
  <2>1. n # null => owner[n] = l
    BY <1>1, <1>5
  <2>2. \A e \in Elem : owner[e] # null /\ owner[e] # l => links'[e] = links[e]
    BY <1>4, <1>8, <2>1
  <2>3. \A e \in Elem : owner'[e] = null => links'[e] = links[e]
    BY <1>4, <1>6, <1>8, <2>1
  <2>4. \A m \in List : m # l => \A e \in Elem : owner'[e] = m <=> owner[e] = m
    BY <1>4, <1>6
  <2> QED
    BY <1>8, <2>2, <2>3, <2>4 DEF LeavesRest
<1> HIDE DEF n
<1>12. /\ Sound(head', links', owner')
       /\ Becomes(head, links, head', links', owner', l,
                  InsertAt(q, IF d = forward THEN i + 1 ELSE Len(q) - i + 1, y))
  <2>1. Sound(head, links, owner) /\ p = Facing(q, d) /\ i \in 0..Len(q)
    BY <1>1, <1>2 DEF LinesInv
  <2> QED
    BY <1>4, <1>6, <1>9, <1>10, <1>11, <2>1, PutIn
<1> QED
  BY <1>3, <1>12 DEF LinesInv

\* push() links the new element in before the first.
LEMMA PushSound ==
  ASSUME LinesInv, NEW l \in List, NEW x \in Elem, NEW d \in Direction,
         Push(l, x, d), NEW q, q = Forward(head, links, l)
  PROVE  /\ LinesInv'
         /\ Becomes(head, links, head', links', owner', l,
                    InsertAt(q, IF d = forward THEN 1 ELSE Len(q) + 1, x))
<1> USE ListAssumption
<1> DEFINE p == Facing(q, d)
           n == head[l][d]
<1>1. /\ p = Facing(q, d)
      /\ q \in Seq(Elem) /\ p \in Seq(Elem) /\ Len(p) = Len(q) /\ Len(q) \in Nat
      /\ \A j \in 1..Len(p) : /\ p[j] \in Elem /\ owner[p[j]] = l
                              /\ links[p[j]][1 - d] = IF j > 1 THEN p[j - 1] ELSE null
      /\ \A j, m \in 1..Len(p) : p[j] = p[m] => j = m
      /\ head[l][d] = IF Len(p) = 0 THEN null ELSE p[1]
      /\ head[l][1 - d] = IF Len(p) = 0 THEN null ELSE p[Len(p)]
  BY SeenIs
<1> HIDE DEF p
<1>2. /\ owner[x] = null /\ owner' = [owner EXCEPT ![x] = l]
      /\ \A j \in 1..Len(p) : p[j] # x
      /\ d \in Direction /\ 1 - d \in Direction /\ 1 - d # d
      /\ \A e \in Direction : e = d \/ e = 1 - d
  BY <1>1, Directions DEF Push
<1>3. /\ n \in Handle /\ n # x
      /\ IF 0 = Len(p) THEN n = null /\ head[l][1 - d] = null
         ELSE n = p[1] /\ 1 \in 1..Len(p) /\ n \in Elem /\ links[n][1 - d] = null
              /\ n # null
  BY <1>1, <1>2 DEF Handle
<1>4. /\ \A e \in Elem : owner'[e] = IF e = x THEN l ELSE owner[e]
      /\ Types(head', links', owner')
  BY <1>2, <1>3, InTypes DEF Types, Push, Linked, Handle
<1>5. /\ links'[x][d] = n /\ links'[x][1 - d] = null
      /\ n # null => links'[n][1 - d] = x
      /\ \A e \in Elem : e # x => links'[e][d] = links[e][d]
      /\ \A e \in Elem : e # x /\ e # n => links'[e] = links[e]
      /\ \A m \in List : m # l => head'[m] = head[m]
      /\ head'[l][d] = x
      /\ head'[l][1 - d] = IF n = null THEN x ELSE head[l][1 - d]
  BY <1>2, <1>3, InTypes DEF Push, Linked, Handle
<1>6. PutsIn(head, links, l, d, p, 0, x, head', links')
  BY <1>1, <1>2, <1>5 DEF PutsIn
<1>7. PutsBefore(head, links, l, d, p, 0, x, head', links')
  <2>1. ASSUME NEW j \in 1..Len(p), j # 1
        PROVE  links'[p[j]][1 - d] = links[p[j]][1 - d]
    <3>1. p[j] \in Elem /\ p[j] # x /\ p[j] # n
      BY <1>1, <1>2, <1>3, <2>1
    <3> QED
      BY <1>5, <3>1
  <2> QED
    BY <1>3, <1>5, <2>1 DEF PutsBefore
<1>8. LeavesRest(head, links, owner, head', links', owner', l)
  <2>1. n # null => owner[n] = l
    BY <1>1, <1>3
  <2> QED
    BY <1>2, <1>4, <1>5, <2>1 DEF LeavesRest
<1> HIDE DEF n
<1>9. /\ Sound(head', links', owner')
      /\ Becomes(head, links, head', links', owner', l,
                 InsertAt(q, IF d = forward THEN 0 + 1 ELSE Len(q) - 0 + 1, x))
  <2>1. Sound(head, links, owner) /\ p = Facing(q, d) /\ 0 \in 0..Len(q)
    BY <1>1 DEF LinesInv
  <2> QED
    BY <1>2, <1>4, <1>6, <1>7, <1>8, <2>1, PutIn
<1>10. 0 + 1 = 1 /\ Len(q) - 0 + 1 = Len(q) + 1
  BY <1>1
<1> QED
  BY <1>9, <1>10 DEF LinesInv

\* remove() links the neighbours of an element to each other.
LEMMA RemoveSound ==
  ASSUME LinesInv, NEW l \in List, NEW x \in Elem, RemoveElem(l, x),
         NEW q, q = Forward(head, links, l), NEW i \in 1..Len(q), q[i] = x
  PROVE  LinesInv' /\ Becomes(head, links, head', links', owner', l, RemoveAt(q, i))
<1> USE ListAssumption
<1> DEFINE d == forward
           n == links[x][d]
           b == links[x][1 - d]
<1>1. /\ d \in Direction /\ 1 - d \in Direction /\ 1 - d # d
      /\ reverse = 1 - d /\ \A e \in Direction : e = d \/ e = 1 - d
      /\ q = Facing(q, d) /\ i = FacingPlace(i, Len(q), d)
  BY DEF Direction, forward, reverse, Facing, FacingPlace
<1>2. /\ q \in Seq(Elem) /\ Len(q) \in Nat
      /\ \A j \in 1..Len(q) : /\ q[j] \in Elem /\ owner[q[j]] = l
                              /\ links[q[j]][d] = IF j < Len(q) THEN q[j + 1] ELSE null
                              /\ links[q[j]][1 - d] = IF j > 1 THEN q[j - 1] ELSE null
      /\ \A j, m \in 1..Len(q) : q[j] = q[m] => j = m
      /\ head[l][d] = IF Len(q) = 0 THEN null ELSE q[1]
      /\ head[l][1 - d] = IF Len(q) = 0 THEN null ELSE q[Len(q)]
  <2> HIDE DEF d, n, b
  <2>1. q = Facing(q, d) /\ d \in Direction
    BY <1>1
  <2>2. /\ q \in Seq(Elem) /\ Len(q) \in Nat
        /\ \A j, m \in 1..Len(q) : q[j] = q[m] => j = m
    BY <2>1, SeenIs
  <2>3. \A j \in 1..Len(q) : q[j] \in Elem /\ owner[q[j]] = l
    BY <2>1, SeenIs
  <2>4. \A j \in 1..Len(q) :
          /\ links[q[j]][d] = IF j < Len(q) THEN q[j + 1] ELSE null
          /\ links[q[j]][1 - d] = IF j > 1 THEN q[j - 1] ELSE null
    BY <2>1, SeenIs
  <2>5. /\ head[l][d] = IF Len(q) = 0 THEN null ELSE q[1]
        /\ head[l][1 - d] = IF Len(q) = 0 THEN null ELSE q[Len(q)]
    BY <2>1, SeenIs
  <2> QED
    BY <2>2, <2>3, <2>4, <2>5
<1>3. /\ owner[x] = l /\ owner' = [owner EXCEPT ![x] = null] /\ x \in Elem
  BY DEF RemoveElem
<1>4. /\ n \in Handle /\ n # x
      /\ IF i = Len(q) THEN n = null
         ELSE n = q[i + 1] /\ i + 1 \in 1..Len(q) /\ n \in Elem /\ n # null /\ owner[n] = l
  <2>1. i # Len(q) => i < Len(q) /\ i + 1 \in 1..Len(q) /\ i + 1 # i
    BY <1>2
  <2>2. n = IF i < Len(q) THEN q[i + 1] ELSE null
    BY <1>2
  <2> QED
    <3>1. CASE i = Len(q)
      BY <1>3, <2>2, <3>1, ListAssumption DEF Handle
    <3>2. CASE i # Len(q)
      BY <1>2, <1>3, <2>1, <2>2, <3>2 DEF Handle
    <3> QED
      BY <3>1, <3>2
<1>5. /\ b \in Handle /\ b # x
      /\ IF i = 1 THEN b = null
         ELSE b = q[i - 1] /\ i - 1 \in 1..Len(q) /\ b \in Elem /\ b # null /\ owner[b] = l
  <2>1. i # 1 => i > 1 /\ i - 1 \in 1..Len(q) /\ i - 1 # i
    BY <1>2
  <2>2. b = IF i > 1 THEN q[i - 1] ELSE null
    BY <1>2
  <2> QED
    <3>1. CASE i = 1
      BY <1>3, <2>2, <3>1, ListAssumption DEF Handle
    <3>2. CASE i # 1
      BY <1>2, <1>3, <2>1, <2>2, <3>2 DEF Handle
    <3> QED
      BY <3>1, <3>2
<1>6. /\ head[l][d] = x <=> i = 1
      /\ head[l][1 - d] = x <=> i = Len(q)
  BY <1>2
<1> HIDE DEF d
<1>7. /\ \A e \in Elem : owner'[e] = IF e = x THEN null ELSE owner[e]
      /\ \A m \in List : m # l => head'[m] = head[m]
      /\ \A e \in Direction : head'[l][e] = IF head[l][e] = x THEN links[x][e] ELSE head[l][e]
      /\ head' \in [List -> [Direction -> Handle]]
      /\ links' = Linked(Linked(links, n, 1 - d, b), b, d, n)
  BY <1>1, <1>3, InTypes DEF RemoveElem, d
<1>8. /\ links' \in [Elem -> [Direction -> Handle]]
      /\ n # null => links'[n][1 - d] = b
      /\ b # null => links'[b][d] = n
      /\ \A e \in Elem : e # b => links'[e][d] = links[e][d]
      /\ \A e \in Elem : e # n => links'[e][1 - d] = links[e][1 - d]
      /\ \A e \in Elem : e # n /\ e # b => links'[e] = links[e]
  <2> DEFINE mid == Linked(links, n, 1 - d, b)
  <2>1. /\ links \in [Elem -> [Direction -> Handle]]
        /\ n = null \/ n \in Elem
        /\ b = null \/ b \in Elem
    BY <1>4, <1>5, InTypes DEF Handle
  <2>2. /\ mid \in [Elem -> [Direction -> Handle]]
        /\ n # null => mid[n][1 - d] = b
        /\ \A e \in Elem : mid[e][d] = links[e][d]
        /\ \A e \in Elem : e # n => mid[e] = links[e]
    BY <1>1, <1>5, <2>1 DEF Linked
  <2>3. links' = Linked(mid, b, d, n)
    BY <1>7
  <2> HIDE DEF mid, n, b
  <2>4. /\ links' \in [Elem -> [Direction -> Handle]]
        /\ b # null => links'[b][d] = n
        /\ \A e \in Elem : links'[e][1 - d] = mid[e][1 - d]
        /\ \A e \in Elem : e # b => links'[e] = mid[e]
    BY <1>1, <1>4, <2>1, <2>2, <2>3 DEF Linked
  <2> QED
    BY <2>1, <2>2, <2>4
<1>9. Types(head', links', owner')
  BY <1>3, <1>7, <1>8, InTypes DEF Types
<1>10. TakesOut(head, links, l, d, q, i, head', links')
  <2>1. ASSUME NEW j \in 1..Len(q), j # i - 1 PROVE links'[q[j]][d] = links[q[j]][d]
    <3>1. q[j] \in Elem /\ q[j] # b
      BY <1>2, <1>5, <2>1
    <3>2. \A e \in Elem : e # b => links'[e][d] = links[e][d]
      BY <1>8
    <3> QED
      BY <3>1, <3>2
  <2> QED
    <3>1. CASE i = 1
      <4>1. head'[l][d] = links[q[1]][d]
        BY <1>1, <1>6, <1>7, <3>1
      <4> QED
        BY <2>1, <3>1, <4>1 DEF TakesOut
    <3>2. CASE i # 1
      <4>1. head'[l][d] = head[l][d]
        BY <1>1, <1>6, <1>7, <3>2
      <4>2. links'[q[i - 1]][d] = links[q[i]][d]
        BY <1>1, <1>5, <1>8, <3>2
      <4> QED
        BY <2>1, <3>2, <4>1, <4>2 DEF TakesOut
    <3> QED
      BY <3>1, <3>2
<1>11. TakesBefore(head, links, l, d, q, i, head', links')
  <2>1. ASSUME NEW j \in 1..Len(q), j # i + 1
        PROVE  links'[q[j]][1 - d] = links[q[j]][1 - d]
    <3>1. q[j] \in Elem /\ q[j] # n
      <4>1. CASE i = Len(q)
        BY <1>2, <1>4, <4>1, ListAssumption
      <4>2. CASE i # Len(q)
        BY <1>2, <1>4, <2>1, <4>2
      <4> QED
        BY <4>1, <4>2
    <3>2. \A e \in Elem : e # n => links'[e][1 - d] = links[e][1 - d]
      BY <1>8
    <3> QED
      BY <3>1, <3>2
  <2> QED
    <3>1. CASE i = Len(q)
      <4>1. head'[l][1 - d] = links[q[i]][1 - d]
        BY <1>1, <1>6, <1>7, <3>1
      <4> QED
        BY <2>1, <3>1, <4>1 DEF TakesBefore
    <3>2. CASE i # Len(q)
      <4>1. head'[l][1 - d] = head[l][1 - d]
        BY <1>1, <1>6, <1>7, <3>2
      <4>2. links'[q[i + 1]][1 - d] = links[q[i]][1 - d]
        BY <1>1, <1>4, <1>8, <3>2
      <4> QED
        BY <2>1, <3>2, <4>1, <4>2 DEF TakesBefore
    <3> QED
      BY <3>1, <3>2
<1>12. LeavesRest(head, links, owner, head', links', owner', l)
  <2>1. \A e \in Elem : owner[e] # l => links'[e] = links[e]
    BY <1>4, <1>5, <1>8
  <2>2. links'[x] = links[x]
    BY <1>3, <1>4, <1>5, <1>8
  <2>3. \A m \in List : m # l => \A e \in Elem : owner'[e] = m <=> owner[e] = m
    BY <1>3, <1>7
  <2> QED
    BY <1>3, <1>7, <2>1, <2>2, <2>3 DEF LeavesRest
<1> HIDE DEF n, b
<1>13. owner' = [owner EXCEPT ![q[i]] = null]
  BY <1>3
<1> QED
  BY <1>1, <1>9, <1>10, <1>11, <1>12, <1>13, TakeOut DEF LinesInv

\* The place pop() takes an element from.
EndPlace(q, d) == IF d = forward THEN 1 ELSE Len(q)

\* pop() makes the second element the first.
LEMMA PopSound ==
  ASSUME LinesInv, NEW l \in List, NEW d \in Direction, Pop(l, d),
         NEW q, q = Forward(head, links, l), NEW i, i = EndPlace(q, d)
  PROVE  /\ i \in 1..Len(q) /\ q # <<>> /\ owner' = [owner EXCEPT ![q[i]] = null]
         /\ LinesInv' /\ Becomes(head, links, head', links', owner', l, RemoveAt(q, i))
<1> USE ListAssumption
<1> DEFINE p == Facing(q, d)
           x == head[l][d]
           n == links[x][d]
<1>1. /\ p = Facing(q, d)
      /\ q \in Seq(Elem) /\ p \in Seq(Elem) /\ Len(p) = Len(q) /\ Len(q) \in Nat
      /\ \A j \in 1..Len(p) : /\ p[j] \in Elem /\ owner[p[j]] = l
                              /\ links[p[j]][d] = IF j < Len(p) THEN p[j + 1] ELSE null
                              /\ links[p[j]][1 - d] = IF j > 1 THEN p[j - 1] ELSE null
      /\ \A j, m \in 1..Len(p) : p[j] = p[m] => j = m
      /\ head[l][d] = IF Len(p) = 0 THEN null ELSE p[1]
      /\ head[l][1 - d] = IF Len(p) = 0 THEN null ELSE p[Len(p)]
  BY SeenIs
<1>2. Len(q) # 0
  <2> HIDE DEF p
  <2>1. head[l][forward] # null
    BY DEF Pop, EmptyList
  <2>2. forward = d \/ forward = 1 - d
    BY Directions
  <2> QED
    BY <1>1, <2>1, <2>2
<1>3. /\ i \in 1..Len(q) /\ 1 = FacingPlace(i, Len(q), d)
      /\ 1 \in 1..Len(p) /\ Len(p) \in 1..Len(p) /\ q # <<>>
  BY <1>1, <1>2, EmptySeq DEF EndPlace, FacingPlace
<1>4. p[1] = q[i]
  BY <1>1, <1>3, FacingIs
<1> HIDE DEF p
<1>5. /\ d \in Direction /\ 1 - d \in Direction /\ 1 - d # d
      /\ \A e \in Direction : e = d \/ e = 1 - d
  BY Directions
<1>6. /\ x = p[1] /\ x \in Elem /\ owner[x] = l /\ links[x][1 - d] = null
      /\ owner' = [owner EXCEPT ![x] = null]
  BY <1>1, <1>2, <1>3 DEF Pop
<1>7. /\ n \in Handle /\ n # x
      /\ IF 1 = Len(p) THEN n = null /\ head[l][1 - d] = x
         ELSE n = p[1 + 1] /\ 1 + 1 \in 1..Len(p) /\ n \in Elem /\ n # null /\ owner[n] = l
  <2>1. 1 # Len(p) => 1 < Len(p) /\ 1 + 1 \in 1..Len(p) /\ 1 + 1 # 1
    BY <1>1, <1>2
  <2>2. n = IF 1 < Len(p) THEN p[1 + 1] ELSE null
    BY <1>1, <1>3, <1>6
  <2> QED
    BY <1>1, <1>2, <1>3, <1>6, <2>1, <2>2, SMTT(60) DEF Handle
<1>8. /\ \A e \in Elem : owner'[e] = IF e = x THEN null ELSE owner[e]
      /\ Types(head', links', owner')
  BY <1>6, <1>7, InTypes DEF Types, Pop, Linked, Handle, Direction, forward, reverse
<1>9. /\ n # null => links'[n][1 - d] = null
      /\ \A e \in Elem : links'[e][d] = links[e][d]
      /\ \A e \in Elem : e # n => links'[e] = links[e]
      /\ \A m \in List : m # l => head'[m] = head[m]
      /\ head'[l][d] = n
      /\ head'[l][1 - d] = IF n = null THEN null ELSE head[l][1 - d]
  BY <1>5, <1>7, InTypes DEF Pop, Linked, Handle
<1>10. TakesOut(head, links, l, d, p, 1, head', links')
  BY <1>1, <1>6, <1>9 DEF TakesOut
<1>11. TakesBefore(head, links, l, d, p, 1, head', links')
  <2>1. ASSUME NEW j \in 1..Len(p), j # 1 + 1
        PROVE  links'[p[j]][1 - d] = links[p[j]][1 - d]
    <3>1. p[j] \in Elem /\ p[j] # n
      BY <1>1, <1>7, <2>1
    <3> QED
      BY <1>9, <3>1
  <2> QED
    BY <1>6, <1>7, <1>9, <2>1 DEF TakesBefore
<1>12. LeavesRest(head, links, owner, head', links', owner', l)
  BY <1>6, <1>7, <1>8, <1>9 DEF LeavesRest
<1> HIDE DEF n, x
<1>13. owner' = [owner EXCEPT ![q[i]] = null]
  BY <1>4, <1>6
<1>14. LinesInv' /\ Becomes(head, links, head', links', owner', l, RemoveAt(q, i))
  <2>1. Sound(head, links, owner)
    BY DEF LinesInv
  <2> QED
    BY <1>1, <1>3, <1>8, <1>10, <1>11, <1>12, <1>13, <2>1, TakeOut DEF LinesInv
<1> QED
  BY <1>3, <1>13, <1>14

\* Without elements a list is empty both ways.
LEMMA EmptyLine ==
  ASSUME NEW h, NEW lk, NEW own, NEW l \in List, \A d \in Direction : h[l][d] = null,
         \A x \in Elem : own[x] # l
  PROVE  Line(h, lk, own, l, forward, <<>>)
<1>1. h[l][forward] \notin Elem /\ h[l][1 - forward] \notin Elem
  BY Directions, ListAssumption
<1>2. IsWalk(h, lk, l, forward, <<>>) /\ IsWalk(h, lk, l, 1 - forward, <<>>)
  BY <1>1, PathEmpty DEF IsWalk
<1>3. <<>> \in Seq(Elem) /\ Len(<<>>) = 0
  BY EmptySeq
<1>4. Reverse(<<>>) = <<>>
  BY <1>3, ReversedIs, EmptySeq
<1>5. Range(<<>>) = {}
  BY <1>1, <1>2, PathPlaces DEF IsWalk
<1> QED
  BY <1>2, <1>4, <1>5 DEF Line, HasElements

\* purge() empties a list.
LEMMA PurgeSound ==
  ASSUME LinesInv, NEW l \in List, Purge(l)
  PROVE  LinesInv' /\ Becomes(head, links, head', links', owner', l, <<>>)
<1> USE ListAssumption
<1>1. /\ links' = links
      /\ \A x \in Elem : owner'[x] = IF owner[x] = l THEN null ELSE owner[x]
      /\ \A k \in List : k # l => head'[k] = head[k]
      /\ \A d \in Direction : head'[l][d] = null
  BY InTypes DEF Purge
<1>2. Types(head', links', owner')
  BY InTypes DEF Purge, Types, Handle
<1>3. Line(head', links', owner', l, forward, <<>>)
  BY <1>1, EmptyLine
<1>4. LeavesRest(head, links, owner, head', links', owner', l)
  BY <1>1 DEF LeavesRest
<1>5. Sound(head, links, owner)
  BY DEF LinesInv
<1> QED
  BY <1>2, <1>3, <1>4, <1>5, OneListChanges DEF LinesInv

\* make_detached() writes a link of an element in no list.
LEMMA MakeDetachedSound ==
  ASSUME LinesInv, NEW x \in Elem, MakeDetached(x)
  PROVE  /\ LinesInv'
         /\ \A l \in List : Forward(head', links', l) = Forward(head, links, l)
<1> USE ListAssumption
<1>1. /\ head' = head /\ owner' = owner /\ owner[x] = null
      /\ \A e \in Elem : e # x => links'[e] = links[e]
      /\ Types(head', links', owner')
  BY InTypes, Directions DEF MakeDetached, Types, Handle
<1>2. Sound(head, links, owner)
  BY DEF LinesInv
<1>3. ASSUME NEW l \in List
      PROVE  /\ Forward(head', links', l) = Forward(head, links, l)
             /\ Line(head', links', owner', l, forward, Forward(head', links', l))
  <2> DEFINE q == Forward(head, links, l)
  <2>1. Line(head, links, owner, l, forward, q) /\ q \in Seq(Elem)
    BY <1>2 DEF Sound, Line, IsWalk, LP!IsPath
  <2> HIDE DEF q
  <2>2. Range(q) = {e \in Elem : owner[e] = l} /\ Range(Reverse(q)) = Range(q)
    BY <2>1, ReversedTwice DEF Line, HasElements
  <2>3. ASSUME NEW d \in Direction, NEW r, IsWalk(head, links, l, d, r), Range(r) = Range(q)
        PROVE  IsWalk(head', links', l, d, r)
    <3>1. \A e \in Range(r) : Along(links', d)[e] = Along(links, d)[e]
      BY <1>1, <2>2, <2>3 DEF Along
    <3>2. LP!IsPath(r, Elem, Along(links', d), head[l][d])
      BY <2>3, <3>1, PathSame DEF IsWalk
    <3> QED
      BY <1>1, <3>2 DEF IsWalk
  <2>4. Line(head', links', owner', l, forward, q)
    BY <1>1, <2>1, <2>2, <2>3, Directions DEF Line, HasElements
  <2>5. Forward(head', links', l) = q
    BY <2>4, PathIs DEF Line, IsWalk, Forward
  <2> QED
    BY <2>4, <2>5 DEF q
<1> QED
  BY <1>1, <1>3 DEF Sound, LinesInv

\* New lists are empty, whatever the links of the elements.
LEMMA InitSound ==
  Init => LinesInv /\ \A l \in List : Forward(head, links, l) = <<>>
<1> SUFFICES ASSUME Init PROVE LinesInv /\ \A l \in List : Forward(head, links, l) = <<>>
  OBVIOUS
<1> USE ListAssumption
<1>1. Types(head, links, owner)
  BY DEF Init, Types, Handle
<1>2. ASSUME NEW l \in List
      PROVE  Line(head, links, owner, l, forward, <<>>) /\ Forward(head, links, l) = <<>>
  <2>1. Line(head, links, owner, l, forward, <<>>)
    BY EmptyLine DEF Init
  <2> QED
    BY <2>1, PathIs DEF Line, IsWalk, Forward
<1> QED
  BY <1>1, <1>2 DEF Sound, LinesInv

-----------------------------------------------------------------------------
\* What the caller has put in a list is at a place of it.
LEMMA HasPlace ==
  ASSUME LinesInv, NEW l \in List, NEW q, q = Forward(head, links, l)
  PROVE  /\ q \in Seq(Elem) /\ Len(q) \in Nat
         /\ \A i, j \in 1..Len(q) : q[i] = q[j] => i = j
         /\ \A i \in 1..Len(q) : q[i] \in Elem /\ owner[q[i]] = l
         /\ \A x \in Elem : owner[x] = l => \E i \in 1..Len(q) : q[i] = x
         /\ Range(q) = {x \in Elem : owner[x] = l}
         /\ q = <<>> <=> head[l][forward] = null
<1>1. q = Facing(q, forward) /\ forward \in Direction
  BY Directions DEF Facing
<1>2. /\ q \in Seq(Elem) /\ Len(q) \in Nat
      /\ \A i, j \in 1..Len(q) : q[i] = q[j] => i = j
      /\ \A i \in 1..Len(q) : q[i] \in Elem /\ owner[q[i]] = l
      /\ \A x \in Elem : owner[x] = l => \E i \in 1..Len(q) : q[i] = x
      /\ Range(q) = {x \in Elem : owner[x] = l}
      /\ q = <<>> <=> Len(q) = 0
      /\ head[l][forward] = IF Len(q) = 0 THEN null ELSE q[1]
  BY <1>1, SeenIs
<1>3. Len(q) # 0 => q[1] # null
  BY <1>2, ListAssumption
<1> QED
  BY <1>2, <1>3

\* The elements that look detached.
Loose == {x \in Elem : Detached(x)}

\* An element in a list leads to another one or nowhere.
LEMMA ListedElsewhere ==
  ASSUME NEW h, NEW lk, NEW own, Sound(h, lk, own), NEW x \in Elem, own[x] # null
  PROVE  lk[x][forward] # x
<1> USE ListAssumption
<1>1. own[x] \in List /\ Types(h, lk, own)
  BY DEF Sound, Types
<1> DEFINE q == Forward(h, lk, own[x])
<1>2. Line(h, lk, own, own[x], forward, q) /\ forward \in Direction
  BY <1>1, Directions DEF Sound
<1> HIDE DEF q
<1>3. /\ Len(q) \in Nat
      /\ \A i \in 1..Len(q) : /\ q[i] \in Elem
                              /\ lk[q[i]][forward] = IF i < Len(q) THEN q[i + 1] ELSE null
      /\ \A i, j \in 1..Len(q) : q[i] = q[j] => i = j
      /\ \E i \in 1..Len(q) : q[i] = x
  BY <1>1, <1>2, LineIs
<1>4. PICK i \in 1..Len(q) : q[i] = x
  BY <1>3
<1>5. i < Len(q) => i + 1 \in 1..Len(q) /\ i + 1 # i
  BY <1>3
<1> QED
  BY <1>3, <1>4, <1>5

\* So it never looks detached.
LEMMA ListedNotLoose ==
  LinesInv => \A x \in Elem : owner[x] # null => ~Detached(x)
  BY ListedElsewhere DEF LinesInv, Detached

\* The state of SequenceList when the list l becomes p.
LEMMA MapsTo ==
  ASSUME LinesInv, LinesInv', NEW l \in List, NEW p,
         Becomes(head, links, head', links', owner', l, p)
  PROVE  /\ [k \in List |-> Walk(k, forward)]'
              = [[k \in List |-> Walk(k, forward)] EXCEPT ![l] = p]
         /\ Loose' = {x \in Loose : owner'[x] = null}
<1>1. \A k \in List : Walk(k, forward)' = IF k = l THEN p ELSE Walk(k, forward)
  BY DEF Becomes, Walk, Forward, Along, forward
<1>2. \A x \in Elem : owner'[x] # null => ~Detached(x)'
  BY ListedElsewhere DEF LinesInv, Detached, forward
<1>3. \A x \in Elem : owner'[x] = null => Detached(x)' = Detached(x)
  BY DEF Becomes, Detached, forward
<1> QED
  BY <1>1, <1>2, <1>3 DEF Loose

\* The sequences of BidirList and of SequenceList have the same operators.
LEMMA SameOperators ==
  ASSUME NEW q, NEW i, NEW x
  PROVE  /\ SL!Range(q) = Range(q)
         /\ SL!InsertAt(q, i, x) = InsertAt(q, i, x)
         /\ SL!RemoveAt(q, i) = RemoveAt(q, i)
         /\ SL!Front(q) = Front(q)
         /\ SL!Direction = Direction /\ SL!forward = forward
  BY DEF SL!Range, Range, SL!InsertAt, InsertAt, SL!RemoveAt, RemoveAt, SL!Front, Front,
         SL!Direction, Direction, SL!forward, forward, SL!reverse, reverse

\* A walk forward is the path of the links that way.
LEMMA WalkIsForward == \A l \in List : Walk(l, forward) = Forward(head, links, l)
  BY DEF Walk, Forward, Along

\* What is in some sequence is what the caller has put in some list.
LEMMA PlacedAre ==
  ASSUME LinesInv
  PROVE  \A x \in Elem : x \in SL!Placed <=> owner[x] # null
<1>1. \A l \in List : SL!Range(Walk(l, forward)) = {x \in Elem : owner[x] = l}
  BY SameOperators, WalkIsForward, HasPlace
<1> QED
  BY <1>1, InTypes, ListAssumption DEF SL!Placed

\* Ends and places of a list as SequenceList has them.
LEMMA PlacesAre ==
  ASSUME NEW q \in Seq(Elem), NEW x \in Elem, NEW d \in Direction
  PROVE  /\ SL!Pushed(q, x, d) = InsertAt(q, IF d = forward THEN 1 ELSE Len(q) + 1, x)
         /\ q # <<>> => SL!Popped(q, d) = RemoveAt(q, EndPlace(q, d))
         /\ (\A i, j \in 1..Len(q) : q[i] = q[j] => i = j) =>
              \A i \in 1..Len(q) :
                /\ SL!Beside(q, q[i], x, d)
                     = InsertAt(q, IF d = forward THEN i + 1 ELSE i, x)
                /\ SL!RemoveAt(q, SL!PlaceOf(q, q[i])) = RemoveAt(q, i)
<1>1. SL!forward = forward
  BY SameOperators
<1>2. SL!Pushed(q, x, d) = InsertAt(q, IF d = forward THEN 1 ELSE Len(q) + 1, x)
  BY <1>1, EndsAre DEF SL!Pushed
<1>3. ASSUME q # <<>>
      PROVE  SL!Popped(q, d) = RemoveAt(q, EndPlace(q, d))
  <2>1. Tail(q) = RemoveAt(q, 1) /\ Front(q) = RemoveAt(q, Len(q))
    BY <1>3, EndsAre
  <2> QED
    BY <1>1, <2>1, SameOperators DEF SL!Popped, EndPlace
<1>4. ASSUME \A i, j \in 1..Len(q) : q[i] = q[j] => i = j, NEW i \in 1..Len(q)
      PROVE  SL!PlaceOf(q, q[i]) = i
  <2>1. DOMAIN q = 1..Len(q)
    BY LenProperties
  <2> QED
    BY <1>4, <2>1 DEF SL!PlaceOf
<1>5. ASSUME \A i, j \in 1..Len(q) : q[i] = q[j] => i = j, NEW i \in 1..Len(q)
      PROVE  SL!Beside(q, q[i], x, d) = InsertAt(q, IF d = forward THEN i + 1 ELSE i, x)
  <2>1. SL!PlaceOf(q, q[i]) = i
    BY <1>4, <1>5
  <2>2. SL!Beside(q, q[i], x, d) = SL!InsertAt(q, IF d = forward THEN i + 1 ELSE i, x)
    BY <1>1, <2>1 DEF SL!Beside
  <2> QED
    BY <2>2, SameOperators
<1> QED
  BY <1>2, <1>3, <1>4, <1>5, SameOperators

-----------------------------------------------------------------------------
\* push() is the one on sequences.
LEMMA PushStep ==
  ASSUME LinesInv, NEW l \in List, NEW x \in Elem, NEW d \in Direction, Push(l, x, d)
  PROVE  LinesInv' /\ SL!Push(l, x, d)
<1> DEFINE q == Forward(head, links, l)
           p == InsertAt(q, IF d = forward THEN 1 ELSE Len(q) + 1, x)
<1>1. /\ owner[x] = null /\ owner' = [owner EXCEPT ![x] = l]
      /\ \A e \in Elem : owner'[e] = IF e = x THEN l ELSE owner[e]
  BY InTypes DEF Push
<1>2. q = Forward(head, links, l) /\ q \in Seq(Elem) /\ q = Walk(l, forward)
  BY HasPlace, WalkIsForward
<1>3. p = SL!Pushed(q, x, d)
  BY <1>2, PlacesAre
<1>4. p = InsertAt(q, IF d = forward THEN 1 ELSE Len(q) + 1, x)
  OBVIOUS
<1> HIDE DEF p, q
<1>5. LinesInv' /\ Becomes(head, links, head', links', owner', l, p)
  BY <1>2, <1>4, PushSound
<1>6. /\ [k \in List |-> Walk(k, forward)]'
           = [[k \in List |-> Walk(k, forward)] EXCEPT ![l] = p]
      /\ Loose' = {y \in Loose : owner'[y] = null}
  BY <1>5, MapsTo
<1>7. Loose' = Loose \ {x}
  BY <1>1, <1>6, ListedNotLoose, ListAssumption DEF Loose
<1>8. x \notin SL!Placed
  BY <1>1, PlacedAre
<1> QED
  BY <1>2, <1>3, <1>5, <1>6, <1>7, <1>8 DEF SL!Push, Loose

\* insert() puts the new element beside the one given.
LEMMA InsertStep ==
  ASSUME LinesInv, NEW l \in List, NEW x \in Elem, NEW y \in Elem, NEW d \in Direction,
         Insert(l, x, y, d)
  PROVE  LinesInv' /\ SL!Insert(l, x, y, d)
<1> DEFINE q == Forward(head, links, l)
<1>1. /\ owner[x] = l /\ owner[y] = null /\ owner' = [owner EXCEPT ![y] = l]
      /\ \A e \in Elem : owner'[e] = IF e = y THEN l ELSE owner[e]
  BY InTypes DEF Insert
<1>2. /\ q = Forward(head, links, l) /\ q \in Seq(Elem) /\ q = Walk(l, forward)
      /\ \A i, j \in 1..Len(q) : q[i] = q[j] => i = j
      /\ Range(q) = {e \in Elem : owner[e] = l}
  BY HasPlace, WalkIsForward
<1>3. PICK i \in 1..Len(q) : q[i] = x
  BY <1>1, HasPlace
<1> DEFINE p == InsertAt(q, IF d = forward THEN i + 1 ELSE i, y)
<1>4. p = SL!Beside(q, x, y, d)
  BY <1>2, <1>3, PlacesAre
<1>5. p = InsertAt(q, IF d = forward THEN i + 1 ELSE i, y)
  OBVIOUS
<1> HIDE DEF p, q
<1>6. LinesInv' /\ Becomes(head, links, head', links', owner', l, p)
  BY <1>2, <1>3, <1>5, InsertSound
<1>7. /\ [k \in List |-> Walk(k, forward)]'
           = [[k \in List |-> Walk(k, forward)] EXCEPT ![l] = p]
      /\ Loose' = {e \in Loose : owner'[e] = null}
  BY <1>6, MapsTo
<1>8. Loose' = Loose \ {y}
  BY <1>1, <1>7, ListedNotLoose, ListAssumption DEF Loose
<1>9. y \notin SL!Placed
  BY <1>1, PlacedAre
<1>10. x \in SL!Range(q)
  BY <1>1, <1>2, SameOperators
<1> QED
  BY <1>2, <1>4, <1>6, <1>7, <1>8, <1>9, <1>10 DEF SL!Insert, Loose

\* The i-th element is taken out of a list.
LEMMA TakenStep ==
  ASSUME LinesInv, LinesInv', NEW l \in List, NEW q, q = Forward(head, links, l),
         NEW i \in 1..Len(q), owner' = [owner EXCEPT ![q[i]] = null],
         Becomes(head, links, head', links', owner', l, RemoveAt(q, i))
  PROVE  /\ [k \in List |-> Walk(k, forward)]'
              = [[k \in List |-> Walk(k, forward)] EXCEPT ![l] = RemoveAt(q, i)]
         /\ Loose' = Loose
         /\ SL!RemoveElem(l, q[i])
<1> DEFINE p == RemoveAt(q, i)
<1>1. /\ q \in Seq(Elem) /\ q[i] \in Elem /\ owner[q[i]] = l /\ q = Walk(l, forward)
      /\ \A j, k \in 1..Len(q) : q[j] = q[k] => j = k
      /\ Range(q) = {e \in Elem : owner[e] = l}
  BY HasPlace, WalkIsForward
<1>2. SL!RemoveAt(q, SL!PlaceOf(q, q[i])) = p
  BY <1>1, PlacesAre, Directions
<1> HIDE DEF p
<1>3. Becomes(head, links, head', links', owner', l, p)
  BY DEF p
<1>4. /\ [k \in List |-> Walk(k, forward)]'
           = [[k \in List |-> Walk(k, forward)] EXCEPT ![l] = p]
      /\ Loose' = {e \in Loose : owner'[e] = null}
  BY <1>3, MapsTo
<1>5. Loose' = Loose
  BY <1>1, <1>4, ListedNotLoose, InTypes DEF Loose
<1>6. q[i] \in SL!Range(q)
  BY <1>1, SameOperators
<1> QED
  BY <1>1, <1>2, <1>4, <1>5, <1>6 DEF SL!RemoveElem, Loose, p

\* remove() takes out the element given.
LEMMA RemoveStep ==
  ASSUME LinesInv, NEW l \in List, NEW x \in Elem, RemoveElem(l, x)
  PROVE  LinesInv' /\ SL!RemoveElem(l, x)
<1> DEFINE q == Forward(head, links, l)
<1>1. owner[x] = l /\ owner' = [owner EXCEPT ![x] = null]
  BY DEF RemoveElem
<1>2. q = Forward(head, links, l)
  OBVIOUS
<1>3. PICK i \in 1..Len(q) : q[i] = x
  BY <1>1, HasPlace
<1> HIDE DEF q
<1>4. LinesInv' /\ Becomes(head, links, head', links', owner', l, RemoveAt(q, i))
  BY <1>2, <1>3, RemoveSound
<1>5. owner' = [owner EXCEPT ![q[i]] = null]
  BY <1>1, <1>3
<1>6. SL!RemoveElem(l, q[i])
  BY <1>2, <1>4, <1>5, TakenStep
<1> QED
  BY <1>3, <1>4, <1>6

\* pop() takes out the first element in the direction given.
LEMMA PopStep ==
  ASSUME LinesInv, NEW l \in List, NEW d \in Direction, Pop(l, d)
  PROVE  LinesInv' /\ SL!Pop(l, d)
<1> DEFINE q == Forward(head, links, l)
           i == EndPlace(q, d)
<1>1. q = Forward(head, links, l) /\ i = EndPlace(q, d)
  OBVIOUS
<1>2. q \in Seq(Elem) /\ q = Walk(l, forward)
  BY HasPlace, WalkIsForward
<1> HIDE DEF i, q
<1>3. /\ i \in 1..Len(q) /\ q # <<>> /\ owner' = [owner EXCEPT ![q[i]] = null]
      /\ LinesInv' /\ Becomes(head, links, head', links', owner', l, RemoveAt(q, i))
  BY <1>1, PopSound
<1>4. SL!Popped(q, d) = RemoveAt(q, i)
  <2>1. PICK x \in Elem : TRUE
    BY <1>1, <1>3, HasPlace
  <2> QED
    BY <1>1, <1>2, <1>3, <2>1, PlacesAre
<1>5. /\ [k \in List |-> Walk(k, forward)]'
           = [[k \in List |-> Walk(k, forward)] EXCEPT ![l] = RemoveAt(q, i)]
      /\ Loose' = Loose
  <2>1. q = Forward(head, links, l) /\ i \in 1..Len(q)
    BY <1>1, <1>3
  <2>2. owner' = [owner EXCEPT ![q[i]] = null] /\ LinesInv'
    BY <1>3
  <2>3. Becomes(head, links, head', links', owner', l, RemoveAt(q, i))
    BY <1>3
  <2> QED
    BY <2>1, <2>2, <2>3, TakenStep
<1> QED
  BY <1>2, <1>3, <1>4, <1>5 DEF SL!Pop, Loose

\* purge() leaves the empty sequence.
LEMMA PurgeStep ==
  ASSUME LinesInv, NEW l \in List, Purge(l)
  PROVE  LinesInv' /\ SL!Purge(l)
<1>1. \A x \in Elem : owner'[x] = IF owner[x] = l THEN null ELSE owner[x]
  BY DEF Purge
<1>2. LinesInv' /\ Becomes(head, links, head', links', owner', l, <<>>)
  BY PurgeSound
<1>3. /\ [k \in List |-> Walk(k, forward)]'
           = [[k \in List |-> Walk(k, forward)] EXCEPT ![l] = <<>>]
      /\ Loose' = {e \in Loose : owner'[e] = null}
  BY <1>2, MapsTo
<1>4. Loose' = Loose
  BY <1>1, <1>3, ListedNotLoose DEF Loose
<1> QED
  BY <1>2, <1>3, <1>4 DEF SL!Purge, Loose

\* make_detached() changes no sequence.
LEMMA MakeDetachedStep ==
  ASSUME LinesInv, NEW x \in Elem, MakeDetached(x)
  PROVE  LinesInv' /\ SL!MakeDetached(x)
<1>1. /\ LinesInv'
      /\ \A l \in List : Forward(head', links', l) = Forward(head, links, l)
  BY MakeDetachedSound
<1>2. [k \in List |-> Walk(k, forward)]' = [k \in List |-> Walk(k, forward)]
  <2>1. \A l \in List : Walk(l, forward)' = Forward(head', links', l)
    BY DEF Walk, Forward, Along, forward
  <2> QED
    BY <1>1, <2>1, WalkIsForward DEF forward
<1>3. x \notin SL!Placed
  BY PlacedAre DEF MakeDetached
<1>4. Loose' = Loose \union {x}
  BY InTypes, Directions DEF MakeDetached, Loose, Detached
<1> QED
  BY <1>1, <1>2, <1>3, <1>4 DEF SL!MakeDetached, Loose

\* Whatever the caller does next keeps the lists, and is a step on sequences.
LEMMA NextStep ==
  ASSUME LinesInv, [Next]_vars
  PROVE  LinesInv' /\ OperationsMatch /\ [SL!Next]_(SL!listVars)
<1>1. ASSUME Next PROVE LinesInv' /\ SL!Next
  <2> USE <1>1
  <2>1. ASSUME NEW x \in Elem, MakeDetached(x) PROVE LinesInv' /\ SL!Next
    BY <2>1, MakeDetachedStep DEF SL!Next
  <2>2. ASSUME NEW l \in List, NEW x \in Elem, NEW y \in Elem, NEW d \in Direction,
               Insert(l, x, y, d)
        PROVE  LinesInv' /\ SL!Next
    BY <2>2, InsertStep, SameOperators DEF SL!Next
  <2>3. ASSUME NEW l \in List, NEW x \in Elem, RemoveElem(l, x)
        PROVE  LinesInv' /\ SL!Next
    BY <2>3, RemoveStep DEF SL!Next
  <2>4. ASSUME NEW l \in List, NEW x \in Elem, NEW d \in Direction, Push(l, x, d)
        PROVE  LinesInv' /\ SL!Next
    BY <2>4, PushStep, SameOperators DEF SL!Next
  <2>5. ASSUME NEW l \in List, NEW d \in Direction, Pop(l, d) PROVE LinesInv' /\ SL!Next
    BY <2>5, PopStep, SameOperators DEF SL!Next
  <2>6. ASSUME NEW l \in List, Purge(l) PROVE LinesInv' /\ SL!Next
    BY <2>6, PurgeStep DEF SL!Next
  <2> QED
    BY <2>1, <2>2, <2>3, <2>4, <2>5, <2>6 DEF Next
<1>2. ASSUME UNCHANGED vars PROVE LinesInv' /\ UNCHANGED SL!listVars
  BY <1>2 DEF vars, LinesInv, SL!listVars, Walk, Detached
<1>3. OperationsMatch
  BY PushStep, InsertStep, RemoveStep, PopStep, PurgeStep, MakeDetachedStep
     DEF OperationsMatch
<1> QED
  BY <1>1, <1>2, <1>3

-----------------------------------------------------------------------------
\* The invariant of bidir_list.h: both paths of every list, mirror images of
\* each other, through the elements the caller has put in.
THEOREM LinesSound == Spec => []LinesInv
<1>1. Init => LinesInv
  BY InitSound
<1>2. LinesInv /\ [Next]_vars => LinesInv'
  BY NextStep
<1> QED
  BY <1>1, <1>2, PTL DEF Spec

\* After any sequence of the operations of bidir_list.h on lists that share
\* their elements, the ends and the links of every list agree.
THEOREM ListShapeHolds == Spec => []ListShape
<1>1. ASSUME LinesInv PROVE ListShape
  <2> USE ListAssumption
  <2>1. TypeOK
    BY <1>1, InTypes DEF TypeOK
  <2>2. ASSUME NEW l \in List, NEW d \in Direction
        PROVE  /\ head[l][d] = null => \A x \in Elem : owner[x] # l
               /\ head[l][d] # null =>
                    owner[head[l][d]] = l /\ links[head[l][d]][1 - d] = null
    <3> DEFINE p == Facing(Forward(head, links, l), d)
    <3>1. /\ \A i \in 1..Len(p) : /\ p[i] \in Elem /\ owner[p[i]] = l
                                  /\ links[p[i]][1 - d] = IF i > 1 THEN p[i - 1] ELSE null
          /\ \A x \in Elem : owner[x] = l => \E i \in 1..Len(p) : p[i] = x
          /\ head[l][d] = IF Len(p) = 0 THEN null ELSE p[1]
          /\ Len(p) \in Nat
      BY <1>1, SeenIs
    <3> HIDE DEF p
    <3>2. Len(p) # 0 => 1 \in 1..Len(p)
      BY <3>1
    <3>3. Len(p) = 0 => 1..Len(p) = {}
      OBVIOUS
    <3> QED
      BY <3>1, <3>2, <3>3
  <2>3. ASSUME NEW x \in Elem, NEW d \in Direction, owner[x] # null
        PROVE  IF links[x][d] = null THEN head[owner[x]][1 - d] = x
               ELSE owner[links[x][d]] = owner[x] /\ links[links[x][d]][1 - d] = x
    <3>0. owner[x] \in List
      BY <1>1, <2>3, InTypes
    <3> DEFINE p == Facing(Forward(head, links, owner[x]), d)
    <3>1. /\ \A i \in 1..Len(p) : /\ p[i] \in Elem /\ owner[p[i]] = owner[x]
                                  /\ links[p[i]][d] = IF i < Len(p) THEN p[i + 1] ELSE null
                                  /\ links[p[i]][1 - d] = IF i > 1 THEN p[i - 1] ELSE null
          /\ \E i \in 1..Len(p) : p[i] = x
          /\ head[owner[x]][1 - d] = IF Len(p) = 0 THEN null ELSE p[Len(p)]
          /\ Len(p) \in Nat
      BY <1>1, <3>0, SeenIs
    <3> HIDE DEF p
    <3>2. PICK i \in 1..Len(p) : p[i] = x
      BY <3>1
    <3>3. CASE i < Len(p)
      <4>1. i + 1 \in 1..Len(p) /\ i + 1 > 1 /\ (i + 1) - 1 = i
        BY <3>1, <3>3
      <4> QED
        BY <3>1, <3>2, <3>3, <4>1
    <3>4. CASE ~(i < Len(p))
      <4>1. i = Len(p) /\ Len(p) # 0
        BY <3>1, <3>4
      <4> QED
        BY <3>1, <3>2, <3>4, <4>1
    <3> QED
      BY <3>3, <3>4
  <2> QED
    BY <2>1, <2>2, <2>3 DEF ListShape, EndsKnown, NeighboursAgree
<1> QED
  BY <1>1, LinesSound, PTL

\* is_detached() (bidir_list.h:102) is false of every element of a list.
THEOREM ListedNotDetachedHolds == Spec => []ListedNotDetached
<1>1. LinesInv => ListedNotDetached
  BY ListedNotLoose DEF ListedNotDetached
<1> QED
  BY <1>1, LinesSound, PTL

\* A walk in reverse visits what a walk forward does, in the opposite order,
\* and that is what the caller has put in and not taken out.
THEOREM WalksMirrorHolds == Spec => []WalksMirror
<1>1. ASSUME LinesInv, NEW l \in List
      PROVE  /\ Walk(l, reverse) = Reverse(Walk(l, forward))
             /\ Range(Walk(l, forward)) = {x \in Elem : owner[x] = l}
  <2>1. Walk(l, forward) = Forward(head, links, l)
    BY WalkIsForward
  <2>2. Line(head, links, owner, l, forward, Walk(l, forward))
    BY <1>1, <2>1 DEF LinesInv, Sound
  <2>3. reverse = 1 - forward
    BY DEF reverse, forward
  <2> DEFINE r == Reverse(Walk(l, forward))
  <2>4. LP!IsPath(r, Elem, Along(links, reverse), head[l][reverse])
    BY <2>2, <2>3 DEF Line, IsWalk
  <2> HIDE DEF r
  <2>5. Path(Elem, Along(links, reverse), head[l][reverse]) = r
    BY <2>4, PathIs
  <2>6. Walk(l, reverse) = r
    BY <2>5 DEF Walk, Along
  <2> QED
    BY <2>2, <2>6 DEF r, Line, HasElements
<1>2. LinesInv => WalksMirror
  BY <1>1 DEF WalksMirror
<1> QED
  BY <1>2, LinesSound, PTL

\* The doubly linked lists are sequences, each operation the one on sequences it
\* stands for, for any number of lists and elements.
THEOREM RefinesSequenceList == Spec => ImplementsSequenceList
<1>1. Init => SL!Init
  BY InitSound, WalkIsForward DEF Init, SL!Init
<1>2. LinesInv /\ [Next]_vars => [SL!Next]_(SL!listVars) /\ [OperationsMatch]_vars
  BY NextStep
<1> QED
  BY <1>1, <1>2, LinesSound, PTL DEF Spec, SL!Spec, ImplementsSequenceList
=============================================================================
