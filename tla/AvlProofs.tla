----------------------------- MODULE AvlProofs ------------------------------
(* The AVL tree of AvlTree, for any finite number of nodes.                  *)
EXTENDS AvlTree, FiniteSetTheorems, SequenceTheorems, WellFoundedInduction, TLAPS

\* Every set of natural numbers but the empty one has a least member, because
\* the intervals up to its members have one.
LEMMA LeastNatural ==
    ASSUME NEW S \in SUBSET Nat, S # {}
    PROVE  \E m \in S : \A n \in S : m <= n
<1> DEFINE T == {1 .. n : n \in S}
<1>1. \A n \in S : 1 .. n \in FiniteSubsetsOf(Nat)
  BY FS_Interval DEF FiniteSubsetsOf
<1>2. T \subseteq FiniteSubsetsOf(Nat) /\ T # {}
  BY <1>1
<1>3. PICK x \in T : \A y \in T : <<y, x>> \notin StrictSubsetOrdering(Nat)
  <2> HIDE DEF T
  <2> QED
  BY <1>2, WFMin, FS_StrictSubsetOrderingWellFounded
<1>4. PICK m \in S : x = 1 .. m
  OBVIOUS
<1>5. ASSUME NEW n \in S, n < m PROVE FALSE
  <2>1. <<1 .. n, 1 .. m>> \notin StrictSubsetOrdering(Nat)
    BY <1>3, <1>4
  <2>2. /\ m \in 1 .. m /\ m \notin 1 .. n
        /\ 1 .. n \subseteq 1 .. m /\ 1 .. m \subseteq Nat
    BY <1>5
  <2>3. 1 .. n # 1 .. m
    BY <2>2
  <2> QED
    BY <2>1, <2>2, <2>3 DEF StrictSubsetOrdering
<1> QED
  BY <1>5

\* A set of naturals with zero and the successor of each is all of them.
LEMMA AllNaturals ==
    ASSUME NEW P, 0 \in P, \A n \in Nat : n \in P => n + 1 \in P
    PROVE  Nat \subseteq P
<1>1. ASSUME Nat \ P # {} PROVE FALSE
  <2>1. PICK m \in Nat \ P : \A n \in Nat \ P : m <= n
    BY <1>1, LeastNatural
  <2>2. m # 0 /\ m - 1 \in Nat /\ m - 1 \in P
    BY <2>1
  <2> QED
    BY <2>1, <2>2
<1> QED
  BY <1>1

StaysIn(step, S) == step \in [S -> S]

Repeats(f, step, S, a) ==
  f \in [Nat -> S] /\ f[0] = a /\ \A n \in Nat : f[n + 1] = step[f[n]]

\* A step that stays in a set can be repeated without end.
LEMMA StepsGoOn ==
    ASSUME NEW S, NEW step, StaysIn(step, S), NEW a \in S
    PROVE  \E f : Repeats(f, step, S, a)
<1> USE DEF StaysIn
<1> DEFINE Goes(f, n) == f[0] = a /\ \A i \in 0..(n - 1) : f[i + 1] = step[f[i]]
           Long == {n \in Nat : \E f \in [0..n -> S] : Goes(f, n)}
<1>1. Nat \subseteq Long
  <2>1. 0 \in Long
    <3>1. [i \in 0..0 |-> a] \in [0..0 -> S] /\ Goes([i \in 0..0 |-> a], 0)
      OBVIOUS
    <3> QED
      BY <3>1
  <2>2. ASSUME NEW n \in Nat, n \in Long PROVE n + 1 \in Long
    <3>1. PICK f \in [0..n -> S] : Goes(f, n)
      BY <2>2
    <3> DEFINE g == [i \in 0..(n + 1) |-> IF i = n + 1 THEN step[f[n]] ELSE f[i]]
    <3>2. g \in [0..(n + 1) -> S]
      OBVIOUS
    <3>3. Goes(g, n + 1)
      BY <3>1
    <3> HIDE DEF g, Goes
    <3> QED
      BY <3>2, <3>3
  <2> HIDE DEF Long
  <2> QED
    BY <2>1, <2>2, AllNaturals
<1>2. ASSUME NEW n \in Nat, NEW m \in Nat, n <= m, NEW f, NEW g, Goes(f, n), Goes(g, m)
      PROVE  f[n] = g[n]
  <2> DEFINE Same == {i \in Nat : i <= n => f[i] = g[i]}
  <2>1. 0 \in Same
    BY <1>2
  <2>2. ASSUME NEW i \in Nat, i \in Same PROVE i + 1 \in Same
    BY <1>2, <2>2
  <2>3. Nat \subseteq Same
    <3> HIDE DEF Same
    <3> QED
      BY <2>1, <2>2, AllNaturals
  <2> QED
    BY <2>3
<1> DEFINE G(n) == CHOOSE f \in [0..n -> S] : Goes(f, n)
           h == [n \in Nat |-> G(n)[n]]
<1>3. \A n \in Nat : G(n) \in [0..n -> S] /\ Goes(G(n), n)
  <2> TAKE n \in Nat
  <2>1. \E f \in [0..n -> S] : Goes(f, n)
    BY <1>1
  <2> HIDE DEF Goes
  <2> QED
    BY <2>1
<1> HIDE DEF G
<1>4. h \in [Nat -> S] /\ h[0] = a
  BY <1>3
<1>5. ASSUME NEW n \in Nat PROVE h[n + 1] = step[h[n]]
  <2>1. h[n] = G(n)[n] /\ h[n + 1] = G(n + 1)[n + 1]
    OBVIOUS
  <2>2. G(n + 1)[n + 1] = step[G(n + 1)[n]]
    BY <1>3
  <2>3. G(n)[n] = G(n + 1)[n]
    <3> HIDE DEF Goes
    <3> QED
      BY <1>2, <1>3
  <2> QED
    BY <2>1, <2>2, <2>3
<1> QED
  BY <1>4, <1>5 DEF Repeats

-----------------------------------------------------------------------------
(* What an AVL tree is: the nodes and the depth of every subtree, sub and    *)
(* dep, as what each node says of its own children.                          *)

Deeper(a, b) == IF a > b THEN a ELSE b

\* The nodes in A have keys on side s of the key of h.
Beside(A, h, s) == \A x \in A : Sign(KeyOf[x] - KeyOf[h]) = s

\* The node e over its children, the kid k on side s.
KidOk(t, sub, e, s) ==
  LET k == t.kid[e][s]
  IN k \in Handle /\ (k # null => k \in sub[k]) /\ Beside(sub[k], e, s)

NodeOk(t, sub, dep, e) ==
  LET l == t.kid[e][less]
      r == t.kid[e][greater]
  IN /\ KidOk(t, sub, e, less) /\ KidOk(t, sub, e, greater)
     /\ sub[e] = sub[l] \union {e} \union sub[r]
     /\ dep[e] = 1 + Deeper(dep[l], dep[r])
     /\ t.bf[e] = dep[r] - dep[l] /\ t.bf[e] \in -1..1
     /\ \A x \in sub[e] : sub[x] \subseteq sub[e]

Measures(sub, dep) ==
  /\ sub \in [Handle -> SUBSET Elem] /\ dep \in [Handle -> Nat]
  /\ sub[null] = {} /\ dep[null] = 0

Witness(t, h, sub, dep) ==
  /\ Measures(sub, dep)
  /\ h \in Handle /\ (h # null => h \in sub[h])
  /\ \A e \in sub[h] : NodeOk(t, sub, dep, e)

\* The subtree of h is an AVL tree of the nodes in S and of depth d.
Avl(t, h, S, d) == \E sub, dep : Witness(t, h, sub, dep) /\ S = sub[h] /\ d = dep[h]

\* The children of h, the one on side s an AVL tree of A and depth da.
Parts(t, h, s, A, da, B, db) ==
  /\ Avl(t, t.kid[h][s], A, da) /\ Avl(t, t.kid[h][-s], B, db)
  /\ Beside(A, h, s) /\ Beside(B, h, -s)

Leans(t, h, s, da, db) ==
  t.bf[h] = (IF s = greater THEN da - db ELSE db - da) /\ t.bf[h] \in -1..1

\* The trees t and u are the same at the nodes in S.
Agree(t, u, S) == \A e \in S : t.kid[e] = u.kid[e] /\ t.bf[e] = u.bf[e]

\* An integer and its opposite.
LEMMA Opposite == \A x \in Int : -x \in Int /\ x + (-x) = 0
OBVIOUS

\* A side and the other one.
LEMMA Sides ==
    ASSUME NEW s \in Side
    PROVE  /\ (s = less /\ -s = greater) \/ (s = greater /\ -s = less)
           /\ s # -s /\ -s \in Side /\ -(-s) = s /\ s \in Int
           /\ less \in Side /\ greater \in Side /\ less # greater
           /\ -less = greater /\ -greater = less
<1>1. /\ less \in Side /\ greater \in Side /\ less # greater
      /\ less \in Int /\ greater \in Int /\ less + greater = 0
  BY DEF Side, less, greater
<1>2. s = less \/ s = greater
  BY DEF Side
<1>3. -less = greater /\ -greater = less
  <2> HIDE DEF less, greater
  <2> QED
    BY <1>1, Opposite
<1> HIDE DEF less, greater
<1> QED
  BY <1>1, <1>2, <1>3, Opposite

\* Null is the tree without nodes, and there is no other.
LEMMA AvlNull ==
    ASSUME NEW t
    PROVE  /\ Avl(t, null, {}, 0)
           /\ \A S, d : Avl(t, null, S, d) => S = {} /\ d = 0
           /\ \A h, d : Avl(t, h, {}, d) => h = null /\ d = 0
<1>1. Witness(t, null, [x \in Handle |-> {}], [x \in Handle |-> 0])
  BY DEF Witness, Measures, Handle
<1>2. Avl(t, null, {}, 0)
  <2> DEFINE sub == [x \in Handle |-> {}]
             dep == [x \in Handle |-> 0]
  <2>1. sub[null] = {} /\ dep[null] = 0
    BY DEF Handle
  <2> QED
    BY ONLY <1>1, <2>1 DEF Avl
<1>3. \A S, d : Avl(t, null, S, d) => S = {} /\ d = 0
  BY DEF Avl, Witness, Measures
<1>4. \A h, d : Avl(t, h, {}, d) => h = null /\ d = 0
  BY DEF Avl, Witness, Measures
<1> QED
  BY <1>2, <1>3, <1>4

\* The types of what an AVL tree is of.
LEMMA AvlType ==
    ASSUME NEW t, NEW h, NEW S, NEW d, Avl(t, h, S, d)
    PROVE  h \in Handle /\ S \in SUBSET Elem /\ d \in Nat /\ (h # null => h \in S /\ h \in Elem)
BY DEF Avl, Witness, Measures, Handle

\* The subtree of a node of an AVL tree is one.
LEMMA Within ==
    ASSUME NEW t, NEW h, NEW sub, NEW dep, Witness(t, h, sub, dep), NEW x \in sub[h]
    PROVE  Witness(t, x, sub, dep) /\ sub[x] \subseteq sub[h] /\ x \in Elem
<1>1. h # null /\ h \in sub[h] /\ x \in Elem /\ x \in sub[x]
  BY DEF Witness, Measures, NodeOk, Handle
<1>2. sub[x] \subseteq sub[h]
  BY <1>1 DEF Witness, NodeOk
<1> QED
  BY <1>1, <1>2 DEF Witness, Handle

\* A node h of a tree over its children, the one on side s first.
Forks(t, sub, dep, h, s) ==
  LET k == t.kid[h][s]
      o == t.kid[h][-s]
  IN /\ h \in Elem /\ s # -s /\ -s \in Side
     /\ Witness(t, k, sub, dep) /\ Witness(t, o, sub, dep)
     /\ sub[h] = sub[k] \union sub[o] \union {h}
     /\ Beside(sub[k], h, s) /\ Beside(sub[o], h, -s)
     /\ Leans(t, h, s, dep[k], dep[o]) /\ dep[h] = 1 + Deeper(dep[k], dep[o])

\* So is the subtree of a child.
LEMMA WithinKid ==
    ASSUME NEW t, NEW h, NEW sub, NEW dep, Witness(t, h, sub, dep), h # null, NEW s \in Side
    PROVE  Forks(t, sub, dep, h, s)
<1>1. h \in sub[h] /\ NodeOk(t, sub, dep, h) /\ h \in Elem
  <2>1. h \in sub[h] /\ h \in Handle
    BY DEF Witness
  <2>2. NodeOk(t, sub, dep, h)
    BY <2>1 DEF Witness
  <2> QED
    BY <2>1, <2>2 DEF Handle
<1>2. /\ s # -s /\ -s \in Side
      /\ (s = less /\ -s = greater) \/ (s = greater /\ -s = less)
  BY Sides
<1>3. sub[h] = sub[t.kid[h][s]] \union sub[t.kid[h][-s]] \union {h}
  BY ONLY <1>1, <1>2 DEF NodeOk
<1>4. KidOk(t, sub, h, s) /\ KidOk(t, sub, h, -s)
  BY <1>1, <1>2 DEF NodeOk
<1>5. \A r \in {s, -s} : Witness(t, t.kid[h][r], sub, dep)
  BY <1>3, <1>4 DEF Witness, KidOk
<1>6. dep[t.kid[h][s]] \in Nat /\ dep[t.kid[h][-s]] \in Nat
  BY <1>5 DEF Witness, Measures
<1>7. Leans(t, h, s, dep[t.kid[h][s]], dep[t.kid[h][-s]])
  BY ONLY <1>1, <1>2 DEF NodeOk, Leans
<1>8. dep[h] = 1 + Deeper(dep[t.kid[h][s]], dep[t.kid[h][-s]])
  BY ONLY <1>1, <1>2, <1>6 DEF NodeOk, Deeper
<1> QED
  BY ONLY <1>1, <1>2, <1>3, <1>4, <1>5, <1>7, <1>8 DEF KidOk, Forks

\* A tree of which nothing is changed is an AVL tree still.
LEMMA Frame ==
    ASSUME NEW t, NEW u, NEW h, NEW sub, NEW dep, Witness(t, h, sub, dep), Agree(t, u, sub[h])
    PROVE  Witness(u, h, sub, dep)
BY DEF Witness, Agree, NodeOk, KidOk

\* Nor is it another one.
LEMMA FrameAvl ==
    ASSUME NEW t, NEW u, NEW h, NEW S, NEW d, Avl(t, h, S, d), Agree(t, u, S)
    PROVE  Avl(u, h, S, d)
BY Frame DEF Avl

\* An AVL tree is a node with an AVL tree below it on either side, the
\* depths of which its balance factor tells.
LEMMA Split ==
    ASSUME NEW t, NEW h, NEW S, NEW d, Avl(t, h, S, d), h # null, NEW s \in Side
    PROVE  \E A, da, B, db : /\ Parts(t, h, s, A, da, B, db) /\ Leans(t, h, s, da, db)
                             /\ S = A \union B \union {h} /\ d = 1 + Deeper(da, db)
<1>1. PICK sub, dep : Witness(t, h, sub, dep) /\ S = sub[h] /\ d = dep[h]
  BY DEF Avl
<1> DEFINE k == t.kid[h][s]
           o == t.kid[h][-s]
<1>2. /\ Witness(t, k, sub, dep) /\ Witness(t, o, sub, dep)
      /\ sub[h] = sub[k] \union sub[o] \union {h}
      /\ Beside(sub[k], h, s) /\ Beside(sub[o], h, -s)
      /\ Leans(t, h, s, dep[k], dep[o]) /\ dep[h] = 1 + Deeper(dep[k], dep[o])
  BY <1>1, WithinKid DEF Forks
<1>3. Parts(t, h, s, sub[k], dep[k], sub[o], dep[o])
  BY ONLY <1>2 DEF Parts, Avl
<1> QED
  BY <1>1, <1>2, <1>3, Zenon

\* Over two AVL trees there is one with a new root, if its factor says how it
\* leans.
LEMMA Join ==
    ASSUME NEW t, NEW h \in Elem, NEW s \in Side, NEW A, NEW da, NEW B, NEW db,
           Parts(t, h, s, A, da, B, db), Leans(t, h, s, da, db)
    PROVE  Avl(t, h, A \union B \union {h}, 1 + Deeper(da, db))
<1> DEFINE k == t.kid[h][s]
           o == t.kid[h][-s]
<1>1. PICK sa, pa : Witness(t, k, sa, pa) /\ A = sa[k] /\ da = pa[k]
  BY DEF Parts, Avl
<1>2. PICK sb, pb : Witness(t, o, sb, pb) /\ B = sb[o] /\ db = pb[o]
  BY DEF Parts, Avl
<1>3. A \subseteq Elem /\ B \subseteq Elem /\ h \in Handle /\ null \notin Elem /\ h # null
  BY ONLY <1>1, <1>2, AvlAssumption DEF Witness, Measures, Handle
<1>4. h \notin A /\ h \notin B /\ A \cap B = {}
  BY <1>3, AvlAssumption DEF Parts, Beside, Sign, Side, less, greater
<1> DEFINE sub == [x \in Handle |-> IF x \in A THEN sa[x] ELSE IF x \in B THEN sb[x]
                                    ELSE IF x = h THEN A \union B \union {h} ELSE {}]
           dep == [x \in Handle |-> IF x \in A THEN pa[x] ELSE IF x \in B THEN pb[x]
                                    ELSE IF x = h THEN 1 + Deeper(da, db) ELSE 0]
<1>5. Measures(sub, dep)
  <2>1. A \union B \union {h} \in SUBSET Elem /\ 1 + Deeper(da, db) \in Nat
    BY ONLY <1>1, <1>2, <1>3 DEF Measures, Witness, Deeper
  <2>2. ASSUME NEW x \in Handle PROVE sub[x] \in SUBSET Elem /\ dep[x] \in Nat
    BY <1>1, <1>2, <2>1, Zenon DEF Witness, Measures
  <2>3. null \in Handle /\ null \notin A /\ null \notin B /\ null # h
    BY ONLY <1>3 DEF Handle
  <2> QED
    BY ONLY <2>2, <2>3 DEF Measures
<1>6. \A x \in A \union {null} : sub[x] = sa[x] /\ dep[x] = pa[x]
  BY ONLY <1>1, <1>3 DEF Witness, Measures, Handle
<1>7. \A x \in B \union {null} : sub[x] = sb[x] /\ dep[x] = pb[x]
  BY ONLY <1>2, <1>3, <1>4 DEF Witness, Measures, Handle
<1>8. sub[h] = A \union B \union {h} /\ dep[h] = 1 + Deeper(da, db)
  BY <1>3, <1>4
<1>9. k \in Handle /\ o \in Handle /\ (k # null => k \in A) /\ (o # null => o \in B)
  BY ONLY <1>1, <1>2 DEF Witness
<1>10. sub[k] = A /\ dep[k] = da /\ sub[o] = B /\ dep[o] = db
  BY <1>1, <1>2, <1>6, <1>7, <1>9, Zenon
<1> HIDE DEF sub, dep
<1>11. ASSUME NEW e \in A PROVE NodeOk(t, sub, dep, e)
  <2>1. NodeOk(t, sa, pa, e) /\ sa[e] \subseteq A
    BY ONLY <1>1, Within DEF Witness
  <2>2. ASSUME NEW r \in Side
        PROVE  t.kid[e][r] \in A \union {null}
    BY ONLY <2>1 DEF NodeOk, KidOk, Side, less, greater, Handle
  <2>3. less \in Side /\ greater \in Side
    BY DEF Side
  <2>4. KidOk(t, sub, e, less) /\ KidOk(t, sub, e, greater)
    BY ONLY <1>6, <2>1, <2>2, <2>3 DEF NodeOk, KidOk
  <2>5. \A x \in sub[e] : sub[x] \subseteq sub[e]
    BY ONLY <1>6, <2>1 DEF NodeOk
  <2> QED
    BY ONLY <1>6, <2>1, <2>2, <2>3, <2>4, <2>5 DEF NodeOk
<1>12. ASSUME NEW e \in B PROVE NodeOk(t, sub, dep, e)
  <2>1. NodeOk(t, sb, pb, e) /\ sb[e] \subseteq B
    BY ONLY <1>2, Within DEF Witness
  <2>2. ASSUME NEW r \in Side
        PROVE  t.kid[e][r] \in B \union {null}
    BY ONLY <2>1 DEF NodeOk, KidOk, Side, less, greater, Handle
  <2>3. less \in Side /\ greater \in Side
    BY DEF Side
  <2>4. KidOk(t, sub, e, less) /\ KidOk(t, sub, e, greater)
    BY ONLY <1>7, <2>1, <2>2, <2>3 DEF NodeOk, KidOk
  <2>5. \A x \in sub[e] : sub[x] \subseteq sub[e]
    BY ONLY <1>7, <2>1 DEF NodeOk
  <2> QED
    BY ONLY <1>7, <2>1, <2>2, <2>3, <2>4, <2>5 DEF NodeOk
<1>13. NodeOk(t, sub, dep, h)
  <2>1. KidOk(t, sub, h, s) /\ KidOk(t, sub, h, -s)
    <3>1. Beside(sub[k], h, s) /\ Beside(sub[o], h, -s)
      BY <1>10 DEF Parts
    <3>2. KidOk(t, sub, h, s)
      BY ONLY <1>9, <1>10, <3>1 DEF KidOk
    <3>3. KidOk(t, sub, h, -s)
      BY <1>9, <1>10, <3>1 DEF KidOk
    <3> QED
      BY ONLY <3>2, <3>3
  <2>2. (s = less /\ -s = greater) \/ (s = greater /\ -s = less)
    BY ONLY Sides
  <2>3. da \in Nat /\ db \in Nat
    BY ONLY <1>1, <1>2 DEF Witness, Measures
  <2>4. \A x \in sub[h] : sub[x] \subseteq sub[h]
    BY ONLY <1>1, <1>2, <1>6, <1>7, <1>8, Within
  <2>5. dep[h] = 1 + Deeper(dep[t.kid[h][less]], dep[t.kid[h][greater]])
    BY <1>8, <1>10, <2>2, <2>3 DEF Deeper
  <2>6. t.bf[h] = dep[t.kid[h][greater]] - dep[t.kid[h][less]] /\ t.bf[h] \in -1..1
    BY <1>10, <2>2 DEF Leans, less, greater
  <2>7. sub[h] = sub[t.kid[h][less]] \union {h} \union sub[t.kid[h][greater]]
    BY <1>8, <1>10, <2>2
  <2> QED
    BY ONLY <2>1, <2>2, <2>4, <2>5, <2>6, <2>7 DEF NodeOk
<1>14. Witness(t, h, sub, dep)
  BY <1>3, <1>5, <1>8, <1>11, <1>12, <1>13 DEF Witness
<1> QED
  BY ONLY <1>8, <1>14 DEF Avl
\* A set of naturals with each of which all the smaller ones are in it.
LEMMA StrongNaturals ==
    ASSUME NEW P, \A n \in Nat : (\A m \in 0..(n - 1) : m \in P) => n \in P
    PROVE  Nat \subseteq P
<1>1. ASSUME Nat \ P # {} PROVE FALSE
  <2>1. PICK m \in Nat \ P : \A n \in Nat \ P : m <= n
    BY <1>1, LeastNatural
  <2> QED
    BY <2>1
<1> QED
  BY <1>1

Sized(A, B, h) ==
  /\ IsFiniteSet(A) /\ IsFiniteSet(B) /\ IsFiniteSet(A \union B \union {h})
  /\ Cardinality(A) \in Nat /\ Cardinality(B) \in Nat
  /\ Cardinality(A \union B \union {h}) = Cardinality(A) + Cardinality(B) + 1
  /\ A \cap B = {} /\ h \notin A /\ h \notin B

\* How many nodes a tree has of which h is the root.
LEMMA SizeIs ==
    ASSUME NEW t, NEW h, NEW s \in Side, NEW A, NEW da, NEW B, NEW db,
           Parts(t, h, s, A, da, B, db), h \in Elem
    PROVE  Sized(A, B, h)
<1>1. A \in SUBSET Elem /\ B \in SUBSET Elem
  BY AvlType DEF Parts
<1>2. h \notin A /\ h \notin B /\ A \cap B = {}
  BY <1>1, Sides, AvlAssumption DEF Parts, Beside, Sign, Side, less, greater
<1>3. IsFiniteSet(A) /\ IsFiniteSet(B)
  BY <1>1, FS_Subset, AvlAssumption
<1>4. /\ IsFiniteSet(A \union B) /\ Cardinality(A) \in Nat /\ Cardinality(B) \in Nat
      /\ Cardinality(A \union B) = Cardinality(A) + Cardinality(B)
  <2>1. Cardinality(A \cap B) = 0
    BY <1>2, FS_EmptySet
  <2>2. /\ IsFiniteSet(A \union B)
        /\ Cardinality(A \union B) = Cardinality(A) + Cardinality(B) - Cardinality(A \cap B)
    BY ONLY <1>3, FS_Union
  <2>3. Cardinality(A) \in Nat /\ Cardinality(B) \in Nat
    BY ONLY <1>3, FS_CardinalityType
  <2> QED
    BY ONLY <2>1, <2>2, <2>3
<1>5. /\ IsFiniteSet(A \union B \union {h})
      /\ Cardinality(A \union B \union {h}) = Cardinality(A \union B) + 1
  BY <1>2, <1>4, FS_AddElement
<1> QED
  BY <1>2, <1>3, <1>4, <1>5 DEF Sized

\* A tree is no deeper than it has nodes.
LEMMA DepthBound ==
    ASSUME NEW t, NEW h, NEW S, NEW d, Avl(t, h, S, d)
    PROVE  d <= Cardinality(S) /\ d <= Cardinality(Elem) /\ Cardinality(S) <= Cardinality(Elem)
<1> DEFINE P == {n \in Nat : \A g, T : Avl(t, g, T, n) => n <= Cardinality(T)}
<1>1. ASSUME NEW n \in Nat, \A m \in 0..(n - 1) : m \in P PROVE n \in P
  <2> SUFFICES ASSUME NEW g, NEW T, Avl(t, g, T, n) PROVE n <= Cardinality(T)
    OBVIOUS
  <2>1. CASE g = null
    BY <2>1, AvlNull, FS_EmptySet
  <2>2. CASE g # null
    <3>1. PICK A, da, B, db : /\ Parts(t, g, less, A, da, B, db)
                              /\ T = A \union B \union {g} /\ n = 1 + Deeper(da, db)
      BY <2>2, Split, Sides DEF Side
    <3>2. da \in Nat /\ db \in Nat /\ g \in Elem
      BY <2>2, <3>1, AvlType DEF Parts
    <3>3. da <= n - 1 /\ db <= n - 1 /\ (n = 1 + da \/ n = 1 + db)
      BY <3>1, <3>2 DEF Deeper
    <3>4. da <= Cardinality(A) /\ db <= Cardinality(B)
      <4>1. da \in P /\ db \in P
        BY <1>1, <3>2, <3>3
      <4> QED
        BY <3>1, <4>1 DEF Parts
    <3>5. /\ Cardinality(A) \in Nat /\ Cardinality(B) \in Nat
          /\ Cardinality(T) = Cardinality(A) + Cardinality(B) + 1
      <4>1. less \in Side
        BY DEF Side
      <4>2. Parts(t, g, less, A, da, B, db) /\ T = A \union B \union {g}
        BY <3>1
      <4> HIDE DEF P
      <4>3. Sized(A, B, g)
        BY <3>2, <4>1, <4>2, SizeIs
      <4> QED
        BY <4>2, <4>3 DEF Sized
    <3> QED
      BY <3>2, <3>3, <3>4, <3>5
  <2> QED
    BY <2>1, <2>2
<1>2. Nat \subseteq P
  <2> HIDE DEF P
  <2> QED
    BY <1>1, StrongNaturals
<1>3. S \in SUBSET Elem /\ d \in Nat
  BY AvlType
<1>4. Cardinality(S) <= Cardinality(Elem) /\ Cardinality(S) \in Nat /\ Cardinality(Elem) \in Nat
  BY <1>3, FS_Subset, FS_CardinalityType, AvlAssumption
<1>5. d <= Cardinality(S)
  BY <1>2, <1>3
<1> QED
  BY <1>3, <1>4, <1>5

-----------------------------------------------------------------------------
(* The ways through a tree.                                                  *)

IsWay(q, next, h) ==
  /\ q \in Seq(Elem) /\ (q = <<>> <=> h = null)
  /\ q # <<>> => q[1] = h /\ next[q[Len(q)]] = null
  /\ \A i \in 1..(Len(q) - 1) : q[i + 1] = next[q[i]]

\* In R every step leads to a place of less rank, and no rank is above n.
Descends(next, R, rank) ==
  /\ next \in [Handle -> Handle] /\ R \in SUBSET Handle /\ rank \in [R -> Nat]
  /\ \A g \in R \ {null} : next[g] \in R /\ rank[next[g]] < rank[g]

WayOf(w, next) ==
  /\ w \in [Nat -> [Handle -> Seq(Elem)]]
  /\ \A n \in Nat, g \in Handle :
       w[n][g] = IF n = 0 \/ g = null THEN <<>> ELSE <<g>> \o w[n - 1][next[g]]

\* The recursive function of Way gives, with the number n, the first n nodes.
LEMMA WayFunction ==
    ASSUME NEW next \in [Handle -> Handle]
    PROVE  \E w : WayOf(w, next) /\ \A h \in Handle : Way(next, h) = w[Cardinality(Elem)][h]
<1> DEFINE Longer(v) == [g \in Handle |-> IF g = null THEN <<>> ELSE <<g>> \o v[next[g]]]
           step == [v \in [Handle -> Seq(Elem)] |-> Longer(v)]
           none == [g \in Handle |-> <<>>]
           Goes(w) == w = [n \in Nat |-> [g \in Handle |->
                             IF n = 0 \/ g = null THEN <<>> ELSE <<g>> \o w[n - 1][next[g]]]]
           way[n \in Nat] == [g \in Handle |->
                               IF n = 0 \/ g = null THEN <<>> ELSE <<g>> \o way[n - 1][next[g]]]
<1>1. ASSUME NEW v \in [Handle -> Seq(Elem)] PROVE Longer(v) \in [Handle -> Seq(Elem)]
  <2>1. ASSUME NEW g \in Handle PROVE Longer(v)[g] \in Seq(Elem)
    <3>1. v[next[g]] \in Seq(Elem) /\ <<>> \in Seq(Elem)
      BY EmptySeq
    <3>2. CASE g # null
      <4>1. <<g>> \in Seq(Elem)
        BY <3>2 DEF Handle
      <4> QED
        BY <3>1, <3>2, <4>1, ConcatProperties
    <3> QED
      BY <3>1, <3>2
  <2> QED
    BY <2>1
<1>2. StaysIn(step, [Handle -> Seq(Elem)]) /\ none \in [Handle -> Seq(Elem)]
  <2> HIDE DEF Longer
  <2> QED
    BY <1>1, EmptySeq DEF StaysIn
<1>3. PICK f : Repeats(f, step, [Handle -> Seq(Elem)], none)
  <2> HIDE DEF step, none
  <2> QED
    BY <1>2, StepsGoOn
<1>4. /\ f \in [Nat -> [Handle -> Seq(Elem)]] /\ f[0] = none
      /\ \A n \in Nat : f[n + 1] = Longer(f[n])
  BY <1>3 DEF Repeats
<1>5. \A n \in Nat : f[n] = [g \in Handle |->
                       IF n = 0 \/ g = null THEN <<>> ELSE <<g>> \o f[n - 1][next[g]]]
  <2> TAKE n \in Nat
  <2>1. CASE n = 0
    BY <1>4, <2>1
  <2>2. CASE n # 0
    <3>1. n - 1 \in Nat /\ (n - 1) + 1 = n
      BY <2>2
    <3>2. f[n] = Longer(f[n - 1])
      BY <1>4, <3>1
    <3> QED
      BY <2>2, <3>2
  <2> QED
    BY <2>1, <2>2
<1>6. Goes(f)
  BY <1>4, <1>5
<1>7. Goes(way)
  <2>1. way = CHOOSE w : Goes(w)
    OBVIOUS
  <2> HIDE DEF way, Goes
  <2> QED
    BY <1>6, <2>1
<1>8. \A h \in Handle : Way(next, h) = way[Cardinality(Elem)][h]
  BY DEF Way
<1> HIDE DEF way
<1>9. /\ \A n \in Nat : way[n] = [g \in Handle |->
                IF n = 0 \/ g = null THEN <<>> ELSE <<g>> \o way[n - 1][next[g]]]
      /\ DOMAIN way = Nat /\ way = [n \in Nat |-> way[n]]
  <2>1. \A w : Goes(w) => /\ \A n \in Nat : w[n] = [g \in Handle |->
                              IF n = 0 \/ g = null THEN <<>> ELSE <<g>> \o w[n - 1][next[g]]]
                          /\ DOMAIN w = Nat /\ w = [n \in Nat |-> w[n]]
    OBVIOUS
  <2> HIDE DEF Goes
  <2> QED
    BY <1>7, <2>1
<1> HIDE DEF Goes
<1>11. \A n \in Nat, g \in Handle :
        way[n][g] = IF n = 0 \/ g = null THEN <<>> ELSE <<g>> \o way[n - 1][next[g]]
  BY ONLY <1>9, ZenonT(60)
<1>10. way \in [Nat -> [Handle -> Seq(Elem)]]
  <2> DEFINE P == {n \in Nat : way[n] \in [Handle -> Seq(Elem)]}
  <2>1. 0 \in P
    <3>1. way[0] = none
      <4>1. way[0] = [g \in Handle |->
                       IF 0 = 0 \/ g = null THEN <<>> ELSE <<g>> \o way[0 - 1][next[g]]]
        BY <1>9
      <4> QED
        BY <4>1
    <3> QED
      BY <1>2, <3>1
  <2>2. ASSUME NEW n \in Nat, n \in P PROVE n + 1 \in P
    <3>1. way[n + 1] = Longer(way[n])
      <4>1. n + 1 \in Nat /\ (n + 1) - 1 = n /\ n + 1 # 0
        OBVIOUS
      <4>2. \A m \in Nat : m # 0 => way[m] = Longer(way[m - 1])
        BY <1>9
      <4> QED
        BY ONLY <4>1, <4>2
    <3> HIDE DEF Longer
    <3> QED
      BY <1>1, <2>2, <3>1
  <2>3. Nat \subseteq P
    <3> HIDE DEF P
    <3> QED
      BY <2>1, <2>2, AllNaturals
  <2> QED
    BY <1>9, <2>3
<1>12. WayOf(way, next)
  BY <1>10, <1>11 DEF WayOf
<1> QED
  BY <1>8, <1>12
\* One node more at the front of a way.
LEMMA WayLonger ==
    ASSUME NEW next \in [Handle -> Handle], NEW g \in Elem, NEW r, IsWay(r, next, next[g])
    PROVE  /\ IsWay(<<g>> \o r, next, g) /\ Len(<<g>> \o r) = Len(r) + 1 /\ Len(r) \in Nat
           /\ \A i \in 1..Len(<<g>> \o r) : (<<g>> \o r)[i] = IF i = 1 THEN g ELSE r[i - 1]
<1> DEFINE q == <<g>> \o r
<1>1. r \in Seq(Elem) /\ <<g>> \in Seq(Elem) /\ Len(<<g>>) = 1 /\ <<g>>[1] = g
  BY DEF IsWay
<1>2. /\ q \in Seq(Elem) /\ Len(q) = Len(r) + 1 /\ Len(r) \in Nat
      /\ \A i \in 1..Len(q) : q[i] = IF i = 1 THEN g ELSE r[i - 1]
  <2>1. /\ q \in Seq(Elem) /\ Len(q) = 1 + Len(r) /\ Len(r) \in Nat
        /\ \A i \in 1..(1 + Len(r)) : q[i] = IF i <= 1 THEN <<g>>[i] ELSE r[i - 1]
    BY <1>1, ConcatProperties, LenProperties
  <2> HIDE DEF q
  <2> QED
    BY <1>1, <2>1
<1> HIDE DEF q
<1>3. q # <<>> /\ g # null
  BY <1>2, EmptySeq, AvlAssumption
<1>4. r = <<>> <=> Len(r) = 0
  BY <1>1, EmptySeq
<1>5. q[1] = g /\ next[q[Len(q)]] = null
  <2>1. q[1] = g
    BY <1>2
  <2>2. CASE Len(r) = 0
    BY <1>2, <1>4, <2>1, <2>2 DEF IsWay
  <2>3. CASE Len(r) # 0
    <3>1. Len(q) # 1 /\ Len(q) - 1 = Len(r) /\ Len(q) \in 1..Len(q)
      BY <1>2, <2>3
    <3>2. q[Len(q)] = r[Len(r)]
      BY <1>2, <3>1
    <3> QED
      BY <1>4, <2>1, <2>3, <3>2 DEF IsWay
  <2> QED
    BY <2>2, <2>3
<1>6. ASSUME NEW i \in 1..(Len(q) - 1) PROVE q[i + 1] = next[q[i]]
  <2>1. i + 1 \in 1..Len(q) /\ i + 1 # 1 /\ (i + 1) - 1 = i /\ i \in 1..Len(q) /\ i \in 1..Len(r)
    BY <1>2
  <2>2. q[i + 1] = r[i]
    BY <1>2, <2>1
  <2>3. CASE i = 1
    BY <1>2, <1>4, <2>1, <2>2, <2>3 DEF IsWay
  <2>4. CASE i # 1
    <3>1. q[i] = r[i - 1] /\ i - 1 \in 1..(Len(r) - 1) /\ (i - 1) + 1 = i
      BY <1>2, <2>1, <2>4
    <3>2. r[(i - 1) + 1] = next[r[i - 1]]
      BY <3>1 DEF IsWay
    <3> QED
      BY <2>2, <3>1, <3>2
  <2> QED
    BY <2>3, <2>4
<1> QED
  BY <1>2, <1>3, <1>5, <1>6 DEF IsWay, q

StaysOn(q, R) == \A i \in 1..Len(q) : q[i] \in R

\* Where every step leads to less rank, the way comes to an end in time.
LEMMA WayIs ==
    ASSUME NEW next, NEW R, NEW rank, Descends(next, R, rank),
           \A g \in R : rank[g] <= Cardinality(Elem), NEW h \in R
    PROVE  IsWay(Way(next, h), next, h) /\ StaysOn(Way(next, h), R)
<1> USE DEF Descends
<1>1. PICK w : WayOf(w, next) /\ \A g \in Handle : Way(next, g) = w[Cardinality(Elem)][g]
  BY WayFunction
<1> DEFINE Ok(q, g) == IsWay(q, next, g) /\ StaysOn(q, R)
           P == {n \in Nat : \A g \in R : rank[g] <= n => Ok(w[n][g], g)}
<1>2. Ok(<<>>, null)
  BY EmptySeq DEF IsWay, StaysOn
<1>3. 0 \in P
  <2> SUFFICES ASSUME NEW g \in R, rank[g] <= 0 PROVE Ok(w[0][g], g)
    OBVIOUS
  <2>1. g = null
    <3>1. ASSUME g # null PROVE FALSE
      <4>1. rank[g] \in Nat /\ rank[next[g]] \in Nat /\ rank[next[g]] < rank[g]
        BY <3>1
      <4> QED
        BY <4>1
    <3> QED
      BY <3>1
  <2>2. w[0][g] = <<>>
    BY <1>1 DEF WayOf
  <2> QED
    BY <1>2, <2>1, <2>2
<1>4. ASSUME NEW n \in Nat, n \in P PROVE n + 1 \in P
  <2> SUFFICES ASSUME NEW g \in R, rank[g] <= n + 1 PROVE Ok(w[n + 1][g], g)
    OBVIOUS
  <2>1. w[n + 1][g] = IF g = null THEN <<>> ELSE <<g>> \o w[n][next[g]]
    <3>1. \A m \in Nat, f \in Handle :
             w[m][f] = IF m = 0 \/ f = null THEN <<>> ELSE <<f>> \o w[m - 1][next[f]]
      BY <1>1, Zenon DEF WayOf
    <3>2. n + 1 \in Nat /\ n + 1 # 0 /\ (n + 1) - 1 = n /\ g \in Handle
      OBVIOUS
    <3>3. w[n + 1][g] = IF n + 1 = 0 \/ g = null THEN <<>>
                        ELSE <<g>> \o w[(n + 1) - 1][next[g]]
      BY ONLY <3>1, <3>2, Zenon
    <3> QED
      BY ONLY <3>2, <3>3, Zenon
  <2>2. CASE g = null
    BY <1>2, <2>1, <2>2
  <2>3. CASE g # null
    <3>1. rank[g] \in Nat /\ rank[next[g]] \in Nat /\ rank[next[g]] < rank[g] /\ next[g] \in R
      BY <2>3
    <3>2. Ok(w[n][next[g]], next[g])
      BY <1>4, <3>1
    <3>3. g \in Elem
      BY <2>3 DEF Handle
    <3> DEFINE r == w[n][next[g]]
               q == <<g>> \o r
    <3>4. IsWay(r, next, next[g]) /\ StaysOn(r, R)
      BY <3>2
    <3> HIDE DEF r
    <3>5. /\ IsWay(q, next, g) /\ Len(q) = Len(r) + 1 /\ Len(r) \in Nat
          /\ \A i \in 1..Len(q) : q[i] = IF i = 1 THEN g ELSE r[i - 1]
      BY <3>3, <3>4, WayLonger
    <3> HIDE DEF q
    <3>6. ASSUME NEW i \in 1..Len(q) PROVE q[i] \in R
      <4>1. i # 1 => i - 1 \in 1..Len(r)
        BY <3>5
      <4> QED
        BY ONLY <3>4, <3>5, <4>1 DEF StaysOn
    <3> QED
      BY <2>1, <2>3, <3>5, <3>6 DEF StaysOn, q, r
  <2> QED
    BY <2>2, <2>3
<1>5. Nat \subseteq P
  <2> HIDE DEF P
  <2> QED
    BY <1>3, <1>4, AllNaturals
<1>6. Cardinality(Elem) \in P
  BY <1>5, FS_CardinalityType, AvlAssumption
<1> QED
  BY <1>1, <1>6
\* From each node in S the function next leads to a child or to null.
Follows(t, next, S) ==
  /\ next \in [Handle -> Handle]
  /\ \A e \in S : next[e] = null \/ \E s \in Side : next[e] = t.kid[e][s]

\* A loop that goes down in a tree comes to its end within the tree.
LEMMA WayInTree ==
    ASSUME NEW t, NEW h, NEW sub, NEW dep, Witness(t, h, sub, dep),
           NEW next, Follows(t, next, sub[h])
    PROVE  IsWay(Way(next, h), next, h) /\ StaysOn(Way(next, h), sub[h])
<1> DEFINE R == sub[h] \union {null}
           rank == [x \in R |-> dep[x]]
           q == Way(next, h)
<1>1. /\ Measures(sub, dep) /\ h \in R /\ h \in Handle /\ sub[h] \in SUBSET Elem
      /\ null \in Handle /\ null \notin sub[h]
  BY AvlAssumption DEF Witness, Measures, Handle
<1>2. ASSUME NEW g \in R \ {null}
      PROVE  next[g] \in R /\ dep[next[g]] < dep[g]
  <2>1. Witness(t, g, sub, dep) /\ sub[g] \subseteq sub[h] /\ g \in Elem
    BY Within
  <2>2. CASE next[g] = null
    <3>1. dep[g] = 1 + Deeper(dep[t.kid[g][less]], dep[t.kid[g][greater]])
          /\ dep[t.kid[g][less]] \in Nat /\ dep[t.kid[g][greater]] \in Nat
      <4>1. NodeOk(t, sub, dep, g)
        BY DEF Witness
      <4> QED
        BY ONLY <1>1, <4>1 DEF NodeOk, KidOk, Measures
    <3>2. dep[g] > 0
      BY <3>1 DEF Deeper
    <3> QED
      BY <1>1, <2>2, <3>2 DEF Measures
  <2>3. ASSUME NEW s \in Side, next[g] = t.kid[g][s]
        PROVE  next[g] \in R /\ dep[next[g]] < dep[g]
    <3> DEFINE k == t.kid[g][s]
               o == t.kid[g][-s]
    <3>1. /\ Witness(t, k, sub, dep) /\ Witness(t, o, sub, dep)
          /\ sub[g] = sub[k] \union sub[o] \union {g} /\ dep[g] = 1 + Deeper(dep[k], dep[o])
      <4>1. Forks(t, sub, dep, g, s)
        BY ONLY <2>1, WithinKid
      <4> QED
        BY <4>1 DEF Forks
    <3>2. dep[k] \in Nat /\ dep[o] \in Nat
      BY ONLY <3>1 DEF Witness, Measures
    <3>3. dep[k] < dep[g]
      BY ONLY <3>1, <3>2 DEF Deeper
    <3>4. k \in R
      BY <2>1, <3>1 DEF Witness
    <3> QED
      BY <2>3, <3>3, <3>4
  <2>4. g \in sub[h]
    OBVIOUS
  <2> HIDE DEF R
  <2> QED
    BY <2>2, <2>3, <2>4 DEF Follows
<1>3. \A g \in R : rank[g] = dep[g] /\ rank[g] \in Nat
  BY <1>1 DEF Measures, Handle
<1>4. R \in SUBSET Handle
  BY <1>1 DEF Handle
<1>5. \A g \in R : rank[g] <= Cardinality(Elem)
  <2> TAKE g \in R
  <2>1. Witness(t, g, sub, dep)
    <3>1. CASE g \in sub[h]
      BY <3>1, Within
    <3>2. CASE g = null
      BY <1>1, <3>2 DEF Witness, Measures
    <3> QED
      BY <3>1, <3>2
  <2>2. Avl(t, g, sub[g], dep[g])
    BY <2>1 DEF Avl
  <2> HIDE DEF R, rank
  <2> QED
    BY <1>3, <2>2, DepthBound
<1>6. Descends(next, R, rank)
  <2> HIDE DEF R
  <2>1. rank \in [R -> Nat]
    BY <1>3
  <2> HIDE DEF rank
  <2> QED
    BY <1>2, <1>3, <1>4, <2>1 DEF Descends, Follows
<1>7. IsWay(q, next, h) /\ StaysOn(q, R)
  <2> HIDE DEF R, rank
  <2> QED
    BY <1>1, <1>5, <1>6, WayIs
<1>8. \A i \in 1..Len(q) : q[i] \in Elem
  <2> HIDE DEF q
  <2> QED
    BY <1>7, LenProperties DEF IsWay
<1> QED
  BY <1>7, <1>8, AvlAssumption DEF StaysOn

\* A way through the tree that takes the sides in br.
Trail(t, q, br) ==
  /\ q \in Seq(Elem)
  /\ \A i \in 1..(Len(q) - 1) : br[i] \in Side /\ q[i + 1] = t.kid[q[i]][br[i]]

\* The subtrees on it, one in the other, and on the side taken.
Nested(sub, q, br) ==
  /\ \A i \in 1..Len(q) : q[i] \in Elem /\ q[i] \in sub[q[i]]
  /\ \A i, j \in 1..Len(q) : i <= j => sub[q[j]] \subseteq sub[q[i]]
  /\ \A i, j \in 1..Len(q) : i < j => /\ br[i] \in Side
                                      /\ Beside(sub[q[j]], q[i], br[i]) /\ q[i] \notin sub[q[j]]

\* A node is not among those with keys on one side of its own.
LEMMA NotBeside ==
    ASSUME NEW A, NEW h \in Elem, NEW s \in Side, Beside(A, h, s)
    PROVE  h \notin A
BY Sides, AvlAssumption DEF Beside, Sign, Side, less, greater

\* A way from the root of a tree.
LEMMA TrailIn ==
    ASSUME NEW t, NEW h, NEW sub, NEW dep, Witness(t, h, sub, dep), NEW q, NEW br,
           Trail(t, q, br), q # <<>> => q[1] = h
    PROVE  \A i \in 1..Len(q) : q[i] \in sub[h] /\ Witness(t, q[i], sub, dep)
<1>1. /\ q \in Seq(Elem) /\ Len(q) \in Nat /\ \A i \in 1..Len(q) : q[i] \in Elem
      /\ (q = <<>> <=> Len(q) = 0)
  BY LenProperties, EmptySeq DEF Trail
<1> DEFINE P == {n \in Nat : n + 1 \in 1..Len(q) => q[n + 1] \in sub[h]}
<1>2. 0 \in P
  <2>1. ASSUME 1 \in 1..Len(q) PROVE q[1] \in sub[h]
    BY <1>1, <2>1, AvlAssumption DEF Witness
  <2> QED
    BY <2>1
<1>3. ASSUME NEW n \in Nat, n \in P PROVE n + 1 \in P
  <2> SUFFICES ASSUME n + 2 \in 1..Len(q) PROVE q[n + 2] \in sub[h]
    OBVIOUS
  <2> DEFINE i == n + 1
  <2>1. i \in 1..Len(q) /\ i \in 1..(Len(q) - 1) /\ i + 1 = n + 2
    BY <1>1
  <2>2. q[i] \in sub[h]
    BY <1>3, <2>1
  <2> HIDE DEF i
  <2>3. br[i] \in Side /\ q[n + 2] = t.kid[q[i]][br[i]]
    BY <2>1 DEF Trail
  <2>4. Witness(t, q[i], sub, dep) /\ sub[q[i]] \subseteq sub[h] /\ q[i] \in Elem
    BY <2>2, Within
  <2>5. /\ Witness(t, q[n + 2], sub, dep) /\ sub[q[n + 2]] \subseteq sub[q[i]]
    <3>1. Forks(t, sub, dep, q[i], br[i])
      BY <2>3, <2>4, WithinKid, AvlAssumption
    <3> QED
      BY <2>3, <3>1, Zenon DEF Forks
  <2>6. q[n + 2] \in Elem
    BY <1>1
  <2> QED
    BY <2>4, <2>5, <2>6, AvlAssumption DEF Witness
<1>4. Nat \subseteq P
  <2> HIDE DEF P
  <2> QED
    BY <1>2, <1>3, AllNaturals
<1>5. ASSUME NEW i \in 1..Len(q) PROVE q[i] \in sub[h]
  <2>1. i - 1 \in P /\ (i - 1) + 1 = i
    BY <1>1, <1>4
  <2> QED
    BY <2>1
<1> QED
  BY <1>5, Within

\* Along a trail each node, with all below it, is in what was below the one
\* before it.
LEMMA TrailNested ==
    ASSUME NEW t, NEW h, NEW sub, NEW dep, Witness(t, h, sub, dep), NEW q, NEW br,
           Trail(t, q, br), q # <<>> => q[1] = h
    PROVE  Nested(sub, q, br)
<1>1. \A i \in 1..Len(q) : q[i] \in Elem /\ Witness(t, q[i], sub, dep) /\ q[i] \in sub[q[i]]
  <2>1. \A i \in 1..Len(q) : q[i] \in sub[h] /\ Witness(t, q[i], sub, dep)
    BY TrailIn
  <2>2. \A i \in 1..Len(q) : q[i] \in Elem
    BY <2>1, Within
  <2> QED
    BY <2>1, <2>2, AvlAssumption DEF Witness
<1>2. Len(q) \in Nat
  BY LenProperties DEF Trail
<1>3. ASSUME NEW i \in 1..(Len(q) - 1)
      PROVE  /\ br[i] \in Side /\ i + 1 \in 1..Len(q) /\ i \in 1..Len(q)
             /\ sub[q[i + 1]] \subseteq sub[q[i]] /\ Beside(sub[q[i + 1]], q[i], br[i])
  <2>1. i + 1 \in 1..Len(q) /\ i \in 1..Len(q) /\ br[i] \in Side /\ q[i + 1] = t.kid[q[i]][br[i]]
    BY <1>2 DEF Trail
  <2>2. Witness(t, q[i], sub, dep) /\ q[i] # null
    BY <1>1, <2>1, AvlAssumption
  <2>3. Forks(t, sub, dep, q[i], br[i])
    BY <2>1, <2>2, WithinKid
  <2> QED
    BY <2>1, <2>3, Zenon DEF Forks
<1>4. ASSUME NEW i \in 1..Len(q) PROVE \A j \in i..Len(q) : sub[q[j]] \subseteq sub[q[i]]
  <2> DEFINE P == {n \in Nat : i + n <= Len(q) => sub[q[i + n]] \subseteq sub[q[i]]}
  <2>1. 0 \in P
    OBVIOUS
  <2>2. ASSUME NEW n \in Nat, n \in P PROVE n + 1 \in P
    <3> DEFINE k == i + n
    <3> SUFFICES ASSUME k + 1 <= Len(q) PROVE sub[q[k + 1]] \subseteq sub[q[i]]
      <4>1. i + (n + 1) = k + 1
        OBVIOUS
      <4> QED
        BY <4>1
    <3>1. k \in 1..(Len(q) - 1) /\ sub[q[k]] \subseteq sub[q[i]]
      BY <1>2, <2>2
    <3> HIDE DEF k
    <3> QED
      BY <1>3, <3>1
  <2>3. Nat \subseteq P
    <3> HIDE DEF P
    <3> QED
      BY <2>1, <2>2, AllNaturals
  <2> TAKE j \in i..Len(q)
  <2>4. j - i \in P /\ i + (j - i) = j
    BY <1>2, <2>3
  <2> QED
    BY <1>2, <2>4
<1>5. ASSUME NEW i \in 1..Len(q), NEW j \in 1..Len(q), i < j
      PROVE  /\ br[i] \in Side /\ Beside(sub[q[j]], q[i], br[i]) /\ q[i] \notin sub[q[j]]
  <2>1. i \in 1..(Len(q) - 1) /\ i + 1 \in 1..Len(q) /\ j \in (i + 1)..Len(q)
    BY <1>2, <1>5
  <2>2. /\ br[i] \in Side /\ Beside(sub[q[i + 1]], q[i], br[i])
        /\ sub[q[j]] \subseteq sub[q[i + 1]]
    BY <1>3, <1>4, <2>1
  <2>3. Beside(sub[q[j]], q[i], br[i])
    BY <2>2 DEF Beside
  <2> QED
    BY <1>1, <2>2, <2>3, NotBeside
<1>6. \A i, j \in 1..Len(q) : i <= j => sub[q[j]] \subseteq sub[q[i]]
  BY <1>2, <1>4
<1> QED
  BY <1>1, <1>5, <1>6 DEF Nested

\* The subtrees beside the way hold no node of it.
LEMMA OffTrail ==
    ASSUME NEW t, NEW h, NEW sub, NEW dep, Witness(t, h, sub, dep), NEW q, NEW br,
           Trail(t, q, br), q # <<>> => q[1] = h, NEW i \in 1..(Len(q) - 1), NEW j \in 1..Len(q)
    PROVE  q[j] \notin sub[t.kid[q[i]][-br[i]]]
<1>1. Nested(sub, q, br) /\ Len(q) \in Nat
  BY TrailNested, LenProperties DEF Trail
<1>2. /\ i \in 1..Len(q) /\ i + 1 \in 1..Len(q) /\ q[i] \in Elem /\ br[i] \in Side
      /\ Witness(t, q[i], sub, dep) /\ q[i] # null
  <2>1. i \in 1..Len(q) /\ i + 1 \in 1..Len(q) /\ br[i] \in Side
    BY <1>1 DEF Trail
  <2>2. Witness(t, q[i], sub, dep)
    BY <2>1, TrailIn
  <2> QED
    BY <1>1, <2>1, <2>2, AvlAssumption DEF Nested
<1>3. /\ sub[t.kid[q[i]][-br[i]]] \subseteq sub[q[i]]
      /\ Beside(sub[t.kid[q[i]][-br[i]]], q[i], -br[i]) /\ -br[i] \in Side /\ br[i] # -br[i]
  <2>1. Forks(t, sub, dep, q[i], br[i])
    BY ONLY <1>2, WithinKid
  <2> QED
    BY <2>1, Zenon DEF Forks
<1>4. CASE j < i
  BY ONLY <1>1, <1>2, <1>3, <1>4 DEF Nested
<1>5. CASE j = i
  BY <1>2, <1>3, <1>5, NotBeside
<1>6. CASE j > i
  <2>1. q[j] \in sub[q[j]] /\ Beside(sub[q[j]], q[i], br[i])
    BY <1>1, <1>2, <1>6 DEF Nested
  <2> QED
    BY <1>3, <2>1 DEF Beside
<1> QED
  BY <1>1, <1>2, <1>4, <1>5, <1>6
-----------------------------------------------------------------------------
(* The searches.                                                             *)

Stops(e, k, st) == KeyOf[e] = k /\ Equal(st)
Turn(e, k, st) == IF KeyOf[e] = k THEN -TargetCmp(st) ELSE Sign(k - KeyOf[e])

\* What each kind of search is for.
LEMMA SearchTypes ==
    ASSUME NEW st \in SearchType
    PROVE  /\ TargetCmp(st) \in {-1, 0, 1} /\ Equal(st) \in BOOLEAN
           /\ ~Equal(st) => TargetCmp(st) \in Side /\ -TargetCmp(st) \in Side
<1>1. TargetCmp(st) \in {-1, 0, 1} /\ Equal(st) \in BOOLEAN
  BY DEF SearchType, TargetCmp, Equal
<1>2. ~Equal(st) => TargetCmp(st) \in Side
  BY DEF SearchType, TargetCmp, Equal, Side, less, greater
<1> QED
  BY <1>1, <1>2, Sides

\* What the sign of a difference says of the two numbers.
LEMMA SignIs ==
    ASSUME NEW m \in Int, NEW n \in Int
    PROVE  /\ Sign(m - n) \in Int /\ (m # n => Sign(m - n) \in Side)
           /\ (Sign(m - n) = 1 <=> n < m) /\ (Sign(m - n) = -1 <=> m < n)
           /\ (Sign(m - n) = 0 <=> m = n)
BY DEF Sign, Side, less, greater

\* Keys are numbers.
LEMMA KeyIs ==
    ASSUME NEW e \in Elem
    PROVE  KeyOf[e] \in Nat
BY AvlAssumption

\* A turn is towards one side, unless the search stops.
LEMMA TurnIs ==
    ASSUME NEW e \in Elem, NEW k \in Nat, NEW st \in SearchType, ~Stops(e, k, st)
    PROVE  Turn(e, k, st) \in Side
<1>1. k \in Int /\ KeyOf[e] \in Int
  BY KeyIs
<1>2. KeyOf[e] # k => Sign(k - KeyOf[e]) \in Side
  BY <1>1, SignIs
<1> QED
  BY <1>2, SearchTypes DEF Stops, Turn

\* The way down of a search.
Down(t, q, k, st) ==
  /\ q \in Seq(Elem) /\ (q = <<>> <=> t.root = null) /\ (q # <<>> => q[1] = t.root)
  /\ \A i \in 1..(Len(q) - 1) : /\ ~Stops(q[i], k, st)
                                /\ q[i + 1] = t.kid[q[i]][Turn(q[i], k, st)]
  /\ q # <<>> => \/ Stops(q[Len(q)], k, st)
                 \/ t.kid[q[Len(q)]][Turn(q[Len(q)], k, st)] = null

\* What the fields of a tree can be.
LEMMA TreeIs ==
    ASSUME NEW t \in Tree
    PROVE  /\ t.root \in Handle
           /\ \A e \in Elem : /\ t.bf[e] \in -1..1 /\ t.kid[e] \in [Side -> Handle]
                              /\ \A s \in Side : t.kid[e][s] \in Handle
BY DEF Tree

\* The way down that a search takes stays in the tree and turns at each node
\* as it must.
LEMMA DescentIs ==
    ASSUME NEW t \in Tree, NEW sub, NEW dep, Witness(t, t.root, sub, dep),
           NEW k \in Nat, NEW st \in SearchType, NEW q, q = Descent(t, k, st)
    PROVE  Down(t, q, k, st) /\ StaysOn(q, sub[t.root])
<1> DEFINE next == Toward(t, k, st)
<1>1. \A e \in Elem : next[e] = IF Stops(e, k, st) THEN null ELSE t.kid[e][Turn(e, k, st)]
  BY AvlAssumption DEF Toward, Stops, Turn, Handle
<1>2. \A g \in Handle : next[g] \in Handle
  <2>1. next[null] = null
    BY DEF Toward, Handle
  <2> HIDE DEF next
  <2>2. \A e \in Elem : next[e] \in Handle
    BY <1>1, TurnIs, TreeIs DEF Handle
  <2> QED
    BY <2>1, <2>2 DEF Handle
<1>3. next \in [Handle -> Handle]
  BY <1>2 DEF Toward
<1> HIDE DEF next
<1>4. sub[t.root] \in SUBSET Elem
  BY DEF Witness, Measures
<1>5. Follows(t, next, sub[t.root])
  BY <1>1, <1>3, <1>4, TurnIs DEF Follows
<1>6. IsWay(q, next, t.root) /\ StaysOn(q, sub[t.root])
  BY <1>5, WayInTree DEF Descent, next
<1>7. \A i \in 1..Len(q) : q[i] \in Elem
  BY <1>6, LenProperties DEF IsWay
<1>8. Len(q) \in Nat /\ (q # <<>> => Len(q) \in 1..Len(q))
  BY <1>6, LenProperties, EmptySeq DEF IsWay
<1>9. ASSUME NEW i \in 1..(Len(q) - 1)
      PROVE  ~Stops(q[i], k, st) /\ q[i + 1] = t.kid[q[i]][Turn(q[i], k, st)]
  <2>1. q[i + 1] = next[q[i]] /\ q[i] \in Elem /\ q[i + 1] \in Elem
    BY ONLY <1>6, <1>7, <1>8 DEF IsWay
  <2> QED
    BY <1>1, <2>1, AvlAssumption
<1>10. q # <<>> => \/ Stops(q[Len(q)], k, st)
                   \/ t.kid[q[Len(q)]][Turn(q[Len(q)], k, st)] = null
  BY <1>1, <1>6, <1>7, <1>8 DEF IsWay
<1> QED
  BY <1>6, <1>9, <1>10 DEF Down, IsWay

\* It is a way through the tree.
LEMMA DownTrail ==
    ASSUME NEW t, NEW q, NEW k \in Nat, NEW st \in SearchType, Down(t, q, k, st)
    PROVE  /\ Trail(t, q, [i \in 1..Len(q) |-> Turn(q[i], k, st)])
           /\ \A br : (\A i \in 1..(Len(q) - 1) : br[i] = Turn(q[i], k, st)) => Trail(t, q, br)
<1>1. Len(q) \in Nat /\ \A i \in 1..Len(q) : q[i] \in Elem
  BY LenProperties DEF Down
<1>2. \A i \in 1..(Len(q) - 1) : i \in 1..Len(q) /\ Turn(q[i], k, st) \in Side
  BY <1>1, TurnIs DEF Down
<1> QED
  BY <1>2 DEF Trail, Down

\* The nodes in S that would do, and the best of them.
Fit(S, k, st) ==
  {e \in S : \/ Equal(st) /\ KeyOf[e] = k
             \/ TargetCmp(st) # 0 /\ Sign(k - KeyOf[e]) = TargetCmp(st)}
NoBetter(f, e, st) == (KeyOf[f] - KeyOf[e]) * TargetCmp(st) <= 0
Best(S, k, st, e) == e \in Fit(S, k, st) /\ \A f \in Fit(S, k, st) : NoBetter(f, e, st)

\* What fits among the nodes is what is good.
LEMMA GoodFits ==
    ASSUME NEW e \in Elem, NEW S, NEW k \in Nat, NEW st \in SearchType
    PROVE  e \in Fit(S, k, st) <=> e \in S /\ Good(e, k, st)
BY ONLY SearchTypes, SignIs, KeyIs, SMTT(30) DEF Fit, Good

\* To be no better is to have a key that is no greater, or no less, by the
\* type of search.
LEMMA NoBetterIs ==
    ASSUME NEW e \in Elem, NEW f \in Elem, NEW st \in SearchType
    PROVE  /\ TargetCmp(st) = 1 => (NoBetter(f, e, st) <=> KeyOf[f] <= KeyOf[e])
           /\ TargetCmp(st) = -1 => (NoBetter(f, e, st) <=> KeyOf[f] >= KeyOf[e])
           /\ TargetCmp(st) = 0 => NoBetter(f, e, st)
BY KeyIs DEF NoBetter

\* The search stops at a node than which there is no better one.
LEMMA StopIsBest ==
    ASSUME NEW S \in SUBSET Elem, NEW e \in S, NEW k \in Nat, NEW st \in SearchType,
           Stops(e, k, st)
    PROVE  Best(S, k, st, e)
<1>1. e \in Fit(S, k, st)
  BY DEF Fit, Stops
<1>2. ASSUME NEW f \in Fit(S, k, st) PROVE NoBetter(f, e, st)
  <2>1. f \in Elem /\ e \in Elem /\ KeyOf[f] \in Nat /\ KeyOf[e] = k
        /\ (KeyOf[f] = k \/ Sign(k - KeyOf[f]) = TargetCmp(st))
    BY KeyIs DEF Fit, Stops
  <2>2. \/ TargetCmp(st) = 0
        \/ TargetCmp(st) = 1 /\ KeyOf[f] <= KeyOf[e]
        \/ TargetCmp(st) = -1 /\ KeyOf[f] >= KeyOf[e]
    <3>1. TargetCmp(st) \in {-1, 0, 1}
      BY SearchTypes
    <3> QED
      BY <2>1, <3>1 DEF Sign
  <2> QED
    BY <2>1, <2>2, NoBetterIs
<1> QED
  BY <1>1, <1>2 DEF Best

\* The search goes on from e, a node of S, to those in A.
TurnRight(e, A, S, k, st) ==
  /\ Fit(A, k, st) \subseteq Fit(S, k, st)
  /\ ~Good(e, k, st) => Fit(S, k, st) = Fit(A, k, st)
  /\ Good(e, k, st) => /\ e \in Fit(S, k, st)
                       /\ \A f \in Fit(S, k, st) \ Fit(A, k, st) : NoBetter(f, e, st)
                       /\ \A f \in Fit(S, k, st) \ Fit(A, k, st), x \in A : NoBetter(f, x, st)

\* Where the search turns to the nodes in A, the others on the way, e and those
\* in B, are only of interest if it finds nothing better.
LEMMA TurnIsRight ==
    ASSUME NEW e \in Elem, NEW A \in SUBSET Elem, NEW B \in SUBSET Elem, NEW k \in Nat,
           NEW st \in SearchType, ~Stops(e, k, st),
           NEW c, c = Turn(e, k, st), Beside(A, e, c), Beside(B, e, -c), NEW S,
           S = A \union B \union {e}
    PROVE  TurnRight(e, A, S, k, st)
<1>1. Fit(A, k, st) \subseteq Fit(S, k, st)
  BY DEF Fit
<1>2. c \in Side /\ -c \in Side /\ c # -c /\ ((c = -1 /\ -c = 1) \/ (c = 1 /\ -c = -1))
  <2>1. c \in Side
    BY TurnIs
  <2>2. -c \in Side /\ c # -c /\ ((c = less /\ -c = greater) \/ (c = greater /\ -c = less))
    BY <2>1, Sides
  <2>3. less = -1 /\ greater = 1
    BY DEF less, greater
  <2> QED
    BY <2>1, <2>2, <2>3
<1>3. \A x \in A : KeyOf[x] \in Nat /\ (c = 1 => KeyOf[x] > KeyOf[e]) /\ (c = -1 => KeyOf[x] < KeyOf[e])
  BY KeyIs DEF Beside, Sign
<1>4. \A x \in B : KeyOf[x] \in Nat /\ (c = 1 => KeyOf[x] < KeyOf[e]) /\ (c = -1 => KeyOf[x] > KeyOf[e])
  BY <1>2, KeyIs DEF Beside, Sign
<1>5. KeyOf[e] \in Nat
  BY KeyIs
<1>6. ASSUME ~Good(e, k, st) PROVE Fit(S, k, st) = Fit(A, k, st)
  <2>1. e \notin Fit(S, k, st)
    BY <1>6, GoodFits
  <2>2. ASSUME NEW x \in B PROVE ~Good(x, k, st)
    <3>1. CASE KeyOf[e] = k
      <4>1. ~Equal(st) /\ c = -TargetCmp(st) /\ TargetCmp(st) \in Side
        BY <1>6, <3>1, SearchTypes DEF Good, Turn
      <4>2. -c = TargetCmp(st)
        BY <4>1, Sides
      <4>3. KeyOf[x] \in Nat /\ (TargetCmp(st) = 1 => KeyOf[x] > k) /\ (TargetCmp(st) = -1 => KeyOf[x] < k)
            /\ (TargetCmp(st) = 1 \/ TargetCmp(st) = -1)
        BY ONLY <1>2, <1>4, <3>1, <4>2
      <4> QED
        BY <4>3 DEF Good, Sign
    <3>2. CASE KeyOf[e] # k
      <4>1. c = Sign(k - KeyOf[e]) /\ c # TargetCmp(st)
        BY <1>6, <3>2 DEF Good, Turn
      <4>2. KeyOf[x] \in Nat /\ (c = 1 => KeyOf[x] < k) /\ (c = -1 => KeyOf[x] > k)
        BY ONLY <1>2, <1>4, <1>5, <4>1 DEF Sign
      <4> QED
        BY <1>2, <4>1, <4>2 DEF Good, Sign
    <3> QED
      BY <3>1, <3>2
  <2>3. \A x \in B : x \notin Fit(S, k, st)
    BY <2>2, GoodFits
  <2> QED
    BY <2>1, <2>3 DEF Fit
<1>7. ASSUME Good(e, k, st)
      PROVE  /\ e \in Fit(S, k, st)
             /\ \A f \in Fit(S, k, st) \ Fit(A, k, st) : NoBetter(f, e, st)
             /\ \A f \in Fit(S, k, st) \ Fit(A, k, st), x \in A : NoBetter(f, x, st)
  <2>1. c = TargetCmp(st)
    BY <1>7 DEF Good, Stops, Turn
  <2>2. \A f \in Fit(S, k, st) \ Fit(A, k, st) : f \in B \union {e} /\ f \in Elem
    BY DEF Fit
  <2>3. \A f \in B \union {e} : NoBetter(f, e, st)
    BY ONLY <1>2, <1>4, <1>5, <2>1, NoBetterIs
  <2>4. ASSUME NEW f \in B \union {e}, NEW x \in A PROVE NoBetter(f, x, st)
    <3>1. KeyOf[f] \in Nat /\ (c = 1 => KeyOf[f] <= KeyOf[e]) /\ (c = -1 => KeyOf[f] >= KeyOf[e])
      BY <1>4, <1>5
    <3>2. (c = 1 => KeyOf[f] <= KeyOf[x]) /\ (c = -1 => KeyOf[f] >= KeyOf[x])
      BY <1>3, <1>5, <3>1
    <3> QED
      BY ONLY <1>2, <2>1, <3>2, NoBetterIs
  <2>5. e \in Fit(S, k, st)
    BY <1>7, GoodFits
  <2> QED
    BY <2>2, <2>3, <2>4, <2>5
<1> QED
  BY <1>1, <1>6, <1>7 DEF TurnRight

\* Down from n.
LEMMA Downward ==
    ASSUME NEW n \in Nat, NEW P, n >= 1 => n \in P,
           \A i \in 1..(n - 1) : i + 1 \in P => i \in P
    PROVE  1..n \subseteq P
<1> DEFINE Q == {m \in Nat : n - m >= 1 => n - m \in P}
<1>1. 0 \in Q
  OBVIOUS
<1>2. ASSUME NEW m \in Nat, m \in Q PROVE m + 1 \in Q
  <2> SUFFICES ASSUME n - (m + 1) >= 1 PROVE n - (m + 1) \in P
    OBVIOUS
  <2> DEFINE i == n - (m + 1)
  <2>1. i \in 1..(n - 1) /\ i + 1 = n - m /\ i + 1 \in P
    BY <1>2
  <2> HIDE DEF i
  <2>2. i \in P
    BY <2>1
  <2> QED
    BY <2>2 DEF i
<1>3. Nat \subseteq Q
  <2> HIDE DEF Q
  <2> QED
    BY <1>1, <1>2, AllNaturals
<1> SUFFICES ASSUME NEW i \in 1..n PROVE i \in P
  OBVIOUS
<1>4. n - i \in Q /\ n - (n - i) = i
  BY <1>3
<1> QED
  BY <1>4

LastGood(q, m, k, st) ==
  Good(q[m], k, st) /\ \A j \in (m + 1)..Len(q) : ~Good(q[j], k, st)

\* The last good node among those from place i of the way on is the best of S.
Settles(q, S, i, k, st) ==
  /\ (\A j \in i..Len(q) : ~Good(q[j], k, st)) => Fit(S, k, st) = {}
  /\ \A m \in i..Len(q) : LastGood(q, m, k, st) => Best(S, k, st, q[m])

\* Where a search does not stop at a node, what it finds from the next one
\* on is the best below the node as well: nothing on the other side is
\* better.
LEMMA SettlesAbove ==
    ASSUME NEW q \in Seq(Elem), NEW i \in 1..Len(q), NEW A \in SUBSET Elem,
           NEW B \in SUBSET Elem, NEW k \in Nat, NEW st \in SearchType, ~Stops(q[i], k, st),
           NEW c, c = Turn(q[i], k, st), Beside(A, q[i], c), Beside(B, q[i], -c),
           NEW S, S = A \union B \union {q[i]}, NEW n, n = i + 1, Settles(q, A, n, k, st)
    PROVE  Settles(q, S, i, k, st)
<1> DEFINE e == q[i]
<1>1. Len(q) \in Nat /\ e \in Elem
  BY LenProperties
<1> HIDE DEF e
<1>2. /\ Fit(A, k, st) \subseteq Fit(S, k, st)
      /\ ~Good(e, k, st) => Fit(S, k, st) = Fit(A, k, st)
      /\ Good(e, k, st) => /\ e \in Fit(S, k, st)
                           /\ \A f \in Fit(S, k, st) \ Fit(A, k, st) : NoBetter(f, e, st)
                           /\ \A f \in Fit(S, k, st) \ Fit(A, k, st), x \in A : NoBetter(f, x, st)
  <2>1. ~Stops(e, k, st) /\ c = Turn(e, k, st) /\ S = A \union B \union {e}
    BY DEF e
  <2>2. Beside(A, e, c) /\ Beside(B, e, -c)
    BY DEF e
  <2>3. TurnRight(e, A, S, k, st)
    BY ONLY <1>1, <2>1, <2>2, TurnIsRight
  <2> QED
    BY <2>3 DEF TurnRight
<1>3. ASSUME \A j \in i..Len(q) : ~Good(q[j], k, st) PROVE Fit(S, k, st) = {}
  <2>1. ~Good(e, k, st) /\ \A j \in n..Len(q) : ~Good(q[j], k, st)
    BY <1>1, <1>3 DEF e
  <2> QED
    BY <1>2, <2>1 DEF Settles
<1>4. ASSUME NEW m \in i..Len(q), LastGood(q, m, k, st) PROVE Best(S, k, st, q[m])
  <2>1. CASE m = i
    <3>1. Good(e, k, st) /\ Fit(A, k, st) = {}
      BY <1>4, <2>1 DEF LastGood, Settles, e
    <3> QED
      BY <1>2, <2>1, <3>1 DEF Best, e
  <2>2. CASE m # i
    <3>1. m \in n..Len(q)
      BY <1>1, <2>2
    <3>2. Best(A, k, st, q[m])
      BY <1>4, <3>1 DEF Settles
    <3>3. q[m] \in A /\ q[m] \in Fit(S, k, st) /\ \A f \in Fit(A, k, st) : NoBetter(f, q[m], st)
      BY ONLY <1>2, <3>2 DEF Best, Fit
    <3>4. \A f \in Fit(S, k, st) : NoBetter(f, q[m], st)
      BY <1>2, <3>3
    <3> QED
      BY <3>3, <3>4 DEF Best
  <2> QED
    BY <2>1, <2>2
<1> QED
  BY <1>3, <1>4 DEF Settles

\* So what it finds on its way from the root on is the best in all of the
\* tree.
LEMMA SettlesAll ==
    ASSUME NEW t \in Tree, NEW sub, NEW dep, Witness(t, t.root, sub, dep),
           NEW k \in Nat, NEW st \in SearchType, NEW q, q = Descent(t, k, st)
    PROVE  Settles(q, sub[t.root], 1, k, st)
<1>1. Down(t, q, k, st) /\ StaysOn(q, sub[t.root])
  BY DescentIs
<1>2. /\ q \in Seq(Elem) /\ Len(q) \in Nat /\ (q = <<>> <=> Len(q) = 0)
      /\ \A i \in 1..Len(q) : q[i] \in Elem /\ q[i] # null
  BY ONLY <1>1, LenProperties, EmptySeq, AvlAssumption DEF Down
<1>3. ASSUME NEW i \in 1..Len(q) PROVE Witness(t, q[i], sub, dep)
  BY <1>1, Within DEF StaysOn
<1> DEFINE P == {i \in 1..Len(q) : Settles(q, sub[q[i]], i, k, st)}
<1>4. ASSUME NEW i \in 1..Len(q), ~Stops(q[i], k, st),
             NEW n, n = i + 1, NEW c, c = Turn(q[i], k, st),
             Settles(q, sub[t.kid[q[i]][c]], n, k, st)
      PROVE  i \in P
  <2>1. c \in Side
    BY <1>2, <1>4, TurnIs
  <2>2. Forks(t, sub, dep, q[i], c)
    BY <1>2, <1>3, <2>1, WithinKid
  <2> DEFINE A == sub[t.kid[q[i]][c]]
             B == sub[t.kid[q[i]][-c]]
  <2>3. /\ A \in SUBSET Elem /\ B \in SUBSET Elem /\ Beside(A, q[i], c) /\ Beside(B, q[i], -c)
        /\ sub[q[i]] = A \union B \union {q[i]}
    BY ONLY <2>2, Zenon DEF Forks, Witness, Measures
  <2> HIDE DEF A, B
  <2>4. Settles(q, A, n, k, st)
    BY <1>4 DEF A
  <2> QED
    BY <1>2, <1>4, <2>3, <2>4, SettlesAbove
<1>5. Len(q) >= 1 => Len(q) \in P
  <2> SUFFICES ASSUME Len(q) >= 1 PROVE Len(q) \in P
    OBVIOUS
  <2> DEFINE n == Len(q)
             e == q[n]
  <2>1. n \in 1..Len(q) /\ e \in Elem /\ q # <<>>
    BY <1>2
  <2>2. CASE Stops(e, k, st)
    <3>1. sub[e] \in SUBSET Elem /\ e \in sub[e]
      BY <1>2, <1>3, <2>1 DEF Witness, Measures
    <3>2. Best(sub[e], k, st, e)
      BY <2>2, <3>1, StopIsBest
    <3>3. Good(e, k, st)
      BY <2>2 DEF Good, Stops
    <3>4. \A j \in n..Len(q) : j = n
      BY ONLY <1>2
    <3> QED
      BY <2>1, <3>2, <3>3, <3>4 DEF Settles
  <2>3. CASE ~Stops(e, k, st)
    <3>1. t.kid[e][Turn(e, k, st)] = null
      BY ONLY <1>1, <2>1, <2>3 DEF Down
    <3>2. sub[null] = {} /\ Fit({}, k, st) = {}
      BY <1>2, <1>3, <2>1 DEF Witness, Measures, Fit
    <3>3. (n + 1)..Len(q) = {}
      BY <1>2
    <3>4. Settles(q, sub[t.kid[e][Turn(e, k, st)]], n + 1, k, st)
      BY <3>1, <3>2, <3>3 DEF Settles
    <3> QED
      BY <1>4, <2>1, <2>3, <3>4
  <2> QED
    BY <2>2, <2>3
<1>6. ASSUME NEW i \in 1..(Len(q) - 1), i + 1 \in P PROVE i \in P
  <2>1. i \in 1..Len(q) /\ ~Stops(q[i], k, st) /\ q[i + 1] = t.kid[q[i]][Turn(q[i], k, st)]
    BY <1>1, <1>2 DEF Down
  <2>2. Settles(q, sub[t.kid[q[i]][Turn(q[i], k, st)]], i + 1, k, st)
    BY <1>6, <2>1
  <2> QED
    BY <1>4, <2>1, <2>2
<1>7. 1..Len(q) \subseteq P
  <2> HIDE DEF P
  <2> QED
    BY <1>2, <1>5, <1>6, Downward
<1>8. CASE Len(q) = 0
  <2>1. sub[t.root] = {} /\ 1..Len(q) = {}
    BY <1>1, <1>2, <1>8 DEF Down, Witness, Measures
  <2> QED
    BY <2>1 DEF Settles, Fit
<1>9. CASE Len(q) # 0
  <2>1. 1 \in P /\ q[1] = t.root
    BY <1>1, <1>2, <1>7, <1>9 DEF Down
  <2> QED
    BY ONLY <2>1
<1> QED
  BY <1>8, <1>9

\* Where search() ends on its way.
MatchIs(m, q, S, k, st) ==
  /\ m \in 0..Len(q)
  /\ m = 0 => Fit(S, k, st) = {}
  /\ m # 0 => Best(S, k, st, q[m]) /\ Good(q[m], k, st)

\* The place a search returns is that of the best node of its way.
LEMMA MatchEnds ==
    ASSUME NEW t \in Tree, NEW sub, NEW dep, Witness(t, t.root, sub, dep),
           NEW k \in Nat, NEW st \in SearchType
    PROVE  MatchIs(Match(t, k, st), Descent(t, k, st), sub[t.root], k, st)
<1> DEFINE q == Descent(t, k, st)
           good == {i \in DOMAIN q : Good(q[i], k, st)}
           m == CHOOSE i \in good : \A j \in good : j <= i
<1>1. Settles(q, sub[t.root], 1, k, st)
  BY SettlesAll
<1>2. Len(q) \in Nat /\ DOMAIN q = 1..Len(q)
  <2>1. q \in Seq(Elem)
    BY DescentIs DEF Down
  <2> HIDE DEF q
  <2> QED
    BY <2>1, LenProperties
<1>3. Match(t, k, st) = IF good = {} THEN 0 ELSE m
  BY DEF Match
<1> HIDE DEF q
<1>4. CASE good = {}
  <2>1. \A j \in 1..Len(q) : ~Good(q[j], k, st)
    BY ONLY <1>2, <1>4
  <2> QED
    BY <1>1, <1>2, <1>3, <1>4, <2>1 DEF Settles, MatchIs, q
<1>5. CASE good # {}
  <2> DEFINE gaps == {Len(q) - i : i \in good}
  <2>1. gaps \in SUBSET Nat /\ gaps # {}
    BY <1>2, <1>5
  <2>2. PICK g \in gaps : \A f \in gaps : g <= f
    <3> HIDE DEF gaps
    <3> QED
      BY <2>1, LeastNatural
  <2>3. PICK i \in good : g = Len(q) - i
    OBVIOUS
  <2>4. ASSUME NEW j \in good PROVE j <= i
    <3>1. i \in Nat /\ j \in Nat
      BY <1>2
    <3>2. Len(q) - j \in gaps
      OBVIOUS
    <3>3. Len(q) - i <= Len(q) - j
      <4> HIDE DEF gaps, good
      <4> QED
        BY <2>2, <2>3, <3>2
    <3> QED
      BY <1>2, <3>1, <3>3
  <2>5. m \in good /\ \A j \in good : j <= m
    <3> HIDE DEF good
    <3> QED
      BY <2>3, <2>4
  <2> HIDE DEF m
  <2>6. m \in 1..Len(q) /\ Good(q[m], k, st)
    BY <1>2, <2>5
  <2>7. \A j \in (m + 1)..Len(q) : ~Good(q[j], k, st)
    BY ONLY <1>2, <2>5, <2>6
  <2>8. Best(sub[t.root], k, st, q[m])
    BY <1>1, <2>6, <2>7 DEF Settles, LastGood
  <2> QED
    BY <1>2, <1>3, <1>5, <2>6, <2>8 DEF MatchIs, q
<1> QED
  BY <1>4, <1>5

\* What search() answers with.
SearchIs(e, S, k, st) == IF Fit(S, k, st) = {} THEN e = null ELSE e \in Elem /\ Best(S, k, st, e)

\* And so a search finds the best node of the tree.
LEMMA SearchEnds ==
    ASSUME NEW t \in Tree, NEW sub, NEW dep, Witness(t, t.root, sub, dep),
           NEW k \in Nat, NEW st \in SearchType
    PROVE  SearchIs(Search(t, k, st), sub[t.root], k, st)
<1> DEFINE q == Descent(t, k, st)
           m == Match(t, k, st)
<1>1. MatchIs(m, q, sub[t.root], k, st)
  BY MatchEnds
<1>2. \A i \in 1..Len(q) : q[i] \in Elem
  <2>1. q \in Seq(Elem)
    BY DescentIs DEF Down
  <2> HIDE DEF q
  <2> QED
    BY <2>1, LenProperties
<1>3. Search(t, k, st) = IF m = 0 THEN null ELSE q[m]
  BY DEF Search
<1> HIDE DEF q, m
<1>4. m # 0 => m \in 1..Len(q)
  BY <1>1 DEF MatchIs
<1> QED
  BY ONLY <1>1, <1>2, <1>3, <1>4 DEF MatchIs, SearchIs, Best

Unlike(S) == \A x, y \in S : KeyOf[x] = KeyOf[y] => x = y

\* No two nodes of a tree have the same key.
LEMMA AvlUnlike ==
    ASSUME NEW t, NEW h, NEW S, NEW d, Avl(t, h, S, d)
    PROVE  Unlike(S)
<1> DEFINE P == {n \in Nat : \A g, T : Avl(t, g, T, n) => Unlike(T)}
<1>1. ASSUME NEW n \in Nat, \A m \in 0..(n - 1) : m \in P PROVE n \in P
  <2> SUFFICES ASSUME NEW g, NEW T, Avl(t, g, T, n) PROVE Unlike(T)
    OBVIOUS
  <2>1. CASE g = null
    BY <2>1, AvlNull DEF Unlike
  <2>2. CASE g # null
    <3>1. PICK A, da, B, db : /\ Parts(t, g, less, A, da, B, db)
                              /\ T = A \union B \union {g} /\ n = 1 + Deeper(da, db)
      BY <2>2, Split, Sides DEF Side
    <3>2. da \in Nat /\ db \in Nat /\ g \in Elem /\ A \in SUBSET Elem /\ B \in SUBSET Elem
      BY <2>2, <3>1, AvlType DEF Parts
    <3>3. da \in 0..(n - 1) /\ db \in 0..(n - 1)
      BY <3>1, <3>2 DEF Deeper
    <3>4. Unlike(A) /\ Unlike(B)
      BY ONLY <1>1, <3>1, <3>3 DEF Parts
    <3>5. \A x \in A : KeyOf[x] \in Nat /\ KeyOf[g] \in Nat /\ KeyOf[x] < KeyOf[g]
      BY <3>1, <3>2, KeyIs, SignIs DEF Parts, Beside, less
    <3>6. \A x \in B : KeyOf[x] \in Nat /\ KeyOf[x] > KeyOf[g]
      <4>1. Beside(B, g, 1)
        BY <3>1 DEF Parts, less
      <4> QED
        BY <3>2, <4>1, KeyIs, SignIs DEF Beside
    <3> QED
      BY ONLY <3>1, <3>4, <3>5, <3>6 DEF Unlike
  <2> QED
    BY <2>1, <2>2
<1>2. Nat \subseteq P
  <2> HIDE DEF P
  <2> QED
    BY <1>1, StrongNaturals
<1>3. d \in Nat
  BY AvlType
<1> QED
  BY <1>2, <1>3

\* There is only one best answer.
LEMMA OneBest ==
    ASSUME NEW S \in SUBSET Elem, Unlike(S), NEW k \in Nat, NEW st \in SearchType,
           NEW e, NEW f, Best(S, k, st, e), Best(S, k, st, f)
    PROVE  e = f
<1>1. e \in S /\ f \in S /\ KeyOf[e] \in Nat /\ KeyOf[f] \in Nat /\ e \in Elem /\ f \in Elem
  BY KeyIs DEF Best, Fit
<1>2. NoBetter(e, f, st) /\ NoBetter(f, e, st)
  BY DEF Best
<1>3. CASE TargetCmp(st) = 0
  BY <1>1, <1>3 DEF Best, Fit, Unlike
<1>4. CASE TargetCmp(st) # 0
  <2>1. TargetCmp(st) = 1 \/ TargetCmp(st) = -1
    BY <1>4, SearchTypes
  <2>2. KeyOf[e] = KeyOf[f]
    BY <1>1, <1>2, <2>1, NoBetterIs
  <2> QED
    BY <1>1, <2>2 DEF Unlike
<1> QED
  BY <1>3, <1>4

\* The tree t holds exactly the nodes in S.
Holds(t, S) == t \in Tree /\ \E d : Avl(t, t.root, S, d)

\* What holds of a tree that holds the nodes S, which have distinct keys.
LEMMA HoldsIs ==
    ASSUME NEW t, NEW S, Holds(t, S)
    PROVE  /\ S \in SUBSET Elem /\ Unlike(S) /\ t \in Tree
           /\ \E sub, dep : Witness(t, t.root, sub, dep) /\ sub[t.root] = S
<1>1. t \in Tree /\ \E d : Avl(t, t.root, S, d)
  BY DEF Holds
<1>2. \E sub, dep : Witness(t, t.root, sub, dep) /\ sub[t.root] = S
  BY <1>1 DEF Avl
<1> QED
  BY <1>1, <1>2, AvlType, AvlUnlike

\* search() answers as documented.
LEMMA SearchAnswers ==
    ASSUME Holds(tree, inside), NEW k \in Nat, NEW st \in SearchType
    PROVE  Search(tree, k, st) = Answer(k, st)
<1>1. inside \in SUBSET Elem /\ Unlike(inside)
  BY HoldsIs
<1>2. SearchIs(Search(tree, k, st), inside, k, st)
  <2>1. PICK sub, dep : Witness(tree, tree.root, sub, dep) /\ sub[tree.root] = inside /\ tree \in Tree
    BY HoldsIs
  <2> QED
    BY <2>1, SearchEnds
<1>3. Answer(k, st) = IF Fit(inside, k, st) = {} THEN null
                      ELSE CHOOSE e \in Fit(inside, k, st) :
                             \A f \in Fit(inside, k, st) : NoBetter(f, e, st)
  BY DEF Answer, Fit, NoBetter
<1>4. CASE Fit(inside, k, st) = {}
  BY <1>2, <1>3, <1>4 DEF SearchIs
<1>5. CASE Fit(inside, k, st) # {}
  <2> DEFINE e == CHOOSE e \in Fit(inside, k, st) : \A f \in Fit(inside, k, st) : NoBetter(f, e, st)
  <2>1. Best(inside, k, st, Search(tree, k, st))
    BY <1>2, <1>5 DEF SearchIs
  <2>2. Best(inside, k, st, e)
    BY <2>1 DEF Best
  <2> HIDE DEF e
  <2>3. Search(tree, k, st) = e
    BY <1>1, <2>1, <2>2, OneBest
  <2> QED
    BY <1>3, <1>5, <2>3 DEF e
<1> QED
  BY <1>4, <1>5

\* A tree that holds what was put in finds it: every search, for every key
\* and type.
LEMMA HoldsSearches == Holds(tree, inside) => SearchesRight
<1> SUFFICES ASSUME Holds(tree, inside), NEW k \in Key \union {k + 1 : k \in Key},
                    NEW st \in SearchType
             PROVE  Search(tree, k, st) = Answer(k, st)
  BY DEF SearchesRight
<1>1. k \in Nat
  BY KeyIs DEF Key
<1> QED
  BY <1>1, SearchAnswers

-----------------------------------------------------------------------------
(* Balancing.                                                                *)

\* What is beyond h is beyond every node before h.
LEMMA Beyond ==
    ASSUME NEW g \in Elem, NEW h \in Elem, NEW s \in Side, NEW B \in SUBSET Elem,
           Beside({g}, h, s), Beside(B, h, -s)
    PROVE  Beside(B \union {h}, g, -s)
<1>1. (s = 1 /\ -s = -1) \/ (s = -1 /\ -s = 1)
  BY Sides DEF less, greater
<1>2. KeyOf[g] \in Nat /\ KeyOf[h] \in Nat /\ \A x \in B : KeyOf[x] \in Nat
  BY KeyIs
<1>3. Sign(KeyOf[g] - KeyOf[h]) = s
  BY DEF Beside
<1>4. CASE s = 1
  <2>1. -s = -1
    BY <1>1, <1>4
  <2>2. KeyOf[h] < KeyOf[g] /\ \A x \in B : KeyOf[x] < KeyOf[h]
    BY <1>2, <1>3, <1>4, <2>1, SignIs DEF Beside
  <2>3. \A x \in B \union {h} : KeyOf[x] \in Nat /\ KeyOf[x] < KeyOf[g]
    BY <1>2, <2>2
  <2>4. \A x \in B \union {h} : Sign(KeyOf[x] - KeyOf[g]) = -1
    BY ONLY <1>2, <2>3, SignIs
  <2> QED
    BY <2>1, <2>4 DEF Beside
<1>5. CASE s = -1
  <2>1. -s = 1
    BY <1>1, <1>5
  <2>2. KeyOf[g] < KeyOf[h] /\ \A x \in B : KeyOf[h] < KeyOf[x]
    BY <1>2, <1>3, <1>5, <2>1, SignIs DEF Beside
  <2>3. \A x \in B \union {h} : KeyOf[x] \in Nat /\ KeyOf[g] < KeyOf[x]
    BY <1>2, <2>2
  <2>4. \A x \in B \union {h} : Sign(KeyOf[x] - KeyOf[g]) = 1
    BY ONLY <1>2, <2>3, SignIs
  <2> QED
    BY <2>1, <2>4 DEF Beside
<1> QED
  BY <1>1, <1>4, <1>5

\* As each of two nodes sees the other.
LEMMA Facing ==
    ASSUME NEW g \in Elem, NEW h \in Elem, NEW s \in Side, Beside({g}, h, s)
    PROVE  Beside({h}, g, -s)
<1>1. Beside({}, h, -s) /\ {} \in SUBSET Elem
  BY DEF Beside
<1> QED
  BY <1>1, Beyond

\* What balance() makes of the node h with A, of depth da, on side s.
Balanced(t, h, A, B, da, b) ==
  /\ b.tree \in Tree /\ b.tree.root = t.root
  /\ b.top \in A /\ b.top \in Elem
  /\ Agree(t, b.tree, Elem \ (A \union {h}))
  /\ Avl(b.tree, b.top, A \union B \union {h}, IF b.tree.bf[b.top] = 0 THEN da ELSE da + 1)
  /\ b.tree.bf[b.top] \in -1..1

\* The single rotation.
Rotated(t, u, h, s, deep) ==
  /\ u \in Tree /\ u.root = t.root
  /\ u.kid[h][s] = t.kid[deep][-s] /\ u.kid[h][-s] = t.kid[h][-s]
  /\ u.kid[deep][-s] = h /\ u.kid[deep][s] = t.kid[deep][s]
  /\ u.bf[h] = IF t.bf[deep] = 0 THEN s ELSE 0
  /\ u.bf[deep] = IF t.bf[deep] = 0 THEN -s ELSE 0
  /\ Agree(t, u, Elem \ {h, deep})

\* A single rotation makes an AVL tree of one that is too deep by one on one
\* side, unless its deeper child leans the other way.
LEMMA RotatedSound ==
    ASSUME NEW t \in Tree, NEW h \in Elem, NEW s \in Side,
           NEW A, NEW da, NEW B, NEW db, Parts(t, h, s, A, da, B, db), da = db + 2,
           NEW deep, deep = t.kid[h][s], t.bf[deep] # -s, NEW u, Rotated(t, u, h, s, deep)
    PROVE  Balanced(t, h, A, B, da, [tree |-> u, top |-> deep])
<1>1. /\ Avl(t, deep, A, da) /\ Avl(t, t.kid[h][-s], B, db)
      /\ Beside(A, h, s) /\ Beside(B, h, -s)
  BY DEF Parts
<1>2. /\ da \in Nat /\ db \in Nat /\ A \in SUBSET Elem /\ B \in SUBSET Elem
      /\ deep # null /\ deep \in A /\ deep \in Elem
  <2>1. da \in Nat /\ db \in Nat /\ A \in SUBSET Elem /\ B \in SUBSET Elem
    BY <1>1, AvlType
  <2>2. deep # null
    BY <1>1, <2>1, AvlNull
  <2> QED
    BY <1>1, <2>1, <2>2, AvlType
<1>3. PICK P, dp, M, dm : /\ Parts(t, deep, s, P, dp, M, dm) /\ Leans(t, deep, s, dp, dm)
                          /\ A = P \union M \union {deep} /\ da = 1 + Deeper(dp, dm)
  BY <1>1, <1>2, Split
<1>4. /\ Avl(t, t.kid[deep][s], P, dp) /\ Avl(t, t.kid[deep][-s], M, dm)
      /\ Beside(P, deep, s) /\ Beside(M, deep, -s)
  BY ONLY <1>3 DEF Parts
<1>5. dp \in Nat /\ dm \in Nat /\ P \in SUBSET Elem /\ M \in SUBSET Elem
  BY <1>4, AvlType
<1>6. /\ s \in Int /\ -s \in Int /\ s # -s /\ -s \in Side
      /\ (s = greater /\ s = 1 /\ -s = -1) \/ (s # greater /\ s = -1 /\ -s = 1)
  BY Sides DEF less, greater
<1>7. \/ t.bf[deep] = 0 /\ dp = db + 1 /\ dm = db + 1
      \/ t.bf[deep] # 0 /\ dp = db + 1 /\ dm = db
  <2>1. t.bf[deep] = IF s = greater THEN dp - dm ELSE dm - dp
    BY ONLY <1>3 DEF Leans
  <2>2. t.bf[deep] \in -1..1
    BY ONLY <1>3 DEF Leans
  <2>3. da = 1 + (IF dp > dm THEN dp ELSE dm)
    BY ONLY <1>3 DEF Deeper
  <2> QED
    BY <1>2, <1>5, <1>6, <2>1, <2>2, <2>3
<1>8. h \notin A /\ h \notin B /\ A \cap B = {} /\ deep \notin P /\ deep \notin M /\ P \cap M = {}
  <2>1. Sized(A, B, h)
    BY SizeIs
  <2>2. Sized(P, M, deep)
    BY ONLY <1>2, <1>3, SizeIs
  <2> QED
    BY <2>1, <2>2 DEF Sized
<1>9. Agree(t, u, P) /\ Agree(t, u, M) /\ Agree(t, u, B)
  BY <1>2, <1>3, <1>5, <1>8 DEF Agree, Rotated
<1>10. /\ Avl(u, u.kid[deep][s], P, dp) /\ Avl(u, u.kid[h][s], M, dm)
       /\ Avl(u, u.kid[h][-s], B, db)
  <2>1. /\ u.kid[deep][s] = t.kid[deep][s] /\ u.kid[h][s] = t.kid[deep][-s]
        /\ u.kid[h][-s] = t.kid[h][-s]
    BY DEF Rotated
  <2> QED
    BY ONLY <1>1, <1>4, <1>9, <2>1, FrameAvl
<1>11. Beside(M, h, s)
  BY <1>1, <1>3 DEF Beside
<1> DEFINE X == M \union B \union {h}
           dx == 1 + Deeper(dm, db)
<1>12. Avl(u, h, X, dx)
  <2>1. Parts(u, h, s, M, dm, B, db)
    BY ONLY <1>1, <1>10, <1>11 DEF Parts
  <2>2. u.bf[h] = IF t.bf[deep] = 0 THEN s ELSE 0
    BY DEF Rotated
  <2>3. Leans(u, h, s, dm, db)
    BY ONLY <1>2, <1>5, <1>6, <1>7, <2>2 DEF Leans
  <2> QED
    BY ONLY <2>1, <2>3, Join
<1>13. Beside(X, deep, -s)
  <2>1. Beside({deep}, h, s)
    BY ONLY <1>1, <1>2 DEF Beside
  <2>2. Beside(B \union {h}, deep, -s)
    BY ONLY <1>1, <1>2, <2>1, Beyond
  <2> QED
    BY ONLY <1>4, <2>2 DEF Beside
<1>14. dx \in Nat /\ dx = IF t.bf[deep] = 0 THEN db + 2 ELSE db + 1
  BY ONLY <1>2, <1>5, <1>7 DEF Deeper
<1> HIDE DEF X, dx
<1>15. Avl(u, deep, P \union X \union {deep}, 1 + Deeper(dp, dx))
  <2>1. Parts(u, deep, s, P, dp, X, dx)
    <3>1. u.kid[deep][-s] = h
      BY DEF Rotated
    <3> QED
      BY ONLY <1>4, <1>10, <1>12, <1>13, <3>1 DEF Parts
  <2>2. u.bf[deep] = IF t.bf[deep] = 0 THEN -s ELSE 0
    BY DEF Rotated
  <2>3. Leans(u, deep, s, dp, dx)
    BY ONLY <1>2, <1>5, <1>6, <1>7, <1>14, <2>2 DEF Leans
  <2> QED
    BY ONLY <1>2, <2>1, <2>3, Join
<1>16. P \union X \union {deep} = A \union B \union {h}
  BY ONLY <1>3 DEF X
<1>17. 1 + Deeper(dp, dx) = IF u.bf[deep] = 0 THEN da ELSE da + 1
  <2>1. u.bf[deep] = 0 <=> t.bf[deep] # 0
    BY <1>6 DEF Rotated
  <2> QED
    BY <1>2, <1>5, <1>7, <1>14, <2>1 DEF Deeper
<1>18. Agree(t, u, Elem \ (A \union {h}))
  BY <1>2 DEF Agree, Rotated
<1>19. u \in Tree /\ u.root = t.root /\ u.bf[deep] \in -1..1
  BY <1>2, TreeIs DEF Rotated
<1> QED
  BY <1>2, <1>15, <1>16, <1>17, <1>18, <1>19 DEF Balanced

\* The double rotation.
Twisted(t, u, h, s, o, deep, mid) ==
  /\ u \in Tree /\ u.root = t.root
  /\ u.kid[h][s] = t.kid[mid][o] /\ u.kid[h][o] = t.kid[h][o]
  /\ u.kid[deep][o] = t.kid[mid][s] /\ u.kid[deep][s] = t.kid[deep][s]
  /\ u.kid[mid][s] = deep /\ u.kid[mid][o] = h
  /\ u.bf[h] = IF t.bf[mid] = s THEN o ELSE 0
  /\ u.bf[deep] = IF t.bf[mid] = o THEN s ELSE 0
  /\ u.bf[mid] = 0
  /\ Agree(t, u, Elem \ {h, deep, mid})

\* A side, the other side, and what of a node h there is deeper by two levels.
Facts(s, o) == /\ s \in Side /\ o \in Side /\ o = -s /\ s = -o /\ s # o
               /\ s \in Int /\ o \in Int
               /\ (s = greater /\ s = 1 /\ o = -1) \/ (s # greater /\ s = -1 /\ o = 1)

Skew(t, h, s, o, A, da, B, db, deep) ==
  /\ t \in Tree /\ h \in Elem /\ Facts(s, o)
  /\ Parts(t, h, s, A, da, B, db) /\ da = db + 2 /\ deep = t.kid[h][s]

\* The nodes of a tree, its depth, and its root.
LEMMA AvlSet == ASSUME NEW t, NEW h, NEW S, NEW d, Avl(t, h, S, d) PROVE S \in SUBSET Elem
BY AvlType

\* A depth is a natural number.
LEMMA AvlDepth == ASSUME NEW t, NEW h, NEW S, NEW d, Avl(t, h, S, d) PROVE d \in Nat
BY AvlType

\* A tree that is not empty has its root among its nodes.
LEMMA AvlRoot ==
    ASSUME NEW t, NEW h, NEW S, NEW d, Avl(t, h, S, d), d # 0
    PROVE  h \in S /\ h \in Elem /\ h # null
<1>1. h # null
  <2>1. ASSUME h = null PROVE FALSE
    <3>1. Avl(t, null, S, d)
      BY <2>1
    <3>2. d = 0
      BY ONLY <3>1, AvlNull
    <3> QED
      BY <3>2
  <2> QED
    BY <2>1
<1> QED
  BY <1>1, AvlType

\* A double rotation makes an AVL tree of one whose deeper child does lean
\* the other way.
LEMMA TwistedSound ==
    ASSUME NEW t, NEW h, NEW s, NEW o, NEW A, NEW da, NEW B, NEW db, NEW deep, NEW mid,
           Skew(t, h, s, o, A, da, B, db, deep), t.bf[deep] = o, mid = t.kid[deep][o]
    PROVE  /\ mid \in Elem /\ deep \in Elem /\ mid # h /\ deep # h /\ mid # deep
           /\ \A u : Twisted(t, u, h, s, o, deep, mid) =>
                       Balanced(t, h, A, B, da, [tree |-> u, top |-> mid])
<1>0. Facts(s, o) /\ h \in Elem /\ t \in Tree /\ da = db + 2
  BY DEF Skew
<1>1. /\ Avl(t, deep, A, da) /\ Avl(t, t.kid[h][o], B, db)
      /\ Beside(A, h, s) /\ Beside(B, h, o)
  BY DEF Parts, Skew, Facts
<1>6. /\ s \in Int /\ o \in Int /\ s # o /\ s \in Side /\ o \in Side /\ o = -s /\ s = -o
      /\ (s = greater /\ s = 1 /\ o = -1) \/ (s # greater /\ s = -1 /\ o = 1)
  BY <1>0 DEF Facts
<1>2. /\ da \in Nat /\ db \in Nat /\ A \in SUBSET Elem /\ B \in SUBSET Elem
      /\ deep # null /\ deep \in A /\ deep \in Elem
  <2>1. A \in SUBSET Elem /\ B \in SUBSET Elem
    BY <1>1, AvlSet
  <2>2. da \in Nat /\ db \in Nat
    BY <1>1, AvlDepth
  <2>3. da # 0
    BY <1>0, <2>2
  <2> QED
    BY <1>1, <2>1, <2>2, <2>3, AvlRoot
<1>3. PICK P, dp, M, dm : /\ Parts(t, deep, s, P, dp, M, dm) /\ Leans(t, deep, s, dp, dm)
                          /\ A = P \union M \union {deep} /\ da = 1 + Deeper(dp, dm)
  BY ONLY <1>1, <1>2, <1>6, Split
<1>4. /\ Avl(t, t.kid[deep][s], P, dp) /\ Avl(t, mid, M, dm)
      /\ Beside(P, deep, s) /\ Beside(M, deep, o)
  BY <1>3, <1>6 DEF Parts
<1>5. dp \in Nat /\ dm \in Nat /\ P \in SUBSET Elem /\ M \in SUBSET Elem
  BY <1>4, AvlSet, AvlDepth
<1>7. dm = db + 1 /\ dp = db
  <2>1. t.bf[deep] = IF s = greater THEN dp - dm ELSE dm - dp
    BY <1>3 DEF Leans
  <2>2. da = 1 + (IF dp > dm THEN dp ELSE dm)
    BY <1>3 DEF Deeper
  <2> QED
    BY <1>0, <1>2, <1>5, <1>6, <2>1, <2>2
<1>8. mid # null /\ mid \in M /\ mid \in Elem
  <2>1. dm # 0
    BY <1>2, <1>7
  <2> QED
    BY <1>4, <2>1, AvlRoot
<1>9. PICK U, du, V, dv : /\ Parts(t, mid, s, U, du, V, dv) /\ Leans(t, mid, s, du, dv)
                          /\ M = U \union V \union {mid} /\ dm = 1 + Deeper(du, dv)
  BY ONLY <1>4, <1>6, <1>8, Split
<1>10. /\ Avl(t, t.kid[mid][s], U, du) /\ Avl(t, t.kid[mid][o], V, dv)
       /\ Beside(U, mid, s) /\ Beside(V, mid, o)
  BY ONLY <1>6, <1>9 DEF Parts
<1>11. du \in Nat /\ dv \in Nat /\ U \in SUBSET Elem /\ V \in SUBSET Elem
  BY ONLY <1>10, AvlSet, AvlDepth
<1>12. \/ t.bf[mid] = 0 /\ du = db /\ dv = db
       \/ t.bf[mid] = s /\ du = db /\ dv = db - 1
       \/ t.bf[mid] = o /\ du = db - 1 /\ dv = db
  <2>1. t.bf[mid] = IF s = greater THEN du - dv ELSE dv - du
    BY <1>9 DEF Leans
  <2>2. t.bf[mid] \in -1..1
    BY <1>9 DEF Leans
  <2>3. dm = 1 + (IF du > dv THEN du ELSE dv)
    BY <1>9 DEF Deeper
  <2> QED
    BY <1>2, <1>6, <1>7, <1>11, <2>1, <2>2, <2>3
<1>13. /\ h \notin A /\ h \notin B /\ A \cap B = {}
       /\ deep \notin P /\ deep \notin M /\ P \cap M = {}
       /\ mid \notin U /\ mid \notin V /\ U \cap V = {}
  <2>1. Sized(A, B, h)
    BY <1>0, <1>6, SizeIs DEF Skew
  <2>2. Sized(P, M, deep)
    BY ONLY <1>2, <1>3, <1>6, SizeIs
  <2>3. Sized(U, V, mid)
    BY ONLY <1>6, <1>8, <1>9, SizeIs
  <2> QED
    BY ONLY <2>1, <2>2, <2>3 DEF Sized
<1>14. mid # h /\ deep # h /\ mid # deep
  BY ONLY <1>2, <1>3, <1>8, <1>13
<1> SUFFICES ASSUME NEW u, Twisted(t, u, h, s, o, deep, mid)
             PROVE  Balanced(t, h, A, B, da, [tree |-> u, top |-> mid])
  BY <1>2, <1>8, <1>14
<1>15. Agree(t, u, P) /\ Agree(t, u, U) /\ Agree(t, u, V) /\ Agree(t, u, B)
  <2>1. Agree(t, u, Elem \ {h, deep, mid})
    BY DEF Twisted
  <2>2. \A e \in P \union U \union V \union B : e \in Elem \ {h, deep, mid}
    BY ONLY <1>2, <1>3, <1>5, <1>8, <1>9, <1>11, <1>13
  <2> QED
    BY ONLY <2>1, <2>2 DEF Agree
<1>16. /\ Avl(u, u.kid[deep][s], P, dp) /\ Avl(u, u.kid[deep][o], U, du)
       /\ Avl(u, u.kid[h][s], V, dv) /\ Avl(u, u.kid[h][o], B, db)
  <2>1. /\ u.kid[deep][s] = t.kid[deep][s] /\ u.kid[deep][o] = t.kid[mid][s]
        /\ u.kid[h][s] = t.kid[mid][o] /\ u.kid[h][o] = t.kid[h][o]
    BY DEF Twisted
  <2> QED
    BY ONLY <1>1, <1>4, <1>10, <1>15, <2>1, FrameAvl
<1> DEFINE X == V \union B \union {h}
           dx == 1 + Deeper(dv, db)
           Y == P \union U \union {deep}
           dy == 1 + Deeper(dp, du)
<1>17. Avl(u, h, X, dx)
  <2>1. Beside(V, h, s)
    BY <1>1, <1>3, <1>9 DEF Beside
  <2>2. Parts(u, h, s, V, dv, B, db)
    BY ONLY <1>1, <1>6, <1>16, <2>1 DEF Parts
  <2>3. u.bf[h] = IF t.bf[mid] = s THEN o ELSE 0
    BY DEF Twisted
  <2>4. Leans(u, h, s, dv, db)
    <3>1. (u.bf[h] = 0 /\ dv = db) \/ (u.bf[h] = o /\ dv = db - 1)
      BY <1>6, <1>12, <2>3
    <3> QED
      BY ONLY <1>2, <1>6, <3>1 DEF Leans
  <2> QED
    BY <1>0, <1>6, <2>2, <2>4, Join
<1>18. Avl(u, deep, Y, dy)
  <2>1. Beside(U, deep, o)
    BY <1>4, <1>9 DEF Beside
  <2>2. Parts(u, deep, s, P, dp, U, du)
    BY ONLY <1>4, <1>6, <1>16, <2>1 DEF Parts
  <2>3. u.bf[deep] = IF t.bf[mid] = o THEN s ELSE 0
    BY DEF Twisted
  <2>4. Leans(u, deep, s, dp, du)
    <3>1. (u.bf[deep] = 0 /\ du = db) \/ (u.bf[deep] = s /\ du = db - 1)
      BY ONLY <1>6, <1>12, <2>3
    <3> QED
      BY ONLY <1>2, <1>6, <1>7, <3>1 DEF Leans
  <2> QED
    BY <1>2, <1>6, <2>2, <2>4, Join
<1>19. Beside(X, mid, o)
  <2>1. Beside({mid}, h, s)
    BY <1>1, <1>3, <1>8 DEF Beside
  <2>2. Beside(B \union {h}, mid, o)
    BY ONLY <1>0, <1>1, <1>2, <1>6, <1>8, <2>1, Beyond
  <2> QED
    BY <1>10, <2>2 DEF Beside
<1>20. Beside(Y, mid, s)
  <2>1. Beside({mid}, deep, o)
    BY <1>4, <1>8 DEF Beside
  <2>2. Beside(P, deep, -o)
    BY <1>4, <1>6
  <2>3. Beside(P \union {deep}, mid, -o)
    BY <1>2, <1>5, <1>6, <1>8, <2>1, <2>2, Beyond
  <2>5. Beside(P \union {deep}, mid, s)
    BY <1>6, <2>3
  <2> QED
    BY ONLY <1>10, <2>5 DEF Beside
<1>21. dx = db + 1 /\ dy = db + 1
  <2>1. dv \in {db, db - 1} /\ du \in {db, db - 1} /\ dp = db
    BY ONLY <1>7, <1>12
  <2> QED
    BY ONLY <1>2, <2>1 DEF Deeper
<1>22. Y \union X \union {mid} = A \union B \union {h}
  BY ONLY <1>3, <1>9
<1> HIDE DEF X, Y, dx, dy
<1>23. Avl(u, mid, Y \union X \union {mid}, 1 + Deeper(dy, dx))
  <2>1. Parts(u, mid, s, Y, dy, X, dx)
    <3>1. u.kid[mid][s] = deep /\ u.kid[mid][o] = h
      BY DEF Twisted
    <3> QED
      BY ONLY <1>6, <1>17, <1>18, <1>19, <1>20, <3>1 DEF Parts
  <2>2. u.bf[mid] = 0
    BY DEF Twisted
  <2>3. Leans(u, mid, s, dy, dx)
    BY ONLY <1>2, <1>21, <2>2 DEF Leans
  <2> QED
    BY ONLY <1>6, <1>8, <2>1, <2>3, Join
<1>24. 1 + Deeper(dy, dx) = da /\ u.bf[mid] = 0
  <2>1. u.bf[mid] = 0
    BY DEF Twisted
  <2> QED
    BY ONLY <1>0, <1>2, <1>21, <2>1 DEF Deeper
<1>25. Agree(t, u, Elem \ (A \union {h}))
  BY <1>2, <1>3, <1>8 DEF Agree, Twisted
<1>26. u \in Tree /\ u.root = t.root /\ mid \in A
  BY <1>3, <1>8 DEF Twisted
<1>27. Avl(u, mid, A \union B \union {h}, IF u.bf[mid] = 0 THEN da ELSE da + 1)
  BY <1>22, <1>23, <1>24
<1> QED
  BY ONLY <1>8, <1>24, <1>25, <1>26, <1>27 DEF Balanced

Kids == [Elem -> [Side -> Handle]]
Factors == [Elem -> -1..1]

\* What the fields of a tree can be, by the names these sets have here.
LEMMA TreeParts ==
    ASSUME NEW t \in Tree
    PROVE  t.kid \in Kids /\ t.bf \in Factors /\ t.root \in Handle
BY DEF Tree, Kids, Factors

\* If the deeper child leans, the subtree is of less depth afterwards.
Rebal(t, h, A, B, da, deep, b) ==
  Balanced(t, h, A, B, da, b) /\ (t.bf[deep] # 0 => b.tree.bf[b.top] = 0)

\* balance(h)
LEMMA BalanceSound ==
    ASSUME NEW t, NEW h, NEW s, NEW o, NEW A, NEW da, NEW B, NEW db, NEW deep,
           Skew(t, h, s, o, A, da, B, db, deep), t.bf[h] = s
    PROVE  Rebal(t, h, A, B, da, deep, Balance(t, h))
<1> DEFINE b == Balance(t, h)
<1>1. /\ Facts(s, o) /\ h \in Elem /\ t \in Tree /\ deep = t.kid[h][s]
      /\ s \in Side /\ o \in Side /\ s # o /\ o = -s /\ t.bf \in Factors /\ t.kid \in Kids
  BY TreeParts DEF Skew, Facts
<1>2. (IF t.bf[h] > 0 THEN greater ELSE less) = s
  BY <1>1 DEF Facts, less, greater
<1> DEFINE mid == t.kid[deep][o]
           r == IF t.bf[h] > 0 THEN greater ELSE less
           far(p) == t.kid[t.kid[h][p]][-p]
           double(p) == [t EXCEPT
             !.kid = [t.kid EXCEPT ![h][p] = t.kid[far(p)][-p],
                                   ![t.kid[h][p]][-p] = t.kid[far(p)][p],
                                   ![far(p)] = [e \in Side |-> IF e = p THEN t.kid[h][p] ELSE h]],
             !.bf = [t.bf EXCEPT ![h] = StoredBf(@, IF t.bf[far(p)] = p THEN -p ELSE 0),
                        ![t.kid[h][p]] = StoredBf(@, IF t.bf[far(p)] = -p THEN p ELSE 0),
                        ![far(p)] = StoredBf(@, 0)]]
           single(p) == [t EXCEPT
             !.kid = [t.kid EXCEPT ![h][p] = t.kid[t.kid[h][p]][-p], ![t.kid[h][p]][-p] = h],
             !.bf = [t.bf EXCEPT
                        ![h] = StoredBf(@, IF t.bf[t.kid[h][p]] = 0 THEN p ELSE 0),
                        ![t.kid[h][p]] = StoredBf(@, IF t.bf[t.kid[h][p]] = 0 THEN -p ELSE 0)]]
           both(p) == IF t.bf[t.kid[h][p]] = -p THEN [tree |-> double(p), top |-> far(p)]
                      ELSE [tree |-> single(p), top |-> t.kid[h][p]]
<1>3. b = IF t.bf[deep] = o THEN [tree |-> double(s), top |-> mid]
          ELSE [tree |-> single(s), top |-> deep]
  <2>1. b = both(r)
    BY DEF Balance
  <2>2. r = s
    BY <1>2
  <2> HIDE DEF both, r
  <2>3. b = both(s)
    BY <2>1, <2>2
  <2>4. far(s) = mid /\ t.kid[h][s] = deep /\ -s = o
    BY <1>1
  <2> HIDE DEF double, single, far, mid
  <2> QED
    BY ONLY <2>3, <2>4 DEF both
<1> HIDE DEF b
<1> DEFINE KD == [t.kid EXCEPT ![h][s] = t.kid[mid][o], ![deep][o] = t.kid[mid][s],
                               ![mid] = [e \in Side |-> IF e = s THEN deep ELSE h]]
           FD == [t.bf EXCEPT ![h] = StoredBf(@, IF t.bf[mid] = s THEN o ELSE 0),
                              ![deep] = StoredBf(@, IF t.bf[mid] = o THEN s ELSE 0),
                              ![mid] = StoredBf(@, 0)]
           KS == [t.kid EXCEPT ![h][s] = t.kid[deep][o], ![deep][o] = h]
           FS == [t.bf EXCEPT ![h] = StoredBf(@, IF t.bf[deep] = 0 THEN s ELSE 0),
                              ![deep] = StoredBf(@, IF t.bf[deep] = 0 THEN o ELSE 0)]
<1>6. double(s) = [t EXCEPT !.kid = KD, !.bf = FD] /\ single(s) = [t EXCEPT !.kid = KS, !.bf = FS]
  <2>1. far(s) = mid /\ t.kid[h][s] = deep /\ -s = o
    BY <1>1
  <2> HIDE DEF far, mid
  <2> QED
    BY <2>1
<1> DEFINE du == double(s)
           si == single(s)
<1> HIDE DEF double, single, r, far, both
<1>4. CASE t.bf[deep] = o
  <2>1. b.tree = du /\ b.top = mid /\ b = [tree |-> du, top |-> mid]
    BY <1>3, <1>4
  <2>2. /\ mid \in Elem /\ deep \in Elem /\ mid # h /\ deep # h /\ mid # deep
        /\ \A u : Twisted(t, u, h, s, o, deep, mid) =>
                       Balanced(t, h, A, B, da, [tree |-> u, top |-> mid])
    <3>1. mid = t.kid[deep][o]
      OBVIOUS
    <3> HIDE DEF mid
    <3> QED
      BY <1>4, <3>1, TwistedSound
  <2>3. Twisted(t, du, h, s, o, deep, mid)
    <3> HIDE DEF du, mid
    <3>1. du = [t EXCEPT !.kid = KD, !.bf = FD]
      BY ONLY <1>6 DEF du
    <3>2. /\ t.kid[mid][o] \in Handle /\ t.kid[mid][s] \in Handle
          /\ [e \in Side |-> IF e = s THEN deep ELSE h] \in [Side -> Handle]
      BY <1>1, <2>2, TreeIs DEF Handle
    <3>3. /\ (IF t.bf[mid] = s THEN o ELSE 0) \in -1..1 /\ 0 \in -1..1
          /\ (IF t.bf[mid] = o THEN s ELSE 0) \in -1..1
      BY ONLY <1>1 DEF Facts
    <3>4. /\ KD \in Kids /\ KD[h][s] = t.kid[mid][o] /\ KD[h][o] = t.kid[h][o]
          /\ KD[deep][o] = t.kid[mid][s] /\ KD[deep][s] = t.kid[deep][s]
          /\ KD[mid] = [e \in Side |-> IF e = s THEN deep ELSE h]
          /\ \A e \in Elem : e \notin {h, deep, mid} => KD[e] = t.kid[e]
      BY <1>1, <2>2, <3>2 DEF Kids
    <3>5. /\ FD \in Factors /\ FD[h] = (IF t.bf[mid] = s THEN o ELSE 0)
          /\ FD[deep] = (IF t.bf[mid] = o THEN s ELSE 0) /\ FD[mid] = 0
          /\ \A e \in Elem : e \notin {h, deep, mid} => FD[e] = t.bf[e]
      <4> DEFINE x == IF t.bf[mid] = s THEN o ELSE 0
                 y == IF t.bf[mid] = o THEN s ELSE 0
      <4>1. FD = [t.bf EXCEPT ![h] = StoredBf(@, x), ![deep] = StoredBf(@, y),
                              ![mid] = StoredBf(@, 0)]
        OBVIOUS
      <4>2. x \in -1..1 /\ y \in -1..1 /\ 0 \in -1..1
        BY <3>3
      <4> HIDE DEF x, y, FD
      <4>3. FD = [t.bf EXCEPT ![h] = x, ![deep] = y, ![mid] = 0]
        BY ONLY <1>1, <2>2, <4>1, <4>2, GivesBack DEF Factors
      <4>4. /\ FD \in Factors /\ FD[h] = x /\ FD[deep] = y /\ FD[mid] = 0
            /\ \A e \in Elem : e \notin {h, deep, mid} => FD[e] = t.bf[e]
        BY <1>1, <2>2, <4>2, <4>3 DEF Factors
      <4> QED
        BY <4>4 DEF x, y
    <3> HIDE DEF KD, FD
    <3>6. du \in Tree /\ du.root = t.root /\ du.kid = KD /\ du.bf = FD
      BY <1>1, <3>1, <3>4, <3>5 DEF Tree, Kids, Factors
    <3>7. Agree(t, du, Elem \ {h, deep, mid})
      BY <3>4, <3>5, <3>6 DEF Agree
    <3> QED
      BY ONLY <1>1, <3>4, <3>5, <3>6, <3>7 DEF Twisted
  <2> HIDE DEF du, mid
  <2>4. Balanced(t, h, A, B, da, b)
    BY <2>1, <2>2, <2>3
  <2>5. b.tree.bf[b.top] = 0
    BY <2>1, <2>3 DEF Twisted
  <2> QED
    BY <2>4, <2>5 DEF Rebal, b
<1>5. CASE t.bf[deep] # o
  <2>1. b.tree = si /\ b.top = deep /\ b = [tree |-> si, top |-> deep]
    BY <1>3, <1>5
  <2>2. deep \in Elem /\ deep # h
    <3>1. Parts(t, h, s, A, da, B, db) /\ da = db + 2
      BY DEF Skew
    <3>2. Avl(t, deep, A, da) /\ db \in Nat /\ Beside(A, h, s)
      BY <1>1, <3>1, AvlDepth DEF Parts
    <3>3. deep \in A /\ deep \in Elem
      BY ONLY <3>1, <3>2, AvlRoot
    <3> QED
      BY <1>1, <3>2, <3>3, NotBeside
  <2>3. Rotated(t, si, h, s, deep)
    <3> HIDE DEF si
    <3>1. si = [t EXCEPT !.kid = KS, !.bf = FS]
      BY <1>6 DEF si
    <3>2. t.kid[deep][o] \in Handle /\ h \in Handle
      BY <1>1, <2>2, TreeIs DEF Handle
    <3>3. /\ (IF t.bf[deep] = 0 THEN s ELSE 0) \in -1..1
          /\ (IF t.bf[deep] = 0 THEN o ELSE 0) \in -1..1
      BY <1>1 DEF Facts
    <3>4. /\ KS \in Kids /\ KS[h][s] = t.kid[deep][o] /\ KS[h][o] = t.kid[h][o]
          /\ KS[deep][o] = h /\ KS[deep][s] = t.kid[deep][s]
          /\ \A e \in Elem : e \notin {h, deep} => KS[e] = t.kid[e]
      BY ONLY <1>1, <2>2, <3>2 DEF Kids
    <3>5. /\ FS \in Factors /\ FS[h] = (IF t.bf[deep] = 0 THEN s ELSE 0)
          /\ FS[deep] = (IF t.bf[deep] = 0 THEN o ELSE 0)
          /\ \A e \in Elem : e \notin {h, deep} => FS[e] = t.bf[e]
      <4> DEFINE x == IF t.bf[deep] = 0 THEN s ELSE 0
                 y == IF t.bf[deep] = 0 THEN o ELSE 0
      <4>1. FS = [t.bf EXCEPT ![h] = StoredBf(@, x), ![deep] = StoredBf(@, y)]
        OBVIOUS
      <4>2. x \in -1..1 /\ y \in -1..1
        BY <3>3
      <4> HIDE DEF x, y, FS
      <4>3. FS = [t.bf EXCEPT ![h] = x, ![deep] = y]
        BY <1>1, <2>2, <4>1, <4>2, GivesBack DEF Factors
      <4>4. /\ FS \in Factors /\ FS[h] = x /\ FS[deep] = y
            /\ \A e \in Elem : e \notin {h, deep} => FS[e] = t.bf[e]
        BY <1>1, <2>2, <4>2, <4>3 DEF Factors
      <4> QED
        BY <4>4 DEF x, y
    <3> HIDE DEF KS, FS
    <3>6. si \in Tree /\ si.root = t.root /\ si.kid = KS /\ si.bf = FS
      BY <1>1, <3>1, <3>4, <3>5 DEF Tree, Kids, Factors
    <3>7. Agree(t, si, Elem \ {h, deep})
      BY <3>4, <3>5, <3>6 DEF Agree
    <3> QED
      BY ONLY <1>1, <3>4, <3>5, <3>6, <3>7 DEF Rotated
  <2> HIDE DEF si, mid
  <2>4. Balanced(t, h, A, B, da, b)
    <3>1. Balanced(t, h, A, B, da, [tree |-> si, top |-> deep])
      BY <1>1, <1>5, <2>3, RotatedSound DEF Skew
    <3> QED
      BY <2>1, <3>1
  <2>5. t.bf[deep] # 0 => b.tree.bf[b.top] = 0
    BY <2>1, <2>3 DEF Rotated
  <2> QED
    BY <2>4, <2>5 DEF Rebal, b
<1> QED
  BY <1>4, <1>5

-----------------------------------------------------------------------------
(* A change of the tree is made at one place, and by balancing on the way    *)
(* from there up to the root.  The nodes of that way, their other subtrees   *)
(* and what was there before are put down in a record v:                     *)
(*   n         the number of nodes on the way,                               *)
(*   node      them, from the root on,                                       *)
(*   side      the side of the next one,                                     *)
(*   off       the nodes of the subtree on the other side,                   *)
(*   offdep    its depth,                                                    *)
(*   all       the nodes of the whole subtree after the change,              *)
(*   dep, bf   its depth before, and the node's balance factor.              *)

Lean(s, da, db) == IF s = greater THEN da - db ELSE db - da

SpineNode(v, j, n) ==
  /\ v.node[j] \in Elem /\ v.side[j] \in Side
  /\ v.off[j] \in SUBSET Elem /\ v.all[j] \in SUBSET Elem /\ v.all[n] \in SUBSET Elem
  /\ v.all[j] = v.all[n] \union v.off[j] \union {v.node[j]}
  /\ Beside(v.all[n], v.node[j], v.side[j]) /\ Beside(v.off[j], v.node[j], -v.side[j])
  /\ v.dep[j] \in Nat /\ v.dep[n] \in Nat /\ v.offdep[j] \in Nat
  /\ v.bf[j] = Lean(v.side[j], v.dep[n], v.offdep[j]) /\ v.bf[j] \in -1..1
  /\ v.dep[j] = 1 + Deeper(v.dep[n], v.offdep[j])

Spine(v) == v.n \in Nat /\ \A j \in 1..v.n : SpineNode(v, j, j + 1)

\* The handle at place i of a way.
Spot(t, q, br, i) == IF i = 1 THEN t.root ELSE t.kid[q[i - 1]][br[i - 1]]

\* The first i nodes of the way are as they were before the change.
Hangs(u, v, i) ==
  /\ u \in Tree /\ i \in 0..v.n
  /\ \A j \in 1..i : /\ Spot(u, v.node, v.side, j) = v.node[j] /\ u.bf[v.node[j]] = v.bf[j]
                     /\ Avl(u, u.kid[v.node[j]][-v.side[j]], v.off[j], v.offdep[j])

\* Below them the tree is complete.
Filled(u, v, i, d) == Avl(u, Spot(u, v.node, v.side, i), v.all[i], d)

\* What is on one side of a node is neither it nor on its other side.
LEMMA Apart ==
    ASSUME NEW h \in Elem, NEW s \in Side, NEW A \in SUBSET Elem, NEW B \in SUBSET Elem,
           Beside(A, h, s), Beside(B, h, -s)
    PROVE  h \notin A /\ h \notin B /\ A \cap B = {}
<1>1. h \notin A
  BY NotBeside
<1>2. h \notin B
  BY Sides, NotBeside
<1>3. A \cap B = {}
  BY Sides DEF Beside
<1> QED
  BY <1>1, <1>2, <1>3

\* What is below a place of the spine is below each place above it.
LEMMA SpineInto ==
    ASSUME NEW v, Spine(v), NEW j \in 1..v.n, NEW k \in (j + 1)..(v.n + 1)
    PROVE  v.all[k] \subseteq v.all[j + 1] /\ v.all[k] \subseteq v.all[j]
<1>1. v.n \in Nat
  BY DEF Spine
<1> DEFINE P == {n \in Nat : j + 1 + n <= v.n + 1 => v.all[j + 1 + n] \subseteq v.all[j + 1]}
<1>2. 0 \in P
  <2>1. j + 1 + 0 = j + 1
    OBVIOUS
  <2> QED
    BY <2>1
<1>3. ASSUME NEW n \in Nat, n \in P PROVE n + 1 \in P
  <2> SUFFICES ASSUME j + 1 + (n + 1) <= v.n + 1
               PROVE  v.all[j + 1 + (n + 1)] \subseteq v.all[j + 1]
    OBVIOUS
  <2> DEFINE i == j + 1 + n
             l == j + 1 + (n + 1)
  <2>1. i \in 1..v.n /\ l = i + 1 /\ i <= v.n + 1
    BY <1>1
  <2>2. v.all[i] \subseteq v.all[j + 1]
    BY <1>3, <2>1
  <2> HIDE DEF i, l
  <2>3. SpineNode(v, i, l)
    BY <2>1 DEF Spine
  <2>4. v.all[l] \subseteq v.all[j + 1]
    BY <2>2, <2>3 DEF SpineNode
  <2> QED
    BY <2>4 DEF l
<1>4. Nat \subseteq P
  <2> HIDE DEF P
  <2> QED
    BY <1>2, <1>3, AllNaturals
<1> DEFINE g == j + 1
<1>5. v.all[k] \subseteq v.all[g]
  <2>1. k - (j + 1) \in P /\ j + 1 + (k - (j + 1)) = k /\ k <= v.n + 1
    BY <1>1, <1>4
  <2> QED
    BY <2>1
<1>6. SpineNode(v, j, g)
  BY DEF Spine
<1> HIDE DEF g
<1>7. v.all[g] \subseteq v.all[j]
  BY <1>6 DEF SpineNode
<1> QED
  BY <1>5, <1>7 DEF g

\* A node of the spine, and what hangs off it, is not below a later place.
LEMMA SpineBelow ==
    ASSUME NEW v, Spine(v), NEW j \in 1..v.n, NEW k \in (j + 1)..(v.n + 1)
    PROVE  /\ v.all[k] \in SUBSET Elem /\ v.node[j] \notin v.all[k]
           /\ v.off[j] \cap v.all[k] = {} /\ v.node[j] \notin v.off[j]
<1> DEFINE g == j + 1
<1>1. v.all[k] \subseteq v.all[g]
  BY SpineInto
<1>6. SpineNode(v, j, g)
  BY DEF Spine
<1> HIDE DEF g
<1>7. v.node[j] \notin v.all[g] /\ v.node[j] \notin v.off[j] /\ v.all[g] \cap v.off[j] = {}
  BY <1>6, Apart DEF SpineNode
<1>8. v.all[g] \in SUBSET Elem
  BY <1>6 DEF SpineNode
<1> QED
  BY <1>1, <1>7, <1>8

\* The trees u and w differ at place i of the way and below at the most.
Apiece(u, w, v, i) ==
  /\ w \in Tree
  /\ \A e \in Elem : e \in v.all[i] \/ (i # 1 /\ e = v.node[i - 1])
                     \/ (w.kid[e] = u.kid[e] /\ w.bf[e] = u.bf[e])
  /\ i # 1 => LET g == v.node[i - 1]
              IN w.root = u.root /\ w.bf[g] = u.bf[g]
                 /\ w.kid[g][-v.side[i - 1]] = u.kid[g][-v.side[i - 1]]

\* Where all of what changed is below a place of the spine, the rest hangs
\* there as before.
LEMMA HangsOn ==
    ASSUME NEW v, Spine(v), NEW u, NEW w, NEW i \in 1..(v.n + 1), NEW n, n = i - 1,
           Hangs(u, v, n), Apiece(u, w, v, i)
    PROVE  Hangs(w, v, n)
<1>1. v.n \in Nat /\ n \in 0..v.n /\ n + 1 = i
  BY DEF Spine, Hangs
<1>2. ASSUME NEW j \in 1..n
      PROVE  /\ Spot(w, v.node, v.side, j) = v.node[j] /\ w.bf[v.node[j]] = v.bf[j]
             /\ Avl(w, w.kid[v.node[j]][-v.side[j]], v.off[j], v.offdep[j])
  <2> DEFINE h == v.node[j]
             g == v.node[n]
             l == j - 1
             p == v.node[l]
  <2>1. j \in 1..v.n /\ n \in 1..v.n /\ i # 1 /\ i \in (j + 1)..(v.n + 1)
    BY <1>1
  <2>2. /\ h \in Elem /\ v.side[j] \in Side /\ v.off[j] \in SUBSET Elem
        /\ Beside(v.off[j], h, -v.side[j])
    <3>1. SpineNode(v, j, j + 1)
      BY <2>1 DEF Spine
    <3> QED
      BY <3>1 DEF SpineNode
  <2>3. g \in Elem /\ g \in v.all[n]
    <3>1. SpineNode(v, n, n + 1)
      BY <2>1 DEF Spine
    <3> QED
      BY <3>1 DEF SpineNode
  <2>4. h \notin v.all[i] /\ v.off[j] \cap v.all[i] = {} /\ h \notin v.off[j]
    BY <2>1, SpineBelow
  <2>5. j # n => h # g /\ g \notin v.off[j]
    <3> SUFFICES ASSUME j # n PROVE h # g /\ g \notin v.off[j]
      OBVIOUS
    <3>1. n \in (j + 1)..(v.n + 1)
      BY <1>1, <2>1
    <3>2. h \notin v.all[n] /\ v.off[j] \cap v.all[n] = {}
      BY <2>1, <3>1, SpineBelow
    <3> QED
      BY <2>3, <3>2
  <2>6. /\ Spot(u, v.node, v.side, j) = h /\ u.bf[h] = v.bf[j]
        /\ Avl(u, u.kid[h][-v.side[j]], v.off[j], v.offdep[j])
    BY DEF Hangs
  <2>7. /\ \A e \in Elem : e \in v.all[i] \/ e = g \/ (w.kid[e] = u.kid[e] /\ w.bf[e] = u.bf[e])
        /\ w.root = u.root /\ w.bf[g] = u.bf[g]
        /\ w.kid[g][-v.side[n]] = u.kid[g][-v.side[n]]
    BY <2>1 DEF Apiece
  <2> HIDE DEF h, g
  <2>8. w.bf[h] = u.bf[h] /\ w.kid[h][-v.side[j]] = u.kid[h][-v.side[j]]
    <3>1. CASE j = n
      BY <2>7, <3>1 DEF h, g
    <3>2. CASE j # n
      BY <2>2, <2>4, <2>5, <2>7, <3>2
    <3> QED
      BY ONLY <3>1, <3>2
  <2>9. Agree(u, w, v.off[j])
    <3>1. g \notin v.off[j]
      <4>1. CASE j = n
        BY <2>4, <4>1 DEF h, g
      <4>2. CASE j # n
        BY <2>5, <4>2
      <4> QED
        BY <4>1, <4>2
    <3> QED
      BY <2>2, <2>4, <2>7, <3>1 DEF Agree
  <2>10. Avl(w, w.kid[h][-v.side[j]], v.off[j], v.offdep[j])
    BY <2>6, <2>8, <2>9, FrameAvl
  <2>11. Spot(w, v.node, v.side, j) = Spot(u, v.node, v.side, j)
    <3>1. CASE j = 1
      BY <2>7, <3>1 DEF Spot
    <3>2. CASE j # 1
      <4>1. l \in 1..v.n /\ i \in (l + 1)..(v.n + 1) /\ n \in (l + 1)..(v.n + 1)
        BY <1>1, <2>1, <3>2
      <4>2. p \in Elem
        <5>1. SpineNode(v, l, l + 1)
          BY <4>1 DEF Spine
        <5> QED
          BY <5>1 DEF SpineNode
      <4> HIDE DEF l
      <4>3. p \notin v.all[i] /\ p \notin v.all[n]
        BY <4>1, SpineBelow
      <4>4. w.kid[p] = u.kid[p]
        BY ONLY <2>3, <2>7, <4>2, <4>3
      <4> QED
        BY <3>2, <4>4 DEF Spot, l
    <3> QED
      BY <3>1, <3>2
  <2> QED
    BY <2>6, <2>8, <2>10, <2>11, Zenon DEF h
<1> QED
  BY <1>1, <1>2 DEF Hangs, Apiece

\* The node at place i over the complete subtree below it.
LEMMA FilledParts ==
    ASSUME NEW v, Spine(v), NEW u, NEW i \in 1..v.n, NEW n, n = i + 1,
           Hangs(u, v, i), NEW d, Filled(u, v, n, d)
    PROVE  /\ Parts(u, v.node[i], v.side[i], v.all[n], d, v.off[i], v.offdep[i])
           /\ v.node[i] \in Elem /\ v.side[i] \in Side
           /\ v.all[i] = v.all[n] \union v.off[i] \union {v.node[i]}
           /\ Spot(u, v.node, v.side, i) = v.node[i] /\ u.bf[v.node[i]] = v.bf[i]
<1>1. SpineNode(v, i, n)
  BY DEF Spine
<1>2. v.n \in Nat
  BY DEF Spine
<1>3. /\ Spot(u, v.node, v.side, i) = v.node[i] /\ u.bf[v.node[i]] = v.bf[i]
      /\ Avl(u, u.kid[v.node[i]][-v.side[i]], v.off[i], v.offdep[i])
  <2>1. i \in 1..i
    OBVIOUS
  <2> QED
    BY <2>1 DEF Hangs
<1>4. Spot(u, v.node, v.side, n) = u.kid[v.node[i]][v.side[i]]
  <2>1. n # 1 /\ n - 1 = i
    BY <1>2
  <2> QED
    BY <2>1 DEF Spot
<1>5. Parts(u, v.node[i], v.side[i], v.all[n], d, v.off[i], v.offdep[i])
  BY <1>1, <1>3, <1>4 DEF Filled, Parts, SpineNode
<1> QED
  BY ONLY <1>1, <1>3, <1>5 DEF SpineNode

\* If its depth is as before, so is all above.
LEMMA Lifted ==
    ASSUME NEW v, Spine(v), NEW u, NEW i \in 0..v.n, NEW n, n = i + 1,
           Hangs(u, v, i), Filled(u, v, n, v.dep[n])
    PROVE  Avl(u, u.root, v.all[1], v.dep[1])
<1> DEFINE P == {j \in 1..n : Filled(u, v, j, v.dep[j])}
<1>1. v.n \in Nat /\ n \in Nat /\ n \in P
  BY DEF Spine
<1>2. ASSUME NEW j \in 1..(n - 1), j + 1 \in P PROVE j \in P
  <2> DEFINE k == j + 1
  <2>1. j \in 1..v.n /\ j \in 1..i /\ Filled(u, v, k, v.dep[k])
    BY <1>1, <1>2
  <2>2. SpineNode(v, j, k)
    BY <2>1 DEF Spine
  <2>3. Hangs(u, v, j)
    BY <1>1, <2>1 DEF Hangs
  <2> HIDE DEF P
  <2>4. k = j + 1
    OBVIOUS
  <2> HIDE DEF k
  <2>5. /\ Parts(u, v.node[j], v.side[j], v.all[k], v.dep[k], v.off[j], v.offdep[j])
        /\ v.node[j] \in Elem /\ v.side[j] \in Side
        /\ v.all[j] = v.all[k] \union v.off[j] \union {v.node[j]}
        /\ Spot(u, v.node, v.side, j) = v.node[j] /\ u.bf[v.node[j]] = v.bf[j]
    BY <2>1, <2>3, <2>4, FilledParts
  <2>6. Leans(u, v.node[j], v.side[j], v.dep[k], v.offdep[j])
    BY ONLY <2>2, <2>5 DEF SpineNode, Leans, Lean
  <2>7. Avl(u, v.node[j], v.all[j], v.dep[j])
    <3>1. v.dep[j] = 1 + Deeper(v.dep[k], v.offdep[j])
      BY ONLY <2>2 DEF SpineNode
    <3> QED
      BY ONLY <2>5, <2>6, <3>1, Join
  <2>8. Filled(u, v, j, v.dep[j])
    BY <2>5, <2>7 DEF Filled
  <2> QED
    BY <1>1, <2>8 DEF P
<1>3. 1 \in P
  <2>1. 1..n \subseteq P
    <3> HIDE DEF P
    <3> QED
      BY ONLY <1>1, <1>2, Downward
  <2> QED
    BY <1>1, <2>1
<1>4. Filled(u, v, 1, v.dep[1])
  BY <1>3
<1> QED
  BY <1>4 DEF Filled, Spot

\* One place of a way set to k.
Placed(t, u, q, br, i, k) ==
  /\ u \in Tree /\ u.bf = t.bf /\ Spot(u, q, br, i) = k
  /\ \A e \in Elem : (i # 1 /\ e = q[i - 1]) \/ u.kid[e] = t.kid[e]
  /\ i # 1 => LET g == q[i - 1]
              IN u.root = t.root /\ u.kid[g][-br[i - 1]] = t.kid[g][-br[i - 1]]

\* SetPlace sets the one link that leads to a place of a way.
LEMMA PlaceSet ==
    ASSUME NEW t \in Tree, NEW q, NEW br, NEW i \in Nat,
           i # 1 => q[i - 1] \in Elem /\ br[i - 1] \in Side, NEW k \in Handle,
           NEW u, u = SetPlace(t, q, br, i, k)
    PROVE  Placed(t, u, q, br, i, k)
<1>1. CASE i = 1
  <2>1. u = [t EXCEPT !.root = k]
    BY <1>1 DEF SetPlace
  <2>2. u \in Tree /\ u.root = k /\ u.kid = t.kid /\ u.bf = t.bf
    BY ONLY <2>1 DEF Tree
  <2> QED
    BY <1>1, <2>2 DEF Placed, Spot
<1>2. CASE i # 1
  <2> DEFINE g == q[i - 1]
             s == br[i - 1]
  <2>1. u = [t EXCEPT !.kid[g][s] = k] /\ g \in Elem /\ s \in Side
    BY <1>2 DEF SetPlace
  <2>2. -s \in Side /\ -s # s
    BY <2>1, Sides
  <2> HIDE DEF g, s
  <2> DEFINE K == [t.kid EXCEPT ![g][s] = k]
  <2>3. u = [t EXCEPT !.kid = K]
    BY <2>1 DEF Tree
  <2>4. t.kid \in Kids
    BY TreeParts
  <2>5. /\ K \in Kids /\ K[g][s] = k /\ K[g][-s] = t.kid[g][-s]
        /\ \A e \in Elem : e # g => K[e] = t.kid[e]
    BY <2>1, <2>2, <2>4 DEF Kids
  <2> HIDE DEF K
  <2>6. u \in Tree /\ u.root = t.root /\ u.bf = t.bf /\ u.kid = K
    BY ONLY <2>3, <2>5 DEF Tree, Kids
  <2> QED
    BY ONLY <1>2, <2>5, <2>6 DEF Placed, Spot, g, s
<1> QED
  BY <1>1, <1>2

\* That link is below no place before.
LEMMA PlacedApiece ==
    ASSUME NEW v, NEW t, NEW u, NEW i, NEW k, Placed(t, u, v.node, v.side, i, k)
    PROVE  Apiece(t, u, v, i)
BY DEF Placed, Apiece

\* A node is given its children and its balance factor.
MadeOf(t, u, h, kids, b) ==
  /\ u \in Tree /\ u.root = t.root /\ u.kid[h] = kids /\ u.bf[h] = b
  /\ \A e \in Elem : e # h => u.kid[e] = t.kid[e] /\ u.bf[e] = t.bf[e]

\* Made sets the fields of one node.
LEMMA MadeIs ==
    ASSUME NEW t \in Tree, NEW h \in Elem, NEW kids \in [Side -> Handle], NEW b \in -1..1
    PROVE  MadeOf(t, Made(t, h, kids, b), h, kids, b)
<1> DEFINE u == Made(t, h, kids, b)
           K == [t.kid EXCEPT ![h] = kids]
           F == [t.bf EXCEPT ![h] = StoredBf(@, b)]
<1>1. t.kid \in Kids /\ t.bf \in Factors
  BY ONLY TreeParts
<1>2. F = [t.bf EXCEPT ![h] = b]
  BY ONLY <1>1, GivesBack DEF Factors
<1>3. K \in Kids /\ K[h] = kids /\ \A e \in Elem : e # h => K[e] = t.kid[e]
  BY <1>1 DEF Kids
<1>4. F \in Factors /\ F[h] = b /\ \A e \in Elem : e # h => F[e] = t.bf[e]
  <2> HIDE DEF F
  <2> QED
    BY <1>1, <1>2 DEF Factors
<1>5. u = [t EXCEPT !.kid = K, !.bf = F]
  BY DEF Made
<1> HIDE DEF K, F, u
<1>6. u.kid = K /\ u.bf = F /\ u.root = t.root /\ u \in Tree
  BY <1>3, <1>4, <1>5 DEF Tree, Kids, Factors
<1> QED
  BY ONLY <1>3, <1>4, <1>6 DEF MadeOf, u

\* The way q from the root, by the sides in br, as it is before a change that
\* takes the nodes in W out below its first n nodes and puts those in X there.
Course(t, sub, dep, q, br, n, W, X) ==
  [n |-> n, node |-> q, side |-> br,
   off |-> [j \in 1..n |-> sub[t.kid[q[j]][-br[j]]]],
   offdep |-> [j \in 1..n |-> dep[t.kid[q[j]][-br[j]]]],
   all |-> [j \in 1..(n + 1) |-> (sub[Spot(t, q, br, j)] \ W) \union X],
   dep |-> [j \in 1..(n + 1) |-> dep[Spot(t, q, br, j)]],
   bf |-> [j \in 1..n |-> t.bf[q[j]]]]

\* A way through a tree.
Line(t, sub, dep, q, br) ==
  /\ t \in Tree /\ Witness(t, t.root, sub, dep) /\ Trail(t, q, br)
  /\ q # <<>> => q[1] = t.root

\* What holds at each node of a way down from the root.
LEMMA LineIs ==
    ASSUME NEW t, NEW sub, NEW dep, NEW q, NEW br, Line(t, sub, dep, q, br),
           NEW j \in 1..Len(q)
    PROVE  /\ q[j] \in Elem /\ Witness(t, q[j], sub, dep) /\ q[j] \in sub[q[j]]
           /\ Spot(t, q, br, j) = q[j] /\ Len(q) \in Nat
<1>1. Len(q) \in Nat /\ q # <<>>
  BY LenProperties, EmptySeq DEF Line, Trail
<1>2. Witness(t, q[j], sub, dep)
  BY TrailIn DEF Line
<1>3. Nested(sub, q, br)
  BY TrailNested DEF Line
<1>4. Spot(t, q, br, j) = q[j]
  <2>1. CASE j = 1
    BY <1>1, <2>1 DEF Spot, Line
  <2>2. CASE j # 1
    <3> DEFINE i == j - 1
    <3>1. i \in 1..(Len(q) - 1) /\ i + 1 = j
      BY <1>1, <2>2
    <3> HIDE DEF i
    <3>2. q[j] = t.kid[q[i]][br[i]]
      BY <3>1 DEF Line, Trail
    <3> QED
      BY <2>2, <3>2 DEF Spot, i
  <2> QED
    BY <2>1, <2>2
<1> QED
  BY <1>1, <1>2, <1>3, <1>4 DEF Nested

\* The first nodes of a way down from the root, with what is off the way,
\* are a spine of the tree.
LEMMA CourseSpine ==
    ASSUME NEW t, NEW sub, NEW dep, NEW q, NEW br, Line(t, sub, dep, q, br),
           NEW n \in 0..Len(q), \A j \in 1..n : br[j] \in Side,
           NEW W, NEW X \in SUBSET Elem, \A j \in 1..n : Beside(X, q[j], br[j]),
           W = {} \/ (n < Len(q) /\ W \subseteq sub[q[n + 1]]),
           NEW v, v = Course(t, sub, dep, q, br, n, W, X)
    PROVE  Spine(v) /\ Hangs(t, v, n)
<1>1. Len(q) \in Nat /\ n \in Nat
  BY ONLY LenProperties DEF Line, Trail
<1>2. /\ v.n = n /\ v.node = q /\ v.side = br
      /\ \A j \in 1..n : /\ v.off[j] = sub[t.kid[q[j]][-br[j]]]
                         /\ v.offdep[j] = dep[t.kid[q[j]][-br[j]]] /\ v.bf[j] = t.bf[q[j]]
      /\ \A j \in 1..(n + 1) : /\ v.all[j] = (sub[Spot(t, q, br, j)] \ W) \union X
                               /\ v.dep[j] = dep[Spot(t, q, br, j)]
  BY DEF Course
<1>3. ASSUME NEW j \in 1..n
      PROVE  /\ SpineNode(v, j, j + 1) /\ Spot(t, q, br, j) = q[j]
             /\ Avl(t, t.kid[q[j]][-br[j]], v.off[j], v.offdep[j])
  <2> DEFINE i == j + 1
             h == q[j]
             s == br[j]
             k == t.kid[h][s]
             o == t.kid[h][-s]
  <2>1. j \in 1..Len(q) /\ s \in Side /\ i \in 1..(n + 1) /\ j \in 1..(n + 1)
    BY <1>1
  <2>2. h \in Elem /\ Witness(t, h, sub, dep) /\ Spot(t, q, br, j) = h
    BY <2>1, LineIs
  <2>3. Spot(t, q, br, i) = k
    <3>1. i # 1 /\ i - 1 = j
      BY <1>1
    <3> QED
      BY <3>1 DEF Spot
  <2>4. Forks(t, sub, dep, h, s)
    BY ONLY <2>1, <2>2, WithinKid, AvlAssumption
  <2>5. W \cap sub[o] = {} /\ h \notin W
    <3>1. CASE W = {}
      BY ONLY <3>1
    <3>2. CASE W # {}
      <4> DEFINE g == n + 1
      <4>1. g \in 1..Len(q) /\ j < g /\ i <= g /\ i \in 1..Len(q) /\ j \in 1..(Len(q) - 1)
        BY <1>1, <3>2
      <4>2. Nested(sub, q, br) /\ q[i] = k /\ W \subseteq sub[q[g]]
        BY <3>2, <4>1, TrailNested DEF Line, Trail
      <4> HIDE DEF g, i, h
      <4>3. sub[q[g]] \subseteq sub[q[i]] /\ q[j] \notin sub[q[g]]
        BY <2>1, <4>1, <4>2 DEF Nested
      <4>4. sub[q[i]] \cap sub[o] = {}
        <5>1. /\ Beside(sub[k], h, s) /\ Beside(sub[o], h, -s)
              /\ sub[k] \in SUBSET Elem /\ sub[o] \in SUBSET Elem
          BY ONLY <2>4, Zenon DEF Forks, Witness, Measures
        <5>2. sub[k] \cap sub[o] = {}
          BY <2>1, <2>2, <5>1, Apart
        <5> QED
          BY <4>2, <5>2
      <4> QED
        BY <4>2, <4>3, <4>4 DEF h
    <3> QED
      BY <3>1, <3>2
  <2>6. /\ v.off[j] = sub[o] /\ v.offdep[j] = dep[o] /\ v.bf[j] = t.bf[h]
        /\ v.all[j] = (sub[h] \ W) \union X /\ v.dep[j] = dep[h]
        /\ v.all[i] = (sub[k] \ W) \union X /\ v.dep[i] = dep[k]
        /\ v.node[j] = h /\ v.side[j] = s
    BY ONLY <1>2, <2>1, <2>2, <2>3
  <2>7. Beside(X, h, s)
    OBVIOUS
  <2> HIDE DEF i, h, s, k, o
  <2>8. /\ sub[h] = sub[k] \union sub[o] \union {h}
        /\ Beside(sub[k], h, s) /\ Beside(sub[o], h, -s)
        /\ dep[h] = 1 + Deeper(dep[k], dep[o]) /\ Leans(t, h, s, dep[k], dep[o])
        /\ Witness(t, o, sub, dep) /\ Measures(sub, dep) /\ k \in Handle /\ o \in Handle
    BY ONLY <2>4 DEF Forks, k, o, Witness
  <2>9. v.all[j] = v.all[i] \union v.off[j] \union {v.node[j]}
    BY ONLY <2>5, <2>6, <2>8
  <2>10. Beside(v.all[i], h, s)
    BY <2>6, <2>7, <2>8 DEF Beside
  <2>11. /\ v.off[j] \in SUBSET Elem /\ v.all[j] \in SUBSET Elem /\ v.all[i] \in SUBSET Elem
         /\ v.dep[j] \in Nat /\ v.dep[i] \in Nat /\ v.offdep[j] \in Nat
    <3>1. h \in Handle
      BY <2>2 DEF Handle
    <3> QED
      BY <2>6, <2>8, <3>1 DEF Measures
  <2>12. v.bf[j] = Lean(s, v.dep[i], v.offdep[j]) /\ v.bf[j] \in -1..1
    BY ONLY <2>6, <2>8 DEF Leans, Lean
  <2>13. SpineNode(v, j, i)
    BY ONLY <2>1, <2>2, <2>6, <2>8, <2>9, <2>10, <2>11, <2>12 DEF SpineNode
  <2>14. Avl(t, o, v.off[j], v.offdep[j])
    BY <2>6, <2>8 DEF Avl
  <2> QED
    BY ONLY <2>2, <2>13, <2>14 DEF i, h, o, s
<1>4. Spine(v)
  BY ONLY <1>1, <1>2, <1>3 DEF Spine
<1>5. Hangs(t, v, n)
  <2>1. t \in Tree
    BY DEF Line
  <2> QED
    BY <1>1, <1>2, <1>3, <2>1 DEF Hangs
<1> QED
  BY <1>4, <1>5

Strung(u, v, i) ==
  /\ Spot(u, v.node, v.side, i) = v.node[i]
  /\ Avl(u, u.kid[v.node[i]][-v.side[i]], v.off[i], v.offdep[i])

\* The node at place i, with the subtree below it complete.
Ready(u, v, i, d) ==
  /\ Parts(u, v.node[i], v.side[i], v.all[i + 1], d, v.off[i], v.offdep[i])
  /\ v.node[i] \in Elem /\ v.side[i] \in Side
  /\ v.all[i] = v.all[i + 1] \union v.off[i] \union {v.node[i]}

\* With an AVL tree below the next place, a place of the spine is as its
\* balance factor wants it, or off by one.
LEMMA StrungReady ==
    ASSUME NEW v, Spine(v), NEW u, NEW i \in 1..v.n, NEW n, n = i + 1,
           Strung(u, v, i), NEW d, Filled(u, v, n, d)
    PROVE  Ready(u, v, i, d)
<1>1. SpineNode(v, i, n) /\ v.n \in Nat
  BY DEF Spine
<1>2. Spot(u, v.node, v.side, n) = u.kid[v.node[i]][v.side[i]]
  <2>1. n # 1 /\ n - 1 = i
    BY <1>1
  <2> QED
    BY ONLY <2>1 DEF Spot
<1>3. Parts(u, v.node[i], v.side[i], v.all[n], d, v.off[i], v.offdep[i])
  BY <1>1, <1>2 DEF Filled, Parts, SpineNode, Strung
<1> QED
  BY <1>1, <1>3 DEF SpineNode, Ready

\* A tree that hangs on a spine all along hangs on each part of it.
LEMMA HangsStrung ==
    ASSUME NEW v, Spine(v), NEW u, NEW n \in 0..v.n, Hangs(u, v, n), NEW i \in 1..n
    PROVE  Strung(u, v, i) /\ u.bf[v.node[i]] = v.bf[i] /\ Hangs(u, v, i) /\ u \in Tree
           /\ SpineNode(v, i, i + 1) /\ v.node[i] \in Elem /\ v.node[i] \in v.all[i]
<1>1. i \in 1..v.n /\ SpineNode(v, i, i + 1)
  BY DEF Spine
<1>2. Strung(u, v, i) /\ u.bf[v.node[i]] = v.bf[i] /\ u \in Tree
  BY DEF Hangs, Strung
<1>3. Hangs(u, v, i)
  BY <1>1 DEF Hangs, Spine
<1> QED
  BY <1>1, <1>2, <1>3 DEF SpineNode

\* A complete subtree is hung at its place.
LEMMA HungThere ==
    ASSUME NEW v, Spine(v), NEW i \in 1..(v.n + 1), NEW n, n = i - 1, NEW u, Hangs(u, v, n),
           NEW k, NEW d, Avl(u, k, v.all[i], d), NEW w, w = SetPlace(u, v.node, v.side, i, k)
    PROVE  Hangs(w, v, n) /\ Filled(w, v, i, d) /\ w.bf = u.bf
<1>1. u \in Tree /\ v.n \in Nat /\ i \in Nat
  BY DEF Hangs, Spine
<1>2. i # 1 => v.node[i - 1] \in Elem /\ v.side[i - 1] \in Side /\ v.node[i - 1] \notin v.all[i]
  <2> SUFFICES ASSUME i # 1
               PROVE  v.node[n] \in Elem /\ v.side[n] \in Side /\ v.node[n] \notin v.all[i]
    OBVIOUS
  <2>1. n \in 1..v.n /\ i \in (n + 1)..(v.n + 1)
    BY <1>1
  <2>2. SpineNode(v, n, n + 1)
    BY <2>1 DEF Spine
  <2> QED
    BY <2>1, <2>2, SpineBelow DEF SpineNode
<1>3. Placed(u, w, v.node, v.side, i, k)
  <2>1. k \in Handle
    BY AvlType
  <2> QED
    BY <1>1, <1>2, <2>1, PlaceSet
<1>4. Hangs(w, v, n)
  <2>1. Apiece(u, w, v, i)
    BY <1>3, PlacedApiece
  <2> QED
    BY <2>1, HangsOn
<1>5. v.all[i] \in SUBSET Elem
  BY AvlType
<1>6. Agree(u, w, v.all[i])
  BY <1>2, <1>3, <1>5 DEF Placed, Agree
<1>7. Avl(w, k, v.all[i], d)
  BY <1>6, FrameAvl
<1> QED
  BY ONLY <1>3, <1>4, <1>7 DEF Placed, Filled

\* The node at place i is given another balance factor.
LEMMA Adjusted ==
    ASSUME NEW v, Spine(v), NEW i \in 1..v.n, NEW n, n = i - 1, NEW u, Hangs(u, v, i),
           NEW d, NEW j, j = i + 1, Filled(u, v, j, d),
           NEW b, b = Lean(v.side[i], d, v.offdep[i]), b \in -1..1,
           NEW h, h = v.node[i], NEW w, w = [u EXCEPT !.bf[h] = StoredBf(@, b)]
    PROVE  /\ Hangs(w, v, n) /\ Avl(w, h, v.all[i], 1 + Deeper(d, v.offdep[i]))
           /\ Spot(w, v.node, v.side, i) = h /\ w.bf[h] = b
<1>1. v.n \in Nat /\ i \in 1..(v.n + 1) /\ i \in 0..v.n /\ i \in 1..i
  BY DEF Spine
<1>2. /\ Strung(u, v, i) /\ u \in Tree /\ SpineNode(v, i, j) /\ h \in Elem /\ h \in v.all[i]
  BY <1>1, HangsStrung
<1>3. Ready(u, v, i, d)
  BY <1>2, StrungReady
<1>4. /\ w \in Tree /\ w.root = u.root /\ w.kid = u.kid /\ w.bf[h] = b
      /\ \A e \in Elem : e # h => w.bf[e] = u.bf[e]
  <2>1. u.bf \in Factors /\ u.kid \in Kids
    BY <1>2, TreeParts
  <2> DEFINE F == [u.bf EXCEPT ![h] = StoredBf(@, b)]
  <2>2. w = [u EXCEPT !.bf = F]
    BY <1>2 DEF Tree
  <2>3. F = [u.bf EXCEPT ![h] = b]
    BY <1>2, <2>1, GivesBack DEF Factors
  <2>4. F \in Factors /\ F[h] = b /\ \A e \in Elem : e # h => F[e] = u.bf[e]
    <3> HIDE DEF F
    <3> QED
      BY <1>2, <2>1, <2>3 DEF Factors
  <2> HIDE DEF F
  <2> QED
    BY <1>2, <2>2, <2>4 DEF Tree, Factors
<1>5. Apiece(u, w, v, i)
  <2>1. \A e \in Elem : e \in v.all[i] \/ (w.kid[e] = u.kid[e] /\ w.bf[e] = u.bf[e])
    BY ONLY <1>2, <1>4
  <2>2. ASSUME i # 1
        PROVE  /\ w.root = u.root /\ w.bf[v.node[n]] = u.bf[v.node[n]]
               /\ w.kid[v.node[n]][-v.side[n]] = u.kid[v.node[n]][-v.side[n]]
    <3>1. n \in 1..v.n /\ i \in (n + 1)..(v.n + 1)
      BY <1>1, <2>2
    <3>2. SpineNode(v, n, n + 1)
      BY <3>1 DEF Spine
    <3>3. v.node[n] \in Elem /\ v.node[n] # h
      BY <1>2, <3>1, <3>2, SpineBelow DEF SpineNode
    <3> QED
      BY ONLY <1>4, <3>3
  <2> QED
    BY <1>4, <2>1, <2>2 DEF Apiece
<1>6. Hangs(w, v, n)
  <2>1. Hangs(u, v, n)
    BY <1>1 DEF Hangs
  <2> QED
    BY <1>1, <1>5, <2>1, HangsOn
<1>7. Spot(w, v.node, v.side, i) = h
  BY <1>2, <1>4 DEF Strung, Spot
<1>8. /\ Parts(u, h, v.side[i], v.all[j], d, v.off[i], v.offdep[i])
      /\ v.side[i] \in Side /\ v.all[i] = v.all[j] \union v.off[i] \union {h}
  BY <1>3 DEF Ready
<1>9. Parts(w, h, v.side[i], v.all[j], d, v.off[i], v.offdep[i])
  <2>1. h \notin v.all[j] /\ h \notin v.off[i]
    <3>1. j \in (i + 1)..(v.n + 1)
      BY <1>1
    <3> QED
      BY <3>1, SpineBelow
  <2>2. /\ Avl(u, u.kid[h][v.side[i]], v.all[j], d)
        /\ Avl(u, u.kid[h][-v.side[i]], v.off[i], v.offdep[i])
    BY ONLY <1>8 DEF Parts
  <2>3. v.all[j] \in SUBSET Elem /\ v.off[i] \in SUBSET Elem
    BY ONLY <2>2, AvlSet
  <2>4. Agree(u, w, v.all[j]) /\ Agree(u, w, v.off[i])
    BY <1>4, <2>1, <2>3 DEF Agree
  <2>5. /\ Avl(w, u.kid[h][v.side[i]], v.all[j], d)
        /\ Avl(w, u.kid[h][-v.side[i]], v.off[i], v.offdep[i])
    <3>1. Avl(w, u.kid[h][v.side[i]], v.all[j], d)
      BY ONLY <2>2, <2>4, FrameAvl
    <3>2. Avl(w, u.kid[h][-v.side[i]], v.off[i], v.offdep[i])
      BY ONLY <2>2, <2>4, FrameAvl
    <3> QED
      BY ONLY <3>1, <3>2, Zenon
  <2> QED
    BY ONLY <1>4, <1>8, <2>5, Zenon DEF Parts
<1>10. Avl(w, h, v.all[i], 1 + Deeper(d, v.offdep[i]))
  <2>1. Leans(w, h, v.side[i], d, v.offdep[i])
    BY <1>4 DEF Leans, Lean
  <2> QED
    BY <1>2, <1>8, <1>9, <2>1, Join
<1> QED
  BY ONLY <1>4, <1>6, <1>7, <1>10

\* The node at place i is balanced.
LEMMA Rebalanced ==
    ASSUME NEW v, Spine(v), NEW i \in 1..v.n, NEW n, n = i - 1, NEW u, Hangs(u, v, i),
           NEW d, NEW j, j = i + 1, Filled(u, v, j, d), d = v.offdep[i] + 2,
           NEW h, h = v.node[i], v.bf[i] = v.side[i], NEW b, b = Balance(u, h)
    PROVE  /\ Hangs(b.tree, v, n)
           /\ Avl(b.tree, b.top, v.all[i], IF b.tree.bf[b.top] = 0 THEN d ELSE d + 1)
           /\ u.bf[Spot(u, v.node, v.side, j)] # 0 => b.tree.bf[b.top] = 0
<1>1. v.n \in Nat /\ i \in 1..(v.n + 1) /\ i \in 0..v.n /\ i \in 1..i
  BY DEF Spine
<1>2. /\ Strung(u, v, i) /\ u \in Tree /\ SpineNode(v, i, j) /\ h \in Elem /\ h \in v.all[i]
      /\ u.bf[h] = v.bf[i]
  BY <1>1, HangsStrung
<1>3. Ready(u, v, i, d)
  BY <1>2, StrungReady
<1> DEFINE s == v.side[i]
           o == -s
           deep == u.kid[h][s]
<1>4. /\ Parts(u, h, s, v.all[j], d, v.off[i], v.offdep[i])
      /\ s \in Side /\ v.all[i] = v.all[j] \union v.off[i] \union {h}
  BY <1>3 DEF Ready
<1>5. Facts(s, o)
  BY ONLY <1>4, Sides DEF Facts, less, greater
<1>6. Spot(u, v.node, v.side, j) = deep
  <2>1. j # 1 /\ j - 1 = i
    BY <1>1
  <2> QED
    BY <2>1 DEF Spot
<1>7. Skew(u, h, s, o, v.all[j], d, v.off[i], v.offdep[i], deep) /\ u.bf[h] = s
  BY <1>2, <1>4, <1>5 DEF Skew
<1> HIDE DEF s, o, deep
<1>8. /\ Balanced(u, h, v.all[j], v.off[i], d, b)
      /\ u.bf[deep] # 0 => b.tree.bf[b.top] = 0
  <2> DEFINE A == v.all[j]
             B == v.off[i]
             e == v.offdep[i]
  <2>1. Skew(u, h, s, o, A, d, B, e, deep) /\ u.bf[h] = s
    BY <1>7
  <2> HIDE DEF A, B, e
  <2>2. Rebal(u, h, A, B, d, deep, Balance(u, h))
    BY ONLY <2>1, BalanceSound
  <2> QED
    BY <2>2 DEF A, B, Rebal
<1>9. /\ b.tree \in Tree /\ b.tree.root = u.root
      /\ Agree(u, b.tree, Elem \ (v.all[j] \union {h}))
      /\ Avl(b.tree, b.top, v.all[i], IF b.tree.bf[b.top] = 0 THEN d ELSE d + 1)
  BY <1>4, <1>8, Zenon DEF Balanced
<1>10. \A e \in Elem \ v.all[i] : b.tree.kid[e] = u.kid[e] /\ b.tree.bf[e] = u.bf[e]
  BY ONLY <1>4, <1>9 DEF Agree
<1>11. Apiece(u, b.tree, v, i)
  <2>1. ASSUME i # 1
        PROVE  b.tree.bf[v.node[n]] = u.bf[v.node[n]] /\ b.tree.kid[v.node[n]] = u.kid[v.node[n]]
    <3>1. n \in 1..v.n /\ i \in (n + 1)..(v.n + 1)
      BY <1>1, <2>1
    <3>2. SpineNode(v, n, n + 1)
      BY <3>1 DEF Spine
    <3>3. v.node[n] \in Elem /\ v.node[n] \notin v.all[i]
      BY <3>1, <3>2, SpineBelow DEF SpineNode
    <3> QED
      BY <1>10, <3>3
  <2> QED
    BY <1>9, <1>10, <2>1, Zenon DEF Apiece
<1>12. Hangs(b.tree, v, n)
  <2>1. Hangs(u, v, n)
    BY <1>1 DEF Hangs
  <2> QED
    BY <1>1, <1>11, <2>1, HangsOn
<1> QED
  BY ONLY <1>6, <1>8, <1>9, <1>12

\* No node of the way is off it.
LEMMA OffSpine ==
    ASSUME NEW v, Spine(v), NEW i \in 1..v.n, NEW j \in 1..v.n
    PROVE  v.node[i] \in Elem /\ v.node[i] \notin v.off[j] /\ (v.node[i] = v.node[j] => i = j)
<1>1. v.n \in Nat /\ SpineNode(v, i, i + 1) /\ SpineNode(v, j, j + 1)
  BY DEF Spine
<1>2. /\ v.node[i] \in Elem /\ v.node[i] \in v.all[i] /\ v.off[j] \subseteq v.all[j]
      /\ v.node[j] \in v.all[j]
  BY <1>1 DEF SpineNode
<1>3. CASE i < j
  <2>1. j \in (i + 1)..(v.n + 1)
    BY <1>1, <1>3
  <2> QED
    BY <1>2, <2>1, SpineBelow
<1>4. CASE i = j
  <2>1. j + 1 \in (j + 1)..(v.n + 1)
    BY <1>1
  <2> QED
    BY <1>2, <1>4, <2>1, SpineBelow
<1>5. CASE j < i
  <2>1. i \in (j + 1)..(v.n + 1)
    BY <1>1, <1>5
  <2> QED
    BY <1>2, <2>1, SpineBelow
<1> QED
  BY <1>1, <1>3, <1>4, <1>5

-----------------------------------------------------------------------------
(* insert()                                                                  *)

\* The way down from the root of c to the place of the new leaf h.
Entry(c, sub, dep, q, br, h) ==
  /\ Line(c, sub, dep, q, br) /\ h \in Elem /\ h \notin sub[c.root]
  /\ \A j \in 1..Len(q) : br[j] \in Side /\ br[j] = Sign(KeyOf[h] - KeyOf[q[j]])
  /\ Spot(c, q, br, Len(q) + 1) = null
  /\ c.kid[h] = [s \in Side |-> null] /\ c.bf[h] = 0

\* The factors of the nodes from place u + 1 of the way on lean to the leaf h.
Lowered(g, q, u, n, h) ==
  [g EXCEPT !.bf = [e \in Elem |->
     IF e \in {q[i] : i \in (u + 1)..n} THEN StoredBf(g.bf[e], Sign(KeyOf[h] - KeyOf[e]))
     ELSE g.bf[e]]]

\* That way as a spine with the leaf at its end.
EntryIs(c, sub, q, br, n, v, h) ==
  /\ Spine(v) /\ Hangs(c, v, n) /\ v.n = n /\ v.node = q /\ v.side = br /\ n \in Nat
  /\ \A j \in 1..n : v.bf[j] = c.bf[q[j]]
  /\ v.all[n + 1] = {h} /\ v.dep[n + 1] = 0 /\ v.all[1] = sub[c.root] \union {h}

\* The way down to a place with no node is a spine for the tree the new node
\* makes.
LEMMA EntrySpine ==
    ASSUME NEW c, NEW sub, NEW dep, NEW q, NEW br, NEW h, Entry(c, sub, dep, q, br, h),
           NEW n, n = Len(q), NEW v, v = Course(c, sub, dep, q, br, n, {}, {h})
    PROVE  EntryIs(c, sub, q, br, n, v, h)
<1>1. /\ Line(c, sub, dep, q, br) /\ h \in Elem /\ h \notin sub[c.root]
      /\ \A j \in 1..n : br[j] \in Side /\ br[j] = Sign(KeyOf[h] - KeyOf[q[j]])
      /\ Spot(c, q, br, n + 1) = null
  BY DEF Entry
<1>2. n \in Nat /\ n \in 0..Len(q)
  BY <1>1, LenProperties DEF Line, Trail
<1>3. Measures(sub, dep)
  BY <1>1 DEF Line, Witness
<1>4. \A j \in 1..n : Beside({h}, q[j], br[j])
  BY <1>1 DEF Beside
<1>5. Spine(v) /\ Hangs(c, v, n)
  <2>1. {h} \in SUBSET Elem /\ \A j \in 1..n : br[j] \in Side
    BY <1>1
  <2> QED
    BY <1>1, <1>2, <1>4, <2>1, CourseSpine
<1>6. /\ v.n = n /\ v.node = q /\ v.side = br /\ \A j \in 1..n : v.bf[j] = c.bf[q[j]]
      /\ \A j \in 1..(n + 1) : /\ v.all[j] = (sub[Spot(c, q, br, j)] \ {}) \union {h}
                               /\ v.dep[j] = dep[Spot(c, q, br, j)]
  BY DEF Course
<1>7. v.all[n + 1] = {h} /\ v.dep[n + 1] = 0
  <2>1. n + 1 \in 1..(n + 1)
    BY <1>2
  <2> QED
    BY ONLY <1>1, <1>3, <1>6, <2>1 DEF Measures
<1>8. v.all[1] = sub[c.root] \union {h}
  <2>1. 1 \in 1..(n + 1) /\ Spot(c, q, br, 1) = c.root
    BY <1>2 DEF Spot
  <2> QED
    BY <1>6, <2>1
<1> QED
  BY <1>2, <1>5, <1>6, <1>7, <1>8 DEF EntryIs

\* The leaf is hung, and the nodes above it lean to it up to the last that was
\* out of balance before.
Level(c, q, u, n) == \A i \in (u + 1)..n : c.bf[q[i]] = 0
LoweredIs(v, g, q, br, u, n, m) ==
  /\ Hangs(g, v, u) /\ Filled(g, v, m, v.dep[m] + 1)
  /\ u < n => g.bf[Spot(g, q, br, m)] # 0

\* The new node is in, and the balance factors below the deepest node that
\* leans are set, as insert() does before it goes up.
LEMMA InsertLower ==
    ASSUME NEW c, NEW sub, NEW dep, NEW q, NEW br, NEW h, Entry(c, sub, dep, q, br, h),
           NEW n, n = Len(q), NEW v, v = Course(c, sub, dep, q, br, n, {}, {h}),
           NEW u \in 0..n, Level(c, q, u, n), NEW m, m = u + 1,
           NEW hung, hung = SetPlace(c, q, br, n + 1, h)
    PROVE  LoweredIs(v, Lowered(hung, q, u, n, h), q, br, u, n, m)
<1> DEFINE below == Lowered(hung, q, u, n, h)
<1>1. /\ Spine(v) /\ Hangs(c, v, n) /\ v.n = n /\ v.node = q /\ v.side = br /\ n \in Nat
      /\ \A j \in 1..n : v.bf[j] = c.bf[q[j]]
      /\ v.all[n + 1] = {h} /\ v.dep[n + 1] = 0
  <2>1. EntryIs(c, sub, q, br, n, v, h)
    BY EntrySpine
  <2> QED
    BY ONLY <2>1 DEF EntryIs
<1>2. /\ h \in Elem /\ c.kid[h] = [s \in Side |-> null] /\ c.bf[h] = 0
      /\ \A j \in 1..n : br[j] \in Side /\ br[j] = Sign(KeyOf[h] - KeyOf[q[j]])
  BY DEF Entry
<1>3. \A j \in 1..n : /\ q[j] \in Elem /\ SpineNode(v, j, j + 1) /\ q[j] # h
                      /\ v.off[j] \in SUBSET Elem /\ h \notin v.off[j]
  <2> TAKE j \in 1..n
  <2>1. SpineNode(v, j, j + 1)
    BY ONLY <1>1 DEF Spine
  <2>2. n + 1 \in (j + 1)..(n + 1)
    BY ONLY <1>1
  <2>3. q[j] \notin v.all[n + 1] /\ v.off[j] \cap v.all[n + 1] = {}
    BY ONLY <1>1, <2>2, SpineBelow
  <2> QED
    BY ONLY <1>1, <2>1, <2>3 DEF SpineNode
<1>4. Avl(c, h, {h}, 1)
  <2>1. less \in Side /\ greater \in Side
    BY DEF Side
  <2>2. Avl(c, c.kid[h][less], {}, 0) /\ Avl(c, c.kid[h][-less], {}, 0)
    <3>1. c.kid[h][less] = null /\ c.kid[h][-less] = null
      BY <1>2, <2>1, Sides
    <3> QED
      BY <3>1, AvlNull
  <2>3. Parts(c, h, less, {}, 0, {}, 0) /\ Leans(c, h, less, 0, 0)
    BY <1>2, <2>2 DEF Parts, Leans, Beside
  <2>4. Avl(c, h, {} \union {} \union {h}, 1 + Deeper(0, 0))
    BY <1>2, <2>1, <2>3, Join
  <2>5. {} \union {} \union {h} = {h} /\ 1 + Deeper(0, 0) = 1
    BY DEF Deeper
  <2> QED
    BY <2>4, <2>5
<1> DEFINE l == n + 1
<1>5. Hangs(hung, v, n) /\ Filled(hung, v, l, 1) /\ hung.bf = c.bf
  <2>1. l \in 1..(v.n + 1) /\ n = l - 1 /\ v.all[l] = {h}
    <3>1. n \in Nat /\ v.n = n
      BY <1>1
    <3>2. v.all[n + 1] = {h}
      BY <1>1
    <3>3. l \in 1..(v.n + 1) /\ n = l - 1
      BY <3>1
    <3> QED
      BY <3>2, <3>3
  <2>4. Avl(c, h, v.all[l], 1)
    BY <1>4, <2>1
  <2>2. hung = SetPlace(c, v.node, v.side, l, h)
    BY <1>1
  <2> HIDE DEF l
  <2> QED
    BY <1>1, <2>1, <2>2, <2>4, HungThere
<1> DEFINE lower == {q[i] : i \in m..n}
           F == [e \in Elem |-> IF e \in lower THEN StoredBf(hung.bf[e], Sign(KeyOf[h] - KeyOf[e]))
                                ELSE hung.bf[e]]
<1>6. \A e \in Elem : F[e] = IF e \in lower THEN Sign(KeyOf[h] - KeyOf[e]) ELSE hung.bf[e]
  <2>1. hung.bf \in Factors
    BY <1>5, TreeParts DEF Hangs
  <2>2. \A e \in Elem : Sign(KeyOf[h] - KeyOf[e]) \in -1..1 /\ hung.bf[e] \in -1..1
    BY <1>2, <2>1, KeyIs, SignIs DEF Factors, Sign
  <2> HIDE DEF lower
  <2>3. \A e \in Elem : F[e] = IF e \in lower THEN StoredBf(hung.bf[e], Sign(KeyOf[h] - KeyOf[e]))
                               ELSE hung.bf[e]
    OBVIOUS
  <2> HIDE DEF F
  <2> QED
    BY ONLY <2>2, <2>3, GivesBack
<1>7. F \in Factors
  <2>1. hung.bf \in Factors
    BY <1>5, TreeParts DEF Hangs
  <2>2. \A e \in Elem : F[e] \in -1..1
    BY ONLY <1>2, <1>6, <2>1, KeyIs, SignIs DEF Factors, Sign
  <2>3. F = [e \in Elem |-> F[e]]
    OBVIOUS
  <2> HIDE DEF F
  <2> QED
    BY ONLY <2>2, <2>3 DEF Factors
<1>8. below = [hung EXCEPT !.bf = F]
  BY DEF Lowered
<1> HIDE DEF F, below
<1>9. below \in Tree /\ below.kid = hung.kid /\ below.root = hung.root /\ below.bf = F
  BY <1>5, <1>7, <1>8 DEF Hangs, Tree, Factors
<1>10. \A j \in m..n : below.bf[q[j]] = br[j]
  <2> TAKE j \in m..n
  <2>1. j \in 1..n /\ q[j] \in lower
    BY <1>1
  <2> HIDE DEF lower
  <2> QED
    BY ONLY <1>2, <1>3, <1>6, <1>9, <2>1
<1>11. \A e \in Elem : e \notin lower => below.bf[e] = hung.bf[e]
  <2> HIDE DEF lower
  <2> QED
    BY <1>6, <1>9
<1>12. ASSUME NEW j \in m..n PROVE Strung(below, v, j)
  <2>1. j \in 1..n
    BY <1>1
  <2>2. Strung(hung, v, j)
    BY <1>1, <1>5, <2>1, HangsStrung
  <2>3. \A e \in v.off[j] : e \in Elem /\ e \notin lower
    <3>1. \A i \in m..n : q[i] \notin v.off[j]
      <4> TAKE i \in m..n
      <4>1. i \in 1..v.n /\ j \in 1..v.n
        BY <1>1, <2>1
      <4> QED
        BY ONLY <1>1, <4>1, OffSpine
    <3>2. \A e \in lower : e \notin v.off[j]
      BY <3>1
    <3>3. v.off[j] \in SUBSET Elem
      BY <1>3, <2>1
    <3> HIDE DEF lower
    <3> QED
      BY <3>2, <3>3
  <2>4. Agree(hung, below, v.off[j])
    BY <1>9, <1>11, <2>3 DEF Agree
  <2> DEFINE k == hung.kid[v.node[j]][-v.side[j]]
  <2>5. Avl(hung, k, v.off[j], v.offdep[j])
    BY <2>2, Zenon DEF Strung
  <2> HIDE DEF k
  <2>6. Avl(below, k, v.off[j], v.offdep[j])
    BY <2>4, <2>5, FrameAvl
  <2> QED
    BY ONLY <1>9, <2>2, <2>6, Zenon DEF Strung, Spot, k
<1> DEFINE P == {j \in 1..l : j >= m => Filled(below, v, j, v.dep[j] + 1)}
<1>13. l \in P
  <2>7. l \in 1..l /\ v.dep[l] + 1 = 1 /\ v.all[l] = {h}
    <3>1. n \in Nat
      BY <1>1
    <3>2. v.all[n + 1] = {h}
      BY <1>1
    <3>3. v.dep[n + 1] = 0
      BY <1>1
    <3>4. l \in 1..l
      BY <3>1
    <3>5. v.all[l] = {h}
      BY <3>2
    <3>6. v.dep[l] + 1 = 1
      BY <3>3
    <3> QED
      BY <3>4, <3>5, <3>6
  <2> HIDE DEF l
  <2>1. Avl(hung, Spot(hung, q, br, l), {h}, 1)
    BY <1>1, <1>5, <2>7 DEF Filled
  <2>2. h \notin lower
    BY <1>1, <1>3
  <2>3. Agree(hung, below, {h})
    BY ONLY <1>2, <1>9, <1>11, <2>2 DEF Agree
  <2>4. Avl(below, Spot(hung, q, br, l), {h}, 1)
    BY <2>1, <2>3, FrameAvl
  <2>5. Spot(below, q, br, l) = Spot(hung, q, br, l)
    BY <1>9 DEF Spot
  <2>6. Filled(below, v, l, v.dep[l] + 1)
    BY ONLY <1>1, <2>7, <2>4, <2>5 DEF Filled
  <2> QED
    BY <2>6, <2>7
<1>14. ASSUME NEW j \in 1..(l - 1), j + 1 \in P PROVE j \in P
  <2> SUFFICES ASSUME j >= m PROVE Filled(below, v, j, v.dep[j] + 1)
    BY <1>1
  <2> DEFINE k == j + 1
             d == v.dep[k] + 1
             s == v.side[j]
             g == v.node[j]
  <2>1. j \in m..n /\ j \in 1..v.n /\ Filled(below, v, k, d) /\ k = j + 1 /\ j \in 1..n
    BY <1>1, <1>14
  <2>2. SpineNode(v, j, k)
    BY ONLY <1>3, <2>1
  <2> HIDE DEF k, d
  <2>3. Strung(below, v, j)
    BY <1>12, <2>1
  <2>4. Ready(below, v, j, d)
    BY ONLY <1>1, <2>1, <2>3, StrungReady
  <2>5. /\ Parts(below, g, s, v.all[k], d, v.off[j], v.offdep[j])
        /\ g \in Elem /\ s \in Side /\ v.all[j] = v.all[k] \union v.off[j] \union {g}
    BY <2>1, <2>4 DEF Ready
  <2>6. below.bf[g] = s
    BY ONLY <1>1, <1>10, <2>1
  <2>7. /\ v.dep[k] = v.offdep[j] /\ v.dep[k] \in Nat /\ v.dep[j] = 1 + Deeper(v.dep[k], v.offdep[j])
    <3>1. v.bf[j] = 0
      BY <1>1, <2>1 DEF Level
    <3>2. /\ v.bf[j] = Lean(s, v.dep[k], v.offdep[j]) /\ v.dep[k] \in Nat /\ v.offdep[j] \in Nat
          /\ v.dep[j] = 1 + Deeper(v.dep[k], v.offdep[j])
      BY <2>2 DEF SpineNode
    <3> QED
      BY ONLY <3>1, <3>2 DEF Lean
  <2>8. Leans(below, g, s, d, v.offdep[j])
    <3>1. (s = greater /\ s = 1) \/ (s # greater /\ s = -1)
      BY <2>5, Sides DEF less, greater
    <3> QED
      BY ONLY <2>6, <2>7, <3>1 DEF Leans, d
  <2>9. 1 + Deeper(d, v.offdep[j]) = v.dep[j] + 1
    BY ONLY <2>7 DEF Deeper, d
  <2>10. Avl(below, g, v.all[j], v.dep[j] + 1)
    <3>1. Avl(below, g, v.all[k] \union v.off[j] \union {g}, 1 + Deeper(d, v.offdep[j]))
      BY ONLY <2>5, <2>8, Join
    <3> QED
      BY <2>5, <2>9, <3>1
  <2> QED
    BY ONLY <2>3, <2>10 DEF Filled, Strung
<1>15. Filled(below, v, m, v.dep[m] + 1)
  <2>1. l \in Nat /\ m \in 1..l
    BY <1>1
  <2>2. 1..l \subseteq P
    <3> HIDE DEF P, l
    <3>1. \A i \in 1..(l - 1) : i + 1 \in P => i \in P
      BY <1>14
    <3> QED
      BY <1>13, <2>1, <3>1, Downward
  <2>3. m \in P
    BY <2>1, <2>2
  <2>4. m >= m
    BY <2>1
  <2> QED
    BY <2>3, <2>4
<1>16. Hangs(below, v, u)
  <2>1. Hangs(hung, v, u)
    <3>1. u \in 0..v.n /\ \A j \in 1..u : j \in 1..n
      BY <1>1
    <3> QED
      BY ONLY <1>5, <3>1 DEF Hangs
  <2>2. m \in 1..(v.n + 1) /\ u = m - 1
    BY <1>1
  <2>3. \A e \in Elem : e \in v.all[m] \/ below.bf[e] = hung.bf[e]
    <3>1. \A i \in m..n : q[i] \in v.all[m]
      <4> TAKE i \in m..n
      <4>5. i \in 1..n
        BY <1>1
      <4>1. SpineNode(v, i, i + 1)
        BY <1>3, <4>5
      <4>2. q[i] \in v.all[i]
        BY <1>1, <4>1, <4>5 DEF SpineNode
      <4>3. CASE i = m
        BY <4>2, <4>3
      <4>4. CASE i # m
        <5>1. m \in 1..v.n /\ i \in (m + 1)..(v.n + 1) /\ m \in 1..n
          BY <1>1, <4>4, <4>5
        <5>2. v.all[i] \subseteq v.all[m]
          BY ONLY <1>1, <5>1, SpineInto
        <5> QED
          BY <4>2, <5>2
      <4> QED
        BY <4>3, <4>4
    <3>2. \A e \in lower : e \in v.all[m]
      BY <3>1
    <3> HIDE DEF lower
    <3> QED
      BY ONLY <1>11, <3>2
  <2>4. Apiece(hung, below, v, m)
    <3>1. ASSUME m # 1 PROVE below.bf[v.node[u]] = hung.bf[v.node[u]]
      <4>1. u \in 1..v.n /\ m \in (u + 1)..(v.n + 1) /\ u \in 1..n
        BY <1>1, <3>1
      <4>2. v.node[u] \notin v.all[m] /\ v.node[u] \in Elem
        BY ONLY <1>1, <1>3, <4>1, SpineBelow
      <4> QED
        BY <2>3, <4>2
    <3> QED
      BY ONLY <1>9, <2>2, <2>3, <3>1 DEF Apiece
  <2> QED
    BY <1>1, <2>1, <2>2, <2>4, HangsOn
<1>17. u < n => below.bf[Spot(below, q, br, m)] # 0
  <2> SUFFICES ASSUME u < n PROVE below.bf[Spot(below, q, br, m)] # 0
    OBVIOUS
  <2>1. m \in m..n /\ m \in 1..n
    BY <1>1
  <2>2. Strung(below, v, m) /\ below.bf[q[m]] = br[m] /\ br[m] \in Side
    BY <1>2, <1>10, <1>12, <2>1
  <2> QED
    BY ONLY <1>1, <2>2 DEF Strung, Side, less, greater
<1> QED
  BY ONLY <1>15, <1>16, <1>17 DEF LoweredIs, below

\* What insert() does at the last unbalanced node above the leaf.
InsertEnd(g, q, br, u, ubf) ==
  LET b == Balance(g, q[u])
  IN IF u = 0 THEN g
     ELSE IF ubf \in {-1, 0, 1} THEN [g EXCEPT !.bf[q[u]] = StoredBf(@, ubf)]
     ELSE SetPlace(b.tree, q, br, u, b.top)

\* A subtree has become deeper by one level, and the node above it is out of
\* balance, or there is none.
Deepened(v, g, u, m) ==
  /\ Spine(v) /\ u \in 0..v.n /\ m = u + 1
  /\ Hangs(g, v, u) /\ Filled(g, v, m, v.dep[m] + 1)
  /\ u < v.n => g.bf[Spot(g, v.node, v.side, m)] # 0
  /\ u = v.n => v.dep[m] = 0
  /\ u # 0 => v.bf[u] # 0

\* The node above a subtree that has become deeper: what its factor says of it.
LeansUp(s, a, o, f, d) ==
  /\ Lean(s, d, o) = f + s
  /\ f = s \/ f = -s
  /\ f + s \in {-1, 0, 1} <=> f # s
  /\ f # s => f + s \in -1..1 /\ 1 + Deeper(d, o) = 1 + Deeper(a, o)
  /\ f = s => d = o + 2 /\ a # 0 /\ d = 1 + Deeper(a, o)

\* How a node leans, and what its depth becomes, when one of its sides gets
\* deeper by one.
LEMMA LeanUp ==
    ASSUME NEW s \in Side, NEW a \in Nat, NEW o \in Nat, NEW f, f = Lean(s, a, o),
           f \in -1..1, f # 0, NEW d, d = a + 1
    PROVE  LeansUp(s, a, o, f, d)
<1>1. CASE s = greater
  <2>1. s = 1
    BY <1>1 DEF greater
  <2> QED
    BY <1>1, <2>1 DEF Lean, Deeper, LeansUp
<1>2. CASE s = less
  <2>1. s = -1 /\ s # greater
    BY <1>2 DEF less, greater
  <2> QED
    BY <1>2, <2>1 DEF Lean, Deeper, LeansUp
<1> QED
  BY <1>1, <1>2 DEF Side

\* insert() restores the balance there, and so that of the tree.
LEMMA InsertTop ==
    ASSUME NEW v, NEW g, NEW u, NEW m, Deepened(v, g, u, m),
           NEW ubf, ubf = v.bf[u] + v.side[u]
    PROVE  Holds(InsertEnd(g, v.node, v.side, u, ubf), v.all[1])
<1> DEFINE w == InsertEnd(g, v.node, v.side, u, ubf)
<1>1. /\ Spine(v) /\ u \in 0..v.n /\ m = u + 1
      /\ Hangs(g, v, u) /\ Filled(g, v, m, v.dep[m] + 1)
      /\ u < v.n => g.bf[Spot(g, v.node, v.side, m)] # 0
      /\ u = v.n => v.dep[m] = 0
      /\ u # 0 => v.bf[u] # 0
  BY DEF Deepened
<1>2. CASE u = 0
  <2>1. m = 1 /\ w = g
    BY ONLY <1>1, <1>2 DEF InsertEnd
  <2>2. Avl(g, g.root, v.all[1], v.dep[m] + 1)
    BY <1>1, <2>1, Zenon DEF Filled, Spot
  <2>3. g \in Tree
    BY <1>1 DEF Hangs
  <2> QED
    BY <2>1, <2>2, <2>3 DEF Holds
<1>3. CASE u # 0
  <2> DEFINE n == u - 1
             s == v.side[u]
             o == v.offdep[u]
             f == v.bf[u]
             d == v.dep[m] + 1
             h == v.node[u]
  <2>1. /\ v.n \in Nat /\ u \in 1..v.n /\ n \in 0..v.n /\ n = u - 1 /\ u = n + 1
        /\ u \in 1..(v.n + 1) /\ m = u + 1
    BY <1>1, <1>3 DEF Spine
  <2>2. SpineNode(v, u, m)
    BY <1>1, <2>1 DEF Spine
  <2>3. /\ s \in Side /\ v.dep[m] \in Nat /\ o \in Nat /\ f = Lean(s, v.dep[m], o)
        /\ f \in -1..1 /\ f # 0 /\ v.dep[u] = 1 + Deeper(v.dep[m], o)
    BY <1>1, <1>3, <2>2 DEF SpineNode
  <2>4. d = v.dep[m] + 1 /\ f = v.bf[u] /\ ubf = f + s /\ h = v.node[u]
    OBVIOUS
  <2>5. /\ Lean(s, d, o) = f + s
        /\ f = s \/ f = -s
        /\ f + s \in {-1, 0, 1} <=> f # s
        /\ f # s => f + s \in -1..1 /\ 1 + Deeper(d, o) = 1 + Deeper(v.dep[m], o)
        /\ f = s => d = o + 2 /\ v.dep[m] # 0 /\ d = 1 + Deeper(v.dep[m], o)
    <3> DEFINE a == v.dep[m]
    <3>1. a \in Nat /\ f = Lean(s, a, o) /\ d = a + 1
      BY <2>3
    <3> HIDE DEF s, o, f, d, a
    <3>2. LeansUp(s, a, o, f, d)
      BY <2>3, <3>1, LeanUp
    <3> QED
      BY <3>2 DEF LeansUp, a
  <2>6. Filled(g, v, m, d)
    BY <1>1
  <2> SUFFICES w \in Tree /\ Hangs(w, v, n) /\ Filled(w, v, u, v.dep[u])
    <3>1. ASSUME Hangs(w, v, n), Filled(w, v, u, v.dep[u]) PROVE Avl(w, w.root, v.all[1], v.dep[1])
      <4> HIDE DEF w, n
      <4> QED
        BY <1>1, <2>1, <3>1, Lifted
    <3> QED
      BY <3>1 DEF Holds
  <2>7. CASE f # s
    <3>1. w = [g EXCEPT !.bf[h] = StoredBf(@, f + s)]
      BY <1>3, <2>4, <2>5, <2>7 DEF InsertEnd
    <3>2. f + s = Lean(v.side[u], d, v.offdep[u]) /\ f + s \in -1..1
      BY <2>5, <2>7
    <3> HIDE DEF w, n, d, s, f, o
    <3>3. /\ Hangs(w, v, n) /\ Avl(w, h, v.all[u], 1 + Deeper(d, v.offdep[u]))
          /\ Spot(w, v.node, v.side, u) = h
      BY <1>1, <2>1, <2>4, <2>6, <3>1, <3>2, Adjusted
    <3>4. v.dep[u] = 1 + Deeper(d, v.offdep[u])
      BY ONLY <2>3, <2>5, <2>7 DEF o
    <3> QED
      BY <3>3, <3>4 DEF Filled, Hangs
  <2>8. CASE f = s
    <3> DEFINE b == Balance(g, h)
    <3>1. w = SetPlace(b.tree, v.node, v.side, u, b.top)
      BY <1>3, <2>4, <2>5, <2>8 DEF InsertEnd
    <3>2. u < v.n
      BY <1>1, <2>1, <2>5, <2>8
    <3>3. d = v.offdep[u] + 2 /\ v.bf[u] = v.side[u] /\ b = Balance(g, h)
      BY <2>5, <2>8
    <3> HIDE DEF w, n, d, s, f, o, b, h
    <3>4. /\ Hangs(b.tree, v, n)
          /\ Avl(b.tree, b.top, v.all[u], IF b.tree.bf[b.top] = 0 THEN d ELSE d + 1)
          /\ g.bf[Spot(g, v.node, v.side, m)] # 0 => b.tree.bf[b.top] = 0
      BY <1>1, <2>1, <2>4, <2>6, <3>3, Rebalanced
    <3>5. Avl(b.tree, b.top, v.all[u], d)
      BY <1>1, <3>2, <3>4
    <3>6. Hangs(w, v, n) /\ Filled(w, v, u, d)
      BY <1>1, <2>1, <3>1, <3>4, <3>5, HungThere
    <3>7. v.dep[u] = d
      BY <2>3, <2>5, <2>8
    <3> QED
      BY <3>6, <3>7 DEF Hangs
  <2> QED
    BY <2>7, <2>8
<1> QED
  BY <1>2, <1>3

\* The last of a set of places.
LEMMA LastPlace ==
    ASSUME NEW n \in Nat, NEW S \in SUBSET (1..n), S # {}
    PROVE  /\ (CHOOSE i \in S : \A j \in S : j <= i) \in S
           /\ \A j \in S : j <= (CHOOSE i \in S : \A l \in S : l <= i)
<1> DEFINE gaps == {n - i : i \in S}
<1>1. gaps \in SUBSET Nat /\ gaps # {}
  <2>1. \A i \in S : i \in 1..n
    OBVIOUS
  <2>2. \A i \in 1..n : n - i \in Nat
    OBVIOUS
  <2>3. \A i \in S : n - i \in Nat
    BY <2>1, <2>2
  <2> QED
    BY <2>3
<1>2. PICK g \in gaps : \A f \in gaps : g <= f
  <2> HIDE DEF gaps
  <2> QED
    BY <1>1, LeastNatural
<1>3. PICK i \in S : g = n - i
  OBVIOUS
<1>4. ASSUME NEW j \in S PROVE j <= i
  <2>1. i \in Nat /\ j \in Nat /\ n - j \in gaps
    OBVIOUS
  <2>2. n - i <= n - j
    <3> HIDE DEF gaps
    <3> QED
      BY <1>2, <1>3, <2>1
  <2> QED
    BY <2>1, <2>2
<1> QED
  BY <1>3, <1>4

\* The way down to the node with the key k, or to where it would be.
Sought(c, S, k, q) ==
  /\ q \in Seq(Elem) /\ Len(q) \in Nat /\ DOMAIN q = 1..Len(q) /\ StaysOn(q, S)
  /\ (q = <<>> <=> c.root = null) /\ (q # <<>> => q[1] = c.root) /\ (q = <<>> <=> Len(q) = 0)
  /\ \A i \in 1..Len(q) : q[i] \in Elem /\ Sign(k - KeyOf[q[i]]) \in Int
                          /\ (KeyOf[q[i]] # k => Sign(k - KeyOf[q[i]]) \in Side)
                          /\ (Sign(k - KeyOf[q[i]]) = 0 <=> KeyOf[q[i]] = k)
  /\ \A i \in 1..(Len(q) - 1) : KeyOf[q[i]] # k
                                /\ q[i + 1] = c.kid[q[i]][Sign(k - KeyOf[q[i]])]
  /\ (\E x \in S : KeyOf[x] = k) => q # <<>> /\ KeyOf[q[Len(q)]] = k
  /\ q # <<>> /\ KeyOf[q[Len(q)]] # k => c.kid[q[Len(q)]][Sign(k - KeyOf[q[Len(q)]])] = null

\* Where the search for a key ends: at the node with the key, or where such
\* a node belongs.
LEMMA SoughtIs ==
    ASSUME NEW c \in Tree, NEW sub, NEW dep, Witness(c, c.root, sub, dep),
           NEW k \in Nat, NEW q, q = Descent(c, k, "equal"), NEW S, S = sub[c.root]
    PROVE  Sought(c, S, k, q)
<1> DEFINE st == "equal"
<1>1. st \in SearchType /\ Equal(st) /\ TargetCmp(st) = 0
  BY DEF SearchType, Equal, TargetCmp
<1>2. Down(c, q, k, st) /\ StaysOn(q, S) /\ Settles(q, S, 1, k, st)
  <2> HIDE DEF st
  <2>1. q = Descent(c, k, st)
    BY DEF st
  <2> QED
    BY <1>1, <2>1, DescentIs, SettlesAll
<1>3. /\ q \in Seq(Elem) /\ Len(q) \in Nat /\ DOMAIN q = 1..Len(q) /\ (q = <<>> <=> Len(q) = 0)
      /\ \A i \in 1..Len(q) : q[i] \in Elem
  BY <1>2, LenProperties, EmptySeq DEF Down
<1>4. S \in SUBSET Elem
  BY DEF Witness, Measures
<1>5. \A e \in Elem : /\ Sign(k - KeyOf[e]) \in Int
                      /\ (KeyOf[e] # k => Sign(k - KeyOf[e]) \in Side)
                      /\ (Sign(k - KeyOf[e]) = 0 <=> KeyOf[e] = k)
                      /\ (KeyOf[e] # k => Turn(e, k, st) = Sign(k - KeyOf[e]))
                      /\ (Good(e, k, st) <=> KeyOf[e] = k) /\ (Stops(e, k, st) <=> KeyOf[e] = k)
  <2> TAKE e \in Elem
  <2>1. KeyOf[e] \in Int /\ k \in Int
    BY KeyIs
  <2>2. /\ Sign(k - KeyOf[e]) \in Int /\ (KeyOf[e] # k => Sign(k - KeyOf[e]) \in Side)
        /\ (Sign(k - KeyOf[e]) = 0 <=> KeyOf[e] = k)
    BY <2>1, SignIs
  <2> HIDE DEF st
  <2> QED
    BY <1>1, <2>2 DEF Turn, Good, Stops
<1> HIDE DEF st
<1>6. \A i \in 1..(Len(q) - 1) : KeyOf[q[i]] # k /\ q[i + 1] = c.kid[q[i]][Sign(k - KeyOf[q[i]])]
  <2> TAKE i \in 1..(Len(q) - 1)
  <2>1. i \in 1..Len(q) /\ q[i] \in Elem
    BY ONLY <1>3
  <2>2. ~Stops(q[i], k, st) /\ q[i + 1] = c.kid[q[i]][Turn(q[i], k, st)]
    BY <1>2 DEF Down
  <2> QED
    BY <1>5, <2>1, <2>2
<1>7. ASSUME NEW x \in S, KeyOf[x] = k PROVE q # <<>> /\ KeyOf[q[Len(q)]] = k
  <2>1. Fit(S, k, st) # {}
    BY <1>1, <1>7 DEF Fit
  <2>2. PICK j \in 1..Len(q) : Good(q[j], k, st)
    BY <1>2, <2>1 DEF Settles
  <2>3. KeyOf[q[j]] = k
    BY ONLY <1>3, <1>5, <2>2
  <2>4. j = Len(q)
    BY <1>3, <1>6, <2>3
  <2> QED
    BY <1>3, <2>3, <2>4
<1>8. q # <<>> /\ KeyOf[q[Len(q)]] # k => c.kid[q[Len(q)]][Sign(k - KeyOf[q[Len(q)]])] = null
  <2> SUFFICES ASSUME q # <<>>, KeyOf[q[Len(q)]] # k
               PROVE  c.kid[q[Len(q)]][Sign(k - KeyOf[q[Len(q)]])] = null
    OBVIOUS
  <2>1. q[Len(q)] \in Elem
    BY <1>3
  <2>2. Stops(q[Len(q)], k, st) \/ c.kid[q[Len(q)]][Turn(q[Len(q)], k, st)] = null
    BY <1>2 DEF Down
  <2> QED
    BY <1>5, <2>1, <2>2
<1>9. /\ StaysOn(q, S) /\ (q = <<>> <=> c.root = null) /\ (q # <<>> => q[1] = c.root)
  BY <1>2 DEF Down
<1>10. \A i \in 1..Len(q) : q[i] \in Elem /\ Sign(k - KeyOf[q[i]]) \in Int
                          /\ (KeyOf[q[i]] # k => Sign(k - KeyOf[q[i]]) \in Side)
                          /\ (Sign(k - KeyOf[q[i]]) = 0 <=> KeyOf[q[i]] = k)
  BY ONLY <1>3, <1>5
<1> QED
  BY <1>3, <1>6, <1>7, <1>8, <1>9, <1>10 DEF Sought

\* insert() of a node that is not in the tree, when no node in it has its key.
LEMMA InsertNew ==
    ASSUME NEW c \in Tree, NEW sub, NEW dep, Witness(c, c.root, sub, dep),
           NEW h \in Elem, h \notin sub[c.root], \A x \in sub[c.root] : KeyOf[x] # KeyOf[h],
           c.kid[h] = [s \in Side |-> null], c.bf[h] = 0,
           NEW q, q = Descent(c, KeyOf[h], "equal"),
           NEW br, br = [i \in DOMAIN q |-> Sign(KeyOf[h] - KeyOf[q[i]])]
    PROVE  Entry(c, sub, dep, q, br, h) /\ \A i \in 1..Len(q) : br[i] # 0
<1> DEFINE k == KeyOf[h]
           S == sub[c.root]
<1>1. k \in Nat
  BY KeyIs
<1>2. Sought(c, S, k, q)
  <2>1. q = Descent(c, k, "equal") /\ S = sub[c.root]
    OBVIOUS
  <2> HIDE DEF k, S
  <2> QED
    BY <1>1, <2>1, SoughtIs
<1>3. /\ q \in Seq(Elem) /\ Len(q) \in Nat /\ DOMAIN q = 1..Len(q) /\ StaysOn(q, S)
      /\ (q = <<>> <=> c.root = null) /\ (q # <<>> => q[1] = c.root) /\ (q = <<>> <=> Len(q) = 0)
      /\ \A i \in 1..Len(q) : q[i] \in Elem /\ Sign(k - KeyOf[q[i]]) \in Int
                              /\ (KeyOf[q[i]] # k => Sign(k - KeyOf[q[i]]) \in Side)
                              /\ (Sign(k - KeyOf[q[i]]) = 0 <=> KeyOf[q[i]] = k)
      /\ \A i \in 1..(Len(q) - 1) : q[i + 1] = c.kid[q[i]][Sign(k - KeyOf[q[i]])]
      /\ q # <<>> /\ KeyOf[q[Len(q)]] # k => c.kid[q[Len(q)]][Sign(k - KeyOf[q[Len(q)]])] = null
  BY ONLY <1>2 DEF Sought
<1>4. \A i \in 1..Len(q) : KeyOf[q[i]] # k
  BY <1>3 DEF StaysOn
<1>5. \A i \in 1..Len(q) : br[i] = Sign(k - KeyOf[q[i]]) /\ br[i] \in Side /\ br[i] # 0
  BY <1>3, <1>4
<1>6. Spot(c, q, br, Len(q) + 1) = null
  <2>1. CASE q = <<>>
    BY ONLY <1>3, <2>1 DEF Spot
  <2>2. CASE q # <<>>
    <3>1. Len(q) \in 1..Len(q) /\ Len(q) + 1 # 1 /\ (Len(q) + 1) - 1 = Len(q)
      BY ONLY <1>3, <2>2
    <3>2. c.kid[q[Len(q)]][br[Len(q)]] = null
      BY ONLY <1>3, <1>4, <1>5, <2>2, <3>1
    <3> HIDE DEF k
    <3> QED
      BY ONLY <3>1, <3>2 DEF Spot
  <2> QED
    BY ONLY <2>1, <2>2
<1>7. Trail(c, q, br)
  <2> SUFFICES ASSUME NEW i \in 1..(Len(q) - 1)
               PROVE  br[i] \in Side /\ q[i + 1] = c.kid[q[i]][br[i]]
    BY <1>3 DEF Trail
  <2>1. i \in 1..Len(q)
    BY ONLY <1>3
  <2>2. q[i + 1] = c.kid[q[i]][Sign(k - KeyOf[q[i]])]
    BY <1>3
  <2> HIDE DEF k
  <2> QED
    BY ONLY <1>5, <2>1, <2>2
<1> QED
  BY <1>3, <1>5, <1>6, <1>7 DEF Entry, Line

\* insert() of such a node, whose fields are cleared already.
Inserted(c, h) ==
  LET path == Descent(c, KeyOf[h], "equal")
      side == [i \in DOMAIN path |-> Sign(KeyOf[h] - KeyOf[path[i]])]
      n == Len(path)
      leaning == {i \in 1..n : c.bf[path[i]] # 0}
      u == IF leaning = {} THEN 0 ELSE CHOOSE i \in leaning : \A j \in leaning : j <= i
      below == Lowered(SetPlace(c, path, side, n + 1, h), path, u, n, h)
  IN InsertEnd(below, path, side, u, c.bf[path[u]] + side[u])

\* Once insert() has hung a new node, set the factors and balanced, the tree
\* is an AVL tree of all the nodes.
LEMMA InsertedSound ==
    ASSUME NEW c \in Tree, NEW sub, NEW dep, Witness(c, c.root, sub, dep),
           NEW h \in Elem, h \notin sub[c.root], \A x \in sub[c.root] : KeyOf[x] # KeyOf[h],
           c.kid[h] = [s \in Side |-> null], c.bf[h] = 0
    PROVE  Holds(Inserted(c, h), sub[c.root] \union {h})
<1> DEFINE q == Descent(c, KeyOf[h], "equal")
           br == [i \in DOMAIN q |-> Sign(KeyOf[h] - KeyOf[q[i]])]
           n == Len(q)
           leaning == {i \in 1..n : c.bf[q[i]] # 0}
           u == IF leaning = {} THEN 0 ELSE CHOOSE i \in leaning : \A j \in leaning : j <= i
           m == u + 1
           hung == SetPlace(c, q, br, n + 1, h)
           below == Lowered(hung, q, u, n, h)
           v == Course(c, sub, dep, q, br, n, {}, {h})
           ubf == v.bf[u] + v.side[u]
<1>1. Entry(c, sub, dep, q, br, h)
  <2>1. br = [i \in DOMAIN q |-> Sign(KeyOf[h] - KeyOf[q[i]])]
    OBVIOUS
  <2> HIDE DEF q, br
  <2>2. q = Descent(c, KeyOf[h], "equal")
    BY DEF q
  <2> QED
    BY <2>1, <2>2, InsertNew
<1>2. Inserted(c, h) = InsertEnd(below, q, br, u, c.bf[q[u]] + br[u])
  BY DEF Inserted
<1>3. n = Len(q) /\ v = Course(c, sub, dep, q, br, n, {}, {h}) /\ m = u + 1 /\ hung = SetPlace(c, q, br, n + 1, h)
      /\ below = Lowered(hung, q, u, n, h) /\ ubf = v.bf[u] + v.side[u]
  OBVIOUS
<1> HIDE DEF q, br, v, hung, below, ubf
<1>4. EntryIs(c, sub, q, br, n, v, h)
  <2> HIDE DEF n
  <2> QED
    BY <1>1, <1>3, EntrySpine, Zenon
<1>5. /\ Spine(v) /\ v.n = n /\ v.node = q /\ v.side = br /\ n \in Nat
      /\ \A j \in 1..n : v.bf[j] = c.bf[q[j]]
      /\ v.dep[n + 1] = 0 /\ v.all[1] = sub[c.root] \union {h}
  BY <1>4 DEF EntryIs
<1>6. leaning # {} => u \in leaning /\ \A j \in leaning : j <= u
  <2> SUFFICES ASSUME leaning # {} PROVE u \in leaning /\ \A j \in leaning : j <= u
    OBVIOUS
  <2>1. leaning \in SUBSET (1..n)
    OBVIOUS
  <2> HIDE DEF leaning, n
  <2> QED
    BY <1>5, <2>1, LastPlace
<1>7. u \in 0..n /\ (u # 0 => u \in 1..n /\ c.bf[q[u]] # 0)
  <2>1. CASE leaning = {}
    <3>1. u = 0
      BY <2>1
    <3> HIDE DEF u
    <3> QED
      BY <1>5, <3>1
  <2>2. CASE leaning # {}
    <3>1. u \in leaning
      BY <1>6, <2>2
    <3> HIDE DEF u
    <3> QED
      BY <1>5, <3>1
  <2> HIDE DEF u, leaning, n
  <2> QED
    BY ONLY <2>1, <2>2
<1>8. \A i \in (u + 1)..n : c.bf[q[i]] = 0
  <2> SUFFICES ASSUME NEW i \in (u + 1)..n, c.bf[q[i]] # 0 PROVE FALSE
    OBVIOUS
  <2> HIDE DEF u
  <2>1. i \in leaning /\ ~(i <= u)
    BY <1>5, <1>7
  <2> QED
    BY <1>6, <2>1
<1> HIDE DEF u, leaning
<1>9. /\ Hangs(below, v, u) /\ Filled(below, v, m, v.dep[m] + 1)
      /\ u < n => below.bf[Spot(below, q, br, m)] # 0
  <2>1. Level(c, q, u, n)
    BY <1>8 DEF Level
  <2> HIDE DEF n, m
  <2>2. LoweredIs(v, Lowered(hung, q, u, n, h), q, br, u, n, m)
    BY <1>1, <1>3, <1>7, <2>1, InsertLower
  <2> QED
    BY <1>3, <2>2 DEF LoweredIs
<1>10. Deepened(v, below, u, m)
  <2>1. u = n => v.dep[m] = 0
    BY <1>5
  <2>2. u # 0 => v.bf[u] # 0
    BY <1>5, <1>7
  <2> HIDE DEF m, n
  <2> QED
    BY ONLY <1>3, <1>5, <1>7, <1>9, <2>1, <2>2 DEF Deepened
<1>11. Holds(InsertEnd(below, v.node, v.side, u, ubf), v.all[1])
  <2> HIDE DEF m, n
  <2> QED
    BY ONLY <1>3, <1>10, InsertTop
<1>12. InsertEnd(below, q, br, u, c.bf[q[u]] + br[u]) = InsertEnd(below, q, br, u, ubf)
  <2>1. CASE u = 0
    BY <2>1 DEF InsertEnd
  <2>2. CASE u # 0
    <3>1. c.bf[q[u]] + br[u] = ubf
      BY <1>3, <1>5, <1>7, <2>2
    <3> QED
      BY ONLY <3>1
  <2> QED
    BY <2>1, <2>2
<1> QED
  BY ONLY <1>2, <1>5, <1>11, <1>12

\* insert(): the tree holds the node in addition, or as before the nodes it
\* holds when one of them has its key.
THEOREM InsertSound ==
    ASSUME NEW t, NEW S, Holds(t, S), NEW h \in Elem, h \notin S
    PROVE  Holds(Insert(t, h), IF \E x \in S : KeyOf[x] = KeyOf[h] THEN S ELSE S \union {h})
<1> DEFINE clean == Leaf(t, h)
           path == Descent(clean, KeyOf[h], "equal")
           side == [i \in DOMAIN path |-> Sign(KeyOf[h] - KeyOf[path[i]])]
           n == Len(path)
<1>1. t \in Tree /\ S \in SUBSET Elem
  BY HoldsIs
<1>2. PICK sub, dep : Witness(t, t.root, sub, dep) /\ sub[t.root] = S
  BY HoldsIs
<1>3. /\ clean \in Tree /\ clean.root = t.root
      /\ clean.kid[h] = [s \in Side |-> null] /\ clean.bf[h] = 0
      /\ \A e \in Elem : e # h => clean.kid[e] = t.kid[e] /\ clean.bf[e] = t.bf[e]
  <2> DEFINE kids == [s \in Side |-> null]
  <2>1. kids \in [Side -> Handle] /\ 0 \in -1..1
    BY DEF Handle
  <2>2. clean = Made(t, h, kids, 0)
    BY DEF Leaf
  <2> HIDE DEF kids, clean
  <2>3. MadeOf(t, Made(t, h, kids, 0), h, kids, 0)
    BY <1>1, <2>1, MadeIs
  <2> QED
    BY <2>2, <2>3 DEF kids, MadeOf
<1> HIDE DEF clean
<1>4. Witness(clean, clean.root, sub, dep) /\ sub[clean.root] = S
  <2>1. Agree(t, clean, sub[t.root])
    BY <1>1, <1>2, <1>3 DEF Agree
  <2> QED
    BY <1>2, <1>3, <2>1, Frame
<1>5. Sought(clean, S, KeyOf[h], path)
  <2>1. path = Descent(clean, KeyOf[h], "equal") /\ KeyOf[h] \in Nat
    BY KeyIs
  <2> HIDE DEF path
  <2> QED
    BY <1>3, <1>4, <2>1, SoughtIs
<1>6. /\ n \in Nat /\ DOMAIN path = 1..n
      /\ \A i \in 1..n : path[i] \in S /\ path[i] # h
      /\ \A i \in 1..n : side[i] = 0 <=> KeyOf[path[i]] = KeyOf[h]
      /\ (\E x \in S : KeyOf[x] = KeyOf[h]) => \E i \in 1..n : KeyOf[path[i]] = KeyOf[h]
  <2> HIDE DEF path
  <2>1. /\ n \in Nat /\ DOMAIN path = 1..n /\ \A i \in 1..n : path[i] \in S
        /\ \A i \in 1..n : (Sign(KeyOf[h] - KeyOf[path[i]]) = 0 <=> KeyOf[path[i]] = KeyOf[h])
    BY <1>5 DEF Sought, StaysOn
  <2>2. ASSUME \E x \in S : KeyOf[x] = KeyOf[h] PROVE \E i \in 1..n : KeyOf[path[i]] = KeyOf[h]
    <3>1. path # <<>> /\ KeyOf[path[Len(path)]] = KeyOf[h] /\ (path = <<>> <=> Len(path) = 0)
      BY <1>5, <2>2 DEF Sought
    <3>2. n \in 1..n /\ KeyOf[path[n]] = KeyOf[h]
      BY ONLY <2>1, <3>1
    <3> QED
      BY ONLY <3>2
  <2> QED
    BY <2>1, <2>2
<1>7. CASE \E x \in S : KeyOf[x] = KeyOf[h]
  <2>1. Insert(t, h) = clean
    <3>1. \E i \in 1..n : side[i] = 0
      BY <1>6, <1>7
    <3> QED
      BY ONLY <3>1, Zenon DEF Insert, clean
  <2>2. Avl(clean, clean.root, S, dep[clean.root])
    BY <1>4 DEF Avl
  <2> QED
    BY <1>3, <1>7, <2>1, <2>2 DEF Holds
<1>8. CASE ~\E x \in S : KeyOf[x] = KeyOf[h]
  <2>1. \A x \in sub[clean.root] : KeyOf[x] # KeyOf[h]
    BY <1>4, <1>8
  <2>2. Holds(Inserted(clean, h), sub[clean.root] \union {h})
    BY <1>3, <1>4, <2>1, InsertedSound
  <2>3. Insert(t, h) = Inserted(clean, h)
    <3>1. ~\E i \in 1..n : side[i] = 0
      BY <1>6, <1>8, Zenon
    <3> DEFINE leaning == {i \in 1..n : t.bf[path[i]] # 0}
               ranging == {i \in 1..n : clean.bf[path[i]] # 0}
               u == IF leaning = {} THEN 0 ELSE CHOOSE i \in leaning : \A j \in leaning : j <= i
               hung == SetPlace(clean, path, side, n + 1, h)
               lower == {path[i] : i \in (u + 1)..n}
               below == [hung EXCEPT !.bf = [e \in Elem |->
                  IF e \in lower THEN StoredBf(@[e], Sign(KeyOf[h] - KeyOf[e])) ELSE @[e]]]
               ubf == t.bf[path[u]] + side[u]
               b == Balance(below, path[u])
    <3>2. Insert(t, h) = IF u = 0 THEN below
             ELSE IF ubf \in {-1, 0, 1} THEN [below EXCEPT !.bf[path[u]] = StoredBf(@, ubf)]
             ELSE SetPlace(b.tree, path, side, u, b.top)
      BY <3>1, Zenon DEF Insert, clean
    <3>3. below = Lowered(hung, path, u, n, h)
      BY DEF Lowered
    <3>4. leaning = ranging
      BY <1>1, <1>3, <1>6
    <3>5. u # 0 => t.bf[path[u]] = clean.bf[path[u]]
      <4> SUFFICES ASSUME u # 0 PROVE u \in 1..n
        BY <1>1, <1>3, <1>6, ZenonT(60)
      <4>1. leaning # {} /\ leaning \in SUBSET (1..n) /\ u = CHOOSE i \in leaning : \A j \in leaning : j <= i
        OBVIOUS
      <4> HIDE DEF leaning, u
      <4> QED
        BY <1>6, <4>1, LastPlace, Zenon
    <3>6. Inserted(clean, h) = InsertEnd(below, path, side, u, clean.bf[path[u]] + side[u])
      <4> DEFINE w == IF ranging = {} THEN 0 ELSE CHOOSE i \in ranging : \A j \in ranging : j <= i
      <4>1. Inserted(clean, h) = InsertEnd(Lowered(hung, path, w, n, h), path, side, w,
                                           clean.bf[path[w]] + side[w])
        BY DEF Inserted
      <4>2. u = w
        <5> HIDE DEF leaning, ranging
        <5> QED
          BY <3>4
      <4> HIDE DEF u, w, below, side, path, hung
      <4> QED
        BY <3>3, <4>1, <4>2
    <3> HIDE DEF below, u, side, path
    <3> QED
      BY <3>2, <3>5, <3>6 DEF InsertEnd
  <2> QED
    BY <1>4, <1>8, <2>2, <2>3
<1> QED
  BY <1>7, <1>8

-----------------------------------------------------------------------------
(* A node takes the place of another: subst(), remove()                      *)

\* A spine on which h stands in for the node at place m.
Renamed(v, m, h) ==
  [n |-> v.n, side |-> v.side, off |-> v.off, offdep |-> v.offdep, dep |-> v.dep, bf |-> v.bf,
   node |-> [j \in 1..v.n |-> IF j = m THEN h ELSE v.node[j]],
   all |-> [j \in 1..(v.n + 1) |-> IF j <= m THEN (v.all[j] \ {v.node[m]}) \union {h}
                                   ELSE v.all[j]]]

\* A node beside the spine whose key fits at place m.
StandIn(v, m, h) ==
  /\ Spine(v) /\ m \in 1..v.n /\ h \in Elem /\ h \notin v.all[1]
  /\ Beside(v.all[m + 1], h, v.side[m]) /\ Beside(v.off[m], h, -v.side[m])
  /\ \A j \in 1..(m - 1) : Beside({h}, v.node[j], v.side[j])

\* It is in no part of the spine.
LEMMA StandInOff ==
    ASSUME NEW v, NEW m, NEW h, StandIn(v, m, h)
    PROVE  /\ v.n \in Nat /\ m \in Nat
           /\ \A j \in 1..v.n : h \notin v.off[j] /\ h # v.node[j] /\ SpineNode(v, j, j + 1)
           /\ \A j \in 1..(v.n + 1) : h \notin v.all[j]
<1>1. v.n \in Nat /\ m \in 1..v.n /\ Spine(v) /\ h \notin v.all[1]
  BY DEF StandIn, Spine
<1>2. ASSUME NEW j \in 1..(v.n + 1) PROVE h \notin v.all[j]
  <2>1. CASE j = 1
    BY <1>1, <2>1
  <2>2. CASE j # 1
    <3>1. 1 \in 1..v.n /\ j \in (1 + 1)..(v.n + 1)
      BY <1>1, <2>2
    <3>2. v.all[j] \subseteq v.all[1]
      BY <1>1, <3>1, SpineInto
    <3> QED
      BY <1>1, <3>2
  <2> QED
    BY <2>1, <2>2
<1>3. ASSUME NEW j \in 1..v.n PROVE h \notin v.off[j] /\ h # v.node[j] /\ SpineNode(v, j, j + 1)
  <2>1. SpineNode(v, j, j + 1) /\ j \in 1..(v.n + 1)
    BY <1>1 DEF Spine
  <2>2. h \notin v.all[j]
    BY <1>2, <2>1
  <2> QED
    BY <2>1, <2>2 DEF SpineNode
<1> QED
  BY <1>1, <1>2, <1>3

\* With it the spine is one again.
LEMMA RenamedSpine ==
    ASSUME NEW v, NEW m, NEW h, StandIn(v, m, h), NEW r, r = Renamed(v, m, h)
    PROVE  Spine(r)
<1>1. /\ Spine(v) /\ m \in 1..v.n /\ h \in Elem
      /\ Beside(v.all[m + 1], h, v.side[m]) /\ Beside(v.off[m], h, -v.side[m])
      /\ \A j \in 1..(m - 1) : Beside({h}, v.node[j], v.side[j])
  BY DEF StandIn
<1>2. v.n \in Nat /\ m \in Nat
  BY StandInOff
<1>3. /\ r.n = v.n /\ r.side = v.side /\ r.off = v.off /\ r.offdep = v.offdep
      /\ r.dep = v.dep /\ r.bf = v.bf
      /\ \A j \in 1..v.n : r.node[j] = IF j = m THEN h ELSE v.node[j]
      /\ \A j \in 1..(v.n + 1) : r.all[j] = IF j <= m THEN (v.all[j] \ {v.node[m]}) \union {h}
                                            ELSE v.all[j]
  BY DEF Renamed
<1>4. ASSUME NEW j \in 1..v.n PROVE SpineNode(r, j, j + 1)
  <2> DEFINE n == j + 1
  <2>1. n = j + 1 /\ n \in 1..(v.n + 1) /\ j \in 1..(v.n + 1) /\ j \in Nat
    BY <1>2
  <2>2. SpineNode(v, j, n)
    BY StandInOff
  <2>3. /\ v.node[m] \in Elem /\ v.node[m] \notin v.off[j] /\ (v.node[m] = v.node[j] => m = j)
    BY <1>1, OffSpine
  <2>4. CASE j < m
    <3>10. j <= m /\ j # m
      BY <1>2, <2>1, <2>4
    <3>1. r.all[j] = (v.all[j] \ {v.node[m]}) \union {h} /\ r.node[j] = v.node[j]
      <4> HIDE DEF n
      <4> QED
        BY <1>3, <2>1, <3>10
    <3>2. r.all[n] = (v.all[n] \ {v.node[m]}) \union {h}
      <4>1. n <= m
        BY <1>2, <2>1, <2>4
      <4> HIDE DEF n
      <4> QED
        BY <1>3, <2>1, <4>1
    <3>3. Beside({h}, v.node[j], v.side[j]) /\ v.node[m] # v.node[j]
      <4>1. j \in 1..(m - 1)
        BY <1>2, <2>1, <2>4
      <4> QED
        BY <1>1, <2>3, <3>10, <4>1
    <3> HIDE DEF n
    <3>4. Beside(r.all[n], r.node[j], r.side[j])
      BY <1>3, <2>2, <3>1, <3>2, <3>3 DEF Beside, SpineNode
    <3>5. r.all[j] = r.all[n] \union r.off[j] \union {r.node[j]}
      BY <1>3, <2>2, <2>3, <3>1, <3>2, <3>3 DEF SpineNode
    <3>6. r.all[j] \in SUBSET Elem /\ r.all[n] \in SUBSET Elem
      BY ONLY <1>1, <2>2, <3>1, <3>2 DEF SpineNode
    <3>7. SpineNode(r, j, n)
      BY <1>3, <2>2, <3>1, <3>4, <3>5, <3>6 DEF SpineNode
    <3> QED
      BY <3>7 DEF n
  <2>5. CASE j = m
    <3>10. j <= m
      BY <1>2, <2>5
    <3>1. r.all[j] = (v.all[j] \ {v.node[j]}) \union {h} /\ r.node[j] = h
      <4> HIDE DEF n
      <4> QED
        BY <1>3, <2>1, <2>5, <3>10
    <3>2. r.all[n] = v.all[n]
      <4>1. ~(n <= m)
        BY <1>2, <2>1, <2>5
      <4> HIDE DEF n
      <4> QED
        BY <1>3, <2>1, <4>1
    <3>3. Beside(v.all[n], h, v.side[j]) /\ Beside(v.off[j], h, -v.side[j])
      BY <1>1, <2>5
    <3>4. v.node[j] \notin v.all[n]
      BY <2>2, NotBeside DEF SpineNode
    <3> HIDE DEF n
    <3>5. r.all[j] = r.all[n] \union r.off[j] \union {r.node[j]}
      BY <1>3, <2>2, <2>3, <2>5, <3>1, <3>2, <3>4 DEF SpineNode
    <3>6. r.all[j] \in SUBSET Elem
      BY <1>1, <2>2, <3>1 DEF SpineNode
    <3>7. SpineNode(r, j, n)
      BY <1>1, <1>3, <2>2, <3>1, <3>2, <3>3, <3>5, <3>6 DEF SpineNode
    <3> QED
      BY <3>7 DEF n
  <2>6. CASE j > m
    <3>10. ~(j <= m) /\ j # m
      BY <1>2, <2>1, <2>6
    <3>1. r.all[j] = v.all[j] /\ r.node[j] = v.node[j]
      <4> HIDE DEF n
      <4> QED
        BY <1>3, <2>1, <3>10
    <3>2. r.all[n] = v.all[n]
      <4>1. ~(n <= m)
        BY <1>2, <2>1, <2>6
      <4> HIDE DEF n
      <4> QED
        BY <1>3, <2>1, <4>1
    <3> HIDE DEF n
    <3>3. SpineNode(r, j, n)
      BY <1>3, <2>2, <3>1, <3>2 DEF SpineNode
    <3> QED
      BY <3>3 DEF n
  <2> QED
    BY <1>2, <2>1, <2>4, <2>5, <2>6
<1> QED
  BY <1>2, <1>3, <1>4 DEF Spine

\* The nodes change places in the tree, and what hangs from the spine is as it
\* was.
LEMMA Replaced ==
    ASSUME NEW v, NEW m, NEW h, StandIn(v, m, h), NEW r, r = Renamed(v, m, h),
           NEW t, Hangs(t, v, v.n), NEW e, e = v.n + 1, NEW d, Filled(t, v, e, d),
           NEW g, g = v.node[m], NEW made, made = Made(t, h, t.kid[g], t.bf[g]),
           NEW u, u = SetPlace(made, v.node, v.side, m, h)
    PROVE  Hangs(u, r, v.n) /\ Filled(u, r, e, d)
<1>1. Spine(v) /\ m \in 1..v.n /\ h \in Elem /\ t \in Tree
  BY DEF StandIn, Hangs
<1>2. /\ v.n \in Nat /\ m \in Nat
      /\ \A j \in 1..v.n : h \notin v.off[j] /\ h # v.node[j] /\ SpineNode(v, j, j + 1)
      /\ \A j \in 1..(v.n + 1) : h \notin v.all[j]
  BY StandInOff
<1>3. /\ r.n = v.n /\ r.side = v.side /\ r.off = v.off /\ r.offdep = v.offdep /\ r.bf = v.bf
      /\ \A j \in 1..v.n : r.node[j] = IF j = m THEN h ELSE v.node[j]
      /\ r.all[e] = v.all[e]
  <2>1. e \in 1..(v.n + 1) /\ ~(e <= m)
    BY <1>1, <1>2
  <2> QED
    BY <2>1 DEF Renamed
<1> DEFINE p == m - 1
           l == v.node[p]
<1>4. \A j \in 1..v.n : v.node[j] \in Elem
  BY ONLY <1>2 DEF SpineNode
<1>5. g \in Elem /\ (m # 1 => p \in 1..v.n /\ l \in Elem /\ l # h /\ v.side[p] \in Side)
  <2>1. m # 1 => p \in 1..v.n
    <3>1. m \in 1..v.n /\ v.n \in Nat
      BY ONLY <1>1, <1>2
    <3> QED
      BY ONLY <3>1
  <2>2. m # 1 => SpineNode(v, p, p + 1)
    BY ONLY <1>2, <2>1
  <2>3. m # 1 => v.side[p] \in Side
    BY ONLY <2>2 DEF SpineNode
  <2> HIDE DEF p
  <2> QED
    BY <1>1, <1>2, <1>4, <2>1, <2>3
<1>6. MadeOf(t, made, h, t.kid[g], t.bf[g])
  <2>1. t.kid[g] \in [Side -> Handle] /\ t.bf[g] \in -1..1
    BY <1>1, <1>5, TreeIs
  <2> QED
    BY <1>1, <2>1, MadeIs
<1>7. Placed(made, u, v.node, v.side, m, h)
  <2>1. made \in Tree /\ h \in Handle
    BY ONLY <1>1, <1>6, Zenon DEF MadeOf, Handle
  <2>2. m # 1 => v.node[m - 1] \in Elem /\ v.side[m - 1] \in Side
    BY <1>5
  <2> QED
    BY <1>1, <1>2, <2>1, <2>2, PlaceSet, Zenon
<1>8. /\ u \in Tree /\ u.kid[h] = t.kid[g] /\ u.bf[h] = t.bf[g]
      /\ \A x \in Elem : x # h => u.bf[x] = t.bf[x]
      /\ \A x \in Elem : x # h /\ ~(m # 1 /\ x = l) => u.kid[x] = t.kid[x]
      /\ m # 1 => u.root = t.root /\ u.kid[l][-v.side[p]] = t.kid[l][-v.side[p]]
      /\ Spot(u, v.node, v.side, m) = h
  <2>1. /\ u \in Tree /\ u.bf = made.bf /\ Spot(u, v.node, v.side, m) = h
        /\ \A x \in Elem : (m # 1 /\ x = l) \/ u.kid[x] = made.kid[x]
        /\ m # 1 => u.root = made.root /\ u.kid[l][-v.side[p]] = made.kid[l][-v.side[p]]
    BY <1>7, Zenon DEF Placed
  <2>2. /\ made.root = t.root /\ made.kid[h] = t.kid[g] /\ made.bf[h] = t.bf[g]
        /\ \A x \in Elem : x # h => made.kid[x] = t.kid[x] /\ made.bf[x] = t.bf[x]
    BY <1>6, Zenon DEF MadeOf
  <2> HIDE DEF l, p
  <2>3. u.kid[h] = t.kid[g] /\ u.bf[h] = t.bf[g]
    BY ONLY <1>1, <1>5, <2>1, <2>2, Zenon
  <2>4. \A x \in Elem : x # h => u.bf[x] = t.bf[x]
    BY ONLY <2>1, <2>2, Zenon
  <2>5. \A x \in Elem : x # h /\ ~(m # 1 /\ x = l) => u.kid[x] = t.kid[x]
    BY ONLY <2>1, <2>2, Zenon
  <2>6. m # 1 => u.root = t.root /\ u.kid[l][-v.side[p]] = t.kid[l][-v.side[p]]
    BY ONLY <1>5, <2>1, <2>2, Zenon
  <2> QED
    BY <2>1, <2>3, <2>4, <2>5, <2>6, Zenon
<1>9. \A j \in 1..v.n : /\ Spot(t, v.node, v.side, j) = v.node[j] /\ t.bf[v.node[j]] = v.bf[j]
                        /\ Avl(t, t.kid[v.node[j]][-v.side[j]], v.off[j], v.offdep[j])
  BY DEF Hangs
<1>10. \A i, j \in 1..v.n : v.node[i] \notin v.off[j] /\ (v.node[i] = v.node[j] => i = j)
  BY ONLY <1>1, OffSpine
<1> HIDE DEF l
<1>11. ASSUME NEW j \in 1..(v.n + 1), j # m
       PROVE  Spot(u, r.node, r.side, j) = Spot(t, v.node, v.side, j)
  <2>1. CASE j = 1
    <3>1. m # 1
      BY ONLY <1>11, <2>1
    <3> QED
      BY ONLY <1>8, <2>1, <3>1, Zenon DEF Spot
  <2>2. CASE j # 1
    <3> DEFINE i == j - 1
    <3>1. i \in 1..v.n /\ i # p /\ i = j - 1
      BY ONLY <1>1, <1>2, <1>11, <2>2
    <3> HIDE DEF i
    <3>2. u.kid[r.node[i]] = t.kid[v.node[i]]
      <4>1. CASE i = m
        BY <1>3, <1>8, <3>1, <4>1, Zenon
      <4>2. CASE i # m
        <5>1. r.node[i] = v.node[i] /\ v.node[i] \in Elem /\ v.node[i] # h
          BY <1>2, <1>3, <1>4, <3>1, <4>2
        <5>2. ~(m # 1 /\ v.node[i] = l)
          BY <1>5, <1>10, <3>1 DEF l
        <5> QED
          BY ONLY <1>8, <5>1, <5>2, Zenon
      <4> QED
        BY ONLY <4>1, <4>2
    <3> QED
      BY ONLY <1>3, <2>2, <3>1, <3>2 DEF Spot
  <2> QED
    BY <2>1, <2>2
<1>12. Spot(u, r.node, r.side, m) = h
  <2>1. CASE m = 1
    BY <1>8, <2>1, Zenon DEF Spot
  <2>2. CASE m # 1
    <3>1. r.node[p] = v.node[p]
      BY ONLY <1>2, <1>3, <1>5, <2>2
    <3> QED
      BY ONLY <1>3, <1>8, <2>2, <3>1, Zenon DEF Spot
  <2> QED
    BY <2>1, <2>2
<1>13. ASSUME NEW A, A \subseteq Elem, h \notin A, m # 1 => l \notin A, NEW k, NEW b, Avl(t, k, A, b)
       PROVE  Avl(u, k, A, b)
  <2>1. Agree(t, u, A)
    BY ONLY <1>8, <1>13, Zenon DEF Agree
  <2> QED
    BY <1>13, <2>1, FrameAvl
<1>14. ASSUME NEW j \in 1..v.n
       PROVE  /\ Spot(u, r.node, r.side, j) = r.node[j] /\ u.bf[r.node[j]] = r.bf[j]
              /\ Avl(u, u.kid[r.node[j]][-r.side[j]], r.off[j], r.offdep[j])
  <2> DEFINE k == t.kid[v.node[j]][-v.side[j]]
  <2>1. Avl(t, k, v.off[j], v.offdep[j])
    BY ONLY <1>9
  <2>2. v.off[j] \subseteq Elem /\ h \notin v.off[j] /\ (m # 1 => l \notin v.off[j])
    <3>1. v.off[j] \subseteq Elem
      BY ONLY <1>2 DEF SpineNode
    <3> QED
      BY ONLY <1>2, <1>5, <1>10, <3>1 DEF l
  <2> HIDE DEF k
  <2>3. Avl(u, k, v.off[j], v.offdep[j])
    BY <1>13, <2>1, <2>2
  <2>4. CASE j = m
    <3>1. r.node[j] = h /\ v.node[j] = g
      BY <1>3, <2>4
    <3>2. u.kid[r.node[j]][-r.side[j]] = k
      BY <1>3, <1>8, <3>1, Zenon DEF k
    <3>3. u.bf[h] = v.bf[j]
      BY <1>8, <1>9, <3>1, Zenon
    <3> QED
      BY ONLY <1>3, <1>12, <2>3, <2>4, <3>1, <3>2, <3>3, Zenon
  <2>5. CASE j # m
    <3>1. r.node[j] = v.node[j] /\ v.node[j] # h /\ v.node[j] \in Elem
      BY <1>2, <1>3, <1>4, <2>5
    <3>2. u.kid[r.node[j]][-r.side[j]] = k
      <4>1. CASE m # 1 /\ v.node[j] = l
        <5>1. j = p
          BY <1>5, <1>10, <4>1 DEF l
        <5> QED
          BY ONLY <1>3, <1>8, <3>1, <4>1, <5>1, Zenon DEF k
      <4>2. CASE ~(m # 1 /\ v.node[j] = l)
        BY ONLY <1>3, <1>8, <3>1, <4>2, Zenon DEF k
      <4> QED
        BY <4>1, <4>2, Zenon
    <3>3. Spot(u, r.node, r.side, j) = v.node[j]
      <4>1. j \in 1..(v.n + 1)
        BY <1>2
      <4> QED
        BY ONLY <1>9, <1>11, <2>5, <4>1
    <3>4. u.bf[v.node[j]] = v.bf[j]
      BY <1>8, <1>9, <3>1, Zenon
    <3> QED
      BY <1>3, <2>3, <3>1, <3>2, <3>3, <3>4, Zenon
  <2> QED
    BY <2>4, <2>5, Zenon
<1>15. Hangs(u, r, v.n)
  <2>1. v.n \in 0..r.n
    BY <1>2, <1>3
  <2> QED
    BY <1>8, <1>14, <2>1, Zenon DEF Hangs
<1>16. Filled(u, r, e, d)
  <2>1. e \in 1..(v.n + 1) /\ e # m
    BY <1>1, <1>2
  <2>2. v.all[e] \subseteq Elem /\ h \notin v.all[e] /\ (m # 1 => l \notin v.all[e])
    <3>1. v.n \in 1..v.n /\ e = v.n + 1
      BY <1>1, <1>2
    <3>2. v.all[e] \subseteq Elem
      <4>1. SpineNode(v, v.n, v.n + 1)
        BY ONLY <1>2, <3>1
      <4> QED
        BY ONLY <4>1, <3>1 DEF SpineNode
    <3>3. ASSUME m # 1 PROVE l \notin v.all[e]
      <4>1. p \in 1..v.n /\ e \in (p + 1)..(v.n + 1)
        BY ONLY <1>1, <1>2, <1>5, <3>1, <3>3
      <4> HIDE DEF p
      <4> QED
        BY ONLY <1>1, <4>1, SpineBelow DEF l
    <3> QED
      BY <1>2, <2>1, <3>2, <3>3
  <2>3. Avl(t, Spot(t, v.node, v.side, e), v.all[e], d)
    BY DEF Filled
  <2>4. Avl(u, Spot(t, v.node, v.side, e), v.all[e], d)
    BY ONLY <1>13, <2>2, <2>3
  <2>5. Spot(u, r.node, r.side, e) = Spot(t, v.node, v.side, e)
    BY <1>11, <2>1
  <2> QED
    BY <1>3, <2>4, <2>5 DEF Filled
<1> QED
  BY ONLY <1>15, <1>16

-----------------------------------------------------------------------------
(* The climb of remove()                                                     *)

\* The subtree off the spine at place i is two levels deeper than the one on it.
RebalIs(v, i, n, b) ==
  /\ Hangs(b.tree, v, n)
  /\ Avl(b.tree, b.top, v.all[i], IF b.tree.bf[b.top] = 0 THEN v.offdep[i] ELSE v.offdep[i] + 1)

\* Where a side is deeper by two, balance() makes an AVL tree in its place,
\* less deep by one unless its root leans.
LEMMA RebalancedOff ==
    ASSUME NEW v, Spine(v), NEW i \in 1..v.n, NEW n, n = i - 1, NEW u, Hangs(u, v, i),
           NEW d, NEW j, j = i + 1, Filled(u, v, j, d), v.offdep[i] = d + 2,
           NEW h, h = v.node[i], v.bf[i] = -v.side[i]
    PROVE  RebalIs(v, i, n, Balance(u, h))
<1> DEFINE b == Balance(u, h)
<1>1. v.n \in Nat /\ i \in 1..(v.n + 1) /\ i \in 0..v.n /\ i \in 1..i
  BY DEF Spine
<1>2. /\ Strung(u, v, i) /\ u \in Tree /\ SpineNode(v, i, j) /\ h \in Elem /\ h \in v.all[i]
      /\ u.bf[h] = v.bf[i]
  BY <1>1, HangsStrung
<1>3. Ready(u, v, i, d)
  BY <1>2, StrungReady
<1> DEFINE o == v.side[i]
           s == -o
           deep == u.kid[h][s]
<1>4. /\ Parts(u, h, o, v.all[j], d, v.off[i], v.offdep[i])
      /\ o \in Side /\ v.all[i] = v.all[j] \union v.off[i] \union {h}
  BY <1>3 DEF Ready
<1>5. Facts(s, o) /\ -s = o
  BY <1>4, Sides DEF Facts, less, greater
<1>6. Parts(u, h, s, v.off[i], v.offdep[i], v.all[j], d)
  BY <1>4, <1>5, Zenon DEF Parts
<1>7. Skew(u, h, s, o, v.off[i], v.offdep[i], v.all[j], d, deep) /\ u.bf[h] = s
  BY <1>2, <1>5, <1>6 DEF Skew
<1> HIDE DEF s, o, deep, b
<1>8. Balanced(u, h, v.off[i], v.all[j], v.offdep[i], b)
  <2> DEFINE A == v.off[i]
             B == v.all[j]
             e == v.offdep[i]
  <2>1. Skew(u, h, s, o, A, e, B, d, deep) /\ u.bf[h] = s
    BY <1>7
  <2> HIDE DEF A, B, e
  <2>2. Rebal(u, h, A, B, e, deep, Balance(u, h))
    BY <2>1, BalanceSound
  <2> QED
    BY <2>2 DEF A, B, e, Rebal, b
<1>9. /\ b.tree \in Tree /\ b.tree.root = u.root
      /\ Agree(u, b.tree, Elem \ (v.off[i] \union {h}))
      /\ Avl(b.tree, b.top, v.off[i] \union v.all[j] \union {h},
             IF b.tree.bf[b.top] = 0 THEN v.offdep[i] ELSE v.offdep[i] + 1)
  BY <1>8 DEF Balanced
<1>10. \A e \in Elem \ v.all[i] : b.tree.kid[e] = u.kid[e] /\ b.tree.bf[e] = u.bf[e]
  BY <1>4, <1>9 DEF Agree
<1>11. Apiece(u, b.tree, v, i)
  <2>1. ASSUME i # 1
        PROVE  b.tree.bf[v.node[n]] = u.bf[v.node[n]] /\ b.tree.kid[v.node[n]] = u.kid[v.node[n]]
    <3>1. n \in 1..v.n /\ i \in (n + 1)..(v.n + 1)
      BY <1>1, <2>1
    <3>2. SpineNode(v, n, n + 1)
      BY <3>1 DEF Spine
    <3>3. v.node[n] \in Elem /\ v.node[n] \notin v.all[i]
      BY <3>1, <3>2, SpineBelow DEF SpineNode
    <3> QED
      BY <1>10, <3>3
  <2> QED
    BY <1>9, <1>10, <2>1 DEF Apiece
<1>12. Hangs(b.tree, v, n)
  <2>1. Hangs(u, v, n)
    BY <1>1 DEF Hangs
  <2> QED
    BY <1>1, <1>11, <2>1, HangsOn
<1>13. v.off[i] \union v.all[j] \union {h} = v.all[i]
  BY <1>4
<1> QED
  BY ONLY <1>9, <1>12, <1>13 DEF RebalIs, b

\* The node above a subtree that has become less deep: what its factor says.
LeansDown(s, a, o, f, d) ==
  /\ Lean(s, d, o) = f - s /\ f - s \in Int
  /\ f - s \in -1..1 <=> f # -s
  /\ f - s \in {-2, 2} <=> f = -s
  /\ f # -s => 1 + Deeper(d, o) = IF f - s = 0 THEN (1 + Deeper(a, o)) - 1 ELSE 1 + Deeper(a, o)
  /\ f = -s => o = d + 2 /\ o = (1 + Deeper(a, o)) - 1

\* How a node leans, and what its depth becomes, when one of its sides gets
\* less deep by one.
LEMMA LeanDown ==
    ASSUME NEW s \in Side, NEW a \in Nat, NEW o \in Nat, NEW f, f = Lean(s, a, o),
           f \in -1..1, NEW d \in Nat, d = a - 1
    PROVE  LeansDown(s, a, o, f, d)
<1>1. CASE s = greater
  <2>1. s = 1
    BY <1>1 DEF greater
  <2> QED
    BY <1>1, <2>1 DEF Lean, Deeper, LeansDown
<1>2. CASE s = less
  <2>1. s = -1 /\ s # greater
    BY <1>2 DEF less, greater
  <2>2. f = o - a
    BY <2>1 DEF Lean
  <2>3. -s = 1
    BY <1>2, Sides DEF greater
  <2> QED
    BY <1>2, <2>1, <2>2, <2>3 DEF Lean, Deeper, LeansDown
<1> QED
  BY <1>1, <1>2 DEF Side

\* Where a climb is: all of the tree above the place i is as it was, and below
\* is a subtree less deep than it was, if so noted.
Height(d, reduced) == IF reduced THEN d - 1 ELSE d
Ascends(c, v) ==
  /\ c \in [tree : Tree, i : 0..v.n, reduced : BOOLEAN]
  /\ Hangs(c.tree, v, c.i) /\ Filled(c.tree, v, c.i + 1, Height(v.dep[c.i + 1], c.reduced))

\* A round of it, in which the subtree at place i has been put right in u.
LEMMA ClimbEnd ==
    ASSUME NEW v, Spine(v), NEW i \in 1..v.n, NEW n, n = i - 1,
           NEW u, Hangs(u, v, n), NEW k, NEW r \in BOOLEAN,
           Avl(u, k, v.all[i], Height(v.dep[i], r)),
           NEW e, e = [tree |-> SetPlace(u, v.node, v.side, i, k), i |-> n, reduced |-> r]
    PROVE  Ascends(e, v) /\ e.i = n
<1> DEFINE w == SetPlace(u, v.node, v.side, i, k)
           d == Height(v.dep[i], r)
<1>1. v.n \in Nat /\ i \in 1..(v.n + 1) /\ n \in 0..v.n /\ n + 1 = i
  BY DEF Spine
<1>2. Avl(u, k, v.all[i], d) /\ w = SetPlace(u, v.node, v.side, i, k)
  OBVIOUS
<1>3. e = [tree |-> w, i |-> n, reduced |-> r]
  OBVIOUS
<1> HIDE DEF w, d
<1>4. Hangs(w, v, n) /\ Filled(w, v, i, d)
  BY <1>1, <1>2, HungThere
<1>5. w \in Tree
  BY <1>4 DEF Hangs
<1> QED
  BY ONLY <1>1, <1>3, <1>4, <1>5 DEF Ascends, d

\* A round that changes one balance factor.
Adjusts(v, i, n, j, u, h, b, d) ==
  /\ Spine(v) /\ i \in 1..v.n /\ n = i - 1 /\ j = i + 1 /\ h = v.node[i]
  /\ Hangs(u, v, i) /\ Filled(u, v, j, d)
  /\ b = Lean(v.side[i], d, v.offdep[i]) /\ b \in -1..1
AdjustedIs(v, i, n, w, h, b, d) ==
  /\ Hangs(w, v, n) /\ Avl(w, h, v.all[i], 1 + Deeper(d, v.offdep[i])) /\ w.bf[h] = b

\* A new balance factor that says how deep the sides are leaves an AVL tree.
LEMMA AdjustedSo ==
    ASSUME NEW v, NEW i, NEW n, NEW j, NEW u, NEW h, NEW b, NEW d, Adjusts(v, i, n, j, u, h, b, d)
    PROVE  AdjustedIs(v, i, n, [u EXCEPT !.bf[h] = StoredBf(@, b)], h, b, d)
<1> DEFINE w == [u EXCEPT !.bf[h] = StoredBf(@, b)]
<1>1. /\ Spine(v) /\ i \in 1..v.n /\ n = i - 1 /\ j = i + 1 /\ h = v.node[i]
      /\ Hangs(u, v, i) /\ Filled(u, v, j, d)
      /\ b = Lean(v.side[i], d, v.offdep[i]) /\ b \in -1..1
  BY DEF Adjusts
<1>2. w = [u EXCEPT !.bf[h] = StoredBf(@, b)]
  OBVIOUS
<1> HIDE DEF w
<1>3. /\ Hangs(w, v, n) /\ Avl(w, h, v.all[i], 1 + Deeper(d, v.offdep[i]))
      /\ Spot(w, v.node, v.side, i) = h
  BY <1>1, <1>2, Adjusted
<1>4. w.bf[h] = b
  <2>1. u \in Tree /\ h \in Elem /\ w \in Tree
    <3>1. SpineNode(v, i, i + 1)
      BY <1>1 DEF Spine
    <3> QED
      BY ONLY <1>1, <1>3, <3>1 DEF Hangs, SpineNode
  <2>2. u.bf \in Factors /\ w.bf = [u.bf EXCEPT ![h] = StoredBf(@, b)]
    BY <1>2, <2>1, TreeParts DEF Tree
  <2>3. u.bf[h] \in -1..1
    BY <2>1, <2>2 DEF Factors
  <2>4. StoredBf(u.bf[h], b) = b
    BY <1>1, <2>3, GivesBack
  <2> QED
    BY ONLY <2>1, <2>2, <2>4 DEF Factors
<1> QED
  BY <1>3, <1>4 DEF AdjustedIs, w

\* A round of the loop with which remove() goes up makes the tree at the
\* next place up an AVL tree.
LEMMA ClimbSound ==
    ASSUME NEW v, Spine(v), NEW c, Ascends(c, v), c.i # 0
    PROVE  Ascends(Climb(c, v.node, v.side), v) /\ Climb(c, v.node, v.side).i = c.i - 1
<1> DEFINE i == c.i
           n == i - 1
           j == i + 1
           u == c.tree
           h == v.node[i]
           s == v.side[i]
           a == v.dep[j]
           o == v.offdep[i]
           f == v.bf[i]
           bf == u.bf[h] - s
           up == [u EXCEPT !.bf[h] = StoredBf(@, bf)]
           b == IF ~c.reduced THEN [tree |-> u, top |-> h]
                ELSE IF bf \in {-2, 2} THEN Balance(u, h)
                ELSE [tree |-> up, top |-> h]
           r == c.reduced /\ b.tree.bf[b.top] = 0
           e == [tree |-> SetPlace(b.tree, v.node, v.side, i, b.top), i |-> n, reduced |-> r]
<1>1. Climb(c, v.node, v.side) = e
  BY DEF Climb
<1>2. /\ v.n \in Nat /\ i \in 1..v.n /\ n = i - 1 /\ j = i + 1 /\ i \in 0..v.n /\ i \in 1..i
      /\ u \in Tree /\ c.reduced \in BOOLEAN /\ Hangs(u, v, i)
      /\ Filled(u, v, j, Height(a, c.reduced))
  BY DEF Ascends, Spine
<1> SUFFICES Hangs(b.tree, v, n) /\ Avl(b.tree, b.top, v.all[i], Height(v.dep[i], r))
  <2>1. r \in BOOLEAN
    BY <1>2, Zenon
  <2>2. e = [tree |-> SetPlace(b.tree, v.node, v.side, i, b.top), i |-> n, reduced |-> r]
    BY Zenon
  <2> DEFINE x == b.tree
             y == b.top
  <2> HIDE DEF e, r, b, i, n
  <2>3. ASSUME Hangs(x, v, n), Avl(x, y, v.all[i], Height(v.dep[i], r))
        PROVE  Ascends(e, v) /\ e.i = n
    <3>1. e = [tree |-> SetPlace(x, v.node, v.side, i, y), i |-> n, reduced |-> r]
      BY <2>2
    <3>2. n = i - 1 /\ i \in 1..v.n
      BY <1>2
    <3>3. Hangs(x, v, n) /\ Avl(x, y, v.all[i], Height(v.dep[i], r))
      BY <2>3
    <3> HIDE DEF x, y
    <3> QED
      BY <2>1, <3>1, <3>2, <3>3, ClimbEnd
  <2> QED
    BY <1>1, <1>2, <2>3 DEF i
<1>3. /\ Strung(u, v, i) /\ SpineNode(v, i, j) /\ h \in Elem /\ u.bf[h] = f
  <2> HIDE DEF i, u, j
  <2> QED
    BY <1>2, HangsStrung
<1>4. /\ s \in Side /\ a \in Nat /\ o \in Nat /\ f = Lean(s, a, o) /\ f \in -1..1
      /\ v.dep[i] = 1 + Deeper(a, o)
  BY ONLY <1>3 DEF SpineNode
<1>5. Hangs(u, v, n)
  <2> HIDE DEF i, u
  <2> QED
    BY <1>2 DEF Hangs
<1>6. CASE ~c.reduced
  <2>1. Filled(u, v, j, a) /\ b.tree = u /\ b.top = h /\ ~r
    BY <1>2, <1>6 DEF Height
  <2> SUFFICES Avl(u, h, v.all[i], v.dep[i])
    BY <1>5, <2>1, Zenon DEF Height
  <2>2. Ready(u, v, i, a)
    <3> HIDE DEF i, u, j, a
    <3> QED
      BY <1>2, <1>3, <2>1, StrungReady
  <2>3. /\ Parts(u, h, s, v.all[j], a, v.off[i], o)
        /\ v.all[i] = v.all[j] \union v.off[i] \union {h}
    BY ONLY <2>2 DEF Ready
  <2>4. Leans(u, h, s, a, o)
    BY <1>3, <1>4 DEF Leans, Lean
  <2> HIDE DEF i, u, j, a, h, o, s, f
  <2> QED
    BY ONLY <1>3, <1>4, <2>3, <2>4, Join
<1>7. CASE c.reduced
  <2> DEFINE d == a - 1
  <2>1. Filled(u, v, j, d) /\ (r <=> b.tree.bf[b.top] = 0)
    BY ONLY <1>2, <1>7 DEF Height
  <2>2. d \in Nat
    BY <2>1, AvlDepth, Zenon DEF Filled
  <2>3. bf = f - s
    BY <1>3
  <2>4. LeansDown(s, a, o, f, d)
    <3>1. d = a - 1
      OBVIOUS
    <3> HIDE DEF a, d, o, f, s
    <3> QED
      BY <1>4, <2>2, <3>1, LeanDown
  <2>5. CASE f # -s
    <3>1. b = [tree |-> up, top |-> h] /\ bf \in -1..1 /\ bf = Lean(s, d, o)
      BY ONLY <1>7, <2>3, <2>4, <2>5 DEF LeansDown
    <3>2. up = [u EXCEPT !.bf[h] = StoredBf(@, bf)] /\ bf = Lean(v.side[i], d, v.offdep[i])
      BY ONLY <3>1
    <3>3. h = v.node[i]
      OBVIOUS
    <3> HIDE DEF up, bf, i, u, j, h, n, d
    <3>4. /\ Hangs(up, v, n) /\ Avl(up, h, v.all[i], 1 + Deeper(d, v.offdep[i]))
          /\ up.bf[h] = bf
      <4>1. n = i - 1 /\ j = i + 1 /\ i \in 1..v.n /\ Hangs(u, v, i)
        BY <1>2
      <4>2. bf \in -1..1
        BY <3>1
      <4>3. Adjusts(v, i, n, j, u, h, bf, d)
        BY <2>1, <3>2, <3>3, <4>1, <4>2 DEF Adjusts
      <4>4. AdjustedIs(v, i, n, [u EXCEPT !.bf[h] = StoredBf(@, bf)], h, bf, d)
        BY <4>3, AdjustedSo
      <4> QED
        BY <3>2, <4>4 DEF AdjustedIs
    <3>5. 1 + Deeper(d, o) = Height(v.dep[i], r)
      <4>1. r <=> f - s = 0
        BY <1>7, <2>3, <3>1, <3>4
      <4> HIDE DEF r, o, s, f
      <4> QED
        BY <1>4, <2>4, <2>5, <4>1 DEF LeansDown, Height
    <3> HIDE DEF r
    <3> QED
      BY <3>1, <3>4, <3>5
  <2>6. CASE f = -s
    <3>1. b = Balance(u, h) /\ v.offdep[i] = d + 2 /\ v.bf[i] = -v.side[i] /\ h = v.node[i]
          /\ o = v.dep[i] - 1
      <4>1. o = d + 2 /\ o = (1 + Deeper(a, o)) - 1 /\ bf \in {-2, 2}
        BY ONLY <2>3, <2>4, <2>6 DEF LeansDown
      <4>2. b = Balance(u, h)
        BY <1>7, <4>1
      <4> HIDE DEF bf, d, b
      <4> QED
        BY <1>4, <2>6, <4>1, <4>2
    <3> HIDE DEF i, u, j, h, n, d, b
    <3>2. RebalIs(v, i, n, Balance(u, h))
      BY <1>2, <2>1, <3>1, RebalancedOff
    <3>3. /\ Hangs(b.tree, v, n)
          /\ Avl(b.tree, b.top, v.all[i], IF b.tree.bf[b.top] = 0 THEN o ELSE o + 1)
      BY ONLY <3>1, <3>2 DEF RebalIs
    <3>4. (IF b.tree.bf[b.top] = 0 THEN o ELSE o + 1) = Height(v.dep[i], r)
      <4>1. v.dep[i] \in Int
        BY ONLY <1>4, <1>3 DEF SpineNode
      <4> HIDE DEF r, o
      <4> QED
        BY ONLY <2>1, <3>1, <4>1 DEF Height
    <3> QED
      BY <3>3, <3>4
  <2> QED
    BY ONLY <2>5, <2>6, Zenon
<1> QED
  BY ONLY <1>2, <1>6, <1>7, Zenon

\* The climb ends at the root with a tree that is balanced again.
LEMMA ClimbedSound ==
    ASSUME NEW v, Spine(v), NEW t, Hangs(t, v, v.n), NEW e, e = v.n + 1,
           Filled(t, v, e, v.dep[e] - 1), NEW q, q = v.node, NEW br, br = v.side, Len(q) = v.n
    PROVE  Holds(Climbed(t, q, br), v.all[1])
<1> DEFINE C == {c \in [tree : Tree, i : 0..v.n, reduced : BOOLEAN] : Ascends(c, v)}
           first == [tree |-> t, i |-> Len(q), reduced |-> TRUE]
           step == [c \in C |-> IF c.i = 0 THEN c ELSE Climb(c, q, br)]
           Goes(w) == w = [n \in 0..Len(q) |-> IF n = 0 THEN first ELSE Climb(w[n - 1], q, br)]
           up[n \in 0..Len(q)] ==
             IF n = 0 THEN [tree |-> t, i |-> Len(q), reduced |-> TRUE]
             ELSE Climb(up[n - 1], q, br)
<1>1. v.n \in Nat /\ v.n = Len(q)
  BY DEF Spine
<1>2. first \in C /\ first.i = v.n
  <2>1. first \in [tree : Tree, i : 0..v.n, reduced : BOOLEAN] /\ first.tree = t /\ first.i = v.n
        /\ first.reduced = TRUE
    BY <1>1 DEF Hangs
  <2> HIDE DEF first
  <2>2. Ascends(first, v)
    BY <2>1 DEF Ascends, Height
  <2> QED
    BY ONLY <2>1, <2>2
<1>3. ASSUME NEW c \in C, c.i # 0
      PROVE  Climb(c, q, br) \in C /\ Climb(c, q, br).i = c.i - 1 /\ c.i \in 0..v.n
  <2>1. Ascends(c, v)
    OBVIOUS
  <2> DEFINE d == Climb(c, v.node, v.side)
  <2>2. Ascends(d, v) /\ d.i = c.i - 1
    BY <1>3, <2>1, ClimbSound
  <2> QED
    BY <2>1, <2>2 DEF Ascends
<1>4. StaysIn(step, C)
  <2>1. \A c \in C : (IF c.i = 0 THEN c ELSE Climb(c, q, br)) \in C
    <3> TAKE c \in C
    <3> HIDE DEF C
    <3> QED
      BY <1>3
  <2> HIDE DEF C
  <2> QED
    BY <2>1 DEF StaysIn
<1>5. PICK f : Repeats(f, step, C, first)
  <2> HIDE DEF step, C, first
  <2> QED
    BY ONLY <1>2, <1>4, StepsGoOn
<1>6. f \in [Nat -> C] /\ f[0] = first /\ \A n \in Nat : f[n + 1] = step[f[n]]
  BY <1>5 DEF Repeats
<1> HIDE DEF C, first
<1>7. \A n \in Nat : n <= v.n => f[n].i = v.n - n
  <2> DEFINE P == {n \in Nat : n <= v.n => f[n].i = v.n - n}
  <2>1. 0 \in P
    BY <1>1, <1>2, <1>6
  <2>2. ASSUME NEW n \in Nat, n \in P PROVE n + 1 \in P
    <3> SUFFICES ASSUME n + 1 <= v.n PROVE f[n + 1].i = v.n - (n + 1)
      OBVIOUS
    <3>1. f[n].i = v.n - n /\ f[n].i # 0 /\ f[n] \in C
      BY <1>1, <1>6, <2>2
    <3>2. f[n + 1] = Climb(f[n], q, br)
      BY <1>6, <3>1
    <3>3. f[n + 1].i = f[n].i - 1
      BY <1>3, <3>1, <3>2
    <3> QED
      BY <1>1, <3>1, <3>3
  <2> HIDE DEF P
  <2>3. Nat \subseteq P
    BY <2>1, <2>2, AllNaturals
  <2> QED
    BY <2>3 DEF P
<1> DEFINE g == [n \in 0..Len(q) |-> f[n]]
<1>8. \A n \in 0..Len(q) : f[n] = IF n = 0 THEN first ELSE Climb(g[n - 1], q, br)
  <2> TAKE n \in 0..Len(q)
  <2>1. CASE n = 0
    BY <1>6, <2>1
  <2>2. CASE n # 0
    <3> DEFINE m == n - 1
    <3>1. m \in Nat /\ m \in 0..Len(q) /\ m + 1 = n /\ m <= v.n /\ v.n - m # 0
      BY <1>1, <2>2
    <3> HIDE DEF m
    <3>2. f[m].i # 0 /\ f[m] \in C /\ g[m] = f[m]
      BY ONLY <1>6, <1>7, <3>1
    <3>3. f[m + 1] = Climb(f[m], q, br)
      BY <1>6, <3>1, <3>2
    <3> QED
      BY <2>2, <3>1, <3>2, <3>3 DEF m
  <2> QED
    BY <2>1, <2>2
<1>9. Goes(g)
  BY <1>8
<1>10. Goes(up)
  <2>1. up = CHOOSE w : Goes(w)
    BY DEF first
  <2> HIDE DEF up, Goes, g
  <2> QED
    BY <1>9, <2>1
<1>11. Climbed(t, q, br) = up[Len(q)].tree
  BY DEF Climbed
<1> HIDE DEF up
<1>12. \A n \in 0..Len(q) : up[n] = IF n = 0 THEN first ELSE Climb(up[n - 1], q, br)
  <2>1. \A w : Goes(w) => \A n \in 0..Len(q) : w[n] = IF n = 0 THEN first ELSE Climb(w[n - 1], q, br)
    OBVIOUS
  <2> HIDE DEF Goes
  <2> QED
    BY <1>10, <2>1
<1> HIDE DEF Goes, g
<1>13. \A n \in Nat : n <= v.n => up[n] \in C /\ up[n].i = v.n - n
  <2> DEFINE P == {n \in Nat : n <= v.n => up[n] \in C /\ up[n].i = v.n - n}
  <2>1. 0 \in P
    <3>1. 0 \in 0..Len(q)
      BY <1>1
    <3>2. up[0] = first
      BY <1>12, <3>1
    <3> QED
      BY <1>1, <1>2, <3>2
  <2>2. ASSUME NEW n \in Nat, n \in P PROVE n + 1 \in P
    <3> SUFFICES ASSUME n + 1 <= v.n PROVE up[n + 1] \in C /\ up[n + 1].i = v.n - (n + 1)
      OBVIOUS
    <3>1. up[n].i = v.n - n /\ up[n].i # 0 /\ up[n] \in C
      BY <1>1, <2>2
    <3>2. n + 1 \in 0..Len(q) /\ n + 1 # 0 /\ (n + 1) - 1 = n
      BY <1>1
    <3>3. up[n + 1] = Climb(up[n], q, br)
      BY ONLY <1>12, <3>2
    <3>4. up[n + 1] \in C /\ up[n + 1].i = up[n].i - 1
      BY ONLY <1>3, <3>1, <3>3
    <3> QED
      BY <1>1, <3>1, <3>4
  <2> HIDE DEF P
  <2>3. Nat \subseteq P
    BY <2>1, <2>2, AllNaturals
  <2> QED
    BY <2>3 DEF P
<1> DEFINE c == up[Len(q)]
<1>14. c \in C /\ c.i = 0
  <2>1. v.n <= v.n /\ v.n - v.n = 0
    BY ONLY <1>1
  <2> QED
    BY ONLY <1>1, <1>13, <2>1
<1> HIDE DEF c
<1>15. c.tree \in Tree /\ Filled(c.tree, v, 1, Height(v.dep[1], c.reduced))
  <2>1. Ascends(c, v)
    BY ONLY <1>14 DEF C
  <2> QED
    BY <1>14, <2>1 DEF Ascends
<1>16. Avl(c.tree, c.tree.root, v.all[1], Height(v.dep[1], c.reduced))
  BY ONLY <1>15 DEF Filled, Spot
<1> QED
  BY <1>11, <1>15, <1>16 DEF Holds, c

\* subst(): the new node takes the place of the one with its key, if any.
THEOREM SubstSound ==
    ASSUME NEW t, NEW S, Holds(t, S), NEW h \in Elem, h \notin S
    PROVE  /\ (\A x \in S : KeyOf[x] # KeyOf[h]) => Subst(t, h) = t
           /\ \A x \in S : KeyOf[x] = KeyOf[h] => Holds(Subst(t, h), (S \ {x}) \union {h})
<1> DEFINE k == KeyOf[h]
           q == Descent(t, k, "equal")
           n == Len(q)
           g == q[n]
           side == [i \in DOMAIN q |-> Sign(k - KeyOf[q[i]])]
<1>1. t \in Tree /\ S \in SUBSET Elem /\ Unlike(S) /\ k \in Nat
  BY HoldsIs, KeyIs
<1>2. PICK sub, dep : Witness(t, t.root, sub, dep) /\ sub[t.root] = S
  BY HoldsIs
<1>3. Sought(t, S, k, q)
  <2>1. q = Descent(t, k, "equal")
    OBVIOUS
  <2> HIDE DEF q, k
  <2> QED
    BY <1>1, <1>2, <2>1, SoughtIs
<1>4. Subst(t, h) = IF t.root = null \/ KeyOf[g] # k THEN t
                    ELSE SetPlace(Made(t, h, t.kid[g], t.bf[g]), q, side, n, h)
  BY DEF Subst
<1>5. /\ q \in Seq(Elem) /\ n \in Nat /\ DOMAIN q = 1..n
      /\ \A i \in 1..n : q[i] \in S
      /\ (q = <<>> <=> t.root = null) /\ (q # <<>> => q[1] = t.root) /\ (q = <<>> <=> n = 0)
      /\ \A i \in 1..n : q[i] \in Elem /\ (KeyOf[q[i]] # k => Sign(k - KeyOf[q[i]]) \in Side)
      /\ \A i \in 1..(n - 1) : KeyOf[q[i]] # k /\ q[i + 1] = t.kid[q[i]][Sign(k - KeyOf[q[i]])]
      /\ (\E x \in S : KeyOf[x] = k) => q # <<>> /\ KeyOf[q[n]] = k
  <2> HIDE DEF q, k
  <2> QED
    BY ONLY <1>3 DEF Sought, StaysOn
<1>6. CASE \A x \in S : KeyOf[x] # k
  <2>1. t.root = null \/ KeyOf[g] # k
    <3> SUFFICES ASSUME t.root # null PROVE g \in S
      BY <1>6
    <3>1. n \in 1..n
      BY <1>5
    <3> QED
      BY <1>5, <3>1
  <2> QED
    BY ONLY <1>4, <1>6, <2>1
<1>7. ASSUME NEW x \in S, KeyOf[x] = k PROVE Holds(Subst(t, h), (S \ {x}) \union {h})
  <2>1. q # <<>> /\ KeyOf[g] = k /\ n \in 1..n /\ t.root # null /\ g \in S
    <3>1. q # <<>> /\ KeyOf[g] = k
      BY ONLY <1>5, <1>7
    <3>2. n \in 1..n /\ t.root # null
      BY <1>5, <3>1
    <3> QED
      BY <1>5, <3>1, <3>2
  <2>2. g = x
    BY ONLY <1>1, <1>7, <2>1 DEF Unlike
  <2> DEFINE br == [i \in 1..n |-> IF i = n THEN less ELSE side[i]]
             v == Course(t, sub, dep, q, br, n, {}, {})
             r == Renamed(v, n, h)
             e == n + 1
             made == Made(t, h, t.kid[g], t.bf[g])
             u == SetPlace(made, q, br, n, h)
  <2>3. \A j \in 1..n : br[j] \in Side
    <3> TAKE j \in 1..n
    <3>1. CASE j = n
      BY <3>1 DEF Side
    <3>2. CASE j # n
      <4>1. j \in 1..(n - 1)
        BY ONLY <1>5, <3>2
      <4>2. Sign(k - KeyOf[q[j]]) \in Side
        BY <1>5, <4>1
      <4> HIDE DEF q, k
      <4> QED
        BY <1>5, <3>2, <4>2, Zenon
    <3> QED
      BY ONLY <3>1, <3>2
  <2>4. \A j \in 1..(n - 1) : j \in 1..n /\ br[j] = Sign(k - KeyOf[q[j]]) /\ q[j + 1] = t.kid[q[j]][br[j]]
    <3> TAKE j \in 1..(n - 1)
    <3>1. j \in 1..n /\ j # n
      BY <1>5
    <3>2. q[j + 1] = t.kid[q[j]][Sign(k - KeyOf[q[j]])]
      BY <1>5
    <3> HIDE DEF q, k
    <3> QED
      BY <1>5, <3>1, <3>2, Zenon
  <2> HIDE DEF br
  <2>5. Line(t, sub, dep, q, br)
    <3>1. Trail(t, q, br)
      <4> HIDE DEF q, k
      <4> QED
        BY <1>5, <2>3, <2>4 DEF Trail
    <3> QED
      BY <1>1, <1>2, <1>5, <3>1 DEF Line
  <2>6. Spine(v) /\ Hangs(t, v, n)
    <3>1. v = Course(t, sub, dep, q, br, n, {}, {}) /\ n \in 0..Len(q) /\ {} \in SUBSET Elem
          /\ \A j \in 1..n : Beside({}, q[j], br[j])
      BY <1>5 DEF Beside
    <3> HIDE DEF v, n, q
    <3> QED
      BY <2>3, <2>5, <3>1, CourseSpine
  <2>7. /\ v.n = n /\ v.node = q /\ v.side = br
        /\ \A j \in 1..(n + 1) : v.all[j] = sub[Spot(t, q, br, j)] /\ v.dep[j] = dep[Spot(t, q, br, j)]
        /\ \A j \in 1..n : v.off[j] = sub[t.kid[q[j]][-br[j]]]
    <3> HIDE DEF q, n
    <3>1. /\ v.n = n /\ v.node = q /\ v.side = br
          /\ \A j \in 1..(n + 1) : v.all[j] = (sub[Spot(t, q, br, j)] \ {}) \union {}
                                   /\ v.dep[j] = dep[Spot(t, q, br, j)]
          /\ \A j \in 1..n : v.off[j] = sub[t.kid[q[j]][-br[j]]]
      BY DEF Course
    <3> HIDE DEF v
    <3> QED
      BY <3>1
  <2>8. v.all[1] = S /\ e \in 1..(n + 1) /\ n \in 1..n /\ 1 \in 1..n
    <3>1. 1 \in 1..(n + 1) /\ Spot(t, q, br, 1) = t.root /\ 1 \in 1..n /\ e \in 1..(n + 1)
      BY <1>5, <2>1 DEF Spot
    <3> HIDE DEF v, q, n, e
    <3> QED
      BY <1>2, <2>1, <2>7, <3>1
  <2> HIDE DEF v
  <2>9. StandIn(v, n, h)
    <3>1. SpineNode(v, n, n + 1)
      BY <2>6, <2>7, <2>8 DEF Spine
    <3>2. Beside(v.all[n + 1], h, v.side[n]) /\ Beside(v.off[n], h, -v.side[n])
      <4>1. Beside(v.all[n + 1], g, v.side[n]) /\ Beside(v.off[n], g, -v.side[n])
        BY ONLY <2>7, <3>1 DEF SpineNode
      <4> HIDE DEF g
      <4> QED
        BY ONLY <2>1, <4>1 DEF Beside
    <3>3. \A j \in 1..(n - 1) : Beside({h}, v.node[j], v.side[j])
      BY <2>4, <2>7 DEF Beside
    <3> HIDE DEF q, n, k
    <3> QED
      BY <2>6, <2>7, <2>8, <3>2, <3>3 DEF StandIn
  <2>10. Filled(t, v, e, v.dep[e])
    <3> DEFINE y == Spot(t, q, br, e)
    <3>1. y = t.kid[g][br[n]]
      BY <1>5, <2>1 DEF Spot
    <3>2. Witness(t, g, sub, dep)
      <4> HIDE DEF q, n, g
      <4> QED
        BY <1>2, <2>1, Within
    <3>3. g # null /\ br[n] \in Side
      BY <1>1, <2>1, <2>3, AvlAssumption
    <3>4. Witness(t, y, sub, dep)
      <4>1. Forks(t, sub, dep, g, br[n])
        <5> HIDE DEF g, q, n
        <5> QED
          BY <3>2, <3>3, WithinKid
      <4> HIDE DEF y
      <4> QED
        BY <3>1, <4>1, Zenon DEF Forks
    <3>5. Avl(t, y, sub[y], dep[y])
      BY <3>4 DEF Avl
    <3> QED
      BY ONLY <2>7, <2>8, <3>5 DEF Filled
  <2>11. Hangs(u, r, n) /\ Filled(u, r, e, v.dep[e])
    <3>1. /\ r = Renamed(v, n, h) /\ e = v.n + 1 /\ g = v.node[n] /\ made = Made(t, h, t.kid[g], t.bf[g])
          /\ u = SetPlace(made, v.node, v.side, n, h) /\ Hangs(t, v, v.n)
      BY <2>6, <2>7
    <3> HIDE DEF r, e, g, made, u, n
    <3>2. Hangs(u, r, v.n) /\ Filled(u, r, e, v.dep[e])
      BY <2>9, <2>10, <3>1, Replaced
    <3> QED
      BY <2>7, <3>2
  <2>12. Spine(r) /\ r.n = n /\ r.dep = v.dep /\ r.all[1] = (S \ {x}) \union {h}
    <3>1. r.n = v.n /\ r.dep = v.dep /\ r.all[1] = (v.all[1] \ {v.node[n]}) \union {h}
      <4>1. 1 \in 1..(v.n + 1) /\ 1 <= n
        BY <2>7, <2>8
      <4> QED
        BY ONLY <4>1 DEF Renamed
    <3>2. r = Renamed(v, n, h)
      OBVIOUS
    <3> HIDE DEF r
    <3>3. Spine(r)
      BY ONLY <2>9, <3>2, RenamedSpine
    <3> QED
      BY <2>2, <2>7, <2>8, <3>1, <3>3
  <2>13. Avl(u, u.root, r.all[1], r.dep[1])
    <3>1. n \in 0..r.n /\ e = n + 1 /\ Filled(u, r, e, r.dep[e])
      BY ONLY <1>5, <2>11, <2>12
    <3> HIDE DEF u, r, e, n
    <3> QED
      BY ONLY <2>11, <2>12, <3>1, Lifted
  <2>14. Subst(t, h) = u
    <3>1. SetPlace(made, q, side, n, h) = SetPlace(made, q, br, n, h)
      <4>1. CASE n = 1
        BY <4>1 DEF SetPlace
      <4>2. CASE n # 1
        <5>1. n - 1 \in 1..(n - 1) /\ n - 1 \in DOMAIN q
          <6>1. n \in Nat /\ n \in 1..n /\ DOMAIN q = 1..n
            BY <1>5, <2>1
          <6> HIDE DEF n, q
          <6> QED
            BY <4>2, <6>1
        <5>2. side[n - 1] = br[n - 1]
          BY <2>4, <5>1
        <5> HIDE DEF side, n, made
        <5> QED
          BY <5>2 DEF SetPlace
      <4> QED
        BY <4>1, <4>2
    <3> QED
      BY ONLY <1>4, <2>1, <3>1
  <2>15. u \in Tree
    BY <2>11, Zenon DEF Hangs
  <2> HIDE DEF u
  <2> QED
    BY <2>12, <2>13, <2>14, <2>15 DEF Holds
<1> QED
  BY <1>6, <1>7

-----------------------------------------------------------------------------
(* remove()                                                                  *)

\* The way from h along a side.
AlongOf(t, q, h, s, S) ==
  /\ q \in Seq(Elem) /\ Len(q) \in Nat /\ (q = <<>> <=> h = null) /\ (q = <<>> <=> Len(q) = 0)
  /\ q # <<>> => q[1] = h /\ t.kid[q[Len(q)]][s] = null
  /\ \A i \in 1..(Len(q) - 1) : q[i + 1] = t.kid[q[i]][s]
  /\ \A i \in 1..Len(q) : q[i] \in S /\ q[i] \in Elem

\* The way down in one direction ends with the node that has no child there.
LEMMA AlongIs ==
    ASSUME NEW t \in Tree, NEW h, NEW sub, NEW dep, Witness(t, h, sub, dep), NEW s \in Side
    PROVE  AlongOf(t, Along(t, h, s), h, s, sub[h])
<1> DEFINE next == [g \in Handle |-> IF g = null THEN null ELSE t.kid[g][s]]
           q == Along(t, h, s)
<1>1. q = Way(next, h)
  BY DEF Along
<1>2. sub[h] \in SUBSET Elem
  BY DEF Witness, Measures
<1>3. Follows(t, next, sub[h])
  <2>1. \A g \in Handle : (IF g = null THEN null ELSE t.kid[g][s]) \in Handle
    BY TreeIs DEF Handle
  <2>2. next \in [Handle -> Handle]
    BY <2>1
  <2>3. \A e \in sub[h] : next[e] = t.kid[e][s]
    BY <1>2, AvlAssumption DEF Handle
  <2> HIDE DEF next
  <2> QED
    BY <2>2, <2>3 DEF Follows
<1>4. \A e \in Elem : next[e] = t.kid[e][s]
  BY AvlAssumption DEF Handle
<1> HIDE DEF next, q
<1>5. IsWay(q, next, h) /\ StaysOn(q, sub[h])
  BY <1>1, <1>3, WayInTree
<1>6. /\ q \in Seq(Elem) /\ (q = <<>> <=> h = null)
      /\ q # <<>> => q[1] = h /\ next[q[Len(q)]] = null
      /\ \A i \in 1..(Len(q) - 1) : q[i + 1] = next[q[i]]
      /\ \A i \in 1..Len(q) : q[i] \in sub[h]
  BY <1>5 DEF IsWay, StaysOn
<1>7. Len(q) \in Nat /\ (q = <<>> <=> Len(q) = 0) /\ \A i \in 1..Len(q) : q[i] \in Elem
  BY <1>2, <1>6, LenProperties, EmptySeq
<1>8. q # <<>> => t.kid[q[Len(q)]][s] = null
  <2> SUFFICES ASSUME q # <<>> PROVE t.kid[q[Len(q)]][s] = null
    OBVIOUS
  <2>1. q[Len(q)] \in Elem
    BY <1>7
  <2> QED
    BY <1>4, <1>6, <2>1
<1>9. \A i \in 1..(Len(q) - 1) : q[i + 1] = t.kid[q[i]][s]
  <2> TAKE i \in 1..(Len(q) - 1)
  <2>1. i \in 1..Len(q)
    BY <1>7
  <2> QED
    BY <1>4, <1>6, <1>7, <2>1
<1> QED
  BY <1>6, <1>7, <1>8, <1>9 DEF AlongOf, q

\* The way from the root past the node rm to the node h that is cut out, the
\* last on side -s of the subtree of rm on side s, or rm itself.
Route(t, sub, dep, way, br, m, n, s) ==
  /\ Line(t, sub, dep, way, br) /\ n = Len(way) /\ n \in Nat /\ m \in 1..n /\ s \in Side
  /\ \A j \in 1..n : br[j] \in Side
  /\ br[m] = s /\ \A j \in (m + 1)..n : br[j] = -s
  /\ t.kid[way[n]][-s] = null /\ (n = m => t.kid[way[n]][s] = null)

\* A node without a child on the side it leans to has none.
HeavySide(t, g, s) == s = IF t.bf[g] < 0 THEN less ELSE greater

\* A node with no child on the side on which it is heavy has no child at
\* all.
LEMMA NoKids ==
    ASSUME NEW t, NEW g, NEW sub, NEW dep, Witness(t, g, sub, dep), g # null,
           NEW s, HeavySide(t, g, s), t.kid[g][s] = null
    PROVE  t.kid[g][-s] = null
<1>1. s \in Side /\ (s = greater => ~(t.bf[g] < 0)) /\ (s = less => t.bf[g] < 0)
  BY Sides DEF Side, less, greater, HeavySide
<1>2. Forks(t, sub, dep, g, s)
  BY <1>1, WithinKid
<1> DEFINE l == t.kid[g][-s]
<1>3. /\ Witness(t, l, sub, dep) /\ Witness(t, t.kid[g][s], sub, dep)
      /\ Leans(t, g, s, dep[t.kid[g][s]], dep[l])
  BY ONLY <1>2 DEF Forks
<1>4. dep[null] = 0 /\ dep[l] \in Nat
  BY <1>3 DEF Witness, Measures
<1>5. dep[l] = 0
  <2> DEFINE a == dep[l]
             b == t.bf[g]
  <2>1. Leans(t, g, s, 0, a) /\ a \in Nat
    BY <1>3, <1>4
  <2>2. b = (IF s = greater THEN 0 - a ELSE a - 0) /\ b \in -1..1
    BY <2>1 DEF Leans
  <2>3. (s = greater /\ ~(b < 0)) \/ (s # greater /\ b < 0)
    BY <1>1, Sides DEF Side
  <2> HIDE DEF a, b, l
  <2>4. a = 0
    BY ONLY <2>1, <2>2, <2>3
  <2> QED
    BY ONLY <2>4 DEF a
<1>6. Avl(t, l, sub[l], dep[l])
  BY ONLY <1>3 DEF Avl
<1>7. l = null
  <2> SUFFICES ASSUME l # null PROVE FALSE
    OBVIOUS
  <2>1. l \in sub[l] /\ NodeOk(t, sub, dep, l)
    BY <1>3 DEF Witness
  <2>2. dep[l] = 1 + Deeper(dep[t.kid[l][less]], dep[t.kid[l][greater]])
    BY ONLY <2>1, Zenon DEF NodeOk
  <2>3. dep[t.kid[l][less]] \in Nat /\ dep[t.kid[l][greater]] \in Nat
    <3>1. t.kid[l][less] \in Handle /\ t.kid[l][greater] \in Handle
      BY ONLY <2>1, Zenon DEF NodeOk, KidOk
    <3> QED
      BY ONLY <1>3, <3>1 DEF Witness, Measures
  <2> HIDE DEF l
  <2> QED
    BY <1>5, <2>2, <2>3 DEF Deeper
<1> QED
  BY <1>7 DEF l

\* The way of remove() is one.
RouteCase(t, k, found, m, rm, s, down, way, br, n) ==
  /\ t \in Tree /\ k \in Nat /\ found = Descent(t, k, "equal") /\ m = Len(found)
  /\ rm = found[m] /\ t.root # null /\ KeyOf[rm] = k /\ HeavySide(t, rm, s)
  /\ down = Along(t, t.kid[rm][s], -s) /\ way = found \o down
  /\ br = [i \in DOMAIN way |-> IF i < m THEN Sign(k - KeyOf[way[i]])
                                 ELSE IF i = m THEN s ELSE -s]
  /\ n = Len(way)

\* The way remove() goes down leads through the node to take out, and on to
\* the one that takes its place, which has at most one child.
LEMMA RouteIs ==
    ASSUME NEW t, NEW sub, NEW dep, Witness(t, t.root, sub, dep), NEW k, NEW found, NEW m,
           NEW rm, NEW s, NEW down, NEW way, NEW br, NEW n,
           RouteCase(t, k, found, m, rm, s, down, way, br, n)
    PROVE  /\ Route(t, sub, dep, way, br, m, n, s) /\ rm = found[m] /\ KeyOf[rm] = k
           /\ way[m] = rm /\ rm \in sub[t.root] /\ (m # 1 => way[m - 1] = found[m - 1])
<1> DEFINE S == sub[t.root]
<1>0. /\ t \in Tree /\ k \in Nat /\ found = Descent(t, k, "equal") /\ m = Len(found)
      /\ rm = found[m] /\ t.root # null /\ KeyOf[rm] = k /\ HeavySide(t, rm, s)
  BY Zenon DEF RouteCase
<1>1. Sought(t, S, k, found)
  <2>1. S = sub[t.root] /\ t \in Tree /\ k \in Nat /\ found = Descent(t, k, "equal")
    BY <1>0
  <2> HIDE DEF S
  <2> QED
    BY <2>1, SoughtIs
<1>2. /\ found \in Seq(Elem) /\ m \in Nat /\ m # 0 /\ m \in 1..m /\ rm \in S
      /\ found[1] = t.root
      /\ \A i \in 1..m : found[i] \in Elem /\ (KeyOf[found[i]] # k => Sign(k - KeyOf[found[i]]) \in Side)
      /\ \A i \in 1..(m - 1) : KeyOf[found[i]] # k
                               /\ found[i + 1] = t.kid[found[i]][Sign(k - KeyOf[found[i]])]
  <2>1. /\ found \in Seq(Elem) /\ m \in Nat /\ (found = <<>> <=> t.root = null)
        /\ (found # <<>> => found[1] = t.root) /\ (found = <<>> <=> m = 0)
        /\ \A i \in 1..m : found[i] \in S
    BY <1>0, <1>1 DEF Sought, StaysOn
  <2>2. found # <<>> /\ m # 0 /\ m \in 1..m
    BY <1>0, <2>1
  <2>3. rm \in S
    BY ONLY <1>0, <2>1, <2>2
  <2>4. /\ \A i \in 1..m : found[i] \in Elem /\ (KeyOf[found[i]] # k => Sign(k - KeyOf[found[i]]) \in Side)
        /\ \A i \in 1..(m - 1) : KeyOf[found[i]] # k
                               /\ found[i + 1] = t.kid[found[i]][Sign(k - KeyOf[found[i]])]
    BY <1>0, <1>1 DEF Sought
  <2> QED
    BY <2>1, <2>2, <2>3, <2>4
<1>3. s \in Side /\ -s \in Side
  <2>1. s \in Side
    BY <1>0 DEF Side, HeavySide
  <2> QED
    BY <2>1, Sides
<1>4. rm \in Elem /\ rm # null /\ Witness(t, rm, sub, dep)
  BY <1>2, Within, AvlAssumption
<1>5. Forks(t, sub, dep, rm, s)
  BY <1>3, <1>4, WithinKid
<1> DEFINE l == t.kid[rm][s]
<1>6. AlongOf(t, down, l, -s, sub[l])
  <2>1. Witness(t, l, sub, dep) /\ down = Along(t, l, -s)
    BY <1>5, Zenon DEF Forks, RouteCase
  <2> HIDE DEF l
  <2> QED
    BY <1>0, <1>3, <2>1, AlongIs
<1>7. /\ down \in Seq(Elem) /\ Len(down) \in Nat /\ (down = <<>> <=> l = null) /\ (down = <<>> <=> Len(down) = 0)
      /\ down # <<>> => down[1] = l /\ t.kid[down[Len(down)]][-s] = null
      /\ \A i \in 1..(Len(down) - 1) : down[i + 1] = t.kid[down[i]][-s]
  BY <1>6 DEF AlongOf
<1> HIDE DEF l, S
<1>8. /\ way \in Seq(Elem) /\ n = m + Len(down) /\ DOMAIN way = 1..n /\ n \in Nat
      /\ \A i \in 1..n : way[i] = IF i <= m THEN found[i] ELSE down[i - m]
  <2>1. /\ way \in Seq(Elem) /\ Len(way) = Len(found) + Len(down)
        /\ \A i \in 1..(Len(found) + Len(down)) :
             way[i] = IF i <= Len(found) THEN found[i] ELSE down[i - Len(found)]
    <3>1. way = found \o down
      BY Zenon DEF RouteCase
    <3> QED
      BY <1>2, <1>7, <3>1, ConcatProperties
  <2>2. DOMAIN way = 1..Len(way) /\ Len(way) \in Nat
    BY <2>1, LenProperties
  <2>3. n = Len(way) /\ m = Len(found)
    BY Zenon DEF RouteCase
  <2> QED
    BY ONLY <2>1, <2>2, <2>3
<1>9. m \in 1..n /\ way[m] = rm /\ way[1] = t.root /\ (m # 1 => way[m - 1] = found[m - 1])
  <2>1. m \in 1..n /\ 1 \in 1..n /\ 1 <= m /\ m <= m
    BY <1>2, <1>7, <1>8
  <2>2. m # 1 => m - 1 \in 1..n /\ m - 1 <= m
    <3>1. m \in Nat /\ m # 0 /\ n \in Nat /\ m <= n
      BY <1>2, <1>8, <2>1
    <3> QED
      BY ONLY <3>1
  <2>3. \A i \in 1..n : i <= m => way[i] = found[i]
    BY <1>8
  <2>4. way[m] = rm /\ way[1] = t.root
    BY <1>0, <1>2, <2>1, <2>3
  <2>5. m # 1 => way[m - 1] = found[m - 1]
    BY <2>2, <2>3
  <2> QED
    BY ONLY <2>1, <2>4, <2>5
<1>10. /\ \A j \in 1..n : br[j] \in Side
       /\ br[m] = s /\ \A j \in (m + 1)..n : br[j] = -s
       /\ \A j \in 1..(m - 1) : br[j] = Sign(k - KeyOf[found[j]])
  <2>1. \A j \in 1..n : br[j] = IF j < m THEN Sign(k - KeyOf[way[j]]) ELSE IF j = m THEN s ELSE -s
    BY <1>8, Zenon DEF RouteCase
  <2>2. ASSUME NEW j \in 1..(m - 1) PROVE br[j] = Sign(k - KeyOf[found[j]]) /\ br[j] \in Side
    <3>1. j \in 1..n /\ j < m /\ j <= m /\ j \in 1..m
      BY <1>2, <1>8, <1>9
    <3>2. br[j] = Sign(k - KeyOf[found[j]])
      BY <1>8, <2>1, <3>1
    <3> QED
      BY ONLY <1>2, <3>1, <3>2
  <2>3. br[m] = s
    BY <1>2, <1>9, <2>1
  <2>4. ASSUME NEW j \in (m + 1)..n PROVE br[j] = -s
    <3>1. j \in 1..n /\ ~(j < m) /\ j # m
      BY <1>2, <1>8
    <3> QED
      BY <2>1, <3>1
  <2>5. ASSUME NEW j \in 1..n PROVE br[j] \in Side
    <3>1. j \in 1..(m - 1) \/ j = m \/ j \in (m + 1)..n
      BY <1>2, <1>8
    <3> QED
      BY <1>3, <2>2, <2>3, <2>4, <3>1
  <2> QED
    BY <2>2, <2>3, <2>4, <2>5
<1>11. Trail(t, way, br)
  <2> SUFFICES ASSUME NEW i \in 1..(n - 1) PROVE br[i] \in Side /\ way[i + 1] = t.kid[way[i]][br[i]]
    <3>1. n = Len(way)
      BY Zenon DEF RouteCase
    <3> QED
      BY <1>8, <3>1 DEF Trail
  <2>1. i \in 1..n /\ i + 1 \in 1..n
    BY <1>8
  <2>2. CASE i < m
    <3>1. i \in 1..(m - 1) /\ i <= m /\ i + 1 <= m
      BY <1>2, <2>1, <2>2
    <3> QED
      BY <1>2, <1>8, <1>10, <2>1, <3>1
  <2>3. CASE i = m
    <3>1. Len(down) # 0 /\ ~(i + 1 <= m) /\ (i + 1) - m = 1
      BY ONLY <1>2, <1>7, <1>8, <2>3
    <3>2. way[i + 1] = down[1] /\ down # <<>>
      BY <1>7, <1>8, <2>1, <3>1
    <3> QED
      BY ONLY <1>7, <1>9, <1>10, <2>1, <2>3, <3>2 DEF l
  <2>4. CASE i > m
    <3> DEFINE j == i - m
    <3>1. j \in 1..(Len(down) - 1) /\ (i + 1) - m = j + 1 /\ ~(i <= m) /\ ~(i + 1 <= m)
      BY <1>2, <1>7, <1>8, <2>1, <2>4
    <3>2. way[i] = down[j] /\ way[i + 1] = down[j + 1]
      BY <1>8, <2>1, <3>1
    <3>3. br[i] = -s
      <4>1. i \in (m + 1)..n
        BY <1>2, <2>1, <2>4
      <4> QED
        BY <1>10, <4>1
    <3>4. down[j + 1] = t.kid[down[j]][-s]
      BY <1>7, <3>1
    <3> QED
      BY <1>10, <2>1, <3>2, <3>3, <3>4
  <2> QED
    BY <1>2, <2>1, <2>2, <2>3, <2>4
<1>12. Line(t, sub, dep, way, br)
  BY <1>0, <1>9, <1>11 DEF Line
<1>13. t.kid[way[n]][-s] = null /\ (n = m => t.kid[way[n]][s] = null)
  <2>1. CASE down = <<>>
    <3>1. n = m /\ t.kid[rm][s] = null
      BY ONLY <1>2, <1>7, <1>8, <2>1 DEF l
    <3>2. t.kid[rm][-s] = null
      BY ONLY <1>0, <1>4, <3>1, NoKids
    <3> QED
      BY <1>9, <3>1, <3>2
  <2>2. CASE down # <<>>
    <3>1. n \in 1..n /\ ~(n <= m) /\ n - m = Len(down) /\ n # m
      BY <1>2, <1>7, <1>8, <2>2
    <3>2. way[n] = down[Len(down)]
      BY <1>8, <3>1
    <3> QED
      BY ONLY <1>7, <2>2, <3>1, <3>2
  <2> QED
    BY <2>1, <2>2
<1>14. Route(t, sub, dep, way, br, m, n, s)
  <2>1. n = Len(way)
    BY Zenon DEF RouteCase
  <2> QED
    BY ONLY <1>3, <1>8, <1>9, <1>10, <1>12, <1>13, <2>1 DEF Route
<1> QED
  BY ONLY <1>0, <1>2, <1>9, <1>14 DEF S

\* The way down to the node cut out, as a spine, without that node.
Cutting(t, sub, dep, way, br, n) == Course(t, sub, dep, way, br, n - 1, {way[n]}, {})

CuttingIs(t, sub, dep, way, br, n, s, w) ==
  /\ Spine(w) /\ Hangs(t, w, n - 1) /\ w.n = n - 1 /\ w.node = way /\ w.side = br
  /\ \A j \in 1..n : w.all[j] = sub[way[j]] \ {way[n]}
  /\ \A j \in 1..(n - 1) : w.off[j] = sub[t.kid[way[j]][-br[j]]]
  /\ Avl(t, t.kid[way[n]][s], w.all[n], w.dep[n] - 1)
  /\ w.all[1] = sub[t.root] \ {way[n]}

\* The nodes of that way but the last one are a spine of what is left.
LEMMA RouteSpine ==
    ASSUME NEW t, NEW sub, NEW dep, NEW way, NEW br, NEW m, NEW n, NEW s,
           Route(t, sub, dep, way, br, m, n, s), NEW w, w = Cutting(t, sub, dep, way, br, n)
    PROVE  CuttingIs(t, sub, dep, way, br, n, s, w)
<1> DEFINE h == way[n]
           p == n - 1
           k == t.kid[h][s]
           o == t.kid[h][-s]
<1>1. /\ Line(t, sub, dep, way, br) /\ n = Len(way) /\ n \in Nat /\ m \in 1..n /\ s \in Side
      /\ \A j \in 1..n : br[j] \in Side
      /\ o = null
  BY DEF Route
<1>2. n \in 1..n /\ p \in 0..n /\ p < n /\ p \in Nat /\ 1 \in 1..n /\ p + 1 = n
  BY <1>1
<1>3. \A j \in 1..n : /\ way[j] \in Elem /\ Witness(t, way[j], sub, dep) /\ way[j] \in sub[way[j]]
                      /\ Spot(t, way, br, j) = way[j]
  BY <1>1, LineIs
<1>4. w = Course(t, sub, dep, way, br, p, {h}, {})
  BY DEF Cutting
<1>5. h \in Elem /\ h # null /\ Witness(t, h, sub, dep) /\ h \in sub[h]
  BY <1>2, <1>3, AvlAssumption
<1>6. Forks(t, sub, dep, h, s)
  <2> HIDE DEF h
  <2> QED
    BY <1>1, <1>5, WithinKid
<1>7. Spine(w) /\ Hangs(t, w, p)
  <2>1. /\ p \in 0..Len(way) /\ {} \in SUBSET Elem /\ p < Len(way) /\ {h} \subseteq sub[way[p + 1]]
        /\ \A j \in 1..p : br[j] \in Side /\ Beside({}, way[j], br[j])
    <3>1. \A j \in 1..p : j \in 1..n
      BY <1>2
    <3>2. {h} \subseteq sub[way[p + 1]]
      BY <1>2, <1>5
    <3>3. p \in 0..Len(way) /\ p < Len(way)
      BY <1>1, <1>2
    <3> HIDE DEF p
    <3> QED
      BY <1>1, <3>1, <3>2, <3>3 DEF Beside
  <2> DEFINE W == {h}
  <2>2. w = Course(t, sub, dep, way, br, p, W, {}) /\ W \subseteq sub[way[p + 1]]
    BY <1>4, <2>1
  <2> HIDE DEF W, p
  <2> QED
    BY <1>1, <2>1, <2>2, CourseSpine
<1> HIDE DEF p
<1>8. /\ w.n = p /\ w.node = way /\ w.side = br
      /\ \A j \in 1..n : w.all[j] = (sub[Spot(t, way, br, j)] \ {h}) /\ w.dep[j] = dep[Spot(t, way, br, j)]
      /\ \A j \in 1..p : w.off[j] = sub[t.kid[way[j]][-br[j]]]
  <2>1. /\ w.n = p /\ w.node = way /\ w.side = br
        /\ \A j \in 1..(p + 1) : w.all[j] = (sub[Spot(t, way, br, j)] \ {h}) \union {}
                                 /\ w.dep[j] = dep[Spot(t, way, br, j)]
        /\ \A j \in 1..p : w.off[j] = sub[t.kid[way[j]][-br[j]]]
    BY <1>4 DEF Course
  <2> QED
    BY ONLY <1>2, <2>1
<1> HIDE DEF h
<1>9. \A j \in 1..n : w.all[j] = sub[way[j]] \ {h} /\ w.dep[j] = dep[way[j]]
  BY ONLY <1>3, <1>8
<1>10. Avl(t, k, w.all[n], w.dep[n] - 1)
  <2>1. /\ Witness(t, k, sub, dep) /\ Witness(t, o, sub, dep)
        /\ sub[h] = sub[k] \union sub[o] \union {h} /\ Beside(sub[k], h, s)
        /\ dep[h] = 1 + Deeper(dep[k], dep[o])
    BY ONLY <1>6 DEF Forks
  <2> HIDE DEF k
  <2>2. sub[o] = {} /\ dep[o] = 0 /\ dep[k] \in Nat
    BY <1>1, <2>1 DEF Witness, Measures
  <2>3. h \notin sub[k]
    BY <1>1, <1>5, <2>1, NotBeside
  <2>4. sub[h] \ {h} = sub[k]
    BY <2>1, <2>2, <2>3
  <2>5. dep[h] - 1 = dep[k]
    BY <2>1, <2>2 DEF Deeper
  <2>6. w.all[n] = sub[k] /\ w.dep[n] - 1 = dep[k]
    BY <1>2, <1>9, <2>4, <2>5 DEF h
  <2>7. Avl(t, k, sub[k], dep[k])
    BY <2>1 DEF Avl
  <2> QED
    BY ONLY <2>6, <2>7
<1>11. w.all[1] = sub[t.root] \ {h}
  <2>1. Spot(t, way, br, 1) = t.root
    BY DEF Spot
  <2> QED
    BY <1>2, <1>8, <2>1
<1> QED
  BY <1>7, <1>8, <1>9, <1>10, <1>11 DEF CuttingIs, h, p, k

\* The node cut out below another can take its place.
LEMMA RouteStandIn ==
    ASSUME NEW t, NEW sub, NEW dep, NEW way, NEW br, NEW m, NEW n, NEW s,
           Route(t, sub, dep, way, br, m, n, s), NEW w, w = Cutting(t, sub, dep, way, br, n), m # n
    PROVE  StandIn(w, m, way[n])
<1> DEFINE h == way[n]
           p == n - 1
<1>1. /\ Line(t, sub, dep, way, br) /\ n = Len(way) /\ n \in Nat /\ m \in 1..n /\ s \in Side
      /\ \A j \in 1..n : br[j] \in Side
      /\ br[m] = s /\ \A j \in (m + 1)..n : br[j] = -s
      /\ t.kid[h][-s] = null
  BY DEF Route
<1>2. /\ Spine(w) /\ w.n = p /\ w.node = way /\ w.side = br
      /\ \A j \in 1..n : w.all[j] = sub[way[j]] \ {h}
      /\ \A j \in 1..p : w.off[j] = sub[t.kid[way[j]][-br[j]]]
      /\ w.all[1] = sub[t.root] \ {h}
  <2>1. CuttingIs(t, sub, dep, way, br, n, s, w)
    BY RouteSpine
  <2> QED
    BY <2>1 DEF CuttingIs
<1>3. \A j \in 1..n : way[j] \in Elem /\ Witness(t, way[j], sub, dep) /\ way[j] \in sub[way[j]]
  BY <1>1, LineIs
<1>4. n \in 1..n /\ m \in 1..p /\ m \in Nat /\ p \in Nat /\ m + 1 \in 1..n /\ p + 1 = n
  BY <1>1
<1>5. h \in Elem /\ h \in sub[h] /\ -s \in Side /\ -(-s) = s
  BY <1>1, <1>3, <1>4, Sides
<1>6. Nested(sub, way, br)
  <2>1. /\ Witness(t, t.root, sub, dep) /\ Trail(t, way, br) /\ (way # <<>> => way[1] = t.root)
    BY ONLY <1>1 DEF Line
  <2> QED
    BY <2>1, TrailNested
<1> HIDE DEF p
<1>7. ASSUME NEW j \in 1..p
      PROVE  /\ Beside({h}, way[j], br[j]) /\ SpineNode(w, j, j + 1) /\ j \in 1..n /\ j + 1 \in 1..n
             /\ w.all[j] = w.all[j + 1] \union w.off[j] \union {way[j]}
             /\ Beside(w.off[j], way[j], -br[j]) /\ w.off[j] \in SUBSET Elem
  <2>1. j \in 1..n /\ j < n /\ j + 1 \in 1..n
    BY <1>4
  <2>2. Beside(sub[h], way[j], br[j])
    BY <1>1, <1>4, <1>6, <2>1 DEF Nested
  <2>3. Beside({h}, way[j], br[j])
    BY <1>5, <2>2 DEF Beside
  <2>4. SpineNode(w, j, j + 1)
    BY <1>2 DEF Spine
  <2> HIDE DEF h
  <2> QED
    BY <1>2, <2>1, <2>3, <2>4 DEF SpineNode
<1> HIDE DEF h
<1>8. Beside(w.all[m + 1], h, s)
  <2> DEFINE P == {j \in 1..n : j > m => Beside(w.all[j], h, s)}
  <2>1. n \in P
    <3>1. sub[h] = sub[t.kid[h][s]] \union sub[t.kid[h][-s]] \union {h}
          /\ Beside(sub[t.kid[h][s]], h, s) /\ sub[t.kid[h][-s]] = {}
      <4>1. Witness(t, h, sub, dep) /\ h # null
        BY ONLY <1>3, <1>4, <1>5, AvlAssumption DEF h
      <4>2. Forks(t, sub, dep, h, s)
        BY <1>1, <4>1, WithinKid
      <4> QED
        BY ONLY <1>1, <4>1, <4>2 DEF Forks, Witness, Measures
    <3>2. w.all[n] = sub[h] \ {h}
      BY <1>2, <1>4 DEF h
    <3>3. Beside(w.all[n], h, s)
      BY <3>1, <3>2 DEF Beside
    <3> QED
      BY ONLY <1>4, <3>3
  <2>2. ASSUME NEW j \in 1..(n - 1), j + 1 \in P PROVE j \in P
    <3> SUFFICES ASSUME j > m PROVE Beside(w.all[j], h, s)
      BY <1>4
    <3>1. j \in 1..p /\ br[j] = -s /\ j + 1 > m
      <4>1. j \in 1..p /\ j \in (m + 1)..n /\ j + 1 > m
        BY <1>4 DEF p
      <4> QED
        BY <1>1, <4>1
    <3>2. Beside(w.all[j + 1], h, s)
      BY ONLY <2>2, <3>1
    <3>3. /\ Beside({h}, way[j], -s) /\ Beside(w.off[j], way[j], -(-s)) /\ w.off[j] \in SUBSET Elem
          /\ way[j] \in Elem /\ w.all[j] = w.all[j + 1] \union w.off[j] \union {way[j]}
      BY <1>3, <1>7, <3>1
    <3>4. Beside(w.off[j] \union {way[j]}, h, s)
      BY <1>5, <3>3, Beyond
    <3> QED
      BY <3>2, <3>3, <3>4 DEF Beside
  <2>3. 1..n \subseteq P
    <3> HIDE DEF P
    <3> QED
      BY <1>1, <2>1, <2>2, Downward
  <2>4. m + 1 > m /\ m + 1 \in P
    BY <1>4, <2>3
  <2> QED
    BY <2>4
<1>9. Beside(w.off[m], h, -s)
  <2>1. /\ Beside({h}, way[m], s) /\ Beside(w.off[m], way[m], -s) /\ w.off[m] \in SUBSET Elem
        /\ way[m] \in Elem
    BY <1>1, <1>3, <1>4, <1>7
  <2>2. Beside(w.off[m] \union {way[m]}, h, -s)
    BY <1>1, <1>5, <2>1, Beyond
  <2> QED
    BY <2>2 DEF Beside
<1>10. \A j \in 1..(m - 1) : Beside({h}, way[j], br[j])
  <2> TAKE j \in 1..(m - 1)
  <2>1. j \in 1..p
    BY ONLY <1>4
  <2> QED
    BY <1>7, <2>1
<1>11. h \notin w.all[1]
  BY ONLY <1>2
<1>12. w.side[m] = s
  BY <1>1, <1>2
<1> QED
  BY <1>2, <1>4, <1>5, <1>8, <1>9, <1>10, <1>11, <1>12 DEF StandIn, h

\* The nodes of a spine in a sequence that ends with it.
Retold(v, q) ==
  [n |-> v.n, side |-> v.side, off |-> v.off, offdep |-> v.offdep, dep |-> v.dep, bf |-> v.bf,
   node |-> q, all |-> v.all]

\* A spine of which the nodes are told by another sequence.
LEMMA RetoldIs ==
    ASSUME NEW v, Spine(v), NEW q, \A j \in 1..v.n : q[j] = v.node[j], NEW t, Hangs(t, v, v.n),
           NEW d, Filled(t, v, v.n + 1, d), NEW r, r = Retold(v, q)
    PROVE  Spine(r) /\ Hangs(t, r, v.n) /\ Filled(t, r, v.n + 1, d)
<1>1. /\ r.n = v.n /\ r.side = v.side /\ r.off = v.off /\ r.offdep = v.offdep /\ r.dep = v.dep
      /\ r.bf = v.bf /\ r.node = q /\ r.all = v.all
  BY DEF Retold
<1>2. v.n \in Nat
  BY DEF Spine
<1>3. \A j \in 1..(v.n + 1) : Spot(t, r.node, r.side, j) = Spot(t, v.node, v.side, j)
  <2> TAKE j \in 1..(v.n + 1)
  <2>1. CASE j = 1
    BY <2>1 DEF Spot
  <2>2. CASE j # 1
    <3>1. j - 1 \in 1..v.n
      BY <1>2, <2>2
    <3>2. q[j - 1] = v.node[j - 1]
      BY <3>1
    <3> QED
      BY <1>1, <2>2, <3>2 DEF Spot
  <2> QED
    BY <2>1, <2>2
<1>4. Spine(r)
  <2>1. ASSUME NEW j \in 1..v.n PROVE SpineNode(r, j, j + 1)
    <3>1. SpineNode(v, j, j + 1) /\ r.node[j] = v.node[j]
      BY <1>1 DEF Spine
    <3> QED
      BY <1>1, <3>1 DEF SpineNode
  <2> QED
    BY ONLY <1>1, <1>2, <2>1 DEF Spine
<1>5. Hangs(t, r, v.n)
  <2>1. \A j \in 1..v.n : j \in 1..(v.n + 1) /\ r.node[j] = v.node[j]
    BY <1>1, <1>2
  <2>2. t \in Tree /\ v.n \in 0..r.n
    BY <1>1 DEF Hangs
  <2>3. \A j \in 1..v.n : /\ Spot(t, v.node, v.side, j) = v.node[j] /\ t.bf[v.node[j]] = v.bf[j]
                          /\ Avl(t, t.kid[v.node[j]][-v.side[j]], v.off[j], v.offdep[j])
    BY DEF Hangs
  <2> QED
    BY <1>1, <1>3, <2>1, <2>2, <2>3 DEF Hangs
<1>6. Filled(t, r, v.n + 1, d)
  <2>1. v.n + 1 \in 1..(v.n + 1)
    BY <1>2
  <2> QED
    BY <1>1, <1>3, <2>1 DEF Filled
<1> QED
  BY <1>4, <1>5, <1>6

\* The cut and what takes its place, up to the climb.
CutOut(t, way, br, found, m, n, s) ==
  LET rm == way[m]
      h == way[n]
      cut == SetPlace(t, way, br, n, IF h = rm THEN null ELSE t.kid[h][s])
  IN IF h = rm THEN cut
     ELSE SetPlace(Made(cut, h, cut.kid[rm], cut.bf[rm]), found, br, m, h)

\* The nodes above it, to which the climb comes.
Above(way, m, n) == [i \in 1..(n - 1) |-> IF i = m THEN way[n] ELSE way[i]]

CutOutIs(v, u, way, br, m, n, X) ==
  /\ Spine(v) /\ Hangs(u, v, v.n) /\ Filled(u, v, v.n + 1, v.dep[v.n + 1] - 1)
  /\ v.n = n - 1 /\ v.node = Above(way, m, n) /\ v.side = br /\ v.all[1] = X

\* With the last node of the way cut out and put in place of the one to
\* remove, what is left hangs on the spine, and one side is less deep by
\* one.
LEMMA CutOutSound ==
    ASSUME NEW t, NEW sub, NEW dep, NEW way, NEW br, NEW m, NEW n, NEW s, NEW found,
           Route(t, sub, dep, way, br, m, n, s), m # 1 => way[m - 1] = found[m - 1]
    PROVE  \E v : CutOutIs(v, CutOut(t, way, br, found, m, n, s), way, br, m, n,
                           sub[t.root] \ {way[m]})
<1> DEFINE w == Cutting(t, sub, dep, way, br, n)
           p == n - 1
           rm == way[m]
           h == way[n]
           k == t.kid[h][s]
           S == sub[t.root]
           cut == SetPlace(t, way, br, n, k)
           d == w.dep[n] - 1
           q == Above(way, m, n)
<1>1. /\ Line(t, sub, dep, way, br) /\ n = Len(way) /\ n \in Nat /\ m \in 1..n /\ s \in Side
      /\ (n = m => k = null)
  BY DEF Route
<1>2. n \in 1..n /\ p \in Nat /\ p + 1 = n /\ p = n - 1 /\ n \in 1..(p + 1)
  BY ONLY <1>1
<1>3. /\ Spine(w) /\ Hangs(t, w, p) /\ w.n = p /\ w.node = way /\ w.side = br
      /\ Avl(t, k, w.all[n], d) /\ w.all[1] = S \ {h}
  <2>1. w = Cutting(t, sub, dep, way, br, n)
    OBVIOUS
  <2> HIDE DEF w
  <2>2. CuttingIs(t, sub, dep, way, br, n, s, w)
    BY <2>1, RouteSpine
  <2> QED
    BY <2>2 DEF CuttingIs
<1>4. \A j \in 1..n : way[j] \in Elem /\ way[j] \in sub[way[j]] /\ way[j] \in S
  <2>1. \A j \in 1..n : way[j] \in Elem /\ way[j] \in sub[way[j]]
    BY ONLY <1>1, LineIs
  <2>2. \A j \in 1..n : way[j] \in S
    <3>1. /\ Witness(t, t.root, sub, dep) /\ Trail(t, way, br) /\ (way # <<>> => way[1] = t.root)
      BY <1>1 DEF Line
    <3> HIDE DEF S
    <3>2. \A j \in 1..Len(way) : way[j] \in sub[t.root]
      BY <3>1, TrailIn
    <3> QED
      BY <1>1, <3>2 DEF S
  <2> QED
    BY <2>1, <2>2
<1>5. h = rm <=> m = n
  <2> SUFFICES ASSUME m # n PROVE h # rm
    OBVIOUS
  <2>1. Nested(sub, way, br)
    <3>1. /\ Witness(t, t.root, sub, dep) /\ Trail(t, way, br) /\ (way # <<>> => way[1] = t.root)
      BY <1>1 DEF Line
    <3> QED
      BY <3>1, TrailNested
  <2>2. m \in 1..Len(way) /\ n \in 1..Len(way) /\ m < n
    BY <1>1, <1>2
  <2>3. way[m] \notin sub[way[n]]
    BY ONLY <2>1, <2>2 DEF Nested
  <2> QED
    BY <1>2, <1>4, <2>3
<1>6. CutOut(t, way, br, found, m, n, s) =
        IF h = rm THEN cut ELSE SetPlace(Made(cut, h, cut.kid[rm], cut.bf[rm]), found, br, m, h)
  <2>1. (IF h = rm THEN null ELSE t.kid[h][s]) = k
    BY <1>1, <1>5
  <2> QED
    BY <2>1 DEF CutOut
<1> HIDE DEF w, k
<1>7. Hangs(cut, w, p) /\ Filled(cut, w, n, d)
  <2>1. cut = SetPlace(t, w.node, w.side, n, k)
    BY <1>3
  <2> HIDE DEF cut, d, p
  <2> QED
    BY ONLY <1>2, <1>3, <2>1, HungThere
<1> HIDE DEF d
<1>8. CASE m = n
  <2> DEFINE r == Retold(w, q)
             u == cut
  <2>1. CutOut(t, way, br, found, m, n, s) = u
    BY <1>5, <1>6, <1>8
  <2>2. \A j \in 1..w.n : q[j] = w.node[j]
    <3> TAKE j \in 1..w.n
    <3>1. j \in 1..(n - 1) /\ j # m
      BY <1>1, <1>3, <1>8
    <3> QED
      BY <1>3, <3>1 DEF Above
  <2>3. r = Retold(w, q) /\ w.n + 1 = n /\ w.n = p
    BY <1>2, <1>3
  <2>4. Spine(r) /\ Hangs(u, r, p) /\ Filled(u, r, n, d)
    <3> HIDE DEF r, cut, q, p, u
    <3>1. Spine(r) /\ Hangs(u, r, w.n) /\ Filled(u, r, w.n + 1, d)
      <4>1. Hangs(u, w, w.n) /\ Filled(u, w, w.n + 1, d)
        BY <1>7, <2>3 DEF u
      <4> QED
        BY <1>3, <2>2, <2>3, <4>1, RetoldIs
    <3> QED
      BY <2>3, <3>1
  <2>5. r.n = p /\ r.node = q /\ r.side = br /\ r.all[1] = S \ {rm} /\ d = r.dep[r.n + 1] - 1
    <3>1. r.n = w.n /\ r.node = q /\ r.side = w.side /\ r.all = w.all /\ r.dep = w.dep
      BY DEF Retold
    <3> HIDE DEF r, q, p
    <3> QED
      BY <1>2, <1>3, <1>5, <1>8, <3>1 DEF d
  <2> HIDE DEF r, u
  <2>6. CutOutIs(r, u, way, br, m, n, S \ {rm})
    BY <1>2, <2>4, <2>5 DEF CutOutIs
  <2> QED
    BY <2>1, <2>6
<1>9. CASE m # n
  <2> DEFINE r == Renamed(w, m, h)
             made == Made(cut, h, cut.kid[rm], cut.bf[rm])
             u == SetPlace(made, way, br, m, h)
  <2>1. CutOut(t, way, br, found, m, n, s) = u
    <3>1. SetPlace(made, found, br, m, h) = SetPlace(made, way, br, m, h)
      <4> HIDE DEF made, h
      <4>1. CASE m = 1
        BY <4>1 DEF SetPlace
      <4>2. CASE m # 1
        <5>1. way[m - 1] = found[m - 1]
          BY <4>2
        <5> QED
          BY <4>2, <5>1 DEF SetPlace
      <4> QED
        BY <4>1, <4>2
    <3> QED
      BY <1>5, <1>6, <1>9, <3>1
  <2>2. StandIn(w, m, h)
    BY <1>9, RouteStandIn DEF w
  <2>3. /\ r = Renamed(w, m, h) /\ rm = w.node[m] /\ made = Made(cut, h, cut.kid[rm], cut.bf[rm])
        /\ u = SetPlace(made, w.node, w.side, m, h) /\ n = w.n + 1 /\ w.n = p
    BY ONLY <1>2, <1>3
  <2>4. Spine(r) /\ Hangs(u, r, p) /\ Filled(u, r, n, d)
    <3> HIDE DEF r, cut, made, u, h, rm, p
    <3>1. Hangs(cut, w, w.n)
      BY ONLY <1>7, <2>3
    <3>2. Hangs(u, r, w.n) /\ Filled(u, r, n, d)
      BY ONLY <1>7, <2>2, <2>3, <3>1, Replaced
    <3>3. Spine(r)
      BY ONLY <2>2, <2>3, RenamedSpine
    <3> QED
      BY ONLY <2>3, <3>2, <3>3
  <2>5. r.n = p /\ r.node = q /\ r.side = br /\ r.all[1] = S \ {rm} /\ d = r.dep[r.n + 1] - 1
    <3>1. /\ r.n = w.n /\ r.side = w.side /\ r.dep = w.dep
          /\ r.node = [j \in 1..w.n |-> IF j = m THEN h ELSE w.node[j]]
          /\ r.all[1] = (w.all[1] \ {w.node[m]}) \union {h}
      <4>1. 1 \in 1..(w.n + 1) /\ 1 <= m
        BY ONLY <1>1, <1>2, <1>3
      <4> QED
        BY <4>1 DEF Renamed
    <3>2. r.node = q
      BY ONLY <1>3, <3>1 DEF Above
    <3>3. h \in S /\ h # rm
      BY ONLY <1>2, <1>4, <1>5, <1>9
    <3>4. ((S \ {h}) \ {rm}) \union {h} = S \ {rm}
      BY ONLY <3>3
    <3> HIDE DEF r, q, p, h, rm, S
    <3> QED
      BY <1>2, <1>3, <2>3, <3>1, <3>2, <3>4 DEF d
  <2> HIDE DEF r, u
  <2>6. CutOutIs(r, u, way, br, m, n, S \ {rm})
    BY <1>2, <2>4, <2>5 DEF CutOutIs
  <2> QED
    BY <2>1, <2>6
<1> QED
  BY <1>8, <1>9

\* remove(): the tree holds the nodes without the one with the key, if any.
THEOREM RemoveSound ==
    ASSUME NEW t, NEW S, Holds(t, S), NEW k \in Nat
    PROVE  /\ (\A x \in S : KeyOf[x] # k) => Remove(t, k) = t
           /\ \A x \in S : KeyOf[x] = k => Holds(Remove(t, k), S \ {x})
<1> DEFINE found == Descent(t, k, "equal")
           m == Len(found)
           rm == found[m]
           s == IF t.bf[rm] < 0 THEN less ELSE greater
           down == Along(t, t.kid[rm][s], -s)
           way == found \o down
           br == [i \in DOMAIN way |-> IF i < m THEN Sign(k - KeyOf[way[i]])
                                      ELSE IF i = m THEN s ELSE -s]
           n == Len(way)
           h == way[n]
           cut == SetPlace(t, way, br, n, IF h = rm THEN null ELSE t.kid[h][s])
           put == IF h = rm THEN cut
                  ELSE SetPlace(Made(cut, h, cut.kid[rm], cut.bf[rm]), found, br, m, h)
           path == [i \in 1..(n - 1) |-> IF i = m THEN h ELSE way[i]]
<1>1. t \in Tree /\ S \in SUBSET Elem /\ Unlike(S)
  BY HoldsIs
<1>2. PICK sub, dep : Witness(t, t.root, sub, dep) /\ sub[t.root] = S
  BY HoldsIs
<1>3. Remove(t, k) = IF t.root = null \/ KeyOf[rm] # k THEN t ELSE Climbed(put, path, br)
  BY DEF Remove
<1>4. /\ (\E x \in S : KeyOf[x] = k) => t.root # null /\ KeyOf[rm] = k
      /\ t.root # null => rm \in S
  <2>1. Sought(t, S, k, found)
    <3>1. found = Descent(t, k, "equal") /\ S = sub[t.root]
      BY <1>2
    <3> HIDE DEF found
    <3> QED
      BY <1>1, <1>2, <3>1, SoughtIs
  <2> HIDE DEF found
  <2>2. t.root # null => m \in 1..m
    BY <2>1 DEF Sought
  <2> QED
    BY ONLY <2>1, <2>2 DEF Sought, StaysOn
<1>5. CASE \A x \in S : KeyOf[x] # k
  <2>1. t.root = null \/ KeyOf[rm] # k
    <3> HIDE DEF rm
    <3> QED
      BY ONLY <1>4, <1>5
  <2> QED
    BY ONLY <1>3, <1>5, <2>1, Zenon
<1>6. ASSUME NEW x \in S, KeyOf[x] = k PROVE Holds(Remove(t, k), S \ {x})
  <2>1. t.root # null /\ KeyOf[rm] = k /\ rm \in S
    <3> HIDE DEF rm
    <3> QED
      BY <1>4, <1>6
  <2>2. rm = x
    <3> HIDE DEF rm
    <3> QED
      BY ONLY <1>1, <1>6, <2>1 DEF Unlike
  <2>3. RouteCase(t, k, found, m, rm, s, down, way, br, n)
    BY <1>1, <2>1 DEF RouteCase, HeavySide
  <2>4. Remove(t, k) = Climbed(put, path, br)
    BY <1>3, <2>1, Zenon
  <2>5. path = Above(way, m, n)
    BY DEF Above
  <2> HIDE DEF found, m, rm, s, down, way, br, n, path
  <2>6. way[m] = rm => put = CutOut(t, way, br, found, m, n, s)
    <3> SUFFICES ASSUME way[m] = rm PROVE put = CutOut(t, way, br, found, m, n, s)
      OBVIOUS
    <3> QED
      BY DEF CutOut
  <2> HIDE DEF put, cut, h
  <2>7. /\ Route(t, sub, dep, way, br, m, n, s) /\ way[m] = rm
        /\ (m # 1 => way[m - 1] = found[m - 1])
    BY <1>2, <2>3, RouteIs
  <2>8. PICK v : CutOutIs(v, put, way, br, m, n, S \ {rm})
    <3>1. \E v : CutOutIs(v, CutOut(t, way, br, found, m, n, s), way, br, m, n,
                          sub[t.root] \ {way[m]})
      BY <2>7, CutOutSound
    <3> QED
      BY <1>2, <2>6, <2>7, <3>1
  <2>9. /\ Spine(v) /\ Hangs(put, v, v.n) /\ Filled(put, v, v.n + 1, v.dep[v.n + 1] - 1)
        /\ v.n = n - 1 /\ v.node = path /\ v.side = br /\ v.all[1] = S \ {rm}
    BY <2>5, <2>8 DEF CutOutIs
  <2>10. Len(path) = v.n
    <3>1. v.n \in Nat
      BY ONLY <2>9 DEF Spine
    <3>2. ASSUME NEW i \in 1..v.n PROVE path[i] \in Elem
      <4>1. SpineNode(v, i, i + 1)
        BY <2>9 DEF Spine
      <4> QED
        BY <2>9, <4>1 DEF SpineNode
    <3>3. path = [i \in 1..v.n |-> path[i]] /\ DOMAIN path = 1..v.n
      BY <2>5, <2>9 DEF Above
    <3>4. path \in [1..v.n -> Elem]
      BY <3>2, <3>3
    <3>5. path \in Seq(Elem)
      BY ONLY <3>1, <3>4, SeqDef
    <3> QED
      BY ONLY <3>1, <3>3, <3>5, LenProperties
  <2>11. Holds(Climbed(put, path, br), v.all[1])
    <3> DEFINE e == v.n + 1
    <3>1. e = v.n + 1 /\ Filled(put, v, e, v.dep[e] - 1)
      BY <2>9
    <3> HIDE DEF e
    <3> QED
      BY <2>9, <2>10, <3>1, ClimbedSound
  <2> QED
    BY ONLY <2>2, <2>4, <2>9, <2>11
<1> QED
  BY <1>5, <1>6

\* A purged tree has no nodes.
LEMMA PurgeSound ==
    ASSUME NEW t \in Tree
    PROVE  Holds(Purge(t), {})
<1> DEFINE u == Purge(t)
<1>1. u.root = null /\ u \in Tree
  BY DEF Purge, Tree, Handle
<1> HIDE DEF u
<1>2. Avl(u, u.root, {}, 0)
  BY <1>1, AvlNull
<1>3. Holds(u, {})
  BY <1>1, <1>2 DEF Holds
<1> QED
  BY <1>3 DEF u

-----------------------------------------------------------------------------
(* build(): what a round of its loops does, and what the rounds do that make *)
(* a subtree.                                                                *)

Building == [tree : Tree, num : Nat, h : Handle, branch : Seq(Side), rem : Seq(0..1),
             stack : Handle, p : Seq(Elem), up : BOOLEAN]

\* The sequence p from place j on, and its n members from there.
From(p, j) == SubSeq(p, j, Len(p))
Run(p, j, n) == {p[i] : i \in j..(j + n - 1)}

FromOf(p, j, q) ==
  /\ q \in Seq(Elem) /\ Len(q) = Len(p) - j + 1
  /\ \A i \in 1..Len(q) : q[i] = p[j + i - 1]

\* The rest of a sequence, place by place.
LEMMA FromIs ==
    ASSUME NEW p \in Seq(Elem), NEW j \in 1..(Len(p) + 1)
    PROVE  FromOf(p, j, From(p, j))
<1>1. Len(p) \in Nat
  OBVIOUS
<1> QED
  BY ONLY <1>1 DEF FromOf, From

\* What is left of it once n more are taken.
LEMMA FromLater ==
    ASSUME NEW p \in Seq(Elem), NEW j \in 1..(Len(p) + 1), NEW n \in 0..(Len(p) - j + 1)
    PROVE  SubSeq(From(p, j), n + 1, Len(From(p, j))) = From(p, j + n)
<1> DEFINE q == From(p, j)
           r == From(p, j + n)
           z == SubSeq(q, n + 1, Len(q))
<1>1. Len(p) \in Nat /\ j + n \in 1..(Len(p) + 1) /\ n \in Nat /\ j \in Nat
  OBVIOUS
<1>2. FromOf(p, j, q) /\ FromOf(p, j + n, r)
  BY ONLY <1>1, FromIs
<1> HIDE DEF q, r
<1>3. Len(z) = Len(r) /\ z \in Seq(Elem) /\ \A i \in 1..Len(z) : z[i] = q[n + i]
  <2>1. q \in Seq(Elem) /\ Len(q) \in Nat /\ n <= Len(q) /\ Len(q) - n = Len(r)
    BY <1>1, <1>2 DEF FromOf
  <2>2. z \in Seq(Elem)
    BY <1>1, <2>1
  <2>3. Len(z) = Len(q) - n
    BY ONLY <1>1, <2>1
  <2>4. \A i \in 1..Len(z) : z[i] = q[n + i]
    BY ONLY <1>1, <2>1, <2>3
  <2> QED
    BY <2>1, <2>2, <2>3, <2>4
<1>4. \A i \in 1..Len(z) : z[i] = r[i]
  <2> TAKE i \in 1..Len(z)
  <2>1. n + i \in 1..Len(q) /\ i \in 1..Len(r) /\ j + (n + i) - 1 = (j + n) + i - 1
    BY <1>1, <1>2, <1>3 DEF FromOf
  <2>2. q[n + i] = p[j + (n + i) - 1] /\ r[i] = p[(j + n) + i - 1]
    BY <1>2, <2>1 DEF FromOf
  <2> QED
    BY <1>3, <2>1, <2>2
<1> HIDE DEF z
<1>5. z = r
  BY <1>2, <1>3, <1>4, SeqEqual DEF FromOf
<1> QED
  BY <1>5 DEF z, q, r

\* The last member of a sequence comes and goes.
LEMMA LastComes ==
    ASSUME NEW X, NEW q \in Seq(X), NEW x \in X, NEW y \in X
    PROVE  LET a == Append(q, x) IN
           /\ a \in Seq(X) /\ Len(a) = Len(q) + 1 /\ a[Len(a)] = x
           /\ [a EXCEPT ![Len(a)] = y] = Append(q, y)
           /\ SubSeq(a, 1, Len(a) - 1) = q
<1> DEFINE a == Append(q, x)
           b == [a EXCEPT ![Len(a)] = y]
           c == SubSeq(a, 1, Len(a) - 1)
<1>1. a \in Seq(X) /\ Len(a) = Len(q) + 1 /\ a[Len(a)] = x /\ Len(q) \in Nat
      /\ \A i \in 1..Len(q) : a[i] = q[i]
  OBVIOUS
<1> HIDE DEF a
<1>2. b \in Seq(X) /\ Len(b) = Len(q) + 1 /\ b[Len(q) + 1] = y
      /\ \A i \in 1..Len(q) : b[i] = q[i]
  BY <1>1
<1> DEFINE d == Append(q, y)
<1>3. d \in Seq(X) /\ Len(d) = Len(q) + 1 /\ d[Len(q) + 1] = y
      /\ \A i \in 1..Len(q) : d[i] = q[i]
  OBVIOUS
<1>4. c \in Seq(X) /\ Len(c) = Len(q) /\ \A i \in 1..Len(q) : c[i] = q[i]
  BY <1>1
<1> HIDE DEF b, c, d
<1>5. b = d
  <2>1. \A i \in 1..Len(b) : b[i] = d[i]
    BY <1>1, <1>2, <1>3
  <2> QED
    BY ONLY <1>2, <1>3, <2>1, SeqEqual
<1>6. c = q
  BY <1>4, SeqEqual
<1> QED
  BY <1>1, <1>5, <1>6 DEF a, b, c, d

\* The powers of 2.
Doubled[e \in Nat] == IF e = 0 THEN 1 ELSE 2 * Doubled[e - 1]

\* The powers of two, one by one.
LEMMA DoubledIs == /\ Doubled \in [Nat -> Nat] /\ Doubled[0] = 1
                   /\ \A n \in Nat : Doubled[n + 1] = 2 * Doubled[n]
<1> DEFINE step == [n \in Nat |-> 2 * n]
           Goes(w) == w = [e \in Nat |-> IF e = 0 THEN 1 ELSE 2 * w[e - 1]]
<1>1. StaysIn(step, Nat) /\ \A n \in Nat : step[n] = 2 * n
  BY DEF StaysIn
<1> HIDE DEF step
<1>2. PICK f : Repeats(f, step, Nat, 1)
  BY ONLY <1>1, StepsGoOn
<1>3. f \in [Nat -> Nat] /\ f[0] = 1 /\ \A n \in Nat : f[n + 1] = 2 * f[n]
  BY <1>1, <1>2 DEF Repeats
<1>4. Goes(f)
  <2>1. \A e \in Nat : f[e] = IF e = 0 THEN 1 ELSE 2 * f[e - 1]
    <3> TAKE e \in Nat
    <3>1. CASE e = 0
      BY <1>3, <3>1
    <3>2. CASE e # 0
      <4>1. e - 1 \in Nat /\ (e - 1) + 1 = e
        BY <3>2
      <4>2. f[(e - 1) + 1] = 2 * f[e - 1]
        BY <1>3, <4>1
      <4> QED
        BY <3>2, <4>1, <4>2
    <3> QED
      BY <3>1, <3>2
  <2> QED
    BY <1>3, <2>1
<1>5. Goes(Doubled)
  <2>1. Doubled = CHOOSE w : Goes(w)
    BY DEF Doubled
  <2> HIDE DEF Goes
  <2> QED
    BY <1>4, <2>1
<1>6. \A w : Goes(w) => w[0] = 1 /\ \A n \in Nat : w[n + 1] = 2 * w[n]
  OBVIOUS
<1>7. Doubled[0] = 1 /\ \A n \in Nat : Doubled[n + 1] = 2 * Doubled[n]
  <2> HIDE DEF Goes
  <2> QED
    BY <1>5, <1>6
<1>8. Doubled \in [Nat -> Nat]
  <2> DEFINE P == {n \in Nat : Doubled[n] \in Nat}
  <2>1. 0 \in P
    BY <1>7
  <2>2. \A n \in Nat : n \in P => n + 1 \in P
    BY <1>7
  <2>3. Nat \subseteq P
    <3> HIDE DEF P
    <3> QED
      BY ONLY <2>1, <2>2, AllNaturals
  <2>4. Doubled = [e \in Nat |-> IF e = 0 THEN 1 ELSE 2 * Doubled[e - 1]]
    BY <1>5
  <2> QED
    BY <2>3, <2>4
<1> QED
  BY <1>7, <1>8

\* They grow, and each is greater than its exponent.
LEMMA DoubledGrows == /\ \A n \in Nat : n < Doubled[n]
                      /\ \A m, n \in Nat : m <= n => Doubled[m] <= Doubled[n]
<1> USE DoubledIs
<1>1. \A n \in Nat : n < Doubled[n]
  <2> DEFINE P == {n \in Nat : n < Doubled[n]}
  <2>1. 0 \in P
    OBVIOUS
  <2>2. ASSUME NEW n \in Nat, n \in P PROVE n + 1 \in P
    <3>1. Doubled[n + 1] = 2 * Doubled[n] /\ Doubled[n] \in Nat /\ n < Doubled[n]
      BY <2>2
    <3> QED
      BY <3>1
  <2> HIDE DEF P
  <2>3. Nat \subseteq P
    BY ONLY <2>1, <2>2, AllNaturals
  <2> QED
    BY <2>3 DEF P
<1>2. ASSUME NEW m \in Nat PROVE \A n \in Nat : m <= n => Doubled[m] <= Doubled[n]
  <2> DEFINE P == {n \in Nat : m <= n => Doubled[m] <= Doubled[n]}
  <2>1. 0 \in P
    OBVIOUS
  <2>2. ASSUME NEW n \in Nat, n \in P PROVE n + 1 \in P
    <3>1. Doubled[n + 1] = 2 * Doubled[n] /\ Doubled[n] \in Nat /\ Doubled[m] \in Nat
      BY <2>2
    <3>2. CASE m = n + 1
      BY <3>1, <3>2
    <3>3. CASE m # n + 1
      BY <2>2, <3>1, <3>3
    <3> QED
      BY <3>2, <3>3
  <2> HIDE DEF P
  <2>3. Nat \subseteq P
    BY <2>1, <2>2, AllNaturals
  <2> QED
    BY <2>3 DEF P
<1> QED
  BY <1>1, <1>2

\* The test with num & (num - 1) tells the powers of two.
LEMMA PowerOf2Is == ASSUME NEW n \in Nat PROVE PowerOf2(n) <=> \E e \in Nat : n = Doubled[e]
<1>1. PowerOf2(n) <=> \E e \in 0..n : n = Doubled[e]
  BY DEF PowerOf2, Doubled
<1>2. ASSUME NEW e \in Nat, n = Doubled[e] PROVE e \in 0..n
  BY ONLY <1>2, DoubledIs, DoubledGrows
<1> QED
  BY <1>1, <1>2

\* The depth d at which n nodes are split evenly: the number of binary digits.
Digits(n, d) == d \in Nat /\ d # 0 /\ Doubled[d - 1] <= n /\ n < Doubled[d]

\* Only subtrees that make up a power of 2 with their root differ in depth.
LEMMA DigitsIs ==
    ASSUME NEW a \in Nat, a >= 1, NEW r \in 0..1, NEW d, Digits(a, d), NEW n, n = a + r,
           NEW e, Digits(n, e), NEW m, m = 2 * a + 1 + r
    PROVE  /\ Digits(m, 1 + Deeper(e, d)) /\ e - d = IF PowerOf2(m) THEN 1 ELSE 0
<1> DEFINE D(z) == Doubled[z]
           c == d - 1
           f == d + 1
<1>1. /\ d \in Nat /\ c \in Nat /\ e \in Nat /\ e # 0 /\ f \in Nat /\ m \in Nat /\ c + 1 = d
      /\ f + 1 \in Nat /\ f - 1 = d /\ (f + 1) - 1 = f
  BY DEF Digits
<1>2. /\ D(c) \in Nat /\ D(d) = 2 * D(c) /\ D(f) = 2 * D(d) /\ D(f + 1) = 2 * D(f)
      /\ D(c) <= a /\ a < D(d)
  BY <1>1, DoubledIs DEF Digits
<1>3. \A z \in Nat : (z <= d => D(z) <= D(d)) /\ (z >= f => D(f) <= D(z)) /\ D(z) \in Nat
  BY <1>1, DoubledIs, DoubledGrows
<1>4. \A z \in Nat : (z <= c => D(z) <= D(c)) /\ (z >= f => D(f) <= D(z)) /\ D(z) \in Nat
  BY <1>1, DoubledIs, DoubledGrows
<1>5. \A z \in Nat : z >= f + 1 => D(f + 1) <= D(z)
  BY <1>1, DoubledIs, DoubledGrows
<1>6. D(e - 1) <= a + r /\ a + r < D(e) /\ e - 1 \in Nat
  BY <1>1 DEF Digits
<1>7. PowerOf2(m) <=> \E z \in Nat : m = D(z)
  BY <1>1, PowerOf2Is
<1> HIDE DEF D, c, f
<1>8. CASE r = 0 \/ a + 1 < D(d)
  <2>1. D(c) <= a + r /\ a + r < D(d)
    BY <1>1, <1>2, <1>8
  <2>2. e = d
    <3>1. ~(e <= c)
      BY <1>1, <1>2, <1>4, <1>6, <2>1
    <3>2. ~(e >= f)
      <4> SUFFICES ASSUME e >= f PROVE FALSE
        OBVIOUS
      <4>1. e - 1 >= d
        BY <1>1 DEF f
      <4>2. D(d) <= D(e - 1)
        BY <1>1, <1>6, <4>1, DoubledGrows DEF D
      <4> QED
        BY <1>1, <1>2, <1>3, <1>6, <2>1, <4>2
    <3> QED
      BY <1>1, <3>1, <3>2 DEF c, f
  <2>3. ~PowerOf2(m)
    <3>1. CASE r = 0
      <4> SUFFICES ASSUME NEW z \in Nat, m = D(z) PROVE FALSE
        BY <1>7
      <4>1. z # 0
        BY <3>1, DoubledIs DEF D
      <4>2. z - 1 \in Nat /\ (z - 1) + 1 = z
        BY <4>1
      <4>3. D(z) = 2 * D(z - 1) /\ D(z - 1) \in Nat
        BY <4>2, DoubledIs DEF D
      <4> QED
        BY <3>1, <4>3
    <3>2. CASE r # 0
      <4> SUFFICES ASSUME NEW z \in Nat, m = D(z) PROVE FALSE
        BY <1>7
      <4>1. D(d) < m /\ m < D(f)
        BY <1>1, <1>2, <1>8, <3>2
      <4>2. z <= d \/ z >= f
        BY <1>1 DEF f
      <4> QED
        BY <1>1, <1>2, <1>3, <4>1, <4>2
    <3> QED
      BY <3>1, <3>2
  <2>4. D(d) <= m /\ m < D(f)
    BY <1>1, <1>2, <2>1
  <2>5. 1 + Deeper(e, d) = f
    BY <1>1, <2>2 DEF Deeper, f
  <2>6. Digits(m, f)
    BY <1>1, <2>4 DEF Digits, D, f
  <2> QED
    BY ONLY <1>1, <2>2, <2>3, <2>5, <2>6
<1>9. CASE r # 0 /\ a + 1 >= D(d)
  <2>1. r = 1 /\ a + r = D(d) /\ m = D(f)
    BY <1>1, <1>2, <1>9
  <2>2. e = f
    <3>1. ~(e <= d)
      BY ONLY <1>1, <1>2, <1>3, <1>6, <2>1
    <3>2. ~(e >= f + 1)
      <4> SUFFICES ASSUME e >= f + 1 PROVE FALSE
        OBVIOUS
      <4>1. e - 1 >= f
        BY <1>1
      <4>2. D(f) <= D(e - 1)
        BY ONLY <1>3, <1>6, <4>1
      <4>3. D(f) = 2 * D(d) /\ D(e - 1) <= D(d) /\ D(d) \in Nat /\ D(d) > 0 /\ D(e - 1) \in Nat
        BY ONLY <1>1, <1>2, <1>3, <1>6, <2>1
      <4> QED
        BY <4>2, <4>3
    <3> QED
      BY <1>1, <3>1, <3>2 DEF f
  <2>3. PowerOf2(m)
    BY <1>1, <1>7, <2>1
  <2>4. 1 + Deeper(e, d) = f + 1 /\ e - d = 1
    BY ONLY <1>1, <2>2 DEF Deeper, f
  <2>5. Digits(m, f + 1)
    BY <1>1, <1>2, <2>1 DEF Digits, D
  <2> QED
    BY <2>3, <2>4, <2>5
<1> QED
  BY <1>1, <1>2, <1>8, <1>9

\* The depths of the two trees that build() makes without splitting.
LEMMA DigitsOfTwig == Digits(1, 1) /\ Digits(2, 2)
<1>1. Doubled[0] = 1 /\ Doubled[0 + 1] = 2 * Doubled[0] /\ Doubled[1 + 1] = 2 * Doubled[1]
  BY DoubledIs
<1> QED
  BY <1>1 DEF Digits

Ascending(p) ==
  \A i, j \in 1..Len(p) : i < j => KeyOf[p[i]] < KeyOf[p[j]]

\* At b a subtree of m nodes of p from place j on is still to be made; at c it
\* is made and the round is up.
Starts(b, p, j, m) ==
  /\ b \in Building /\ ~b.up /\ b.num = m /\ b.p = From(p, j) /\ Len(b.branch) = Len(b.rem)
  /\ j \in 1..Len(p) /\ m \in Nat /\ m >= 1 /\ j + m - 1 <= Len(p)

Outside(t, u, S) == \A e \in Elem \ S : t.kid[e] = u.kid[e] /\ t.bf[e] = u.bf[e]

Ends(b, c, p, j, m) ==
  /\ c \in Building /\ c.up /\ c.num = m /\ c.p = From(p, j + m)
  /\ c.branch = b.branch /\ c.rem = b.rem /\ c.stack = b.stack
  /\ \E d : Digits(m, d) /\ Avl(c.tree, c.h, Run(p, j, m), d)
  /\ Outside(b.tree, c.tree, Run(p, j, m))

\* A number is its quotient and its remainder.
LEMMA Quotient ==
    ASSUME NEW n \in Nat, NEW m \in Nat, m > 0
    PROVE  n = (n % m) + (n \div m) * m /\ n \div m \in Int /\ n % m \in 0..(m - 1)
OBVIOUS

\* Half a number and the rest of it.
Half(n, a, r) == a = n \div 2 /\ r = n % 2

\* The two halves of what is left after the root.
LEMMA HalfIs ==
    ASSUME NEW n \in Nat, n >= 2, NEW a, NEW r, Half(n, a, r)
    PROVE  a \in Nat /\ a >= 1 /\ r \in 0..1 /\ n = 2 * a + r
<1>1. a \in Int /\ r \in 0..(2 - 1)
  BY 2 \in Nat /\ 2 > 0, Quotient DEF Half
<1>2. n = r + a * 2
  BY 2 \in Nat /\ 2 > 0, Quotient DEF Half
<1> QED
  BY <1>1, <1>2

\* Down to the less subtree.
Halved(b, c, a, r) ==
  /\ c \in Building /\ c.num = a /\ c.branch = Append(b.branch, less) /\ c.rem = Append(b.rem, r)
  /\ c.up = b.up /\ c.p = b.p /\ c.stack = b.stack /\ c.tree = b.tree

\* What build() does going down: it goes on with the less half, and keeps the
\* remainder and the side.
LEMMA HalveIs ==
    ASSUME NEW b \in Building, b.num > 2,
           NEW a, NEW r, Half(b.num - 1, a, r)
    PROVE  /\ a \in Nat /\ a >= 1 /\ r \in 0..1 /\ b.num = 2 * a + 1 + r
           /\ Halved(b, Halve(b), a, r)
<1> DEFINE n == b.num - 1
           rm == Append(b.rem, r)
           br == Append(b.branch, less)
<1>1. b.num \in Nat /\ b.rem \in Seq(0..1) /\ b.branch \in Seq(Side)
  BY DEF Building
<1>2. n \in Nat /\ n >= 2 /\ b.num = n + 1
  BY <1>1
<1>3. a \in Nat /\ a >= 1 /\ r \in 0..1 /\ b.num = 2 * a + 1 + r
  <2>1. Half(n, a, r)
    OBVIOUS
  <2> HIDE DEF n
  <2>2. a \in Nat /\ a >= 1 /\ r \in 0..1 /\ n = 2 * a + r
    BY <1>2, <2>1, HalfIs
  <2> QED
    BY <1>2, <2>2
<1>4. rm \in Seq(0..1) /\ br \in Seq(Side)
  <2>1. less \in Side
    BY DEF Side
  <2> HIDE DEF Side, less
  <2> QED
    BY <1>1, <1>3, <2>1
<1>5. Halve(b) = [b EXCEPT !.num = a, !.rem = rm, !.branch = br]
  BY DEF Halve, Half
<1> HIDE DEF rm, br
<1>6. /\ Halve(b).num = a /\ Halve(b).rem = rm /\ Halve(b).branch = br /\ Halve(b) \in Building
      /\ Halve(b).up = b.up /\ Halve(b).p = b.p /\ Halve(b).stack = b.stack /\ Halve(b).tree = b.tree
  BY <1>3, <1>4, <1>5 DEF Building
<1> QED
  BY <1>3, <1>6 DEF Halved, rm, br

\* A complete less subtree goes under the next node, x, which goes on the stack.
Adopted(b, c, p, j, br, r) ==
  /\ c \in Building /\ ~c.up /\ c.num = b.num + r /\ c.branch = Append(br, greater)
  /\ c.rem = b.rem /\ c.stack = p[j] /\ c.p = From(p, j + 1)
  /\ c.tree.kid[p[j]][less] = b.h /\ c.tree.kid[p[j]][greater] = b.stack
  /\ Outside(b.tree, c.tree, {p[j]})

\* What build() does when a less half is made: the next node is the root,
\* and the greater half is to be made.
LEMMA AdoptIs ==
    ASSUME NEW b \in Building, NEW p \in Seq(Elem), NEW j \in 1..Len(p), b.p = From(p, j),
           NEW br \in Seq(Side), b.branch = Append(br, less),
           NEW rm \in Seq(0..1), NEW r \in 0..1, b.rem = Append(rm, r), Len(br) = Len(rm)
    PROVE  Adopted(b, Adopt(b), p, j, br, r)
<1> DEFINE d == Len(b.branch)
           x == p[j]
           kids == [s \in Side |-> IF s = less THEN b.h ELSE b.stack]
           K == [b.tree.kid EXCEPT ![x] = kids]
           t == [b.tree EXCEPT !.kid = K]
           bg == [b.branch EXCEPT ![d] = greater]
           c == Adopt(b)
<1>1. b.h \in Handle /\ b.stack \in Handle /\ b.tree \in Tree /\ b.num \in Nat /\ x \in Elem
  BY DEF Building
<1>2. less \in Side /\ greater \in Side /\ less # greater
  BY Sides DEF Side
<1>3. kids \in [Side -> Handle] /\ kids[less] = b.h /\ kids[greater] = b.stack
  <2> HIDE DEF Side, less, greater
  <2> QED
    BY <1>1, <1>2
<1>4. b.p[1] = x /\ Tail(b.p) = From(p, j + 1) /\ Tail(b.p) \in Seq(Elem)
  <2>1. Len(p) \in Nat /\ j \in 1..(Len(p) + 1) /\ 1 \in 0..(Len(p) - j + 1) /\ j + 1 - 1 = j
    OBVIOUS
  <2>2. FromOf(p, j, b.p)
    BY <2>1, FromIs
  <2>3. b.p \in Seq(Elem) /\ Len(b.p) \in Nat /\ 1 \in 1..Len(b.p) /\ b.p # <<>>
    BY <2>1, <2>2 DEF FromOf
  <2>4. b.p[1] = x
    BY <2>1, <2>2, <2>3 DEF FromOf
  <2>5. Tail(b.p) = SubSeq(b.p, 1 + 1, Len(b.p)) /\ Tail(b.p) \in Seq(Elem)
    BY <2>3
  <2> QED
    BY <2>1, <2>4, <2>5, FromLater
<1>5. bg = Append(br, greater) /\ bg \in Seq(Side) /\ b.rem[d] = r
  <2> HIDE DEF Side, less, greater
  <2>1. bg = Append(br, greater) /\ Len(b.branch) = Len(br) + 1
    BY <1>2, LastComes
  <2>2. bg \in Seq(Side)
    BY <1>2, <2>1
  <2>3. b.rem[Len(b.rem)] = r /\ Len(b.rem) = Len(rm) + 1
    OBVIOUS
  <2> QED
    BY <2>1, <2>2, <2>3
<1>6. c = [b EXCEPT !.p = Tail(b.p), !.stack = x, !.h = x, !.up = FALSE, !.branch = bg,
                    !.num = b.num + r, !.tree = t]
  BY <1>4, <1>5 DEF Adopt
<1>7. /\ t \in Tree /\ t.kid[x] = kids
      /\ \A e \in Elem : e # x => t.kid[e] = b.tree.kid[e] /\ t.bf[e] = b.tree.bf[e]
  <2>1. b.tree.kid \in Kids /\ b.tree.bf \in Factors
    BY ONLY <1>1, TreeParts
  <2> HIDE DEF kids
  <2>2. K \in Kids /\ K[x] = kids /\ \A e \in Elem : e # x => K[e] = b.tree.kid[e]
    BY ONLY <1>1, <1>3, <2>1 DEF Kids
  <2> HIDE DEF K
  <2>3. t.kid = K /\ t.bf = b.tree.bf /\ t \in Tree
    BY <1>1, <2>2 DEF Tree, Kids
  <2> QED
    BY <2>2, <2>3
<1>8. x \in Handle /\ b.num + r \in Nat
  BY <1>1 DEF Handle
<1> HIDE DEF t, bg, c, x
<1>9. /\ c.p = Tail(b.p) /\ c.stack = x /\ c.up = FALSE /\ c.branch = bg /\ c.num = b.num + r
      /\ c.tree = t /\ c.rem = b.rem /\ c \in Building
  BY ONLY <1>4, <1>5, <1>6, <1>7, <1>8 DEF Building
<1>10. Outside(b.tree, c.tree, {x})
  BY <1>7, <1>9 DEF Outside
<1>11. c.tree.kid[x][less] = b.h /\ c.tree.kid[x][greater] = b.stack
  <2> HIDE DEF kids
  <2> QED
    BY ONLY <1>3, <1>7, <1>9
<1> QED
  BY <1>4, <1>5, <1>9, <1>10, <1>11 DEF Adopted, c, x

\* A complete greater subtree is hung on its parent, x.
Hung(b, c, br, rm, x, n) ==
  /\ c \in Building /\ c.up = b.up /\ c.num = n /\ c.branch = br /\ c.rem = rm /\ c.p = b.p
  /\ c.h = x /\ c.stack = b.tree.kid[x][greater]
  /\ c.tree.kid[x][less] = b.tree.kid[x][less] /\ c.tree.kid[x][greater] = b.h
  /\ c.tree.bf[x] = (IF PowerOf2(n) THEN 1 ELSE 0)
  /\ Outside(b.tree, c.tree, {x})

\* What build() does when both are: the root gets its children and its
\* balance factor.
LEMMA HangIs ==
    ASSUME NEW b \in Building, NEW br \in Seq(Side), b.branch = Append(br, greater),
           NEW rm \in Seq(0..1), NEW r \in 0..1, b.rem = Append(rm, r), Len(br) = Len(rm),
           NEW x \in Elem, b.stack = x, NEW n, n = 2 * b.num + 1 - r
    PROVE  Hung(b, Hang(b), br, rm, x, n)
<1> DEFINE d == Len(b.branch)
           kids == [b.tree.kid[x] EXCEPT ![greater] = b.h]
           f == IF PowerOf2(n) THEN 1 ELSE 0
           t == Made(b.tree, x, kids, f)
           c == Hang(b)
<1>1. b.h \in Handle /\ b.tree \in Tree /\ b.num \in Nat /\ n \in Nat /\ f \in -1..1
  BY SMTT(30) DEF Building
<1>2. less \in Side /\ greater \in Side /\ less # greater
  BY ONLY Sides DEF Side
<1>3. b.tree.kid[x] \in [Side -> Handle]
  <2>1. b.tree.kid \in Kids
    BY <1>1, TreeParts
  <2> QED
    BY <2>1 DEF Kids
<1>4. /\ kids \in [Side -> Handle] /\ kids[less] = b.tree.kid[x][less] /\ kids[greater] = b.h
      /\ b.tree.kid[x][greater] \in Handle
  <2> HIDE DEF Side, less, greater
  <2> QED
    BY ONLY <1>1, <1>2, <1>3
<1>5. MadeOf(b.tree, t, x, kids, f)
  <2> HIDE DEF kids, f
  <2> QED
    BY <1>1, <1>4, MadeIs
<1>6. SubSeq(b.branch, 1, d - 1) = br /\ SubSeq(b.rem, 1, d - 1) = rm /\ b.rem[d] = r
  <2> HIDE DEF Side, less, greater
  <2>1. SubSeq(b.branch, 1, Len(b.branch) - 1) = br /\ Len(b.branch) = Len(br) + 1
    BY <1>2, LastComes
  <2>2. /\ SubSeq(b.rem, 1, Len(b.rem) - 1) = rm /\ Len(b.rem) = Len(rm) + 1
        /\ b.rem[Len(b.rem)] = r
    BY LastComes
  <2> QED
    BY <2>1, <2>2
<1>7. c = [b EXCEPT !.h = x, !.num = n, !.stack = b.tree.kid[x][greater], !.branch = br,
                    !.rem = rm, !.tree = t]
  BY <1>6 DEF Hang
<1>8. x \in Handle
  BY DEF Handle
<1> HIDE DEF t, c, kids, f
<1>9. /\ c.h = x /\ c.num = n /\ c.stack = b.tree.kid[x][greater] /\ c.branch = br /\ c.rem = rm
      /\ c.tree = t /\ c.up = b.up /\ c.p = b.p /\ c \in Building
  <2>1. t \in Tree
    BY <1>5 DEF MadeOf
  <2> QED
    BY ONLY <1>1, <1>4, <1>7, <1>8, <2>1 DEF Building
<1>10. Outside(b.tree, c.tree, {x})
  BY ONLY <1>5, <1>9 DEF Outside, MadeOf
<1>11. /\ c.tree.kid[x][less] = b.tree.kid[x][less] /\ c.tree.kid[x][greater] = b.h
       /\ c.tree.bf[x] = f
  BY ONLY <1>4, <1>5, <1>9 DEF MadeOf
<1> QED
  BY <1>9, <1>10, <1>11 DEF Hung, c, f

\* The nodes of the shortest runs.
LEMMA RunIs ==
    ASSUME NEW p, NEW j \in Nat
    PROVE  /\ Run(p, j, 0) = {} /\ Run(p, j, 1) = {p[j]} /\ Run(p, j, 2) = {p[j], p[j + 1]}
<1>1. j..(j + 0 - 1) = {} /\ j..(j + 1 - 1) = {j} /\ j..(j + 2 - 1) = {j, j + 1}
  OBVIOUS
<1>2. Run(p, j, 0) = {}
  BY <1>1 DEF Run
<1>3. Run(p, j, 1) = {p[j]}
  BY <1>1 DEF Run
<1>4. Run(p, j, 2) = {p[j], p[j + 1]}
  BY <1>1 DEF Run
<1> QED
  BY <1>2, <1>3, <1>4

\* The nodes of p before and after place k have keys on either side of its own.
LEMMA RunBeside ==
    ASSUME NEW p \in Seq(Elem), Ascending(p), NEW k \in 1..Len(p), NEW j \in Nat, NEW n \in Nat,
           j >= 1, j + n - 1 <= Len(p)
    PROVE  /\ j + n <= k => Beside(Run(p, j, n), p[k], less) /\ p[k] \notin Run(p, j, n)
           /\ k < j => Beside(Run(p, j, n), p[k], greater) /\ p[k] \notin Run(p, j, n)
<1>1. ASSUME NEW i \in j..(j + n - 1)
      PROVE  i \in 1..Len(p) /\ KeyOf[p[i]] \in Nat /\ KeyOf[p[k]] \in Nat
  <2>1. i \in 1..Len(p) /\ p[i] \in Elem /\ p[k] \in Elem
    OBVIOUS
  <2> QED
    BY <2>1, AvlAssumption
<1>2. ASSUME j + n <= k PROVE Beside(Run(p, j, n), p[k], less) /\ p[k] \notin Run(p, j, n)
  <2>1. ASSUME NEW i \in j..(j + n - 1) PROVE KeyOf[p[i]] < KeyOf[p[k]]
    BY <1>1, <1>2 DEF Ascending
  <2>2. \A i \in j..(j + n - 1) : Sign(KeyOf[p[i]] - KeyOf[p[k]]) = less /\ p[i] # p[k]
    BY ONLY <1>1, <2>1 DEF Sign, less
  <2> QED
    BY <2>2 DEF Beside, Run
<1>3. ASSUME k < j PROVE Beside(Run(p, j, n), p[k], greater) /\ p[k] \notin Run(p, j, n)
  <2>1. ASSUME NEW i \in j..(j + n - 1) PROVE KeyOf[p[k]] < KeyOf[p[i]]
    BY <1>1, <1>3 DEF Ascending
  <2>2. \A i \in j..(j + n - 1) : Sign(KeyOf[p[i]] - KeyOf[p[k]]) = greater /\ p[i] # p[k]
    BY ONLY <1>1, <2>1 DEF Sign, greater
  <2> QED
    BY <2>2 DEF Beside, Run
<1> QED
  BY <1>2, <1>3

\* A node without children is a tree.
LEMMA LeafIs ==
    ASSUME NEW t \in Tree, NEW h \in Elem
    PROVE  /\ MadeOf(t, Leaf(t, h), h, [s \in Side |-> null], 0)
           /\ Avl(Leaf(t, h), h, {h}, 1)
<1> DEFINE u == Leaf(t, h)
           kids == [s \in Side |-> null]
<1>1. kids \in [Side -> Handle] /\ 0 \in -1..1
  BY DEF Handle
<1>2. MadeOf(t, u, h, kids, 0)
  <2>1. u = Made(t, h, kids, 0)
    BY DEF Leaf
  <2> HIDE DEF u, kids
  <2> QED
    BY <1>1, <2>1, MadeIs
<1> HIDE DEF u
<1>3. u.bf[h] = 0 /\ u.kid[h][less] = null /\ u.kid[h][-less] = null
  <2>1. less \in Side /\ -less \in Side
    BY Sides DEF Side
  <2>2. kids[less] = null /\ kids[-less] = null
    BY <2>1
  <2> HIDE DEF kids
  <2> QED
    BY <1>2, <2>2 DEF MadeOf
<1>4. Parts(u, h, less, {}, 0, {}, 0) /\ Leans(u, h, less, 0, 0)
  BY ONLY <1>3, AvlNull DEF Parts, Leans, Beside
<1>5. Avl(u, h, {} \union {} \union {h}, 1 + Deeper(0, 0))
  BY ONLY <1>4, Join, Sides DEF Side
<1>6. {} \union {} \union {h} = {h} /\ 1 + Deeper(0, 0) = 1
  BY DEF Deeper
<1>7. Avl(u, h, {h}, 1)
  BY <1>5, <1>6
<1> QED
  BY <1>2, <1>7 DEF u

\* A subtree of one node or of two is made at once.
LEMMA TwigIs ==
    ASSUME NEW p \in Seq(Elem), Ascending(p), NEW b, NEW j, NEW m, Starts(b, p, j, m), m <= 2
    PROVE  Ends(b, Twig(b), p, j, m)
<1> DEFINE h == b.p[1]
           g == b.p[2]
           one == Leaf(b.tree, h)
           half == Leaf(one, g)
           kids == [s \in Side |-> IF s = greater THEN g ELSE null]
           two == Made(half, h, kids, 1)
           c == Twig(b)
           t == IF b.num = 2 THEN two ELSE one
           q == SubSeq(b.p, b.num + 1, Len(b.p))
<1>1. /\ b \in Building /\ b.num = m /\ j \in 1..Len(p) /\ m \in Nat /\ m >= 1 /\ j + m - 1 <= Len(p)
      /\ b.p = From(p, j) /\ j \in 1..(Len(p) + 1) /\ Len(p) \in Nat
  BY DEF Starts
<1>2. q = From(p, j + m) /\ b.p \in Seq(Elem) /\ q \in Seq(Elem) /\ FromOf(p, j, b.p)
  <2>1. b.p \in Seq(Elem)
    BY <1>1 DEF Building
  <2>2. m \in 0..(Len(p) - j + 1)
    BY <1>1
  <2>3. q = From(p, j + m)
    BY <1>1, <2>2, FromLater
  <2>4. FromOf(p, j, b.p)
    BY <1>1, FromIs
  <2>5. FromOf(p, j + m, q)
    <3>1. j + m \in 1..(Len(p) + 1)
      BY <1>1
    <3> HIDE DEF q
    <3> QED
      BY <2>3, <3>1, FromIs
  <2> HIDE DEF q
  <2> QED
    BY <2>1, <2>3, <2>4, <2>5 DEF FromOf
<1>3. h = p[j] /\ h \in Elem /\ (m = 2 => g = p[j + 1] /\ g \in Elem /\ g # h /\ Beside({g}, h, greater))
  <2>1. 1 \in 1..Len(b.p) /\ j + 1 - 1 = j
    BY <1>1, <1>2 DEF FromOf
  <2>2. h = p[j] /\ h \in Elem
    BY <1>1, <1>2, <2>1 DEF FromOf
  <2>3. ASSUME m = 2 PROVE g = p[j + 1] /\ g \in Elem /\ g # h /\ Beside({g}, h, greater)
    <3>1. 2 \in 1..Len(b.p) /\ j + 2 - 1 = j + 1 /\ j + 1 \in 1..Len(p) /\ j + 1 \in Nat
          /\ j + 1 + 1 - 1 <= Len(p) /\ j < j + 1 /\ j + 1 >= 1
      BY ONLY <1>1, <1>2, <2>3 DEF FromOf
    <3>2. g = p[j + 1] /\ g \in Elem
      BY <1>2, <3>1 DEF FromOf
    <3> HIDE DEF h, g
    <3>3. Run(p, j + 1, 1) = {g}
      <4>1. Run(p, j + 1, 1) = {p[j + 1]}
        BY <3>1, RunIs
      <4> QED
        BY ONLY <3>2, <4>1
    <3>4. Beside(Run(p, j + 1, 1), p[j], greater) /\ p[j] \notin Run(p, j + 1, 1)
      BY <1>1, <3>1, RunBeside
    <3> QED
      BY <2>2, <3>2, <3>3, <3>4
  <2> QED
    BY ONLY <2>2, <2>3
<1>4. b.tree \in Tree
  BY <1>1 DEF Building
<1> HIDE DEF h, g, kids
<1>5. MadeOf(b.tree, one, h, [s \in Side |-> null], 0) /\ Avl(one, h, {h}, 1)
  BY <1>3, <1>4, LeafIs
<1>6. /\ t \in Tree /\ \E d : Digits(m, d) /\ Avl(t, h, Run(p, j, m), d)
      /\ Outside(b.tree, t, Run(p, j, m))
  <2>1. CASE m = 1
    <3>1. t = one /\ Run(p, j, m) = {h}
      BY <1>1, <1>3, <2>1, RunIs
    <3> HIDE DEF t, one
    <3>2. t \in Tree /\ Outside(b.tree, t, Run(p, j, m))
      BY <1>5, <3>1 DEF MadeOf, Outside
    <3> QED
      BY <1>5, <2>1, <3>1, <3>2, DigitsOfTwig
  <2>2. CASE m = 2
    <3>1. t = two /\ Run(p, j, m) = {h, g}
      <4> HIDE DEF two, one
      <4>1. t = two
        BY <1>1, <2>2
      <4>2. Run(p, j, 2) = {p[j], p[j + 1]}
        BY <1>1, RunIs
      <4> HIDE DEF t
      <4> QED
        BY <1>3, <2>2, <4>1, <4>2
    <3>2. kids \in [Side -> Handle] /\ kids[greater] = g /\ kids[-greater] = null /\ 1 \in -1..1
      <4>1. g \in Handle /\ null \in Handle /\ greater \in Side /\ -greater \in Side /\ greater # -greater
        BY ONLY <1>3, <2>2, Sides DEF Handle, Side
      <4> HIDE DEF Side, greater
      <4> QED
        BY <4>1 DEF kids
    <3> HIDE DEF one, t
    <3>3. one \in Tree
      BY <1>5 DEF MadeOf
    <3>4. MadeOf(one, half, g, [s \in Side |-> null], 0) /\ Avl(half, g, {g}, 1)
      BY <1>3, <2>2, <3>3, LeafIs
    <3> HIDE DEF half
    <3>5. half \in Tree
      BY <3>4 DEF MadeOf
    <3>6. MadeOf(half, two, h, kids, 1)
      BY ONLY <1>3, <3>2, <3>5, MadeIs
    <3> HIDE DEF two
    <3>7. Agree(half, two, {g})
      BY <1>3, <2>2, <3>6 DEF MadeOf, Agree
    <3>8. Avl(two, g, {g}, 1)
      BY <3>4, <3>7, FrameAvl
    <3>9. two.kid[h][greater] = g /\ two.kid[h][-greater] = null /\ two.bf[h] = 1
      BY <3>2, <3>6 DEF MadeOf
    <3>10. Parts(two, h, greater, {g}, 1, {}, 0)
      BY <1>3, <2>2, <3>8, <3>9, AvlNull DEF Parts, Beside
    <3>11. Leans(two, h, greater, 1, 0)
      BY <3>9 DEF Leans
    <3>12. Avl(two, h, {g} \union {} \union {h}, 1 + Deeper(1, 0))
      BY <1>3, <3>10, <3>11, Join, Sides DEF Side
    <3>13. {g} \union {} \union {h} = {h, g} /\ 1 + Deeper(1, 0) = 2
      BY DEF Deeper
    <3>14. Avl(t, h, Run(p, j, m), 2)
      BY <3>1, <3>12, <3>13
    <3>15. two \in Tree /\ Outside(b.tree, two, {h, g})
      BY <1>5, <3>4, <3>6 DEF MadeOf, Outside
    <3> QED
      BY <2>2, <3>1, <3>14, <3>15, DigitsOfTwig
  <2> QED
    BY <1>1, <2>1, <2>2
<1>7. c = [b EXCEPT !.h = h, !.p = q, !.up = TRUE, !.tree = t]
  BY DEF Twig, h, g, kids
<1> HIDE DEF c, t, q
<1>8. /\ c.h = h /\ c.p = q /\ c.up = TRUE /\ c.tree = t /\ c.num = b.num /\ c.branch = b.branch
      /\ c.rem = b.rem /\ c.stack = b.stack /\ c \in Building
  <2>1. h \in Handle
    BY <1>3 DEF Handle
  <2> QED
    BY <1>1, <1>2, <1>6, <1>7, <2>1 DEF Building
<1>9. Ends(b, c, p, j, m)
  BY ONLY <1>1, <1>2, <1>6, <1>8 DEF Ends
<1> QED
  BY <1>9 DEF c

\* The halves of a subtree of m nodes, and where they are from place j on: the
\* node between them at place i, the n of the greater one from place k on.
Halves(m, a, r) == a \in Nat /\ a >= 1 /\ r \in 0..1 /\ m = 2 * a + 1 + r
Places(j, a, r, i, k, n) == i = j + a /\ k = i + 1 /\ n = a + r

\* A run of nodes is that of the less half, the root and that of the greater
\* one.
LEMMA RunSplit ==
    ASSUME NEW p, NEW j \in Nat, NEW m, NEW a, NEW r, Halves(m, a, r),
           NEW i, NEW k, NEW n, Places(j, a, r, i, k, n)
    PROVE  Run(p, j, m) = Run(p, k, n) \union Run(p, j, a) \union {p[i]}
<1>1. j..(j + m - 1) = (k..(k + n - 1)) \union (j..(j + a - 1)) \union {i}
  BY DEF Halves, Places
<1> QED
  BY <1>1 DEF Run

\* The depth of a tree, from those of its halves: the root leans only over a
\* power of two.
LEMMA DigitsSplit ==
    ASSUME NEW j, NEW m, NEW a, NEW r, Halves(m, a, r),
           NEW i, NEW k, NEW n, Places(j, a, r, i, k, n),
           NEW d, Digits(a, d), NEW e, Digits(n, e)
    PROVE  /\ Digits(m, 1 + Deeper(e, d)) /\ e - d = IF PowerOf2(m) THEN 1 ELSE 0
           /\ e - d \in -1..1
<1>1. /\ a \in Nat /\ a >= 1 /\ r \in 0..1 /\ m = 2 * a + 1 + r /\ n = a + r
  BY DEF Halves, Places
<1>2. Digits(m, 1 + Deeper(e, d)) /\ e - d = IF PowerOf2(m) THEN 1 ELSE 0
  BY <1>1, DigitsIs
<1> QED
  BY <1>2

\* What holds when build() starts on a subtree.
LEMMA StartsIs ==
    ASSUME NEW p \in Seq(Elem), NEW b, NEW j, NEW m, Starts(b, p, j, m)
    PROVE  /\ b \in Building /\ b.branch \in Seq(Side) /\ b.rem \in Seq(0..1)
           /\ Len(b.branch) = Len(b.rem) /\ j \in Nat /\ j >= 1 /\ m \in Nat
           /\ Len(p) \in Nat /\ j + m - 1 <= Len(p) /\ b.num = m /\ ~b.up
BY DEF Starts, Building

\* The less subtree is begun ...
LEMMA BeginsLess ==
    ASSUME NEW p \in Seq(Elem), NEW b, NEW j, NEW m, Starts(b, p, j, m), m > 2
    PROVE  \E a, r : Halves(m, a, r) /\ Halved(b, Halve(b), a, r) /\ Starts(Halve(b), p, j, a)
<1>1. PICK a, r : Half(b.num - 1, a, r)
  BY DEF Half
<1>2. b \in Building /\ b.num = m
  BY DEF Starts
<1>3. /\ a \in Nat /\ a >= 1 /\ r \in 0..1 /\ m = 2 * a + 1 + r
      /\ Halved(b, Halve(b), a, r)
  BY <1>1, <1>2, HalveIs
<1> DEFINE c == Halve(b)
<1> HIDE DEF c
<1>4. Halved(b, c, a, r)
  BY <1>3 DEF c
<1>5. Len(c.branch) = Len(c.rem)
  <2>1. /\ Len(b.branch) = Len(b.rem) /\ b.branch \in Seq(Side) /\ b.rem \in Seq(0..1)
    BY StartsIs
  <2>2. less \in Side
    BY Sides DEF Side
  <2> HIDE DEF Side, less
  <2>3. Len(Append(b.branch, less)) = Len(b.branch) + 1
    BY ONLY <2>1, <2>2, LastComes
  <2>4. Len(Append(b.rem, r)) = Len(b.rem) + 1
    BY ONLY <1>3, <2>1, LastComes
  <2> QED
    BY ONLY <1>4, <2>1, <2>3, <2>4 DEF Halved
<1>6. j + a - 1 <= Len(p)
  <2>1. j \in Nat /\ Len(p) \in Nat /\ j + m - 1 <= Len(p)
    BY StartsIs
  <2> QED
    BY ONLY <1>3, <2>1
<1>7. Starts(c, p, j, a)
  BY <1>3, <1>4, <1>5, <1>6 DEF Starts, Halved
<1> QED
  BY <1>3, <1>7 DEF Halves, c

\* ... and then the greater one, ...
LEMMA BeginsGreater ==
    ASSUME NEW p \in Seq(Elem), NEW b, NEW j, NEW m, Starts(b, p, j, m),
           NEW a, NEW r, Halves(m, a, r), NEW b1, Halved(b, b1, a, r),
           NEW b2, Ends(b1, b2, p, j, a), NEW i, NEW k, NEW n, Places(j, a, r, i, k, n)
    PROVE  Adopted(b2, Adopt(b2), p, i, b.branch, r) /\ Starts(Adopt(b2), p, k, n)
<1> DEFINE br == b.branch
           rm == b.rem
           c == Adopt(b2)
<1>1. /\ br \in Seq(Side) /\ rm \in Seq(0..1) /\ Len(br) = Len(rm) /\ j \in Nat /\ j >= 1
      /\ m \in Nat /\ Len(p) \in Nat /\ j + m - 1 <= Len(p)
  BY StartsIs
<1>2. a \in Nat /\ a >= 1 /\ r \in 0..1 /\ m = 2 * a + 1 + r
  BY DEF Halves
<1>3. /\ b2 \in Building /\ b2.branch = Append(br, less) /\ b2.rem = Append(rm, r)
      /\ b2.p = From(p, i) /\ b2.num = a
  BY DEF Halved, Ends, Places
<1>4. /\ i \in 1..Len(p) /\ k \in 1..Len(p) /\ n \in Nat /\ n >= 1 /\ k + n - 1 <= Len(p)
      /\ k = i + 1 /\ n = a + r
  BY <1>1, <1>2 DEF Places
<1> HIDE DEF br, rm, c
<1>5. Adopted(b2, Adopt(b2), p, i, br, r)
  BY <1>1, <1>2, <1>3, <1>4, AdoptIs
<1>6. Adopted(b2, c, p, i, br, r)
  BY <1>5 DEF c
<1>7. Len(c.branch) = Len(c.rem)
  <2>1. greater \in Side
    BY Sides DEF Side
  <2> HIDE DEF Side, greater
  <2>2. Len(Append(br, greater)) = Len(br) + 1
    BY ONLY <1>1, <2>1, LastComes
  <2>3. Len(Append(rm, r)) = Len(rm) + 1
    BY ONLY <1>1, <1>2, LastComes
  <2> QED
    BY ONLY <1>1, <1>3, <1>6, <2>2, <2>3 DEF Adopted
<1>8. Starts(c, p, k, n)
  BY ONLY <1>3, <1>4, <1>6, <1>7 DEF Starts, Adopted
<1> QED
  BY ONLY <1>5, <1>8 DEF br, c

\* ... which is hung on the node between the two: the subtree is made.
LEMMA BothBuilt ==
    ASSUME NEW p \in Seq(Elem), Ascending(p), NEW b, NEW j, NEW m, Starts(b, p, j, m),
           NEW a, NEW r, Halves(m, a, r), NEW b1, Halved(b, b1, a, r),
           NEW b2, Ends(b1, b2, p, j, a), NEW i, NEW k, NEW n, Places(j, a, r, i, k, n),
           NEW b3, Adopted(b2, b3, p, i, b.branch, r), NEW b4, Ends(b3, b4, p, k, n)
    PROVE  Hung(b4, Hang(b4), b.branch, b.rem, p[i], m) /\ Ends(b, Hang(b4), p, j, m)
<1> DEFINE br == b.branch
           rm == b.rem
           c == Hang(b4)
           x == p[i]
           A == Run(p, j, a)
           B == Run(p, k, n)
           S == Run(p, j, m)
<1>1. /\ br \in Seq(Side) /\ rm \in Seq(0..1) /\ Len(br) = Len(rm) /\ j \in Nat /\ j >= 1
      /\ m \in Nat /\ Len(p) \in Nat /\ j + m - 1 <= Len(p)
  BY StartsIs
<1>2. a \in Nat /\ a >= 1 /\ r \in 0..1 /\ m = 2 * a + 1 + r
  BY DEF Halves
<1>3. /\ i \in 1..Len(p) /\ k \in Nat /\ n \in Nat /\ n >= 1 /\ k + n - 1 <= Len(p) /\ k >= 1
      /\ j + a - 1 <= Len(p) /\ j + a <= i /\ i < k
  BY <1>1, <1>2 DEF Places
<1>4. x \in Elem
  BY <1>3
<1>5. /\ b4 \in Building /\ b4.branch = Append(br, greater) /\ b4.rem = Append(rm, r)
      /\ b4.stack = x /\ b4.num = n /\ b4.up /\ b4.p = From(p, k + n)
  BY DEF Halved, Ends, Adopted
<1> HIDE DEF br, rm, c, x, A, B, S
<1>6. Hung(b4, Hang(b4), br, rm, x, m)
  <2>1. m = 2 * n + 1 - r
    BY <1>2 DEF Places
  <2> QED
    BY <1>1, <1>2, <1>3, <1>4, <1>5, <2>1, HangIs
<1>7. Hung(b4, c, br, rm, x, m)
  BY <1>6 DEF c
<1>8. Beside(A, x, less) /\ Beside(B, x, greater) /\ x \notin A /\ x \notin B
  <2>1. Beside(A, x, less) /\ x \notin A
    <3>1. Beside(Run(p, j, a), p[i], less) /\ p[i] \notin Run(p, j, a)
      BY <1>1, <1>2, <1>3, RunBeside
    <3> QED
      BY ONLY <3>1 DEF A, x
  <2>2. Beside(B, x, greater) /\ x \notin B
    <3>1. Beside(Run(p, k, n), p[i], greater) /\ p[i] \notin Run(p, k, n)
      BY <1>3, RunBeside
    <3> QED
      BY <3>1 DEF B, x
  <2> QED
    BY <2>1, <2>2
<1>9. S = B \union A \union {x}
  <2>1. Run(p, j, m) = Run(p, k, n) \union Run(p, j, a) \union {p[i]}
    BY <1>1, RunSplit
  <2> QED
    BY <2>1 DEF S, A, B, x
<1>10. A \cap B = {}
  <2>1. less # greater
    BY ONLY Sides DEF Side
  <2> HIDE DEF less, greater
  <2> QED
    BY ONLY <1>8, <2>1 DEF Beside
<1>11. PICK d : Digits(a, d) /\ Avl(b2.tree, b2.h, A, d)
  BY DEF Ends, A
<1>12. PICK e : Digits(n, e) /\ Avl(b4.tree, b4.h, B, e)
  BY DEF Ends, B
<1>13. d \in Nat /\ e \in Nat /\ A \subseteq Elem /\ B \subseteq Elem
  BY <1>11, <1>12, AvlType
<1>14. /\ Digits(m, 1 + Deeper(e, d)) /\ e - d = IF PowerOf2(m) THEN 1 ELSE 0
       /\ e - d \in -1..1
  BY <1>11, <1>12, DigitsSplit
<1>15. /\ Outside(b2.tree, b3.tree, {x}) /\ Outside(b3.tree, b4.tree, B)
       /\ Outside(b4.tree, c.tree, {x}) /\ Outside(b.tree, b2.tree, A)
  BY <1>7 DEF Adopted, Ends, Hung, Halved, x, A, B
<1>16. Agree(b2.tree, c.tree, A) /\ Agree(b4.tree, c.tree, B)
  <2>1. A \cap (B \union {x}) = {} /\ B \cap {x} = {}
    BY <1>8, <1>10
  <2> QED
    BY <1>13, <1>15, <2>1 DEF Agree, Outside
<1>17. Outside(b.tree, c.tree, S)
  BY <1>9, <1>15 DEF Outside
<1>18. /\ c.tree.kid[x][less] = b2.h /\ c.tree.kid[x][greater] = b4.h
       /\ c.stack = b2.stack /\ c.tree.bf[x] = e - d
  <2>1. b3.tree.kid[x][less] = b2.h /\ b3.tree.kid[x][greater] = b2.stack
    BY DEF Adopted, x
  <2>2. b4.tree.kid[x] = b3.tree.kid[x]
    BY <1>4, <1>8, <1>15 DEF Outside
  <2> QED
    BY <1>7, <1>14, <2>1, <2>2 DEF Hung
<1>19. Avl(c.tree, b2.h, A, d) /\ Avl(c.tree, b4.h, B, e)
  BY <1>11, <1>12, <1>16, FrameAvl
<1>20. Parts(c.tree, x, greater, B, e, A, d)
  <2>1. -greater = less
    BY Sides DEF Side
  <2> HIDE DEF greater, less
  <2> QED
    BY <1>8, <1>18, <1>19, <2>1 DEF Parts
<1>21. Leans(c.tree, x, greater, e, d)
  BY <1>14, <1>18 DEF Leans
<1>22. Avl(c.tree, x, S, 1 + Deeper(e, d))
  BY <1>4, <1>9, <1>20, <1>21, Join, Sides DEF Side
<1>23. /\ c \in Building /\ c.up /\ c.num = m /\ c.p = From(p, j + m) /\ c.branch = b.branch
       /\ c.rem = b.rem /\ c.stack = b.stack /\ c.h = x
  <2>1. b2.stack = b.stack
    BY DEF Ends, Halved
  <2>2. k + n = j + m
    BY <1>1, <1>2 DEF Places
  <2> QED
    BY <1>3, <1>5, <1>7, <1>18, <2>1, <2>2 DEF Hung, br, rm
<1>24. Ends(b, c, p, j, m)
  BY ONLY <1>14, <1>17, <1>22, <1>23 DEF Ends, S
<1> QED
  BY <1>6, <1>24 DEF c, br, rm, x

\* Which of its parts a round of the loop of build() is.
LEMMA RoundIs ==
    ASSUME NEW b, NEW N, NEW br \in Seq(Side)
    PROVE  /\ ~b.up /\ b.num > 2 => Round(b, N) = Halve(b)
           /\ ~b.up /\ ~(b.num > 2) => Round(b, N) = Twig(b)
           /\ b.up /\ b.branch = Append(br, less) /\ b.num # N => Round(b, N) = Adopt(b)
           /\ b.up /\ b.branch = Append(br, greater) => Round(b, N) = Hang(b)
           /\ b.up /\ b.branch = <<>> /\ b.num = N => Round(b, N) = b
<1>1. less \in Side /\ greater \in Side /\ less # greater
  BY Sides DEF Side
<1>2. ASSUME NEW s \in Side, b.branch = Append(br, s)
      PROVE  Len(b.branch) > 0 /\ b.branch[Len(b.branch)] = s
  <2> HIDE DEF Side
  <2>1. b.branch[Len(b.branch)] = s /\ Len(b.branch) = Len(br) + 1 /\ Len(br) \in Nat
    BY <1>2, LastComes
  <2> QED
    BY <2>1
<1>3. b.branch = <<>> => ~(Len(b.branch) > 0)
  OBVIOUS
<1> HIDE DEF Side, less, greater
<1>4. ~b.up /\ b.num > 2 => Round(b, N) = Halve(b)
  BY DEF Round
<1>5. ~b.up /\ ~(b.num > 2) => Round(b, N) = Twig(b)
  BY DEF Round
<1>6. ASSUME b.up, b.branch = Append(br, less), b.num # N PROVE Round(b, N) = Adopt(b)
  <2>1. Len(b.branch) > 0 /\ b.branch[Len(b.branch)] = less
    BY ONLY <1>1, <1>2, <1>6
  <2> QED
    BY <1>1, <1>6, <2>1 DEF Round
<1>7. ASSUME b.up, b.branch = Append(br, greater) PROVE Round(b, N) = Hang(b)
  <2>1. Len(b.branch) > 0 /\ b.branch[Len(b.branch)] = greater
    BY ONLY <1>1, <1>2, <1>7
  <2> QED
    BY <1>1, <1>7, <2>1 DEF Round
<1>8. b.up /\ b.branch = <<>> /\ b.num = N => Round(b, N) = b
  BY <1>3 DEF Round
<1> QED
  BY ONLY <1>4, <1>5, <1>6, <1>7, <1>8

\* The first K rounds of build().
Rounds(run, K, N) == \A i \in 1..K : run[i] = Round(run[i - 1], N)

\* A subtree of m nodes is made in at most 3 m - 2 rounds.
Makes(run, K, p, n, j, m) ==
  n + 3 * m - 2 <= K /\ Starts(run[n], p, j, m) =>
    \E k \in Nat : n < k /\ k <= n + 3 * m - 2 /\ Ends(run[n], run[k], p, j, m)

\* From when build() starts on a subtree of m nodes to when it goes up with
\* it are at most 3 * m - 2 rounds, and then these m nodes are an AVL tree;
\* by induction on m.
LEMMA SubtreeMade ==
    ASSUME NEW p \in Seq(Elem), Ascending(p), NEW run, NEW K \in Nat, Rounds(run, K, Len(p))
    PROVE  \A m \in Nat : \A n \in Nat, j \in Nat : Makes(run, K, p, n, j, m)
<1> DEFINE P == {m \in Nat : \A n \in Nat, j \in Nat : Makes(run, K, p, n, j, m)}
           N == Len(p)
<1>1. ASSUME NEW n \in Nat, NEW e, e = n + 1, e <= K PROVE e \in Nat /\ run[e] = Round(run[n], N)
  <2>1. e \in 1..K /\ e - 1 = n
    BY <1>1
  <2> QED
    BY <2>1 DEF Rounds
<1>2. N \in Nat
  OBVIOUS
<1> HIDE DEF N
<1>3. ASSUME NEW m \in Nat, \A l \in 0..(m - 1) : l \in P PROVE m \in P
  <2> SUFFICES ASSUME NEW n \in Nat, NEW j \in Nat, n + 3 * m - 2 <= K, Starts(run[n], p, j, m)
               PROVE  \E k \in Nat : n < k /\ k <= n + 3 * m - 2 /\ Ends(run[n], run[k], p, j, m)
    BY DEF Makes
  <2>1. ASSUME NEW l \in Nat, l < m, NEW g \in Nat, NEW i \in Nat, g + 3 * l - 2 <= K,
               Starts(run[g], p, i, l)
        PROVE  \E k \in Nat : g < k /\ k <= g + 3 * l - 2 /\ Ends(run[g], run[k], p, i, l)
    <3>1. l \in P
      BY ONLY <1>3, <2>1
    <3>2. Makes(run, K, p, g, i, l)
      BY <3>1
    <3> QED
      BY ONLY <2>1, <3>2 DEF Makes
  <2> HIDE DEF P
  <2> DEFINE e == n + 1
             b == run[n]
             b1 == run[e]
  <2>2. /\ b \in Building /\ b.branch \in Seq(Side) /\ m >= 1 /\ j + m - 1 <= N /\ j >= 1
        /\ b.num = m /\ ~b.up /\ Len(b.branch) = Len(b.rem)
    <3>1. Starts(b, p, j, m)
      OBVIOUS
    <3> HIDE DEF b
    <3>2. m >= 1 /\ j + m - 1 <= N /\ j >= 1
      BY <3>1 DEF Starts, N
    <3> QED
      BY <3>1, <3>2, StartsIs
  <2>3. e \in Nat /\ e <= K /\ n < e /\ e <= n + 3 * m - 2
    BY <2>2
  <2>4. b1 = Round(b, N)
    <3>1. e = n + 1
      OBVIOUS
    <3> HIDE DEF e
    <3> QED
      BY <1>1, <2>3, <3>1
  <2>5. e + 3 * m - 3 <= K /\ e = n + 1
    BY <1>3
  <2> HIDE DEF e, b, b1
  <2>6. CASE m <= 2
    <3>1. b1 = Twig(b)
      <4>1. ~(b.num > 2)
        BY <2>2, <2>6
      <4> QED
        BY <2>2, <2>4, <4>1, RoundIs
    <3>2. Starts(b, p, j, m)
      BY DEF b
    <3>3. Ends(b, b1, p, j, m)
      BY <2>6, <3>1, <3>2, TwigIs
    <3> QED
      BY <2>3, <3>3 DEF b, b1
  <2>7. CASE m > 2
    <3>1. b1 = Halve(b) /\ Starts(b, p, j, m)
      <4>1. b.num > 2
        BY <2>2, <2>7
      <4> QED
        BY <2>2, <2>4, <4>1, RoundIs DEF b
    <3>2. PICK a, r : Halves(m, a, r) /\ Halved(b, b1, a, r) /\ Starts(b1, p, j, a)
      BY ONLY <2>7, <3>1, BeginsLess
    <3>3. /\ a \in Nat /\ a >= 1 /\ a < m /\ r \in 0..1 /\ m = 2 * a + 1 + r /\ a # N
          /\ e + 3 * a - 2 <= K
      <4>1. a \in Nat /\ a >= 1 /\ r \in 0..1 /\ m = 2 * a + 1 + r
        BY <3>2 DEF Halves
      <4> QED
        BY ONLY <1>2, <2>2, <2>3, <2>5, <4>1
    <3>4. PICK k1 \in Nat : e < k1 /\ k1 <= e + 3 * a - 2 /\ Ends(b1, run[k1], p, j, a)
      BY ONLY <2>1, <2>3, <3>2, <3>3 DEF b1
    <3> DEFINE f == k1 + 1
               b2 == run[k1]
               b3 == run[f]
    <3>5. PICK i, k, l : Places(j, a, r, i, k, l)
      BY DEF Places
    <3>6. /\ f \in Nat /\ f <= K /\ k \in Nat /\ l \in Nat /\ l < m
          /\ f + 3 * l - 2 <= K - 1 /\ f + 3 * l - 1 <= n + 3 * m - 2 /\ n < f
      <4>1. i = j + a /\ k = i + 1 /\ l = a + r
        BY <3>5 DEF Places
      <4>2. k \in Nat /\ l \in Nat /\ l < m
        BY ONLY <3>3, <4>1
      <4>3. f \in Nat /\ n < f /\ f <= n + 3 * a
        BY ONLY <2>3, <2>5, <3>3, <3>4
      <4> HIDE DEF f
      <4>4. 3 * l = 3 * a + 3 * r /\ 3 * m = 6 * a + 3 + 3 * r
        BY <3>3, <4>1
      <4>5. f + 3 * l - 2 <= n + 3 * m - 2 - 1 /\ f + 3 * l - 1 <= n + 3 * m - 2
        BY ONLY <3>3, <4>2, <4>3, <4>4
      <4>6. f <= K
        BY <3>3, <4>3, <4>4
      <4> QED
        BY <1>3, <4>2, <4>3, <4>5, <4>6
    <3>7. b3 = Round(b2, N)
      <4>1. f = k1 + 1
        OBVIOUS
      <4> HIDE DEF f
      <4> QED
        BY ONLY <1>1, <3>6, <4>1
    <3> HIDE DEF f, b2, b3
    <3>8. Adopted(b2, b3, p, i, b.branch, r) /\ Starts(b3, p, k, l)
      <4>1. Ends(b1, b2, p, j, a)
        BY ONLY <3>4 DEF b2
      <4>2. b2.up /\ b2.branch = Append(b.branch, less) /\ b2.num # N
        BY ONLY <3>2, <3>3, <4>1 DEF Ends, Halved
      <4>3. b3 = Adopt(b2)
        BY ONLY <2>2, <3>7, <4>2, RoundIs
      <4> QED
        BY ONLY <3>1, <3>2, <3>5, <4>1, <4>3, BeginsGreater
    <3>9. PICK k2 \in Nat : f < k2 /\ k2 <= f + 3 * l - 2 /\ Ends(b3, run[k2], p, k, l)
      <4>1. f + 3 * l - 2 <= K
        BY <3>6
      <4> QED
        BY <2>1, <3>6, <3>8, <4>1 DEF b3
    <3> DEFINE g == k2 + 1
               b4 == run[k2]
               b5 == run[g]
    <3>10. g \in Nat /\ g <= K /\ n < g /\ g <= n + 3 * m - 2
      BY <3>6, <3>9
    <3>11. b5 = Round(b4, N)
      <4>1. g = k2 + 1
        OBVIOUS
      <4> HIDE DEF g
      <4> QED
        BY <1>1, <3>10, <4>1
    <3> HIDE DEF g, b4, b5
    <3>12. Ends(b, b5, p, j, m)
      <4>1. Ends(b3, b4, p, k, l) /\ Ends(b1, b2, p, j, a)
        BY ONLY <3>4, <3>9 DEF b4, b2
      <4>2. b4.up /\ b4.branch = Append(b.branch, greater)
        BY ONLY <3>8, <4>1 DEF Ends, Adopted
      <4>3. b5 = Hang(b4)
        BY <2>2, <3>11, <4>2, RoundIs
      <4> QED
        BY <3>1, <3>2, <3>5, <3>8, <4>1, <4>3, BothBuilt
    <3> QED
      BY ONLY <3>10, <3>12 DEF b, b5
  <2> QED
    BY <1>3, <2>6, <2>7
<1>4. Nat \subseteq P
  <2> HIDE DEF P
  <2> QED
    BY <1>3, StrongNaturals
<1> QED
  BY <1>4

\* The states of build(), one for each round.
RunOf(f, first, N, K) == f = [n \in 0..K |-> IF n = 0 THEN first ELSE Round(f[n - 1], N)]

\* The loop has a run of any number of rounds.
LEMMA RunExists ==
    ASSUME NEW first, NEW N
    PROVE  \A K \in Nat : \E f : RunOf(f, first, N, K)
<1> USE DEF RunOf
<1> DEFINE Goes(f, K) == RunOf(f, first, N, K)
           P == {K \in Nat : \E f : Goes(f, K)}
<1>1. 0 \in P
  <2>1. Goes([n \in 0..0 |-> first], 0)
    <3>1. \A n \in 0..0 : n = 0
      OBVIOUS
    <3> QED
      BY <3>1
  <2> QED
    BY <2>1
<1>2. ASSUME NEW K \in Nat, K \in P PROVE K + 1 \in P
  <2>1. PICK f : Goes(f, K)
    BY <1>2
  <2> DEFINE M == K + 1
             g == [n \in 0..M |-> IF n = M THEN Round(f[K], N) ELSE f[n]]
  <2>2. \A n \in 0..K : f[n] = IF n = 0 THEN first ELSE Round(f[n - 1], N)
    BY <2>1
  <2>3. M \in Nat /\ M # 0 /\ M - 1 = K /\ M = K + 1
    OBVIOUS
  <2> HIDE DEF M, Goes
  <2>4. ASSUME NEW n \in 0..M
        PROVE  g[n] = IF n = 0 THEN first ELSE Round(g[n - 1], N)
    <3>1. CASE n = M
      <4>1. n - 1 \in 0..M /\ n - 1 # M /\ n # 0 /\ n - 1 = K
        BY <2>3, <3>1
      <4>2. g[n] = Round(f[K], N) /\ g[n - 1] = f[n - 1]
        BY ONLY <3>1, <4>1
      <4> HIDE DEF g
      <4> QED
        BY <4>1, <4>2
    <3>2. CASE n # M
      <4>1. n \in 0..K /\ (n # 0 => n - 1 \in 0..M /\ n - 1 # M)
        BY <2>3, <3>2
      <4>2. g[n] = f[n] /\ (n # 0 => g[n - 1] = f[n - 1])
        BY <3>2, <4>1
      <4> HIDE DEF g
      <4> QED
        BY ONLY <2>2, <4>1, <4>2
    <3> QED
      BY <3>1, <3>2
  <2>5. Goes(g, M)
    <3>1. g = [n \in 0..M |-> g[n]]
      OBVIOUS
    <3> HIDE DEF g
    <3> QED
      BY <2>4, <3>1 DEF Goes
  <2>6. M \in P
    BY <2>3, <2>5
  <2> QED
    BY ONLY <2>3, <2>6
<1>3. Nat \subseteq P
  <2> HIDE DEF P
  <2> QED
    BY ONLY <1>1, <1>2, AllNaturals
<1> QED
  BY <1>3

\* build(): the tree holds the nodes it was given.
LEMMA BuildMade ==
    ASSUME NEW t \in Tree, NEW p \in Seq(Elem), Ascending(p)
    PROVE  Holds(Build(t, p), Run(p, 1, Len(p)))
<1> DEFINE N == Len(p)
           first == [tree |-> t, num |-> Len(p), h |-> null, branch |-> <<>>,
                     rem |-> <<>>, stack |-> null, p |-> p, up |-> FALSE]
           Goes(f) == RunOf(f, first, Len(p), 3 * Len(p))
           run[n \in 0..(3 * Len(p))] ==
             IF n = 0 THEN [tree |-> t, num |-> Len(p), h |-> null, branch |-> <<>>,
                            rem |-> <<>>, stack |-> null, p |-> p, up |-> FALSE]
             ELSE Round(run[n - 1], Len(p))
           done == run[3 * Len(p)]
<1>1. N \in Nat
  OBVIOUS
<1>2. Build(t, p) = IF p = <<>> THEN Purge(t) ELSE [done.tree EXCEPT !.root = done.h]
  BY DEF Build
<1>3. CASE p = <<>>
  <2>1. 1..Len(p) = {} /\ 1 + Len(p) - 1 = Len(p)
    BY <1>3
  <2>2. Run(p, 1, Len(p)) = {}
    BY <2>1 DEF Run
  <2> QED
    BY <1>2, <1>3, <2>2, PurgeSound
<1>4. CASE p # <<>>
  <2> DEFINE K == 3 * N
  <2>1. N >= 1 /\ K \in Nat
    BY <1>1, <1>4
  <2>2. Goes(run)
    <3>1. \E f : Goes(f)
      <4> HIDE DEF first
      <4>1. \A M \in Nat : \E f : RunOf(f, first, Len(p), M)
        BY RunExists
      <4>2. 3 * Len(p) \in Nat
        BY <2>1
      <4> QED
        BY <4>1, <4>2
    <3>2. run = CHOOSE f : Goes(f)
      BY DEF first, RunOf
    <3> HIDE DEF run, Goes
    <3> QED
      BY <3>1, <3>2
  <2> HIDE DEF run
  <2>3. \A f : Goes(f) => \A n \in 0..K : f[n] = IF n = 0 THEN first ELSE Round(f[n - 1], N)
    BY DEF RunOf
  <2> HIDE DEF Goes
  <2>4. \A n \in 0..K : run[n] = IF n = 0 THEN first ELSE Round(run[n - 1], N)
    BY <2>2, <2>3
  <2>5. run[0] = first
    <3>1. 0 \in 0..K
      BY <2>1
    <3> QED
      BY <2>4, <3>1
  <2>6. Rounds(run, K, N)
    <3>1. ASSUME NEW i \in 1..K PROVE i \in 0..K /\ i # 0
      OBVIOUS
    <3> QED
      BY <2>4, <3>1 DEF Rounds
  <2>7. Starts(first, p, 1, N)
    <3>1. /\ first.tree = t /\ first.num = Len(p) /\ first.branch = <<>> /\ first.rem = <<>>
          /\ first.p = p /\ first.up = FALSE
      OBVIOUS
    <3>2. first \in Building
      <4>1. null \in Handle /\ <<>> \in Seq(Side) /\ <<>> \in Seq(0..1) /\ Len(p) \in Nat
        BY DEF Handle
      <4> QED
        BY <4>1 DEF Building
    <3> HIDE DEF first
    <3>3. p = From(p, 1)
      <4>1. SubSeq(p, 1, Len(p)) = p
        OBVIOUS
      <4> QED
        BY <4>1 DEF From
    <3> QED
      BY ONLY <2>1, <3>1, <3>2, <3>3 DEF Starts
  <2> HIDE DEF first
  <2>8. PICK k \in Nat : k <= K - 2 /\ Ends(first, run[k], p, 1, N)
    <3>1. Makes(run, K, p, 0, 1, N)
      <4>1. Rounds(run, K, Len(p)) /\ K \in Nat /\ 0 \in Nat /\ 1 \in Nat /\ N \in Nat
        BY <2>1, <2>6
      <4> HIDE DEF K
      <4>2. \A m \in Nat : \A n \in Nat, j \in Nat : Makes(run, K, p, n, j, m)
        BY <4>1, SubtreeMade
      <4> QED
        BY <4>1, <4>2
    <3>2. Starts(run[0], p, 1, N) /\ 0 + 3 * N - 2 <= K
      BY <2>1, <2>5, <2>7
    <3>3. PICK k \in Nat : k <= 0 + 3 * N - 2 /\ Ends(run[0], run[k], p, 1, N)
      BY <3>1, <3>2 DEF Makes
    <3> QED
      BY <2>1, <2>5, <3>3
  <2> DEFINE c == run[k]
  <2>9. /\ c \in Building /\ c.up /\ c.num = N /\ c.branch = <<>>
        /\ \E d : Avl(c.tree, c.h, Run(p, 1, N), d)
    <3>1. first.branch = <<>>
      BY DEF first
    <3> QED
      BY <2>8, <3>1 DEF Ends
  <2>10. \A i \in Nat : k + i <= K => run[k + i] = c
    <3> DEFINE P == {i \in Nat : k + i <= K => run[k + i] = c}
    <3>1. 0 \in P
      OBVIOUS
    <3>2. ASSUME NEW i \in Nat, i \in P PROVE i + 1 \in P
      <4> SUFFICES ASSUME k + (i + 1) <= K PROVE run[k + (i + 1)] = c
        OBVIOUS
      <4> DEFINE e == k + (i + 1)
      <4>1. e \in 0..K /\ e # 0 /\ e - 1 = k + i /\ k + i <= K
        BY <2>1
      <4>2. run[k + i] = c
        BY ONLY <3>2, <4>1
      <4> HIDE DEF e, c
      <4>3. run[e] = Round(c, N)
        BY <2>4, <4>1, <4>2
      <4>4. <<>> \in Seq(Side)
        OBVIOUS
      <4>5. Round(c, N) = c
        BY <2>9, <4>4, RoundIs
      <4> QED
        BY <4>3, <4>5 DEF e
    <3> HIDE DEF P
    <3>3. Nat \subseteq P
      BY <3>1, <3>2, AllNaturals
    <3> QED
      BY <3>3 DEF P
  <2>11. done = c
    <3>1. (K - k) \in Nat /\ k + (K - k) = K
      BY <2>1, <2>8
    <3> HIDE DEF c, K
    <3>2. run[K] = c
      <4>1. k + (K - k) <= K
        BY <2>1, <3>1
      <4>2. run[k + (K - k)] = c
        BY <2>10, <3>1, <4>1
      <4> QED
        BY <3>1, <4>2
    <3> QED
      BY <3>2 DEF K
  <2> HIDE DEF done, c
  <2> DEFINE u == [c.tree EXCEPT !.root = c.h]
  <2>12. u \in Tree /\ u.kid = c.tree.kid /\ u.bf = c.tree.bf /\ u.root = c.h
    BY <2>9 DEF Building, Tree
  <2>13. Build(t, p) = u
    BY <1>2, <1>4, <2>11
  <2> HIDE DEF u
  <2>14. PICK d : Avl(c.tree, c.h, Run(p, 1, N), d)
    BY <2>9
  <2>15. Agree(c.tree, u, Run(p, 1, N))
    BY <2>12 DEF Agree
  <2>16. Avl(u, u.root, Run(p, 1, N), d)
    BY <2>12, <2>14, <2>15, FrameAvl
  <2> QED
    BY ONLY <2>12, <2>13, <2>16 DEF Holds
<1> QED
  BY <1>3, <1>4

\* The nodes of S with a smaller key than e.
Smaller(S, e) == {d \in S : KeyOf[d] < KeyOf[e]}

\* Nodes with different keys, in the order of the keys.
Listing(p, S) == p = InKeyOrder(S)
Placing(S, i) == CHOOSE e \in S : Cardinality(Smaller(S, e)) = i - 1

\* The nodes in the order of their keys, as the caller of build() has them,
\* are an ascending sequence of all of them.
LEMMA InKeyOrderIs ==
    ASSUME NEW S \in SUBSET Elem, Distinct(S), NEW p, Listing(p, S)
    PROVE  p \in Seq(Elem) /\ Ascending(p) /\ Run(p, 1, Len(p)) = S
<1> DEFINE n == Cardinality(S)
           T == 1..n
           f == [e \in S |-> Cardinality(Smaller(S, e)) + 1]
<1>1. IsFiniteSet(S) /\ n \in Nat
  BY FS_Subset, FS_CardinalityType, AvlAssumption
<1>13. \A e \in S : KeyOf[e] \in Nat
  BY AvlAssumption
<1>14. \A e \in S : e \notin Smaller(S, e)
  BY <1>13 DEF Smaller
<1>2. ASSUME NEW e \in S
      PROVE  /\ KeyOf[e] \in Nat /\ Smaller(S, e) \subseteq S /\ IsFiniteSet(Smaller(S, e))
             /\ Cardinality(Smaller(S, e)) \in Nat /\ f[e] = Cardinality(Smaller(S, e)) + 1
  <2>1. Smaller(S, e) \subseteq S
    BY DEF Smaller
  <2>2. IsFiniteSet(Smaller(S, e)) /\ Cardinality(Smaller(S, e)) \in Nat
    BY <1>1, <2>1, FS_Subset, FS_CardinalityType
  <2> QED
    BY <2>1, <2>2, AvlAssumption
<1> HIDE DEF f, n
<1>3. ASSUME NEW e \in S, NEW g \in S, KeyOf[e] < KeyOf[g] PROVE f[e] < f[g]
  <2>1. e \notin Smaller(S, e) /\ (Smaller(S, e) \union {e}) \in SUBSET Smaller(S, g)
    <3>1. e \notin Smaller(S, e) /\ e \in Smaller(S, g)
      BY <1>3, <1>14 DEF Smaller
    <3>2. ASSUME NEW d \in Smaller(S, e) PROVE d \in Smaller(S, g)
      <4>1. d \in S /\ KeyOf[d] < KeyOf[e]
        BY DEF Smaller
      <4>2. KeyOf[d] < KeyOf[g]
        BY <1>3, <1>13, <4>1
      <4> QED
        BY <4>1, <4>2 DEF Smaller
    <3> QED
      BY <3>1, <3>2
  <2>2. Cardinality(Smaller(S, e) \union {e}) = Cardinality(Smaller(S, e)) + 1
    BY <1>2, <2>1, FS_AddElement
  <2>3. Cardinality(Smaller(S, e) \union {e}) <= Cardinality(Smaller(S, g))
    BY <1>2, <2>1, FS_Subset
  <2> QED
    BY <1>2, <2>2, <2>3
<1>4. f \in [S -> T]
  <2>1. ASSUME NEW e \in S PROVE Cardinality(Smaller(S, e)) + 1 \in T
    <3>1. e \notin Smaller(S, e) /\ (Smaller(S, e) \union {e}) \in SUBSET S
      <4>1. e \notin Smaller(S, e)
        BY <1>14
      <4> QED
        BY <1>2, <4>1
    <3>2. Cardinality(Smaller(S, e) \union {e}) = Cardinality(Smaller(S, e)) + 1
      BY <1>2, <3>1, FS_AddElement
    <3>3. Cardinality(Smaller(S, e) \union {e}) <= n
      BY <1>1, <3>1, FS_Subset DEF n
    <3> QED
      BY ONLY <1>1, <1>2, <3>2, <3>3
  <2> HIDE DEF T
  <2> QED
    BY <2>1 DEF f
<1>5. \A e, g \in S : f[e] = f[g] => e = g
  <2> SUFFICES ASSUME NEW e \in S, NEW g \in S, f[e] = f[g], e # g PROVE FALSE
    OBVIOUS
  <2>1. KeyOf[e] < KeyOf[g] \/ KeyOf[g] < KeyOf[e]
    BY <1>2 DEF Distinct
  <2>2. f[e] \in Int /\ f[g] \in Int
    BY <1>1, <1>4
  <2>3. f[e] < f[g] \/ f[g] < f[e]
    BY ONLY <1>3, <2>1
  <2> QED
    BY <2>2, <2>3
<1>6. f \in Injection(S, T)
  BY ONLY <1>4, <1>5 DEF Injection, IsInjective
<1>7. IsFiniteSet(T) /\ Cardinality(T) = n
  <2>1. Cardinality(1..n) = IF 1 > n THEN 0 ELSE n - 1 + 1
    BY <1>1, FS_Interval
  <2> QED
    BY <1>1, <2>1, FS_Interval
<1>8. f \in Surjection(S, T)
  <2> HIDE DEF T
  <2> QED
    BY <1>6, <1>7, FS_Injection DEF n
<1>9. ASSUME NEW i \in T PROVE p[i] \in S /\ f[p[i]] = i
  <2>1. PICK e \in S : f[e] = i
    BY <1>8 DEF Surjection
  <2>2. p[i] = CHOOSE x \in S : Cardinality(Smaller(S, x)) = i - 1
    BY DEF InKeyOrder, Smaller, n, Listing
  <2>3. Cardinality(Smaller(S, e)) = i - 1
    BY <1>1, <1>2, <2>1
  <2> DEFINE c == p[i]
  <2>4. c \in S /\ Cardinality(Smaller(S, c)) = i - 1
    <3> HIDE DEF T
    <3> QED
      BY <2>2, <2>3
  <2> HIDE DEF c
  <2>5. f[c] = i
    BY <1>1, <1>2, <2>4
  <2> QED
    BY <2>4, <2>5 DEF c
<1>10. p \in Seq(Elem) /\ Len(p) = n
  <2>1. p = [i \in 1..n |-> p[i]] /\ DOMAIN p = 1..n
    <3>1. p = [i \in 1..n |-> Placing(S, i)]
      BY DEF InKeyOrder, n, Listing, Placing, Smaller
    <3> QED
      BY <3>1
  <2>2. p \in [1..n -> Elem]
    BY <1>9, <2>1
  <2>3. p \in Seq(Elem)
    BY ONLY <1>1, <2>2, SeqDef
  <2> QED
    BY ONLY <1>1, <2>1, <2>3, LenProperties
<1>11. Ascending(p)
  <2> SUFFICES ASSUME NEW i \in 1..Len(p), NEW j \in 1..Len(p), i < j
               PROVE  KeyOf[p[i]] < KeyOf[p[j]]
    BY DEF Ascending
  <2>1. /\ p[i] \in S /\ p[j] \in S /\ f[p[i]] = i /\ f[p[j]] = j
    BY <1>9, <1>10
  <2>2. ~(KeyOf[p[j]] < KeyOf[p[i]]) /\ p[i] # p[j]
    BY <1>3, <2>1
  <2> QED
    BY <1>2, <2>1, <2>2 DEF Distinct
<1>12. Run(p, 1, Len(p)) = S
  <2>1. 1..(1 + Len(p) - 1) = T
    BY <1>1, <1>10
  <2>2. ASSUME NEW e \in S PROVE \E i \in T : e = p[i]
    <3>1. f[e] \in T
      BY <1>4
    <3>2. p[f[e]] \in S /\ f[p[f[e]]] = f[e]
      BY ONLY <1>9, <3>1
    <3> QED
      BY <1>5, <3>1, <3>2
  <2>3. Run(p, 1, Len(p)) = {p[i] : i \in T}
    BY <2>1 DEF Run
  <2> HIDE DEF T
  <2> QED
    BY <1>9, <2>2, <2>3
<1> QED
  BY <1>10, <1>11, <1>12

\* build() from a set of nodes with different keys.
THEOREM BuildSound ==
    ASSUME NEW t \in Tree, NEW S \in SUBSET Elem, Distinct(S)
    PROVE  Holds(Build(t, InKeyOrder(S)), S)
<1> DEFINE p == InKeyOrder(S)
<1>1. p = InKeyOrder(S)
  OBVIOUS
<1> HIDE DEF p
<1>2. p \in Seq(Elem) /\ Ascending(p) /\ Run(p, 1, Len(p)) = S
  BY <1>1, InKeyOrderIs DEF Listing
<1>3. Holds(Build(t, p), Run(p, 1, Len(p)))
  BY ONLY <1>2, BuildMade
<1> QED
  BY <1>1, <1>2, <1>3

-----------------------------------------------------------------------------
(* The iterator.                                                             *)

\* The node x lies on side s of the node e.
On(x, e, s) == Sign(KeyOf[x] - KeyOf[e]) = s

\* What the sides say of the order of three nodes.
Sides3(x, e, f, s) ==
  /\ On(x, e, s) <=> On(e, x, -s)
  /\ On(x, e, s) /\ On(e, f, s) => On(x, f, s)
  /\ ~(On(x, e, s) /\ On(x, e, -s))
  /\ KeyOf[x] # KeyOf[e] => On(x, e, s) \/ On(x, e, -s)

\* To lie on a side is a strict order of the keys.
LEMMA OnIs ==
    ASSUME NEW x \in Elem, NEW e \in Elem, NEW f \in Elem, NEW s \in Side
    PROVE  Sides3(x, e, f, s)
<1>1. (s = 1 /\ -s = -1) \/ (s = -1 /\ -s = 1)
  BY Sides DEF less, greater
<1>2. KeyOf[x] \in Int /\ KeyOf[e] \in Int /\ KeyOf[f] \in Int
  BY KeyIs
<1> DEFINE a == KeyOf[x]
           b == KeyOf[e]
           c == KeyOf[f]
<1>4. a \in Int /\ b \in Int /\ c \in Int
  BY <1>2
<1> HIDE DEF a, b, c
<1>5. /\ Sign(a - b) = 1 <=> b < a
      /\ Sign(a - b) = -1 <=> a < b
      /\ Sign(b - a) = 1 <=> a < b
      /\ Sign(b - a) = -1 <=> b < a
      /\ Sign(b - c) = 1 <=> c < b
      /\ Sign(b - c) = -1 <=> b < c
      /\ Sign(a - c) = 1 <=> c < a
      /\ Sign(a - c) = -1 <=> a < c
  BY <1>4, SignIs
<1>6. /\ Sign(a - b) = s <=> Sign(b - a) = -s
      /\ Sign(a - b) = s /\ Sign(b - c) = s => Sign(a - c) = s
      /\ ~(Sign(a - b) = s /\ Sign(a - b) = -s)
      /\ a # b => Sign(a - b) = s \/ Sign(a - b) = -s
  <2>1. CASE s = 1 /\ -s = -1
    BY ONLY <1>4, <1>5, <2>1
  <2>2. CASE s = -1 /\ -s = 1
    BY ONLY <1>4, <1>5, <2>2
  <2> QED
    BY <1>1, <2>1, <2>2
<1> QED
  BY <1>6 DEF a, b, c, On, Sides3

\* A path of an iterator: a way from the root of the tree t, and the sides taken.
Roams(t, j) ==
  /\ j = [path |-> j.path, branch |-> j.branch]
  /\ j.path \in Seq(Elem) /\ j.path # <<>> /\ j.path[1] = t.root
  /\ j.branch \in Seq(Side) /\ Len(j.branch) = Len(j.path) - 1
  /\ Trail(t, j.path, j.branch)

\* A way whose last step but one is to place i and that leaves S to the nodes
\* on one side.
Parted(x, q, br, j) == x = q[j] \/ On(x, q[j], -br[j])

\* A node that is not below place i of a way was left at a place before it.
LEMMA Parting ==
    ASSUME NEW t, NEW h, NEW sub, NEW dep, Witness(t, h, sub, dep), NEW q, NEW br,
           Trail(t, q, br), q # <<>>, q[1] = h, NEW x \in sub[h], NEW i \in 1..Len(q),
           x \notin sub[q[i]]
    PROVE  \E j \in 1..(i - 1) : Parted(x, q, br, j)
<1>0. \A j \in 1..Len(q) : Witness(t, q[j], sub, dep)
  BY TrailIn
<1>1. /\ Len(q) \in Nat /\ q \in Seq(Elem)
      /\ \A j \in 1..Len(q) : q[j] \in Elem /\ q[j] # null /\ Witness(t, q[j], sub, dep)
  BY <1>0, LenProperties, AvlAssumption DEF Trail
<1> DEFINE P == {n \in Nat : n + 1 \in 1..Len(q) /\ x \notin sub[q[n + 1]]
                               => \E j \in 1..n : Parted(x, q, br, j)}
<1>2. 0 \in P
  OBVIOUS
<1>3. ASSUME NEW n \in Nat, n \in P PROVE n + 1 \in P
  <2> DEFINE k == n + 1
  <2> SUFFICES ASSUME k + 1 \in 1..Len(q), x \notin sub[q[k + 1]]
               PROVE  \E j \in 1..k : Parted(x, q, br, j)
    OBVIOUS
  <2>1. k \in 1..Len(q) /\ k \in 1..(Len(q) - 1) /\ k \in 1..k /\ 1..n \subseteq 1..k
    BY <1>1
  <2>2. x \notin sub[q[k]] => \E j \in 1..n : Parted(x, q, br, j)
    BY ONLY <1>3, <2>1
  <2> HIDE DEF k
  <2>3. CASE x \notin sub[q[k]]
    BY <2>1, <2>2, <2>3
  <2>4. CASE x \in sub[q[k]]
    <3>1. br[k] \in Side /\ q[k + 1] = t.kid[q[k]][br[k]]
      BY <2>1 DEF Trail
    <3>2. Forks(t, sub, dep, q[k], br[k])
      BY ONLY <1>1, <2>1, <3>1, WithinKid
    <3>3. x = q[k] \/ x \in sub[t.kid[q[k]][-br[k]]]
      BY <2>4, <3>1, <3>2, Zenon DEF Forks
    <3>4. Parted(x, q, br, k)
      BY ONLY <3>2, <3>3, Zenon DEF Forks, Beside, Parted, On
    <3> QED
      BY <2>1, <3>4
  <2> QED
    BY ONLY <2>3, <2>4
<1>4. Nat \subseteq P
  <2> HIDE DEF P
  <2> QED
    BY <1>2, <1>3, AllNaturals
<1>5. i - 1 \in Nat /\ (i - 1) + 1 = i
  BY <1>1
<1>6. i - 1 \in P
  BY <1>4, <1>5
<1> QED
  BY <1>5, <1>6

\* The nodes in A are e itself or on side s of it.
Ends1(A, e, s) == \A x \in A : x = e \/ On(x, e, s)

\* Where a way has taken one side from place i on, and there is nothing further
\* on that side, its last node is the last one on that side below place i.
LEMMA FarEnd ==
    ASSUME NEW t, NEW h, NEW sub, NEW dep, Witness(t, h, sub, dep), NEW q, NEW br,
           Trail(t, q, br), q # <<>>, q[1] = h, NEW s \in Side, NEW i \in 1..Len(q),
           \A j \in i..(Len(q) - 1) : br[j] = s, t.kid[q[Len(q)]][s] = null
    PROVE  Ends1(sub[q[i]], q[Len(q)], -s)
<1> DEFINE n == Len(q)
           e == q[n]
           P == {j \in 1..n : j >= i => Ends1(sub[q[j]], e, -s)}
<1>0. (\A j \in 1..n : Witness(t, q[j], sub, dep)) /\ sub[null] = {}
  <2>1. sub[null] = {}
    BY DEF Witness, Measures
  <2> QED
    BY <2>1, TrailIn
<1>1. /\ n \in Nat /\ q \in Seq(Elem) /\ n \in 1..n /\ sub[null] = {}
      /\ \A j \in 1..n : q[j] \in Elem /\ q[j] # null /\ Witness(t, q[j], sub, dep)
  <2>1. n \in Nat /\ q \in Seq(Elem) /\ n # 0 /\ \A j \in 1..n : q[j] \in Elem
    BY LenProperties, EmptySeq DEF Trail
  <2> HIDE DEF n
  <2> QED
    BY ONLY <1>0, <2>1, AvlAssumption
<1>2. -s \in Side /\ -(-s) = s
  BY ONLY Sides
<1>3. \A j \in 1..n : Forks(t, sub, dep, q[j], s)
  BY ONLY <1>1, WithinKid
<1>4. n >= 1 => n \in P
  <2>1. sub[e] = sub[t.kid[e][-s]] \union {e} /\ Beside(sub[t.kid[e][-s]], e, -s)
    BY <1>1, <1>3 DEF Forks
  <2>2. Ends1(sub[e], e, -s)
    BY <2>1 DEF Ends1, Beside, On
  <2> QED
    BY ONLY <1>1, <2>2
<1>5. ASSUME NEW j \in 1..(n - 1), j + 1 \in P PROVE j \in P
  <2> SUFFICES ASSUME j >= i PROVE Ends1(sub[q[j]], e, -s)
    BY <1>1
  <2>1. j \in 1..n /\ j + 1 \in 1..n /\ j \in i..(n - 1) /\ j < n
    BY <1>1
  <2>2. Ends1(sub[q[j + 1]], e, -s)
    BY ONLY <1>1, <1>5, <2>1
  <2>3. br[j] = s /\ q[j + 1] = t.kid[q[j]][s]
    BY <2>1 DEF Trail
  <2> DEFINE g == q[j]
             B == sub[t.kid[g][-s]]
  <2>4. sub[g] = sub[q[j + 1]] \union B \union {g} /\ Beside(B, g, -s)
    BY <1>3, <2>1, <2>3 DEF Forks
  <2>5. On(e, g, s)
    <3>1. Nested(sub, q, br)
      BY TrailNested
    <3>2. Beside(sub[e], g, br[j]) /\ e \in sub[e]
      BY ONLY <1>1, <2>1, <3>1 DEF Nested
    <3> QED
      BY <2>3, <3>2 DEF Beside, On
  <2>6. g \in Elem /\ e \in Elem /\ B \in SUBSET Elem
    <3>1. Witness(t, t.kid[g][-s], sub, dep)
      BY <1>3, <2>1 DEF Forks
    <3> QED
      BY <1>1, <2>1, <3>1 DEF Witness, Measures
  <2> HIDE DEF g, B, e, n
  <2>7. On(g, e, -s)
    BY ONLY <2>5, <2>6, OnIs DEF Sides3
  <2>8. ASSUME NEW x \in B PROVE On(x, e, -s)
    <3>1. x \in Elem /\ On(x, g, -s)
      BY <2>4, <2>6 DEF Beside, On
    <3>2. Sides3(x, g, e, -s)
      BY <1>2, <2>6, <3>1, OnIs
    <3> QED
      BY <2>7, <3>1, <3>2 DEF Sides3
  <2>9. Ends1(sub[g], e, -s)
    BY <2>2, <2>4, <2>7, <2>8 DEF Ends1
  <2> QED
    BY <2>9 DEF g
<1>6. 1..n \subseteq P
  <2> HIDE DEF P, n
  <2> QED
    BY <1>1, <1>4, <1>5, Downward
<1> QED
  BY <1>1, <1>6

\* The node next to e in S on side s.
NextTo(S, e, s, f) ==
  f \in S /\ On(f, e, s) /\ \A x \in S : On(x, e, s) => x = f \/ On(x, f, s)

\* The iterator j is at the node next to e in S, or there is none and it is null.
StepsTo(t, S, e, s, j) ==
  \/ Roams(t, j) /\ NextTo(S, e, s, Current(j))
  \/ j = NullIter /\ \A x \in S : ~On(x, e, s)

\* A place of a way and the node there.
AtPlace(q, n, c, f) == n \in 1..Len(q) /\ c = q[n] /\ f = q[Len(q)]

\* Seen from the last node of a way, those that are not below place n, at c,
\* are on the same side as seen from c.
LEMMA SameSide ==
    ASSUME NEW t, NEW h, NEW sub, NEW dep, Witness(t, h, sub, dep), NEW q, NEW br,
           Trail(t, q, br), q # <<>>, q[1] = h, NEW n, NEW c, NEW f, AtPlace(q, n, c, f),
           NEW s \in Side, NEW x \in sub[h], x \notin sub[c]
    PROVE  On(x, c, s) <=> On(x, f, s)
<1>1. /\ n \in 1..Len(q) /\ c = q[n] /\ f = q[Len(q)] /\ Len(q) \in Nat
      /\ Len(q) \in 1..Len(q) /\ x \in Elem
  <2>1. x \in Elem
    BY DEF Witness, Measures
  <2>2. Len(q) \in Nat /\ Len(q) # 0
    BY LenProperties, EmptySeq DEF Trail
  <2>3. n \in 1..Len(q) /\ c = q[n] /\ f = q[Len(q)]
    BY DEF AtPlace
  <2> QED
    BY <2>1, <2>2, <2>3
<1>2. PICK j \in 1..(n - 1) : Parted(x, q, br, j)
  BY <1>1, Parting
<1>3. Nested(sub, q, br)
  BY TrailNested
<1>4. /\ j \in 1..Len(q) /\ j < n /\ j < Len(q) /\ q[j] \in Elem /\ c \in Elem /\ f \in Elem
      /\ c \in sub[c] /\ f \in sub[f]
  <2>1. j \in 1..Len(q) /\ j < n /\ j < Len(q)
    BY <1>1, <1>2
  <2> QED
    BY <1>1, <1>3, <2>1 DEF Nested
<1> DEFINE g == q[j]
           r == br[j]
<1>5. Beside(sub[c], g, r) /\ Beside(sub[f], g, r) /\ r \in Side
  BY <1>1, <1>3, <1>4 DEF Nested
<1>6. On(c, g, r) /\ On(f, g, r) /\ (x = g \/ On(x, g, -r))
  BY <1>2, <1>4, <1>5 DEF Beside, On, Parted
<1>7. g \in Elem /\ -r \in Side /\ -(-r) = r
  BY <1>4, <1>5, Sides
<1> HIDE DEF g, r
<1>8. ASSUME NEW y \in Elem, On(y, g, r) PROVE On(x, y, -r) /\ ~On(x, y, r)
  <2>1. On(g, y, -r)
    BY <1>5, <1>7, <1>8, OnIs DEF Sides3
  <2>2. Sides3(x, g, y, -r)
    BY <1>1, <1>7, OnIs
  <2>3. On(x, y, -r)
    BY <1>6, <2>1, <2>2 DEF Sides3
  <2>4. Sides3(x, y, y, r)
    BY <1>1, <1>5, OnIs
  <2> QED
    BY <2>3, <2>4 DEF Sides3
<1>9. s = r \/ s = -r
  BY <1>5, Sides DEF Side
<1> QED
  BY ONLY <1>4, <1>6, <1>8, <1>9

\* The way goes on from c down on side s and then along the other one: its last
\* node is next to c.
LEMMA NextBelow ==
    ASSUME NEW t, NEW h, NEW sub, NEW dep, Witness(t, h, sub, dep), NEW q, NEW br,
           Trail(t, q, br), q # <<>>, q[1] = h, NEW n, NEW c, NEW f, AtPlace(q, n, c, f),
           n # Len(q), NEW s \in Side, br[n] = s,
           \A j \in (n + 1)..(Len(q) - 1) : br[j] = -s, t.kid[f][-s] = null
    PROVE  NextTo(sub[h], c, s, f)
<1>1. /\ n \in 1..Len(q) /\ c = q[n] /\ f = q[Len(q)] /\ Len(q) \in Nat
      /\ Len(q) \in 1..Len(q) /\ n + 1 \in 1..Len(q) /\ n < Len(q) /\ n \in 1..(Len(q) - 1)
  <2>1. Len(q) \in Nat /\ Len(q) # 0
    BY LenProperties, EmptySeq DEF Trail
  <2>2. n \in 1..Len(q) /\ c = q[n] /\ f = q[Len(q)]
    BY DEF AtPlace
  <2> QED
    BY <2>1, <2>2
<1>2. Nested(sub, q, br) /\ \A j \in 1..Len(q) : q[j] \in sub[h] /\ Witness(t, q[j], sub, dep)
  BY TrailNested, TrailIn
<1>3. /\ c \in Elem /\ f \in Elem /\ f \in sub[h] /\ f \in sub[f]
      /\ Beside(sub[f], c, s) /\ sub[h] \in SUBSET Elem
  <2>1. sub[h] \in SUBSET Elem
    BY DEF Witness, Measures
  <2> QED
    BY <1>1, <1>2, <2>1 DEF Nested
<1>4. On(f, c, s)
  BY <1>3 DEF Beside, On
<1>5. -s \in Side /\ -(-s) = s
  BY ONLY Sides
<1> DEFINE k == t.kid[c][s]
<1>6. q[n + 1] = k
  BY <1>1 DEF Trail
<1>7. Ends1(sub[k], f, s)
  <2>1. PICK r \in Side : r = -s /\ -r = s
    BY <1>5
  <2>2. /\ \A j \in (n + 1)..(Len(q) - 1) : br[j] = r
        /\ n + 1 \in 1..Len(q) /\ f = q[Len(q)] /\ t.kid[q[Len(q)]][r] = null
    BY <1>1, <2>1
  <2>3. Ends1(sub[q[n + 1]], q[Len(q)], -r)
    BY <2>2, FarEnd
  <2> QED
    BY ONLY <1>6, <2>1, <2>2, <2>3, Zenon
<1>8. sub[c] = sub[k] \union sub[t.kid[c][-s]] \union {c} /\ Beside(sub[t.kid[c][-s]], c, -s)
  <2>1. Witness(t, c, sub, dep) /\ c # null
    BY ONLY <1>1, <1>2, <1>3, AvlAssumption
  <2> QED
    BY <2>1, WithinKid DEF Forks
<1> HIDE DEF k
<1>9. ASSUME NEW x \in sub[h], On(x, c, s) PROVE x = f \/ On(x, f, s)
  <2>1. CASE x \notin sub[c]
    BY <1>9, <2>1, SameSide
  <2>2. CASE x \in sub[k]
    BY ONLY <1>7, <2>2 DEF Ends1
  <2>3. Sides3(x, c, c, s)
    BY ONLY <1>3, OnIs
  <2>4. CASE x = c
    <3>1. On(c, c, -s)
      BY ONLY <1>9, <2>3, <2>4 DEF Sides3
    <3> QED
      BY ONLY <1>9, <2>3, <2>4, <3>1 DEF Sides3
  <2>5. CASE x \in sub[t.kid[c][-s]]
    <3>1. On(x, c, -s)
      BY <1>8, <2>5 DEF Beside, On
    <3> QED
      BY ONLY <1>9, <2>3, <3>1 DEF Sides3
  <2> QED
    BY <1>8, <2>1, <2>2, <2>4, <2>5
<1> QED
  BY <1>3, <1>4, <1>9 DEF NextTo

\* There is nothing below c, the last node of the way, on side s: the node next
\* to it there is the last one which the way left on the other side.
LEMMA NextAbove ==
    ASSUME NEW t, NEW h, NEW sub, NEW dep, Witness(t, h, sub, dep), NEW q, NEW br,
           Trail(t, q, br), q # <<>>, q[1] = h, NEW n, NEW f, NEW c, AtPlace(q, n, f, c),
           n # Len(q), NEW s \in Side, br[n] = -s,
           \A j \in (n + 1)..(Len(q) - 1) : br[j] = s, t.kid[c][s] = null
    PROVE  NextTo(sub[h], c, s, f)
<1>1. /\ n \in 1..Len(q) /\ f = q[n] /\ c = q[Len(q)] /\ Len(q) \in Nat
      /\ Len(q) \in 1..Len(q) /\ n + 1 \in 1..Len(q) /\ n < Len(q) /\ n \in 1..(Len(q) - 1)
  <2>1. Len(q) \in Nat /\ Len(q) # 0
    BY LenProperties, EmptySeq DEF Trail
  <2>2. n \in 1..Len(q) /\ f = q[n] /\ c = q[Len(q)]
    BY DEF AtPlace
  <2> QED
    BY <2>1, <2>2
<1>2. Nested(sub, q, br) /\ \A j \in 1..Len(q) : q[j] \in sub[h] /\ Witness(t, q[j], sub, dep)
  BY TrailNested, TrailIn
<1>3. /\ c \in Elem /\ f \in Elem /\ f \in sub[h] /\ c \in sub[c]
      /\ Beside(sub[c], f, -s) /\ sub[h] \in SUBSET Elem
  <2>1. sub[h] \in SUBSET Elem
    BY DEF Witness, Measures
  <2> QED
    BY <1>1, <1>2, <2>1 DEF Nested
<1>4. On(c, f, -s) /\ -s \in Side /\ -(-s) = s
  BY ONLY <1>3, Sides DEF Beside, On
<1>5. On(f, c, s)
  <2>1. Sides3(f, c, c, s)
    BY ONLY <1>3, OnIs
  <2> QED
    BY <1>4, <2>1 DEF Sides3
<1> DEFINE k == t.kid[f][-s]
<1>6. q[n + 1] = k
  BY <1>1 DEF Trail
<1>7. Ends1(sub[k], c, -s)
  <2>1. Ends1(sub[q[n + 1]], q[Len(q)], -s)
    BY <1>1, FarEnd
  <2> QED
    BY ONLY <1>1, <1>6, <2>1
<1>8. sub[f] = sub[k] \union sub[t.kid[f][s]] \union {f} /\ Beside(sub[t.kid[f][s]], f, s)
  <2>1. Witness(t, f, sub, dep) /\ f # null
    BY ONLY <1>1, <1>2, <1>3, AvlAssumption
  <2> QED
    BY <2>1, WithinKid DEF Forks
<1> HIDE DEF k
<1>9. ASSUME NEW x \in sub[h], On(x, c, s) PROVE x = f \/ On(x, f, s)
  <2>1. CASE x \notin sub[f]
    BY <1>9, <2>1, SameSide
  <2>2. CASE x \in sub[k]
    <3>1. Sides3(x, c, c, s)
      BY ONLY <1>3, OnIs
    <3>2. ~On(x, c, -s)
      BY ONLY <1>9, <3>1 DEF Sides3
    <3>3. x = c
      BY ONLY <1>7, <2>2, <3>2 DEF Ends1
    <3>4. On(c, c, -s)
      BY <1>9, <3>1, <3>3 DEF Sides3
    <3> QED
      BY ONLY <3>2, <3>3, <3>4
  <2>3. CASE x \in sub[t.kid[f][s]]
    BY <1>8, <2>3 DEF Beside, On
  <2> QED
    BY ONLY <1>8, <2>1, <2>2, <2>3
<1> QED
  BY ONLY <1>3, <1>5, <1>9 DEF NextTo

\* The path j and a way further down, from its last node c towards side s and
\* then along the other one.
Further(o, j, c, s, more, A) ==
  /\ Roams(o, j) /\ c = Current(j) /\ s \in Side /\ more # <<>>
  /\ AlongOf(o, more, o.kid[c][s], -s, A)

FurtherPath(j, s, more) ==
  [path |-> j.path \o more,
   branch |-> j.branch \o [i \in DOMAIN more |-> IF i = 1 THEN s ELSE -s]]

FurtherIs(o, j, c, s, g) ==
  LET n == Len(j.path)
      f == Current(g)
  IN /\ Roams(o, g) /\ AtPlace(g.path, n, c, f) /\ n # Len(g.path)
     /\ g.branch[n] = s /\ \A i \in (n + 1)..(Len(g.path) - 1) : g.branch[i] = -s
     /\ o.kid[f][-s] = null

\* It is a path.
LEMMA FurtherDown ==
    ASSUME NEW o, NEW j, NEW c, NEW s, NEW more, NEW A, Further(o, j, c, s, more, A)
    PROVE  FurtherIs(o, j, c, s, FurtherPath(j, s, more))
<1> DEFINE q == j.path
           br == j.branch
           n == Len(q)
           l == Len(more)
           w == [i \in DOMAIN more |-> IF i = 1 THEN s ELSE -s]
           r == q \o more
           b2 == br \o w
           g == [path |-> r, branch |-> b2]
<1>1. /\ q \in Seq(Elem) /\ q # <<>> /\ q[1] = o.root /\ br \in Seq(Side) /\ Len(br) = n - 1
      /\ Trail(o, q, br) /\ c = q[n] /\ s \in Side /\ -s \in Side
      /\ more \in Seq(Elem) /\ l \in Nat /\ l # 0 /\ more[1] = o.kid[c][s]
      /\ o.kid[more[l]][-s] = null /\ \A i \in 1..(l - 1) : more[i + 1] = o.kid[more[i]][-s]
  BY Sides DEF Further, Roams, Current, LastOf, AlongOf
<1>2. n \in Nat /\ n # 0 /\ DOMAIN more = 1..l
  BY ONLY <1>1, LenProperties, EmptySeq
<1>3. w \in Seq(Side) /\ Len(w) = l /\ \A i \in 1..l : w[i] = IF i = 1 THEN s ELSE -s
  <2>1. w \in [1..l -> Side]
    BY ONLY <1>1, <1>2
  <2>2. w \in Seq(Side)
    BY ONLY <1>1, <2>1, SeqDef
  <2>3. DOMAIN w = 1..l /\ DOMAIN w = 1..Len(w) /\ Len(w) \in Nat
    BY ONLY <1>2, <2>2, LenProperties
  <2>4. Len(w) = l
    <3> HIDE DEF w, l
    <3> QED
      BY ONLY <1>1, <2>3
  <2> QED
    BY ONLY <1>2, <2>2, <2>4
<1>4. /\ r \in Seq(Elem) /\ Len(r) = n + l
      /\ \A i \in 1..(n + l) : r[i] = IF i <= n THEN q[i] ELSE more[i - n]
  BY <1>1, ConcatProperties
<1> HIDE DEF w
<1>5. /\ b2 \in Seq(Side) /\ Len(b2) = (n - 1) + l
      /\ \A i \in 1..((n - 1) + l) : b2[i] = IF i <= n - 1 THEN br[i] ELSE w[i - (n - 1)]
  <2>1. /\ b2 \in Seq(Side) /\ Len(b2) = Len(br) + Len(w)
        /\ \A i \in 1..(Len(br) + Len(w)) : b2[i] = IF i <= Len(br) THEN br[i] ELSE w[i - Len(br)]
    <3>1. br \in Seq(Side) /\ w \in Seq(Side)
      BY <1>1, <1>3
    <3> HIDE DEF br, w
    <3> QED
      BY <3>1, ConcatProperties
  <2>2. Len(br) = n - 1 /\ Len(w) = l
    BY ONLY <1>1, <1>3
  <2> HIDE DEF b2, br, n, l
  <2> QED
    BY ONLY <2>1, <2>2
<1>6. \A i \in 1..(n - 1) : br[i] \in Side /\ q[i + 1] = o.kid[q[i]][br[i]]
  BY <1>1 DEF Trail
<1> HIDE DEF q, br, n, l, r, b2
<1>7. b2[n] = s /\ \A i \in (n + 1)..(n + l - 1) : b2[i] = -s
  <2>1. n \in 1..((n - 1) + l) /\ ~(n <= n - 1) /\ n - (n - 1) = 1 /\ 1 \in 1..l
    BY <1>1, <1>2
  <2>2. b2[n] = s
    BY <1>3, <1>5, <2>1
  <2>3. ASSUME NEW i \in (n + 1)..(n + l - 1) PROVE b2[i] = -s
    <3>1. /\ i \in 1..((n - 1) + l) /\ ~(i <= n - 1)
          /\ i - (n - 1) \in 1..l /\ i - (n - 1) # 1
      BY <1>1, <1>2
    <3> QED
      BY <1>3, <1>5, <3>1
  <2> QED
    BY <2>2, <2>3
<1>8. Trail(o, r, b2)
  <2> SUFFICES ASSUME NEW i \in 1..(Len(r) - 1)
               PROVE  b2[i] \in Side /\ r[i + 1] = o.kid[r[i]][b2[i]]
    BY <1>4 DEF Trail
  <2>1. i \in 1..(n + l) /\ i + 1 \in 1..(n + l) /\ i \in Nat
    BY ONLY <1>1, <1>2, <1>4
  <2>2. CASE i < n
    <3>1. i \in 1..(n - 1) /\ i <= n /\ i + 1 <= n /\ i <= n - 1 /\ i \in 1..((n - 1) + l)
      BY ONLY <1>1, <1>2, <2>1, <2>2
    <3>2. r[i] = q[i] /\ r[i + 1] = q[i + 1] /\ b2[i] = br[i]
      BY ONLY <1>4, <1>5, <2>1, <3>1
    <3> QED
      BY ONLY <1>6, <3>1, <3>2
  <2>3. CASE i = n
    <3>1. i <= n /\ ~(i + 1 <= n) /\ (i + 1) - n = 1
      BY <1>2, <2>3
    <3>2. r[i] = c /\ r[i + 1] = more[1]
      BY <1>1, <1>4, <2>1, <2>3, <3>1
    <3> QED
      BY <1>1, <1>7, <2>3, <3>2
  <2>4. CASE i > n
    <3> DEFINE m == i - n
    <3>1. /\ ~(i <= n) /\ ~(i + 1 <= n) /\ (i + 1) - n = m + 1 /\ m \in 1..(l - 1)
          /\ i \in (n + 1)..(n + l - 1)
      BY <1>1, <1>2, <1>4, <2>1, <2>4
    <3>2. r[i] = more[m] /\ r[i + 1] = more[m + 1]
      BY ONLY <1>4, <2>1, <3>1
    <3> HIDE DEF m
    <3> QED
      BY <1>1, <1>7, <3>1, <3>2
  <2> QED
    BY <1>2, <2>1, <2>2, <2>3, <2>4
<1>9. r # <<>> /\ r[1] = o.root /\ Len(b2) = Len(r) - 1 /\ r[n] = c /\ r[Len(r)] = more[l]
  <2>1. /\ 1 \in 1..(n + l) /\ 1 <= n /\ n \in 1..(n + l) /\ n <= n /\ n + l \in 1..(n + l)
        /\ ~(n + l <= n) /\ (n + l) - n = l /\ (n - 1) + l = (n + l) - 1 /\ n + l # 0
    BY <1>1, <1>2
  <2>2. r[1] = q[1] /\ r[n] = q[n] /\ r[n + l] = more[l]
    BY <1>4, <2>1
  <2>3. r # <<>>
    BY ONLY <1>4, <2>1, EmptySeq
  <2> QED
    BY ONLY <1>1, <1>4, <1>5, <2>1, <2>2, <2>3
<1>10. g.path = r /\ g.branch = b2 /\ Current(g) = r[Len(r)]
  BY <1>9 DEF Current, LastOf
<1>11. Roams(o, g)
  BY ONLY <1>4, <1>5, <1>8, <1>9, <1>10 DEF Roams
<1>12. AtPlace(r, n, c, r[Len(r)]) /\ n # Len(r)
  <2>1. n \in 1..Len(r) /\ n # Len(r)
    BY <1>1, <1>2, <1>4
  <2> QED
    BY <1>9, <2>1 DEF AtPlace
<1>13. FurtherIs(o, j, c, s, g)
  <2> HIDE DEF g
  <2>1. \A i \in (n + 1)..(Len(r) - 1) : b2[i] = -s
    <3>1. Len(r) - 1 = n + l - 1
      BY ONLY <1>1, <1>2, <1>4
    <3> QED
      BY <1>7, <3>1
  <2>2. o.kid[r[Len(r)]][-s] = null
    BY <1>1, <1>9
  <2> QED
    BY <1>7, <1>10, <1>11, <1>12, <2>1, <2>2 DEF FurtherIs, n, q
<1>14. g = FurtherPath(j, s, more)
  BY DEF FurtherPath, r, b2, q, br, w
<1> QED
  BY ONLY <1>13, <1>14

\* A part of a path up to place b.
PartOf(j, b) == [path |-> SubSeq(j.path, 1, b), branch |-> SubSeq(j.branch, 1, b - 1)]

\* It is a path.
LEMMA PartRoams ==
    ASSUME NEW o, NEW j, Roams(o, j), NEW b \in 1..Len(j.path)
    PROVE  Roams(o, PartOf(j, b)) /\ Current(PartOf(j, b)) = j.path[b]
<1> DEFINE q == j.path
           br == j.branch
           n == Len(q)
           r == SubSeq(q, 1, b)
           b2 == SubSeq(br, 1, b - 1)
           g == PartOf(j, b)
<1>1. /\ q \in Seq(Elem) /\ q # <<>> /\ q[1] = o.root /\ br \in Seq(Side) /\ Len(br) = n - 1
      /\ Trail(o, q, br) /\ b \in 1..n
  BY DEF Roams
<1>2. /\ n \in Nat /\ (\A i \in 1..n : q[i] \in Elem)
      /\ \A i \in 1..(n - 1) : br[i] \in Side /\ q[i + 1] = o.kid[q[i]][br[i]]
  BY <1>1, LenProperties DEF Trail
<1>3. r \in Seq(Elem) /\ Len(r) = b /\ \A i \in 1..b : r[i] = q[i]
  <2>1. 1 \in Int /\ b \in Int /\ (\A i \in 1..b : q[i] \in Elem) /\ 1 <= b /\ b - 1 + 1 = b
    BY <1>1, <1>2
  <2>2. /\ r \in Seq(Elem) /\ Len(r) = (IF 1 <= b THEN b - 1 + 1 ELSE 0)
        /\ \A i \in 1..(b - 1 + 1) : r[i] = q[1 + i - 1]
    <3> HIDE DEF q
    <3> QED
      BY ONLY <2>1, SubSeqProperties
  <2>3. \A i \in 1..b : 1 + i - 1 = i
    OBVIOUS
  <2> HIDE DEF r
  <2> QED
    BY ONLY <2>1, <2>2, <2>3
<1>4. b2 \in Seq(Side) /\ Len(b2) = b - 1 /\ \A i \in 1..(b - 1) : b2[i] = br[i]
  <2> DEFINE d == b - 1
  <2>1. /\ 1 \in Int /\ d \in Int /\ (\A i \in 1..d : br[i] \in Side)
        /\ (IF 1 <= d THEN d - 1 + 1 ELSE 0) = d /\ d - 1 + 1 = d
    BY <1>1, <1>2
  <2> HIDE DEF d
  <2>2. /\ SubSeq(br, 1, d) \in Seq(Side) /\ Len(SubSeq(br, 1, d)) = (IF 1 <= d THEN d - 1 + 1 ELSE 0)
        /\ \A i \in 1..(d - 1 + 1) : SubSeq(br, 1, d)[i] = br[1 + i - 1]
    <3> HIDE DEF br
    <3> QED
      BY <2>1, SubSeqProperties
  <2>3. \A i \in 1..d : 1 + i - 1 = i
    BY <2>1
  <2> QED
    BY ONLY <2>1, <2>2, <2>3 DEF d
<1>5. g.path = r /\ g.branch = b2 /\ g = [path |-> g.path, branch |-> g.branch]
  BY DEF PartOf
<1> HIDE DEF q, br, n, r, b2, g
<1>6. Trail(o, r, b2)
  <2> SUFFICES ASSUME NEW i \in 1..(b - 1)
               PROVE  b2[i] \in Side /\ r[i + 1] = o.kid[r[i]][b2[i]]
    BY <1>3 DEF Trail
  <2>1. i \in 1..b /\ i + 1 \in 1..b /\ i \in 1..(n - 1)
    BY <1>1, <1>2
  <2> QED
    BY <1>2, <1>3, <1>4, <2>1
<1>7. r # <<>> /\ r[1] = o.root /\ Len(b2) = Len(r) - 1 /\ r[Len(r)] = q[b]
  <2>1. 1 \in 1..b /\ b \in 1..b /\ b # 0
    BY <1>1, <1>2
  <2> QED
    BY ONLY <1>1, <1>3, <1>4, <2>1, EmptySeq
<1>8. Roams(o, g) /\ Current(g) = q[b]
  BY <1>3, <1>4, <1>5, <1>6, <1>7 DEF Roams, Current, LastOf
<1> QED
  BY <1>8 DEF g, q

\* ++ and -- go to the next node, in a tree t that is like the tree o at the
\* node and below it on the side they go to.
LEMMA StepIs ==
    ASSUME NEW o \in Tree, NEW sub, NEW dep, Witness(o, o.root, sub, dep), NEW j, Roams(o, j),
           NEW c, c = Current(j), NEW s \in Side, NEW t \in Tree,
           Agree(o, t, sub[o.kid[c][s]] \union {c})
    PROVE  StepsTo(o, sub[o.root], c, s, Step(t, j, s))
<1> DEFINE q == j.path
           br == j.branch
           n == Len(q)
           k == o.kid[c][s]
           S == sub[o.root]
           more == Along(t, t.kid[c][s], -s)
           turns == {i \in DOMAIN br : br[i] = -s}
           back == CHOOSE i \in turns : \A l \in turns : l <= i
<1>1. /\ q \in Seq(Elem) /\ q # <<>> /\ q[1] = o.root /\ br \in Seq(Side) /\ Len(br) = n - 1
      /\ Trail(o, q, br) /\ c = q[n]
  BY DEF Roams, Current, LastOf
<1>2. n \in Nat /\ n # 0 /\ DOMAIN br = 1..(n - 1) /\ c \in Elem /\ n \in 1..n
  <2>1. n \in Nat /\ n # 0 /\ DOMAIN br = 1..(n - 1)
    BY <1>1, LenProperties, EmptySeq
  <2>2. n \in 1..n
    BY <2>1
  <2> QED
    BY ONLY <1>1, <2>1, <2>2, ElementOfSeq
<1>3. c \in S /\ Witness(o, c, sub, dep) /\ c # null
  <2>1. \A i \in 1..n : q[i] \in S /\ Witness(o, q[i], sub, dep)
    BY <1>1, TrailIn
  <2> QED
    BY <1>1, <1>2, <2>1, AvlAssumption
<1>4. t.kid[c] = o.kid[c] /\ Agree(o, t, sub[k])
  BY DEF Agree
<1>5. Witness(t, k, sub, dep)
  <2>1. Witness(o, k, sub, dep)
    BY ONLY <1>3, WithinKid DEF Forks
  <2> HIDE DEF k
  <2> QED
    BY ONLY <1>4, <2>1, Frame
<1>6. more = Along(t, k, -s) /\ -s \in Side /\ (-(-s)) = s
  BY ONLY <1>4, Sides
<1>7. AlongOf(t, more, k, -s, sub[k])
  <2> HIDE DEF more, k
  <2> QED
    BY ONLY <1>5, <1>6, AlongIs
<1>8. AlongOf(o, more, k, -s, sub[k])
  <2> HIDE DEF more, k
  <2>1. /\ more \in Seq(Elem) /\ Len(more) \in Nat /\ (more = <<>> <=> k = null)
        /\ (more = <<>> <=> Len(more) = 0)
        /\ more # <<>> => more[1] = k /\ t.kid[more[Len(more)]][-s] = null
        /\ \A i \in 1..(Len(more) - 1) : more[i + 1] = t.kid[more[i]][-s]
        /\ \A i \in 1..Len(more) : more[i] \in sub[k] /\ more[i] \in Elem
    BY <1>7 DEF AlongOf
  <2>2. \A i \in 1..Len(more) : t.kid[more[i]] = o.kid[more[i]]
    BY <1>4, <2>1 DEF Agree
  <2>3. /\ more # <<>> => Len(more) \in 1..Len(more)
        /\ \A i \in 1..(Len(more) - 1) : i \in 1..Len(more)
    BY <2>1
  <2>4. more # <<>> => o.kid[more[Len(more)]][-s] = null
    BY <2>1, <2>2, <2>3
  <2>5. \A i \in 1..(Len(more) - 1) : more[i + 1] = o.kid[more[i]][-s]
    BY <2>1, <2>2, <2>3
  <2> QED
    BY <2>1, <2>4, <2>5 DEF AlongOf
<1>9. Step(t, j, s) = IF more # <<>> THEN FurtherPath(j, s, more)
                      ELSE IF turns = {} THEN NullIter ELSE PartOf(j, back)
  BY <1>1 DEF Step, FurtherPath, PartOf
<1>10. CASE more # <<>>
  <2> DEFINE g == FurtherPath(j, s, more)
  <2>1. Further(o, j, c, s, more, sub[k])
    BY <1>8, <1>10 DEF Further
  <2>2. FurtherIs(o, j, c, s, g)
    <3> HIDE DEF more, k
    <3> QED
      BY ONLY <2>1, FurtherDown
  <2>3. Step(t, j, s) = g
    BY ONLY <1>9, <1>10
  <2> HIDE DEF g
  <2>4. /\ Roams(o, g) /\ AtPlace(g.path, n, c, Current(g)) /\ n # Len(g.path)
        /\ g.branch[n] = s /\ \A i \in (n + 1)..(Len(g.path) - 1) : g.branch[i] = -s
        /\ o.kid[Current(g)][-s] = null
    BY <2>2 DEF FurtherIs
  <2>5. Trail(o, g.path, g.branch) /\ g.path # <<>> /\ g.path[1] = o.root
    BY ONLY <2>4 DEF Roams
  <2>6. NextTo(S, c, s, Current(g))
    BY <2>4, <2>5, NextBelow, SMTT(30)
  <2> QED
    BY ONLY <2>3, <2>4, <2>6 DEF StepsTo
<1>11. CASE more = <<>> /\ turns = {}
  <2>1. o.kid[c][s] = null
    BY ONLY <1>8, <1>11 DEF AlongOf
  <2>2. \A i \in 1..(n - 1) : br[i] = s
    <3>1. \A i \in 1..(n - 1) : br[i] \in Side /\ br[i] # -s
      BY ONLY <1>1, <1>2, <1>11 DEF Trail
    <3> QED
      BY ONLY <3>1, Sides DEF Side
  <2>3. Ends1(sub[q[1]], q[n], -s)
    <3>1. 1 \in 1..n /\ o.kid[q[n]][s] = null
      BY <1>1, <1>2, <2>1
    <3> QED
      BY <1>1, <2>2, <3>1, FarEnd
  <2>4. ASSUME NEW x \in S, On(x, c, s) PROVE FALSE
    <3>1. x = c \/ On(x, c, -s)
      BY ONLY <1>1, <2>3 DEF Ends1
    <3>2. x \in Elem
      BY DEF Witness, Measures
    <3>3. Sides3(x, c, c, s)
      BY ONLY <1>2, <3>2, OnIs
    <3>4. x = c => On(x, c, -s)
      BY ONLY <2>4, <3>3 DEF Sides3
    <3> QED
      BY ONLY <2>4, <3>1, <3>3, <3>4 DEF Sides3
  <2>5. Step(t, j, s) = NullIter
    BY ONLY <1>9, <1>11
  <2> QED
    BY <2>4, <2>5 DEF StepsTo
<1>12. CASE more = <<>> /\ turns # {}
  <2>1. o.kid[c][s] = null
    BY ONLY <1>8, <1>12 DEF AlongOf
  <2>2. back \in turns /\ \A l \in turns : l <= back
    <3>1. turns \in SUBSET (1..(n - 1)) /\ n - 1 \in Nat
      BY <1>2
    <3> HIDE DEF turns
    <3> QED
      BY ONLY <1>12, <3>1, LastPlace
  <2>3. Step(t, j, s) = PartOf(j, back)
    BY ONLY <1>9, <1>12
  <2> HIDE DEF back
  <2>4. back \in 1..(n - 1) /\ br[back] = -s /\ back \in 1..n /\ back # n
    BY ONLY <1>2, <2>2
  <2>5. \A i \in (back + 1)..(n - 1) : br[i] = s
    <3> TAKE i \in (back + 1)..(n - 1)
    <3>1. i \in 1..(n - 1) /\ ~(i <= back)
      BY ONLY <1>2, <2>4
    <3>2. br[i] \in Side /\ br[i] # -s
      BY ONLY <1>1, <1>2, <2>2, <3>1 DEF Trail
    <3> QED
      BY <3>2, Sides DEF Side
  <2>6. Roams(o, PartOf(j, back)) /\ Current(PartOf(j, back)) = q[back]
    BY <2>4, PartRoams
  <2>7. AtPlace(q, back, q[back], c)
    BY ONLY <1>1, <2>4 DEF AtPlace
  <2>8. NextTo(S, c, s, q[back])
    <3> DEFINE h == o.root
               f == q[back]
    <3>1. Witness(o, h, sub, dep) /\ q[1] = h /\ f = q[back] /\ AtPlace(q, back, f, c)
      BY <1>1, <2>7
    <3>2. Trail(o, q, br) /\ q # <<>> /\ back # Len(q) /\ s \in Side /\ br[back] = -s
      BY <1>1, <2>4
    <3>3. (\A i \in (back + 1)..(Len(q) - 1) : br[i] = s) /\ o.kid[c][s] = null
      BY <2>1, <2>5
    <3> HIDE DEF h, f, q, br, n, k
    <3>4. NextTo(sub[h], c, s, f)
      BY ONLY <3>1, <3>2, <3>3, NextAbove
    <3> QED
      BY ONLY <3>4 DEF h, f
  <2> QED
    BY ONLY <2>3, <2>6, <2>8 DEF StepsTo
<1> QED
  BY <1>10, <1>11, <1>12

\* The sides taken on a way through a tree can be read off its nodes.
LEMMA BranchesAre ==
    ASSUME NEW t, NEW h, NEW sub, NEW dep, Witness(t, h, sub, dep), NEW q, NEW br,
           Trail(t, q, br), q # <<>>, q[1] = h
    PROVE  Roams(t, At(t, q)) \/ h # t.root
<1> DEFINE n == Len(q)
           b2 == Branches(t, q)
<1>1. n \in Nat /\ q \in Seq(Elem) /\ n # 0 /\ \A i \in 1..n : q[i] \in Elem
  BY LenProperties, EmptySeq DEF Trail
<1>2. Nested(sub, q, br) /\ \A i \in 1..n : Witness(t, q[i], sub, dep)
  BY TrailNested, TrailIn
<1>3. b2 = [i \in 1..(n - 1) |-> SideOf(q[i + 1] = t.kid[q[i]][greater])]
  BY DEF Branches
<1> HIDE DEF b2
<1>4. ASSUME NEW i \in 1..(n - 1) PROVE b2[i] = br[i] /\ br[i] \in Side /\ q[i + 1] = t.kid[q[i]][br[i]]
  <2>1. br[i] \in Side /\ q[i + 1] = t.kid[q[i]][br[i]]
    BY DEF Trail
  <2>2. b2[i] = SideOf(q[i + 1] = t.kid[q[i]][greater])
    BY <1>3
  <2>3. CASE br[i] = greater
    BY ONLY <2>1, <2>2, <2>3 DEF SideOf
  <2>4. CASE br[i] = less
    <3>1. i \in 1..n /\ i + 1 \in 1..n /\ i < i + 1
      BY <1>1
    <3> DEFINE g == q[i]
               x == q[i + 1]
    <3>2. x \in sub[x] /\ Beside(sub[x], g, less) /\ g \in Elem /\ x \in Elem
      BY <1>2, <2>4, <3>1 DEF Nested
    <3>3. On(x, g, less)
      BY <3>2 DEF Beside, On
    <3>4. greater \in Side /\ less \in Side /\ -less = greater
      BY <2>1, Sides
    <3>5. Forks(t, sub, dep, g, greater)
      BY ONLY <1>2, <3>1, <3>2, <3>4, WithinKid, AvlAssumption
    <3>6. x = t.kid[g][greater] => On(x, g, greater)
      BY <3>2, <3>5, Zenon DEF Forks, Beside, On
    <3> HIDE DEF g, x
    <3>7. Sides3(x, g, g, less)
      BY ONLY <3>2, <3>4, OnIs
    <3>8. x # t.kid[g][greater]
      BY <3>3, <3>4, <3>6, <3>7 DEF Sides3
    <3> QED
      BY <2>1, <2>2, <2>4, <3>8 DEF SideOf, g, x
  <2> QED
    BY ONLY <2>1, <2>3, <2>4 DEF Side
<1>5. b2 \in Seq(Side) /\ Len(b2) = n - 1
  <2>1. n - 1 \in Nat /\ DOMAIN b2 = 1..(n - 1)
    BY <1>1, <1>3
  <2>2. b2 \in [1..(n - 1) -> Side]
    BY <1>3, <1>4
  <2>3. b2 \in Seq(Side)
    BY <2>1, <2>2, SeqDef
  <2>4. Len(b2) \in Nat /\ DOMAIN b2 = 1..Len(b2)
    BY <2>3, LenProperties
  <2> HIDE DEF n
  <2> QED
    BY <2>1, <2>3, <2>4
<1>6. Trail(t, q, b2)
  BY <1>1, <1>4 DEF Trail
<1>7. At(t, q) = [path |-> q, branch |-> b2]
  BY DEF At, b2
<1> QED
  BY <1>1, <1>5, <1>6, <1>7 DEF Roams

\* An iterator at no node is the null one.
LEMMA AtNothing ==
    ASSUME NEW t
    PROVE  At(t, <<>>) = NullIter
<1> DEFINE f == Branches(t, <<>>)
<1>1. Len(<<>>) = 0 /\ <<>> \in Seq(Side)
  BY EmptySeq
<1>2. f \in [1..0 -> Side]
  <2>1. f = [i \in 1..(Len(<<>>) - 1) |-> SideOf(<<>>[i + 1] = t.kid[<<>>[i]][greater])]
    BY DEF Branches
  <2>2. 1..(Len(<<>>) - 1) = 1..0 /\ \A i \in 1..0 : FALSE
    BY <1>1
  <2> HIDE DEF f
  <2> QED
    BY <2>1, <2>2
<1> HIDE DEF f
<1>3. f \in Seq(Side) /\ DOMAIN f = 1..0
  BY <1>2, SeqDef
<1>4. Len(f) = 0
  BY <1>3, LenProperties
<1>5. f = <<>>
  BY <1>3, <1>4, EmptySeq
<1> QED
  BY <1>5 DEF At, NullIter, f

\* Where an iterator comes to that is not moved along: nowhere, or to a node.
Arrives(t, j) == j = NullIter \/ Roams(t, j)

\* start_iter() puts the iterator where search() ends.
LEMMA StartIs ==
    ASSUME NEW t \in Tree, NEW sub, NEW dep, Witness(t, t.root, sub, dep),
           NEW k \in Nat, NEW st \in SearchType
    PROVE  Arrives(t, StartIter(t, k, st)) /\ Current(StartIter(t, k, st)) = Search(t, k, st)
<1> DEFINE q == Descent(t, k, st)
           m == Match(t, k, st)
           r == SubSeq(q, 1, m)
<1>1. MatchIs(m, q, sub[t.root], k, st)
  BY MatchEnds
<1>2. Down(t, q, k, st)
  BY DescentIs
<1>3. Search(t, k, st) = (IF m = 0 THEN null ELSE q[m]) /\ StartIter(t, k, st) = At(t, r)
  BY DEF Search, StartIter
<1> HIDE DEF q, m
<1>4. q \in Seq(Elem) /\ Len(q) \in Nat /\ m \in 0..Len(q) /\ (\A i \in 1..Len(q) : q[i] \in Elem)
      /\ (q # <<>> => q[1] = t.root) /\ (Len(q) # 0 => q # <<>>)
  <2>1. Len(<<>>) = 0
    BY EmptySeq
  <2> QED
    BY <1>1, <1>2, <2>1, LenProperties DEF MatchIs, Down
<1>5. CASE m = 0
  <2>1. r = <<>>
    <3>1. 1 \in Int /\ m \in Int /\ m < 1
      BY <1>5
    <3> QED
      BY ONLY <3>1, SubSeqEmpty
  <2>2. StartIter(t, k, st) = NullIter
    BY <1>3, <2>1, AtNothing
  <2> QED
    BY ONLY <1>3, <1>5, <2>2 DEF Arrives, Current, NullIter
<1>6. CASE m # 0
  <2>1. m \in 1..Len(q) /\ q # <<>> /\ 1 \in 1..m /\ m \in 1..m /\ m \in Nat
    BY <1>4, <1>6
  <2>2. r \in Seq(Elem) /\ Len(r) = m /\ \A i \in 1..m : r[i] = q[i]
    <3>1. /\ 1 \in Int /\ m \in Int /\ (\A i \in 1..m : q[i] \in Elem) /\ 1 <= m
          /\ m - 1 + 1 = m /\ (\A i \in 1..m : 1 + i - 1 = i)
      BY ONLY <1>4, <2>1
    <3>2. /\ r \in Seq(Elem) /\ Len(r) = (IF 1 <= m THEN m - 1 + 1 ELSE 0)
          /\ \A i \in 1..(m - 1 + 1) : r[i] = q[1 + i - 1]
      BY <3>1, SubSeqProperties
    <3> HIDE DEF r
    <3> QED
      BY ONLY <3>1, <3>2
  <2> HIDE DEF r
  <2> DEFINE br == [i \in 1..Len(q) |-> Turn(q[i], k, st)]
  <2>3. Trail(t, q, br)
    BY <1>2, DownTrail
  <2>4. Trail(t, r, br)
    <3> HIDE DEF br
    <3>1. \A i \in 1..(m - 1) : i \in 1..(Len(q) - 1) /\ i \in 1..m /\ i + 1 \in 1..m
      BY <1>4, <2>1
    <3> QED
      BY <2>2, <2>3, <3>1 DEF Trail
  <2>5. r # <<>> /\ r[1] = t.root /\ r[Len(r)] = q[m]
    <3>1. r # <<>>
      BY ONLY <1>6, <2>2, EmptySeq
    <3> QED
      BY ONLY <1>4, <2>1, <2>2, <3>1
  <2> HIDE DEF br
  <2>6. Roams(t, At(t, r))
    BY <2>4, <2>5, BranchesAre
  <2>7. Current(At(t, r)) = q[m]
    BY <2>5 DEF At, Current, LastOf
  <2> QED
    BY <1>3, <1>6, <2>6, <2>7 DEF Arrives
<1> QED
  BY <1>5, <1>6

\* start_iter_least() and start_iter_greatest() put the iterator at the node
\* search_least() or search_greatest() answers with, and there is nothing on
\* that side of it.
LEMMA StartExtremeIs ==
    ASSUME NEW t \in Tree, NEW sub, NEW dep, Witness(t, t.root, sub, dep), NEW s \in Side
    PROVE  /\ Arrives(t, StartExtreme(t, s)) /\ Current(StartExtreme(t, s)) = Extreme(t, s)
           /\ \A x \in sub[t.root] : ~On(x, Extreme(t, s), s)
<1> DEFINE q == Along(t, t.root, s)
           n == Len(q)
           br == [i \in 1..n |-> s]
<1>1. AlongOf(t, q, t.root, s, sub[t.root])
  BY AlongIs
<1>2. StartExtreme(t, s) = At(t, q) /\ Extreme(t, s) = IF q = <<>> THEN null ELSE q[n]
  BY DEF StartExtreme, Extreme, LastOf
<1> HIDE DEF q
<1>3. /\ q \in Seq(Elem) /\ n \in Nat /\ (q = <<>> <=> t.root = null) /\ (q = <<>> <=> n = 0)
      /\ q # <<>> => q[1] = t.root /\ t.kid[q[n]][s] = null
      /\ \A i \in 1..(n - 1) : q[i + 1] = t.kid[q[i]][s]
      /\ \A i \in 1..n : q[i] \in Elem
  BY <1>1 DEF AlongOf
<1>4. CASE q = <<>>
  <2>1. StartExtreme(t, s) = NullIter /\ Extreme(t, s) = null
    BY ONLY <1>2, <1>4, AtNothing
  <2>2. sub[t.root] = {}
    BY <1>3, <1>4 DEF Witness, Measures
  <2> QED
    BY ONLY <2>1, <2>2 DEF Arrives, Current, NullIter
<1>5. CASE q # <<>>
  <2>1. n # 0 /\ n \in 1..n /\ 1 \in 1..n /\ \A i \in 1..(n - 1) : i \in 1..n
    BY <1>3, <1>5
  <2>2. (\A i \in 1..n : br[i] = s) /\ \A i \in 1..(n - 1) : br[i] = s
    BY <2>1
  <2> HIDE DEF br
  <2>3. Trail(t, q, br)
    BY <1>3, <2>2 DEF Trail
  <2>4. Roams(t, At(t, q)) /\ Current(At(t, q)) = q[n]
    BY <1>3, <1>5, <2>3, BranchesAre DEF At, Current, LastOf
  <2> DEFINE e == q[n]
  <2>5. Ends1(sub[q[1]], q[n], -s)
    BY <1>3, <1>5, <2>1, <2>2, <2>3, FarEnd
  <2>6. e \in Elem /\ e \in sub[t.root] /\ sub[t.root] \in SUBSET Elem
    <3>1. q[n] \in sub[t.root]
      BY ONLY <1>1, <2>1 DEF AlongOf
    <3> QED
      BY <1>3, <2>1, <3>1 DEF Witness, Measures
  <2>7. Ends1(sub[t.root], e, -s)
    BY ONLY <1>3, <1>5, <2>5
  <2> HIDE DEF e
  <2>8. ASSUME NEW x \in sub[t.root], On(x, e, s) PROVE FALSE
    <3>1. Sides3(x, e, e, s)
      BY <2>6, OnIs
    <3>2. x = e => On(x, e, -s)
      BY <2>8, <3>1 DEF Sides3
    <3> QED
      BY ONLY <2>7, <2>8, <3>1, <3>2 DEF Ends1, Sides3
  <2> QED
    BY ONLY <1>2, <1>5, <2>4, <2>8 DEF Arrives, e
<1> QED
  BY ONLY <1>4, <1>5

\* The node g is no nearer than f on side s.
NoNearer(g, f, s) == (KeyOf[g] - KeyOf[f]) * s >= 0

\* A node on a side of another is not the nearest one there unless it is
\* that one.
LEMMA NoNearerIs ==
    ASSUME NEW f \in Elem, NEW g \in Elem, NEW s \in Side
    PROVE  NoNearer(f, f, s) /\ (On(g, f, s) => NoNearer(g, f, s) /\ ~NoNearer(f, g, s))
<1>1. s = 1 \/ s = -1
  BY DEF Side, less, greater
<1> DEFINE a == KeyOf[f]
           b == KeyOf[g]
<1>2. a \in Int /\ b \in Int
  BY KeyIs
<1>3. On(g, f, s) <=> Sign(b - a) = s
  BY DEF On
<1>4. /\ NoNearer(f, f, s) <=> (a - a) * s >= 0
      /\ NoNearer(g, f, s) <=> (b - a) * s >= 0
      /\ NoNearer(f, g, s) <=> (a - b) * s >= 0
  BY DEF NoNearer
<1> HIDE DEF a, b
<1>5. (Sign(b - a) = 1 <=> a < b) /\ (Sign(b - a) = -1 <=> b < a)
  BY <1>2, SignIs
<1>6. CASE s = 1
  <2>1. /\ (a - a) * 1 >= 0
        /\ a < b => (b - a) * 1 >= 0 /\ ~((a - b) * 1 >= 0)
    BY ONLY <1>2
  <2> QED
    BY <1>3, <1>4, <1>5, <1>6, <2>1
<1>7. CASE s = -1
  <2>1. /\ (a - a) * (-1) >= 0
        /\ b < a => (b - a) * (-1) >= 0 /\ ~((a - b) * (-1) >= 0)
    BY <1>2
  <2> QED
    BY ONLY <1>3, <1>4, <1>5, <1>7, <2>1
<1> QED
  BY ONLY <1>1, <1>6, <1>7

\* The next node in order is what Neighbour says.
LEMMA NeighbourIs ==
    ASSUME inside \in SUBSET Elem, NEW e \in Elem, NEW s \in Side
    PROVE  /\ \A f : NextTo(inside, e, s, f) => Neighbour(e, s) = f
           /\ (\A x \in inside : ~On(x, e, s)) => Neighbour(e, s) = null
<1> DEFINE beyond == {f \in inside : On(f, e, s)}
           f1 == CHOOSE f \in beyond : \A g \in beyond : NoNearer(g, f, s)
<1>1. Neighbour(e, s) = IF beyond = {} THEN null ELSE f1
  BY DEF Neighbour, On, NoNearer
<1>2. ASSUME NEW f, NextTo(inside, e, s, f) PROVE Neighbour(e, s) = f
  <2>1. f \in beyond /\ f \in Elem /\ \A x \in beyond : x = f \/ On(x, f, s)
    BY <1>2 DEF NextTo
  <2>2. \A x \in beyond : x \in Elem
    OBVIOUS
  <2>3. \A g \in beyond : NoNearer(g, f, s)
    BY ONLY <2>1, <2>2, NoNearerIs
  <2>4. f1 \in beyond /\ \A g \in beyond : NoNearer(g, f1, s)
    <3> HIDE DEF beyond
    <3> QED
      BY <2>1, <2>3
  <2> HIDE DEF f1
  <2>5. NoNearer(f, f1, s) /\ f1 \in Elem
    BY ONLY <2>1, <2>2, <2>4
  <2>6. f1 = f
    BY ONLY <2>1, <2>4, <2>5, NoNearerIs
  <2> QED
    BY ONLY <1>1, <2>1, <2>6
<1>3. ASSUME \A x \in inside : ~On(x, e, s) PROVE Neighbour(e, s) = null
  BY <1>1, <1>3
<1> QED
  BY <1>2, <1>3

-----------------------------------------------------------------------------
(* The invariant.                                                            *)

\* What a last iteration to side s has passed when the iterator is at j.
Passed(S, j, s) == IF j = NullIter THEN S ELSE {x \in S : On(x, Current(j), -s)}

\* The tree o is the one the caller has built, of the nodes it has put in.  It
\* is the tree, but for the nodes that a last iteration has freed: those the
\* iterator has passed.
Tended(o) ==
  /\ Holds(o, inside) /\ tree \in Tree /\ marching \in Side \union {0} /\ Arrives(o, it)
  /\ marching = 0 => tree = o /\ freed = {}
  /\ marching # 0 => Agree(o, tree, inside \ freed) /\ freed = Passed(inside, it, marching)

\* The inductive invariant.
AvlInv == \E o : Tended(o)

\* Zero is no side.
LEMMA NoSide == 0 \notin Side /\ 0 \in Int
BY DEF Side, less, greater

\* Where the iterator is, and the tree around it.
AtNode(o, sub, dep, c) ==
  /\ o \in Tree /\ Witness(o, o.root, sub, dep) /\ sub[o.root] = inside
  /\ inside \in SUBSET Elem /\ Roams(o, it) /\ c = Current(it) /\ c \in inside /\ c \in Elem
  /\ it # NullIter

\* An iterator that is not null is at the node its path ends with.
LEMMA AtNodeIs ==
    ASSUME NEW o, Tended(o), it # NullIter \/ it.path # <<>>
    PROVE  \E sub, dep : AtNode(o, sub, dep, Current(it))
<1>1. NullIter.path = <<>>
  BY DEF NullIter
<1>2. Roams(o, it) /\ it # NullIter
  BY <1>1 DEF Tended, Arrives
<1>3. Holds(o, inside)
  BY DEF Tended
<1>4. PICK sub, dep : Witness(o, o.root, sub, dep) /\ sub[o.root] = inside
  BY <1>3, HoldsIs
<1>5. inside \in SUBSET Elem /\ o \in Tree
  BY <1>3, HoldsIs
<1> DEFINE q == it.path
<1>6. q \in Seq(Elem) /\ q # <<>> /\ q[1] = o.root /\ Trail(o, q, it.branch) /\ Current(it) = q[Len(q)]
  BY <1>2 DEF Roams, Current, LastOf
<1>7. Len(q) \in 1..Len(q)
  <2>1. Len(q) \in Nat /\ Len(q) # 0
    BY <1>6, LenProperties, EmptySeq
  <2> HIDE DEF q
  <2> QED
    BY <2>1
<1>8. q[Len(q)] \in sub[o.root]
  <2> HIDE DEF q
  <2> QED
    BY <1>4, <1>6, <1>7, TrailIn
<1>9. AtNode(o, sub, dep, Current(it))
  BY <1>2, <1>4, <1>5, <1>6, <1>8 DEF AtNode
<1> QED
  BY <1>9

\* The tree is as it was at the iterator and on the side it may go to.
LEMMA SoundAhead ==
    ASSUME NEW o, Tended(o), NEW sub, NEW dep, NEW c, AtNode(o, sub, dep, c),
           NEW s \in Side, s = marching \/ marching = 0
    PROVE  StepsTo(o, inside, c, s, Step(tree, it, s))
<1>1. /\ o \in Tree /\ Witness(o, o.root, sub, dep) /\ sub[o.root] = inside
      /\ inside \in SUBSET Elem /\ Roams(o, it) /\ c = Current(it) /\ c \in inside /\ c \in Elem
      /\ it # NullIter
  BY DEF AtNode
<1> DEFINE k == o.kid[c][s]
<1>2. Witness(o, c, sub, dep) /\ sub[c] \subseteq inside /\ c # null
  BY <1>1, Within, AvlAssumption
<1>3. sub[k] \subseteq inside /\ Beside(sub[k], c, s)
  <2>1. Forks(o, sub, dep, c, s)
    BY <1>2, WithinKid
  <2> QED
    BY ONLY <1>2, <2>1 DEF Forks
<1> HIDE DEF k
<1>4. Agree(o, tree, sub[k] \union {c})
  <2>1. CASE marching = 0
    BY <2>1 DEF Tended, Agree
  <2>2. CASE marching # 0
    <3>1. Agree(o, tree, inside \ freed) /\ freed = {x \in inside : On(x, c, -s)}
      BY <1>1, <2>2 DEF Tended, Passed
    <3>2. ASSUME NEW x \in sub[k] \union {c} PROVE x \in inside \ freed
      <4>1. x \in inside /\ x \in Elem
        BY <1>1, <1>3
      <4>2. Sides3(x, c, c, s)
        BY ONLY <1>1, <4>1, OnIs
      <4>3. ~On(x, c, -s)
        <5>1. CASE x = c
          <6>1. -s \in Side /\ -(-s) = s
            BY Sides
          <6>2. Sides3(c, c, c, -s)
            BY <1>1, <6>1, OnIs
          <6> QED
            BY <5>1, <6>1, <6>2 DEF Sides3
        <5>2. CASE x \in sub[k]
          BY <1>3, <4>2, <5>2 DEF Beside, On, Sides3
        <5> QED
          BY ONLY <3>2, <5>1, <5>2
      <4> QED
        BY <3>1, <4>1, <4>3
    <3> QED
      BY ONLY <3>1, <3>2 DEF Agree
  <2> QED
    BY ONLY <2>1, <2>2
<1>5. tree \in Tree
  BY DEF Tended
<1> QED
  BY ONLY <1>1, <1>4, <1>5, StepIs DEF k

\* An iterator is at no node if it is null.
LEMMA NowhereIs == Current(NullIter) = null
BY DEF NullIter, Current

\* In a tree so tended the iterator goes to the neighbours of its node.
LEMMA TendedIterates ==
    ASSUME NEW o, Tended(o)
    PROVE  IterInOrder
<1>1. ASSUME marching = 0, NEW k \in Key, NEW st \in SearchType
      PROVE  Current(StartIter(tree, k, st)) = Answer(k, st)
  <2>1. k \in Nat
    BY KeyIs DEF Key
  <2>2. Holds(tree, inside)
    BY <1>1 DEF Tended
  <2>3. PICK sub, dep : Witness(tree, tree.root, sub, dep) /\ tree \in Tree
    BY <2>2, HoldsIs
  <2> QED
    BY <2>1, <2>2, <2>3, StartIs, SearchAnswers
<1>2. ASSUME it # NullIter, NEW s \in Side, s = marching \/ marching = 0
      PROVE  Current(Step(tree, it, s)) = Neighbour(Current(it), s)
  <2> DEFINE c == Current(it)
             j == Step(tree, it, s)
  <2>1. PICK sub, dep : AtNode(o, sub, dep, c)
    BY <1>2, AtNodeIs
  <2>2. c \in Elem /\ inside \in SUBSET Elem
    BY <2>1 DEF AtNode
  <2>3. StepsTo(o, inside, c, s, j)
    BY <1>2, <2>1, SoundAhead
  <2> HIDE DEF c, j
  <2>4. CASE NextTo(inside, c, s, Current(j))
    BY ONLY <2>2, <2>4, NeighbourIs DEF c, j
  <2>5. CASE j = NullIter /\ \A x \in inside : ~On(x, c, s)
    <3>1. Neighbour(c, s) = null
      BY <2>2, <2>5, NeighbourIs
    <3> QED
      BY ONLY <2>5, <3>1, NowhereIs DEF c, j
  <2> QED
    BY ONLY <2>3, <2>4, <2>5 DEF StepsTo
<1> QED
  BY <1>1, <1>2 DEF IterInOrder

\* No node freed is still to come.
LEMMA TendedFrees ==
    ASSUME NEW o, Tended(o)
    PROVE  MarchFreesAll
<1> SUFFICES ASSUME marching # 0
             PROVE  Current(it) \notin freed /\ (it = NullIter => freed = inside)
  BY DEF MarchFreesAll
<1>1. freed = Passed(inside, it, marching) /\ marching \in Side
  BY DEF Tended
<1>2. CASE it = NullIter
  <2>1. inside \in SUBSET Elem
    BY HoldsIs DEF Tended
  <2>2. freed = inside
    BY <1>1, <1>2 DEF Passed
  <2> QED
    BY <1>2, <2>1, <2>2, NowhereIs, AvlAssumption
<1>3. CASE it # NullIter
  <2> DEFINE c == Current(it)
  <2>1. PICK sub, dep : AtNode(o, sub, dep, c)
    BY <1>3, AtNodeIs
  <2>2. c \in Elem
    BY <2>1 DEF AtNode
  <2> HIDE DEF c
  <2>3. freed = {x \in inside : On(x, c, -marching)}
    BY <1>1, <1>3 DEF Passed, c
  <2>4. -marching \in Side /\ -(-marching) = marching
    BY <1>1, Sides
  <2>5. Sides3(c, c, c, -marching)
    BY <2>2, <2>4, OnIs
  <2>6. ~On(c, c, -marching)
    BY <2>4, <2>5 DEF Sides3
  <2> QED
    BY <1>3, <2>3, <2>6 DEF c
<1> QED
  BY ONLY <1>2, <1>3

\* A tree that is changed for one of the nodes said is so tended.
LEMMA TendedAnew ==
    ASSUME Holds(tree', inside'), it' = NullIter, freed' = {}, marching' = 0
    PROVE  AvlInv'
<1>1. PICK o : o = tree'
  OBVIOUS
<1>2. Holds(o, inside') /\ o \in Tree
  BY <1>1, HoldsIs
<1>3. Tended(o)'
  BY <1>1, <1>2 DEF Tended, Arrives
<1> QED
  BY <1>3 DEF AvlInv

\* While no last iteration is under way the tree holds the nodes put in.
LEMMA TendedTree ==
    ASSUME AvlInv, marching = 0
    PROVE  Holds(tree, inside) /\ freed = {} /\ inside \in SUBSET Elem /\ tree \in Tree
<1>1. PICK o : Tended(o)
  BY DEF AvlInv
<1>2. Holds(tree, inside) /\ freed = {}
  BY <1>1 DEF Tended
<1> QED
  BY <1>2, HoldsIs

\* What an operation that changes the tree has to do.
LEMMA BecomesKeeps ==
    ASSUME AvlInv, NEW t, NEW S, Holds(t, S), Becomes(t, S)
    PROVE  AvlInv'
<1>1. tree' = t /\ inside' = S /\ it' = NullIter /\ marching' = 0 /\ freed' = freed /\ marching = 0
  BY DEF Becomes
<1>2. freed' = {}
  BY <1>1, TendedTree
<1>3. Holds(tree', inside')
  BY <1>1
<1> QED
  BY <1>1, <1>2, <1>3, TendedAnew

\* The node found by search() for an equal key.
LEMMA FoundIs ==
    ASSUME Holds(tree, inside), NEW k \in Nat
    PROVE  /\ Found(k) = null => \A x \in inside : KeyOf[x] # k
           /\ Found(k) # null => Found(k) \in inside /\ KeyOf[Found(k)] = k
<1> DEFINE st == "equal"
<1>1. st \in SearchType /\ \A S : Fit(S, k, st) = {e \in S : KeyOf[e] = k}
  BY DEF SearchType, Fit, TargetCmp, Equal
<1>2. PICK sub, dep : Witness(tree, tree.root, sub, dep) /\ sub[tree.root] = inside /\ tree \in Tree
  BY HoldsIs
<1>3. SearchIs(Found(k), inside, k, st)
  <2>1. Found(k) = Search(tree, k, st)
    BY DEF Found
  <2> HIDE DEF st
  <2> QED
    BY <1>1, <1>2, <2>1, SearchEnds
<1> HIDE DEF st
<1> QED
  BY ONLY <1>1, <1>3, AvlAssumption DEF SearchIs, Best

\* insert()
LEMMA InsertKeeps ==
    ASSUME AvlInv, NEW h \in Elem, InsertNode(h)
    PROVE  AvlInv'
<1> DEFINE k == KeyOf[h]
           t == Insert(tree, h)
           S == IF Found(k) = null THEN inside \union {h} ELSE inside
<1>1. h \notin inside /\ Becomes(t, S) /\ marching = 0
  BY DEF InsertNode, Becomes
<1>2. Holds(tree, inside) /\ k \in Nat
  BY <1>1, TendedTree, KeyIs
<1>3. Holds(t, IF \E x \in inside : KeyOf[x] = k THEN inside ELSE inside \union {h})
  BY ONLY <1>1, <1>2, InsertSound
<1>4. (\E x \in inside : KeyOf[x] = k) <=> Found(k) # null
  <2> HIDE DEF k
  <2> QED
    BY <1>2, FoundIs
<1>5. Holds(t, S)
  <2> HIDE DEF k, t
  <2> QED
    BY ONLY <1>3, <1>4
<1> HIDE DEF k, t, S
<1> QED
  BY <1>1, <1>5, BecomesKeeps

\* remove()
LEMMA RemoveKeeps ==
    ASSUME AvlInv, NEW k \in Nat, RemoveKey(k)
    PROVE  AvlInv'
<1> DEFINE t == Remove(tree, k)
           S == inside \ {Found(k)}
<1>1. Becomes(t, S) /\ marching = 0
  BY DEF RemoveKey, Becomes
<1>2. Holds(tree, inside) /\ inside \in SUBSET Elem
  BY <1>1, TendedTree
<1>3. /\ (\A x \in inside : KeyOf[x] # k) => t = tree
      /\ \A x \in inside : KeyOf[x] = k => Holds(t, inside \ {x})
  BY <1>2, RemoveSound
<1> HIDE DEF t
<1>4. CASE Found(k) = null
  <2>1. S = inside /\ t = tree
    BY ONLY <1>2, <1>3, <1>4, FoundIs, AvlAssumption
  <2> QED
    BY <1>1, <1>2, <2>1, BecomesKeeps
<1>5. CASE Found(k) # null
  <2>1. Holds(t, S)
    BY ONLY <1>2, <1>3, <1>5, FoundIs
  <2> HIDE DEF S
  <2> QED
    BY <1>1, <2>1, BecomesKeeps
<1> QED
  BY <1>4, <1>5

\* subst()
LEMMA SubstKeeps ==
    ASSUME AvlInv, NEW h \in Elem, SubstNode(h)
    PROVE  AvlInv'
<1> DEFINE k == KeyOf[h]
           old == Found(k)
           t == Subst(tree, h)
           S == IF old = null THEN inside ELSE (inside \ {old}) \union {h}
<1>1. h \notin inside /\ Becomes(t, S) /\ marching = 0
  BY DEF SubstNode, Becomes
<1>2. Holds(tree, inside) /\ k \in Nat
  BY <1>1, TendedTree, KeyIs
<1>3. /\ (\A x \in inside : KeyOf[x] # k) => t = tree
      /\ \A x \in inside : KeyOf[x] = k => Holds(t, (inside \ {x}) \union {h})
  BY <1>1, <1>2, SubstSound
<1>4. /\ old = null => \A x \in inside : KeyOf[x] # k
      /\ old # null => old \in inside /\ KeyOf[old] = k
  <2> HIDE DEF k
  <2> QED
    BY <1>2, FoundIs
<1> HIDE DEF k, old, t
<1>5. Holds(t, S)
  <2>1. CASE old = null
    BY ONLY <1>2, <1>3, <1>4, <2>1
  <2>2. CASE old # null
    BY <1>3, <1>4, <2>2
  <2> QED
    BY <2>1, <2>2
<1> HIDE DEF S
<1> QED
  BY <1>1, <1>5, BecomesKeeps

\* build()
LEMMA BuildKeeps ==
    ASSUME AvlInv, NEW S \in SUBSET Elem, BuildTree(S)
    PROVE  AvlInv'
<1>1. Distinct(S) /\ Becomes(Build(tree, InKeyOrder(S)), S) /\ marching = 0
  BY DEF BuildTree, Becomes
<1>2. tree \in Tree
  BY <1>1, TendedTree
<1>3. Holds(Build(tree, InKeyOrder(S)), S)
  BY ONLY <1>1, <1>2, BuildSound
<1> QED
  BY <1>1, <1>3, BecomesKeeps

\* purge()
LEMMA PurgeKeeps ==
    ASSUME AvlInv, PurgeTree
    PROVE  AvlInv'
<1>1. /\ tree' = Purge(tree) /\ inside' = {} /\ it' = NullIter /\ freed' = {} /\ marching' = 0
  BY DEF PurgeTree
<1>2. tree \in Tree
  BY DEF AvlInv, Tended
<1>3. Holds(tree', inside')
  BY <1>1, <1>2, PurgeSound
<1> QED
  BY ONLY <1>1, <1>3, TendedAnew

\* An iterator that is moved in a tree at rest.
LEMMA MovesKeeps ==
    ASSUME AvlInv, NEW i, Arrives(tree, i), Moves(i)
    PROVE  AvlInv'
<1>1. /\ marching = 0 /\ it' = i /\ tree' = tree /\ inside' = inside /\ freed' = freed
      /\ marching' = marching
  BY DEF Moves
<1>2. Holds(tree, inside) /\ freed = {} /\ tree \in Tree
  BY <1>1, TendedTree
<1>3. PICK o : o = tree
  OBVIOUS
<1>4. Tended(o)'
  BY <1>1, <1>2, <1>3 DEF Tended
<1> QED
  BY <1>4 DEF AvlInv

\* Where a step takes the iterator, it may be.
LEMMA StepsArrive ==
    ASSUME NEW o, NEW S, NEW c, NEW s, NEW j, StepsTo(o, S, c, s, j)
    PROVE  Arrives(o, j)
BY DEF StepsTo, Arrives

\* The actions that move the iterator.
LEMMA IterKeeps ==
    ASSUME AvlInv, marching = 0,
           \/ \E k \in Nat, st \in SearchType : StartAt(k, st)
           \/ \E s \in Side : StartAtEnd(s)
           \/ \E s \in Side : StepIter(s)
    PROVE  AvlInv'
<1>1. PICK o : Tended(o)
  BY DEF AvlInv
<1>2. o = tree /\ Holds(tree, inside)
  BY <1>1 DEF Tended
<1>3. PICK sub, dep : Witness(tree, tree.root, sub, dep) /\ tree \in Tree
  BY <1>2, HoldsIs
<1>4. ASSUME NEW k \in Nat, NEW st \in SearchType, StartAt(k, st) PROVE AvlInv'
  <2>1. Arrives(tree, StartIter(tree, k, st)) /\ Moves(StartIter(tree, k, st))
    BY <1>3, <1>4, StartIs DEF StartAt
  <2> QED
    BY <2>1, MovesKeeps
<1>5. ASSUME NEW s \in Side, StartAtEnd(s) PROVE AvlInv'
  <2>1. Arrives(tree, StartExtreme(tree, s)) /\ Moves(StartExtreme(tree, s))
    BY <1>3, <1>5, StartExtremeIs DEF StartAtEnd
  <2> QED
    BY <2>1, MovesKeeps
<1>6. ASSUME NEW s \in Side, StepIter(s) PROVE AvlInv'
  <2> DEFINE c == Current(it)
             j == Step(tree, it, s)
  <2>1. it.path # <<>> /\ Moves(j)
    BY <1>6 DEF StepIter
  <2>2. PICK sub2, dep2 : AtNode(o, sub2, dep2, c)
    BY <1>1, <2>1, AtNodeIs
  <2>3. StepsTo(o, inside, c, s, j)
    BY <1>1, <2>2, SoundAhead
  <2> HIDE DEF c, j
  <2>4. Arrives(tree, j)
    BY ONLY <1>2, <2>3, StepsArrive
  <2> QED
    BY <2>1, <2>4, MovesKeeps
<1> QED
  BY <1>4, <1>5, <1>6

\* A round of a last iteration to side s, from the node c.
MarchKept(o, s, c, j) ==
  /\ freed \union {c} = Passed(inside, j, s) /\ Arrives(o, j)
  /\ Leaf(tree, c) \in Tree /\ Agree(o, Leaf(tree, c), inside \ (freed \union {c}))

\* A step of a march to an end that frees each node it leaves keeps what is
\* ahead of it sound.
LEMMA MarchIs ==
    ASSUME NEW o, Tended(o), NEW s \in Side, it.path # <<>>, NEW c, c = Current(it),
           marching = s \/ (marching = 0 /\ c = Extreme(tree, -s))
    PROVE  MarchKept(o, s, c, Step(tree, it, s))
<1> DEFINE j == Step(tree, it, s)
<1>1. PICK sub, dep : AtNode(o, sub, dep, c)
  BY AtNodeIs
<1>2. /\ o \in Tree /\ Witness(o, o.root, sub, dep) /\ sub[o.root] = inside
      /\ inside \in SUBSET Elem /\ c \in inside /\ c \in Elem /\ it # NullIter
  BY <1>1 DEF AtNode
<1>3. StepsTo(o, inside, c, s, j)
  BY <1>1, SoundAhead
<1>4. tree \in Tree /\ Agree(o, tree, inside \ freed) /\ freed = {x \in inside : On(x, c, -s)}
  <2>1. tree \in Tree
    BY DEF Tended
  <2>2. CASE marching = s
    <3>1. marching # 0
      BY <2>2, NoSide
    <3> QED
      BY <1>2, <2>1, <2>2, <3>1 DEF Tended, Passed
  <2>3. CASE marching = 0 /\ c = Extreme(tree, -s)
    <3>1. tree = o /\ freed = {}
      BY <2>3 DEF Tended
    <3>2. -s \in Side
      BY Sides
    <3>3. \A x \in inside : ~On(x, c, -s)
      BY <1>2, <2>3, <3>1, <3>2, StartExtremeIs
    <3> QED
      BY <2>1, <3>1, <3>3 DEF Agree
  <2> QED
    BY <2>2, <2>3
<1>5. Leaf(tree, c) \in Tree /\ Agree(o, Leaf(tree, c), inside \ (freed \union {c}))
  <2>1. MadeOf(tree, Leaf(tree, c), c, [r \in Side |-> null], 0)
    BY <1>2, <1>4, LeafIs
  <2> DEFINE u == Leaf(tree, c)
  <2>2. u \in Tree /\ \A e \in Elem : e # c => u.kid[e] = tree.kid[e] /\ u.bf[e] = tree.bf[e]
    BY <2>1 DEF MadeOf
  <2> HIDE DEF u
  <2>3. Agree(o, u, inside \ (freed \union {c}))
    BY <1>2, <1>4, <2>2 DEF Agree
  <2> QED
    BY <2>2, <2>3 DEF u
<1> HIDE DEF j
<1>6. -s \in Side /\ -(-s) = s
  BY Sides
<1>7. \A x \in inside : x # c => On(x, c, s) \/ On(x, c, -s)
  <2> TAKE x \in inside
  <2>1. Unlike(inside)
    BY HoldsIs DEF Tended
  <2>2. x # c => KeyOf[x] # KeyOf[c]
    BY <1>2, <2>1 DEF Unlike
  <2>3. Sides3(x, c, c, s)
    BY <1>2, OnIs
  <2> QED
    BY <2>2, <2>3 DEF Sides3
<1>8. freed \union {c} = Passed(inside, j, s)
  <2>1. CASE Roams(o, j) /\ NextTo(inside, c, s, Current(j))
    <3> DEFINE f == Current(j)
    <3>1. f \in inside /\ f \in Elem /\ On(f, c, s) /\ \A x \in inside : On(x, c, s) => x = f \/ On(x, f, s)
      BY <1>2, <2>1 DEF NextTo
    <3>2. j # NullIter
      BY <2>1 DEF Roams, NullIter
    <3> HIDE DEF f
    <3>3. Passed(inside, j, s) = {x \in inside : On(x, f, -s)}
      BY <3>2 DEF Passed, f
    <3>4. On(c, f, -s)
      <4>1. Sides3(f, c, c, s)
        BY <1>2, <3>1, OnIs
      <4> QED
        BY <3>1, <4>1 DEF Sides3
    <3>5. ASSUME NEW x \in inside, On(x, c, -s) PROVE On(x, f, -s)
      <4>1. Sides3(x, c, f, -s)
        BY <1>2, <1>6, <3>1, OnIs
      <4> QED
        BY <3>4, <3>5, <4>1 DEF Sides3
    <3>6. ASSUME NEW x \in inside, On(x, f, -s) PROVE x = c \/ On(x, c, -s)
      <4>1. Sides3(x, f, f, s) /\ Sides3(x, f, f, -s)
        BY <1>2, <1>6, <3>1, OnIs
      <4>2. ~On(x, f, s)
        BY <3>6, <4>1 DEF Sides3
      <4>3. x # f
        <5>1. x = f => On(x, f, s)
          BY <1>6, <3>6, <4>1 DEF Sides3
        <5> QED
          BY <4>2, <5>1
      <4> QED
        BY <1>7, <3>1, <4>2, <4>3
    <3> QED
      BY <1>2, <1>4, <3>3, <3>4, <3>5, <3>6
  <2>2. CASE j = NullIter /\ \A x \in inside : ~On(x, c, s)
    <3>1. Passed(inside, j, s) = inside
      BY <2>2 DEF Passed
    <3> QED
      BY <1>2, <1>4, <1>7, <2>2, <3>1
  <2> QED
    BY <1>3, <2>1, <2>2 DEF StepsTo
<1>9. Arrives(o, j)
  BY <1>3, StepsArrive
<1> QED
  BY <1>5, <1>8, <1>9 DEF MarchKept, j

\* A round of a last iteration keeps the rest of the tree.
LEMMA MarchKeeps ==
    ASSUME AvlInv, NEW s \in Side, March(s)
    PROVE  AvlInv'
<1> DEFINE c == Current(it)
           j == Step(tree, it, s)
<1>1. PICK o : Tended(o)
  BY DEF AvlInv
<1>2. /\ it.path # <<>> /\ (marching = s \/ (marching = 0 /\ c = Extreme(tree, -s)))
      /\ marching' = s /\ it' = j /\ freed' = freed \union {c} /\ tree' = Leaf(tree, c)
      /\ inside' = inside
  BY DEF March
<1>3. MarchKept(o, s, c, j)
  BY <1>1, <1>2, MarchIs DEF March
<1>4. Holds(o, inside)
  BY <1>1 DEF Tended
<1> HIDE DEF c, j
<1>5. Tended(o)'
  <2>1. Holds(o, inside') /\ tree' \in Tree /\ marching' \in Side \union {0} /\ Arrives(o, it')
    BY <1>2, <1>3, <1>4 DEF MarchKept
  <2>2. marching' # 0
    BY <1>2, NoSide
  <2>3. Agree(o, tree', inside' \ freed') /\ freed' = Passed(inside', it', marching')
    BY <1>2, <1>3 DEF MarchKept
  <2> QED
    BY <2>1, <2>2, <2>3 DEF Tended
<1> QED
  BY <1>5 DEF AvlInv

\* In the beginning there is the tree without nodes.
LEMMA AvlStarts == Init => AvlInv
<1> SUFFICES ASSUME Init PROVE AvlInv
  OBVIOUS
<1>1. /\ tree = [root |-> null, kid |-> [e \in Elem |-> [s \in Side |-> null]],
                 bf |-> [e \in Elem |-> 0]]
      /\ inside = {} /\ it = NullIter /\ freed = {} /\ marching = 0
  BY DEF Init
<1>2. tree \in Tree /\ tree.root = null
  BY <1>1 DEF Tree, Handle
<1>3. Avl(tree, tree.root, inside, 0)
  BY <1>1, <1>2, AvlNull
<1>4. Holds(tree, inside)
  BY <1>2, <1>3 DEF Holds
<1>5. PICK o : o = tree
  OBVIOUS
<1>6. Tended(o)
  BY <1>1, <1>2, <1>4, <1>5 DEF Tended, Arrives
<1> QED
  BY <1>6 DEF AvlInv

\* The nodes and the keys the caller works with.
LEMMA KeysAre == \A k \in {KeyOf[e] : e \in Elem} : k \in Nat
BY KeyIs

\* Every operation of the caller keeps the tree sound.
LEMMA AvlStep == AvlInv /\ [Next]_vars => AvlInv'
<1> SUFFICES ASSUME AvlInv, [Next]_vars PROVE AvlInv'
  OBVIOUS
<1>1. CASE UNCHANGED vars
  <2>1. PICK o : Tended(o)
    BY DEF AvlInv
  <2>2. Tended(o)'
    BY <1>1, <2>1 DEF Tended, vars
  <2> QED
    BY <2>2 DEF AvlInv
<1>2. CASE Next
  <2> DEFINE keys == {KeyOf[e] : e \in Elem}
  <2>0. keys \subseteq Nat
    BY KeysAre
  <2>1. CASE \E h \in Elem : InsertNode(h)
    BY <2>1, InsertKeeps
  <2>2. CASE \E k \in keys : RemoveKey(k)
    BY <2>0, <2>2, RemoveKeeps
  <2>3. CASE \E h \in Elem : SubstNode(h)
    BY <2>3, SubstKeeps
  <2>4. CASE \E S \in SUBSET Elem : BuildTree(S)
    BY <2>4, BuildKeeps
  <2>5. CASE PurgeTree
    BY <2>5, PurgeKeeps
  <2>6. CASE \E k \in keys, st \in SearchType : StartAt(k, st)
    <3>1. marching = 0
      BY <2>6 DEF StartAt, Moves
    <3>2. \E k \in Nat, st \in SearchType : StartAt(k, st)
      BY ONLY <2>0, <2>6
    <3> QED
      BY <3>1, <3>2, IterKeeps
  <2>7. CASE \E s \in Side : StartAtEnd(s)
    <3>1. marching = 0
      BY <2>7 DEF StartAtEnd, Moves
    <3> QED
      BY <2>7, <3>1, IterKeeps
  <2>8. CASE \E s \in Side : StepIter(s)
    <3>1. marching = 0
      BY <2>8 DEF StepIter, Moves
    <3> QED
      BY <2>8, <3>1, IterKeeps
  <2>9. CASE \E s \in Side : March(s)
    BY <2>9, MarchKeeps
  <2> QED
    BY <1>2, <2>1, <2>2, <2>3, <2>4, <2>5, <2>6, <2>7, <2>8, <2>9 DEF Next, NextOver
<1> QED
  BY <1>1, <1>2

\* The inductive invariant: at all times there is a tree, an AVL tree of exactly
\* the nodes the caller has put in, that the storage agrees with but for the
\* nodes a last iteration has freed, and the iterator's path is a path of it.
THEOREM AvlSound == Spec => []AvlInv
BY AvlStarts, AvlStep, PTL DEF Spec

\* search() answers every kind of search, for every key, as documented
\* (avl_tree.h), after any sequence of operations.
THEOREM AvlSearches == Spec => []SearchesRight
<1>1. AvlInv => SearchesRight
  <2> SUFFICES ASSUME AvlInv PROVE SearchesRight
    OBVIOUS
  <2>1. CASE marching = 0
    BY <2>1, TendedTree, HoldsSearches
  <2>2. CASE marching # 0
    BY ONLY <2>2 DEF SearchesRight
  <2> QED
    BY ONLY <2>1, <2>2
<1> QED
  BY <1>1, AvlSound, PTL

\* start_iter() ends where search() does, and ++ and -- go from every node to
\* the one next to it in order, by the path kept in the iterator alone.
THEOREM AvlIterates == Spec => []IterInOrder
<1>1. AvlInv => IterInOrder
  BY ONLY TendedIterates DEF AvlInv
<1> QED
  BY <1>1, AvlSound, PTL

\* A last iteration reaches every node and never reads one it has passed.
THEOREM AvlMarches == Spec => []MarchFreesAll
<1>1. AvlInv => MarchFreesAll
  BY ONLY TendedFrees DEF AvlInv
<1> QED
  BY <1>1, AvlSound, PTL

-----------------------------------------------------------------------------
(* What the functions say that read a tree as a whole.                       *)

OrderOf(w, t) ==
  /\ w \in [Nat -> [Handle -> Seq(Elem)]]
  /\ \A n \in Nat, g \in Handle :
       w[n][g] = IF n = 0 \/ g = null THEN <<>>
                 ELSE w[n - 1][t.kid[g][less]] \o <<g>> \o w[n - 1][t.kid[g][greater]]

\* The recursive function of InOrder gives, with the number n, the nodes on n
\* levels.
LEMMA OrderFunction ==
    ASSUME NEW t \in Tree
    PROVE  \E w : OrderOf(w, t) /\ \A h \in Handle, n \in Nat : InOrder(t, h, n) = w[n][h]
<1> DEFINE l == [g \in Handle |-> IF g = null THEN null ELSE t.kid[g][less]]
           r == [g \in Handle |-> IF g = null THEN null ELSE t.kid[g][greater]]
           Wider(v) == [g \in Handle |-> IF g = null THEN <<>>
                                         ELSE v[t.kid[g][less]] \o <<g>> \o v[t.kid[g][greater]]]
           step == [v \in [Handle -> Seq(Elem)] |-> Wider(v)]
           none == [g \in Handle |-> <<>>]
           Goes(w) == w = [m \in Nat |-> [g \in Handle |->
                             IF m = 0 \/ g = null THEN <<>>
                             ELSE w[m - 1][t.kid[g][less]] \o <<g>> \o w[m - 1][t.kid[g][greater]]]]
           order[m \in Nat] ==
             [g \in Handle |->
                IF m = 0 \/ g = null THEN <<>>
                ELSE order[m - 1][t.kid[g][less]] \o <<g>> \o order[m - 1][t.kid[g][greater]]]
<1>0. \A g \in Handle : g # null => /\ g \in Elem
                                     /\ t.kid[g][less] \in Handle /\ t.kid[g][greater] \in Handle
  <2>1. less \in Side /\ greater \in Side
    BY DEF Side
  <2> HIDE DEF less, greater
  <2> QED
    BY <2>1, TreeIs DEF Handle
<1>1. ASSUME NEW v \in [Handle -> Seq(Elem)] PROVE Wider(v) \in [Handle -> Seq(Elem)]
  <2>1. ASSUME NEW g \in Handle PROVE Wider(v)[g] \in Seq(Elem)
    <3>1. <<>> \in Seq(Elem)
      BY EmptySeq
    <3>2. CASE g # null
      <4> DEFINE a == v[t.kid[g][less]]
                 b == v[t.kid[g][greater]]
      <4>1. <<g>> \in Seq(Elem) /\ a \in Seq(Elem) /\ b \in Seq(Elem)
        BY ONLY <1>0, <3>2
      <4>2. Wider(v)[g] = a \o <<g>> \o b
        BY <3>2, Zenon
      <4> HIDE DEF a, b
      <4>3. a \o <<g>> \in Seq(Elem)
        BY ONLY <4>1, ConcatProperties
      <4>4. (a \o <<g>>) \o b \in Seq(Elem)
        BY ONLY <4>1, <4>3, ConcatProperties
      <4> HIDE DEF Wider
      <4> QED
        BY ONLY <4>2, <4>4
    <3> QED
      BY ONLY <3>1, <3>2
  <2> QED
    BY ONLY <2>1
<1>2. StaysIn(step, [Handle -> Seq(Elem)]) /\ none \in [Handle -> Seq(Elem)]
  <2> HIDE DEF Wider
  <2> QED
    BY <1>1, EmptySeq DEF StaysIn
<1>3. PICK f : Repeats(f, step, [Handle -> Seq(Elem)], none)
  <2> HIDE DEF step, none
  <2> QED
    BY <1>2, StepsGoOn, Zenon
<1>4. /\ f \in [Nat -> [Handle -> Seq(Elem)]] /\ f[0] = none
      /\ \A n \in Nat : f[n + 1] = Wider(f[n])
  BY ONLY <1>3, Zenon DEF Repeats
<1> DEFINE Row(m) == [g \in Handle |->
                        IF m = 0 \/ g = null THEN <<>>
                        ELSE f[m - 1][t.kid[g][less]] \o <<g>> \o f[m - 1][t.kid[g][greater]]]
<1>5. ASSUME NEW m \in Nat PROVE f[m] = Row(m)
  <2>1. CASE m = 0
    BY ONLY <1>4, <2>1
  <2>2. CASE m # 0
    <3>1. m - 1 \in Nat /\ (m - 1) + 1 = m
      BY <2>2
    <3>2. f[m] = Wider(f[m - 1])
      BY <1>4, <3>1, Zenon
    <3> QED
      BY ONLY <2>2, <3>2, Zenon
  <2> HIDE DEF Row
  <2> QED
    BY <2>1, <2>2
<1>6. Goes(f)
  BY ONLY <1>4, <1>5, Zenon
<1>7. Goes(order)
  <2>1. order = CHOOSE w : Goes(w)
    OBVIOUS
  <2> HIDE DEF order, Goes
  <2> QED
    BY <1>6, <2>1
<1>8. \A h \in Handle, n \in Nat : InOrder(t, h, n) = order[n][h]
  BY DEF InOrder
<1> HIDE DEF order
<1>9. /\ \A m \in Nat : order[m] = [g \in Handle |->
                IF m = 0 \/ g = null THEN <<>>
                ELSE order[m - 1][t.kid[g][less]] \o <<g>> \o order[m - 1][t.kid[g][greater]]]
      /\ DOMAIN order = Nat /\ order = [m \in Nat |-> order[m]]
  <2>1. \A w : Goes(w) => /\ \A m \in Nat : w[m] = [g \in Handle |->
                              IF m = 0 \/ g = null THEN <<>>
                              ELSE w[m - 1][t.kid[g][less]] \o <<g>> \o w[m - 1][t.kid[g][greater]]]
                          /\ DOMAIN w = Nat /\ w = [m \in Nat |-> w[m]]
    BY Zenon
  <2> HIDE DEF Goes
  <2> QED
    BY <1>7, <2>1, Zenon
<1> HIDE DEF Goes
<1>10. \A n \in Nat, g \in Handle :
         order[n][g] = IF n = 0 \/ g = null THEN <<>>
                       ELSE order[n - 1][t.kid[g][less]] \o <<g>> \o order[n - 1][t.kid[g][greater]]
  BY ONLY <1>9, Zenon
<1>11. order \in [Nat -> [Handle -> Seq(Elem)]]
  <2> DEFINE P == {n \in Nat : order[n] \in [Handle -> Seq(Elem)]}
  <2>1. 0 \in P
    <3>1. order[0] = none
      <4>1. order[0] = [g \in Handle |->
               IF 0 = 0 \/ g = null THEN <<>>
               ELSE order[0 - 1][t.kid[g][less]] \o <<g>> \o order[0 - 1][t.kid[g][greater]]]
        BY <1>9, Zenon
      <4> QED
        BY <4>1
    <3> QED
      BY <1>2, <3>1, Zenon
  <2>2. ASSUME NEW n \in Nat, n \in P PROVE n + 1 \in P
    <3>1. order[n + 1] = Wider(order[n])
      <4>1. n + 1 \in Nat /\ (n + 1) - 1 = n /\ n + 1 # 0
        OBVIOUS
      <4>2. \A m \in Nat : m # 0 => order[m] = Wider(order[m - 1])
        BY ONLY <1>9, Zenon
      <4> QED
        BY ONLY <4>1, <4>2, Zenon
    <3> HIDE DEF Wider
    <3> QED
      BY <1>1, <2>2, <3>1
  <2>3. Nat \subseteq P
    <3> HIDE DEF P
    <3> QED
      BY ONLY <2>1, <2>2, AllNaturals
  <2> QED
    BY <1>9, <2>3, Zenon
<1>12. OrderOf(order, t)
  BY ONLY <1>10, <1>11 DEF OrderOf
<1> QED
  BY ONLY <1>8, <1>12

\* The sequence q lists the nodes in A by their keys.
Listed(q, A) ==
  q \in Seq(Elem) /\ Len(q) = Cardinality(A) /\ Range(q) = A /\ Sorted(q)

\* A sequence of the one, the node g, and then the other.
Joint(r, a, g, b) ==
  /\ r \in Seq(Elem) /\ Len(r) = Len(a) + 1 + Len(b) /\ Len(a) \in Nat /\ Len(b) \in Nat
  /\ \A i \in 1..Len(r) : r[i] = IF i <= Len(a) THEN a[i]
                                 ELSE IF i = Len(a) + 1 THEN g ELSE b[i - (Len(a) + 1)]

\* A sequence joined by an element with another one, place by place.
LEMMA JointIs ==
    ASSUME NEW a \in Seq(Elem), NEW b \in Seq(Elem), NEW g \in Elem
    PROVE  Joint(a \o <<g>> \o b, a, g, b)
<1> DEFINE c == a \o <<g>>
           r == c \o b
<1>1. Len(a) \in Nat /\ Len(b) \in Nat
  BY LenProperties
<1>2. <<g>> \in Seq(Elem) /\ Len(<<g>>) = 1 /\ <<g>>[1] = g
  OBVIOUS
<1>3. /\ c \in Seq(Elem) /\ Len(c) = Len(a) + 1
      /\ \A i \in 1..(Len(a) + 1) : c[i] = IF i <= Len(a) THEN a[i] ELSE g
  <2>1. /\ c \in Seq(Elem) /\ Len(c) = Len(a) + Len(<<g>>)
        /\ \A i \in 1..(Len(a) + Len(<<g>>)) :
             c[i] = IF i <= Len(a) THEN a[i] ELSE <<g>>[i - Len(a)]
    BY <1>2, ConcatProperties
  <2>2. \A i \in 1..(Len(a) + 1) : ~(i <= Len(a)) => i - Len(a) = 1
    BY <1>1
  <2> HIDE DEF c
  <2> QED
    BY <1>2, <2>1, <2>2
<1> HIDE DEF c
<1>4. /\ r \in Seq(Elem) /\ Len(r) = Len(c) + Len(b)
      /\ \A i \in 1..(Len(c) + Len(b)) : r[i] = IF i <= Len(c) THEN c[i] ELSE b[i - Len(c)]
  BY <1>3, ConcatProperties
<1> HIDE DEF r
<1>5. ASSUME NEW i \in 1..Len(r)
      PROVE  r[i] = IF i <= Len(a) THEN a[i]
                    ELSE IF i = Len(a) + 1 THEN g ELSE b[i - (Len(a) + 1)]
  <2>1. i \in 1..(Len(c) + Len(b)) /\ i \in Nat
    BY <1>1, <1>3, <1>4
  <2>2. CASE i <= Len(a) + 1
    <3>1. i \in 1..(Len(a) + 1) /\ (~(i <= Len(a)) => i = Len(a) + 1)
      BY ONLY <1>1, <2>1, <2>2
    <3>2. r[i] = c[i]
      BY ONLY <1>3, <1>4, <2>1, <2>2
    <3> QED
      BY ONLY <1>3, <3>1, <3>2
  <2>3. CASE ~(i <= Len(a) + 1)
    <3>1. ~(i <= Len(a)) /\ i # Len(a) + 1
      BY ONLY <1>1, <2>1, <2>3
    <3> QED
      BY ONLY <1>3, <1>4, <2>1, <2>3, <3>1
  <2> QED
    BY <2>2, <2>3
<1>6. Joint(r, a, g, b)
  BY ONLY <1>1, <1>3, <1>4, <1>5 DEF Joint
<1> QED
  BY <1>6 DEF r, c

\* So the nodes of a tree are listed: those before the root, the root, and those
\* behind it.
LEMMA JoinListed ==
    ASSUME NEW A \in SUBSET Elem, NEW B \in SUBSET Elem, NEW g \in Elem, Sized(A, B, g),
           Beside(A, g, less), Beside(B, g, greater),
           NEW a, Listed(a, A), NEW b, Listed(b, B)
    PROVE  Listed(a \o <<g>> \o b, A \union B \union {g})
<1> DEFINE r == a \o <<g>> \o b
           m == Len(a)
           l == Len(b)
<1>1. /\ a \in Seq(Elem) /\ Len(a) = Cardinality(A) /\ Range(a) = A /\ Sorted(a)
      /\ b \in Seq(Elem) /\ Len(b) = Cardinality(B) /\ Range(b) = B /\ Sorted(b)
  BY DEF Listed
<1>2. Joint(r, a, g, b)
  BY ONLY <1>1, JointIs
<1> HIDE DEF r
<1>3. /\ r \in Seq(Elem) /\ Len(r) = m + 1 + l /\ m \in Nat /\ l \in Nat
      /\ \A i \in 1..Len(r) : r[i] = IF i <= m THEN a[i]
                                     ELSE IF i = m + 1 THEN g ELSE b[i - (m + 1)]
  BY <1>2 DEF Joint
<1>4. /\ DOMAIN a = 1..m /\ DOMAIN b = 1..l /\ DOMAIN r = 1..Len(r)
      /\ \A i \in 1..m : a[i] \in A
      /\ \A i \in 1..l : b[i] \in B
  <2>1. DOMAIN a = 1..m /\ DOMAIN b = 1..l /\ DOMAIN r = 1..Len(r)
    BY <1>1, <1>3, LenProperties
  <2> QED
    BY <1>1, <2>1 DEF Range
<1>5. Len(r) = Cardinality(A \union B \union {g})
  BY <1>1, <1>3 DEF Sized
<1> HIDE DEF m, l
<1>6. \A i \in 1..Len(r) : /\ i <= m => i \in 1..m /\ r[i] = a[i]
                           /\ i = m + 1 => r[i] = g
                           /\ i > m + 1 => i - (m + 1) \in 1..l /\ r[i] = b[i - (m + 1)]
                           /\ i <= m \/ i = m + 1 \/ i > m + 1
  <2> TAKE i \in 1..Len(r)
  <2>1. /\ i <= m => i \in 1..m
        /\ i > m + 1 => i - (m + 1) \in 1..l /\ ~(i <= m) /\ i # m + 1
        /\ i = m + 1 => ~(i <= m)
        /\ i <= m \/ i = m + 1 \/ i > m + 1
    BY <1>3
  <2> QED
    BY <1>3, <2>1
<1>7. Range(r) = A \union B \union {g}
  <2>1. ASSUME NEW i \in 1..Len(r) PROVE r[i] \in A \union B \union {g}
    BY <1>4, <1>6
  <2>2. ASSUME NEW x \in A PROVE \E i \in 1..Len(r) : r[i] = x
    <3>1. PICK i \in 1..m : a[i] = x
      BY <1>1, <1>4 DEF Range
    <3>2. i \in 1..Len(r) /\ i <= m
      BY <1>3
    <3> QED
      BY <1>6, <3>1, <3>2
  <2>3. ASSUME NEW x \in B PROVE \E i \in 1..Len(r) : r[i] = x
    <3>1. PICK i \in 1..l : b[i] = x
      BY <1>1, <1>4 DEF Range
    <3> DEFINE j == i + (m + 1)
    <3>2. j \in 1..Len(r) /\ j > m + 1 /\ j - (m + 1) = i
      BY <1>3
    <3> HIDE DEF j
    <3> QED
      BY <1>6, <3>1, <3>2
  <2>4. \E i \in 1..Len(r) : r[i] = g
    <3>1. m + 1 \in 1..Len(r)
      BY <1>3
    <3> QED
      BY <1>6, <3>1
  <2> QED
    BY <1>4, <2>1, <2>2, <2>3, <2>4 DEF Range
<1>8. ASSUME NEW i \in 1..(Len(r) - 1) PROVE KeyOf[r[i]] < KeyOf[r[i + 1]]
  <2> DEFINE n == i + 1
  <2>1. i \in 1..Len(r) /\ n \in 1..Len(r)
    BY <1>3
  <2>2. KeyOf[g] \in Nat /\ \A x \in A \union B : KeyOf[x] \in Nat
    BY KeyIs
  <2>3. (\A x \in A : KeyOf[x] < KeyOf[g]) /\ \A x \in B : KeyOf[g] < KeyOf[x]
    <3>1. \A x \in A : Sign(KeyOf[x] - KeyOf[g]) = -1
      BY DEF Beside, less
    <3>2. \A x \in B : Sign(KeyOf[x] - KeyOf[g]) = 1
      BY DEF Beside, greater
    <3> QED
      BY <2>2, <3>1, <3>2, SignIs
  <2>4. CASE n <= m
    <3>1. i <= m /\ i \in 1..(m - 1)
      BY <1>3, <2>4
    <3>2. KeyOf[a[i]] < KeyOf[a[i + 1]]
      BY <1>1, <3>1 DEF Sorted, m
    <3> QED
      BY <1>6, <2>1, <2>4, <3>1, <3>2
  <2>5. CASE n = m + 1
    <3>1. i <= m
      BY <1>3, <2>5
    <3>2. r[i] \in A /\ r[n] = g
      BY <1>4, <1>6, <2>1, <2>5, <3>1
    <3> QED
      BY <2>3, <3>2
  <2>6. CASE n > m + 1
    <3>1. CASE i = m + 1
      <4>1. r[i] = g /\ r[n] \in B
        BY <1>4, <1>6, <2>1, <2>6, <3>1
      <4> QED
        BY <2>3, <4>1
    <3>2. CASE i # m + 1
      <4> DEFINE j == i - (m + 1)
      <4>1. i > m + 1 /\ j \in 1..(l - 1) /\ n - (m + 1) = j + 1
        BY <1>3, <2>1, <2>6, <3>2
      <4>2. r[i] = b[j] /\ r[n] = b[j + 1]
        BY <1>6, <2>1, <2>6, <4>1
      <4>3. KeyOf[b[j]] < KeyOf[b[j + 1]]
        <5> HIDE DEF j
        <5> QED
          BY <1>1, <4>1 DEF Sorted, l
      <4> QED
        BY <4>2, <4>3
    <3> QED
      BY <3>1, <3>2
  <2>7. n <= m \/ n = m + 1 \/ n > m + 1
    BY <1>3
  <2> QED
    BY <2>4, <2>5, <2>6, <2>7
<1>9. Listed(r, A \union B \union {g})
  BY <1>3, <1>5, <1>7, <1>8 DEF Listed, Sorted
<1> QED
  BY <1>9 DEF r

\* No node.
LEMMA NoneListed == Listed(<<>>, {})
<1>1. <<>> \in Seq(Elem) /\ Len(<<>>) = 0 /\ Cardinality({}) = 0
  BY EmptySeq, FS_EmptySet
<1>2. DOMAIN <<>> = 1..0
  BY <1>1, LenProperties
<1>3. Range(<<>>) = {}
  BY <1>2 DEF Range
<1>4. Sorted(<<>>)
  BY <1>1 DEF Sorted
<1> QED
  BY <1>1, <1>3, <1>4 DEF Listed

\* The nodes of an AVL tree, read in order.
LEMMA OrderIs ==
    ASSUME NEW t \in Tree, NEW h, NEW sub, NEW dep, Witness(t, h, sub, dep),
           NEW n \in Nat, dep[h] <= n
    PROVE  Listed(InOrder(t, h, n), sub[h])
<1>1. PICK w : OrderOf(w, t) /\ \A g \in Handle, m \in Nat : InOrder(t, g, m) = w[m][g]
  BY OrderFunction
<1> DEFINE P == {m \in Nat : \A g : Witness(t, g, sub, dep) /\ dep[g] <= m
                               => Listed(w[m][g], sub[g])}
<1>2. Measures(sub, dep) /\ \A g : Witness(t, g, sub, dep) => g \in Handle
  BY DEF Witness
<1>3. \A m \in Nat : Listed(w[m][null], sub[null])
  <2> TAKE m \in Nat
  <2>1. w[m][null] = <<>> /\ sub[null] = {}
    BY <1>1, <1>2 DEF OrderOf, Measures, Handle
  <2> QED
    BY ONLY <2>1, NoneListed
<1>4. ASSUME NEW g, Witness(t, g, sub, dep), g # null, NEW m \in Nat, dep[g] <= m
      PROVE  m # 0 /\ (m - 1 \in P => Listed(w[m][g], sub[g]))
  <2>1. g \in Elem /\ less \in Side /\ greater \in Side /\ -less = greater
    BY ONLY <1>2, <1>4, Sides DEF Handle, Side
  <2> DEFINE k == t.kid[g][less]
             o == t.kid[g][greater]
  <2> HIDE DEF less, greater
  <2>2. Forks(t, sub, dep, g, less)
    BY ONLY <1>4, <2>1, WithinKid
  <2>3. /\ Witness(t, k, sub, dep) /\ Witness(t, o, sub, dep)
        /\ sub[g] = sub[k] \union sub[o] \union {g}
        /\ Beside(sub[k], g, less) /\ Beside(sub[o], g, greater)
        /\ dep[g] = 1 + Deeper(dep[k], dep[o])
    BY ONLY <2>1, <2>2 DEF Forks
  <2>4. k \in Handle /\ o \in Handle /\ dep[k] \in Nat /\ dep[o] \in Nat
        /\ sub[k] \in SUBSET Elem /\ sub[o] \in SUBSET Elem
    BY ONLY <1>2, <2>3 DEF Measures
  <2>5. m # 0 /\ m - 1 \in Nat /\ dep[k] <= m - 1 /\ dep[o] <= m - 1
    BY ONLY <1>4, <2>3, <2>4 DEF Deeper
  <2>6. w[m][g] = w[m - 1][k] \o <<g>> \o w[m - 1][o]
    BY <1>1, <1>2, <1>4, <2>5, Zenon DEF OrderOf
  <2>7. Sized(sub[k], sub[o], g)
    <3>1. Parts(t, g, less, sub[k], dep[k], sub[o], dep[o])
      BY ONLY <2>1, <2>3 DEF Parts, Avl
    <3> HIDE DEF k, o
    <3> QED
      BY <2>1, <3>1, SizeIs
  <2> HIDE DEF k, o
  <2>8. ASSUME m - 1 \in P PROVE Listed(w[m][g], sub[g])
    <3>1. Listed(w[m - 1][k], sub[k]) /\ Listed(w[m - 1][o], sub[o])
      BY ONLY <2>3, <2>5, <2>8
    <3>2. Listed(w[m - 1][k] \o <<g>> \o w[m - 1][o], sub[k] \union sub[o] \union {g})
      BY <2>1, <2>3, <2>4, <2>7, <3>1, JoinListed
    <3> QED
      BY ONLY <2>3, <2>6, <3>2
  <2> QED
    BY <2>5, <2>8
<1>5. 0 \in P
  BY <1>3, <1>4
<1>6. ASSUME NEW m \in Nat, m \in P PROVE m + 1 \in P
  <2>1. m + 1 \in Nat /\ (m + 1) - 1 = m
    OBVIOUS
  <2>2. ASSUME NEW g, Witness(t, g, sub, dep), dep[g] <= m + 1 PROVE Listed(w[m + 1][g], sub[g])
    <3> HIDE DEF P
    <3> QED
      BY <1>3, <1>4, <1>6, <2>1, <2>2
  <2> QED
    BY <2>1, <2>2
<1>7. Nat \subseteq P
  <2> HIDE DEF P
  <2> QED
    BY <1>5, <1>6, AllNaturals
<1>8. Listed(w[n][h], sub[h])
  BY <1>7
<1> QED
  BY <1>1, <1>2, <1>8

DepthOf(w, t) ==
  \A n \in Nat, g \in Handle :
    w[n][g] = IF n = 0 \/ g = null THEN 0
              ELSE 1 + Deeper(w[n - 1][t.kid[g][less]], w[n - 1][t.kid[g][greater]])

\* The recursive function of Depth gives, with the number n, the depth on n
\* levels.
LEMMA DepthFunction ==
    ASSUME NEW t \in Tree
    PROVE  \E w : DepthOf(w, t) /\ \A h \in Handle : Depth(t, h) = w[Cardinality(Elem)][h]
<1> DEFINE Wider(v) == [g \in Handle |->
                          IF g = null THEN 0
                          ELSE LET l == v[t.kid[g][less]]
                                   r == v[t.kid[g][greater]]
                               IN 1 + (IF l > r THEN l ELSE r)]
           step == [v \in [Handle -> Nat] |-> Wider(v)]
           none == [g \in Handle |-> 0]
           Goes(w) == w = [n \in Nat |->
                        [g \in Handle |->
                           IF n = 0 \/ g = null THEN 0
                           ELSE LET l == w[n - 1][t.kid[g][less]]
                                    r == w[n - 1][t.kid[g][greater]]
                                IN 1 + (IF l > r THEN l ELSE r)]]
           depth[n \in Nat] ==
             [g \in Handle |->
                IF n = 0 \/ g = null THEN 0
                ELSE LET l == depth[n - 1][t.kid[g][less]]
                         r == depth[n - 1][t.kid[g][greater]]
                     IN 1 + (IF l > r THEN l ELSE r)]
<1>0. \A g \in Handle : g # null => t.kid[g][less] \in Handle /\ t.kid[g][greater] \in Handle
  <2>1. less \in Side /\ greater \in Side
    BY DEF Side
  <2> HIDE DEF less, greater
  <2> QED
    BY ONLY <2>1, TreeIs DEF Handle
<1>1. ASSUME NEW v \in [Handle -> Nat] PROVE Wider(v) \in [Handle -> Nat]
  <2>1. ASSUME NEW g \in Handle PROVE Wider(v)[g] \in Nat
    <3>1. CASE g # null
      <4>1. v[t.kid[g][less]] \in Nat /\ v[t.kid[g][greater]] \in Nat
        BY ONLY <1>0, <3>1
      <4> QED
        BY ONLY <3>1, <4>1
    <3> QED
      BY ONLY <3>1
  <2> QED
    BY ONLY <2>1
<1>2. StaysIn(step, [Handle -> Nat]) /\ none \in [Handle -> Nat]
  <2> HIDE DEF Wider
  <2> QED
    BY ONLY <1>1 DEF StaysIn
<1>3. PICK f : Repeats(f, step, [Handle -> Nat], none)
  <2> HIDE DEF step, none
  <2> QED
    BY <1>2, StepsGoOn
<1>4. /\ f \in [Nat -> [Handle -> Nat]] /\ f[0] = none
      /\ \A n \in Nat : f[n + 1] = Wider(f[n])
  BY ONLY <1>3 DEF Repeats
<1>5. \A n \in Nat : f[n] = [g \in Handle |->
                               IF n = 0 \/ g = null THEN 0
                               ELSE LET l == f[n - 1][t.kid[g][less]]
                                        r == f[n - 1][t.kid[g][greater]]
                                    IN 1 + (IF l > r THEN l ELSE r)]
  <2> TAKE n \in Nat
  <2>1. CASE n = 0
    BY ONLY <1>4, <2>1
  <2>2. CASE n # 0
    <3>1. n - 1 \in Nat /\ (n - 1) + 1 = n
      BY <2>2
    <3>2. f[n] = Wider(f[n - 1])
      BY ONLY <1>4, <3>1
    <3> QED
      BY ONLY <2>2, <3>2
  <2> QED
    BY ONLY <2>1, <2>2
<1>6. Goes(f)
  BY ONLY <1>4, <1>5
<1>7. Goes(depth)
  <2>1. depth = CHOOSE w : Goes(w)
    OBVIOUS
  <2> HIDE DEF depth, Goes
  <2> QED
    BY <1>6, <2>1
<1>8. \A h \in Handle : Depth(t, h) = depth[Cardinality(Elem)][h]
  BY DEF Depth
<1> HIDE DEF depth
<1>9. \A n \in Nat : depth[n] = [g \in Handle |->
                                   IF n = 0 \/ g = null THEN 0
                                   ELSE LET l == depth[n - 1][t.kid[g][less]]
                                            r == depth[n - 1][t.kid[g][greater]]
                                        IN 1 + (IF l > r THEN l ELSE r)]
  <2>1. \A w : Goes(w) =>
          \A n \in Nat : w[n] = [g \in Handle |->
                                  IF n = 0 \/ g = null THEN 0
                                  ELSE LET l == w[n - 1][t.kid[g][less]]
                                           r == w[n - 1][t.kid[g][greater]]
                                       IN 1 + (IF l > r THEN l ELSE r)]
    BY Zenon
  <2> HIDE DEF Goes
  <2> QED
    BY ONLY <1>7, <2>1
<1>10. DepthOf(depth, t)
  BY ONLY <1>9, ZenonT(60) DEF DepthOf, Deeper
<1> QED
  BY ONLY <1>8, <1>10

\* What the code takes the depth of a subtree to be, is the depth of it.
LEMMA DepthIs ==
    ASSUME NEW t \in Tree, NEW h, NEW sub, NEW dep, Witness(t, h, sub, dep)
    PROVE  Depth(t, h) = dep[h]
<1>1. PICK w : DepthOf(w, t) /\ \A g \in Handle : Depth(t, g) = w[Cardinality(Elem)][g]
  BY DepthFunction
<1> DEFINE P == {m \in Nat : \A g : Witness(t, g, sub, dep) /\ dep[g] <= m => w[m][g] = dep[g]}
<1>2. Measures(sub, dep) /\ \A g : Witness(t, g, sub, dep) => g \in Handle
  BY DEF Witness
<1>3. \A m \in Nat : w[m][null] = dep[null]
  <2> TAKE m \in Nat
  <2>1. w[m][null] = 0 /\ dep[null] = 0
    BY <1>1, <1>2 DEF DepthOf, Measures, Handle
  <2> QED
    BY <2>1
<1>4. ASSUME NEW g, Witness(t, g, sub, dep), g # null, NEW m \in Nat, dep[g] <= m
      PROVE  m # 0 /\ (m - 1 \in P => w[m][g] = dep[g])
  <2>1. less \in Side /\ greater \in Side /\ -less = greater
    BY Sides DEF Side
  <2> DEFINE k == t.kid[g][less]
             o == t.kid[g][greater]
  <2> HIDE DEF less, greater
  <2>2. Forks(t, sub, dep, g, less)
    BY ONLY <1>4, <2>1, WithinKid
  <2>3. /\ Witness(t, k, sub, dep) /\ Witness(t, o, sub, dep)
        /\ dep[g] = 1 + Deeper(dep[k], dep[o])
    BY <2>1, <2>2 DEF Forks
  <2>4. k \in Handle /\ o \in Handle /\ dep[k] \in Nat /\ dep[o] \in Nat
    BY ONLY <1>2, <2>3 DEF Measures
  <2>5. m # 0 /\ m - 1 \in Nat /\ dep[k] <= m - 1 /\ dep[o] <= m - 1
    BY ONLY <1>4, <2>3, <2>4 DEF Deeper
  <2>6. w[m][g] = 1 + Deeper(w[m - 1][k], w[m - 1][o])
    BY <1>1, <1>2, <1>4, <2>5 DEF DepthOf
  <2> HIDE DEF k, o
  <2>7. m - 1 \in P => w[m - 1][k] = dep[k] /\ w[m - 1][o] = dep[o]
    BY <2>3, <2>5
  <2> QED
    BY ONLY <2>3, <2>5, <2>6, <2>7
<1>5. 0 \in P
  BY <1>3, <1>4
<1>6. ASSUME NEW m \in Nat, m \in P PROVE m + 1 \in P
  <2>1. m + 1 \in Nat /\ (m + 1) - 1 = m
    OBVIOUS
  <2>2. ASSUME NEW g, Witness(t, g, sub, dep), dep[g] <= m + 1 PROVE w[m + 1][g] = dep[g]
    <3> HIDE DEF P
    <3> QED
      BY <1>3, <1>4, <1>6, <2>1, <2>2
  <2> QED
    BY <2>1, <2>2
<1>7. Nat \subseteq P
  <2> HIDE DEF P
  <2> QED
    BY ONLY <1>5, <1>6, AllNaturals
<1>8. Cardinality(Elem) \in Nat /\ dep[h] <= Cardinality(Elem)
  <2>1. Avl(t, h, sub[h], dep[h])
    BY DEF Avl
  <2> QED
    BY <2>1, DepthBound, FS_CardinalityType, AvlAssumption
<1>9. w[Cardinality(Elem)][h] = dep[h]
  BY <1>7, <1>8
<1> QED
  BY <1>1, <1>2, <1>9

\* A tree that holds the nodes in inside is as AvlShape says.
LEMMA HoldsShape == Holds(tree, inside) => AvlShape
<1> SUFFICES ASSUME Holds(tree, inside) PROVE AvlShape
  OBVIOUS
<1> DEFINE n == Cardinality(Elem) + 1
<1>1. PICK sub, dep : Witness(tree, tree.root, sub, dep) /\ sub[tree.root] = inside
  BY HoldsIs
<1>2. tree \in Tree
  BY HoldsIs
<1>3. n \in Nat /\ dep[tree.root] <= n
  <2>1. Avl(tree, tree.root, inside, dep[tree.root])
    BY <1>1 DEF Avl
  <2>2. dep[tree.root] <= Cardinality(Elem) /\ dep[tree.root] \in Nat /\ Cardinality(Elem) \in Nat
    BY ONLY <2>1, DepthBound, AvlType, FS_CardinalityType, AvlAssumption
  <2> QED
    BY <2>2
<1> DEFINE order == InOrder(tree, tree.root, n)
<1> HIDE DEF n
<1>4. Listed(order, inside)
  BY ONLY <1>1, <1>2, <1>3, OrderIs
<1> HIDE DEF order
<1>5. ASSUME NEW h \in inside
      PROVE  tree.bf[h] = Depth(tree, tree.kid[h][greater]) - Depth(tree, tree.kid[h][less])
  <2>1. Witness(tree, h, sub, dep) /\ NodeOk(tree, sub, dep, h) /\ h # null
    <3>1. h \in Elem /\ Witness(tree, h, sub, dep)
      BY <1>1, Within
    <3> QED
      BY ONLY <1>1, <3>1, AvlAssumption DEF Witness
  <2>2. greater \in Side /\ less \in Side /\ -less = greater
    BY ONLY Sides DEF Side
  <2>3. tree.bf[h] = dep[tree.kid[h][greater]] - dep[tree.kid[h][less]]
    BY ONLY <2>1 DEF NodeOk
  <2> HIDE DEF less, greater
  <2>4. Forks(tree, sub, dep, h, less)
    BY <2>1, <2>2, WithinKid
  <2>5. Witness(tree, tree.kid[h][less], sub, dep) /\ Witness(tree, tree.kid[h][greater], sub, dep)
    BY ONLY <2>2, <2>4 DEF Forks
  <2> QED
    BY ONLY <1>2, <2>3, <2>5, DepthIs
<1>6. Len(order) = Cardinality(inside) /\ Range(order) = inside /\ Sorted(order)
  BY <1>4 DEF Listed
<1> QED
  BY ONLY <1>2, <1>5, <1>6 DEF AvlShape, order, n

\* The table of the least numbers of nodes.
LEMMA MNIs == /\ MN[0] = 0 /\ MN[1] = 1 /\ \A n \in Nat : MN[n] \in Nat /\ MN[n] <= MN[n + 1]
              /\ \A n \in Nat : MN[n + 2] = MN[n + 1] + MN[n] + 1
<1> DEFINE S == Nat \X Nat
           step == [p \in S |-> <<p[2], p[1] + p[2] + 1>>]
           Goes(w) == w = [d \in Nat |-> IF d < 2 THEN d ELSE w[d - 1] + w[d - 2] + 1]
<1>1. StaysIn(step, S) /\ (\A p \in S : step[p] = <<p[2], p[1] + p[2] + 1>>) /\ <<0, 1>> \in S
  BY DEF StaysIn
<1> HIDE DEF step, S
<1>2. PICK f : Repeats(f, step, S, <<0, 1>>)
  BY ONLY <1>1, StepsGoOn
<1> DEFINE g == [d \in Nat |-> f[d][1]]
<1>3. /\ f[0] = <<0, 1>>
      /\ \A n \in Nat : /\ f[n] \in S /\ f[n + 1] = <<f[n][2], f[n][1] + f[n][2] + 1>>
                        /\ f[n][1] \in Nat /\ f[n][2] \in Nat
  <2>1. f \in [Nat -> S] /\ f[0] = <<0, 1>> /\ \A n \in Nat : f[n + 1] = step[f[n]]
    BY <1>2 DEF Repeats
  <2>2. \A n \in Nat : f[n] \in S
    BY <2>1
  <2>3. \A p \in S : p[1] \in Nat /\ p[2] \in Nat
    BY DEF S
  <2> QED
    BY ONLY <1>1, <2>1, <2>2, <2>3
<1>4. \A n \in Nat : /\ g[n] = f[n][1] /\ g[n + 1] = f[n][2]
                     /\ g[n + 2] = f[n][1] + f[n][2] + 1
  <2> TAKE n \in Nat
  <2>1. n + 1 \in Nat /\ n + 2 \in Nat /\ (n + 1) + 1 = n + 2
    OBVIOUS
  <2>2. g[n] = f[n][1] /\ g[n + 1] = f[n + 1][1] /\ g[n + 2] = f[n + 2][1]
    BY <2>1
  <2>3. f[n + 1] = <<f[n][2], f[n][1] + f[n][2] + 1>>
    BY <1>3
  <2>4. f[n + 2] = <<f[n + 1][2], f[n + 1][1] + f[n + 1][2] + 1>>
    BY <1>3, <2>1
  <2> QED
    BY ONLY <2>2, <2>3, <2>4
<1>5. Goes(g)
  <2>1. \A d \in Nat : g[d] = IF d < 2 THEN d ELSE g[d - 1] + g[d - 2] + 1
    <3> TAKE d \in Nat
    <3>1. g[0] = 0 /\ g[1] = 1
      BY <1>3, <1>4
    <3>2. CASE d < 2
      <4>1. d = 0 \/ d = 1
        BY <3>2
      <4> HIDE DEF g
      <4> QED
        BY ONLY <3>1, <3>2, <4>1
    <3>3. CASE ~(d < 2)
      <4> DEFINE n == d - 2
      <4>1. n \in Nat /\ n + 2 = d /\ n + 1 = d - 1
        BY <3>3
      <4> HIDE DEF n, g
      <4>2. g[n] = f[n][1] /\ g[n + 1] = f[n][2] /\ g[n + 2] = f[n][1] + f[n][2] + 1
            /\ f[n][1] \in Nat /\ f[n][2] \in Nat
        BY ONLY <1>3, <1>4, <4>1
      <4>3. g[n + 2] = g[n + 1] + g[n] + 1
        BY <4>2
      <4> QED
        BY ONLY <3>3, <4>1, <4>3 DEF n
    <3> QED
      BY ONLY <3>2, <3>3
  <2>2. g = [d \in Nat |-> g[d]]
    OBVIOUS
  <2> HIDE DEF g
  <2> QED
    BY ONLY <2>1, <2>2
<1>6. Goes(MN)
  <2>1. MN = CHOOSE w : Goes(w)
    BY DEF MN
  <2> HIDE DEF Goes
  <2> QED
    BY ONLY <1>5, <2>1
<1>7. \A d \in Nat : MN[d] = IF d < 2 THEN d ELSE MN[d - 1] + MN[d - 2] + 1
  <2>1. \A w : Goes(w) => \A d \in Nat : w[d] = IF d < 2 THEN d ELSE w[d - 1] + w[d - 2] + 1
    OBVIOUS
  <2> HIDE DEF Goes
  <2> QED
    BY <1>6, <2>1
<1> HIDE DEF Goes
<1>8. MN[0] = 0 /\ MN[1] = 1 /\ \A n \in Nat : MN[n + 2] = MN[n + 1] + MN[n] + 1
  <2>1. MN[0] = 0 /\ MN[1] = 1
    BY <1>7
  <2>2. ASSUME NEW n \in Nat PROVE MN[n + 2] = MN[n + 1] + MN[n] + 1
    <3>1. n + 2 \in Nat /\ ~(n + 2 < 2) /\ (n + 2) - 1 = n + 1 /\ (n + 2) - 2 = n
      OBVIOUS
    <3> QED
      BY <1>7, <3>1
  <2> QED
    BY ONLY <2>1, <2>2
<1> DEFINE P == {n \in Nat : MN[n] \in Nat /\ MN[n + 1] \in Nat /\ MN[n] <= MN[n + 1]}
<1>9. 0 \in P
  BY <1>8
<1>10. ASSUME NEW n \in Nat, n \in P PROVE n + 1 \in P
  <2>1. n + 1 \in Nat /\ (n + 1) + 1 = n + 2
    OBVIOUS
  <2>2. MN[n] \in Nat /\ MN[n + 1] \in Nat /\ MN[n + 2] = MN[n + 1] + MN[n] + 1
    BY ONLY <1>8, <1>10
  <2> QED
    BY ONLY <2>1, <2>2
<1>11. Nat \subseteq P
  <2> HIDE DEF P
  <2> QED
    BY <1>9, <1>10, AllNaturals
<1> QED
  BY <1>8, <1>11

\* An AVL tree of a depth has at least as many nodes as the table says.
THEOREM MNSound ==
    ASSUME NEW t, NEW h, NEW S, NEW d, Avl(t, h, S, d)
    PROVE  MN[d] <= Cardinality(S)
<1> DEFINE P == {n \in Nat : \A g, T : Avl(t, g, T, n) => MN[n] <= Cardinality(T)}
<1>1. ASSUME NEW n \in Nat, \A m \in 0..(n - 1) : m \in P PROVE n \in P
  <2> SUFFICES ASSUME NEW g, NEW T, Avl(t, g, T, n) PROVE MN[n] <= Cardinality(T)
    OBVIOUS
  <2>1. CASE g = null
    <3>1. T = {} /\ n = 0
      BY <2>1, AvlNull
    <3> QED
      BY <3>1, FS_EmptySet, MNIs
  <2>2. CASE g # null
    <3>1. PICK A, da, B, db : /\ Parts(t, g, less, A, da, B, db) /\ Leans(t, g, less, da, db)
                              /\ T = A \union B \union {g} /\ n = 1 + Deeper(da, db)
      BY <2>2, Split, Sides DEF Side
    <3>2. da \in Nat /\ db \in Nat /\ g \in Elem
      BY <2>2, <3>1, AvlType DEF Parts
    <3>3. da <= n - 1 /\ db <= n - 1 /\ (n = 1 + da \/ n = 1 + db)
      BY <3>1, <3>2 DEF Deeper
    <3>4. MN[da] <= Cardinality(A) /\ MN[db] <= Cardinality(B)
      <4>1. da \in P /\ db \in P
        BY <1>1, <3>2, <3>3
      <4> QED
        BY <3>1, <4>1 DEF Parts
    <3>5. /\ Cardinality(A) \in Nat /\ Cardinality(B) \in Nat
          /\ Cardinality(T) = Cardinality(A) + Cardinality(B) + 1
      <4>1. less \in Side
        BY DEF Side
      <4>2. Parts(t, g, less, A, da, B, db) /\ T = A \union B \union {g}
        BY <3>1
      <4> HIDE DEF P
      <4>3. Sized(A, B, g)
        BY <3>2, <4>1, <4>2, SizeIs
      <4> QED
        BY <4>2, <4>3 DEF Sized
    <3>6. da - db \in -1..1 /\ db - da \in -1..1
      <4>1. t.bf[g] \in -1..1 /\ (t.bf[g] = da - db \/ t.bf[g] = db - da)
        BY <3>1 DEF Leans
      <4> QED
        BY <3>2, <4>1
    <3>7. MN[da] \in Nat /\ MN[db] \in Nat
      BY <3>2, MNIs
    <3>8. CASE n = 1
      BY <3>4, <3>5, <3>7, <3>8, MNIs
    <3>9. CASE n # 1
      <4> DEFINE m == n - 2
                 k == m + 1
      <4>1. /\ m \in Nat /\ n = m + 2
            /\ (da = k /\ db = k) \/ (da = k /\ db = m) \/ (da = m /\ db = k)
        BY <3>2, <3>3, <3>6, <3>9
      <4>2. MN[n] = MN[k] + MN[m] + 1 /\ MN[m] <= MN[k] /\ MN[m] \in Nat /\ MN[k] \in Nat
        <5>1. \A i \in Nat : /\ MN[i + 2] = MN[i + 1] + MN[i] + 1 /\ MN[i] <= MN[i + 1]
                             /\ MN[i] \in Nat /\ MN[i + 1] \in Nat
          BY MNIs
        <5> HIDE DEF m
        <5> QED
          BY <4>1, <5>1
      <4> HIDE DEF k, m
      <4>3. MN[n] <= MN[da] + MN[db] + 1
        BY <3>7, <4>1, <4>2
      <4>4. MN[n] \in Nat
        BY MNIs
      <4> QED
        BY <3>4, <3>5, <3>7, <4>3, <4>4
    <3> QED
      BY <3>8, <3>9
  <2> QED
    BY <2>1, <2>2
<1>2. Nat \subseteq P
  <2> HIDE DEF P
  <2> QED
    BY <1>1, StrongNaturals
<1>3. d \in Nat
  BY AvlType
<1> QED
  BY <1>2, <1>3

\* A tree that holds the nodes in inside is no deeper than the table says.
LEMMA HoldsWithin == Holds(tree, inside) => DepthWithinTable
<1> SUFFICES ASSUME Holds(tree, inside) PROVE DepthWithinTable
  OBVIOUS
<1>1. PICK sub, dep : Witness(tree, tree.root, sub, dep) /\ sub[tree.root] = inside
  BY HoldsIs
<1>2. tree \in Tree
  BY HoldsIs
<1>3. Depth(tree, tree.root) = dep[tree.root]
  BY <1>1, <1>2, DepthIs
<1>4. Avl(tree, tree.root, inside, dep[tree.root])
  BY <1>1 DEF Avl
<1> QED
  BY <1>3, <1>4, MNSound DEF DepthWithinTable

\* After any sequence of operations the tree holds exactly the nodes the caller
\* has put in, in the order of their keys, and every balance factor is the
\* difference in depth of the two subtrees, at most one.
THEOREM AvlShaped == Spec => []AvlShape
<1>1. AvlInv => AvlShape
  <2> SUFFICES ASSUME AvlInv PROVE AvlShape
    OBVIOUS
  <2>1. CASE marching = 0
    BY <2>1, TendedTree, HoldsShape
  <2>2. CASE marching # 0
    BY ONLY <2>2 DEF AvlShape
  <2> QED
    BY <2>1, <2>2
<1> QED
  BY <1>1, AvlSound, PTL

\* The tree is never deeper than the documented table allows for the number of
\* its nodes, by which the arrays branch and path_h are sized.
THEOREM AvlFits == Spec => []DepthWithinTable
<1>1. AvlInv => DepthWithinTable
  <2> SUFFICES ASSUME AvlInv PROVE DepthWithinTable
    OBVIOUS
  <2>1. CASE marching = 0
    BY <2>1, TendedTree, HoldsWithin
  <2>2. CASE marching # 0
    BY <2>2 DEF DepthWithinTable
  <2> QED
    BY <2>1, <2>2
<1> QED
  BY <1>1, AvlSound, PTL
=============================================================================
