-------------------------- MODULE HashTableProofs ---------------------------
(* The hash table, for any number of buckets, elements and keys: each bucket *)
(* is a sound list of the elements whose keys have its hash value, so that a *)
(* search finds what the table holds, and the table is a KeyedTable.         *)
EXTENDS HashTable, Integers, SequencesExt, FiniteSetTheorems, SequenceTheorems, TLAPS

\* The list an element is in: the bucket of its key.
Bucket(keys) ==
  [e \in Elem |-> IF keys[e] = null THEN null ELSE HashKey[keys[e]]]

\* What is proved of the operators of ListOps in ListProofs, the calling code of
\* the lists being this table.
LP == INSTANCE ListProofs WITH owner <- Bucket(keyOf)

OneEach == \A e, f \in Elem : keyOf[e] # null /\ keyOf[e] = keyOf[f] => e = f

\* The inductive invariant.
TableInv == TypeOK /\ LP!Sound(heap, Bucket(keyOf)) /\ OneEach

\* So is the finiteness they assume.
LEMMA SameFinite == LP!IsFiniteSet(Elem)
  BY ListOpsAssumption DEF IsFiniteSet, LP!IsFiniteSet

\* The operators of ListOps are named LP!... in what is proved of them.
LEMMA SameOperators ==
  /\ LP!Fresh = Fresh /\ LP!Storage = Storage /\ LP!Direction = Direction
  /\ LP!forward = forward
  /\ \A s, l : LP!Visited(s, l) = Visited(s, l) /\ LP!LastOf(s, l) = LastOf(s, l)
  /\ \A s, l, x : LP!Before(s, l, x) = Before(s, l, x)
  /\ \A s, l, d : LP!Pop(s, l, d) = Pop(s, l, d) /\ LP!Popped(s, l, d) = Popped(s, l, d)
  /\ \A s, l, x : LP!RemoveForward(s, l, x) = RemoveForward(s, l, x)
  /\ \A s, l, x : LP!RemoveElem(s, l, x) = RemoveElem(s, l, x)
  /\ \A s, l, x, d : LP!Push(s, l, x, d) = Push(s, l, x, d)
  /\ \A s, l, h : LP!Tailed(s, l, h) = Tailed(s, l, h)
  /\ \A q, i, x : LP!InsertAt(q, i, x) = InsertAt(q, i, x)
  /\ \A q, i : LP!RemoveAt(q, i) = RemoveAt(q, i)
  BY DEF Fresh, LP!Fresh, Storage, LP!Storage, Handle, LP!Handle, Direction,
         LP!Direction, forward, LP!forward, reverse, LP!reverse, Visited, LP!Visited,
         Onward, LP!Onward, Closed, LP!Closed, LastOf, LP!LastOf, Before, LP!Before,
         Start, LP!Start, Empty, LP!Empty, Tailed, LP!Tailed, Push, LP!Push,
         RemoveForward, LP!RemoveForward, RemoveElem, LP!RemoveElem, Pop, LP!Pop,
         Popped, LP!Popped, InsertAt, LP!InsertAt, RemoveAt, LP!RemoveAt

-----------------------------------------------------------------------------
\* The same list operators with the names of this module.
LEMMA BucketVisited ==
  ASSUME NEW s, NEW own, LP!Sound(s, own), NEW l \in List
  PROVE  Visited(s, l) = {x \in Elem : own[x] = l}
<1>1. LP!Visited(s, l) = {x \in Elem : own[x] = l}
  BY LP!VisitedIsList, ListOpsAssumption, SameFinite
<1> QED
  BY <1>1, SameOperators

\* Empty buckets.
LEMMA EmptyBuckets ==
  ASSUME NEW s \in Storage, \A l \in List : s.head[l] = null,
         \A l \in StoreTail : s.tail[l] = null
  PROVE  LP!Sound(s, [e \in Elem |-> null])
<1>1. s \in LP!Storage
  BY SameOperators
<1> QED
  BY <1>1, LP!EmptySound, ListOpsAssumption, SameFinite

\* The links of a bucket, place by place.
LEMMA LineIs ==
  ASSUME NEW s, NEW own, LP!Sound(s, own), NEW l \in List, NEW q, q = LP!Chain(s, l)
  PROVE  /\ s \in Storage
         /\ q \in Seq(Elem) /\ Len(q) \in Nat
         /\ \A i \in 1..Len(q) : /\ q[i] \in Elem /\ own[q[i]] = l
                                 /\ s.next[q[i]] = IF i < Len(q) THEN q[i + 1] ELSE null
         /\ \A x \in Elem : own[x] = l => \E i \in 1..Len(q) : q[i] = x
         /\ \A i, j \in 1..Len(q) : q[i] = q[j] => i = j
         /\ IF s.head[l] = null THEN q = <<>> /\ Len(q) = 0
            ELSE q # <<>> /\ 1 \in 1..Len(q) /\ q[1] = s.head[l]
<1>1. s \in LP!Storage
  BY LP!InStorage, ListOpsAssumption, SameFinite
<1>2. /\ q \in Seq(Elem) /\ Len(q) \in Nat
      /\ \A i \in 1..Len(q) : /\ q[i] \in Elem /\ own[q[i]] = l
                              /\ s.next[q[i]] = IF i < Len(q) THEN q[i + 1] ELSE null
      /\ \A x \in Elem : own[x] = l => \E i \in 1..Len(q) : q[i] = x
      /\ \A i, j \in 1..Len(q) : q[i] = q[j] => i = j
      /\ IF s.head[l] = null THEN q = <<>> /\ Len(q) = 0
         ELSE q # <<>> /\ 1 \in 1..Len(q) /\ q[1] = s.head[l]
  BY LP!ChainIs, ListOpsAssumption, SameFinite
<1> QED
  BY <1>1, <1>2, SameOperators

\* From s to n the bucket l becomes p, and own becomes o.
Turns(s, n, o, l, p) == LP!Sound(n, o) /\ LP!Becomes(s, n, l, p)

\* push() puts an element first.
LEMMA PushLine ==
  ASSUME NEW s, NEW own, LP!Sound(s, own), NEW l \in List, NEW q, q = LP!Chain(s, l),
         NEW x \in Elem, own[x] = null
  PROVE  Turns(s, Push(s, l, x, forward), [own EXCEPT ![x] = l], l, InsertAt(q, 1, x))
<1>1. forward \in LP!Direction
  BY SameOperators DEF Direction
<1> DEFINE k == IF forward = LP!forward THEN 1 ELSE Len(q) + 1
<1>2. /\ LP!Sound(LP!Push(s, l, x, forward), [own EXCEPT ![x] = l])
      /\ LP!Becomes(s, LP!Push(s, l, x, forward), l, LP!InsertAt(q, k, x))
  BY <1>1, LP!PushSound, ListOpsAssumption, SameFinite
<1>3. k = 1
  BY SameOperators
<1> HIDE DEF k
<1> QED
  BY <1>2, <1>3, SameOperators DEF Turns

\* pop() takes the first one out.
LEMMA PopLine ==
  ASSUME NEW s, NEW own, LP!Sound(s, own), NEW l \in List, NEW q, q = LP!Chain(s, l),
         s.head[l] # null
  PROVE  Turns(s, Pop(s, l, forward), [own EXCEPT ![q[1]] = null], l, RemoveAt(q, 1))
<1>1. forward \in LP!Direction
  BY SameOperators DEF Direction
<1> DEFINE k == LP!EndPlace(q, forward)
<1>2. k = 1
  BY SameOperators DEF LP!EndPlace
<1>3. k = LP!EndPlace(q, forward)
  OBVIOUS
<1> HIDE DEF k
<1>4. /\ LP!Sound(LP!Pop(s, l, forward), [own EXCEPT ![q[k]] = null])
      /\ LP!Becomes(s, LP!Pop(s, l, forward), l, LP!RemoveAt(q, k))
  BY <1>1, <1>3, LP!PopSound, ListOpsAssumption, SameFinite
<1> QED
  BY <1>2, <1>4, SameOperators DEF Turns

\* remove_forward() of the element before takes one out, and so does remove().
LEMMA RemoveLine ==
  ASSUME NEW s, NEW own, LP!Sound(s, own), NEW l \in List, NEW q, q = LP!Chain(s, l),
         NEW i \in 1..Len(q)
  PROVE  /\ Turns(s, RemoveElem(s, l, q[i]), [own EXCEPT ![q[i]] = null], l, RemoveAt(q, i))
         /\ i # 1 => Turns(s, RemoveForward(s, l, Before(s, l, q[i])),
                           [own EXCEPT ![q[i]] = null], l, RemoveAt(q, i))
<1>1. /\ LP!Sound(LP!RemoveElem(s, l, q[i]), [own EXCEPT ![q[i]] = null])
      /\ LP!Becomes(s, LP!RemoveElem(s, l, q[i]), l, LP!RemoveAt(q, i))
  BY LP!RemoveElemSound, ListOpsAssumption, SameFinite
<1>2. ASSUME i # 1
      PROVE  Turns(s, RemoveForward(s, l, Before(s, l, q[i])),
                   [own EXCEPT ![q[i]] = null], l, RemoveAt(q, i))
  <2> DEFINE k == i - 1
  <2>1. k \in 1..Len(q) /\ k < Len(q) /\ k + 1 = i
    BY <1>2, LineIs
  <2>2. LP!Before(s, l, q[i]) = IF i = 1 THEN null ELSE q[i - 1]
    BY LP!BeforeIs, ListOpsAssumption, SameFinite
  <2>3. Before(s, l, q[i]) = q[k]
    BY <1>2, <2>2, SameOperators
  <2> HIDE DEF k
  <2>4. s.next[q[k]] # null
    <3>1. s.next[q[k]] = q[k + 1] /\ q[k + 1] \in Elem
      BY <2>1, LineIs
    <3> QED
      BY <3>1, ListOpsAssumption
  <2>5. /\ LP!Sound(LP!RemoveForward(s, l, q[k]), [own EXCEPT ![q[k + 1]] = null])
        /\ LP!Becomes(s, LP!RemoveForward(s, l, q[k]), l, LP!RemoveAt(q, k + 1))
    BY <2>1, <2>4, LP!RemoveForwardSound, ListOpsAssumption, SameFinite
  <2> QED
    BY <2>1, <2>3, <2>5, SameOperators DEF Turns
<1> QED
  BY <1>1, <1>2, SameOperators DEF Turns

\* The buckets are those of the keys.
LEMMA BucketIs ==
  ASSUME NEW keys \in [Elem -> Key \cup {null}]
  PROVE  /\ \A e \in Elem : Bucket(keys)[e] = null <=> keys[e] = null
         /\ \A e \in Elem : keys[e] # null => Bucket(keys)[e] = HashKey[keys[e]]
         /\ \A e \in Elem :
              Bucket([keys EXCEPT ![e] = null]) = [Bucket(keys) EXCEPT ![e] = null]
<1>1. null \notin Key /\ \A k \in Key : HashKey[k] # null
  BY HashTableAssumption, ListOpsAssumption
<1>2. \A e \in Elem : Bucket(keys)[e] = IF keys[e] = null THEN null ELSE HashKey[keys[e]]
  BY DEF Bucket
<1>3. \A e \in Elem : Bucket(keys)[e] = null <=> keys[e] = null
  BY <1>1, <1>2
<1>4. \A e \in Elem :
        Bucket([keys EXCEPT ![e] = null]) = [Bucket(keys) EXCEPT ![e] = null]
  BY DEF Bucket
<1> QED
  BY <1>2, <1>3, <1>4

\* A search finds the element with a key, and none where there is none.
LEMMA SearchFinds ==
  ASSUME NEW k \in Key
  PROVE  TableInv =>
           IF \E e \in Elem : keyOf[e] = k
           THEN Search(k) \in Elem /\ keyOf[Search(k)] = k
           ELSE Search(k) = null
<1> SUFFICES ASSUME TableInv
             PROVE  IF \E e \in Elem : keyOf[e] = k
                    THEN Search(k) \in Elem /\ keyOf[Search(k)] = k
                    ELSE Search(k) = null
  OBVIOUS
<1> DEFINE found == {e \in Visited(heap, HashKey[k]) : keyOf[e] = k}
<1>1. k # null /\ HashKey[k] \in List /\ keyOf \in [Elem -> Key \cup {null}]
  BY HashTableAssumption DEF TableInv, TypeOK
<1>2. Visited(heap, HashKey[k]) = {e \in Elem : Bucket(keyOf)[e] = HashKey[k]}
  BY <1>1, BucketVisited DEF TableInv
<1>3. found = {e \in Elem : keyOf[e] = k}
  BY <1>1, <1>2, BucketIs
<1>4. Search(k) = IF found = {} THEN null ELSE CHOOSE e \in found : TRUE
  BY DEF Search
<1> HIDE DEF found
<1>5. found # {} => Search(k) \in found
  BY <1>4
<1> QED
  BY <1>3, <1>4, <1>5

-----------------------------------------------------------------------------
\* A new table is empty.
LEMMA TableInit == Init => TableInv
<1> SUFFICES ASSUME Init PROVE TableInv
  OBVIOUS
<1>1. Bucket(keyOf) = [e \in Elem |-> null] /\ OneEach
  BY DEF Init, Bucket, OneEach
<1>2. /\ heap \in Storage /\ \A l \in List : heap.head[l] = null
      /\ \A l \in StoreTail : heap.tail[l] = null
  BY ListOpsAssumption DEF Init, Fresh, Storage, Handle
<1>3. LP!Sound(heap, Bucket(keyOf))
  BY <1>1, <1>2, EmptyBuckets
<1>4. TypeOK
  <2>1. heap \in Storage
    BY <1>2
  <2>2. hv \in 0..(IndexMod - 1)
    BY HashTableAssumption DEF Init
  <2> QED
    BY <2>1, <2>2 DEF Init, TypeOK, Handle
<1> QED
  BY <1>1, <1>3, <1>4 DEF TableInv

\* What an operation turns a bucket into is a matter of the bucket alone.
LEMMA TurnsSound ==
  ASSUME NEW s, NEW n, NEW o, NEW l, NEW p, Turns(s, n, o, l, p)
  PROVE  LP!Sound(n, o) /\ n \in Storage
<1>1. LP!Sound(n, o)
  BY DEF Turns
<1>2. n \in LP!Storage
  BY <1>1, LP!InStorage, ListOpsAssumption, SameFinite
<1> QED
  BY <1>1, <1>2, SameOperators

\* insert()
LEMMA InsertTurns ==
  ASSUME TableInv, NEW e \in Elem, NEW k \in Key, InsertElem(e, k),
         NEW q, q = LP!Chain(heap, HashKey[k])
  PROVE  /\ Bucket(keyOf') = [Bucket(keyOf) EXCEPT ![e] = HashKey[k]]
         /\ Turns(heap, heap', Bucket(keyOf'), HashKey[k], InsertAt(q, 1, e))
<1>1. /\ k # null /\ HashKey[k] \in List /\ keyOf \in [Elem -> Key \cup {null}]
  BY HashTableAssumption DEF TableInv, TypeOK
<1>2. Bucket(keyOf)[e] = null
  BY <1>1, BucketIs DEF InsertElem
<1>3. Bucket(keyOf') = [Bucket(keyOf) EXCEPT ![e] = HashKey[k]]
  <2>1. keyOf' = [keyOf EXCEPT ![e] = k]
    BY DEF InsertElem
  <2>2. Bucket([keyOf EXCEPT ![e] = k]) = [Bucket(keyOf) EXCEPT ![e] = HashKey[k]]
    BY <1>1 DEF Bucket
  <2> QED
    BY <2>1, <2>2
<1>4. Turns(heap, Push(heap, HashKey[k], e, forward),
            [Bucket(keyOf) EXCEPT ![e] = HashKey[k]], HashKey[k], InsertAt(q, 1, e))
  BY <1>1, <1>2, PushLine DEF TableInv
<1> QED
  BY <1>3, <1>4 DEF InsertElem

\* An insert keeps the keys apart and the lists sound.
LEMMA InsertKeeps ==
  ASSUME TableInv, NEW e \in Elem, NEW k \in Key, InsertElem(e, k)
  PROVE  TableInv'
<1>1. /\ k # null /\ keyOf \in [Elem -> Key \cup {null}]
  BY HashTableAssumption DEF TableInv, TypeOK
<1>2. LP!Sound(heap', Bucket(keyOf')) /\ heap' \in Storage
  BY InsertTurns, TurnsSound
<1>3. OneEach'
  BY <1>1 DEF InsertElem, OneEach, TableInv
<1>4. TypeOK'
  BY <1>1, <1>2 DEF InsertElem, TypeOK, TableInv, iterVars
<1> QED
  BY <1>2, <1>3, <1>4 DEF TableInv

\* The element e is taken out of the bucket of its key.
TakenFrom(e) ==
  \E q, i : /\ q = LP!Chain(heap, Bucket(keyOf)[e]) /\ i \in 1..Len(q) /\ q[i] = e
            /\ Turns(heap, heap', [Bucket(keyOf) EXCEPT ![e] = null],
                     Bucket(keyOf)[e], RemoveAt(q, i))

\* What is left to see where one element is taken out.
LEMMA RemovedKeeps ==
  ASSUME TableInv, NEW e \in Elem, Removed({e}),
         TakenFrom(e)
  PROVE  TableInv' /\ Bucket(keyOf') = [Bucket(keyOf) EXCEPT ![e] = null]
<1>1. keyOf \in [Elem -> Key \cup {null}] /\ keyOf' = [keyOf EXCEPT ![e] = null]
  BY DEF TableInv, TypeOK, Removed
<1>2. Bucket(keyOf') = [Bucket(keyOf) EXCEPT ![e] = null]
  BY <1>1, BucketIs
<1>3. LP!Sound(heap', Bucket(keyOf')) /\ heap' \in Storage
  BY <1>2, TurnsSound DEF TakenFrom
<1>4. OneEach'
  BY <1>1 DEF OneEach, TableInv
<1>5. TypeOK'
  BY <1>1, <1>3 DEF Removed, TypeOK, TableInv
<1> QED
  BY <1>2, <1>3, <1>4, <1>5 DEF TableInv

\* remove_key(), of a key in the table
LEMMA RemoveKeyTakes ==
  ASSUME TableInv, NEW k \in Key, RemoveKey(k), Search(k) # null
  PROVE  /\ Search(k) \in Elem /\ keyOf[Search(k)] = k
         /\ Removed({Search(k)}) /\ TakenFrom(Search(k))
<1> DEFINE b == HashKey[k]
           e == Search(k)
           q == LP!Chain(heap, b)
<1>1. e \in Elem /\ keyOf[e] = k
  BY SearchFinds
<1>2. k # null /\ b \in List /\ keyOf \in [Elem -> Key \cup {null}]
  BY HashTableAssumption DEF TableInv, TypeOK
<1>3. Bucket(keyOf)[e] = b
  BY <1>1, <1>2, BucketIs
<1>4. LP!Sound(heap, Bucket(keyOf)) /\ q = LP!Chain(heap, b)
  BY DEF TableInv
<1>5. IF e = heap.head[b] THEN heap' = Pop(heap, b, forward) /\ Removed({e})
      ELSE heap' = RemoveForward(heap, b, Before(heap, b, e)) /\ Removed({e})
  BY <1>1, ListOpsAssumption DEF RemoveKey
<1> HIDE DEF b, e, q
<1>6. /\ \E i \in 1..Len(q) : q[i] = e
      /\ \A i, j \in 1..Len(q) : q[i] = q[j] => i = j
      /\ IF heap.head[b] = null THEN q = <<>> /\ Len(q) = 0
         ELSE q # <<>> /\ 1 \in 1..Len(q) /\ q[1] = heap.head[b]
  BY <1>1, <1>2, <1>3, <1>4, LineIs
<1>7. PICK i \in 1..Len(q) : q[i] = e
  BY <1>6
<1>8. heap.head[b] # null /\ (e = heap.head[b] <=> i = 1)
  BY <1>6, <1>7
<1>9. Turns(heap, heap', [Bucket(keyOf) EXCEPT ![e] = null], b, RemoveAt(q, i))
  <2>1. CASE i = 1
    <3>1. Turns(heap, Pop(heap, b, forward), [Bucket(keyOf) EXCEPT ![q[1]] = null],
                b, RemoveAt(q, 1))
      BY <1>2, <1>4, <1>8, PopLine
    <3> QED
      BY <1>5, <1>7, <1>8, <2>1, <3>1
  <2>2. CASE i # 1
    <3>1. Turns(heap, RemoveForward(heap, b, Before(heap, b, q[i])),
                [Bucket(keyOf) EXCEPT ![q[i]] = null], b, RemoveAt(q, i))
      BY <1>2, <1>4, <2>2, RemoveLine
    <3> QED
      BY <1>5, <1>7, <1>8, <2>2, <3>1
  <2> QED
    BY <2>1, <2>2
<1>10. TakenFrom(e)
  BY <1>3, <1>4, <1>7, <1>9 DEF TakenFrom
<1> QED
  BY <1>1, <1>5, <1>10 DEF e

\* remove()
LEMMA RemoveHandleTakes ==
  ASSUME TableInv, NEW e \in Elem, RemoveHandle(e)
  PROVE  Removed({e}) /\ TakenFrom(e)
<1> DEFINE b == HashKey[keyOf[e]]
           q == LP!Chain(heap, b)
<1>1. /\ b \in List /\ Bucket(keyOf)[e] = b
      /\ heap' = RemoveElem(heap, b, e) /\ Removed({e})
  BY HashTableAssumption, BucketIs DEF TableInv, TypeOK, RemoveHandle, Stored
<1>2. LP!Sound(heap, Bucket(keyOf)) /\ q = LP!Chain(heap, b)
  BY DEF TableInv
<1> HIDE DEF b, q
<1>3. \E i \in 1..Len(q) : q[i] = e
  BY <1>1, <1>2, LineIs
<1>4. PICK i \in 1..Len(q) : q[i] = e
  BY <1>3
<1>5. Turns(heap, RemoveElem(heap, b, q[i]), [Bucket(keyOf) EXCEPT ![q[i]] = null],
            b, RemoveAt(q, i))
  BY <1>1, <1>2, RemoveLine
<1> QED
  BY <1>1, <1>2, <1>4, <1>5 DEF TakenFrom

\* purge()
LEMMA PurgeAllKeeps ==
  ASSUME TableInv, PurgeAll
  PROVE  TableInv' /\ \A e \in Elem : keyOf'[e] = null
<1>1. /\ heap \in Storage /\ keyOf' = [e \in Elem |-> null]
      /\ StoreTail \subseteq List
  BY ListOpsAssumption DEF TableInv, TypeOK, PurgeAll, Removed, Stored
<1>2. \A i \in List : /\ Purge(heap, i).head[i] = null
                      /\ Purge(heap, i).tail[i] \in Handle
                      /\ i \in StoreTail => Purge(heap, i).tail[i] = null
  <2> TAKE i \in List
  <2> DEFINE m == [heap EXCEPT !.head[i] = null]
  <2>1. m \in Storage /\ m.head[i] = null /\ null \in Handle
    BY <1>1 DEF Storage, Handle
  <2>2. Purge(heap, i) = Tailed(m, i, null)
    BY DEF Purge
  <2> HIDE DEF m
  <2>3. /\ Tailed(m, i, null) \in Storage /\ Tailed(m, i, null).head = m.head
        /\ i \in StoreTail => Tailed(m, i, null).tail[i] = null
    BY <2>1 DEF Tailed, Storage
  <2> QED
    BY <2>1, <2>2, <2>3 DEF Storage
<1>3. /\ heap' \in Storage /\ \A i \in List : heap'.head[i] = null
      /\ \A i \in StoreTail : heap'.tail[i] = null
  BY <1>1, <1>2 DEF PurgeAll, Storage, Handle
<1>4. Bucket(keyOf') = [e \in Elem |-> null] /\ OneEach'
  BY <1>1 DEF Bucket, OneEach
<1>5. LP!Sound(heap', Bucket(keyOf'))
  BY <1>3, <1>4, EmptyBuckets
<1>6. TypeOK'
  BY <1>1, <1>3 DEF PurgeAll, Removed, TypeOK, TableInv
<1> QED
  BY <1>1, <1>4, <1>5, <1>6 DEF TableInv

-----------------------------------------------------------------------------
\* What the iterator comes to is a hash value, and an element or null.
LEMMA AdvancedType ==
  ASSUME TableInv, NEW h \in 0..(IndexMod - 1), NEW c \in Handle
  PROVE  Advanced(h, c).hv \in 0..(IndexMod - 1) /\ Advanced(h, c).curr \in Handle
<1>1. heap \in Storage /\ null \in Handle
  BY DEF TableInv, TypeOK, Handle
<1>2. NumHash \in Nat /\ IndexMod \in Nat /\ NumHash < IndexMod /\ List = 0..(NumHash - 1)
  BY HashTableAssumption
<1>3. FirstFrom(h).hv \in 0..(IndexMod - 1) /\ FirstFrom(h).curr \in Handle
  <2> DEFINE n == (h + 1) % IndexMod
             full == {i \in n..(NumHash - 1) : ~Empty(heap, i)}
             first == CHOOSE j \in full : \A m \in full : j <= m
  <2>1. n \in 0..(IndexMod - 1)
    BY <1>2
  <2>2. FirstFrom(h) =
          IF full = {} THEN [hv |-> IF n < NumHash THEN NumHash ELSE n, curr |-> null]
          ELSE [hv |-> first, curr |-> Start(heap, first, forward)]
    BY DEF FirstFrom
  <2> HIDE DEF n
  <2>3. full \in SUBSET Nat /\ full \subseteq List
    BY <1>2, <2>1
  <2>4. CASE full = {}
    BY <1>1, <1>2, <2>1, <2>2, <2>4
  <2>5. CASE full # {}
    <3>1. first \in full
      <4> HIDE DEF full
      <4> QED
        BY <2>3, <2>5, LP!LeastNatural, ListOpsAssumption, SameFinite
    <3> HIDE DEF full, first
    <3>2. first \in List /\ first \in 0..(IndexMod - 1)
      BY <1>2, <2>3, <3>1
    <3>3. Start(heap, first, forward) \in Handle
      BY <1>1, <3>2 DEF Start, Storage
    <3> QED
      BY <2>2, <2>5, <3>2, <3>3
  <2> QED
    BY <2>4, <2>5
<1>4. CASE c # null /\ heap.next[c] # null
  BY <1>1, <1>4 DEF Advanced, Storage, Handle
<1>5. CASE ~(c # null /\ heap.next[c] # null)
  BY <1>3, <1>5 DEF Advanced
<1> QED
  BY <1>4, <1>5

\* The iterator changes nothing in the table.
LEMMA IterKeeps ==
  ASSUME TableInv, UNCHANGED tableVars,
         hv' \in 0..(IndexMod - 1), curr' \in Handle, valid' \in BOOLEAN,
         visited' \subseteq Elem, stayed' \subseteq Elem
  PROVE  TableInv'
  BY DEF TableInv, TypeOK, tableVars, OneEach

\* start_iter()
LEMMA StartIterKeeps == TableInv /\ StartIter => TableInv'
<1> SUFFICES ASSUME TableInv, StartIter PROVE TableInv'
  OBVIOUS
<1>1. IndexMod - 1 \in 0..(IndexMod - 1) /\ null \in Handle
  BY HashTableAssumption DEF Handle
<1>2. hv' \in 0..(IndexMod - 1) /\ curr' \in Handle
  BY <1>1, AdvancedType DEF StartIter
<1>3. valid' \in BOOLEAN /\ visited' \subseteq Elem /\ stayed' \subseteq Elem
  BY <1>2 DEF StartIter, Stored, Handle
<1> QED
  BY <1>2, <1>3, IterKeeps DEF StartIter

\* operator ++
LEMMA AdvanceKeeps == TableInv /\ Advance => TableInv'
<1> SUFFICES ASSUME TableInv, Advance PROVE TableInv'
  OBVIOUS
<1>1. hv \in 0..(IndexMod - 1) /\ curr \in Handle /\ visited \subseteq Elem
      /\ valid \in BOOLEAN /\ stayed \subseteq Elem
  BY DEF TableInv, TypeOK
<1>2. hv' \in 0..(IndexMod - 1) /\ curr' \in Handle
  BY <1>1, AdvancedType DEF Advance
<1>3. valid' \in BOOLEAN /\ visited' \subseteq Elem /\ stayed' \subseteq Elem
  BY <1>1, <1>2 DEF Advance, Handle
<1> QED
  BY <1>2, <1>3, IterKeeps DEF Advance, tableVars

\* Whatever is done with the table and the iterator keeps the invariant.
LEMMA TableNext ==
  ASSUME TableInv, [Next]_vars
  PROVE  TableInv'
<1>1. ASSUME NEW e \in Elem, NEW k \in Key, InsertElem(e, k) PROVE TableInv'
  BY <1>1, InsertKeeps
<1>2. CASE UNCHANGED vars
  BY <1>2 DEF vars, TableInv, TypeOK, OneEach
<1>3. ASSUME NEW k \in Key, RemoveKey(k) PROVE TableInv'
  <2>1. CASE Search(k) = null
    <3>1. UNCHANGED vars
      BY <1>3, <2>1 DEF RemoveKey
    <3> QED
      BY <1>2, <3>1
  <2>2. CASE Search(k) # null
    BY <1>3, <2>2, RemoveKeyTakes, RemovedKeeps
  <2> QED
    BY <2>1, <2>2
<1>4. ASSUME NEW e \in Elem, RemoveHandle(e) PROVE TableInv'
  BY <1>4, RemoveHandleTakes, RemovedKeeps
<1> QED
  BY <1>1, <1>2, <1>3, <1>4, PurgeAllKeeps, StartIterKeeps, AdvanceKeeps DEF Next

\* The buckets are always sound lists of the elements whose keys belong there,
\* and no two elements in the table have the same key.
THEOREM TableSound == Spec => []TableInv
<1>1. Init => TableInv
  BY TableInit
<1>2. TableInv /\ [Next]_vars => TableInv'
  BY TableNext
<1> QED
  BY <1>1, <1>2, PTL DEF Spec

\* Each bucket holds exactly the elements in the table whose key has its hash
\* value, so that remove() finds the element it is given in the bucket it
\* looks in.
THEOREM BucketsHoldKeysHolds == Spec => []BucketsHoldKeys
<1>1. ASSUME TableInv PROVE BucketsHoldKeys
  <2> SUFFICES ASSUME NEW b \in List
               PROVE  /\ Visited(heap, b) = InBucket(b)
                      /\ InBucket(b) # {} => \E e \in InBucket(b) : heap.next[e] = null
    BY <1>1 DEF BucketsHoldKeys, TableInv
  <2>1. keyOf \in [Elem -> Key \cup {null}] /\ b # null
    BY <1>1, ListOpsAssumption DEF TableInv, TypeOK
  <2>2. InBucket(b) = {e \in Elem : Bucket(keyOf)[e] = b}
    BY <2>1, BucketIs DEF InBucket, Stored
  <2>3. LP!Sound(heap, Bucket(keyOf))
    BY <1>1 DEF TableInv
  <2>4. Visited(heap, b) = InBucket(b)
    BY <2>2, <2>3, BucketVisited
  <2>5. ASSUME NEW e \in Elem, Bucket(keyOf)[e] = b
        PROVE  \E z \in InBucket(b) : heap.next[z] = null
    <3> DEFINE q == LP!Chain(heap, b)
    <3>1. /\ Len(q) \in Nat
          /\ \A i \in 1..Len(q) :
               /\ q[i] \in Elem /\ Bucket(keyOf)[q[i]] = b
               /\ heap.next[q[i]] = IF i < Len(q) THEN q[i + 1] ELSE null
          /\ \E i \in 1..Len(q) : q[i] = e
      BY <2>3, <2>5, LineIs
    <3> HIDE DEF q
    <3>2. Len(q) \in 1..Len(q) /\ ~(Len(q) < Len(q))
      BY <3>1
    <3> QED
      BY <2>2, <3>1, <3>2
  <2> QED
    BY <2>2, <2>4, <2>5
<1> QED
  BY <1>1, TableSound, PTL

-----------------------------------------------------------------------------
\* The key of an element is the one a search finds it with.
SearchIsKey ==
  \A k \in Key : /\ Search(k) \in Handle
                 /\ \A e \in Elem : keyOf[e] = k <=> Search(k) = e

\* It is, because a search finds what there is and keys are not shared.
LEMMA SearchShowsKeys == TableInv => SearchIsKey
<1> SUFFICES ASSUME TableInv, NEW k \in Key
             PROVE  /\ Search(k) \in Handle
                    /\ \A e \in Elem : keyOf[e] = k <=> Search(k) = e
  BY DEF SearchIsKey
<1>1. k # null /\ null \notin Elem
  BY HashTableAssumption, ListOpsAssumption
<1>2. IF \E e \in Elem : keyOf[e] = k
      THEN Search(k) \in Elem /\ keyOf[Search(k)] = k
      ELSE Search(k) = null
  BY SearchFinds
<1> QED
  BY <1>1, <1>2 DEF TableInv, OneEach, Handle

\* Where the same elements have the same keys, a search finds the same.
LEMMA SameSearch ==
  ASSUME TableInv, TableInv', NEW k \in Key, NEW f \in Handle,
         \A e \in Elem : keyOf'[e] = k <=> f = e
  PROVE  Search(k)' = f
<1>1. SearchIsKey'
  BY SearchShowsKeys, PTL
<1>2. Search(k)' \in Handle /\ \A e \in Elem : keyOf'[e] = k <=> Search(k)' = e
  BY <1>1 DEF SearchIsKey
<1> QED
  BY <1>2, ListOpsAssumption DEF Handle

\* Where one element is taken out, a search for its key finds none.
LEMMA RemovedMatches ==
  ASSUME TableInv, TableInv', NEW k \in Key, NEW e \in Elem, keyOf[e] = k, Removed({e})
  PROVE  KT!Remove(k)
<1>1. /\ keyOf \in [Elem -> Key \cup {null}] /\ null \notin Key /\ null \notin Elem
      /\ keyOf' = [keyOf EXCEPT ![e] = null]
  BY HashTableAssumption, ListOpsAssumption DEF TableInv, TypeOK, Removed
<1>2. \A j \in Key : Search(j)' = IF j = k THEN null ELSE Search(j)
  <2> TAKE j \in Key
  <2>1. Search(j) \in Handle /\ \A f \in Elem : keyOf[f] = j <=> Search(j) = f
    BY SearchShowsKeys DEF SearchIsKey
  <2>2. \A f \in Elem : keyOf[f] = k <=> f = e
    BY SearchShowsKeys DEF SearchIsKey
  <2>3. CASE j = k
    <3>1. null \in Handle /\ \A f \in Elem : keyOf'[f] = j <=> null = f
      BY <1>1, <2>2, <2>3 DEF Handle
    <3> QED
      BY <2>3, <3>1, SameSearch
  <2>4. CASE j # k
    <3>1. \A f \in Elem : keyOf'[f] = j <=> Search(j) = f
      BY <1>1, <2>1, <2>4
    <3> QED
      BY <2>1, <2>4, <3>1, SameSearch
  <2> QED
    BY <2>3, <2>4
<1> QED
  BY <1>2 DEF KT!Remove

\* Each operation is the one of KeyedTable it stands for.
LEMMA StepsMatch ==
  ASSUME TableInv, TableInv'
  PROVE  OperationsMatch
<1>1. ASSUME NEW e \in Elem, NEW k \in Key, InsertElem(e, k) PROVE KT!Insert(k, e)
  <2>1. /\ keyOf \in [Elem -> Key \cup {null}] /\ null \notin Key /\ null \notin Elem
        /\ keyOf' = [keyOf EXCEPT ![e] = k] /\ keyOf[e] = null
        /\ \A f \in Elem : keyOf[f] # k
    BY <1>1, HashTableAssumption, ListOpsAssumption DEF TableInv, TypeOK, InsertElem
  <2>2. \A j \in Key : /\ Search(j) \in Handle
                       /\ \A f \in Elem : keyOf[f] = j <=> Search(j) = f
    BY SearchShowsKeys DEF SearchIsKey
  <2>3. Search(k) = null /\ \A j \in Key : Search(j) # e
    BY <2>1, <2>2 DEF Handle
  <2>4. \A j \in Key : Search(j)' = IF j = k THEN e ELSE Search(j)
    <3> TAKE j \in Key
    <3>1. CASE j = k
      <4>1. e \in Handle /\ \A f \in Elem : keyOf'[f] = j <=> e = f
        BY <2>1, <3>1 DEF Handle
      <4> QED
        BY <3>1, <4>1, SameSearch
    <3>2. CASE j # k
      <4>1. \A f \in Elem : keyOf'[f] = j <=> Search(j) = f
        BY <2>1, <2>2, <3>2
      <4> QED
        BY <2>2, <3>2, <4>1, SameSearch
    <3> QED
      BY <3>1, <3>2
  <2> QED
    BY <2>3, <2>4 DEF KT!Insert, KT!Holds
<1>2. ASSUME NEW k \in Key, RemoveKey(k) PROVE KT!Remove(k)
  <2>1. CASE Search(k) = null
    <3>1. UNCHANGED <<heap, keyOf>>
      BY <1>2, <2>1 DEF RemoveKey, vars
    <3>2. \A j \in Key : Search(j)' = Search(j)
      BY <3>1 DEF Search, Visited
    <3> QED
      BY <2>1, <3>2 DEF KT!Remove
  <2>2. CASE Search(k) # null
    <3>1. Search(k) \in Elem /\ keyOf[Search(k)] = k
      BY <2>2, SearchFinds
    <3> QED
      BY <1>2, <2>2, <3>1, RemoveKeyTakes, RemovedMatches
  <2> QED
    BY <2>1, <2>2
<1>3. ASSUME NEW e \in Stored, RemoveHandle(e) PROVE KT!Remove(keyOf[e])
  <2>1. e \in Elem /\ keyOf[e] \in Key
    BY DEF Stored, TableInv, TypeOK
  <2> QED
    BY <1>3, <2>1, RemovedMatches DEF RemoveHandle
<1>4. ASSUME PurgeAll PROVE KT!Purge
  <2>1. null \in Handle /\ null \notin Elem /\ null \notin Key
    BY HashTableAssumption, ListOpsAssumption DEF Handle
  <2>2. \A j \in Key, f \in Elem : keyOf'[f] = j <=> null = f
    BY <1>4, <2>1, PurgeAllKeeps
  <2>3. \A j \in Key : Search(j)' = null
    BY <2>1, <2>2, SameSearch
  <2> QED
    BY <2>3 DEF KT!Purge
<1> QED
  BY <1>1, <1>2, <1>3, <1>4 DEF OperationsMatch

\* Searching shows a table with one element per key, and each operation does
\* to it what its name says, for any elements, keys and hash function.
THEOREM RefinesKeyedTable == Spec => ImplementsKeyedTable
<1>1. Init => KT!Init
  <2> SUFFICES ASSUME Init PROVE KT!Init
    OBVIOUS
  <2>1. TableInv /\ \A e \in Elem : keyOf[e] = null
    BY TableInit DEF Init
  <2>2. \A k \in Key : Search(k) = null
    BY <2>1, SearchFinds, HashTableAssumption
  <2> QED
    BY <2>2 DEF KT!Init
<1>2. TableInv /\ TableInv' /\ [Next]_vars => [OperationsMatch]_vars
  BY StepsMatch
<1>3. TableInv /\ TableInv' /\ [Next]_vars => [KT!Next]_[k \in Key |-> Search(k)]
  <2> SUFFICES ASSUME TableInv, TableInv', [Next]_vars
               PROVE  KT!Next \/ UNCHANGED [k \in Key |-> Search(k)]
    OBVIOUS
  <2>1. OperationsMatch
    BY StepsMatch
  <2>2. ASSUME UNCHANGED <<heap, keyOf>> PROVE UNCHANGED [k \in Key |-> Search(k)]
    BY <2>2 DEF Search, Visited
  <2>3. CASE UNCHANGED vars \/ StartIter \/ Advance
    BY <2>2, <2>3 DEF vars, StartIter, Advance, tableVars
  <2>4. CASE PurgeAll
    BY <2>1, <2>4 DEF OperationsMatch, KT!Next
  <2>5. ASSUME NEW e \in Elem, NEW k \in Key, InsertElem(e, k) PROVE KT!Next
    BY <2>1, <2>5 DEF OperationsMatch, KT!Next
  <2>6. ASSUME NEW k \in Key, RemoveKey(k) PROVE KT!Next
    BY <2>1, <2>6 DEF OperationsMatch, KT!Next
  <2>7. ASSUME NEW e \in Elem, RemoveHandle(e) PROVE KT!Next
    <3>1. e \in Stored /\ keyOf[e] \in Key
      BY <2>7 DEF RemoveHandle, Stored, TableInv, TypeOK
    <3> QED
      BY <2>1, <2>7, <3>1 DEF OperationsMatch, KT!Next
  <2> QED
    BY <2>3, <2>4, <2>5, <2>6, <2>7 DEF Next
<1> QED
  BY <1>1, <1>2, <1>3, TableSound, PTL DEF Spec, ImplementsKeyedTable, KT!Spec

-----------------------------------------------------------------------------
\* What comes after e in the sequence q.
Later(q, e) == {q[j] : j \in {n \in 1..Len(q) : \E i \in 1..(n - 1) : q[i] = e}}

\* No element is in q twice.
Distinct(q) == \A i, j \in 1..Len(q) : q[i] = q[j] => i = j

\* After the i-th element come those at the later places.
LEMMA LaterIs ==
  ASSUME NEW q \in Seq(Elem), Distinct(q), NEW i \in 1..Len(q)
  PROVE  \A x : x \in Later(q, q[i]) <=> \E j \in 1..Len(q) : i < j /\ q[j] = x
<1>1. Len(q) \in Nat
  BY LenProperties
<1>2. \A n \in 1..Len(q) : (\E k \in 1..(n - 1) : q[k] = q[i]) <=> i < n
  <2> TAKE n \in 1..Len(q)
  <2>1. ASSUME NEW k \in 1..(n - 1), q[k] = q[i] PROVE i < n
    <3>1. k \in 1..Len(q) /\ k < n
      BY <1>1
    <3>2. k = i
      BY <2>1, <3>1 DEF Distinct
    <3> QED
      BY <3>1, <3>2
  <2>2. i < n => i \in 1..(n - 1)
    BY <1>1
  <2> QED
    BY <2>1, <2>2
<1> QED
  BY <1>2 DEF Later

\* An element put in first comes after none.
LEMMA LaterInserted ==
  ASSUME NEW q \in Seq(Elem), Distinct(q), NEW i \in 1..Len(q), NEW y \in Elem,
         NEW p, p = InsertAt(q, 1, y), Distinct(p)
  PROVE  Later(p, q[i]) = Later(q, q[i])
<1>1. Len(q) \in Nat /\ 1 \in 1..(Len(q) + 1)
  BY LenProperties
<1>2. p \in Seq(Elem) /\ LP!PutAt(p, q, 1, y)
  <2>1. LP!InsertAt(q, 1, y) \in Seq(Elem) /\ LP!PutAt(LP!InsertAt(q, 1, y), q, 1, y)
    BY <1>1, LP!InsertedIs, ListOpsAssumption, SameFinite
  <2> QED
    BY <2>1, SameOperators
<1>3. Len(p) = Len(q) + 1 /\ \A j \in 1..Len(q) : j + 1 \in 1..Len(p) /\ p[j + 1] = q[j]
  <2>1. /\ Len(p) = Len(q) + 1
        /\ \A j \in 1..(Len(q) + 1) :
             p[j] = IF j < 1 THEN q[j] ELSE IF j = 1 THEN y ELSE q[j - 1]
    BY <1>2 DEF LP!PutAt
  <2>2. \A j \in 1..Len(q) : /\ j + 1 \in 1..(Len(q) + 1) /\ ~(j + 1 < 1)
                             /\ j + 1 # 1 /\ (j + 1) - 1 = j
    BY <1>1
  <2> QED
    BY <2>1, <2>2
<1>4. \A x : x \in Later(q, q[i]) <=> \E j \in 1..Len(q) : i < j /\ q[j] = x
  BY LaterIs
<1> DEFINE k == i + 1
<1>5. k \in 1..Len(p) /\ p[k] = q[i]
  BY <1>3
<1> HIDE DEF k
<1>6. \A x : x \in Later(p, p[k]) <=> \E j \in 1..Len(p) : k < j /\ p[j] = x
  BY <1>2, <1>5, LaterIs
<1>7. ASSUME NEW x, x \in Later(q, q[i]) PROVE x \in Later(p, q[i])
  <2>1. PICK j \in 1..Len(q) : i < j /\ q[j] = x
    BY <1>4, <1>7
  <2>2. k < j + 1 /\ j + 1 \in 1..Len(p) /\ p[j + 1] = x
    BY <1>1, <1>3, <2>1 DEF k
  <2> QED
    BY <1>5, <1>6, <2>2
<1>8. ASSUME NEW x, x \in Later(p, q[i]) PROVE x \in Later(q, q[i])
  <2>1. PICK j \in 1..Len(p) : k < j /\ p[j] = x
    BY <1>5, <1>6, <1>8
  <2>2. j - 1 \in 1..Len(q) /\ i < j - 1 /\ (j - 1) + 1 = j
    BY <1>1, <1>3, <2>1 DEF k
  <2>3. q[j - 1] = x
    BY <1>3, <2>1, <2>2
  <2> QED
    BY <1>4, <2>2, <2>3
<1> QED
  BY <1>7, <1>8

\* An element taken out comes after none any more.
LEMMA LaterRemoved ==
  ASSUME NEW q \in Seq(Elem), Distinct(q), NEW i \in 1..Len(q), NEW m \in 1..Len(q),
         i # m, NEW p, p = RemoveAt(q, m), Distinct(p)
  PROVE  Later(p, q[i]) = Later(q, q[i]) \ {q[m]}
<1>1. Len(q) \in Nat
  BY LenProperties
<1>2. p \in Seq(Elem) /\ LP!CutAt(p, q, m)
  <2>1. LP!RemoveAt(q, m) \in Seq(Elem) /\ LP!CutAt(LP!RemoveAt(q, m), q, m)
    BY LP!RemovedIs, ListOpsAssumption, SameFinite
  <2> QED
    BY <2>1, SameOperators
<1>3. /\ Len(p) = Len(q) - 1
      /\ \A j \in 1..Len(p) : p[j] = IF j < m THEN q[j] ELSE q[j + 1]
  BY <1>2 DEF LP!CutAt
<1>4. \A x : x \in Later(q, q[i]) <=> \E j \in 1..Len(q) : i < j /\ q[j] = x
  BY LaterIs
\* Where the element at place j of q is in p.
<1> DEFINE At(j) == IF j < m THEN j ELSE j - 1
           k == At(i)
<1>5. \A j \in 1..Len(q) : j # m => At(j) \in 1..Len(p) /\ p[At(j)] = q[j]
  <2> TAKE j \in 1..Len(q)
  <2> HAVE j # m
  <2>1. CASE j < m
    <3>1. j \in 1..Len(p)
      BY <1>1, <1>3, <2>1
    <3> QED
      BY <1>3, <2>1, <3>1
  <2>2. CASE ~(j < m)
    <3>1. j - 1 \in 1..Len(p) /\ ~(j - 1 < m) /\ (j - 1) + 1 = j
      BY <1>1, <1>3, <2>2
    <3> QED
      BY <1>3, <2>2, <3>1
  <2> QED
    BY <2>1, <2>2
<1>6. k \in 1..Len(p) /\ p[k] = q[i]
  BY <1>5
<1>7. \A j \in 1..Len(q) : j # m => (i < j <=> k < At(j))
  BY <1>1
<1>8. \A n \in 1..Len(p) : \E j \in 1..Len(q) : j # m /\ At(j) = n
  <2> TAKE n \in 1..Len(p)
  <2>1. CASE n < m
    <3>1. n \in 1..Len(q) /\ n # m /\ At(n) = n
      BY <1>1, <1>3, <2>1
    <3> QED
      BY <3>1
  <2>2. CASE ~(n < m)
    <3>1. n + 1 \in 1..Len(q) /\ n + 1 # m /\ At(n + 1) = n
      BY <1>1, <1>3, <2>2
    <3> QED
      BY <3>1
  <2> QED
    BY <2>1, <2>2
<1> HIDE DEF k, At
<1>9. \A x : x \in Later(p, p[k]) <=> \E j \in 1..Len(p) : k < j /\ p[j] = x
  BY <1>2, <1>6, LaterIs
<1>10. ASSUME NEW x, x \in Later(q, q[i]), x # q[m] PROVE x \in Later(p, q[i])
  <2>1. PICK j \in 1..Len(q) : i < j /\ q[j] = x
    BY <1>4, <1>10
  <2> QED
    BY <1>5, <1>6, <1>7, <1>9, <1>10, <2>1
<1>11. ASSUME NEW x, x \in Later(p, q[i]) PROVE x \in Later(q, q[i]) \ {q[m]}
  <2>1. PICK n \in 1..Len(p) : k < n /\ p[n] = x
    BY <1>6, <1>9, <1>11
  <2>2. PICK j \in 1..Len(q) : j # m /\ At(j) = n
    BY <1>8
  <2>3. i < j /\ q[j] = x
    BY <1>5, <1>7, <2>1, <2>2
  <2>4. x # q[m]
    BY <2>2, <2>3 DEF Distinct
  <2> QED
    BY <1>4, <2>3, <2>4
<1> QED
  BY <1>10, <1>11

-----------------------------------------------------------------------------
\* What an iterator at c in bucket h has yet to come to: the rest of its bucket
\* and the buckets after it.
Ahead(s, own, h, c) ==
  {e \in Elem : own[e] # null /\ own[e] > h} \cup Later(LP!Chain(s, h), c)

\* The iterator has come by every element that was there all along, except
\* those it has yet to come to, and it has been at none of these.
IterInv ==
  valid =>
    /\ visited \subseteq Stored /\ stayed \subseteq Stored
    /\ IF curr = null THEN stayed \subseteq visited
       ELSE /\ curr \in visited /\ hv = Bucket(keyOf)[curr]
            /\ visited \cap Ahead(heap, Bucket(keyOf), hv, curr) = {}
            /\ stayed \subseteq visited \cup Ahead(heap, Bucket(keyOf), hv, curr)

\* The types of what the iterator is about.
LEMMA IterTypes ==
  ASSUME TableInv
  PROVE  /\ keyOf \in [Elem -> Key \cup {null}] /\ null \notin Key /\ null \notin Elem
         /\ NumHash \in Nat /\ IndexMod \in Nat /\ NumHash < IndexMod
         /\ List = 0..(NumHash - 1) /\ null \notin List
         /\ LP!Sound(heap, Bucket(keyOf)) /\ heap \in Storage
         /\ Stored = {e \in Elem : Bucket(keyOf)[e] # null}
         /\ \A e \in Elem : Bucket(keyOf)[e] \in List \/ Bucket(keyOf)[e] = null
         /\ hv \in 0..(IndexMod - 1) /\ curr \in Handle
<1>1. keyOf \in [Elem -> Key \cup {null}]
  BY DEF TableInv, TypeOK
<1>2. \A e \in Elem : Bucket(keyOf)[e] = null <=> keyOf[e] = null
  BY <1>1, BucketIs
<1>3. \A e \in Elem : Bucket(keyOf)[e] \in List \/ Bucket(keyOf)[e] = null
  BY <1>1, HashTableAssumption DEF Bucket
<1> QED
  BY <1>1, <1>2, <1>3, HashTableAssumption, ListOpsAssumption
     DEF TableInv, TypeOK, Stored

\* A bucket as the lemmas about sequences want it.
LEMMA DistinctLine ==
  ASSUME NEW s, NEW own, LP!Sound(s, own), NEW l \in List, NEW q, q = LP!Chain(s, l)
  PROVE  /\ q \in Seq(Elem) /\ Len(q) \in Nat /\ Distinct(q)
         /\ \A i \in 1..Len(q) : q[i] \in Elem /\ own[q[i]] = l
         /\ \A x \in Elem : own[x] = l => \E i \in 1..Len(q) : q[i] = x
  BY LineIs DEF Distinct

\* insert() puts the new element where the iterator has been or is yet to come,
\* and moves no other.
LEMMA InsertAhead ==
  ASSUME TableInv, TableInv', NEW e \in Elem, NEW k \in Key, InsertElem(e, k),
         curr \in Stored, hv = Bucket(keyOf)[curr]
  PROVE  LET before == Ahead(heap, Bucket(keyOf), hv, curr)
             after == Ahead(heap', Bucket(keyOf'), hv, curr)
         IN before \subseteq after /\ after \subseteq before \cup {e}
<1> DEFINE b == HashKey[k]
           own == Bucket(keyOf)
           o == Bucket(keyOf')
           q == LP!Chain(heap, hv)
           p == LP!Chain(heap', hv)
<1>1. /\ b \in List /\ own[e] = null /\ curr \in Elem /\ own[curr] # null
      /\ hv \in List /\ LP!Sound(heap, own) /\ LP!Sound(heap', o)
      /\ \A x \in Elem : own[x] \in List \/ own[x] = null
  <2>1. LP!Sound(heap', Bucket(keyOf'))
    BY DEF TableInv
  <2>2. Bucket(keyOf)[e] = null
    BY IterTypes, BucketIs DEF InsertElem
  <2> QED
    BY <2>1, <2>2, IterTypes, HashTableAssumption
<1>2. q = LP!Chain(heap, hv) /\ p = LP!Chain(heap', hv)
  OBVIOUS
<1>3. o = [own EXCEPT ![e] = b] /\ LP!Becomes(heap, heap', b, InsertAt(LP!Chain(heap, b), 1, e))
  BY InsertTurns DEF Turns
<1> HIDE DEF b, own, o, q, p
<1>4. IF hv = b THEN p = InsertAt(q, 1, e) ELSE p = q
  BY <1>1, <1>2, <1>3 DEF LP!Becomes
<1>5. PICK i \in 1..Len(q) : q[i] = curr
  BY <1>1, <1>2, DistinctLine, SMTT(60) DEF own
<1>6. q \in Seq(Elem) /\ Distinct(q) /\ Distinct(p)
  BY <1>1, <1>2, DistinctLine
<1>7. Later(p, curr) = Later(q, curr)
  BY <1>4, <1>5, <1>6, LaterInserted
<1>8. \A x \in Elem : x # e => o[x] = own[x]
  <2>1. own \in [Elem -> List \cup {null}]
    BY <1>1 DEF own, Bucket
  <2> QED
    BY <1>3, <2>1
<1> QED
  BY <1>1, <1>2, <1>7, <1>8 DEF Ahead, own, o

\* Where an element other than the iterator's is taken out, it is the only one
\* the iterator will not come to any more.
LEMMA TakenAhead ==
  ASSUME TableInv, TableInv', NEW e \in Stored, TakenFrom(e), Removed({e}),
         curr \in Stored, curr # e, hv = Bucket(keyOf)[curr]
  PROVE  Ahead(heap', Bucket(keyOf'), hv, curr)
           = Ahead(heap, Bucket(keyOf), hv, curr) \ {e}
<1> DEFINE own == Bucket(keyOf)
           o == Bucket(keyOf')
           b == own[e]
           q == LP!Chain(heap, hv)
           p == LP!Chain(heap', hv)
<1>1. /\ b \in List /\ curr \in Elem /\ e \in Elem
      /\ hv \in List /\ LP!Sound(heap, own) /\ LP!Sound(heap', o)
      /\ \A x \in Elem : own[x] \in List \/ own[x] = null
  <2>1. LP!Sound(heap', Bucket(keyOf'))
    BY DEF TableInv
  <2> QED
    BY <2>1, IterTypes
<1>2. q = LP!Chain(heap, hv) /\ p = LP!Chain(heap', hv)
  OBVIOUS
<1>3. o = [own EXCEPT ![e] = null]
  <2>1. e \in Elem
    BY DEF Stored
  <2> QED
    BY <2>1, RemovedKeeps
<1> DEFINE r == LP!Chain(heap, b)
<1>4. PICK m \in 1..Len(r) : r[m] = e /\ LP!Becomes(heap, heap', b, RemoveAt(r, m))
  BY DEF TakenFrom, Turns
<1>5. q = r <=> hv = b \/ q = r
  OBVIOUS
<1>6. hv = b => q = r
  OBVIOUS
<1>7. r = LP!Chain(heap, b) /\ own[curr] = hv
  OBVIOUS
<1> HIDE DEF b, own, o, q, p, r
<1>8. IF hv = b THEN p = RemoveAt(q, m) /\ m \in 1..Len(q) /\ q[m] = e ELSE p = q
  BY <1>1, <1>2, <1>4, <1>6, <1>7 DEF LP!Becomes
<1>9. PICK i \in 1..Len(q) : q[i] = curr
  BY <1>1, <1>2, <1>7, DistinctLine
<1>10. /\ q \in Seq(Elem) /\ Distinct(q) /\ Distinct(p)
       /\ \A j \in 1..Len(q) : own[q[j]] = hv
  BY <1>1, <1>2, DistinctLine
<1>11. Later(p, curr) = Later(q, curr) \ {e}
  <2>1. CASE hv = b
    <3>1. i # m
      BY <1>8, <1>9, <2>1
    <3>2. Later(p, q[i]) = Later(q, q[i]) \ {q[m]}
      <4>1. p = RemoveAt(q, m) /\ m \in 1..Len(q)
        BY <1>8, <2>1
      <4> QED
        BY <1>10, <3>1, <4>1, LaterRemoved
    <3> QED
      BY <1>8, <1>9, <2>1, <3>2
  <2>2. CASE hv # b
    <3>1. p = q
      BY <1>8, <2>2
    <3>2. e \notin Later(q, curr)
      BY <1>10, <2>2 DEF Later, b
    <3> QED
      BY <3>1, <3>2
  <2> QED
    BY <2>1, <2>2
<1>12. \A x \in Elem : o[x] = IF x = e THEN null ELSE own[x]
  <2>1. own \in [Elem -> List \cup {null}]
    BY <1>1 DEF own, Bucket
  <2> QED
    BY <1>3, <2>1
<1> QED
  BY <1>1, <1>2, <1>11, <1>12 DEF Ahead, own, o

\* The next link of an iterator's element leads to the next one of what it has
\* yet to come to in its bucket.
LEMMA StepsInBucket ==
  ASSUME NEW s, NEW own, LP!Sound(s, own), NEW l \in List, NEW c \in Elem, own[c] = l
  PROVE  IF s.next[c] = null THEN Later(LP!Chain(s, l), c) = {}
         ELSE /\ s.next[c] \in Elem /\ own[s.next[c]] = l
              /\ Later(LP!Chain(s, l), c)
                   = {s.next[c]} \cup Later(LP!Chain(s, l), s.next[c])
              /\ s.next[c] \notin Later(LP!Chain(s, l), s.next[c])
<1> DEFINE q == LP!Chain(s, l)
<1>1. q = LP!Chain(s, l)
  OBVIOUS
<1> HIDE DEF q
<1>2. /\ q \in Seq(Elem) /\ Len(q) \in Nat /\ Distinct(q)
      /\ \A i \in 1..Len(q) : q[i] \in Elem /\ own[q[i]] = l
      /\ \E i \in 1..Len(q) : q[i] = c
  BY <1>1, DistinctLine
<1>3. \A i \in 1..Len(q) : s.next[q[i]] = IF i < Len(q) THEN q[i + 1] ELSE null
  BY <1>1, LineIs
<1>4. PICK i \in 1..Len(q) : q[i] = c
  BY <1>2
<1>5. \A x : x \in Later(q, c) <=> \E j \in 1..Len(q) : i < j /\ q[j] = x
  <2>1. q \in Seq(Elem) /\ Distinct(q) /\ i \in 1..Len(q)
    BY <1>2, <1>4
  <2>2. \A x : x \in Later(q, q[i]) <=> \E j \in 1..Len(q) : i < j /\ q[j] = x
    BY <2>1, LaterIs
  <2> QED
    BY <1>4, <2>2
<1>6. CASE i < Len(q)
  <2> DEFINE k == i + 1
  <2>1. /\ k \in 1..Len(q) /\ s.next[c] = q[k]
        /\ \A j \in 1..Len(q) : i < j <=> j = k \/ k < j
    BY <1>2, <1>3, <1>4, <1>6
  <2> HIDE DEF k
  <2>2. \A x : x \in Later(q, q[k]) <=> \E j \in 1..Len(q) : k < j /\ q[j] = x
    BY <1>2, <2>1, LaterIs
  <2>3. q[k] # null
    BY <1>2, <2>1, ListOpsAssumption
  <2>4. q[k] \notin Later(q, q[k])
    BY <1>2, <2>1, <2>2 DEF Distinct
  <2>5. Later(q, c) = {q[k]} \cup Later(q, q[k])
    BY <1>5, <2>1, <2>2
  <2> QED
    BY <1>1, <1>2, <2>1, <2>3, <2>4, <2>5
<1>7. CASE ~(i < Len(q))
  <2>1. s.next[c] = null /\ \A j \in 1..Len(q) : ~(i < j)
    BY <1>2, <1>3, <1>4, <1>7
  <2> QED
    BY <1>1, <1>5, <2>1
<1> QED
  BY <1>6, <1>7

\* A bucket is its first element and what comes after it.
LEMMA FirstInBucket ==
  ASSUME NEW s, NEW own, LP!Sound(s, own), NEW l \in List
  PROVE  IF s.head[l] = null THEN \A e \in Elem : own[e] # l
         ELSE /\ s.head[l] \in Elem /\ own[s.head[l]] = l
              /\ {e \in Elem : own[e] = l}
                   = {s.head[l]} \cup Later(LP!Chain(s, l), s.head[l])
              /\ s.head[l] \notin Later(LP!Chain(s, l), s.head[l])
<1> DEFINE q == LP!Chain(s, l)
<1>1. q = LP!Chain(s, l)
  OBVIOUS
<1> HIDE DEF q
<1>2. /\ q \in Seq(Elem) /\ Len(q) \in Nat /\ Distinct(q)
      /\ \A i \in 1..Len(q) : q[i] \in Elem /\ own[q[i]] = l
      /\ \A x \in Elem : own[x] = l => \E i \in 1..Len(q) : q[i] = x
  BY <1>1, DistinctLine
<1>3. IF s.head[l] = null THEN Len(q) = 0 ELSE 1 \in 1..Len(q) /\ q[1] = s.head[l]
  BY <1>1, LineIs
<1>4. CASE s.head[l] = null
  BY <1>2, <1>3, <1>4
<1>5. CASE s.head[l] # null
  <2>1. 1 \in 1..Len(q) /\ q[1] = s.head[l]
    BY <1>3, <1>5
  <2>2. \A x : x \in Later(q, q[1]) <=> \E j \in 1..Len(q) : 1 < j /\ q[j] = x
    BY <1>2, <2>1, LaterIs
  <2>3. \A j \in 1..Len(q) : j = 1 \/ 1 < j
    BY <1>2
  <2>4. q[1] \notin Later(q, q[1])
    BY <1>2, <2>1, <2>2 DEF Distinct
  <2>5. {e \in Elem : own[e] = l} = {q[1]} \cup Later(q, q[1])
    BY <1>2, <2>1, <2>2, <2>3
  <2> QED
    BY <1>1, <1>2, <1>5, <2>1, <2>4, <2>5
<1> QED
  BY <1>4, <1>5

\* The elements in the buckets from n on.
FromBucket(n) == {e \in Elem : Bucket(keyOf)[e] # null /\ Bucket(keyOf)[e] >= n}

\* Where an iterator comes to: an element that is the first of what is in S, or
\* the end where S is empty.
ComesTo(to, S) ==
  IF to.curr = null THEN S = {}
  ELSE /\ to.curr \in Elem /\ to.hv \in List /\ to.hv = Bucket(keyOf)[to.curr]
       /\ S = {to.curr} \cup Ahead(heap, Bucket(keyOf), to.hv, to.curr)
       /\ to.curr \notin Ahead(heap, Bucket(keyOf), to.hv, to.curr)

\* The loop of advance() over the buckets comes to the first element in the
\* buckets from the one after h on.
LEMMA FirstFromComes ==
  ASSUME TableInv, NEW h \in 0..(IndexMod - 1)
  PROVE  ComesTo(FirstFrom(h), FromBucket((h + 1) % IndexMod))
<1> DEFINE n == (h + 1) % IndexMod
           own == Bucket(keyOf)
           full == {i \in n..(NumHash - 1) : ~Empty(heap, i)}
           i == CHOOSE j \in full : \A m \in full : j <= m
           c == heap.head[i]
<1>1. /\ NumHash \in Nat /\ IndexMod \in Nat /\ NumHash < IndexMod
      /\ List = 0..(NumHash - 1) /\ null \notin List /\ null \notin Elem
      /\ LP!Sound(heap, own)
      /\ \A e \in Elem : own[e] \in List \/ own[e] = null
  BY IterTypes
<1>2. n \in 0..(IndexMod - 1)
  BY <1>1
<1>3. FirstFrom(h) =
        IF full = {} THEN [hv |-> IF n < NumHash THEN NumHash ELSE n, curr |-> null]
        ELSE [hv |-> i, curr |-> c]
  BY DEF FirstFrom, Start
<1> HIDE DEF n, own
<1>4. full \in SUBSET Nat /\ full \subseteq List /\ \A j \in full : n <= j
  BY <1>1, <1>2
<1>5. \A e \in Elem : own[e] # null /\ own[e] >= n => own[e] \in full
  <2> SUFFICES ASSUME NEW e \in Elem, own[e] # null, own[e] >= n PROVE own[e] \in full
    OBVIOUS
  <2>1. own[e] \in List /\ own[e] \in n..(NumHash - 1)
    BY <1>1, <1>2
  <2>2. heap.head[own[e]] # null
    BY <1>1, <2>1, FirstInBucket
  <2> QED
    BY <2>1, <2>2 DEF Empty
<1>6. CASE full = {}
  BY <1>3, <1>5, <1>6 DEF ComesTo, FromBucket, own, n
<1>7. CASE full # {}
  <2>1. i \in full /\ \A m \in full : i <= m
    <3>1. \E j \in full : \A m \in full : j <= m
      <4> HIDE DEF full
      <4> QED
        BY <1>4, <1>7, LP!LeastNatural, ListOpsAssumption, SameFinite
    <3> QED
      BY <3>1
  <2>2. i \in List /\ c # null
    BY <1>4, <2>1 DEF Empty
  <2> HIDE DEF full, i
  <2>3. /\ c \in Elem /\ own[c] = i
        /\ {e \in Elem : own[e] = i} = {c} \cup Later(LP!Chain(heap, i), c)
        /\ c \notin Later(LP!Chain(heap, i), c)
    BY <1>1, <2>2, FirstInBucket
  <2> HIDE DEF c
  <2>4. \A e \in Elem : own[e] # null =>
           /\ own[e] >= n <=> own[e] > i \/ own[e] = i
           /\ ~(i > i)
    <3> SUFFICES ASSUME NEW e \in Elem, own[e] # null
                 PROVE  (own[e] >= n <=> own[e] > i \/ own[e] = i) /\ ~(i > i)
      OBVIOUS
    <3>1. own[e] \in Nat /\ i \in Nat /\ n \in Nat /\ n <= i
      BY <1>1, <1>2, <1>4, <2>1, <2>2
    <3>2. own[e] >= n => i <= own[e]
      BY <1>5, <2>1
    <3> QED
      BY <3>1, <3>2
  <2>5. FromBucket(n) = {c} \cup Ahead(heap, own, i, c)
    <3>1. FromBucket(n) = {e \in Elem : own[e] # null /\ own[e] >= n}
      BY DEF FromBucket, own
    <3>2. \A e \in Elem : own[e] = i => own[e] # null
      BY <1>1, <2>2
    <3> QED
      BY <2>3, <2>4, <3>1, <3>2 DEF Ahead
  <2>6. c \notin Ahead(heap, own, i, c)
    BY <1>1, <2>2, <2>3, <2>4 DEF Ahead
  <2>7. FirstFrom(h).curr = c /\ FirstFrom(h).hv = i
    BY <1>3, <1>7
  <2> QED
    BY <2>2, <2>3, <2>5, <2>6, <2>7 DEF ComesTo, own, n
<1> QED
  BY <1>6, <1>7

\* operator ++ comes to the first element of what the iterator had yet to come to.
LEMMA AdvanceComes ==
  ASSUME TableInv, curr \in Stored, hv = Bucket(keyOf)[curr]
  PROVE  ComesTo(Advanced(hv, curr), Ahead(heap, Bucket(keyOf), hv, curr))
<1> DEFINE own == Bucket(keyOf)
           n == heap.next[curr]
<1>1. /\ NumHash \in Nat /\ IndexMod \in Nat /\ NumHash < IndexMod
      /\ List = 0..(NumHash - 1) /\ null \notin List /\ null \notin Elem
      /\ LP!Sound(heap, own) /\ curr \in Elem /\ hv \in List /\ own[curr] = hv
      /\ \A e \in Elem : own[e] \in List \/ own[e] = null
  BY IterTypes
<1> HIDE DEF own
<1>2. IF n = null THEN Later(LP!Chain(heap, hv), curr) = {}
      ELSE /\ n \in Elem /\ own[n] = hv
           /\ Later(LP!Chain(heap, hv), curr) = {n} \cup Later(LP!Chain(heap, hv), n)
           /\ n \notin Later(LP!Chain(heap, hv), n)
  BY <1>1, StepsInBucket
<1>3. CASE n = null
  <2>1. Advanced(hv, curr) = FirstFrom(hv)
    BY <1>1, <1>3 DEF Advanced
  <2>2. (hv + 1) % IndexMod = hv + 1 /\ hv \in 0..(IndexMod - 1)
    BY <1>1
  <2>3. \A e \in Elem : own[e] # null => (own[e] > hv <=> own[e] >= hv + 1)
    BY <1>1
  <2>4. Ahead(heap, own, hv, curr) = FromBucket(hv + 1)
    BY <1>2, <1>3, <2>3 DEF Ahead, FromBucket, own
  <2> QED
    BY <2>1, <2>2, <2>4, FirstFromComes DEF own
<1>4. CASE n # null
  <2>1. Advanced(hv, curr) = [hv |-> hv, curr |-> n]
    BY <1>1, <1>4 DEF Advanced
  <2>2. Ahead(heap, own, hv, curr) = {n} \cup Ahead(heap, own, hv, n)
    BY <1>2, <1>4 DEF Ahead
  <2>3. n \notin Ahead(heap, own, hv, n)
    BY <1>1, <1>2, <1>4 DEF Ahead
  <2> HIDE DEF n
  <2> QED
    BY <1>1, <1>2, <1>4, <2>1, <2>2, <2>3 DEF ComesTo, own
<1> QED
  BY <1>3, <1>4

\* start_iter() comes to the first element of the table.
LEMMA StartComes ==
  ASSUME TableInv
  PROVE  ComesTo(Advanced(IndexMod - 1, null), Stored)
<1>1. /\ NumHash \in Nat /\ IndexMod \in Nat /\ NumHash < IndexMod
      /\ List = 0..(NumHash - 1) /\ Stored = {e \in Elem : Bucket(keyOf)[e] # null}
      /\ \A e \in Elem : Bucket(keyOf)[e] \in List \/ Bucket(keyOf)[e] = null
  BY IterTypes
<1>2. IndexMod - 1 \in 0..(IndexMod - 1) /\ ((IndexMod - 1) + 1) % IndexMod = 0
  BY <1>1
<1>3. Stored = FromBucket(0)
  BY <1>1 DEF FromBucket
<1>4. Advanced(IndexMod - 1, null) = FirstFrom(IndexMod - 1)
  BY DEF Advanced
<1> QED
  BY <1>2, <1>3, <1>4, FirstFromComes

-----------------------------------------------------------------------------
\* Whatever is done with the table while the iterator is on its way, and every
\* step of the iterator, keeps what it has come by and what lies ahead of it.
LEMMA IterNext ==
  ASSUME TableInv, TableInv', IterInv, [Next]_vars
  PROVE  IterInv'
<1> DEFINE own == Bucket(keyOf)
           ahead == Ahead(heap, Bucket(keyOf), hv, curr)
<1>1. /\ Stored = {e \in Elem : own[e] # null} /\ null \notin Elem /\ curr \in Handle
      /\ keyOf \in [Elem -> Key \cup {null}] /\ null \notin Key
      /\ \A e \in Elem : own[e] = null <=> keyOf[e] = null
  BY IterTypes, BucketIs
<1>2. ASSUME UNCHANGED vars PROVE IterInv'
  <2>1. heap' = heap /\ keyOf' = keyOf /\ UNCHANGED <<hv, curr, valid, visited, stayed>>
    BY <1>2 DEF vars
  <2>2. Stored' = Stored /\ Bucket(keyOf)' = own /\ ahead' = ahead
    BY <2>1 DEF Stored, Ahead
  <2> QED
    BY <2>1, <2>2 DEF IterInv
<1>3. ASSUME NEW e \in Elem, NEW k \in Key, InsertElem(e, k) PROVE IterInv'
  <2>1. /\ e \notin Stored /\ Stored' = Stored \cup {e}
        /\ UNCHANGED <<hv, curr, valid, visited, stayed>>
    BY <1>1, <1>3 DEF InsertElem, Stored, iterVars
  <2>2. ASSUME valid, curr # null PROVE ahead \subseteq ahead' /\ ahead' \subseteq ahead \cup {e}
    <3>1. curr \in Stored /\ hv = own[curr]
      BY <2>2 DEF IterInv
    <3>2. /\ ahead \subseteq Ahead(heap', Bucket(keyOf'), hv, curr)
          /\ Ahead(heap', Bucket(keyOf'), hv, curr) \subseteq ahead \cup {e}
      BY <1>3, <3>1, InsertAhead
    <3> QED
      BY <2>1, <3>2 DEF Ahead
  <2>3. ASSUME valid, curr # null PROVE Bucket(keyOf)'[curr] = own[curr]
    <3>1. curr \in Stored /\ curr \in Elem /\ curr # e
      BY <1>1, <2>1, <2>3 DEF IterInv, Handle
    <3> QED
      BY <1>1, <1>3, <3>1 DEF InsertElem, Bucket
  <2> HIDE DEF own, ahead
  <2>4. IterInv <=>
          (valid =>
             /\ visited \subseteq Stored /\ stayed \subseteq Stored
             /\ IF curr = null THEN stayed \subseteq visited
                ELSE /\ curr \in visited /\ hv = own[curr]
                     /\ visited \cap ahead = {} /\ stayed \subseteq visited \cup ahead)
    BY DEF IterInv, own, ahead
  <2>5. IterInv' <=>
          (valid' =>
             /\ visited' \subseteq Stored' /\ stayed' \subseteq Stored'
             /\ IF curr' = null THEN stayed' \subseteq visited'
                ELSE /\ curr' \in visited' /\ hv' = Bucket(keyOf)'[curr']
                     /\ visited' \cap ahead' = {} /\ stayed' \subseteq visited' \cup ahead')
    BY DEF IterInv, ahead
  <2> QED
    BY <2>1, <2>2, <2>3, <2>4, <2>5
<1>4. ASSUME NEW e \in Stored, TakenFrom(e), Removed({e}) PROVE IterInv'
  <2>1. /\ Stored' = Stored \ {e} /\ valid' = (valid /\ curr # e)
        /\ visited' = visited \ {e} /\ stayed' = stayed \ {e}
        /\ UNCHANGED <<hv, curr>>
    BY <1>1, <1>4 DEF Removed, Stored
  <2>2. ASSUME valid, curr # null, curr # e PROVE ahead' = ahead \ {e}
    <3>1. curr \in Stored /\ hv = own[curr]
      BY <2>2 DEF IterInv
    <3>2. Ahead(heap', Bucket(keyOf'), hv, curr) = ahead \ {e}
      BY <1>4, <2>2, <3>1, TakenAhead
    <3> QED
      BY <2>1, <3>2 DEF Ahead
  <2>3. ASSUME valid, curr # null, curr # e PROVE Bucket(keyOf)'[curr] = own[curr]
    <3>1. curr \in Elem /\ keyOf'[curr] = keyOf[curr]
      BY <1>1, <1>4, <2>3 DEF Handle, Removed
    <3> QED
      BY <3>1 DEF Bucket
  <2> HIDE DEF own, ahead
  <2>4. IterInv <=>
          (valid =>
             /\ visited \subseteq Stored /\ stayed \subseteq Stored
             /\ IF curr = null THEN stayed \subseteq visited
                ELSE /\ curr \in visited /\ hv = own[curr]
                     /\ visited \cap ahead = {} /\ stayed \subseteq visited \cup ahead)
    BY DEF IterInv, own, ahead
  <2>5. IterInv' <=>
          (valid' =>
             /\ visited' \subseteq Stored' /\ stayed' \subseteq Stored'
             /\ IF curr' = null THEN stayed' \subseteq visited'
                ELSE /\ curr' \in visited' /\ hv' = Bucket(keyOf)'[curr']
                     /\ visited' \cap ahead' = {} /\ stayed' \subseteq visited' \cup ahead')
    BY DEF IterInv, ahead
  <2> QED
    BY <2>1, <2>2, <2>3, <2>4, <2>5
<1>5. ASSUME NEW k \in Key, RemoveKey(k) PROVE IterInv'
  <2>1. CASE Search(k) = null
    <3>1. UNCHANGED vars
      BY <1>5, <2>1 DEF RemoveKey
    <3> QED
      BY <1>2, <3>1
  <2>2. CASE Search(k) # null
    <3>1. /\ Search(k) \in Elem /\ keyOf[Search(k)] = k
          /\ Removed({Search(k)}) /\ TakenFrom(Search(k))
      BY <1>5, <2>2, RemoveKeyTakes
    <3>2. Search(k) \in Stored
      BY <1>1, <3>1 DEF Stored
    <3> QED
      BY <1>4, <3>1, <3>2
  <2> QED
    BY <2>1, <2>2
<1>6. ASSUME NEW e \in Elem, RemoveHandle(e) PROVE IterInv'
  BY <1>4, <1>6, RemoveHandleTakes DEF RemoveHandle
<1>7. ASSUME PurgeAll PROVE IterInv'
  <2>1. /\ valid' = (valid /\ curr \notin Stored) /\ curr' = curr
        /\ visited' = visited \ Stored /\ stayed' = stayed \ Stored
    BY <1>7 DEF PurgeAll, Removed
  <2> QED
    BY <2>1 DEF IterInv
<1>8. ASSUME StartIter PROVE IterInv'
  <2> DEFINE to == Advanced(IndexMod - 1, null)
  <2>1. ComesTo(to, Stored)
    BY StartComes
  <2>2. /\ hv' = to.hv /\ curr' = to.curr /\ heap' = heap /\ keyOf' = keyOf
        /\ visited' = IF to.curr = null THEN {} ELSE {to.curr}
        /\ stayed' = Stored
    BY <1>8 DEF StartIter, tableVars
  <2>3. /\ Stored' = Stored
        /\ Bucket(keyOf)' = own
        /\ Ahead(heap, Bucket(keyOf), hv, curr)' = Ahead(heap, own, to.hv, to.curr)
    BY <2>2 DEF Stored, Ahead
  <2> HIDE DEF to
  <2> QED
    BY <2>1, <2>2, <2>3 DEF ComesTo, IterInv
<1>9. ASSUME Advance PROVE IterInv'
  <2> DEFINE to == Advanced(hv, curr)
  <2>1. /\ valid /\ curr # null /\ curr \in Stored /\ hv = own[curr]
        /\ visited \subseteq Stored /\ stayed \subseteq Stored /\ curr \in visited
        /\ visited \cap ahead = {} /\ stayed \subseteq visited \cup ahead
    BY <1>9 DEF Advance, IterInv
  <2>2. ComesTo(to, ahead)
    BY <2>1, AdvanceComes
  <2>3. /\ hv' = to.hv /\ curr' = to.curr /\ heap' = heap /\ keyOf' = keyOf
        /\ visited' = IF to.curr = null THEN visited ELSE visited \cup {to.curr}
        /\ stayed' = stayed
    BY <1>9 DEF Advance
  <2>4. /\ Stored' = Stored
        /\ Bucket(keyOf)' = own
        /\ Ahead(heap, Bucket(keyOf), hv, curr)' = Ahead(heap, own, to.hv, to.curr)
    BY <2>3 DEF Stored, Ahead
  <2> HIDE DEF to, ahead
  <2>5. CASE to.curr = null
    BY <2>1, <2>2, <2>3, <2>4, <2>5 DEF ComesTo, IterInv
  <2>6. CASE to.curr # null
    <3>1. /\ to.curr \in Elem /\ to.hv = own[to.curr] /\ own[to.curr] # null
          /\ ahead = {to.curr} \cup Ahead(heap, own, to.hv, to.curr)
          /\ to.curr \notin Ahead(heap, own, to.hv, to.curr)
      BY <2>2, <2>6, ListOpsAssumption DEF ComesTo
    <3>2. to.curr \in Stored
      BY <1>1, <3>1
    <3> QED
      BY <2>1, <2>3, <2>4, <2>6, <3>1, <3>2 DEF IterInv
  <2> QED
    BY <2>5, <2>6
<1> QED
  BY <1>2, <1>3, <1>5, <1>6, <1>7, <1>8, <1>9 DEF Next

\* The iterator has always come by all it should have, and by nothing twice.
THEOREM IterSound == Spec => []IterInv
<1>1. Init => IterInv
  BY DEF Init, IterInv
<1>2. TableInv /\ TableInv' /\ IterInv /\ [Next]_vars => IterInv'
  BY IterNext
<1> QED
  BY <1>1, <1>2, TableSound, PTL DEF Spec

\* An iterator that was never invalidated and has come to the end has been at
\* every element that was in the table all along.
THEOREM IterationCompleteHolds == Spec => []IterationComplete
<1>1. IterInv => IterationComplete
  BY DEF IterInv, IterationComplete
<1> QED
  BY <1>1, IterSound, PTL

\* ++ never comes to an element the iterator has been at.
THEOREM NoRevisitHolds == Spec => NoRevisit
<1>1. ASSUME TableInv, IterInv, valid, curr # null, Advance, curr' # null
      PROVE  curr' \notin visited
  <2>1. /\ curr \in Stored /\ hv = Bucket(keyOf)[curr]
        /\ visited \cap Ahead(heap, Bucket(keyOf), hv, curr) = {}
    BY <1>1 DEF IterInv
  <2>2. ComesTo(Advanced(hv, curr), Ahead(heap, Bucket(keyOf), hv, curr))
    BY <1>1, <2>1, AdvanceComes
  <2>3. curr' = Advanced(hv, curr).curr
    BY <1>1 DEF Advance
  <2> QED
    BY <1>1, <2>1, <2>2, <2>3 DEF ComesTo
<1>2. TableInv /\ IterInv =>
        [valid /\ curr # null /\ Advance /\ curr' # null => curr' \notin visited]_vars
  BY <1>1
<1> QED
  BY <1>2, TableSound, IterSound, PTL DEF NoRevisit
=============================================================================
