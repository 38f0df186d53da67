----------------------------- MODULE HashTable ------------------------------
(* hash_table.h: a hash table whose buckets are lists of list.h (ListOps,    *)
(* the bucket of hash value i being the list i), with an iterator in use     *)
(* while the calling code changes the table.                                 *)
EXTENDS ListOps

CONSTANTS Key,
          HashKey,    \* hash_key(): Key -> List
          IndexMod    \* index values are counted modulo IndexMod

NumHash == Cardinality(List)              \* num_hash_values

ASSUME HashTableAssumption == /\ NumHash \in Nat /\ List = 0..(NumHash - 1)
                              /\ HashKey \in [Key -> List]
                              /\ null \notin Key
                              /\ IndexMod \in Nat /\ NumHash < IndexMod

VARIABLES heap,       \* the buckets and the elements' links
          keyOf,      \* element in the table -> its key, null for the others
          hv, curr,   \* the iterator: hash value of its bucket, its element
          valid,      \* its element has not been removed since it got there
          visited,    \* elements the iterator has been at, unless removed since
          stayed      \* elements in the table since the iterator was started

tableVars == <<heap, keyOf>>
iterVars == <<hv, curr, valid, visited, stayed>>
vars == <<heap, keyOf, hv, curr, valid, visited, stayed>>

Stored == {e \in Elem : keyOf[e] # null}

\* A search that takes the first element of the bucket for the one it wants.
SearchFirst(k) == heap.head[HashKey[k]]

\* The loop of search() and remove_key() through a bucket, until is_key() or
\* the end of the list; no two elements in the table have the same key.
Search(k) ==
  LET found == {e \in Visited(heap, HashKey[k]) : keyOf[e] = k}
  IN IF found = {} THEN null ELSE CHOOSE e \in found : TRUE

\* What a removal of the elements in S means for the iterator: it is invalid
\* if it refers to one of them.
Removed(S) == /\ keyOf' = [e \in Elem |-> IF e \in S THEN null ELSE keyOf[e]]
              /\ valid' = (valid /\ curr \notin S)
              /\ visited' = visited \ S
              /\ stayed' = stayed \ S
              /\ UNCHANGED <<hv, curr>>

Init == /\ heap \in Fresh
        /\ keyOf = [e \in Elem |-> null]
        /\ hv = NumHash /\ curr = null /\ valid = FALSE
        /\ visited = {} /\ stayed = {}

\* insert(h), of an element with a key that is not in the table yet
InsertElem(e, k) ==
  /\ keyOf[e] = null
  /\ \A f \in Elem : keyOf[f] # k
  /\ heap' = Push(heap, HashKey[k], e, forward)
  /\ keyOf' = [keyOf EXCEPT ![e] = k]
  /\ UNCHANGED iterVars

\* A remove_key() that cuts off the element behind the one it has found.
RemoveKeyNext(k) ==
  LET b == HashKey[k]
      e == Search(k)
  IN \/ e = null /\ UNCHANGED vars
     \/ /\ e # null /\ e = heap.head[b]
        /\ heap' = Pop(heap, b, forward)
        /\ Removed({e})
     \/ /\ e # null /\ e # heap.head[b]
        /\ heap' = IF heap.next[e] = null THEN heap ELSE RemoveForward(heap, b, e)
        /\ Removed({e})

\* remove_key(k): the bucket is searched as in search(), with the element
\* before kept, since a single link cannot be followed back.
RemoveKey(k) ==
  LET b == HashKey[k]
      e == Search(k)
  IN \/ e = null /\ UNCHANGED vars
     \/ /\ e # null /\ e = heap.head[b]
        /\ heap' = Pop(heap, b, forward)
        /\ Removed({e})
     \/ /\ e # null /\ e # heap.head[b]
        /\ heap' = RemoveForward(heap, b, Before(heap, b, e))
        /\ Removed({e})

\* remove(h)
RemoveHandle(e) ==
  /\ e \in Stored
  /\ heap' = RemoveElem(heap, HashKey[keyOf[e]], e)
  /\ Removed({e})

\* purge(): the loop over all hash values
PurgeAll ==
  /\ heap' = [heap EXCEPT !.head = [i \in List |-> Purge(heap, i).head[i]],
                          !.tail = [i \in List |-> Purge(heap, i).tail[i]]]
  /\ Removed(Stored)

\* A loop that looks at the bucket it comes from again.
FirstFromHere(h) ==
  LET n == IF h < NumHash THEN h ELSE (h + 1) % IndexMod
      full == {i \in n..(NumHash - 1) : ~Empty(heap, i)}
  IN IF full = {} THEN [hv |-> IF n < NumHash THEN NumHash ELSE n, curr |-> null]
     ELSE LET i == CHOOSE j \in full : \A m \in full : j <= m
          IN [hv |-> i, curr |-> Start(heap, i, forward)]

\* The loop of advance(), from the bucket after hash value h on: the next hash
\* value at which it stops, an element there unless it has passed the last.
FirstFrom(h) ==
  LET n == (h + 1) % IndexMod
      full == {i \in n..(NumHash - 1) : ~Empty(heap, i)}
  IN IF full = {} THEN [hv |-> IF n < NumHash THEN NumHash ELSE n, curr |-> null]
     ELSE LET i == CHOOSE j \in full : \A m \in full : j <= m
          IN [hv |-> i, curr |-> Start(heap, i, forward)]

\* Where advance() goes from the element c of bucket h, or from null.
Advanced(h, c) ==
  LET n == IF c = null THEN null ELSE heap.next[c]
  IN IF n # null THEN [hv |-> h, curr |-> n] ELSE FirstFrom(h)

\* A start_iter() that takes 0 for the bucket before the first one.
StartIterAtZero ==
  LET to == Advanced(0, null)
  IN /\ hv' = to.hv /\ curr' = to.curr
     /\ valid' = TRUE
     /\ visited' = IF to.curr = null THEN {} ELSE {to.curr}
     /\ stayed' = Stored
     /\ UNCHANGED tableVars

\* start_iter(): the bucket before the first one is index(0) - 1.
StartIter ==
  LET to == Advanced(IndexMod - 1, null)
  IN /\ hv' = to.hv /\ curr' = to.curr
     /\ valid' = TRUE
     /\ visited' = IF to.curr = null THEN {} ELSE {to.curr}
     /\ stayed' = Stored
     /\ UNCHANGED tableVars

\* operator ++ of an iterator at an element
Advance ==
  LET to == Advanced(hv, curr)
  IN /\ valid /\ curr # null
     /\ hv' = to.hv /\ curr' = to.curr
     /\ visited' = IF to.curr = null THEN visited ELSE visited \union {to.curr}
     /\ UNCHANGED <<heap, keyOf, valid, stayed>>

Next == \/ \E e \in Elem, k \in Key : InsertElem(e, k)
        \/ \E k \in Key : RemoveKey(k)
        \/ \E e \in Elem : RemoveHandle(e)
        \/ PurgeAll
        \/ StartIter
        \/ Advance

Spec == Init /\ [][Next]_vars

-----------------------------------------------------------------------------

TypeOK == /\ heap \in Storage
          /\ keyOf \in [Elem -> Key \union {null}]
          /\ hv \in 0..(IndexMod - 1) /\ curr \in Handle /\ valid \in BOOLEAN
          /\ visited \subseteq Elem /\ stayed \subseteq Elem

InBucket(b) == {e \in Stored : HashKey[keyOf[e]] = b}

\* Each bucket holds exactly the elements in the table whose key has its hash
\* value, and its links end: remove(h) (hash_table.h:140) may look for h in the bucket
\* of its key.
BucketsHoldKeys ==
  TypeOK /\ \A b \in List :
    /\ Visited(heap, b) = InBucket(b)
    /\ InBucket(b) # {} => \E e \in InBucket(b) : heap.next[e] = null

\* "removing an element invalidates iterators referencing it, but no others"
\* (hash_table.h:151): an iterator that has come to the end has been at every
\* element that was in the table all along, whatever was inserted and removed
\* before, behind or beside it on the way.
IterationComplete == valid /\ curr = null => stayed \subseteq visited

\* ++ never comes to an element a second time, except one that was removed and
\* inserted again.
NoRevisit ==
  [][valid /\ curr # null /\ Advance /\ curr' # null => curr' \notin visited]_vars

\* Searching for each key shows a table with one element per key, from which
\* remove_key() and remove() take exactly the element named.
KT == INSTANCE KeyedTable WITH table <- [k \in Key |-> Search(k)]

OperationsMatch ==
  /\ \A e \in Elem, k \in Key : InsertElem(e, k) => KT!Insert(k, e)
  /\ \A k \in Key : RemoveKey(k) => KT!Remove(k)
  /\ \A e \in Stored : RemoveHandle(e) => KT!Remove(keyOf[e])
  /\ PurgeAll => KT!Purge

ImplementsKeyedTable == KT!Spec /\ [][OperationsMatch]_vars
=============================================================================
