-------------------------------- MODULE List --------------------------------
(* list.h in use: several singly linked lists that share their elements, and *)
(* calling code that keeps to the documented preconditions.  The calling     *)
(* code alone knows in which list an element is: the variable owner.         *)
EXTENDS ListOps, SequencesExt

VARIABLES heap,     \* the storage of the lists and of the elements
          owner     \* element -> the list the caller has put it in, or null

vars == <<heap, owner>>

Init == heap \in Fresh /\ owner = [x \in Elem |-> null]

\* How the caller's knowledge changes with the storage.
Puts(l, x, after) == /\ owner[x] = null
                     /\ owner' = [owner EXCEPT ![x] = l]
                     /\ heap' = after
Takes(l, x, after) == /\ owner[x] = l
                      /\ owner' = [owner EXCEPT ![x] = null]
                      /\ heap' = after

DoMakeDetached(x) == /\ owner[x] = null
                     /\ heap' = MakeDetached(heap, x)
                     /\ UNCHANGED owner

DoInsert(l, x, y, d) == owner[x] = l /\ Puts(l, y, Insert(heap, l, x, y, d))

DoPush(l, x, d) == Puts(l, x, Push(heap, l, x, d))

DoRemoveForward(l, x) == /\ owner[x] = l
                         /\ heap.next[x] # null
                         /\ Takes(l, heap.next[x], RemoveForward(heap, l, x))

DoRemove(l, x) == owner[x] = l /\ Takes(l, x, RemoveElem(heap, l, x))

DoPop(l, d) == /\ ~Empty(heap, l)
               /\ Takes(l, Popped(heap, l, d), Pop(heap, l, d))

DoPurge(l) == /\ heap' = Purge(heap, l)
              /\ owner' = [x \in Elem |-> IF owner[x] = l THEN null ELSE owner[x]]

Next ==
  \/ \E x \in Elem : DoMakeDetached(x)
  \/ \E l \in List, x, y \in Elem, d \in Direction : DoInsert(l, x, y, d)
  \/ \E l \in List, x \in Elem, d \in Direction : DoPush(l, x, d)
  \/ \E l \in List, x \in Elem : DoRemoveForward(l, x)
  \/ \E l \in List, x \in Elem : DoRemove(l, x)
  \/ \E l \in List, d \in Direction : DoPop(l, d)
  \/ \E l \in List : DoPurge(l)

Spec == Init /\ [][Next]_vars

-----------------------------------------------------------------------------

TypeOK == heap \in Storage /\ owner \in [Elem -> List \union {null}]

\* A stored tail is the element the links lead to last (tail(), list.h:318).
\* pop(reverse) and remove() move it by following the links, push(reverse) and
\* start(reverse) trust it, so a tail left behind shows much later.
TailIsLast == \A l \in StoreTail : Start(heap, l, reverse) = LastOf(heap, l)

Contents(l) == {x \in Elem : owner[x] = l}

\* Following the links from the head of a list comes by exactly the elements
\* the caller has put in it and not taken out, and to an end, so to each of
\* them once: the loops of list.h end, and link(h, reverse) (list.h:119) finds
\* every element it is asked about.
ChainIsContents ==
  TypeOK /\ \A l \in List :
    /\ Visited(heap, l) = Contents(l)
    /\ Contents(l) # {} => \E x \in Contents(l) : heap.next[x] = null

\* The elements of l in the order of the links.
Chain(s, l) == Path(Elem, s.next, s.head[l])

SL == INSTANCE SequenceList
        WITH seqs <- [l \in List |-> Chain(heap, l)],
             detached <- {x \in Elem : IsDetached(heap, x)}

OperationsMatch ==
  /\ \A l \in List, x, y \in Elem, d \in Direction :
       DoInsert(l, x, y, d) => SL!Insert(l, x, y, d)
  /\ \A l \in List, x \in Elem, d \in Direction : DoPush(l, x, d) => SL!Push(l, x, d)
  /\ \A l \in List, x \in Elem : /\ DoRemove(l, x) => SL!RemoveElem(l, x)
                                /\ DoRemoveForward(l, x) => SL!RemoveElem(l, heap.next[x])
  /\ \A l \in List, d \in Direction : DoPop(l, d) => SL!Pop(l, d)
  /\ \A l \in List : DoPurge(l) => SL!Purge(l)
  /\ \A x \in Elem : DoMakeDetached(x) => SL!MakeDetached(x)

\* The lists are the sequences of SequenceList, and each operation is the one
\* on sequences it stands for, at the place and in the direction asked for,
\* whether the tail is stored or looked for; an element in a list, the last
\* one included, never looks detached (is_detached(), list.h:133).
ImplementsSequenceList == SL!Spec /\ [][OperationsMatch]_vars
=============================================================================
