----------------------------- MODULE BidirList ------------------------------
(* bidir_list.h: the doubly linked intrusive list.  A list stores only the   *)
(* handles of its two ends; each element stores one link per direction.      *)
(* Nothing else is kept: that an element is in a list, and in which, is      *)
(* known to the calling code only, and is the variable owner here.  Several  *)
(* lists share the elements, whose links keep stale values after a remove,   *)
(* a pop or a purge, and arbitrary ones before their first use.              *)
EXTENDS Links, Integers, Sequences, SequencesExt

CONSTANTS Elem,     \* the elements (their handles)
          List,     \* the lists
          null      \* the null handle; also "in no list" as an owner

ASSUME ListAssumption == null \notin Elem /\ null \notin List

VARIABLES head,     \* list -> direction -> its first element that way
          links,    \* element -> direction -> the stored link
          owner     \* element -> the list the caller has put it in

vars == <<head, links, owner>>

forward == 1
reverse == 0
Direction == {reverse, forward}    \* the other one is 1 - d
Handle == Elem \union {null}

Detached(x) == links[x][forward] = x                   \* is_detached()
EmptyList(l) == head[l][forward] = null                \* empty()

\* The private link(): x, unless it is null, gets the link y in direction d.
Linked(lk, x, d, y) == IF x = null THEN lk ELSE [lk EXCEPT ![x][d] = y]

Init ==
  /\ head = [l \in List |-> [d \in Direction |-> null]]
  /\ links \in [Elem -> [Direction -> Handle]]
  /\ owner = [x \in Elem |-> null]

MakeDetached(x) ==
  /\ owner[x] = null
  /\ links' = [links EXCEPT ![x][forward] = x]
  /\ UNCHANGED <<head, owner>>

\* insert() that does not move the far end of the list.
InsertKeepEnd(l, x, y, d) ==
  /\ owner[x] = l
  /\ owner[y] = null
  /\ LET ilf == links[x][d]
     IN links' = [Linked(links, ilf, 1 - d, y) EXCEPT
                    ![y] = [e \in Direction |-> IF e = d THEN ilf ELSE x],
                    ![x][d] = y]
  /\ owner' = [owner EXCEPT ![y] = l]
  /\ UNCHANGED head

\* insert(in_list, to_insert, is_forward)
Insert(l, x, y, d) ==
  /\ owner[x] = l
  /\ owner[y] = null
  /\ LET ilf == links[x][d]
     IN /\ links' = [Linked(links, ilf, 1 - d, y) EXCEPT
                       ![y] = [e \in Direction |-> IF e = d THEN ilf ELSE x],
                       ![x][d] = y]
        /\ head' = IF ilf = null THEN [head EXCEPT ![l][1 - d] = y] ELSE head
  /\ owner' = [owner EXCEPT ![y] = l]

\* remove() that closes the gap in one direction only.
RemoveOneWay(l, x) ==
  /\ owner[x] = l
  /\ LET n == links[x]
     IN /\ head' = [head EXCEPT ![l] = [d \in Direction |->
                                          IF @[d] = x THEN n[d] ELSE @[d]]]
        /\ links' = Linked(links, n[forward], reverse, n[reverse])
  /\ owner' = [owner EXCEPT ![x] = null]

\* remove(in_list)
RemoveElem(l, x) ==
  /\ owner[x] = l
  /\ LET n == links[x]
     IN /\ head' = [head EXCEPT ![l] = [d \in Direction |->
                                          IF @[d] = x THEN n[d] ELSE @[d]]]
        /\ links' = Linked(Linked(links, n[forward], reverse, n[reverse]),
                           n[reverse], forward, n[forward])
  /\ owner' = [owner EXCEPT ![x] = null]

\* push() that trusts the stale links of the element it puts in alone.
PushStale(l, x, d) ==
  /\ owner[x] = null
  /\ LET h == head[l][d]
     IN /\ links' = IF h = null THEN links
                    ELSE [Linked(links, h, 1 - d, x) EXCEPT
                            ![x] = [e \in Direction |->
                                      IF e = d THEN h ELSE null]]
        /\ head' = [head EXCEPT ![l] = [e \in Direction |->
                      IF e = d \/ h = null THEN x ELSE @[e]]]
  /\ owner' = [owner EXCEPT ![x] = l]

\* push(to_push, is_forward)
Push(l, x, d) ==
  /\ owner[x] = null
  /\ LET h == head[l][d]
     IN /\ links' = [Linked(links, h, 1 - d, x) EXCEPT
                       ![x] = [e \in Direction |-> IF e = d THEN h ELSE null]]
        /\ head' = [head EXCEPT ![l] = [e \in Direction |->
                      IF e = d \/ h = null THEN x ELSE @[e]]]
  /\ owner' = [owner EXCEPT ![x] = l]

\* pop() that leaves the new first element linked to the removed one.
PopKeepLink(l, d) ==
  /\ ~EmptyList(l)
  /\ LET p == head[l][d]
         n == links[p][d]
     IN /\ head' = [head EXCEPT ![l] = [e \in Direction |->
                      IF e = d \/ n = null THEN n ELSE @[e]]]
        /\ owner' = [owner EXCEPT ![p] = null]
  /\ UNCHANGED links

\* pop(is_forward) of a list that is not empty
Pop(l, d) ==
  /\ ~EmptyList(l)
  /\ LET p == head[l][d]
         n == links[p][d]
     IN /\ head' = [head EXCEPT ![l] = [e \in Direction |->
                      IF e = d \/ n = null THEN n ELSE @[e]]]
        /\ links' = Linked(links, n, 1 - d, null)
        /\ owner' = [owner EXCEPT ![p] = null]

\* purge(): the links of the elements stay as they are.
Purge(l) ==
  /\ head' = [head EXCEPT ![l] = [d \in Direction |-> null]]
  /\ owner' = [x \in Elem |-> IF owner[x] = l THEN null ELSE owner[x]]
  /\ UNCHANGED links

Next ==
  \/ \E x \in Elem : MakeDetached(x)
  \/ \E l \in List, x, y \in Elem, d \in Direction : Insert(l, x, y, d)
  \/ \E l \in List, x \in Elem : RemoveElem(l, x)
  \/ \E l \in List, x \in Elem, d \in Direction : Push(l, x, d)
  \/ \E l \in List, d \in Direction : Pop(l, d)
  \/ \E l \in List : Purge(l)

Spec == Init /\ [][Next]_vars

-----------------------------------------------------------------------------
(* Properties.                                                               *)

TypeOK ==
  /\ head \in [List -> [Direction -> Handle]]
  /\ links \in [Elem -> [Direction -> Handle]]
  /\ owner \in [Elem -> List \union {null}]

\* A list has a first element either way exactly when the caller has put
\* something in it; a first element has nothing before it.
EndsKnown ==
  \A l \in List, d \in Direction :
    LET h == head[l][d]
    IN /\ h = null => \A x \in Elem : owner[x] # l
       /\ h # null => owner[h] = l /\ links[h][1 - d] = null

\* A link leads to an element of the same list that leads back; an element
\* without a link in one direction is the end of its list that way.
NeighboursAgree ==
  \A x \in Elem, d \in Direction : owner[x] # null =>
    LET n == links[x][d]
    IN IF n = null THEN head[owner[x]][1 - d] = x
       ELSE owner[n] = owner[x] /\ links[n][1 - d] = x

\* The shape of the lists, whatever was left in the links of the elements
\* that are in no list.
ListShape == TypeOK /\ EndsKnown /\ NeighboursAgree

\* An element in a list never looks detached, so code that asks
\* is_detached() before a push or an insert cannot link an element twice.
ListedNotDetached == \A x \in Elem : owner[x] # null => ~Detached(x)

\* What a walk along the links from the end of a list visits.
Walk(l, d) == Path(Elem, [x \in Elem |-> links[x][d]], head[l][d])

\* Walking a list in reverse gives the mirror image of walking it forward, and
\* either walk visits exactly the elements the caller put in and did not
\* take out.
WalksMirror ==
  \A l \in List :
    /\ Walk(l, reverse) = Reverse(Walk(l, forward))
    /\ Range(Walk(l, forward)) = {x \in Elem : owner[x] = l}

SL == INSTANCE SequenceList
        WITH seqs <- [l \in List |-> Walk(l, forward)],
             detached <- {x \in Elem : Detached(x)}

OperationsMatch ==
  /\ \A l \in List, x, y \in Elem, d \in Direction :
       Insert(l, x, y, d) => SL!Insert(l, x, y, d)
  /\ \A l \in List, x \in Elem, d \in Direction : Push(l, x, d) => SL!Push(l, x, d)
  /\ \A l \in List, x \in Elem : RemoveElem(l, x) => SL!RemoveElem(l, x)
  /\ \A l \in List, d \in Direction : Pop(l, d) => SL!Pop(l, d)
  /\ \A l \in List : Purge(l) => SL!Purge(l)
  /\ \A x \in Elem : MakeDetached(x) => SL!MakeDetached(x)

\* The lists are the sequences of SequenceList, and each operation is the one
\* on sequences it stands for, at the place and in the direction asked for.
ImplementsSequenceList == SL!Spec /\ [][OperationsMatch]_vars
=============================================================================
