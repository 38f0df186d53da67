------------------------------ MODULE ListOps -------------------------------
(* The member functions of list.h, the singly linked intrusive list, as      *)
(* operators on its storage: a record s of                                   *)
(*   head  list -> its first element,                                        *)
(*   tail  list -> its last element, kept only by the lists in StoreTail,    *)
(*   next  element -> the one link stored in it.                             *)
(* Several lists share the elements.  What a loop of the code that follows   *)
(* the links from the head looks for is sought in Visited, the elements such *)
(* a loop comes by.                                                          *)
EXTENDS Naturals, FiniteSets, Links

CONSTANTS Elem,       \* the elements (their handles)
          List,       \* the lists
          StoreTail,  \* the lists of a class with store_tail: they keep their last element
          null        \* the null handle

ASSUME ListOpsAssumption == /\ null \notin Elem /\ null \notin List
                            /\ IsFiniteSet(Elem)
                            /\ StoreTail \subseteq List

forward == 1
reverse == 0
Direction == {reverse, forward}
Handle == Elem \union {null}

Storage == [head : [List -> Handle], tail : [List -> Handle],
            next : [Elem -> Handle]]

\* list(): every list empty, the elements' storage as it happens to be.
Fresh == {[head |-> [l \in List |-> null], tail |-> [l \in List |-> null],
           next |-> n] : n \in [Elem -> Handle]}

\* The elements met from the head of l on.
Visited(s, l) == Onward(Elem, s.next, s.head[l])

\* The element before h in l, null if h is the head.
Before(s, l, h) ==
  IF s.head[l] = h THEN null ELSE CHOOSE p \in Visited(s, l) : s.next[p] = h

\* The element that leads nowhere, null if l is empty.
LastOf(s, l) ==
  IF s.head[l] = null THEN null ELSE CHOOSE p \in Visited(s, l) : s.next[p] = null

\* link(h, is_forward)
LinkOf(s, l, h, d) == IF d = forward THEN s.next[h] ELSE Before(s, l, h)

\* start(is_forward)
Start(s, l, d) ==
  IF d = forward THEN s.head[l]
  ELSE IF l \in StoreTail THEN s.tail[l] ELSE LastOf(s, l)

Empty(s, l) == s.head[l] = null
IsDetached(s, h) == s.next[h] = h
MakeDetached(s, h) == [s EXCEPT !.next[h] = h]

\* tail() = h, where the tail is stored
Tailed(s, l, h) == IF l \in StoreTail THEN [s EXCEPT !.tail[l] = h] ELSE s

\* push(to_push, is_forward)
Push(s, l, x, d) ==
  IF Empty(s, l)
  THEN Tailed([s EXCEPT !.next[x] = null, !.head[l] = x], l, x)
  ELSE IF d = forward
  THEN [s EXCEPT !.next[x] = s.head[l], !.head[l] = x]
  ELSE Tailed([s EXCEPT !.next[x] = null, !.next[Start(s, l, reverse)] = x], l, x)

\* The rest of insert(): to_insert goes between in_list and the element after it.
InsertAfter(s, l, x, y, after) ==
  LET linked == [s EXCEPT !.next[y] = after, !.next[x] = y]
  IN IF after = null THEN Tailed(linked, l, y) ELSE linked

\* An insert() that does not look for the head in reverse.
InsertNotHead(s, l, x, y, d) ==
  LET ilf == LinkOf(s, l, x, d)
  IN IF d = reverse /\ ilf # null THEN InsertAfter(s, l, ilf, y, x)
     ELSE InsertAfter(s, l, x, y, s.next[x])

\* insert(in_list, to_insert, is_forward)
Insert(s, l, x, y, d) ==
  LET ilf == LinkOf(s, l, x, d)
  IN IF d = forward THEN InsertAfter(s, l, x, y, ilf)
     ELSE IF ilf = null THEN Push(s, l, y, forward)
     ELSE InsertAfter(s, l, ilf, y, x)

\* A remove_forward() that forgets the tail.
RemoveForwardKeepTail(s, l, x) == [s EXCEPT !.next[x] = s.next[s.next[x]]]

\* remove_forward(in_list), of an element that is not the last one
RemoveForward(s, l, x) ==
  LET ff == s.next[s.next[x]]
      cut == [s EXCEPT !.next[x] = ff]
  IN IF ff = null THEN Tailed(cut, l, x) ELSE cut

\* remove(in_list)
RemoveElem(s, l, x) ==
  LET f == s.next[x]
      r == Before(s, l, x)
      cut == IF r = null THEN [s EXCEPT !.head[l] = f] ELSE [s EXCEPT !.next[r] = f]
  IN IF f = null THEN Tailed(cut, l, r) ELSE cut

\* A pop() that forgets the tail when it takes the last element of several.
PopKeepTail(s, l, d) ==
  LET f == s.next[s.head[l]]
      h == Before(s, l, LastOf(s, l))
      cut == [s EXCEPT !.head[l] = f]
  IN IF d = reverse /\ f # null THEN [s EXCEPT !.next[h] = null]
     ELSE IF f = null THEN Tailed(cut, l, null)
     ELSE cut

\* pop(is_forward) of a list that is not empty.  In reverse the loop ends with
\* h, the last element but one.
Pop(s, l, d) ==
  LET f == s.next[s.head[l]]
      h == Before(s, l, LastOf(s, l))
      cut == [s EXCEPT !.head[l] = f]
  IN IF d = reverse /\ f # null THEN Tailed([s EXCEPT !.next[h] = null], l, h)
     ELSE IF f = null THEN Tailed(cut, l, null)
     ELSE cut

\* The element pop() returns.
Popped(s, l, d) == IF d = forward THEN s.head[l] ELSE LastOf(s, l)

\* purge(): the links of the elements stay as they are.
Purge(s, l) == Tailed([s EXCEPT !.head[l] = null], l, null)
=============================================================================
