---------------------------- MODULE SequenceList ----------------------------
(* What the two intrusive list templates (bidir_list.h, list.h) promise:     *)
(* each list is a sequence of elements, an element is in at most one list,   *)
(* and every operation works at either end of the sequence or beside a given *)
(* element.  A direction is forward or reverse, as in the code; the "first"  *)
(* element in the reverse direction is the last one.                         *)
EXTENDS Naturals, SequencesExt

CONSTANTS Elem,     \* the elements
          List      \* the lists that share them

VARIABLES seqs,     \* list -> the sequence of its elements
          detached  \* the elements is_detached() is true of

listVars == <<seqs, detached>>

forward == 1
reverse == 0
Direction == {reverse, forward}

Placed == UNION {Range(seqs[l]) : l \in List}

\* Put x at the first place of s in direction d; remove the element there.
Pushed(s, x, d) == IF d = forward THEN <<x>> \o s ELSE Append(s, x)
Popped(s, d) == IF d = forward THEN Tail(s) ELSE Front(s)

PlaceOf(s, x) == CHOOSE k \in DOMAIN s : s[k] = x

\* Put y next to the element x of s, on x's side d.
Beside(s, x, y, d) ==
  InsertAt(s, IF d = forward THEN PlaceOf(s, x) + 1 ELSE PlaceOf(s, x), y)

Init == /\ seqs = [l \in List |-> <<>>]
        /\ detached \in SUBSET Elem   \* fresh storage may look detached

Insert(l, x, y, d) ==
  /\ x \in Range(seqs[l])
  /\ y \notin Placed
  /\ seqs' = [seqs EXCEPT ![l] = Beside(@, x, y, d)]
  /\ detached' = detached \ {y}

RemoveElem(l, x) ==
  /\ x \in Range(seqs[l])
  /\ seqs' = [seqs EXCEPT ![l] = RemoveAt(@, PlaceOf(@, x))]
  /\ UNCHANGED detached

Push(l, x, d) ==
  /\ x \notin Placed
  /\ seqs' = [seqs EXCEPT ![l] = Pushed(@, x, d)]
  /\ detached' = detached \ {x}

Pop(l, d) ==
  /\ seqs[l] # <<>>
  /\ seqs' = [seqs EXCEPT ![l] = Popped(@, d)]
  /\ UNCHANGED detached

Purge(l) ==
  /\ seqs' = [seqs EXCEPT ![l] = <<>>]
  /\ UNCHANGED detached

MakeDetached(x) ==
  /\ x \notin Placed
  /\ detached' = detached \union {x}
  /\ UNCHANGED seqs

Next ==
  \/ \E l \in List, x, y \in Elem, d \in Direction : Insert(l, x, y, d)
  \/ \E l \in List, x \in Elem : RemoveElem(l, x)
  \/ \E l \in List, x \in Elem, d \in Direction : Push(l, x, d)
  \/ \E l \in List, d \in Direction : Pop(l, d)
  \/ \E l \in List : Purge(l)
  \/ \E x \in Elem : MakeDetached(x)

Spec == Init /\ [][Next]_listVars
=============================================================================
