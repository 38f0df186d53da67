----------------------------- MODULE KeyedTable -----------------------------
(* What a search structure of the library promises: it holds at most one     *)
(* element for each key, and a key finds the element it was put in with.     *)
EXTENDS Naturals

CONSTANTS Key, Elem, null

VARIABLE table      \* key -> the element stored under it, or null

Holds(e) == \E k \in Key : table[k] = e

Init == table = [k \in Key |-> null]

Insert(k, e) == /\ table[k] = null
                /\ ~Holds(e)
                /\ table' = [table EXCEPT ![k] = e]

\* Nothing happens if there is no element with that key.
Remove(k) == table' = [table EXCEPT ![k] = null]

Purge == table' = [k \in Key |-> null]

Next == \/ \E k \in Key, e \in Elem : Insert(k, e)
        \/ \E k \in Key : Remove(k)
        \/ Purge

Spec == Init /\ [][Next]_table
=============================================================================
