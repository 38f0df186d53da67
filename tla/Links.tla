------------------------------- MODULE Links --------------------------------
(* What a loop along links comes by,                                         *)
(*     for (p = first; p != null; p = link(p))                               *)
(* as the intrusive containers and the scans of ru_shared_mutex have them.   *)

EXTENDS Naturals, FiniteSets

\* The sets of nodes that have first and, with each node, the one it leads to.
Closed(Node, next, first) ==
    {S \in SUBSET Node : /\ first \in Node => first \in S
                         /\ \A x \in S : next[x] \in Node => next[x] \in S}

\* The nodes in all of them; none if first is the null pointer.
Onward(Node, next, first) ==
    LET closed == Closed(Node, next, first)
    IN  {x \in Node : \A S \in closed : x \in S}

\* The nodes a loop comes by, in its order, if it comes to an end.
Path(Node, next, first) ==
  LET hop[n \in Nat] == IF n = 0 THEN first
                        ELSE IF hop[n - 1] \in Node THEN next[hop[n - 1]]
                        ELSE hop[n - 1]
  IN [n \in 1..Cardinality(Onward(Node, next, first)) |-> hop[n - 1]]

=============================================================================
