----------------------------- MODULE IpAddrCnt ------------------------------
(* The class of avl_ex2.cpp, which counts how often each IP address is seen: *)
(* an AVL tree over an array of nodes, whose abstractor keeps the balance    *)
(* factor of a node in the high bits of its two child indices.  A node is    *)
(* named by the address it holds.  The node that see() prepares for an       *)
(* address it then finds in the tree is prepared again the next time, and    *)
(* has no state of its own.                                                  *)
EXTENDS AvlOps

CONSTANTS NumNodes,     \* the size of the node array
          MaxCnt        \* the greatest value of cnt

VARIABLES tree,     \* the tree over the nodes in use
          cnt       \* address -> how often it was seen; 0: it has no node

\* set_balance_factor() of the second factor in a node that holds the first,
\* and get_balance_factor() of what the two bits are then: the sign bit, in
\* gt, is set for a negative factor and cleared for zero only.
RobbedBits(old, new) ==
  LET magnitude == new # 0
      sign == magnitude /\ (new < 0 \/ old < 0)
  IN IF sign THEN -1 ELSE IF magnitude THEN 1 ELSE 0

Used == {ip \in Elem : cnt[ip] > 0}

Init == /\ tree = [root |-> null, kid |-> [e \in Elem |-> [s \in Side |-> null]],
                   bf |-> [e \in Elem |-> 0]]
        /\ cnt = [ip \in Elem |-> 0]

\* see(): with all nodes in use, an address that has none is ignored.
See(ip) ==
  LET known == Search(tree, KeyOf[ip], "equal") # null
  IN /\ known \/ Cardinality(Used) < NumNodes
     /\ tree' = IF known THEN tree ELSE Insert(tree, ip)
     /\ cnt' = [cnt EXCEPT ![ip] = IF @ = MaxCnt THEN @ ELSE @ + 1]

Next == \E ip \in Elem : See(ip)

Spec == Init /\ [][Next]_<<tree, cnt>>

\* What the two bits of a node say is its balance factor, the sign in the one
\* and the magnitude in the other, as avl_ex2.cpp:45 describes them: the depth
\* of its greater subtree less the depth of the other, after any rotations.
FactorReadBack ==
  \A ip \in Used : tree.bf[ip] = Depth(tree, tree.kid[ip][greater])
                                 - Depth(tree, tree.kid[ip][less])
=============================================================================
