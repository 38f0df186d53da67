----------------------------- MODULE MCAvlTree ------------------------------
(* Small instances of AvlTree.  The nodes are numbers; nodes that differ by  *)
(* twenty have the same key.                                                 *)
EXTENDS AvlTree

CONSTANTS Nodes,    \* the nodes
          Small,    \* those that every operation is tried with
          Large     \* trees of at least as many nodes are changed further
Keys == [e \in Nodes |-> e % 20]

\* An abstractor that gives back the balance factor it was given.
Plain(old, new) == new

\* The fields of a node that is not in the tree tell no states apart: every
\* operation that puts a node in sets them first.
Fields(e) == IF e \in inside THEN <<tree.kid[e], tree.bf[e]>> ELSE <<>>
View == <<tree.root, [e \in Elem |-> Fields(e)], inside, it, freed, marching>>

\* Large trees, from build() on: a remove() that rotates twice on its way up
\* needs twelve nodes.
LargeNext ==
  \/ inside = {} /\ \E n \in Large..Cardinality(Key) : BuildTree(1..n)
  \/ /\ Cardinality(inside) >= Large
     /\ \/ \E h \in Elem : InsertNode(h)
        \/ \E k \in Key : RemoveKey(k)
  \/ PurgeTree

MCSpec == Init /\ [][(inside \subseteq Small /\ NextOver(Small)) \/ LargeNext]_vars
=============================================================================
