------------------------------ MODULE AvlTree -------------------------------
(* avl_tree.h in use: one tree, an iterator over it, and calling code that   *)
(* keeps to the documented preconditions.  A change of the tree invalidates  *)
(* the iterator.  The calling code may destroy the nodes in a last iteration *)
(* (avl_ex1.cpp:146): it moves the iterator on and then frees the node it    *)
(* has stepped past, until the iterator is null and the tree is purged.      *)
EXTENDS AvlOps, Functions

\* An abstractor whose get_bf() gives what set_bf() was given.
ASSUME GivesBack == \A old, new \in -1..1 : StoredBf(old, new) = new

VARIABLES tree,     \* the storage of the tree and of the nodes
          inside,   \* the nodes the caller has put in and not taken out
          it,       \* the iterator
          freed,    \* nodes freed in a last iteration
          marching  \* the side a last iteration goes to, 0 if there is none

vars == <<tree, inside, it, freed, marching>>

Key == {KeyOf[e] : e \in Elem}
Found(k) == Search(tree, k, "equal")

Init ==
  /\ tree = [root |-> null, kid |-> [e \in Elem |-> [s \in Side |-> null]],
             bf |-> [e \in Elem |-> 0]]
  /\ inside = {} /\ it = NullIter /\ freed = {} /\ marching = 0

\* The tree is changed to t and holds the nodes in S: the iterator is dropped.
Becomes(t, S) == /\ marching = 0
                 /\ tree' = t
                 /\ inside' = S
                 /\ it' = NullIter
                 /\ UNCHANGED <<freed, marching>>

InsertNode(h) ==
  /\ h \notin inside
  /\ Becomes(Insert(tree, h), IF Found(KeyOf[h]) = null THEN inside \union {h} ELSE inside)

RemoveKey(k) == Becomes(Remove(tree, k), inside \ {Found(k)})

SubstNode(h) ==
  LET old == Found(KeyOf[h])
  IN /\ h \notin inside
     /\ Becomes(Subst(tree, h), IF old = null THEN inside ELSE (inside \ {old}) \union {h})

\* Sets of nodes with different keys, and such a set in the order of the keys.
Distinct(S) == \A d, e \in S : d # e => KeyOf[d] # KeyOf[e]
InKeyOrder(S) ==
  [i \in 1..Cardinality(S) |->
     CHOOSE e \in S : Cardinality({d \in S : KeyOf[d] < KeyOf[e]}) = i - 1]

\* build(): the caller gives the nodes in order.
BuildTree(S) == Distinct(S) /\ Becomes(Build(tree, InKeyOrder(S)), S)

PurgeTree == /\ marching = 0 \/ it = NullIter
             /\ tree' = Purge(tree)
             /\ inside' = {} /\ it' = NullIter /\ freed' = {} /\ marching' = 0

Moves(i) == marching = 0 /\ it' = i /\ UNCHANGED <<tree, inside, freed, marching>>

StartAt(k, st) == Moves(StartIter(tree, k, st))
StartAtEnd(s) == Moves(StartExtreme(tree, s))
StepIter(s) == it.path # <<>> /\ Moves(Step(tree, it, s))

\* One round of the last iteration: what the freed node's memory holds then is
\* anything, here a node without children.
March(s) ==
  LET n == Current(it)
  IN /\ it.path # <<>>
     /\ marching = s \/ (marching = 0 /\ n = Extreme(tree, -s))
     /\ marching' = s
     /\ it' = Step(tree, it, s)
     /\ freed' = freed \union {n}
     /\ tree' = Leaf(tree, n)
     /\ UNCHANGED inside

\* The calling code at work on the given nodes.
NextOver(nodes) ==
  LET keys == {KeyOf[e] : e \in nodes}
  IN \/ \E h \in nodes : InsertNode(h)
     \/ \E k \in keys : RemoveKey(k)
     \/ \E h \in nodes : SubstNode(h)
     \/ \E S \in SUBSET nodes : BuildTree(S)
     \/ PurgeTree
     \/ \E k \in keys, st \in SearchType : StartAt(k, st)
     \/ \E s \in Side : StartAtEnd(s)
     \/ \E s \in Side : StepIter(s)
     \/ \E s \in Side : March(s)

Next == NextOver(Elem)

Spec == Init /\ [][Next]_vars

-----------------------------------------------------------------------------

\* The nodes of the subtree of h in the order of the tree, none of them below
\* more than a path of n nodes.
InOrder(t, h, n) ==
  LET order[m \in Nat] ==
        [g \in Handle |->
           IF m = 0 \/ g = null THEN <<>>
           ELSE order[m - 1][t.kid[g][less]] \o <<g>> \o order[m - 1][t.kid[g][greater]]]
  IN order[n][h]

Sorted(s) == \A i \in 1..(Len(s) - 1) : KeyOf[s[i]] < KeyOf[s[i + 1]]

\* The tree holds exactly the nodes the caller put in, ordered by key, and the
\* balance factor of each is the difference in depth of its subtrees, at most
\* one: what every rotation and every climb has to restore.
AvlShape ==
  marching = 0 =>
    LET order == InOrder(tree, tree.root, Cardinality(Elem) + 1)
    IN /\ tree \in Tree
       /\ Len(order) = Cardinality(inside) /\ Range(order) = inside
       /\ Sorted(order)
       /\ \A h \in inside : tree.bf[h] = Depth(tree, tree.kid[h][greater])
                                         - Depth(tree, tree.kid[h][less])

\* MN(d), the least number of nodes of an AVL tree of depth d.
MN[d \in Nat] == IF d < 2 THEN d ELSE MN[d - 1] + MN[d - 2] + 1

\* A tree is never deeper than the table of MN(d) in the documentation allows
\* for its number of nodes, from which a user picks max_depth: the size of the
\* arrays branch and path_h, which the code does not check.
DepthWithinTable == marching = 0 => MN[Depth(tree, tree.root)] <= Cardinality(inside)

\* The node in the tree that a search is documented to answer with.
Answer(k, st) ==
  LET ok == {e \in inside : \/ Equal(st) /\ KeyOf[e] = k
                            \/ TargetCmp(st) # 0 /\ Sign(k - KeyOf[e]) = TargetCmp(st)}
  IN IF ok = {} THEN null
     ELSE CHOOSE e \in ok : \A f \in ok : (KeyOf[f] - KeyOf[e]) * TargetCmp(st) <= 0

\* Every kind of search, for every key in the tree, between or beyond those in
\* it, answers with the node closest to the key on the side asked for.
SearchesRight ==
  marching = 0 =>
    \A k \in Key \union {k + 1 : k \in Key}, st \in SearchType :
      Search(tree, k, st) = Answer(k, st)

\* The iterator at node e, or null, moved to side s: the next node in order.
Neighbour(e, s) ==
  LET beyond == {f \in inside : Sign(KeyOf[f] - KeyOf[e]) = s}
  IN IF beyond = {} THEN null
     ELSE CHOOSE f \in beyond : \A g \in beyond : (KeyOf[g] - KeyOf[f]) * s >= 0

\* start_iter() puts the iterator where the same search() ends, and ++ and --
\* from any place visit the neighbours in order, turning at any node, though
\* the path kept in the iterator is all it has to find its way back up.
IterInOrder ==
  /\ marching = 0 => \A k \in Key, st \in SearchType :
                       Current(StartIter(tree, k, st)) = Answer(k, st)
  /\ it # NullIter => \A s \in Side : s = marching \/ marching = 0 =>
                       Current(Step(tree, it, s)) = Neighbour(Current(it), s)

\* In a last iteration a node is never accessed again once the iterator has
\* stepped past it (avl_ex1.cpp:152), so the iteration reaches every node,
\* although those behind it are gone.
MarchFreesAll == marching # 0 => /\ Current(it) \notin freed
                                 /\ it = NullIter => freed = inside
=============================================================================
