------------------------------- MODULE AvlOps -------------------------------
(* The member functions of avl_tree.h, as operators on the storage of a      *)
(* tree, a record t of                                                       *)
(*   root  the root node's handle,                                           *)
(*   kid   node -> side -> its child there: set_less(), set_greater(),       *)
(*   bf    node -> its balance factor.                                       *)
(* A side is less (-1) or greater (1), the sign of a comparison, so that the *)
(* two mirrored halves of the code are one definition here.  The arrays      *)
(* branch and path_h of the code are sequences, counted from 1.  No read of  *)
(* a node fails (read_error() is false): after a failure the code promises   *)
(* nothing about the tree.                                                   *)
EXTENDS Integers, FiniteSets, Sequences

CONSTANTS Elem,     \* the nodes
          KeyOf,    \* node -> its key, a natural number
          null,     \* the null handle
          StoredBf(_, _)  \* what get_bf() gives once the second factor was
                          \* set over the first: the abstractor's own

ASSUME AvlAssumption == /\ IsFiniteSet(Elem) /\ null \notin Elem
                        /\ KeyOf \in [Elem -> Nat]

less == -1
greater == 1
Side == {less, greater}
Handle == Elem \union {null}
Tree == [root : Handle, kid : [Elem -> [Side -> Handle]], bf : [Elem -> -1..1]]

Sign(n) == IF n < 0 THEN -1 ELSE IF n > 0 THEN 1 ELSE 0
SideOf(b) == IF b THEN greater ELSE less
LastOf(s) == s[Len(s)]

\* set_lt() or set_gt() of the node before place i of a way from the root,
\* which takes the sides in branch; place 1 is the root's.
SetPlace(t, path, branch, i, k) ==
  IF i = 1 THEN [t EXCEPT !.root = k]
  ELSE [t EXCEPT !.kid[path[i - 1]][branch[i - 1]] = k]

\* The node h given its children and its balance factor.
Made(t, h, kids, b) == [t EXCEPT !.kid = [t.kid EXCEPT ![h] = kids],
                                 !.bf = [t.bf EXCEPT ![h] = StoredBf(@, b)]]
Leaf(t, h) == Made(t, h, [s \in Side |-> null], 0)

\* The nodes that a loop comes by on its way from h to next[h] and on, until it
\* is at null.
Way(next, h) ==
  LET way[n \in Nat] ==
        [g \in Handle |-> IF n = 0 \/ g = null THEN <<>> ELSE <<g>> \o way[n - 1][next[g]]]
  IN way[Cardinality(Elem)][h]

\* The kinds of search (search_type): whether an equal key is sought, and on
\* which side of the key sought the node may be.
SearchType == {"equal", "less", "greater", "less_equal", "greater_equal"}
Equal(st) == st \notin {"less", "greater"}
TargetCmp(st) == CASE st = "equal" -> 0
                   [] st \in {"less", "less_equal"} -> 1
                   [] OTHER -> -1

\* The way down in a search for k: the nodes compared with k.  At an equal key
\* that is not sought, the search goes on on the side where the node sought is.
Toward(t, k, st) ==
  [g \in Handle |->
     IF g = null \/ (KeyOf[g] = k /\ Equal(st)) THEN null
     ELSE t.kid[g][IF KeyOf[g] = k THEN -TargetCmp(st) ELSE Sign(k - KeyOf[g])]]
Descent(t, k, st) == Way(Toward(t, k, st), t.root)

\* Whether a node compared with k answers the search.
Good(e, k, st) == IF KeyOf[e] = k THEN Equal(st) ELSE Sign(k - KeyOf[e]) = TargetCmp(st)

\* A search that takes the first node on its way that would do.
MatchFirst(t, k, st) ==
  LET path == Descent(t, k, st)
      good == {i \in DOMAIN path : Good(path[i], k, st)}
  IN IF good = {} THEN 0 ELSE CHOOSE i \in good : \A j \in good : i <= j

\* How many nodes of that way there are up to the last one that answers the
\* search, 0 if none does.
Match(t, k, st) ==
  LET path == Descent(t, k, st)
      good == {i \in DOMAIN path : Good(path[i], k, st)}
  IN IF good = {} THEN 0 ELSE CHOOSE i \in good : \A j \in good : j <= i

\* search(k, st)
Search(t, k, st) ==
  LET m == Match(t, k, st) IN IF m = 0 THEN null ELSE Descent(t, k, st)[m]

\* From h on towards side s as far as it goes, h included.
Along(t, h, s) == Way([g \in Handle |-> IF g = null THEN null ELSE t.kid[g][s]], h)

\* search_least(), search_greatest()
Extreme(t, s) == LET path == Along(t, t.root, s)
                 IN IF path = <<>> THEN null ELSE LastOf(path)

\* The sides taken on a way through the tree.
Branches(t, path) ==
  [i \in 1..(Len(path) - 1) |-> SideOf(path[i + 1] = t.kid[path[i]][greater])]

\* balance(h), of a node two levels deeper on the side its balance factor
\* names: the tree, and the root of the subtree afterwards.
Balance(t, h) ==
  LET s == IF t.bf[h] > 0 THEN greater ELSE less
      deep == t.kid[h][s]
      mid == t.kid[deep][-s]
      double == [t EXCEPT
        !.kid = [t.kid EXCEPT ![h][s] = t.kid[mid][-s], ![deep][-s] = t.kid[mid][s],
                              ![mid] = [e \in Side |-> IF e = s THEN deep ELSE h]],
        !.bf = [t.bf EXCEPT ![h] = StoredBf(@, IF t.bf[mid] = s THEN -s ELSE 0),
                            ![deep] = StoredBf(@, IF t.bf[mid] = -s THEN s ELSE 0),
                            ![mid] = StoredBf(@, 0)]]
      single == [t EXCEPT
        !.kid = [t.kid EXCEPT ![h][s] = t.kid[deep][-s], ![deep][-s] = h],
        !.bf = [t.bf EXCEPT ![h] = StoredBf(@, IF t.bf[deep] = 0 THEN s ELSE 0),
                            ![deep] = StoredBf(@, IF t.bf[deep] = 0 THEN -s ELSE 0)]]
  IN IF t.bf[deep] = -s THEN [tree |-> double, top |-> mid]
     ELSE [tree |-> single, top |-> deep]

\* insert(h): the node's own fields are cleared before an equal key is found.
Insert(t, h) ==
  LET clean == Leaf(t, h)
      path == Descent(clean, KeyOf[h], "equal")
      side == [i \in DOMAIN path |-> Sign(KeyOf[h] - KeyOf[path[i]])]
      n == Len(path)
      leaning == {i \in 1..n : t.bf[path[i]] # 0}
      u == IF leaning = {} THEN 0 ELSE CHOOSE i \in leaning : \A j \in leaning : j <= i
      hung == SetPlace(clean, path, side, n + 1, h)
      \* the nodes below the last unbalanced one lean to the new leaf
      lower == {path[i] : i \in (u + 1)..n}
      below == [hung EXCEPT !.bf = [e \in Elem |->
                  IF e \in lower THEN StoredBf(@[e], Sign(KeyOf[h] - KeyOf[e])) ELSE @[e]]]
      ubf == t.bf[path[u]] + side[u]
      b == Balance(below, path[u])
  IN IF \E i \in 1..n : side[i] = 0 THEN clean
     ELSE IF u = 0 THEN below
     ELSE IF ubf \in {-1, 0, 1} THEN [below EXCEPT !.bf[path[u]] = StoredBf(@, ubf)]
     ELSE SetPlace(b.tree, path, side, u, b.top)

\* A round of a climb that takes every subtree it has rotated for one of
\* unchanged depth.
ClimbRotated(c, path, branch) ==
  LET h == path[c.i]
      bf == c.tree.bf[h] - branch[c.i]
      b == IF ~c.reduced THEN [tree |-> c.tree, top |-> h]
           ELSE IF bf \in {-2, 2} THEN Balance(c.tree, h)
           ELSE [tree |-> [c.tree EXCEPT !.bf[h] = StoredBf(@, bf)], top |-> h]
  IN [tree |-> SetPlace(b.tree, path, branch, c.i, b.top), i |-> c.i - 1,
      reduced |-> c.reduced /\ b.top = h /\ bf = 0]

\* A round of the climb of remove(), at path[c.i].  branch[c.i] is the side on
\* which the subtree of path[c.i] was changed, of less depth than before if
\* c.reduced.  The code keeps the way up in the links of the nodes on it,
\* reversed, and puts them right as it climbs.
Climb(c, path, branch) ==
  LET h == path[c.i]
      bf == c.tree.bf[h] - branch[c.i]
      b == IF ~c.reduced THEN [tree |-> c.tree, top |-> h]
           ELSE IF bf \in {-2, 2} THEN Balance(c.tree, h)
           ELSE [tree |-> [c.tree EXCEPT !.bf[h] = StoredBf(@, bf)], top |-> h]
  IN [tree |-> SetPlace(b.tree, path, branch, c.i, b.top), i |-> c.i - 1,
      reduced |-> c.reduced /\ b.tree.bf[b.top] = 0]

\* The climb from the end of the path to the root.
Climbed(t, path, branch) ==
  LET up[n \in 0..Len(path)] ==
        IF n = 0 THEN [tree |-> t, i |-> Len(path), reduced |-> TRUE]
        ELSE Climb(up[n - 1], path, branch)
  IN up[Len(path)].tree

\* remove(k): the node with the key, rm, or one next to it in order, h, which
\* then takes rm's place, is cut out of the tree.
Remove(t, k) ==
  LET found == Descent(t, k, "equal")
      m == Len(found)
      rm == found[m]
      s == IF t.bf[rm] < 0 THEN less ELSE greater
      down == Along(t, t.kid[rm][s], -s)      \* from rm to the node next to it
      way == found \o down
      branch == [i \in DOMAIN way |-> IF i < m THEN Sign(k - KeyOf[way[i]])
                                      ELSE IF i = m THEN s ELSE -s]
      n == Len(way)
      h == way[n]
      cut == SetPlace(t, way, branch, n, IF h = rm THEN null ELSE t.kid[h][s])
      put == IF h = rm THEN cut
             ELSE SetPlace(Made(cut, h, cut.kid[rm], cut.bf[rm]), found, branch, m, h)
      path == [i \in 1..(n - 1) |-> IF i = m THEN h ELSE way[i]]
  IN IF t.root = null \/ KeyOf[rm] # k THEN t ELSE Climbed(put, path, branch)

\* subst(new_node), of a node that is not in the tree
Subst(t, new) ==
  LET found == Descent(t, KeyOf[new], "equal")
      n == Len(found)
      h == found[n]
      side == [i \in DOMAIN found |-> Sign(KeyOf[new] - KeyOf[found[i]])]
      copied == Made(t, new, t.kid[h], t.bf[h])
  IN IF t.root = null \/ KeyOf[h] # KeyOf[new] THEN t
     ELSE SetPlace(copied, found, side, n, new)

Purge(t) == [t EXCEPT !.root = null]

-----------------------------------------------------------------------------
(* build(p, num_nodes), with p the sequence of nodes.  Its variables are a   *)
(* record b: num (num_sub), h, depth, branch and rem (at depth N: index N    *)
(* plus 1), stack (less_parent), p the nodes still to come, and the tree.    *)

(* One round of a loop is one step.  up tells the first inner loop from the  *)
(* rest of a round of the outer one.                                         *)

\* The first inner loop: down to a less subtree of one or two nodes.
Halve(b) == [b EXCEPT !.num = (b.num - 1) \div 2,
                      !.rem = Append(@, (b.num - 1) % 2),
                      !.branch = Append(@, less)]

\* A subtree of one node, or of two slanting to greater.
Twig(b) ==
  LET h == b.p[1]
      one == Leaf(b.tree, h)
      two == Made(Leaf(one, b.p[2]), h, [s \in Side |-> IF s = greater THEN b.p[2] ELSE null], 1)
  IN [b EXCEPT !.h = h, !.p = SubSeq(@, b.num + 1, Len(@)), !.up = TRUE,
               !.tree = IF b.num = 2 THEN two ELSE one]

\* A depth reckoned from the last bit of the number of nodes only.
PowerOf2Even(n) == n % 2 = 0

\* Whether the greater subtree is deeper: build() splits n nodes evenly.
PowerOf2(n) ==
  LET power[e \in Nat] == IF e = 0 THEN 1 ELSE 2 * power[e - 1]
  IN \E e \in 0..n : n = power[e]

\* A round of the second inner loop: a greater subtree is complete and hung on
\* its parent, popped off the stack that is linked through the greater children.
Hang(b) ==
  LET d == Len(b.branch)
      h == b.stack
      num == 2 * b.num + 1 - b.rem[d]
  IN [b EXCEPT !.h = h, !.num = num, !.stack = b.tree.kid[h][greater],
               !.branch = SubSeq(@, 1, d - 1), !.rem = SubSeq(@, 1, d - 1),
               !.tree = Made(@, h, [@.kid[h] EXCEPT ![greater] = b.h],
                             IF PowerOf2(num) THEN 1 ELSE 0)]

\* The end of the outer loop: a complete less subtree goes under the next node.
Adopt(b) ==
  LET d == Len(b.branch)
      h == b.p[1]
  IN [b EXCEPT !.p = Tail(@), !.stack = h, !.h = h, !.up = FALSE,
               !.branch = [@ EXCEPT ![d] = greater], !.num = @ + b.rem[d],
               !.tree = [@ EXCEPT !.kid = [b.tree.kid EXCEPT
                 ![h] = [s \in Side |-> IF s = less THEN b.h ELSE b.stack]]]]

Round(b, num_nodes) ==
  LET d == Len(b.branch)
  IN IF ~b.up THEN IF b.num > 2 THEN Halve(b) ELSE Twig(b)
     ELSE IF d > 0 /\ b.branch[d] = greater THEN Hang(b)
     ELSE IF b.num # num_nodes THEN Adopt(b)
     ELSE b

\* Of n nodes each is reached by at most three rounds.
Build(t, p) ==
  LET run[n \in 0..(3 * Len(p))] ==
        IF n = 0 THEN [tree |-> t, num |-> Len(p), h |-> null, branch |-> <<>>,
                       rem |-> <<>>, stack |-> null, p |-> p, up |-> FALSE]
        ELSE Round(run[n - 1], Len(p))
      done == run[3 * Len(p)]
  IN IF p = <<>> THEN Purge(t) ELSE [done.tree EXCEPT !.root = done.h]

-----------------------------------------------------------------------------
(* class iter: the nodes from the root to the current one (the root and      *)
(* path_h), empty when the iterator is null.  Its array branch is the sides  *)
(* taken between them.                                                       *)

NullIter == [path |-> <<>>, branch |-> <<>>]
Current(it) == IF it.path = <<>> THEN null ELSE LastOf(it.path)

At(t, path) == [path |-> path, branch |-> Branches(t, path)]

\* start_iter(tree, k, st): stops at the node search() answers with.
StartIter(t, k, st) == At(t, SubSeq(Descent(t, k, st), 1, Match(t, k, st)))

\* start_iter_least(), start_iter_greatest()
StartExtreme(t, s) == At(t, Along(t, t.root, s))

\* A step that looks up in the nodes on its path which way it came.
StepReread(t, it, s) ==
  LET more == Along(t, t.kid[Current(it)][s], -s)
      turns == {i \in DOMAIN it.branch : Branches(t, it.path)[i] = -s}
      back == CHOOSE i \in turns : \A j \in turns : j <= i
  IN IF it.path = <<>> THEN it
     ELSE IF more # <<>>
     THEN [path |-> it.path \o more,
           branch |-> it.branch \o [i \in DOMAIN more |-> IF i = 1 THEN s ELSE -s]]
     ELSE IF turns = {} THEN NullIter
     ELSE [path |-> SubSeq(it.path, 1, back), branch |-> SubSeq(it.branch, 1, back - 1)]

\* A step that goes back by one node only.
StepToNearest(t, it, s) ==
  LET more == Along(t, t.kid[Current(it)][s], -s)
      turns == DOMAIN it.branch
      back == CHOOSE i \in turns : \A j \in turns : j <= i
  IN IF it.path = <<>> THEN it
     ELSE IF more # <<>>
     THEN [path |-> it.path \o more,
           branch |-> it.branch \o [i \in DOMAIN more |-> IF i = 1 THEN s ELSE -s]]
     ELSE IF turns = {} THEN NullIter
     ELSE [path |-> SubSeq(it.path, 1, back), branch |-> SubSeq(it.branch, 1, back - 1)]

\* ++ (s greater) and -- (s less): to the node next to the current one in its
\* subtree on side s, or else to the last node that the path left on the
\* other side.
Step(t, it, s) ==
  LET more == Along(t, t.kid[Current(it)][s], -s)
      turns == {i \in DOMAIN it.branch : it.branch[i] = -s}
      back == CHOOSE i \in turns : \A j \in turns : j <= i
  IN IF it.path = <<>> THEN it
     ELSE IF more # <<>>
     THEN [path |-> it.path \o more,
           branch |-> it.branch \o [i \in DOMAIN more |-> IF i = 1 THEN s ELSE -s]]
     ELSE IF turns = {} THEN NullIter
     ELSE [path |-> SubSeq(it.path, 1, back), branch |-> SubSeq(it.branch, 1, back - 1)]

\* The depth of the subtree of h.
Depth(t, h) ==
  LET depth[n \in Nat] ==
        [g \in Handle |->
           IF n = 0 \/ g = null THEN 0
           ELSE LET l == depth[n - 1][t.kid[g][less]]
                    r == depth[n - 1][t.kid[g][greater]]
                IN 1 + (IF l > r THEN l ELSE r)]
  IN depth[Cardinality(Elem)][h]
=============================================================================
