---------------------------- MODULE PtdListProofs ----------------------------
(* Proofs about PtdList, for any set of threads: no walk along the links of  *)
(* the per-thread data leaves the list, and nothing is done with a mutex     *)
(* after its end.                                                            *)
(*                                                                           *)
(* The links are described by a rank of each member, less than that of the   *)
(* next one: a member added gets one less than the head has, and one taken   *)
(* out leaves the others theirs.  A destructor looking for its own data has  *)
(* it ahead because it is at a place of no greater rank.                     *)
EXTENDS PtdList, Integers, FiniteSetTheorems, WellFoundedInduction, TLAPS

\* The links lead from first through exactly the registered threads, in the
\* order of their ranks.
Ordered(rank, first) ==
    /\ first = Null => \A u \in Thread : ~mutex_data[u]
    /\ first # Null =>
          mutex_data[first] /\ \A u \in Thread : mutex_data[u] => rank[first] <= rank[u]
    /\ \A u \in Thread : mutex_data[u] /\ link[u] # Null =>
          mutex_data[link[u]] /\ rank[u] < rank[link[u]]
    /\ \A u, v \in Thread : mutex_data[u] /\ mutex_data[v] /\ u # v =>
          /\ rank[u] # rank[v]
          /\ rank[u] < rank[v] => link[u] # Null /\ rank[link[u]] <= rank[v]

Rank == [Thread -> Int]

\* A thread that looks for itself has not gone past itself.
Ahead(rank) == \A u \in Thread : pc[u] = "unlink" => rank[At(ptr[u])] <= rank[u]

Destroying == \E u \in Thread : pc[u] = "destroy"

\* The list's mutex excludes, and destruction excludes everything.
OwnerInv ==
    /\ \A u \in Thread : pc[u] \in {"add", "unlink"} <=> list_mtx = u
    /\ \A u, v \in Thread : pc[u] \in {"add", "unlink"} => pc[v] \notin {"scan", "destroy"}
    /\ \A u, v \in Thread : pc[u] = "destroy" /\ u # v => pc[v] = "idle"
    /\ \A u \in Thread : pc[u] = "add" => ~mutex_data[u]
    /\ \A u \in Thread : pc[u] = "unlink" => mutex_data[u]
    /\ ~alive => \A u \in Thread : ~mutex_data[u]

\* During destruction what is left of the list begins where the walk is.
ChainInv ==
    /\ \A u \in Thread : pc[u] = "destroy" => \E rank \in Rank : Ordered(rank, ptr[u])
    /\ alive /\ ~Destroying => \E rank \in Rank : Ordered(rank, head) /\ Ahead(rank)

PtdInv == OwnerInv /\ NoUseAfterEnd /\ WalksStayInside /\ ChainInv

-----------------------------------------------------------------------------
\* Every set of natural numbers but the empty one has a least member, because
\* the intervals up to its members have one.
LEMMA LeastNatural ==
    ASSUME NEW S \in SUBSET Nat, S # {}
    PROVE  \E m \in S : \A n \in S : m <= n
<1> DEFINE T == {1 .. n : n \in S}
<1>1. \A n \in S : 1 .. n \in FiniteSubsetsOf(Nat)
  BY FS_Interval DEF FiniteSubsetsOf
<1>2. T \subseteq FiniteSubsetsOf(Nat) /\ T # {}
  BY <1>1
<1>3. PICK x \in T : \A y \in T : <<y, x>> \notin StrictSubsetOrdering(Nat)
  <2> HIDE DEF T
  <2> QED
  BY <1>2, WFMin, FS_StrictSubsetOrderingWellFounded
<1>4. PICK m \in S : x = 1 .. m
  OBVIOUS
<1>5. ASSUME NEW n \in S, n < m PROVE FALSE
  <2>1. <<1 .. n, 1 .. m>> \notin StrictSubsetOrdering(Nat)
    BY <1>3, <1>4
  <2>2. /\ m \in 1 .. m /\ m \notin 1 .. n
        /\ 1 .. n \subseteq 1 .. m /\ 1 .. m \subseteq Nat
    BY <1>5
  <2>3. 1 .. n # 1 .. m
    BY <2>2
  <2> QED
    BY <2>1, <2>2, <2>3 DEF StrictSubsetOrdering
<1> QED
  BY <1>5

\* With the members C numbered so that each leads to the one with the next
\* greater rank, a loop comes by those of no less rank than the first.
LEMMA OnwardByRank ==
    ASSUME NEW Node, NEW next, NEW C \in SUBSET Node, NEW rank \in [Node -> Int],
           NEW first \in C,
           \A x \in C : next[x] \in Node => next[x] \in C /\ rank[x] < rank[next[x]],
           \A x, y \in C : rank[x] < rank[y] => next[x] \in C /\ rank[next[x]] <= rank[y],
           \A x, y \in C : x # y => rank[x] # rank[y]
    PROVE  Onward(Node, next, first) = {x \in C : rank[first] <= rank[x]}
<1> DEFINE Rest == {x \in C : rank[first] <= rank[x]}
<1>1. \A x \in C : rank[x] \in Int
  OBVIOUS
<1>2. Rest \in Closed(Node, next, first)
  <2>1. \A x \in Rest : next[x] \in Node => next[x] \in Rest
    BY <1>1
  <2> QED
    BY <1>1, <2>1 DEF Closed
<1>3. ASSUME NEW S \in Closed(Node, next, first), NEW x \in Rest, x \notin S
      PROVE  FALSE
  <2> DEFINE Gaps == {rank[x] - rank[y] : y \in {z \in S \cap Rest : rank[z] <= rank[x]}}
  <2>1. Gaps \in SUBSET Nat
    BY <1>1
  <2>2. first \in {z \in S \cap Rest : rank[z] <= rank[x]}
    BY <1>1, <1>3 DEF Closed
  <2>3. Gaps # {}
    BY <2>2
  <2>4. PICK m \in Gaps : \A n \in Gaps : m <= n
    <3> HIDE DEF Gaps
    <3> QED
      BY <2>1, <2>3, LeastNatural
  <2>5. PICK y \in S \cap Rest : rank[y] <= rank[x] /\ m = rank[x] - rank[y]
    OBVIOUS
  <2>6. rank[y] < rank[x]
    BY <1>1, <1>3, <2>5
  <2>7. /\ next[y] \in C /\ rank[next[y]] <= rank[x] /\ rank[y] < rank[next[y]]
        /\ next[y] \in S /\ next[y] \in Rest
    BY <1>1, <1>3, <2>6 DEF Closed
  <2>8. rank[x] - rank[next[y]] \in Gaps
    BY <2>7
  <2>9. rank[x] - rank[next[y]] < m
    BY <1>1, <2>5, <2>7
  <2> QED
    BY <1>1, <2>1, <2>4, <2>8, <2>9
<1> QED
  BY <1>2, <1>3 DEF Onward

\* From a null pointer a loop comes nowhere.
LEMMA OnwardFromNull ==
    ASSUME NEW Node, NEW next, NEW first, first \notin Node
    PROVE  Onward(Node, next, first) = {}
<1>1. {} \in Closed(Node, next, first)
  BY DEF Closed
<1> QED
  BY <1>1 DEF Onward

-----------------------------------------------------------------------------
\* The list is empty at first, before any thread has used the mutex.
LEMMA InitHolds == Init => PtdInv
<1> SUFFICES ASSUME Init PROVE PtdInv
  OBVIOUS
<1> USE NullAssumption DEF Init, Pointer
<1>1. OwnerInv /\ NoUseAfterEnd /\ WalksStayInside
  BY DEF OwnerInv, NoUseAfterEnd, WalksStayInside, TypeOK
<1>2. ChainInv
  <2> DEFINE rank == [u \in Thread |-> 0]
  <2>1. rank \in Rank
    BY DEF Rank
  <2>2. Ordered(rank, head) /\ Ahead(rank)
    BY DEF Ordered, Ahead
  <2>3. ~Destroying
    BY DEF Destroying
  <2> QED
    BY <2>1, <2>2, <2>3 DEF ChainInv, Destroying
<1> QED
  BY <1>1, <1>2 DEF PtdInv

\* The order of the links needs no other when neither they nor the places of
\* the threads in a destructor change.
LEMMA ChainKept ==
    ASSUME ChainInv, UNCHANGED <<listVars, alive>>,
           \A u \in Thread : pc'[u] = "destroy" <=> pc[u] = "destroy",
           \A u \in Thread : pc'[u] \in {"unlink", "destroy"} =>
               pc'[u] = pc[u] /\ ptr'[u] = ptr[u]
    PROVE  ChainInv'
<1>1. ASSUME NEW u \in Thread, pc'[u] = "destroy"
      PROVE  \E rank \in Rank : Ordered(rank, ptr[u])'
  <2>1. PICK rank \in Rank : Ordered(rank, ptr[u])
    BY <1>1 DEF ChainInv
  <2>2. ptr'[u] = ptr[u]
    BY <1>1
  <2>3. Ordered(rank, ptr[u])'
    BY <2>1, <2>2 DEF Ordered, listVars
  <2> QED
    BY <2>3
<1>2. ASSUME alive', ~Destroying'
      PROVE  \E rank \in Rank : (Ordered(rank, head) /\ Ahead(rank))'
  <2>1. alive /\ ~Destroying
    BY <1>2 DEF Destroying
  <2>2. PICK rank \in Rank : Ordered(rank, head) /\ Ahead(rank)
    BY <2>1 DEF ChainInv
  <2>3. Ordered(rank, head)'
    BY <2>2 DEF Ordered, listVars
  <2>4. Ahead(rank)'
    BY <2>2 DEF Ahead, At, listVars
  <2> QED
    BY <2>3, <2>4
<1> QED
  BY <1>1, <1>2 DEF ChainInv

\* What is linked to is registered, and what is registered is linked to.
LEMMA NextRegistered ==
    ASSUME NEW rank, NEW first \in Pointer, Ordered(rank, first), TypeOK,
           NEW u \in Thread, mutex_data[u]
    PROVE  /\ first # Null /\ mutex_data[first] /\ rank[first] <= rank[u]
           /\ link[u] # Null => link[u] \in Thread /\ mutex_data[link[u]]
BY DEF Ordered, TypeOK, Pointer
-----------------------------------------------------------------------------
\* Waiting for the list's mutex to add (add_to_ptd_linked_list()).
LEMMA LockToAddHolds ==
    ASSUME PtdInv, NEW t \in Thread, LockToAdd(t), ~Destroying
    PROVE  PtdInv'
<1> USE DEF PtdInv
<1>1. WalksStayInside'
  BY DEF LockToAdd, Goto, WalksStayInside, TypeOK, Pointer, At, listVars
<1>2. OwnerInv' /\ NoUseAfterEnd'
  BY NullAssumption
     DEF OwnerInv, NoUseAfterEnd, LockToAdd, ListFree, Goto, WalksStayInside, TypeOK,
         listVars, Destroying
<1>3. ChainInv'
  BY ChainKept DEF LockToAdd, Goto, WalksStayInside, TypeOK
<1> QED
  BY <1>1, <1>2, <1>3

\* The new member comes before the head, with a rank less than the head's.
LEMMA LinkHolds ==
    ASSUME PtdInv, NEW t \in Thread, Link(t)
    PROVE  PtdInv'
<1> USE DEF PtdInv
<1>1. /\ list_mtx = t /\ ~mutex_data[t] /\ alive
      /\ \A u \in Thread : u # t => pc[u] = "idle"
  BY DEF Link, Goto, OwnerInv, NoUseAfterEnd, WalksStayInside, TypeOK
<1>2. /\ TypeOK /\ head' = t /\ link' = [link EXCEPT ![t] = head]
      /\ mutex_data' = [mutex_data EXCEPT ![t] = TRUE]
      /\ \A u \in Thread : pc'[u] = "idle"
  BY <1>1 DEF Link, Goto, WalksStayInside, TypeOK
<1>3. WalksStayInside'
  BY <1>2 DEF Link, Goto, WalksStayInside, TypeOK, Pointer
<1>4. OwnerInv' /\ NoUseAfterEnd'
  BY <1>1, <1>2, NullAssumption DEF Link, OwnerInv, NoUseAfterEnd
<1>5. ChainInv'
  <2>1. PICK rank \in Rank : Ordered(rank, head)
    BY <1>1 DEF Link, Goto, ChainInv, Destroying
  <2>2. head \in Pointer
    BY <1>2 DEF TypeOK
  <2>3. PICK new \in Rank :
            /\ new[t] = IF head = Null THEN 0 ELSE rank[head] - 1
            /\ \A u \in Thread : u # t => new[u] = rank[u]
    <3> DEFINE r == [rank EXCEPT ![t] = IF head = Null THEN 0 ELSE rank[head] - 1]
    <3>1. r \in Rank
      BY <2>2 DEF Rank, Pointer
    <3> QED
      BY <3>1 DEF Rank
  <2>4. \A u \in Thread : mutex_data[u] => u # t /\ new[t] < new[u] /\ head # Null
    BY <1>1, <2>1, <2>2, <2>3 DEF Ordered, Rank, Pointer
  <2>5. Ordered(new, head)'
    <3>1. \A u \in Thread : mutex_data'[u] <=> u = t \/ mutex_data[u]
      BY <1>2 DEF TypeOK
    <3>2. t # Null /\ mutex_data'[t]
          /\ \A u \in Thread : mutex_data'[u] => new[t] <= new[u]
      BY <2>3, <2>4, <3>1, NullAssumption DEF Rank
    <3>3. \A u \in Thread : mutex_data'[u] /\ link'[u] # Null =>
              mutex_data'[link'[u]] /\ new[u] < new[link'[u]]
      <4>1. ASSUME head # Null PROVE head \in Thread /\ mutex_data[head]
        BY <2>1, <2>2, <4>1 DEF Ordered, Pointer
      <4>2. ASSUME NEW u \in Thread, mutex_data[u], link[u] # Null
            PROVE  /\ link[u] \in Thread /\ mutex_data[link[u]] /\ u # t
                   /\ link[u] # t /\ rank[u] < rank[link[u]]
        BY <1>1, <1>2, <2>1, <4>2 DEF Ordered, TypeOK, Pointer
      <4> QED
        BY <1>2, <2>3, <2>4, <3>1, <4>1, <4>2 DEF TypeOK
    <3>4. \A u, v \in Thread : mutex_data'[u] /\ mutex_data'[v] /\ u # v =>
              /\ new[u] # new[v]
              /\ new[u] < new[v] => link'[u] # Null /\ new[link'[u]] <= new[v]
      <4> SUFFICES ASSUME NEW u \in Thread, NEW v \in Thread,
                          mutex_data'[u], mutex_data'[v], u # v
                   PROVE  /\ new[u] # new[v]
                          /\ new[u] < new[v] => link'[u] # Null /\ new[link'[u]] <= new[v]
        OBVIOUS
      <4>1. CASE u = t
        <5>1. mutex_data[v] /\ link'[u] = head
          BY <1>2, <3>1, <4>1 DEF TypeOK
        <5>2. head \in Thread /\ mutex_data[head] /\ rank[head] <= rank[v]
          BY <2>1, <2>2, <5>1 DEF Ordered, Pointer
        <5>3. head # t /\ v # t
          BY <1>1, <5>1, <5>2
        <5> QED
          BY <2>3, <2>4, <4>1, <5>1, <5>2, <5>3, NullAssumption DEF Rank
      <4>2. CASE v = t
        BY <2>3, <2>4, <3>1, <4>2 DEF Rank
      <4>3. CASE u # t /\ v # t
        <5>1. mutex_data[u] /\ mutex_data[v] /\ link'[u] = link[u]
          BY <1>2, <3>1, <4>3 DEF TypeOK
        <5>2. rank[u] # rank[v] /\ (rank[u] < rank[v] =>
                  link[u] # Null /\ rank[link[u]] <= rank[v] /\ link[u] # t)
          BY <1>1, <1>2, <2>1, <5>1 DEF Ordered, TypeOK
        <5>3. link[u] # Null => link[u] \in Thread
          BY <1>2 DEF TypeOK, Pointer
        <5> QED
          BY <2>3, <4>3, <5>1, <5>2, <5>3
      <4> QED
        BY <4>1, <4>2, <4>3
    <3> QED
      BY <1>2, <3>2, <3>3, <3>4 DEF Ordered
  <2>6. Ahead(new)'
    BY <1>2 DEF Ahead
  <2> QED
    BY <1>2, <2>3, <2>5, <2>6 DEF ChainInv
<1> QED
  BY <1>3, <1>4, <1>5

\* Storing to a flag touches no link.
LEMMA SetSharingHolds ==
    ASSUME PtdInv, NEW t \in Thread, SetSharing(t)
    PROVE  PtdInv'
<1> USE DEF PtdInv
<1>1. WalksStayInside'
  BY DEF SetSharing, WalksStayInside, TypeOK, At, listVars
<1>2. OwnerInv' /\ NoUseAfterEnd'
  BY DEF OwnerInv, NoUseAfterEnd, SetSharing, listVars
<1>3. ChainInv'
  BY ChainKept DEF SetSharing
<1> QED
  BY <1>1, <1>2, <1>3

\* A scan begins at the head (all_sharing_flags_false()).
LEMMA BeginScanHolds ==
    ASSUME PtdInv, NEW t \in Thread, BeginScan(t), ~Destroying
    PROVE  PtdInv'
<1> USE DEF PtdInv
<1>1. head = Null \/ mutex_data[head]
  BY DEF BeginScan, ChainInv, Ordered
<1>2. WalksStayInside'
  BY <1>1 DEF BeginScan, Goto, WalksStayInside, TypeOK, Pointer, At, listVars
<1>3. OwnerInv' /\ NoUseAfterEnd'
  BY NullAssumption
     DEF OwnerInv, NoUseAfterEnd, BeginScan, Goto, WalksStayInside, TypeOK,
         listVars, Destroying
<1>4. ChainInv'
  BY ChainKept DEF BeginScan, Goto, WalksStayInside, TypeOK
<1> QED
  BY <1>2, <1>3, <1>4

\* A scan goes on to a registered member, or ends.
LEMMA ReadFlagHolds ==
    ASSUME PtdInv, NEW t \in Thread, ReadFlag(t)
    PROVE  PtdInv'
<1> USE DEF PtdInv
<1>1. /\ pc[t] = "scan" /\ ptr[t] \in Thread /\ mutex_data[ptr[t]]
      /\ \A u \in Thread : pc[u] # "destroy"
  BY DEF ReadFlag, Goto, WalksStayInside, TypeOK, Pointer, OwnerInv
<1>2. link[ptr[t]] = Null \/ mutex_data[link[ptr[t]]]
  <2>1. alive
    BY <1>1 DEF NoUseAfterEnd
  <2>2. PICK rank \in Rank : Ordered(rank, head)
    BY <1>1, <2>1 DEF ChainInv, Destroying
  <2> QED
    BY <1>1, <2>2 DEF Ordered
<1>3. WalksStayInside'
  BY <1>1, <1>2 DEF ReadFlag, Goto, WalksStayInside, TypeOK, Pointer, At, listVars
<1>4. OwnerInv' /\ NoUseAfterEnd'
  BY <1>1, NullAssumption
     DEF OwnerInv, NoUseAfterEnd, ReadFlag, Goto, WalksStayInside, TypeOK, listVars
<1>5. ChainInv'
  BY <1>1, ChainKept DEF ReadFlag, Goto, WalksStayInside, TypeOK
<1> QED
  BY <1>3, <1>4, <1>5

\* The end of a scan.
LEMMA EndScanHolds ==
    ASSUME PtdInv, NEW t \in Thread, EndScan(t)
    PROVE  PtdInv'
<1> USE DEF PtdInv
<1>1. WalksStayInside'
  BY DEF EndScan, Goto, WalksStayInside, TypeOK, At, listVars
<1>2. OwnerInv' /\ NoUseAfterEnd'
  BY NullAssumption
     DEF OwnerInv, NoUseAfterEnd, EndScan, Goto, WalksStayInside, TypeOK, listVars
<1>3. ChainInv'
  BY ChainKept DEF EndScan, Goto, WalksStayInside, TypeOK
<1> QED
  BY <1>1, <1>2, <1>3

\* A thread that ends begins to look for itself at the head
\* (~per_thread_data_()).
LEMMA LockToUnlinkHolds ==
    ASSUME PtdInv, NEW t \in Thread, LockToUnlink(t), ~Destroying
    PROVE  PtdInv'
<1> USE DEF PtdInv
<1>1. /\ TypeOK /\ alive /\ pc[t] = "idle" /\ mutex_data[t]
      /\ \A u \in Thread : pc[u] = "idle"
      /\ pc' = [pc EXCEPT ![t] = "unlink"] /\ ptr' = [ptr EXCEPT ![t] = Null]
      /\ list_mtx' = t /\ UNCHANGED <<head, link, mutex_data, sharing, alive>>
  BY NullAssumption
     DEF LockToUnlink, ListFree, Goto, OwnerInv, WalksStayInside, TypeOK, listVars,
         Destroying
<1>2. PICK rank \in Rank : Ordered(rank, head)
  BY <1>1 DEF ChainInv
<1>3. head # Null /\ mutex_data[head] /\ rank[head] <= rank[t]
  BY <1>1, <1>2 DEF Ordered
<1>4. WalksStayInside'
  BY <1>1, <1>3 DEF WalksStayInside, TypeOK, Pointer, At
<1>5. OwnerInv' /\ NoUseAfterEnd'
  BY <1>1, NullAssumption DEF OwnerInv, NoUseAfterEnd, TypeOK
<1>6. ChainInv'
  <2>1. Ordered(rank, head)'
    BY <1>1, <1>2 DEF Ordered
  <2>2. Ahead(rank)'
    BY <1>1, <1>3 DEF Ahead, At, TypeOK
  <2> QED
    BY <1>1, <2>1, <2>2 DEF ChainInv, TypeOK
<1> QED
  BY <1>4, <1>5, <1>6

\* In a destructor the thread is registered, and so is the member at its
\* place, with no greater rank than its own.
LEMMA AtRegistered ==
    ASSUME PtdInv, NEW t \in Thread, pc[t] = "unlink",
           NEW rank \in Rank, Ordered(rank, head), Ahead(rank)
    PROVE  /\ mutex_data[t] /\ At(ptr[t]) \in Thread /\ mutex_data[At(ptr[t])]
           /\ rank[At(ptr[t])] <= rank[t]
<1> USE DEF PtdInv
<1>1. mutex_data[t] /\ At(ptr[t]) # Null /\ (ptr[t] = Null \/ mutex_data[ptr[t]])
  BY DEF OwnerInv, WalksStayInside
<1>2. head \in Pointer /\ link \in [Thread -> Pointer] /\ ptr[t] \in Pointer
  BY DEF WalksStayInside, TypeOK
<1>3. At(ptr[t]) \in Thread /\ mutex_data[At(ptr[t])]
  BY <1>1, <1>2 DEF At, Ordered, Pointer
<1>4. rank[At(ptr[t])] <= rank[t]
  BY DEF Ahead
<1> QED
  BY <1>1, <1>3, <1>4

\* A destructor at the place of another member has itself still ahead.
LEMMA WalkHolds ==
    ASSUME PtdInv, NEW t \in Thread, Walk(t)
    PROVE  PtdInv'
<1> USE DEF PtdInv
<1> DEFINE q == At(ptr[t])
<1>1. /\ TypeOK /\ alive /\ pc[t] = "unlink" /\ ~Destroying
      /\ \A u \in Thread : pc[u] = "unlink" => u = t
  BY DEF Walk, OwnerInv, NoUseAfterEnd, WalksStayInside, Destroying
<1>2. PICK rank \in Rank : Ordered(rank, head) /\ Ahead(rank)
  BY <1>1 DEF ChainInv
<1>3. q \in Thread /\ q # t /\ mutex_data[q] /\ mutex_data[t] /\ rank[q] <= rank[t]
  BY <1>1, <1>2, AtRegistered DEF Walk
<1>4. rank[q] < rank[t]
  BY <1>2, <1>3 DEF Ordered, Rank
<1>5. link[q] # Null /\ rank[link[q]] <= rank[t]
  BY <1>2, <1>3, <1>4 DEF Ordered
<1>6. ptr' = [ptr EXCEPT ![t] = q]
  BY DEF Walk
<1> HIDE DEF q
<1>7. UNCHANGED <<head, link, mutex_data, sharing, list_mtx, pc, alive>>
  BY DEF Walk, listVars
<1>8. q # Null
  BY <1>3, NullAssumption
<1>9. WalksStayInside'
  BY <1>1, <1>3, <1>5, <1>6, <1>7, <1>8 DEF WalksStayInside, TypeOK, Pointer, At
<1>10. OwnerInv' /\ NoUseAfterEnd'
  BY <1>7 DEF OwnerInv, NoUseAfterEnd
<1>11. Ordered(rank, head)'
  BY <1>2, <1>7 DEF Ordered
<1>12. Ahead(rank)'
  BY <1>1, <1>2, <1>5, <1>6, <1>7, <1>8 DEF Ahead, At, TypeOK
<1>13. ChainInv'
  BY <1>1, <1>7, <1>11, <1>12 DEF ChainInv, Destroying
<1> QED
  BY <1>9, <1>10, <1>13

\* The list without its first member begins where that one's link leads.
LEMMA WithoutFirst ==
    ASSUME TypeOK, NEW rank \in Rank, NEW t \in Thread, Ordered(rank, t),
           NEW next, next = link[t],
           mutex_data' = [mutex_data EXCEPT ![t] = FALSE],
           \A u \in Thread : u # t => link'[u] = link[u]
    PROVE  Ordered(rank, next)'
<1>1. \A u \in Thread : mutex_data'[u] <=> mutex_data[u] /\ u # t
  BY DEF TypeOK
<1>2. \A u \in Thread : mutex_data'[u] => /\ rank[t] < rank[u] /\ link[t] # Null
                                         /\ rank[link[t]] <= rank[u]
  BY <1>1, NullAssumption DEF Ordered, Rank
<1>3. next \in Pointer
  BY DEF TypeOK
<1>4. next # Null => /\ mutex_data'[next]
                     /\ \A u \in Thread : mutex_data'[u] => rank[next] <= rank[u]
  BY <1>1, <1>2, <1>3, NullAssumption DEF Ordered, Pointer, Rank
<1>5. \A u \in Thread : mutex_data'[u] /\ link'[u] # Null =>
          mutex_data'[link'[u]] /\ rank[u] < rank[link'[u]]
  <2> SUFFICES ASSUME NEW u \in Thread, mutex_data'[u], link'[u] # Null
               PROVE  mutex_data'[link'[u]] /\ rank[u] < rank[link'[u]]
    OBVIOUS
  <2>1. /\ link'[u] = link[u] /\ link[u] \in Thread /\ mutex_data[link[u]]
        /\ rank[u] < rank[link[u]] /\ rank[t] < rank[u]
    BY <1>1, <1>2 DEF Ordered, TypeOK, Pointer
  <2>2. link[u] # t
    BY <2>1 DEF Rank
  <2> QED
    BY <1>1, <2>1, <2>2
<1>6. \A u, v \in Thread : mutex_data'[u] /\ mutex_data'[v] /\ u # v =>
          /\ rank[u] # rank[v]
          /\ rank[u] < rank[v] => link'[u] # Null /\ rank[link'[u]] <= rank[v]
  BY <1>1 DEF Ordered
<1> QED
  BY <1>2, <1>4, <1>5, <1>6 DEF Ordered

\* A member with one before it is taken out: that one is linked to the next.
LEMMA WithoutOther ==
    ASSUME TypeOK, NEW rank \in Rank, Ordered(rank, head),
           NEW t \in Thread, NEW place \in Thread,
           mutex_data[t], mutex_data[place], link[place] = t,
           mutex_data' = [mutex_data EXCEPT ![t] = FALSE],
           link'[place] = link[t],
           \A u \in Thread : u # t /\ u # place => link'[u] = link[u],
           head' = head
    PROVE  Ordered(rank, head)'
<1>1. \A u \in Thread : mutex_data'[u] <=> mutex_data[u] /\ u # t
  BY DEF TypeOK
<1>2. rank[place] < rank[t]
  BY NullAssumption DEF Ordered
<1>3. /\ head \in Thread /\ mutex_data[head]
      /\ \A u \in Thread : mutex_data[u] => rank[head] <= rank[u]
  BY DEF Ordered, TypeOK, Pointer
<1>4. head # t
  BY <1>2, <1>3 DEF Rank
<1>5. \A u \in Thread : mutex_data[u] /\ u # place => link[u] # t
  <2> SUFFICES ASSUME NEW u \in Thread, mutex_data[u], u # place, link[u] = t
               PROVE  FALSE
    OBVIOUS
  <2>1. rank[u] < rank[t] /\ rank[u] # rank[place]
    BY NullAssumption DEF Ordered
  <2>2. CASE rank[u] < rank[place]
    BY <1>2, <2>2 DEF Ordered, Rank
  <2>3. CASE rank[place] < rank[u]
    BY <2>1, <2>3 DEF Ordered, Rank
  <2> QED
    BY <2>1, <2>2, <2>3 DEF Rank
<1>6. \A u \in Thread : mutex_data'[u] /\ link'[u] # Null =>
          mutex_data'[link'[u]] /\ rank[u] < rank[link'[u]]
  <2> SUFFICES ASSUME NEW u \in Thread, mutex_data'[u], link'[u] # Null
               PROVE  mutex_data'[link'[u]] /\ rank[u] < rank[link'[u]]
    OBVIOUS
  <2>1. CASE u = place
    <3>1. /\ link'[u] = link[t] /\ link[t] \in Thread /\ mutex_data[link[t]]
          /\ rank[t] < rank[link[t]]
      BY <2>1 DEF Ordered, TypeOK, Pointer
    <3> QED
      BY <1>1, <1>2, <2>1, <3>1 DEF Rank
  <2>2. CASE u # place
    <3>1. /\ link'[u] = link[u] /\ link[u] \in Thread /\ mutex_data[link[u]]
          /\ rank[u] < rank[link[u]] /\ link[u] # t
      BY <1>1, <1>5, <2>2 DEF Ordered, TypeOK, Pointer
    <3> QED
      BY <1>1, <3>1
  <2> QED
    BY <2>1, <2>2
<1>7. \A u, v \in Thread : mutex_data'[u] /\ mutex_data'[v] /\ u # v =>
          /\ rank[u] # rank[v]
          /\ rank[u] < rank[v] => link'[u] # Null /\ rank[link'[u]] <= rank[v]
  <2> SUFFICES ASSUME NEW u \in Thread, NEW v \in Thread,
                      mutex_data'[u], mutex_data'[v], u # v
               PROVE  /\ rank[u] # rank[v]
                      /\ rank[u] < rank[v] => link'[u] # Null /\ rank[link'[u]] <= rank[v]
    OBVIOUS
  <2>1. mutex_data[u] /\ mutex_data[v] /\ u # t /\ v # t /\ rank[v] # rank[t]
    BY <1>1 DEF Ordered
  <2>2. CASE u = place
    <3> SUFFICES ASSUME rank[place] < rank[v]
                 PROVE  link[t] # Null /\ rank[link[t]] <= rank[v]
      BY <2>1, <2>2 DEF Ordered
    <3>1. rank[t] <= rank[v]
      BY <2>1, <2>2 DEF Ordered
    <3>2. rank[t] < rank[v]
      BY <2>1, <3>1 DEF Rank
    <3> QED
      BY <2>1, <3>2 DEF Ordered
  <2>3. CASE u # place
    BY <2>1, <2>3 DEF Ordered
  <2> QED
    BY <2>2, <2>3
<1> QED
  BY <1>1, <1>3, <1>4, <1>6, <1>7, NullAssumption DEF Ordered

\* A destructor takes its own data out of the list, at the place that leads
\* to it.
LEMMA UnlinkHolds ==
    ASSUME PtdInv, NEW t \in Thread, Unlink(t)
    PROVE  PtdInv'
<1> USE DEF PtdInv
<1>1. /\ TypeOK /\ alive /\ pc[t] = "unlink" /\ list_mtx = t /\ ~Destroying
      /\ At(ptr[t]) = t /\ mutex_data[t]
      /\ \A u \in Thread : u # t => pc[u] = "idle"
  BY DEF Unlink, Goto, OwnerInv, NoUseAfterEnd, WalksStayInside, TypeOK, Destroying
<1>2. /\ mutex_data' = [mutex_data EXCEPT ![t] = FALSE]
      /\ \A u \in Thread : pc'[u] = "idle"
      /\ ptr' = [ptr EXCEPT ![t] = Null] /\ list_mtx' = Null
      /\ UNCHANGED <<sharing, alive>> /\ pc' = [pc EXCEPT ![t] = "idle"]
  BY <1>1 DEF Unlink, Goto, TypeOK
<1>3. PICK p \in Pointer :
          IF ptr[t] = Null
          THEN head' = link[t] /\ link' = [link EXCEPT ![t] = p]
          ELSE head' = head /\ link' = [link EXCEPT ![ptr[t]] = link[t], ![t] = p]
  BY DEF Unlink, Unlinked
<1>4. WalksStayInside'
  <2>1. head' \in Pointer /\ link' \in [Thread -> Pointer]
    BY <1>1, <1>3 DEF TypeOK, Pointer
  <2> QED
    BY <1>1, <1>2, <2>1 DEF WalksStayInside, TypeOK, Pointer
<1>5. OwnerInv' /\ NoUseAfterEnd'
  BY <1>1, <1>2, NullAssumption DEF OwnerInv, NoUseAfterEnd
<1>6. PICK rank \in Rank : Ordered(rank, head)
  BY <1>1 DEF ChainInv
<1>7. Ordered(rank, head)'
  <2>1. CASE ptr[t] = Null
    <3>1. /\ head = t /\ head' = link[t]
          /\ \A u \in Thread : u # t => link'[u] = link[u]
      BY <1>1, <1>3, <2>1 DEF At, TypeOK
    <3>2. link[t] \in Pointer
      BY <1>1 DEF TypeOK
    <3>3. PICK next : next = link[t]
      OBVIOUS
    <3>4. Ordered(rank, next)'
      BY <1>1, <1>2, <1>6, <3>1, <3>3, WithoutFirst
    <3> QED
      BY <3>1, <3>3, <3>4 DEF Ordered
  <2>2. CASE ptr[t] # Null
    <3>1. PICK place \in Thread : place = ptr[t]
      BY <1>1, <2>2 DEF TypeOK, Pointer
    <3>2. link[place] = t /\ mutex_data[place]
      BY <1>1, <2>2, <3>1 DEF At, WalksStayInside
    <3>3. place # t
      BY <1>1, <1>6, <3>2, NullAssumption DEF Ordered, Rank
    <3>4. /\ head' = head /\ link'[place] = link[t]
          /\ \A u \in Thread : u # t /\ u # place => link'[u] = link[u]
      BY <1>1, <1>3, <2>2, <3>1, <3>3 DEF TypeOK
    <3> QED
      BY <1>1, <1>2, <1>6, <3>2, <3>4, WithoutOther
  <2> QED
    BY <2>1, <2>2
<1>8. Ahead(rank)'
  BY <1>2 DEF Ahead
<1>9. ChainInv'
  BY <1>2, <1>7, <1>8 DEF ChainInv
<1> QED
  BY <1>4, <1>5, <1>9

\* Static destruction of the mutex begins with the whole list (~data()).
LEMMA BeginDestroyHolds ==
    ASSUME PtdInv, NEW t \in Thread, BeginDestroy(t)
    PROVE  PtdInv'
<1> USE DEF PtdInv
<1>1. /\ TypeOK /\ alive /\ \A u \in Thread : pc[u] = "idle"
      /\ pc' = [pc EXCEPT ![t] = "destroy"] /\ ptr' = [ptr EXCEPT ![t] = head]
      /\ UNCHANGED <<head, link, mutex_data, sharing, list_mtx, alive>>
  BY DEF BeginDestroy, Goto, WalksStayInside, listVars
<1>2. WalksStayInside'
  BY <1>1 DEF WalksStayInside, TypeOK, Pointer
<1>3. OwnerInv' /\ NoUseAfterEnd'
  BY <1>1, NullAssumption DEF OwnerInv, NoUseAfterEnd, TypeOK
<1>4. PICK rank \in Rank : Ordered(rank, head)
  BY <1>1 DEF ChainInv, Destroying
<1>5. Ordered(rank, ptr[t])'
  BY <1>1, <1>4 DEF Ordered, TypeOK
<1>6. pc'[t] = "destroy" /\ \A u \in Thread : pc'[u] = "destroy" => u = t
  BY <1>1 DEF TypeOK
<1>7. ChainInv'
  BY <1>5, <1>6 DEF ChainInv, Destroying
<1> QED
  BY <1>2, <1>3, <1>7

\* The mutex takes leave of one thread's data after another.
LEMMA ClearHolds ==
    ASSUME PtdInv, NEW t \in Thread, Clear(t)
    PROVE  PtdInv'
<1> USE DEF PtdInv
<1>1. /\ TypeOK /\ alive /\ pc[t] = "destroy" /\ ptr[t] \in Thread
      /\ \A u \in Thread : u # t => pc[u] = "idle"
      /\ mutex_data' = [mutex_data EXCEPT ![ptr[t]] = FALSE]
      /\ ptr' = [ptr EXCEPT ![t] = link[ptr[t]]]
      /\ UNCHANGED <<head, link, sharing, list_mtx, pc, alive>>
  BY DEF Clear, OwnerInv, NoUseAfterEnd, WalksStayInside, TypeOK, Pointer
<1>2. WalksStayInside'
  BY <1>1 DEF WalksStayInside, TypeOK, Pointer
<1>3. OwnerInv' /\ NoUseAfterEnd'
  BY <1>1 DEF OwnerInv, NoUseAfterEnd, TypeOK
<1>4. PICK rank \in Rank : Ordered(rank, ptr[t])
  BY <1>1 DEF ChainInv
<1>5. PICK q \in Thread : q = ptr[t]
  BY <1>1
<1>6. PICK next : next = link[q]
  OBVIOUS
<1>7. Ordered(rank, next)'
  BY <1>1, <1>4, <1>5, <1>6, WithoutFirst
<1>8. ptr'[t] = next
  BY <1>1, <1>5, <1>6 DEF TypeOK
<1>9. Ordered(rank, ptr[t])'
  BY <1>7, <1>8 DEF Ordered
<1>10. ChainInv'
  BY <1>1, <1>9 DEF ChainInv, Destroying
<1> QED
  BY <1>2, <1>3, <1>10

\* When the mutex has ended no thread is linked to it any more.
LEMMA EndDestroyHolds ==
    ASSUME PtdInv, NEW t \in Thread, EndDestroy(t)
    PROVE  PtdInv'
<1> USE DEF PtdInv
<1>1. /\ TypeOK /\ pc[t] = "destroy" /\ ptr[t] = Null /\ alive' = FALSE
      /\ \A u \in Thread : pc'[u] = "idle" /\ pc[u] \in {"idle", "destroy"}
      /\ pc' = [pc EXCEPT ![t] = "idle"]
      /\ UNCHANGED <<head, link, mutex_data, sharing, list_mtx, ptr>>
  BY DEF EndDestroy, Goto, OwnerInv, WalksStayInside, TypeOK, listVars
<1>2. \A u \in Thread : ~mutex_data[u]
  BY <1>1 DEF ChainInv, Ordered
<1>3. WalksStayInside'
  BY <1>1 DEF WalksStayInside, TypeOK
<1>4. OwnerInv' /\ NoUseAfterEnd'
  BY <1>1, <1>2 DEF OwnerInv, NoUseAfterEnd
<1>5. ChainInv'
  BY <1>1 DEF ChainInv
<1> QED
  BY <1>3, <1>4, <1>5

-----------------------------------------------------------------------------
\* The order of the links, the exclusion by the list's mutex and what it
\* means for walks are an inductive invariant, for any set of threads that
\* begin and end, before and after the end of the mutex.
THEOREM InvariantHolds == Spec => []PtdInv
<1>1. PtdInv /\ [Next]_vars => PtdInv'
  <2> SUFFICES ASSUME PtdInv, [Next]_vars PROVE PtdInv'
    OBVIOUS
  <2>1. CASE UNCHANGED vars
    <3>1. OwnerInv' /\ NoUseAfterEnd' /\ WalksStayInside'
      BY <2>1 DEF vars, listVars, PtdInv, OwnerInv, NoUseAfterEnd, WalksStayInside,
                  TypeOK, At
    <3>2. ChainInv'
      BY <2>1, ChainKept DEF vars, PtdInv
    <3> QED
      BY <3>1, <3>2 DEF PtdInv
  <2>2. ASSUME NEW t \in Thread, Walks(t) PROVE PtdInv'
    BY <2>2, LinkHolds, ReadFlagHolds, EndScanHolds, WalkHolds, UnlinkHolds,
       ClearHolds, EndDestroyHolds
       DEF Walks
  <2>3. ASSUME NEW t \in Thread, Starts(t), ~Destroying PROVE PtdInv'
    BY <2>3, LockToAddHolds, SetSharingHolds, BeginScanHolds, LockToUnlinkHolds,
       BeginDestroyHolds
       DEF Starts
  <2> QED
    BY <2>1, <2>2, <2>3 DEF Next, Destroying
<1> QED
  BY <1>1, InitHolds, PTL DEF Spec

\* No walk follows a link out of the list, and a destructor always finds
\* itself.
THEOREM WalksStayInsideHolds == Spec => []WalksStayInside
<1>1. PtdInv => WalksStayInside
  BY DEF PtdInv
<1> QED
  BY <1>1, InvariantHolds, PTL

\* After the end of the mutex no thread uses its data, whichever threads end
\* later.
THEOREM NoUseAfterEndHolds == Spec => []NoUseAfterEnd
<1>1. PtdInv => NoUseAfterEnd
  BY DEF PtdInv
<1> QED
  BY <1>1, InvariantHolds, PTL

-----------------------------------------------------------------------------
(***************************************************************************)
(* The list as a set.  What the links lead to from where a scan is, the    *)
(* members it has yet to read, are those of no less rank.                  *)
(***************************************************************************)
\* By the links one comes from a member to those of no less rank.
LEMMA FromByRank ==
    ASSUME TypeOK, NEW rank \in Rank, NEW first, Ordered(rank, first),
           NEW u \in Thread, mutex_data[u]
    PROVE  From(u) = {v \in Registered : rank[u] <= rank[v]}
<1>1. Registered \in SUBSET Thread /\ u \in Registered /\ rank \in [Thread -> Int]
  BY DEF Registered, Rank
<1>2. \A v \in Registered :
          link[v] \in Thread => link[v] \in Registered /\ rank[v] < rank[link[v]]
  BY NullAssumption DEF Registered, Ordered
<1>3. \A v, w \in Registered : v # w => rank[v] # rank[w]
  BY DEF Registered, Ordered
<1>4. \A v, w \in Registered :
          rank[v] < rank[w] => link[v] \in Registered /\ rank[link[v]] <= rank[w]
  <2> SUFFICES ASSUME NEW v \in Registered, NEW w \in Registered, rank[v] < rank[w]
               PROVE  link[v] \in Registered /\ rank[link[v]] <= rank[w]
    OBVIOUS
  <2>1. v # w /\ v \in Thread /\ w \in Thread /\ mutex_data[v] /\ mutex_data[w]
    BY <1>1 DEF Registered
  <2>2. link[v] # Null /\ rank[link[v]] <= rank[w] /\ link[v] \in Pointer
    BY <2>1 DEF Ordered, TypeOK
  <2>3. link[v] \in Thread
    BY <2>2 DEF Pointer
  <2> QED
    BY <1>2, <2>2, <2>3
<1> QED
  BY <1>1, <1>2, <1>3, <1>4, OnwardByRank DEF From

\* From the null pointer one comes nowhere.
LEMMA FromEnd == From(Null) = {}
BY NullAssumption, OnwardFromNull DEF From

\* From the head one comes to every member, and from the end to none.
LEMMA FromHead ==
    ASSUME TypeOK, NEW rank \in Rank, Ordered(rank, head)
    PROVE  From(head) = Registered
<1>1. CASE head = Null
  <2>1. From(head) = {}
    BY <1>1, FromEnd
  <2> QED
    BY <1>1, <2>1 DEF Ordered, Registered
<1>2. CASE head # Null
  <2>1. head \in Thread /\ mutex_data[head]
    BY <1>2 DEF Ordered, TypeOK, Pointer
  <2>2. From(head) = {v \in Registered : rank[head] <= rank[v]}
    BY <2>1, FromByRank
  <2> QED
    BY <1>2, <2>2 DEF Ordered, Registered
<1> QED
  BY <1>1, <1>2

\* Outside of scans, a step that leaves the flags alone changes the set only.
LEMMA NoScanStep ==
    ASSUME \A u \in Thread : pc[u] # "scan" /\ pc'[u] # "scan"
    PROVE  /\ Scanning = {} /\ Scanning' = {}
           /\ [u \in Thread |-> Unread(u)]' = [u \in Thread |-> Unread(u)]
           /\ \A u \in Thread : Unread(u) = {} /\ Unread(u)' = {}
BY DEF Scanning, Unread

\* In a scan of another thread's, the members left to read stay the same.
LEMMA OtherScan ==
    ASSUME UNCHANGED listVars, NEW u \in Thread, pc'[u] = pc[u], ptr'[u] = ptr[u]
    PROVE  Unread(u)' = Unread(u)
BY DEF Unread, From, listVars

\* A scan begins with every member to read.
LEMMA BeginsWithAll ==
    ASSUME PtdInv, NEW t \in Thread, BeginScan(t), ~Destroying
    PROVE  TDS!BeginScan(t)
<1>1. /\ TypeOK /\ alive /\ pc[t] = "idle"
      /\ pc' = [pc EXCEPT ![t] = "scan"] /\ ptr' = [ptr EXCEPT ![t] = head]
      /\ UNCHANGED <<listVars, sharing>>
  BY DEF PtdInv, WalksStayInside, BeginScan, Goto
<1>2. PICK rank \in Rank : Ordered(rank, head)
  BY <1>1 DEF PtdInv, ChainInv
<1>3. Registered' = Registered
  BY <1>1 DEF Registered, listVars
<1>4. Unread(t)' = Registered
  <2>1. Unread(t)' = From(head)
    BY <1>1 DEF Unread, From, listVars, TypeOK
  <2> QED
    BY <1>1, <1>2, <2>1, FromHead
<1>5. \A u \in Thread : u # t => Unread(u)' = Unread(u)
  BY <1>1, OtherScan DEF TypeOK
<1>6. Scanning' = Scanning \cup {t} /\ t \notin Scanning
  BY <1>1 DEF Scanning, TypeOK
<1> QED
  BY <1>1, <1>3, <1>4, <1>5, <1>6 DEF TDS!BeginScan

\* A scan reads the flag of a member it has not read yet, and ends at one that
\* is set.
LEMMA ReadsEachOnce ==
    ASSUME PtdInv, NEW t \in Thread, ReadFlag(t)
    PROVE  TDS!EndScan(t) \/ TDS!ReadFlag(t, ptr[t])
<1>1. /\ TypeOK /\ alive /\ ~Destroying /\ pc[t] = "scan"
      /\ ptr[t] \in Thread /\ ptr[t] # Null /\ mutex_data[ptr[t]]
      /\ UNCHANGED <<listVars, sharing>>
  BY DEF PtdInv, OwnerInv, NoUseAfterEnd, WalksStayInside, TypeOK, Pointer, ReadFlag,
         Goto, Destroying
<1>2. PICK rank \in Rank : Ordered(rank, head)
  BY <1>1 DEF PtdInv, ChainInv
<1>3. Registered' = Registered
  BY <1>1 DEF Registered, listVars
<1>4. Unread(t) = {u \in Registered : rank[ptr[t]] <= rank[u]}
  BY <1>1, <1>2, FromByRank DEF Unread
<1>5. ptr[t] \in Unread(t) /\ t \in Scanning
  BY <1>1, <1>2, <1>4 DEF Registered, Scanning, Rank
<1>6. \A u \in Thread : u # t => Unread(u)' = Unread(u) /\ pc'[u] = pc[u]
  BY <1>1, OtherScan DEF ReadFlag, Goto, TypeOK
<1>7. CASE sharing[ptr[t]]
  <2>1. pc' = [pc EXCEPT ![t] = "idle"]
    BY <1>7 DEF ReadFlag, Goto
  <2>2. Scanning' = Scanning \ {t} /\ Unread(t)' = {}
    BY <1>1, <2>1 DEF Scanning, Unread, TypeOK
  <2> QED
    BY <1>1, <1>3, <1>5, <1>6, <1>7, <2>2 DEF TDS!EndScan
<1>8. CASE ~sharing[ptr[t]]
  <2>1. /\ pc' = pc /\ ptr'[t] = link[ptr[t]] /\ link'[ptr[t]] = link[ptr[t]]
    BY <1>1, <1>8 DEF ReadFlag, Goto, TypeOK, listVars
  <2>2. Scanning' = Scanning
    BY <2>1 DEF Scanning
  <2>3. /\ Unread(t)' = From(link[ptr[t]])
        /\ link[ptr[t]] # Null =>
              From(link[ptr[t]]) = {u \in Registered : rank[link[ptr[t]]] <= rank[u]}
    <3>1. Unread(t)' = From(link[ptr[t]])
      BY <1>1, <2>1 DEF Unread, From, listVars
    <3>2. ASSUME link[ptr[t]] # Null
          PROVE  link[ptr[t]] \in Thread /\ mutex_data[link[ptr[t]]]
      BY <1>1, <1>2, <3>2 DEF Ordered, TypeOK, Pointer
    <3> QED
      BY <1>1, <1>2, <3>1, <3>2, FromByRank
  <2>4. Unread(t)' = Unread(t) \ {ptr[t]}
    <3>1. ASSUME NEW u \in Registered, u # ptr[t], rank[ptr[t]] <= rank[u]
          PROVE  link[ptr[t]] # Null /\ rank[link[ptr[t]]] <= rank[u]
      BY <1>1, <1>2, <3>1 DEF Ordered, Registered, Rank
    <3>2. ASSUME NEW u \in Registered, link[ptr[t]] # Null,
                 rank[link[ptr[t]]] <= rank[u]
          PROVE  u # ptr[t] /\ rank[ptr[t]] <= rank[u]
      <4>1. link[ptr[t]] \in Thread /\ rank[ptr[t]] < rank[link[ptr[t]]]
        BY <1>1, <1>2, <3>2 DEF Ordered, TypeOK, Pointer
      <4> QED
        BY <1>1, <1>2, <3>2, <4>1 DEF Registered, Rank
    <3>3. CASE link[ptr[t]] = Null
      <4>1. \A u \in Unread(t) : u = ptr[t]
        BY <1>4, <3>1, <3>3
      <4> QED
        BY <1>5, <2>3, <3>3, <4>1, FromEnd
    <3>4. CASE link[ptr[t]] # Null
      BY <1>4, <2>3, <3>1, <3>2, <3>4
    <3> QED
      BY <3>3, <3>4
  <2> QED
    BY <1>1, <1>3, <1>5, <1>6, <1>8, <2>2, <2>4 DEF TDS!ReadFlag
<1> QED
  BY <1>7, <1>8

\* A scan that comes to the end of the links has read every flag.
LEMMA EndsWithNone ==
    ASSUME PtdInv, NEW t \in Thread, EndScan(t)
    PROVE  TDS!EndScan(t)
<1>1. /\ TypeOK /\ pc[t] = "scan" /\ ptr[t] = Null
      /\ pc' = [pc EXCEPT ![t] = "idle"]
      /\ UNCHANGED <<listVars, sharing, ptr>>
  BY DEF PtdInv, WalksStayInside, EndScan, Goto
<1>2. Scanning' = Scanning \ {t} /\ t \in Scanning /\ Registered' = Registered
  BY <1>1 DEF Scanning, Registered, TypeOK, listVars
<1>3. Unread(t) = {} /\ Unread(t)' = {}
  BY <1>1, FromEnd DEF Unread, TypeOK
<1>4. \A u \in Thread : u # t => Unread(u)' = Unread(u)
  BY <1>1, OtherScan DEF TypeOK
<1> QED
  BY <1>1, <1>2, <1>3, <1>4 DEF TDS!EndScan

\* Every step of the links is one of the set, or none.
LEMMA StepOnSet ==
    ASSUME PtdInv, NEW t \in Thread, Walks(t) \/ (Starts(t) /\ ~Destroying)
    PROVE  [TDS!Next]_(TDS!vars)
<1> USE DEF TDS!vars
<1>0. TypeOK
  BY DEF PtdInv, WalksStayInside
<1>1. CASE Link(t)
  <2>1. \A u \in Thread : pc[u] # "scan" /\ pc'[u] # "scan"
    BY <1>0, <1>1 DEF Link, Goto, PtdInv, OwnerInv, TypeOK
  <2>2. Registered' = Registered \cup {t} /\ sharing' = sharing
    BY <1>0, <1>1 DEF Link, Registered, TypeOK
  <2>3. TDS!Add(t)
    BY <2>1, <2>2, NoScanStep DEF TDS!Add
  <2> QED
    BY <2>3 DEF TDS!Next
<1>2. CASE ReadFlag(t)
  <2>1. ptr[t] \in Thread
    BY <1>0, <1>2 DEF ReadFlag, TypeOK, Pointer
  <2> QED
    BY <1>2, <2>1, ReadsEachOnce DEF TDS!Next
<1>3. CASE EndScan(t)
  BY <1>3, EndsWithNone DEF TDS!Next
<1>4. CASE Walk(t)
  <2>1. \A u \in Thread : pc[u] # "scan" /\ pc'[u] # "scan"
    BY <1>4 DEF Walk, PtdInv, OwnerInv
  <2>2. Registered' = Registered /\ sharing' = sharing
    BY <1>4 DEF Walk, Registered, listVars
  <2> QED
    BY <2>1, <2>2, NoScanStep
<1>5. CASE Unlink(t)
  <2>1. \A u \in Thread : pc[u] # "scan" /\ pc'[u] # "scan"
    BY <1>0, <1>5 DEF Unlink, Goto, PtdInv, OwnerInv, TypeOK
  <2>2. Registered' = Registered \ {t} /\ sharing' = sharing
    BY <1>0, <1>5 DEF Unlink, Registered, TypeOK
  <2>3. TDS!Remove(t)
    BY <2>1, <2>2, NoScanStep DEF TDS!Remove
  <2> QED
    BY <2>3 DEF TDS!Next
<1>6. CASE Clear(t)
  <2>1. \A u \in Thread : pc[u] # "scan" /\ pc'[u] # "scan"
    BY <1>6 DEF Clear, PtdInv, OwnerInv
  <2>2. ptr[t] \in Thread
    BY <1>0, <1>6 DEF Clear, TypeOK, Pointer
  <2>3. Registered' = Registered \ {ptr[t]} /\ sharing' = sharing
    BY <1>0, <1>6 DEF Clear, Registered, TypeOK
  <2>4. TDS!Remove(ptr[t])
    BY <2>1, <2>3, NoScanStep DEF TDS!Remove
  <2> QED
    BY <2>2, <2>4 DEF TDS!Next
<1>7. CASE EndDestroy(t)
  <2>1. \A u \in Thread : pc[u] # "scan" /\ pc'[u] # "scan"
    BY <1>0, <1>7 DEF EndDestroy, Goto, PtdInv, OwnerInv, TypeOK
  <2>2. Registered' = Registered /\ sharing' = sharing
    BY <1>7 DEF EndDestroy, Registered, listVars
  <2> QED
    BY <2>1, <2>2, NoScanStep
<1>8. CASE (LockToAdd(t) \/ LockToUnlink(t) \/ BeginDestroy(t)) /\ ~Destroying
  <2>1. \A u \in Thread : pc[u] # "scan" /\ pc'[u] # "scan"
    BY <1>0, <1>8 DEF LockToAdd, LockToUnlink, BeginDestroy, ListFree, Goto, TypeOK
  <2>2. Registered' = Registered /\ sharing' = sharing
    BY <1>8 DEF LockToAdd, LockToUnlink, BeginDestroy, Registered, listVars
  <2> QED
    BY <2>1, <2>2, NoScanStep
<1>9. CASE SetSharing(t)
  <2>1. UNCHANGED <<listVars, pc, ptr>>
    BY <1>9 DEF SetSharing
  <2>2. \A u \in Thread : Unread(u)' = Unread(u)
    BY <2>1, OtherScan
  <2>3. Registered' = Registered /\ Scanning' = Scanning
    BY <2>1 DEF Registered, Scanning, listVars
  <2>4. \E b \in BOOLEAN : sharing' = [sharing EXCEPT ![t] = b]
    BY <1>0, <1>9 DEF SetSharing, TypeOK
  <2>5. TDS!SetFlag(t)
    BY <2>2, <2>3, <2>4 DEF TDS!SetFlag
  <2> QED
    BY <2>5 DEF TDS!Next
<1>10. CASE BeginScan(t) /\ ~Destroying
  BY <1>10, BeginsWithAll DEF TDS!Next
<1> QED
  BY <1>1, <1>2, <1>3, <1>4, <1>5, <1>6, <1>7, <1>8, <1>9, <1>10 DEF Walks, Starts

\* Any number of threads that link and unlink their data, scan and end, before
\* and after the mutex does, use its list as a set that stands still under
\* every scan; a scan reads each member's flag once (ru_shared_mutex.cpp:272).
THEOREM RefinesThreadDataSet == Spec => ImplementsThreadDataSet
<1>1. Init => TDS!Init
  BY DEF Init, TDS!Init, Registered, Scanning, Unread
<1>2. PtdInv /\ [Next]_vars => [TDS!Next]_(TDS!vars)
  <2> SUFFICES ASSUME PtdInv, [Next]_vars PROVE [TDS!Next]_(TDS!vars)
    OBVIOUS
  <2>1. CASE UNCHANGED vars
    <3>1. UNCHANGED <<listVars, sharing, pc, ptr>>
      BY <2>1 DEF vars
    <3>2. \A u \in Thread : Unread(u)' = Unread(u)
      BY <3>1, OtherScan
    <3>3. Registered' = Registered /\ Scanning' = Scanning
      BY <3>1 DEF Registered, Scanning, listVars
    <3> QED
      BY <3>1, <3>2, <3>3 DEF TDS!vars
  <2>2. CASE Next
    BY <2>2, StepOnSet DEF Next, Destroying
  <2> QED
    BY <2>1, <2>2
<1> QED
  BY <1>1, <1>2, InvariantHolds, PTL DEF Spec, ImplementsThreadDataSet, TDS!Spec
=============================================================================
