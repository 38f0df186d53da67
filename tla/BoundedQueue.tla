---------------------------- MODULE BoundedQueue ----------------------------
(***************************************************************************)
(* What circ_que promises: a first-in first-out queue of at most MaxSize   *)
(* elements, each operation of which takes effect in one step.             *)
(***************************************************************************)
EXTENDS Integers, Sequences

CONSTANTS Elem, MaxSize

VARIABLE queue

Init == queue = <<>>

Push(e) == Len(queue) < MaxSize /\ queue' = Append(queue, e)

Pop == queue # <<>> /\ queue' = Tail(queue)

Purge == queue' = <<>>

Next == Pop \/ Purge \/ \E e \in Elem : Push(e)

Spec == Init /\ [][Next]_queue
=============================================================================
