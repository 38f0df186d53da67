------------------------------ MODULE CircQue ------------------------------
(***************************************************************************)
(* The circular queue: circ_que.h with the abstractor of                   *)
(* circ_que_lock_free.h (one pushing and one popping thread, no lock) or   *)
(* with circ_que_abs_basic (one thread).                                   *)
(*                                                                         *)
(* front and next_in are atomics with one writer and one reader each.      *)
(* Stores are releases and the reader's loads acquires; coherence lets a   *)
(* load return any store not older than the one returned before.  So each  *)
(* of the two is the sequence of stores its reader may still read: the     *)
(* first is the one it read last, the last is what the writer itself sees. *)
(* Acquiring a store makes visible what the writer did to data before it.  *)
(*                                                                         *)
(* The caller keeps the warnings of circ_que.h: it pushes only when its    *)
(* last size() or is_full() left room, pops and reads only what its last   *)
(* size() or is_empty() showed.                                            *)
(*                                                                         *)
(* A few operators, like PushUnbuilt, are no part of the model: each is    *)
(* the operator after it with a bug, kept to show which property notices.  *)
(***************************************************************************)
EXTENDS Integers, Sequences

CONSTANTS
    Elem,        \* the elements
    Raw,         \* a slot no element lives in
    MaxSize,     \* max_num_elems
    IndexMod     \* 2^w for the w bits of index_t

ASSUME QueueAssumption ==
    /\ MaxSize \in Nat \ {0}
    /\ IndexMod \in Nat /\ MaxSize < IndexMod   \* "to hold values up to max_num_elems"
    /\ Raw \notin Elem

VARIABLES
    front,      \* stores to the index of the front element
    next_in,    \* stores to the index of the next element to push
    data,       \* the underlying array
    pusher,     \* control point of the pushing code
    popper,     \* control point of the popping code
    lock_free   \* which abstractor the queue has: lock free, or the basic one

vars == <<front, next_in, data, pusher, popper, lock_free>>

DimensionShort == MaxSize

Dimension == MaxSize + 1

Slot == 0 .. (Dimension - 1)

Seen(atomic)   == atomic[1]
Latest(atomic) == atomic[Len(atomic)]

\* A store, converted to index_t.  The one thread of a basic queue reads what
\* it wrote.
Store(atomic, index) ==
    IF lock_free THEN Append(atomic, index % IndexMod) ELSE <<index % IndexMod>>

LoadOf(atomic) == {SubSeq(atomic, k, Len(atomic)) : k \in 1 .. Len(atomic)}

\* size(f, ni), and the index after f.
Size(f, ni) == IF ni >= f THEN ni - f ELSE ni + Dimension - f

Successor(index) == IF index + 1 = Dimension THEN 0 ELSE index + 1

\* The slot of the element 'index' places behind the front one.
SlotAt(f, index) == (f + index) % Dimension

Init ==
    /\ front = <<0>>
    /\ next_in = <<0>>
    /\ data = [s \in Slot |-> Raw]
    /\ pusher = "out"
    /\ popper = "out"
    /\ lock_free \in BOOLEAN

-----------------------------------------------------------------------------
(***************************************************************************)
(* circ_que_back: the pushing code.                                        *)
(***************************************************************************)
RoomKnownBeyond == Size(Seen(front), Latest(next_in)) <= MaxSize

RoomKnown == Size(Seen(front), Latest(next_in)) # MaxSize

\* size() and is_full().
BackSize ==
    /\ pusher # "wait"
    /\ front' \in LoadOf(front)
    /\ UNCHANGED <<next_in, data, pusher, popper, lock_free>>

\* A loop on is_full(): wait_while_full(), or the pushing thread's own loop
\* where the abstractor, as the lock-free one, has nothing to block on.
WaitWhileFull ==
    /\ lock_free /\ pusher = "out"
    /\ pusher' = "wait"
    /\ UNCHANGED <<front, next_in, data, popper, lock_free>>

CheckFullCached(load) ==
    /\ pusher = "wait"
    /\ pusher' = IF RoomKnown THEN "out" ELSE "wait"
    /\ UNCHANGED <<front, next_in, data, popper, lock_free>>

CheckFull(load) ==
    /\ pusher = "wait"
    /\ load \in LoadOf(front)
    /\ front' = load
    /\ pusher' = IF Size(Seen(load), Latest(next_in)) = MaxSize THEN "wait" ELSE "out"
    /\ UNCHANGED <<next_in, data, popper, lock_free>>

\* init(), the construction in push(), or an assignment through operator ().
Construct(e) ==
    /\ pusher \in {"out", "built"}
    /\ RoomKnown
    /\ data' = [data EXCEPT ![Latest(next_in)] = e]
    /\ pusher' = "built"
    /\ UNCHANGED <<front, next_in, popper, lock_free>>

\* push_(): publish the element.
PushUnbuilt ==
    /\ pusher \in {"out", "built"} /\ RoomKnown
    /\ next_in' = Store(next_in, Successor(Latest(next_in)))
    /\ pusher' = "out"
    /\ UNCHANGED <<front, data, popper, lock_free>>

Push ==
    /\ pusher = "built"
    /\ next_in' = Store(next_in, Successor(Latest(next_in)))
    /\ pusher' = "out"
    /\ UNCHANGED <<front, data, popper, lock_free>>

(***************************************************************************)
(* circ_que_front: the popping code.                                       *)
(***************************************************************************)
SizeKnown == Size(Latest(front), Seen(next_in))

\* size() and is_empty().
FrontSize ==
    /\ popper = "out"
    /\ next_in' \in LoadOf(next_in)
    /\ UNCHANGED <<front, data, pusher, popper, lock_free>>

\* A loop on is_empty().
WaitWhileEmpty ==
    /\ lock_free /\ popper = "out"
    /\ popper' = "wait"
    /\ UNCHANGED <<front, next_in, data, pusher, lock_free>>

CheckEmptyCached(load) ==
    /\ popper = "wait"
    /\ popper' = IF SizeKnown = 0 THEN "wait" ELSE "out"
    /\ UNCHANGED <<front, next_in, data, pusher, lock_free>>

CheckEmpty(load) ==
    /\ popper = "wait"
    /\ load \in LoadOf(next_in)
    /\ next_in' = load
    /\ popper' = IF Seen(load) = Latest(front) THEN "wait" ELSE "out"
    /\ UNCHANGED <<front, data, pusher, lock_free>>

\* The call of ~elem_t() in pop().
Destroy ==
    /\ popper = "out"
    /\ SizeKnown > 0
    /\ data' = [data EXCEPT ![Latest(front)] = Raw]
    /\ popper' = "destroyed"
    /\ UNCHANGED <<front, next_in, pusher, lock_free>>

\* pop_(): from pop(), and directly from pop(raw).
Pop ==
    /\ \/ popper = "destroyed"
       \/ popper = "out" /\ SizeKnown > 0
    /\ front' = Store(front, Successor(Latest(front)))
    /\ popper' = "out"
    /\ UNCHANGED <<next_in, data, pusher, lock_free>>

\* basic_circ_que::purge(): no destructor is called, and an element that was
\* constructed but not pushed is forgotten.
PurgeFront ==
    /\ ~lock_free /\ popper = "out"
    /\ front' = <<0>>
    /\ pusher' = "out"
    /\ UNCHANGED <<next_in, data, popper, lock_free>>

Purge ==
    /\ ~lock_free /\ popper = "out"
    /\ front' = <<0>>
    /\ next_in' = <<0>>
    /\ pusher' = "out"
    /\ UNCHANGED <<data, popper, lock_free>>

-----------------------------------------------------------------------------
\* One thread runs both sides of a basic queue: it is never in the middle of
\* pop() when it pushes.
PusherStep ==
    /\ lock_free \/ popper = "out"
    /\ \/ BackSize \/ WaitWhileFull \/ Push
       \/ \E load \in LoadOf(front) : CheckFull(load)
       \/ \E e \in Elem : Construct(e)

PopperStep ==
    \/ FrontSize \/ WaitWhileEmpty \/ Destroy \/ Pop \/ Purge
    \/ \E load \in LoadOf(next_in) : CheckEmpty(load)

Next == PusherStep \/ PopperStep

Spec == Init /\ [][Next]_vars

\* An atomic store becomes visible in a reasonable time ([atomics.order]), a
\* spinning thread keeps running, and the popping code that looks at the queue
\* pops what it sees and looks again.
FairSpec ==
    /\ Spec
    /\ WF_vars(CheckFull(<<Latest(front)>>))
    /\ WF_vars(CheckEmpty(<<Latest(next_in)>>))
    /\ WF_vars(WaitWhileEmpty \/ Destroy \/ Pop)
    /\ SF_vars(Pop)

-----------------------------------------------------------------------------
(***************************************************************************)
(* Properties.                                                             *)
(***************************************************************************)
TypeOK ==
    /\ front \in Seq(Slot) /\ front # <<>>
    /\ next_in \in Seq(Slot) /\ next_in # <<>>
    /\ data \in [Slot -> Elem \cup {Raw}]
    /\ pusher \in {"out", "wait", "built"}
    /\ popper \in {"out", "wait", "destroyed"}
    /\ lock_free \in BOOLEAN

(***************************************************************************)
(* The inductive invariant: how far each store its reader may still read   *)
(* is from the indices as they are.                                        *)
(***************************************************************************)
QueueSize == Size(Latest(front), Latest(next_in))

FrontInv ==
    \A i \in 1 .. Len(front) :
        Size(front[i], Latest(next_in)) = QueueSize + (Len(front) - i)

NextInInv ==
    \A i \in 1 .. Len(next_in) :
        Size(Latest(front), next_in[i]) = QueueSize - (Len(next_in) - i)

ControlInv ==
    /\ pusher = "built" => RoomKnown /\ data[Latest(next_in)] \in Elem
    /\ popper = "destroyed" => SizeKnown > 0

\* Behind a destroyed front element, every slot of the queue holds an element.
DataInv ==
    \A i \in 0 .. (QueueSize - 1) :
        (popper = "destroyed" => i > 0) => data[SlotAt(Latest(front), i)] \in Elem

QueueInv == TypeOK /\ FrontInv /\ NextInInv /\ ControlInv /\ DataInv

\* The slots the popping code may read or destroy, as far as it knows, and
\* those whose destruction the pushing code has not yet been shown.
PopperSlots == {SlotAt(Latest(front), i) : i \in 0 .. (SizeKnown - 1)}
UnseenPops  == {front[i] : i \in 1 .. (Len(front) - 1)}

\* No data race on a slot: where the pushing code constructs an element, the
\* popping code has nothing to read, and its last use of the slot happened
\* before (the front index past it has been acquired).
NoSlotRace == Latest(next_in) \notin PopperSlots \cup UnseenPops

\* Neither side is misled by the staleness of what it sees: the pushing code
\* may find the queue too full and the popping code too empty, never the
\* reverse.
SizesConservative ==
    /\ Size(Seen(front), Latest(next_in)) \in QueueSize .. MaxSize
    /\ SizeKnown \in 0 .. QueueSize

\* The elements in the queue, oldest first: pop() has removed the front one
\* once it destroyed it.
FrontSlot ==
    IF popper = "destroyed" THEN Successor(Latest(front)) ELSE Latest(front)

Content ==
    [i \in 1 .. Size(FrontSlot, Latest(next_in)) |-> data[SlotAt(FrontSlot, i - 1)]]

Queue == INSTANCE BoundedQueue WITH queue <- Content

\* First in, first out, at most MaxSize: the array with its two indices is a
\* bounded queue for every interleaving and every stale load.
ImplementsBoundedQueue == Queue!Spec

\* A pushing thread that waits for room goes on.
FullWaitEnds == pusher = "wait" ~> pusher # "wait"

\* An element in the queue ends the popping thread's wait.
EmptyWaitEnds == (popper = "wait" /\ Content # <<>>) ~> popper # "wait"
=============================================================================
