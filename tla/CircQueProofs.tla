--------------------------- MODULE CircQueProofs ---------------------------
(***************************************************************************)
(* For every size of the queue, every width of index_t that can hold it    *)
(* and any elements: what TLC checks of CircQue on a queue of three.       *)
(* QueueInv is inductive. Its parts FrontInv and NextInInv say how far     *)
(* each store that the other side may still load is from the index as it   *)
(* is; with the spare slot of the array they give the freedom from races   *)
(* and the refinement of BoundedQueue.                                     *)
(***************************************************************************)
EXTENDS CircQue, SequenceTheorems, TLAPS

USE QueueAssumption

\* Of any two indices, size() (circ_que.h:132) makes a number of elements.
LEMMA SizeRange ==
    ASSUME NEW f \in Slot, NEW ni \in Slot
    PROVE  Size(f, ni) \in 0 .. MaxSize
BY DEF Slot, Dimension, Size

\* The index that pop_() and push_() store is a slot, and index_t holds it.
LEMMA SuccessorSlot ==
    ASSUME NEW s \in Slot
    PROVE  Successor(s) \in Slot /\ Successor(s) % IndexMod = Successor(s)
BY DEF Slot, Dimension, Successor

\* A push makes the distance between the two indices longer by one.
LEMMA SizePush ==
    ASSUME NEW f \in Slot, NEW ni \in Slot, Size(f, ni) < MaxSize
    PROVE  Size(f, Successor(ni)) = Size(f, ni) + 1
BY DEF Slot, Dimension, Successor, Size

\* A pop makes it shorter by one.
LEMMA SizePop ==
    ASSUME NEW f \in Slot, NEW ni \in Slot, Size(f, ni) > 0
    PROVE  Size(Successor(f), ni) = Size(f, ni) - 1
BY DEF Slot, Dimension, Successor, Size

\* The remainder in operator ()(index) is a subtraction: an index that far
\* from the front wraps around at most once.
LEMMA SlotAtCases ==
    ASSUME NEW f \in Slot, NEW i \in 0 .. MaxSize
    PROVE  SlotAt(f, i) = IF f + i < Dimension THEN f + i ELSE f + i - Dimension
BY DEF Slot, Dimension, SlotAt

\* After a pop each element is one place nearer to the front.
LEMMA SlotAtSuccessor ==
    ASSUME NEW f \in Slot, NEW i \in 0 .. (MaxSize - 1)
    PROVE  SlotAt(Successor(f), i) = SlotAt(f, i + 1)
<1>1. /\ SlotAt(Successor(f), i) = IF Successor(f) + i < Dimension
                                   THEN Successor(f) + i
                                   ELSE Successor(f) + i - Dimension
      /\ SlotAt(f, i + 1) = IF f + (i + 1) < Dimension
                            THEN f + (i + 1)
                            ELSE f + (i + 1) - Dimension
  BY SuccessorSlot, SlotAtCases
<1> QED
  BY <1>1 DEF Successor, Slot, Dimension

\* What a store does to the stores that the reader may still see.
LEMMA StoreFacts ==
    ASSUME NEW a \in Seq(Slot), a # <<>>, NEW v \in Slot, v % IndexMod = v
    PROVE  /\ Store(a, v) \in Seq(Slot) /\ Store(a, v) # <<>>
           /\ Latest(Store(a, v)) = v
           /\ \A i \in 1 .. Len(Store(a, v)) :
                 \/ i = Len(Store(a, v)) /\ Store(a, v)[i] = v
                 \/ /\ i \in 1 .. Len(a) /\ Len(Store(a, v)) = Len(a) + 1
                    /\ Store(a, v)[i] = a[i]
<1>1. CASE lock_free
  BY <1>1 DEF Store, Latest
<1>2. CASE ~lock_free
  BY <1>2 DEF Store, Latest
<1> QED
  BY <1>1, <1>2

\* What a load does: it drops the oldest of them, never the latest.
LEMMA LoadFacts ==
    ASSUME NEW a \in Seq(Slot), a # <<>>, NEW b \in LoadOf(a)
    PROVE  /\ b \in Seq(Slot) /\ b # <<>>
           /\ Latest(b) = Latest(a)
           /\ \E k \in 0 .. (Len(a) - 1) :
                 Len(b) = Len(a) - k /\ \A i \in 1 .. Len(b) : b[i] = a[i + k]
<1>1. PICK k \in 1 .. Len(a) : b = SubSeq(a, k, Len(a))
  BY DEF LoadOf
<1>2. \A i \in k .. Len(a) : a[i] \in Slot
  OBVIOUS
<1>3. /\ b \in Seq(Slot)
      /\ Len(b) = Len(a) - (k - 1)
      /\ \A i \in 1 .. Len(a) - k + 1 : b[i] = a[k + i - 1]
  BY <1>1, <1>2, SubSeqProperties
<1>4. k - 1 \in 0 .. (Len(a) - 1) /\ \A i \in 1 .. Len(b) : b[i] = a[i + (k - 1)]
  BY <1>3
<1>5. Len(b) \in 1 .. Len(a) /\ b # <<>>
  BY <1>3
<1>6. Latest(b) = Latest(a)
  <2>1. Len(b) \in 1 .. Len(b) /\ Len(b) + (k - 1) = Len(a)
    BY <1>3, <1>5
  <2> QED
    BY <1>4, <2>1 DEF Latest
<1> QED
  BY <1>3, <1>4, <1>5, <1>6

\* Whatever either side sees of an index is a slot.
LEMMA LatestSlot ==
    ASSUME NEW a \in Seq(Slot), a # <<>>
    PROVE  Latest(a) \in Slot /\ Seen(a) \in Slot
BY DEF Latest, Seen

\* The constructors of both abstractors leave an empty queue.
LEMMA Initial == Init => QueueInv
BY DEF Init, QueueInv, TypeOK, Slot, Dimension, FrontInv, NextInInv, ControlInv,
       DataInv, QueueSize, Size, Latest, Seen

\* A load of the front index by the pushing code.
LEMMA BackLoadKeeps ==
    ASSUME QueueInv, front' \in LoadOf(front), UNCHANGED <<next_in, data, popper, lock_free>>,
           pusher' \in {"out", "wait", pusher}
    PROVE  QueueInv'
<1> USE DEF QueueInv, TypeOK
<1>1. /\ front' \in Seq(Slot) /\ front' # <<>>
      /\ Latest(front') = Latest(front)
  BY LoadFacts
<1>2. PICK k \in 0 .. (Len(front) - 1) :
         Len(front') = Len(front) - k /\ \A i \in 1 .. Len(front') : front'[i] = front[i + k]
  BY LoadFacts
<1>3. FrontInv'
  <2> SUFFICES ASSUME NEW i \in 1 .. Len(front')
               PROVE  Size(front'[i], Latest(next_in)) = QueueSize + (Len(front') - i)
    BY <1>1 DEF FrontInv, QueueSize
  <2>1. i + k \in 1 .. Len(front) /\ front'[i] = front[i + k]
    BY <1>2
  <2> QED
    BY <2>1, <1>1, <1>2 DEF FrontInv
<1>4. QueueSize' = QueueSize
  BY <1>1 DEF QueueSize
<1>5. NextInInv' /\ DataInv'
  BY <1>1, <1>4 DEF NextInInv, DataInv
<1>6. RoomKnown => RoomKnown'
  <2>1. QueueSize \in 0 .. MaxSize
    BY LatestSlot, SizeRange DEF QueueSize
  <2>2. Size(Seen(front), Latest(next_in)) = QueueSize + (Len(front) - 1)
    BY DEF FrontInv, Seen
  <2>3. Size(Seen(front'), Latest(next_in)) = QueueSize + (Len(front') - 1)
    BY <1>1, <1>3, <1>4 DEF FrontInv, Seen
  <2>4. Len(front') <= Len(front)
    BY <1>2
  <2>5. Size(Seen(front), Latest(next_in)) \in 0 .. MaxSize
    BY LatestSlot, SizeRange
  <2>6. Size(Seen(front'), Latest(next_in)) <= Size(Seen(front), Latest(next_in))
    BY <1>1, <2>1, <2>2, <2>3, <2>4
  <2>7. Size(Seen(front'), Latest(next_in)) \in 0 .. MaxSize
    BY <1>1, LatestSlot, SizeRange
  <2> QED
    BY <2>5, <2>6, <2>7 DEF RoomKnown
<1>7. ControlInv'
  BY <1>1, <1>6 DEF ControlInv, SizeKnown
<1> QED
  BY <1>1, <1>3, <1>5, <1>7

\* A load of the next-in index by the popping code.
LEMMA FrontLoadKeeps ==
    ASSUME QueueInv, popper # "destroyed", popper' \in {"out", "wait"},
           next_in' \in LoadOf(next_in), UNCHANGED <<front, data, pusher, lock_free>>
    PROVE  QueueInv'
<1> USE DEF QueueInv, TypeOK
<1>1. /\ next_in' \in Seq(Slot) /\ next_in' # <<>>
      /\ Latest(next_in') = Latest(next_in)
  BY LoadFacts
<1>2. PICK k \in 0 .. (Len(next_in) - 1) :
         /\ Len(next_in') = Len(next_in) - k
         /\ \A i \in 1 .. Len(next_in') : next_in'[i] = next_in[i + k]
  BY LoadFacts
<1>3. NextInInv'
  <2> SUFFICES ASSUME NEW i \in 1 .. Len(next_in')
               PROVE  Size(Latest(front), next_in'[i]) = QueueSize - (Len(next_in') - i)
    BY <1>1 DEF NextInInv, QueueSize
  <2>1. i + k \in 1 .. Len(next_in) /\ next_in'[i] = next_in[i + k]
    BY <1>2
  <2> QED
    BY <2>1, <1>1, <1>2 DEF NextInInv
<1>4. FrontInv' /\ DataInv'
  BY <1>1 DEF FrontInv, DataInv, QueueSize
<1>5. ControlInv'
  BY <1>1 DEF ControlInv, RoomKnown
<1> QED
  BY <1>1, <1>3, <1>4, <1>5

\* Neither loop on is_full() or is_empty() changes anything as it begins.
LEMMA WaitKeeps ==
    ASSUME QueueInv, WaitWhileFull \/ WaitWhileEmpty
    PROVE  QueueInv'
BY DEF WaitWhileFull, WaitWhileEmpty, QueueInv, TypeOK, FrontInv, NextInInv,
       ControlInv, DataInv, QueueSize, RoomKnown, SizeKnown

\* From f on, the slots counted by Size(f, ni) end before ni.
LEMMA SlotBehind ==
    ASSUME NEW f \in Slot, NEW ni \in Slot, NEW i \in 0 .. (Size(f, ni) - 1)
    PROVE  SlotAt(f, i) # ni
<1>1. f \in Nat /\ ni \in Nat /\ f < Dimension /\ ni < Dimension /\ Dimension \in Nat
  BY DEF Slot, Dimension
<1>2. Size(f, ni) \in 0 .. MaxSize
  BY SizeRange
<1>3. i \in 0 .. MaxSize
  BY <1>2
<1>4. SlotAt(f, i) = IF f + i < Dimension THEN f + i ELSE f + i - Dimension
  BY <1>3, SlotAtCases
<1>5. CASE ni >= f
  <2>1. f + i < ni
    BY <1>1, <1>3, <1>5 DEF Size
  <2>2. SlotAt(f, i) = f + i
    BY <1>1, <1>3, <1>4, <2>1
  <2> QED
    BY <1>1, <1>3, <2>1, <2>2
<1>6. CASE ni < f
  <2>1. f + i < ni + Dimension
    BY <1>1, <1>3, <1>6 DEF Size
  <2>2. CASE f + i < Dimension
    <3>1. SlotAt(f, i) = f + i /\ f + i > ni
      BY <1>1, <1>3, <1>4, <1>6, <2>2
    <3> QED
      BY <1>1, <1>3, <3>1
  <2>3. CASE ~(f + i < Dimension)
    <3>1. SlotAt(f, i) = f + i - Dimension /\ f + i - Dimension < ni
      BY <1>1, <1>3, <1>4, <2>1, <2>3
    <3> QED
      BY <1>1, <1>3, <3>1
  <2> QED
    BY <2>2, <2>3
<1> QED
  BY <1>1, <1>5, <1>6

\* The slot behind the last element is none of the elements' slots, which is
\* what the spare slot of the array is for.
LEMMA NextSlotFree ==
    ASSUME QueueInv
    PROVE  \A i \in 0 .. (QueueSize - 1) : SlotAt(Latest(front), i) # Latest(next_in)
<1>1. Latest(front) \in Slot /\ Latest(next_in) \in Slot
  BY LatestSlot DEF QueueInv, TypeOK
<1> QED
  BY <1>1, SlotBehind DEF QueueSize

\* init() and the construction in push() overwrite no element of the queue.
LEMMA ConstructKeeps ==
    ASSUME QueueInv, NEW e \in Elem, Construct(e)
    PROVE  QueueInv'
<1> USE DEF QueueInv, TypeOK
<1>1. Latest(front) \in Slot /\ Latest(next_in) \in Slot
  BY LatestSlot
<1>2. TypeOK' /\ FrontInv' /\ NextInInv' /\ ControlInv'
  BY <1>1 DEF Construct, FrontInv, NextInInv, ControlInv, QueueSize, RoomKnown,
              SizeKnown
<1>3. \A i \in 0 .. (QueueSize - 1) : SlotAt(Latest(front), i) # Latest(next_in)
  BY NextSlotFree
<1>4. DataInv'
  BY <1>1, <1>3 DEF Construct, DataInv, QueueSize
<1> QED
  BY <1>2, <1>4

\* push_() publishes an element that was constructed.
LEMMA PushKeeps ==
    ASSUME QueueInv, Push
    PROVE  QueueInv'
<1> USE DEF QueueInv, TypeOK
<1> DEFINE ni == Latest(next_in)
           f  == Latest(front)
<1>1. f \in Slot /\ ni \in Slot /\ Seen(front) \in Slot
  BY LatestSlot
<1>2. Successor(ni) \in Slot /\ Successor(ni) % IndexMod = Successor(ni)
  BY <1>1, SuccessorSlot
<1>3. /\ next_in' \in Seq(Slot) /\ next_in' # <<>>
      /\ Latest(next_in') = Successor(ni)
      /\ \A i \in 1 .. Len(next_in') :
            \/ i = Len(next_in') /\ next_in'[i] = Successor(ni)
            \/ /\ i \in 1 .. Len(next_in) /\ Len(next_in') = Len(next_in) + 1
               /\ next_in'[i] = next_in[i]
  BY <1>2, StoreFacts DEF Push
<1>4. \A i \in 1 .. Len(front) : Size(front[i], Successor(ni)) = Size(front[i], ni) + 1
  <2> SUFFICES ASSUME NEW i \in 1 .. Len(front)
               PROVE  Size(front[i], Successor(ni)) = Size(front[i], ni) + 1
    OBVIOUS
  <2>1. Size(Seen(front), ni) \in 0 .. MaxSize /\ Size(Seen(front), ni) # MaxSize
    BY <1>1, SizeRange DEF Push, ControlInv, RoomKnown
  <2>2. QueueSize \in 0 .. MaxSize
    BY <1>1, SizeRange DEF QueueSize
  <2>3. Size(Seen(front), ni) = QueueSize + (Len(front) - 1)
    BY DEF FrontInv, Seen
  <2>4. Size(front[i], ni) < MaxSize
    BY <2>1, <2>2, <2>3 DEF FrontInv
  <2> QED
    BY <1>1, <2>4, SizePush
<1>5. QueueSize' = QueueSize + 1
  BY <1>1, <1>3, <1>4 DEF Push, QueueSize, Latest
<1>6. QueueSize \in 0 .. MaxSize /\ QueueSize' \in 0 .. MaxSize
  BY <1>1, <1>2, <1>3, SizeRange DEF QueueSize, Push
<1>7. FrontInv'
  <2> SUFFICES ASSUME NEW i \in 1 .. Len(front)
               PROVE  Size(front[i], Successor(ni)) = QueueSize' + (Len(front) - i)
    BY <1>3 DEF Push, FrontInv
  <2>1. Size(front[i], ni) = QueueSize + (Len(front) - i)
    BY DEF FrontInv
  <2> QED
    BY <2>1, <1>4, <1>5, <1>6
<1>8. NextInInv'
  <2> SUFFICES ASSUME NEW i \in 1 .. Len(next_in')
               PROVE  Size(f, next_in'[i]) = QueueSize' - (Len(next_in') - i)
    BY DEF Push, NextInInv
  <2>1. CASE i = Len(next_in') /\ next_in'[i] = Successor(ni)
    BY <2>1, <1>3, <1>6 DEF QueueSize, Push
  <2>2. CASE /\ i \in 1 .. Len(next_in) /\ Len(next_in') = Len(next_in) + 1
             /\ next_in'[i] = next_in[i]
    BY <2>2, <1>5, <1>6 DEF NextInInv
  <2> QED
    BY <2>1, <2>2, <1>3
<1>9. DataInv'
  <2> SUFFICES ASSUME NEW i \in 0 .. (QueueSize' - 1), popper = "destroyed" => i > 0
               PROVE  data[SlotAt(f, i)] \in Elem
    BY DEF DataInv, Push
  <2>1. CASE i < QueueSize
    BY <2>1, <1>6 DEF DataInv
  <2>2. CASE i = QueueSize
    <3>1. SlotAt(f, i) = ni
      <4>1. i = Size(f, ni)
        BY <2>2 DEF QueueSize
      <4>2. CASE ni >= f
        BY <4>1, <4>2, <1>1, SlotAtCases DEF Size, Slot, Dimension
      <4>3. CASE ni < f
        BY <4>1, <4>3, <1>1, SlotAtCases, SMTT(60) DEF Size, Slot, Dimension
      <4> QED
        BY <4>2, <4>3, <1>1 DEF Slot, Dimension
    <3> QED
      BY <3>1 DEF Push, ControlInv
  <2> QED
    BY <2>1, <2>2, <1>5, <1>6
<1>10. ControlInv'
  <2>1. Size(f, Seen(next_in)) = QueueSize - (Len(next_in) - 1)
    BY DEF NextInInv, Seen
  <2>2. Size(f, Seen(next_in')) = QueueSize' - (Len(next_in') - 1)
    BY <1>3, <1>8 DEF NextInInv, Seen, Push
  <2>3. Len(next_in') = 1 \/ Len(next_in') = Len(next_in) + 1
    <3>1. 1 \in 1 .. Len(next_in')
      BY <1>3
    <3> QED
      BY <3>1, <1>3
  <2>4. SizeKnown' >= SizeKnown
    BY <2>1, <2>2, <2>3, <1>3, <1>5, <1>6 DEF SizeKnown, Push
  <2>5. SizeKnown \in 0 .. MaxSize /\ SizeKnown' \in 0 .. MaxSize
    BY <1>1, <1>3, LatestSlot, SizeRange DEF SizeKnown, Push
  <2> QED
    BY <2>4, <2>5 DEF ControlInv, Push
<1> QED
  BY <1>3, <1>7, <1>8, <1>9, <1>10 DEF Push

\* What each side knows of the size errs on its safe side.
LEMMA KnownSize ==
    ASSUME QueueInv
    PROVE  /\ QueueSize \in 0 .. MaxSize
           /\ SizeKnown \in 0 .. QueueSize
           /\ Size(Seen(front), Latest(next_in)) \in QueueSize .. MaxSize
<1> USE DEF QueueInv, TypeOK
<1>1. /\ QueueSize \in 0 .. MaxSize
      /\ SizeKnown \in 0 .. MaxSize
      /\ Size(Seen(front), Latest(next_in)) \in 0 .. MaxSize
  BY LatestSlot, SizeRange DEF QueueSize, SizeKnown
<1>2. SizeKnown = QueueSize - (Len(next_in) - 1)
  BY DEF NextInInv, SizeKnown, Seen
<1>3. Size(Seen(front), Latest(next_in)) = QueueSize + (Len(front) - 1)
  BY DEF FrontInv, Seen
<1> QED
  BY <1>1, <1>2, <1>3

\* The destructor call of pop() is on an element of the queue.
LEMMA DestroyKeeps ==
    ASSUME QueueInv, Destroy
    PROVE  QueueInv'
<1> USE DEF QueueInv, TypeOK
<1>1. Latest(front) \in Slot /\ Latest(next_in) \in Slot
  BY LatestSlot
<1>2. QueueSize \in 1 .. MaxSize
  BY KnownSize DEF Destroy
<1>3. TypeOK' /\ FrontInv' /\ NextInInv'
  <2>1. TypeOK'
    BY <1>1 DEF Destroy
  <2> QED
    BY <2>1 DEF Destroy, FrontInv, NextInInv, QueueSize
<1>4. Latest(next_in) # Latest(front)
  BY <1>1, <1>2 DEF QueueSize, Size, Slot, Dimension
<1>5. ControlInv'
  <2>1. SizeKnown' = SizeKnown /\ RoomKnown' = RoomKnown
    BY DEF Destroy, RoomKnown, SizeKnown
  <2>2. data'[Latest(next_in)] = data[Latest(next_in)]
    BY <1>1, <1>4 DEF Destroy
  <2>3. next_in' = next_in /\ pusher' = pusher /\ SizeKnown > 0
    BY DEF Destroy
  <2> QED
    BY <2>1, <2>2, <2>3 DEF ControlInv
<1>6. \A i \in 1 .. (QueueSize - 1) : SlotAt(Latest(front), i) # Latest(front)
  <2> SUFFICES ASSUME NEW i \in 1 .. (QueueSize - 1)
               PROVE  SlotAt(Latest(front), i) # Latest(front)
    OBVIOUS
  <2>1. SlotAt(Latest(front), i) = IF Latest(front) + i < Dimension
                                   THEN Latest(front) + i
                                   ELSE Latest(front) + i - Dimension
    BY <1>1, <1>2, SlotAtCases
  <2> QED
    BY <2>1, <1>1, <1>2 DEF Slot, Dimension
<1>7. DataInv'
  <2> SUFFICES ASSUME NEW i \in 1 .. (QueueSize - 1)
               PROVE  data'[SlotAt(Latest(front), i)] \in Elem
    BY <1>2 DEF DataInv, Destroy, QueueSize
  <2>1. data[SlotAt(Latest(front), i)] \in Elem
    BY <1>2 DEF DataInv, Destroy
  <2> QED
    BY <2>1, <1>6 DEF Destroy
<1> QED
  BY <1>3, <1>5, <1>7

\* pop_() leaves the pushing side with an old front index until it loads it.
LEMMA PopKeeps ==
    ASSUME QueueInv, Pop
    PROVE  QueueInv'
<1> USE DEF QueueInv, TypeOK
<1> DEFINE ni == Latest(next_in)
           f  == Latest(front)
<1>1. f \in Slot /\ ni \in Slot /\ Seen(next_in) \in Slot
  BY LatestSlot
<1>2. Successor(f) \in Slot /\ Successor(f) % IndexMod = Successor(f)
  BY <1>1, SuccessorSlot
<1>3. /\ front' \in Seq(Slot) /\ front' # <<>>
      /\ Latest(front') = Successor(f)
      /\ \A i \in 1 .. Len(front') :
            \/ i = Len(front') /\ front'[i] = Successor(f)
            \/ /\ i \in 1 .. Len(front) /\ Len(front') = Len(front) + 1
               /\ front'[i] = front[i]
  BY <1>2, StoreFacts DEF Pop
<1>4. SizeKnown \in 1 .. QueueSize /\ QueueSize \in 1 .. MaxSize
  BY KnownSize DEF Pop, ControlInv
<1>5. QueueSize' = QueueSize - 1
  BY <1>1, <1>3, <1>4, SizePop DEF Pop, QueueSize
<1>6. FrontInv'
  <2> SUFFICES ASSUME NEW i \in 1 .. Len(front')
               PROVE  Size(front'[i], ni) = QueueSize' + (Len(front') - i)
    BY DEF Pop, FrontInv
  <2>1. CASE i = Len(front') /\ front'[i] = Successor(f)
    BY <2>1, <1>1, <1>3, <1>4, <1>5, SizePop DEF QueueSize
  <2>2. CASE /\ i \in 1 .. Len(front) /\ Len(front') = Len(front) + 1
             /\ front'[i] = front[i]
    BY <2>2, <1>4, <1>5 DEF FrontInv
  <2> QED
    BY <2>1, <2>2, <1>3
<1>7. \A i \in 1 .. Len(next_in) : Size(f, next_in[i]) > 0
  <2> SUFFICES ASSUME NEW i \in 1 .. Len(next_in)
               PROVE  Size(f, next_in[i]) > 0
    OBVIOUS
  <2>1. SizeKnown = QueueSize - (Len(next_in) - 1)
    BY DEF NextInInv, SizeKnown, Seen
  <2>2. Size(f, next_in[i]) = QueueSize - (Len(next_in) - i)
    BY DEF NextInInv
  <2> QED
    BY <2>1, <2>2, <1>4
<1>8. NextInInv'
  <2> SUFFICES ASSUME NEW i \in 1 .. Len(next_in)
               PROVE  Size(Successor(f), next_in[i]) = QueueSize' - (Len(next_in) - i)
    BY <1>3 DEF Pop, NextInInv
  <2>1. Size(Successor(f), next_in[i]) = Size(f, next_in[i]) - 1
    BY <1>1, <1>7, SizePop
  <2>2. Size(f, next_in[i]) = QueueSize - (Len(next_in) - i)
    BY DEF NextInInv
  <2> QED
    BY <2>1, <2>2, <1>4, <1>5
<1>9. ControlInv'
  <2>1. Len(front') = 1 \/ Seen(front') = Seen(front)
    <3>1. 1 \in 1 .. Len(front')
      BY <1>3
    <3> QED
      BY <3>1, <1>3 DEF Seen
  <2>2. CASE Len(front') = 1
    <3>1. Size(Seen(front'), ni) = QueueSize - 1
      BY <2>2, <1>3, <1>4, <1>5, <1>6 DEF FrontInv, Seen, Pop
    <3> QED
      BY <3>1, <1>4 DEF ControlInv, RoomKnown, Pop
  <2>3. CASE Seen(front') = Seen(front)
    BY <2>3 DEF ControlInv, RoomKnown, Pop
  <2> QED
    BY <2>1, <2>2, <2>3
<1>10. DataInv'
  <2> SUFFICES ASSUME NEW i \in 0 .. (QueueSize - 2)
               PROVE  data[SlotAt(Successor(f), i)] \in Elem
    BY <1>3, <1>4, <1>5 DEF DataInv, Pop
  <2>1. SlotAt(Successor(f), i) = SlotAt(f, i + 1)
    BY <1>1, <1>4, SlotAtSuccessor
  <2> QED
    BY <2>1, <1>4 DEF DataInv
<1> QED
  BY <1>3, <1>6, <1>8, <1>9, <1>10 DEF Pop

\* purge() sets both indices of a basic queue to zero.
LEMMA PurgeKeeps ==
    ASSUME QueueInv, Purge
    PROVE  QueueInv'
BY DEF Purge, QueueInv, TypeOK, Slot, Dimension, FrontInv, NextInInv,
       ControlInv, DataInv, QueueSize, Size, Latest, Seen

\* One lemma per operation, put together.
LEMMA StepKeeps == QueueInv /\ [Next]_vars => QueueInv'
<1> SUFFICES ASSUME QueueInv, [Next]_vars
             PROVE  QueueInv'
  OBVIOUS
<1>1. CASE PusherStep
  <2>1. ASSUME BackSize \/ \E load \in LoadOf(front) : CheckFull(load)
        PROVE  QueueInv'
    BY <2>1, BackLoadKeeps DEF BackSize, CheckFull
  <2> QED
    BY <1>1, <2>1, WaitKeeps, PushKeeps, ConstructKeeps DEF PusherStep
<1>2. CASE PopperStep
  <2>1. ASSUME FrontSize \/ \E load \in LoadOf(next_in) : CheckEmpty(load)
        PROVE  QueueInv'
    BY <2>1, FrontLoadKeeps DEF FrontSize, CheckEmpty
  <2> QED
    BY <1>2, <2>1, WaitKeeps, DestroyKeeps, PopKeeps, PurgeKeeps DEF PopperStep
<1>3. CASE UNCHANGED vars
  BY <1>3 DEF vars, QueueInv, TypeOK, FrontInv, NextInInv, ControlInv, DataInv,
              QueueSize, RoomKnown, SizeKnown
<1> QED
  BY <1>1, <1>2, <1>3 DEF Next

(***************************************************************************)
(* Safety, for every size of the queue, of its elements and of its index.  *)
(***************************************************************************)

\* The inductive invariant holds throughout, for either abstractor.
THEOREM InvariantHolds == Spec => []QueueInv
BY Initial, StepKeeps, PTL DEF Spec

\* What either side knows of the size errs on the safe side.
THEOREM SizesConservativeHolds == Spec => []SizesConservative
<1>1. QueueInv => SizesConservative
  BY KnownSize DEF SizesConservative
<1> QED
  BY <1>1, InvariantHolds, PTL

\* The pushing code constructs where the popping code has nothing left to do.
THEOREM NoSlotRaceHolds == Spec => []NoSlotRace
<1>1. ASSUME QueueInv
      PROVE  NoSlotRace
  <2>1. \A i \in 0 .. (SizeKnown - 1) : SlotAt(Latest(front), i) # Latest(next_in)
    BY <1>1, KnownSize, NextSlotFree
  <2>2. \A i \in 1 .. (Len(front) - 1) : front[i] # Latest(next_in)
    <3> SUFFICES ASSUME NEW i \in 1 .. (Len(front) - 1)
                 PROVE  front[i] # Latest(next_in)
      OBVIOUS
    <3>1. Size(front[i], Latest(next_in)) = QueueSize + (Len(front) - i)
      BY <1>1 DEF QueueInv, TypeOK, FrontInv
    <3>2. Size(front[i], Latest(next_in)) > 0
      BY <1>1, <3>1, KnownSize DEF QueueInv, TypeOK
    <3>3. Latest(next_in) \in Int
      BY <1>1, LatestSlot DEF QueueInv, TypeOK, Slot, Dimension
    <3> QED
      BY <3>2, <3>3 DEF Size
  <2> QED
    BY <2>1, <2>2 DEF NoSlotRace, PopperSlots, UnseenPops
<1> QED
  BY <1>1, InvariantHolds, PTL

(***************************************************************************)
(* Refinement of BoundedQueue.                                             *)
(***************************************************************************)
LEMMA ContentSize ==
    ASSUME QueueInv
    PROVE  /\ FrontSlot \in Slot /\ Latest(next_in) \in Slot
           /\ Size(FrontSlot, Latest(next_in)) \in 0 .. MaxSize
           /\ Content \in Seq(Elem)
           /\ Len(Content) = Size(FrontSlot, Latest(next_in))
<1> USE DEF QueueInv, TypeOK
<1> DEFINE n == Size(FrontSlot, Latest(next_in))
<1>1. Latest(front) \in Slot /\ Latest(next_in) \in Slot
  BY LatestSlot
<1>2. FrontSlot \in Slot
  BY <1>1, SuccessorSlot DEF FrontSlot
<1>3. n \in 0 .. MaxSize
  BY <1>1, <1>2, SizeRange
<1>4. \A i \in 1 .. n : data[SlotAt(FrontSlot, i - 1)] \in Elem
  <2> SUFFICES ASSUME NEW i \in 1 .. n
               PROVE  data[SlotAt(FrontSlot, i - 1)] \in Elem
    OBVIOUS
  <2>1. CASE popper = "destroyed"
    <3>1. SizeKnown > 0 /\ QueueSize > 0
      BY <2>1, KnownSize DEF ControlInv
    <3>2. n = QueueSize - 1
      BY <2>1, <3>1, <1>1, SizePop DEF FrontSlot, QueueSize
    <3>3. SlotAt(FrontSlot, i - 1) = SlotAt(Latest(front), i)
      BY <2>1, <3>2, <1>1, <1>3, SlotAtSuccessor DEF FrontSlot
    <3> QED
      BY <3>2, <3>3, KnownSize DEF DataInv
  <2>2. CASE popper # "destroyed"
    BY <2>2, KnownSize DEF DataInv, FrontSlot, QueueSize
  <2> QED
    BY <2>1, <2>2
<1>5. Content = [i \in 1 .. n |-> data[SlotAt(FrontSlot, i - 1)]]
  BY DEF Content
<1>6. Content \in Seq(Elem) /\ Len(Content) = n
  BY <1>3, <1>4, <1>5
<1> QED
  BY <1>1, <1>2, <1>3, <1>6

\* The content changes only where the indices and slots it reads do.
LEMMA SameContent ==
    ASSUME QueueInv, FrontSlot' = FrontSlot, Latest(next_in') = Latest(next_in),
           \A i \in 1 .. Size(FrontSlot, Latest(next_in)) :
               data'[SlotAt(FrontSlot, i - 1)] = data[SlotAt(FrontSlot, i - 1)]
    PROVE  UNCHANGED Content
BY DEF Content

\* A push appends the element constructed last.
LEMMA PushRefines ==
    ASSUME QueueInv, Push
    PROVE  [Queue!Next]_Content
<1> DEFINE ni == Latest(next_in)
           n  == Size(FrontSlot, ni)
<1>1. FrontSlot' = FrontSlot /\ data' = data
  BY DEF Push, FrontSlot
<1>2. Latest(next_in') = Successor(ni)
  BY ContentSize, SuccessorSlot, StoreFacts DEF Push, QueueInv, TypeOK
<1>3. n < MaxSize
  <2>1. QueueSize < MaxSize
    BY KnownSize DEF Push, QueueInv, ControlInv, RoomKnown
  <2>2. n <= QueueSize
    <3>1. CASE popper = "destroyed"
      <4>1. Latest(front) \in Slot /\ QueueSize > 0
        BY <3>1, KnownSize, LatestSlot DEF QueueInv, TypeOK, ControlInv
      <4> QED
        BY <3>1, <4>1, KnownSize, ContentSize, SizePop DEF FrontSlot, QueueSize
    <3>2. CASE popper # "destroyed"
      BY <3>2, KnownSize DEF FrontSlot, QueueSize
    <3> QED
      BY <3>1, <3>2
  <2> QED
    BY <2>1, <2>2, KnownSize, ContentSize
<1>4. Size(FrontSlot, Successor(ni)) = n + 1
  BY <1>3, ContentSize, SizePush
<1>5. SlotAt(FrontSlot, n) = ni
  BY ContentSize, SlotAtCases DEF Size, Slot, Dimension
<1>6. Content' = [i \in 1 .. (n + 1) |-> data[SlotAt(FrontSlot, i - 1)]]
  BY <1>1, <1>2, <1>4 DEF Content
<1>7. Content' = Append(Content, data[ni])
  <2>1. Append(Content, data[ni]) = [i \in 1 .. (n + 1) |->
                                        IF i = n + 1 THEN data[ni] ELSE Content[i]]
    BY ContentSize
  <2>2. \A i \in 1 .. (n + 1) :
            data[SlotAt(FrontSlot, i - 1)] = IF i = n + 1 THEN data[ni] ELSE Content[i]
    BY <1>5, ContentSize DEF Content
  <2> QED
    BY <1>6, <2>1, <2>2
<1>8. data[ni] \in Elem /\ Len(Content) < MaxSize
  BY <1>3, ContentSize DEF Push, QueueInv, ControlInv
<1> QED
  BY <1>7, <1>8 DEF Queue!Next, Queue!Push

\* Dropping the front slot drops the first element.
LEMMA TailRefines ==
    ASSUME QueueInv, FrontSlot' = Successor(FrontSlot), UNCHANGED next_in,
           Size(FrontSlot, Latest(next_in)) > 0,
           \A i \in 1 .. (Size(FrontSlot, Latest(next_in)) - 1) :
               data'[SlotAt(FrontSlot, i)] = data[SlotAt(FrontSlot, i)]
    PROVE  [Queue!Next]_Content
<1> DEFINE n == Size(FrontSlot, Latest(next_in))
<1>1. n \in 1 .. MaxSize /\ Size(Successor(FrontSlot), Latest(next_in)) = n - 1
  BY ContentSize, SizePop
<1>2. Content' = [i \in 1 .. (n - 1) |-> data'[SlotAt(Successor(FrontSlot), i - 1)]]
  BY <1>1 DEF Content
<1>3. \A i \in 1 .. (n - 1) :
          data'[SlotAt(Successor(FrontSlot), i - 1)] = data[SlotAt(FrontSlot, i)]
  <2> SUFFICES ASSUME NEW i \in 1 .. (n - 1)
               PROVE  data'[SlotAt(Successor(FrontSlot), i - 1)] = data[SlotAt(FrontSlot, i)]
    OBVIOUS
  <2>1. SlotAt(Successor(FrontSlot), i - 1) = SlotAt(FrontSlot, (i - 1) + 1)
    BY <1>1, ContentSize, SlotAtSuccessor
  <2> QED
    BY <2>1, <1>1
<1>4. Tail(Content) = [i \in 1 .. (n - 1) |-> Content[i + 1]]
  <2>1. Content # <<>> /\ Content \in Seq(Elem) /\ Len(Content) = n
    BY <1>1, ContentSize
  <2>2. Tail(Content) \in Seq(Elem) /\ Len(Tail(Content)) = n - 1
    BY <1>1, <2>1, HeadTailProperties
  <2>3. \A i \in 1 .. (n - 1) : Tail(Content)[i] = Content[i + 1]
    BY <2>1, <2>2, HeadTailProperties
  <2>4. Tail(Content) \in [1 .. (n - 1) -> Elem]
    <3>1. Tail(Content) \in [1 .. Len(Tail(Content)) -> Elem]
      BY <2>2, LenProperties
    <3> QED
      BY <3>1, <2>2
  <2> QED
    BY <2>3, <2>4
<1>5. \A i \in 1 .. (n - 1) : Content[i + 1] = data[SlotAt(FrontSlot, i)]
  BY <1>1 DEF Content
<1>6. Content' = Tail(Content)
  BY <1>2, <1>3, <1>4, <1>5
<1>7. Content # <<>>
  BY <1>1, ContentSize
<1> QED
  BY <1>6, <1>7 DEF Queue!Next, Queue!Pop

\* Every other operation leaves the queue as it is or takes its first element.
LEMMA StepRefines == QueueInv /\ [Next]_vars => [Queue!Next]_Content
<1> SUFFICES ASSUME QueueInv, [Next]_vars
             PROVE  [Queue!Next]_Content
  OBVIOUS
<1> DEFINE n == Size(FrontSlot, Latest(next_in))
<1>1. CASE BackSize \/ \E load \in LoadOf(front) : CheckFull(load)
  <2>1. Latest(front') = Latest(front)
    BY <1>1, LoadFacts DEF BackSize, CheckFull, QueueInv, TypeOK
  <2> QED
    BY <1>1, <2>1, SameContent DEF BackSize, CheckFull, FrontSlot
<1>2. CASE FrontSize \/ \E load \in LoadOf(next_in) : CheckEmpty(load)
  <2>1. Latest(next_in') = Latest(next_in)
    BY <1>2, LoadFacts DEF FrontSize, CheckEmpty, QueueInv, TypeOK
  <2> QED
    BY <1>2, <2>1, SameContent DEF FrontSize, CheckEmpty, FrontSlot
<1>3. CASE WaitWhileFull \/ WaitWhileEmpty \/ UNCHANGED vars
  BY <1>3, SameContent DEF WaitWhileFull, WaitWhileEmpty, vars, FrontSlot
<1>4. ASSUME NEW e \in Elem, Construct(e)
      PROVE  [Queue!Next]_Content
  <2>1. \A i \in 1 .. n : SlotAt(FrontSlot, i - 1) # Latest(next_in)
    <3> SUFFICES ASSUME NEW i \in 1 .. n
                 PROVE  SlotAt(FrontSlot, i - 1) # Latest(next_in)
      OBVIOUS
    <3>1. CASE popper = "destroyed"
      <4>1. Latest(front) \in Slot /\ QueueSize > 0
        BY <3>1, KnownSize, LatestSlot DEF QueueInv, TypeOK, ControlInv
      <4>2. n = QueueSize - 1
        BY <3>1, <4>1, ContentSize, SizePop DEF FrontSlot, QueueSize
      <4>3. SlotAt(FrontSlot, i - 1) = SlotAt(Latest(front), i)
        BY <3>1, <4>1, <4>2, ContentSize, SlotAtSuccessor DEF FrontSlot
      <4> QED
        BY <4>2, <4>3, KnownSize, NextSlotFree
    <3>2. CASE popper # "destroyed"
      BY <3>2, KnownSize, NextSlotFree DEF FrontSlot, QueueSize
    <3> QED
      BY <3>1, <3>2
  <2> QED
    BY <1>4, <2>1, SameContent DEF Construct, FrontSlot
<1>5. CASE Destroy
  <2>1. FrontSlot = Latest(front) /\ FrontSlot' = Successor(FrontSlot)
    BY <1>5 DEF Destroy, FrontSlot
  <2>2. n \in 1 .. MaxSize
    BY <1>5, <2>1, KnownSize DEF Destroy, QueueSize
  <2>3. \A i \in 1 .. (n - 1) : SlotAt(FrontSlot, i) # FrontSlot
    <3> SUFFICES ASSUME NEW i \in 1 .. (n - 1)
                 PROVE  SlotAt(FrontSlot, i) # FrontSlot
      OBVIOUS
    <3>1. SlotAt(FrontSlot, i) = IF FrontSlot + i < Dimension
                                 THEN FrontSlot + i
                                 ELSE FrontSlot + i - Dimension
      BY <2>2, ContentSize, SlotAtCases
    <3> QED
      BY <3>1, <2>2, ContentSize DEF Slot, Dimension
  <2> QED
    BY <1>5, <2>1, <2>2, <2>3, TailRefines DEF Destroy
<1>6. CASE Pop
  <2>1. Latest(front') = Successor(Latest(front))
    BY <1>6, LatestSlot, SuccessorSlot, StoreFacts DEF Pop, QueueInv, TypeOK
  <2>2. CASE popper = "destroyed"
    BY <1>6, <2>1, <2>2, SameContent DEF Pop, FrontSlot
  <2>3. CASE popper # "destroyed"
    <3>1. FrontSlot' = Successor(FrontSlot) /\ n > 0
      BY <1>6, <2>1, <2>3, KnownSize DEF Pop, FrontSlot, QueueSize
    <3> QED
      BY <1>6, <3>1, TailRefines DEF Pop
  <2> QED
    BY <2>2, <2>3
<1>7. CASE Purge
  <2>1. Content' = <<>>
    BY <1>7 DEF Purge, Content, FrontSlot, Latest, Size
  <2> QED
    BY <2>1 DEF Queue!Next, Queue!Purge
<1> QED
  BY <1>1, <1>2, <1>3, <1>4, <1>5, <1>6, <1>7, PushRefines
  DEF Next, PusherStep, PopperStep

\* The circular queue is a first-in first-out queue of at most MaxSize
\* elements, whatever the two threads' interleaving and whichever of the
\* stores each of their loads returns.
THEOREM RefinesBoundedQueue == Spec => ImplementsBoundedQueue
<1>1. Init => Queue!Init
  BY DEF Init, Queue!Init, Content, FrontSlot, Latest, Size
<1> QED
  BY <1>1, StepRefines, InvariantHolds, PTL
  DEF Spec, ImplementsBoundedQueue, Queue!Spec

==================================================
