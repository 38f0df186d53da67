# A verification of the intrusive container templates

TLA+ models of the C++ containers and of the shared mutex in this repository,
TLC configurations that check them on small instances, and proofs that TLAPS
checks for instances of any size.

## 1. The system

The library is a set of header-only class templates, and one mutex with a source
file. A container holds *handles* of elements that the calling code owns; the
links are stored in the elements, through an *abstractor* class of the caller's.
Nothing is allocated or freed, and preconditions (an element is in no other list,
a queue is not full) are stated in comments and not checked. The correctness of a
container is therefore about what a long series of legal calls leaves in links
and indices, and that of the concurrent parts about every interleaving.

| component | source | state | operations | hard because |
|---|---|---|---|---|
| rarely unique shared mutex | `ru_shared_mutex.h`, `.cpp` | per mutex: `uniq`, `uniq_mtx`, two condition variables, the `notify_uniq_cond` flag, the list of per-thread data and its shared mutex; per thread: `sharing` and the link to the next thread's data | `lock`, `try_lock`, `unlock`, `lock_shared`, `try_lock_shared`, `unlock_shared`, the end of a thread and of the mutex | readers take no lock on the fast path; lost wakeups; threads come and go while others scan; static destruction in any order |
| circular queue | `circ_que.h` | an array, `front`, `next_in` | `push`, `init`, `pop`, `size`, `is_full`, `is_empty`, the waiting loops, `purge` | wrap-around; two threads without a lock; element construction and destruction around the index updates |
| lock-free abstractor of it | `circ_que_lock_free.h` | the indices as atomics | release stores, acquire loads | stale loads; narrow index types |
| doubly linked list | `bidir_list.h` | two ends per list, two links per element | `insert`, `remove`, `push`, `pop`, `purge`, `make_detached`, `is_detached`, `start`, `link` | both directions must agree; stale links of unused elements |
| singly linked list | `list.h` | head, optional tail, one link per element | the same, and `remove_forward` | a stored tail that several operations must move |
| hash table | `hash_table.h` | an array of lists | `insert`, `search`, `remove_key`, `remove`, `purge`, iterator | collisions; changes under an iterator; unsigned wrap-around of its start |
| AVL tree | `avl_tree.h` | root; two children and a balance factor per node | `insert`, `remove`, `subst`, `search` (five kinds), `build`, iterator, `purge` | rotations at several levels of one `remove`; arrays of fixed depth; iteration that frees its nodes |
| modulus hash | `modulus_hash.h` | none: the depth of a template recursion, with the segment read and the coefficient there | `val`, `fast_val`, with and without a segment count | overflow of integers of the documented widths; how many segments are hashed |
| IP address counter | `avl_ex2.cpp` | an array of nodes over the AVL tree, the balance factor in two bits robbed from the links | `see` | a balance factor stored over the one that was there |
| CRC-32, FNV | `crc32.*`, `fnv_hash.*` | none | hash functions | |
| macros | `util.h` | none | member to class pointer | |

How they interact: the hash table's buckets are lists of `list.h` (its abstractor
may also use `bidir_list.h`); the lock-free queue is `circ_que` over another
abstractor, shared by one pushing and one popping thread; the mutex's threads
communicate through its atomics and condition variables; the list of per-thread
data is written when a thread first takes a shared lock and when it ends, and
read by every scan, and taken apart when the mutex ends. The counter of `avl_ex2.cpp`
is an AVL tree whose abstractor packs its fields. The tests, other examples and benchmarks are callers of these parts.
`shared_mutex.txt` is an early sketch of the mutex and `avl_tree.odt` the
documentation of the tree.

What makes each correct, in a sentence: the mutex excludes, and wakes whom it
must; the queue is first-in first-out and never lets both threads at one slot; a
list is the sequence its operations describe, from either end; the table finds
by key what was put in, and an iteration misses nothing; the tree is ordered,
balanced, and its iterator visits the nodes in order; the hash is the number
modulo the modulus. `PROJECT.json` lists the
hazards at their lines, with the properties that watch them.

## 2. The modules

Abstract specifications (what a caller may rely on) on the left, what implements
them on the right:

    SharedMutex     <-  RuSharedMutex               RuSharedMutexProofs
    ThreadDataSet   <-  RuSharedMutex               RuSharedMutexProofs
    ThreadDataSet   <-  PtdList  (extends Links)    PtdListProofs
    BoundedQueue    <-  CircQue                     CircQueProofs
    SequenceList    <-  BidirList (extends Links)   BidirListProofs
    SequenceList    <-  List      (extends ListOps) ListProofs
    KeyedTable      <-  HashTable (extends ListOps) HashTableProofs
                        AvlTree   (extends AvlOps)  AvlProofs
                        IpAddrCnt (extends AvlOps)
                        ModulusHash                 ModulusHashProofs

`Links` says what a loop along links comes by, and in which order, for `ListOps`,
`BidirList` and `PtdList`. `ListProofs` proves what its operators give when the links
run along a sequence, and what becomes of them when a node is put in or taken out;
`BidirListProofs` and `HashTableProofs` take these lemmas from an INSTANCE of it. The
modules on the right hold the proofs, the refinement on their line among them.

Each `MC...` module gives TLC the model values, symmetry sets and small constant
functions of its configurations. Operators named for a bug (`UnlockLate`,
`PushUnbuilt`, `RemoveOneWay` and so on, always just before the operator they
resemble) are not part of any model: they are the code with a plausible mistake,
and put in the place of the right one they make the property break that
`PROJECT.json` names with them.

### RuSharedMutex

A thread's `pc` is its place in the code; where the source has an `L(...)`
location at that place, the model has its name (`"LU2"`, `"US4"`). Every access to
an atomic, every lock or unlock of a mutex, every wait, wakeup and notification
and every read of one flag in a scan is a step. `uniq` and `sharing` are accessed
with the sequentially consistent default, so interleaving is all there is. The
`compare_exchange` on `notify_uniq_cond` is relaxed; it is one atomic
read-modify-write all the same, and no other data is published through the flag.

* `Lock`, `TryLock`, `Unlock`, `LockShared`, ... are the functions, each a
  disjunction of its steps; `Scan` and `NotifyUniqCond` are the two helpers that
  several of them call. `DestroyPtd` is the destructor at the end of a thread.
* `uniq_mtx`, the list's `std::shared_mutex` and the condition variables are
  modelled from their use. Wakeups may be spurious; a notification wakes any one
  sleeper. `std::mutex::try_lock()` fails only if the mutex is taken.
* The list of per-thread data is the set `registered`. A scan may read its
  members in any order, which covers the order of the links. What the mutex uses of
  the list is `ThreadDataSet`, in the words of this module (`registered`, `scanning`,
  `unread`): a set that stands still while anybody reads it.
* `status_count`, present only in debug builds, is the caller's protocol: a
  thread asks for a lock only when it holds none. The guards of `Call` keep to it.

### PtdList

The same list as it is in memory: `head`, the `link` and `mutex_data` of each
`per_thread_data_`, and the shared mutex over them. A thread's `pc` is at one of the
walks: a scan, the destructor's search for the pointer to itself, or the loop of
`data::~data()`. As a place in the list, `Null` is the pointer at its head
(`ptr` of the destructor is a pointer to a pointer). The threads' flags go up and down
as they like. `alive` is whether `data` still exists: `BeginDestroy` is the end of
the program's mutex, after which the data of any thread may still be destroyed; by
then no other thread is at work on the list, as static destruction requires.
`PtdList` keeps the promise of `ThreadDataSet` with `registered` for those whose
`mutex_data` is set and, for the flags yet to read, the members that come after the
scan's pointer. So what `RuSharedMutex` shows with a set, the links keep.

### Links

A loop `for (p = first; p != null; p = link(p))` comes by the nodes in every set that
has the first and is closed under the links: `Onward`. It needs no recursion, which
keeps it within reach of the proofs, and it has a meaning for links that run in a
circle or into another list, as mutated code leaves them. `Path` has the same nodes in
the order in which the loop comes by them.

### CircQue

`front` and `next_in` are sequences: all the stores that the index's one reader
may still load, the first being the last it did load, the last what its writer
sees. A load (`LoadOf`) drops stores from the front, by coherence. With the basic
abstractor (`lock_free` is FALSE, chosen once in `Init`) a store replaces the sequence. `% IndexMod` is the
conversion to `index_t`. Construction and publication of an element, and its
destruction and removal, are separate steps. `pusher` and `popper` say how far the
two sides are, and the guards `RoomKnown` and `SizeKnown > 0` are the documented
preconditions: what the caller's own last `size()` showed.

### BidirList, ListOps, List, SequenceList

The state is what is stored: ends and links. `owner` is what the calling code
knows (in which list it has put an element); the code keeps no such thing, and
the preconditions are stated with it. Links of unused elements have any value
at first and keep stale ones later. `ListOps` has the functions of `list.h` as
operators on a storage record, so that `List` and `HashTable` share them. What a
loop along the links looks for (the element before another, the last one) is sought in
`Visited`, the elements such a loop comes by; that it comes by the right ones, and to
an end, is `ChainIsContents`. `Chain` gives them in their order, for the refinement, and
`Walk` does so for either direction of a doubly linked list.

### HashTable

`heap` is the storage of the buckets, `keyOf` the keys of the elements in the
table. `hv` and `curr` are the fields of one iterator; `valid`, `visited` and
`stayed` are history that its properties need. Index values wrap at `IndexMod`.

### AvlOps, AvlTree

A side is -1 or 1, so each pair of mirrored code blocks is one definition. Way
down, arrays `branch` and `path_h` are sequences, and the loop that goes down is `Way`,
which follows whatever function of the nodes it is given (`Toward` for a search,
the children on one side in `Along`). `SetPlace` is `set_less()`, `set_greater()` or
the store to `root`, whichever holds the handle at a place of the way. `remove()` keeps
its way back in the links of the nodes on it, reversed, and restores them as it climbs:
the model climbs along the sequence `path`, a round (`Climb`) per node, with the same
changes to the tree once the call has returned. A `build()` is modelled with its two
inner loops and the stack linked through greater children: a `Round` is one turn of
either, and `Build` takes as many of them as the nodes can need.

`AvlTree` puts the operators to use with one iterator; `March` is the loop of
`avl_ex1.cpp` that frees the nodes as it goes, after which the freed memory is not what
it was. `StoredBf` is what the caller's abstractor makes of a balance factor it is given
over an old one: that factor, by the assumption `GivesBack` of `AvlTree`, but not for
`IpAddrCnt`, which extends `AvlOps` only. Loops are recursive functions, so that the
proofs can be about these operators.

### IpAddrCnt

`see()` of `avl_ex2.cpp`: a search for the address and, if it is not there, an
`insert()` of the next node of the array, or a count. `RobbedBits` is the
abstractor's `set_balance_factor()`, bit by bit. `FactorReadBack` compares what can be
read back with the depths of the subtrees.

### ModulusHash

One call of the recursion, or one return from it, is a step: `Deeper` and `Innermost`
on the way in, with the coefficient each level has been compiled with, and `Add` on
the way out, which accumulates products and sums in `product_t`. `CoeffProduct` and
`NextCoeff` are the recursion of `modulus_hash_coeff`. `product_t` wraps at `ProductLimit` and the
segment count, an `unsigned`, at `CountLimit`. `value` and `overflow` are history: the number
the segments write, and whether anything has wrapped.

## 3. The runs

| run | configuration | instance | checks |
|---|---|---|---|
| mutex_safety | `MutexSafety.cfg` | 3 threads, all operations each | inductive invariant, mutual exclusion, the code's own claims, state machine, refinement of `SharedMutex` and `ThreadDataSet` |
| mutex_liveness | `MutexLiveness.cfg` | 1 seeker, 2 readers | `NoSilentStall`, `SeekerServed`, `CallsReturn` |
| mutex_stall_try_lock | `MutexStallTryLock.cfg` | a `lock()`, a `try_lock()`, a reader | `NoSilentStall` fails |
| mutex_stall_notify | `MutexStallNotify.cfg` | two threads in `lock()`, a reader | `NoSilentStall` fails |
| queue | `CircQue.cfg` | 3 slots used, `IndexMod` 4, basic and lock free | invariant, races, sizes, refinement of `BoundedQueue`, the waiting loops end |
| bidir_list | `BidirList.cfg` | 2 lists, 3 elements | shape, both walks, refinement of `SequenceList` |
| list | `List.cfg` | 2 lists, one of them storing its tail, 4 elements | tail, contents, refinement of `SequenceList` |
| hash_table | `HashTable.cfg` | 3 keys, 3 elements, 3 buckets | buckets, iteration, refinement of `KeyedTable` |
| avl_tree | `AvlTree.cfg` | 7 keys, one of them twice; 11 or 12 nodes | shape, depth, searches, iteration, last iteration |
| ip_addr_cnt | `IpAddrCnt.cfg` | 7 addresses, 6 nodes | `FactorReadBack` fails |
| modulus_hash | `ModulusHash.cfg` | 4 segments of 2 bits, moduli and counts up to 7, 5 bits for products | the value, the segments, overflow |
| ptd_list | `PtdList.cfg` | 3 threads, any initial links | walks stay inside and end, nothing is used after its end, refinement of `ThreadDataSet` |

Why the bounds are enough to mean something. Three threads give the mutex a
holder, a seeker and a reader at once, and one seeker a reader that leaves while
another comes. With `IndexMod = 4` a queue of three has not one
index value to spare, and it wraps around in four pushes. Three or four elements
give a list with a middle, and another to move elements to. The hash table has a
bucket with two keys, an empty one between two others, and an index type that
wraps to the first bucket. Seven keys give each kind of rotation and every shape
of depth three; twelve nodes is the least number with which one `remove()`
rotates twice on its way to the root. Both are in one run: the specification of
`MCAvlTree` tries every operation over the seven keys, and the changing ones on what
`build()` makes of eleven or twelve (trees of fewer it covers in kind). A VIEW leaves
out the fields of nodes that are not in the tree: they are written by every
operation that puts a node in before anything reads them, and some other value of
them leads to no other state. Three threads give the list of per-thread data a
member that is unlinked between two others while a third scans. Four segments are
more than the templates' base case and its neighbours, and a modulus up to 7 over
segments up to 3 uses the five bits that the documented widths ask for (2 for a
segment, 3 for the modulus) to the last.

CHECK_DEADLOCK is off for `modulus_hash`, whose function returns, and for `ptd_list`,
where nothing is left to do once the mutex and the threads have ended.

### What the code does otherwise than it says

Three runs end in a counterexample on purpose.

* `mutex_stall_try_lock`: thread A is asleep in `lock()` with `uniq` at *want*
  while R holds a shared lock. B calls `try_lock()`, finds R's flag and stores
  *no* (`ru_shared_mutex.cpp:153`). R releases, sees no announcement and wakes
  nobody: A sleeps on, with the mutex free.
* `mutex_stall_notify`: A's `unlock()` has notified B in `lock()` but not yet
  cleared `notify_uniq_cond`. B wakes, announces, and sees the flag of R in
  `blocking_lock_shared()`, so it sleeps again. R lowers its flag, finds
  `notify_uniq_cond` set, skips its notification (`ru_shared_mutex.cpp:262`) and
  sleeps. A clears the flag and goes: both B and R sleep for good.

* `ip_addr_cnt`: the abstractor's `set_balance_factor(h, 1)` (`avl_ex2.cpp:95`) sets the
  bit of the magnitude and leaves that of the sign as it was. The double rotations of
  `balance()` (`avl_tree.h:590` and `:643`) take a node from -1 to 1 without a 0 in
  between, and it reads back -1. Seeing the addresses 2, 1, 5, 4, 6, 3 does it.

Both stalls end with the next call that notifies, if there is one. They need two
threads that ask for unique locks, which is why `mutex_liveness` has one (it also
calls `try_lock()`): with one, there is no stall.

Three comments say more than the code does, with no harm to its callers. The list
of transitions at `ru_shared_mutex.cpp:41` is not the whole of them:
`MutexStateMachine` has the 15 documented ones (`DocumentedPairs`) and the 7 others
that the code makes (`OtherPairs`). By `ru_shared_mutex.h:34` waiting unique locks
always take priority over waiting shared locks, but a reader that takes `uniq_mtx`
first after an `unlock()` gets its lock. By `ru_shared_mutex.h:158` a thread that set
`uniq` to *want* keeps `uniq_mtx` until it is back at *no*, but the wait of `lock()`
gives it up.

## 4. Fairness

*RuSharedMutex, FairSpec*: strong fairness of each thread's steps inside an
operation and of its release. A thread runs whenever it can; one that finds a
mutex free again and again gets it in the end, as any reasonable mutex does; lock
holders release. No new calls are assumed, and no spurious wakeup, of which there
are only finitely many: a sleeping reader that wakes spuriously raises its flag
again, and if it wakes without end it may do so in time for each scan of a seeker. `CallsReturn` is about times
after which no unique lock is asked for any more, because readers do starve under
a steady stream of `lock()`.

*CircQue, FairSpec*: a spinning thread runs and a store becomes visible in finite
time ([atomics.order] asks for it), so a load of the latest value happens in the
end; the popping code pops what it sees and looks again, so an element does not
stay for ever. The pushing code need not push.

*PtdList, FairSpec*: weak fairness of the steps of a thread that is in a walk or has
the list's mutex: it goes on. Nothing is assumed of when a thread starts a walk, gets the
mutex or ends. `WalksEnd` is that each walk then ends.

The other models have safety properties only: their code runs to the end in the
caller's thread.

## 5. What is proved

For all values of the constants that the named assumptions allow:

* **RuSharedMutexProofs** (`CallersAssumption`: the callers are threads, `Nobody`
  is none; the set of threads may be infinite). `MutexInv` is inductive. Mutual
  exclusion by itself is not: it needs `ScanInv`, by which every reader inside is
  among the flags a seeker has yet to read, and that needs `UniqInv` (*want* is not
  taken back during a scan, as its owner has `uniq_mtx`: `OwnerInv`) and `FlagInv`
  (flags tell where the readers are). `NotifyInv` and `ListInv` carry the claims about
  `notify_one()` and ended threads. There is one lemma per operation. The refinement
  of `SharedMutex` goes operation by operation, too: each step is a stutter or
  the abstract step at the point where the lock changes hands.
* **CircQueProofs** (`QueueAssumption`: `max_num_elems` fits in `index_t`).
  `QueueInv` is inductive. `FrontInv` and `NextInInv` say how far each store the
  reader may still load lies behind the index; with the spare slot they give
  `NoSlotRace` and `SizesConservative`, and `DataInv` the refinement of
  `BoundedQueue`, for the lock-free and the basic queue alike.
* **ListProofs** (`ListOpsAssumption`). First what links are: `IsPath(q, Node, next, first)`
  says that they run along `q`: from `first` to its first node, from each to the next, from
  the last out of `Node`, and by no node twice. There is at most one such sequence and `Path`
  is it (`PathIs`), by an induction along it with a least counterexample, which `LeastNatural`
  gets from the well-foundedness of finite sets. `PathInsert` and `PathRemove` say which links
  have to change for a node to be put in at a place or taken out.
  `Sound(s, own)`: in the storage `s` the links of each
  list run along a sequence of exactly the elements that are in it by `own`, and a
  stored tail is the last of it. The operations come down to two changes (put in at a
  place, take out at a place), and each operator of `ListOps` keeps `Sound` and leaves
  the sequence with that change made (`Becomes`).
  `Sound(heap, owner)` is then the inductive invariant of `List`, and gives `TailIsLast`,
  `ChainIsContents` and the refinement of `SequenceList`.
* **BidirListProofs** (`ListAssumption`). `ListShape` is not inductive: a `pop()` of
  an element without a successor empties the list, so there must be nothing else
  in it. `LinesInv` says that the forward links of each list run along a sequence of
  exactly its elements, the reverse links along its mirror image, which determines both
  ends. Both directions of an operation are one lemma, for a list as it is seen in direction
  `d` (`Facing`): to put in after an element one way is to put in before it the other
  way. `ListShape`, `ListedNotDetached` (an element is not its own successor on a path)
  and `WalksMirror` follow, and so does the refinement of `SequenceList`, because
  `PathInsert` and `PathRemove` name the sequence that an operation leaves.
* **PtdListProofs** (`NullAssumption`). If the members of a list have
  ranks that the links follow without leaving one out, a loop from a member comes by
  those of no less rank (`OnwardByRank`). `PtdInv` has such ranks for the list, and a
  destructor that looks for its own data at a place of no greater rank (`Ahead`);
  during the end of the mutex the ranks are those of what is left. From it
  `WalksStayInside`, `NoUseAfterEnd`, and by `OnwardByRank` that what a scan has yet to
  read loses exactly the member it has read: the refinement of `ThreadDataSet`.
  `RuSharedMutexProofs` has the same abstract specification for the mutex.
* **HashTableProofs** (`HashTableAssumption`). The same lemmas with the bucket of an
  element's key for its list: `TableInv`. It gives `BucketsHoldKeys`; with one element
  per key a search finds it, whence the refinement of `KeyedTable`. For the iterator,
  `Ahead` is what is yet to come to: what is later in the iterator's bucket, and all of
  later buckets. `IterInv`: nothing visited is ahead, and whatever stayed in the table is
  visited or ahead. An `insert()` may put an element on either side of the iterator and a
  removal takes one out of `Ahead` or none; `Advance` takes its first. Hence
  `IterationComplete` and `NoRevisit`.
* **ModulusHashProofs** (`HashAssumption` and the widths, as hypotheses of the theorems
  that need them). The invariant says of which segments the sum so far is the value,
  modulo the modulus, and bounds it; `HashRight`, `RightSegments`, and `NoOverflow` under the
  documented widths.
* **AvlProofs** (`AvlAssumption`: finitely many nodes, `null` none of them, keys are natural
  numbers; `GivesBack`: the abstractor gives back the balance factor it was given). The
  properties themselves are not inductive. `AvlShape` is stated by walks over the whole tree,
  which say nothing of a tree with a subtree cut out of it, and it is silent during a last
  iteration, when what is left is no tree. The invariant `AvlInv` is that there is a tree `o`
  (`Tended`), the one the caller has built, that holds exactly the nodes in `inside` (`Holds`),
  that the iterator is null or on a way down `o` (`Roams`: each node of its path a child of
  the one before it on the side its `branch` says), and that the storage is `o`, but for the
  nodes that a last iteration has passed, which are those it has freed.

  *Trees.* `Avl(t, h, S, d)`: below `h` is an AVL tree of the nodes in `S`, of depth `d`. Its
  witnesses are two functions of the nodes, the set below each and its depth, that fit
  together at every node: a definition without recursion, to which an induction on
  the depth or on a set applies (`Split` takes a tree apart, `Join` puts one together,
  `Frame` leaves it as it is when no node of it changes).

  *Ways.* What an operation does along its way is stated with a `Spine`: the nodes and sides
  of the way and, at each place, the set and the depth of what is below and of what hangs off
  it. `Hangs(t, v, i)` is a tree complete but for what is below place `i`, and `Filled` says
  that an AVL tree, of the depth given, is there. A hole filled with a tree of the old depth
  makes the tree whole (`Lifted`), and otherwise it is filled one place further up: that is a
  round of the climb of `remove()`, at whichever level it rotates (`ClimbSound`; `ClimbedSound`
  for the whole climb), and what `insert()` does at the last node that leans (`InsertTop`, and
  `InsertedSound` for all of the insertion). A rotation is `BalanceSound`,
  single or double, towards either side, with what it does to the depth.

  *Operations.* `InsertSound`, `RemoveSound`, `SubstSound` and `BuildSound` say what each leaves
  of any tree, `build()` by an induction on the subtrees its rounds complete, with their
  depths from the binary digits of their sizes. `SearchAnswers`: the nodes that a search has left behind are
  further from the key than the last one that would do. `StepIs`: `++` goes to the least of the
  nodes beyond, found below the node or as the last turn on the path, and it looks at nothing
  that a last iteration has freed. Hence
  `AvlShape` (`OrderIs` and `DepthIs` tie the walks of that property to `Avl`),
  `DepthWithinTable` (`MNSound`), `SearchesRight`, `IterInOrder` and `MarchFreesAll`.

`RuSharedMutexProofs` proves `MutexStateMachine` too, each of the 22 transitions in
the lemma of its operation, and `NoSilentStall` under the hypothesis `OneSeeker`: at
most one thread asks for unique locks, with any number of readers. With two it is false, as
two of the runs show. Its invariant is `WakeInv`, over `MutexInv`: while the seeker sleeps in
`lock()`, or is about to, *want* stays (`WantInv`) and some reader has its flag up or has not yet
done with its notification (`DutyInv`); `notify_uniq_cond`, for which a reader skips that, is only
set by a thread that is still at it (`CasInv`); and while readers sleep, or are about to, the
seeker has its notification of them still to come (`PromiseInv`).

Only model-checked: liveness (`SeekerServed`, `CallsReturn`, `FullWaitEnds`,
`EmptyWaitEnds`, `WalksEnd`) and deadlock freedom, which the provers do not reach. The
inductive invariants `AvlInv` and `PtdInv` begin with "there is a tree" and "there are ranks",
over sets that TLC cannot enumerate: what TLC checks is what follows from them.

## 6. Not modelled

* Failing reads (`read_error()`) of the AVL tree, after which nothing is promised.
* `dump()` of `avl_ex2.cpp`, which reads the tree with the iterator that `AvlTree` has.
* `crc32`, `fnv_hash`: table-driven arithmetic on 32-bit words without state, compared
  with published values by the tests; `util.h`: pointer layout.
* Exceptions of an abstractor: the repository's README leaves the structure
  undefined after one.
* An abstractor of the queue that blocks, which the repository describes and does not
  have.

## 7. Plan

The mutex with its list, the queue, the lists, the hash table, the tree, its example
and the modulus hash are modelled, those with an abstract specification refine it, and all
of their safety properties are proved. What could be added is an abstractor whose reads fail:
which links a `remove()` of the tree that gives up on its way leaves reversed.
