------------------------------ MODULE PtdList -------------------------------
(* The list of per-thread data of a ru_shared_mutex (ru_shared_mutex.cpp):   *)
(* its links, the walks along them under the list's shared mutex, and the    *)
(* end of the mutex in static destruction.  RuSharedMutex has the threads'   *)
(* other steps and this list as a set; here the threads do with their flags  *)
(* what they like.  A per_thread_data_ is named by its thread, and so is its *)
(* successor when a thread has ended and another has begun.                  *)
(*                                                                           *)
(* A few operators, like UnlinkNext, are no part of the model: each is the   *)
(* operator after it with a bug, kept to show which property notices.        *)
EXTENDS Links

CONSTANTS Thread,   \* the threads
          Null      \* the null pointer; as a place, the head of the list

ASSUME NullAssumption == Null \notin Thread

VARIABLES
    head,           \* data::thread_data_list_head
    link,           \* per_thread_data_::link of each thread
    mutex_data,     \* whether each thread's per_thread_data_ points to data
    sharing,        \* per_thread_data_::sharing of each thread
    list_mtx,       \* exclusive owner of data::thread_data_list_mtx, or Null
    pc,             \* control point of each thread
    ptr,            \* 'ptr' of a walk: a member, or in the destructor a place
    alive           \* whether data still exists

listVars == <<head, link, mutex_data>>
vars == <<listVars, sharing, list_mtx, pc, ptr, alive>>

Pointer == Thread \cup {Null}

\* *place: the pointer at a place.
At(place) == IF place = Null THEN head ELSE link[place]

\* The link of a new per_thread_data_ is not initialized.
Init ==
    /\ head = Null
    /\ link \in [Thread -> Pointer]
    /\ mutex_data = [t \in Thread |-> FALSE]
    /\ sharing = [t \in Thread |-> FALSE]
    /\ list_mtx = Null
    /\ pc = [t \in Thread |-> "idle"]
    /\ ptr = [t \in Thread |-> Null]
    /\ alive = TRUE

Goto(t, from, to) == pc[t] = from /\ pc' = [pc EXCEPT ![t] = to]

ListFree == list_mtx = Null /\ \A t \in Thread : pc[t] # "scan"

\* add_to_ptd_linked_list() waits for the list's mutex, or returns without it
\* when it is not to block.
LockToAdd(t) ==
    /\ alive /\ ~mutex_data[t]
    /\ Goto(t, "idle", "add")
    /\ ListFree /\ list_mtx' = t
    /\ UNCHANGED <<listVars, sharing, ptr, alive>>

LinkAgain(t) ==
    /\ Goto(t, "add", "idle")
    /\ link' = [link EXCEPT ![t] = head]
    /\ head' = t
    /\ mutex_data' = mutex_data
    /\ list_mtx' = Null
    /\ UNCHANGED <<sharing, ptr, alive>>

Link(t) ==
    /\ Goto(t, "add", "idle")
    /\ link' = [link EXCEPT ![t] = head]
    /\ head' = t
    /\ mutex_data' = [mutex_data EXCEPT ![t] = TRUE]
    /\ list_mtx' = Null
    /\ UNCHANGED <<sharing, ptr, alive>>

\* Any store to the flag, by a thread that is in the list.
SetSharing(t) ==
    /\ alive /\ pc[t] = "idle" /\ mutex_data[t]
    /\ sharing' = [sharing EXCEPT ![t] = ~@]
    /\ UNCHANGED <<listVars, list_mtx, pc, ptr, alive>>

\* all_sharing_flags_false()
BeginScan(t) ==
    /\ alive /\ Goto(t, "idle", "scan")
    /\ list_mtx = Null
    /\ ptr' = [ptr EXCEPT ![t] = head]
    /\ UNCHANGED <<listVars, sharing, list_mtx, alive>>

ReadFlag(t) ==
    /\ ptr[t] # Null
    /\ Goto(t, "scan", IF sharing[ptr[t]] THEN "idle" ELSE "scan")
    /\ ptr' = [ptr EXCEPT ![t] = IF sharing[@] THEN Null ELSE link[@]]
    /\ UNCHANGED <<listVars, sharing, list_mtx, alive>>

EndScan(t) ==
    /\ ptr[t] = Null
    /\ Goto(t, "scan", "idle")
    /\ UNCHANGED <<listVars, sharing, list_mtx, ptr, alive>>

\* ~per_thread_data_(), of a thread that holds no lock: nothing is done when
\* mutex_data is null, and the next thread has another per_thread_data_.
LockToUnlinkShared(t) ==
    /\ mutex_data[t] /\ ~sharing[t]
    /\ Goto(t, "idle", "unlink")
    /\ list_mtx = Null /\ list_mtx' = t
    /\ ptr' = [ptr EXCEPT ![t] = Null]
    /\ UNCHANGED <<listVars, sharing, alive>>

LockToUnlink(t) ==
    /\ mutex_data[t] /\ ~sharing[t]
    /\ Goto(t, "idle", "unlink")
    /\ ListFree /\ list_mtx' = t
    /\ ptr' = [ptr EXCEPT ![t] = Null]
    /\ UNCHANGED <<listVars, sharing, alive>>

WalkOver(t) ==
    /\ pc[t] = "unlink" /\ At(ptr[t]) # t
    /\ ptr' = [ptr EXCEPT ![t] = link[At(@)]]
    /\ UNCHANGED <<listVars, sharing, list_mtx, pc, alive>>

Walk(t) ==
    /\ pc[t] = "unlink" /\ At(ptr[t]) # t
    /\ ptr' = [ptr EXCEPT ![t] = At(@)]
    /\ UNCHANGED <<listVars, sharing, list_mtx, pc, alive>>

\* *place = (*place)->link; what the memory of t holds next is any pointer.
UnlinkNext(t, place) ==
    \E p \in Pointer :
        IF place = Null \/ link[t] = Null
        THEN head' = link[t] /\ link' = [link EXCEPT ![t] = p]
        ELSE head' = head /\ link' = [link EXCEPT ![place] = link[link[t]], ![t] = p]

Unlinked(t, place) ==
    \E p \in Pointer :
        IF place = Null
        THEN head' = link[t] /\ link' = [link EXCEPT ![t] = p]
        ELSE head' = head /\ link' = [link EXCEPT ![place] = link[t], ![t] = p]

Unlink(t) ==
    /\ At(ptr[t]) = t
    /\ Goto(t, "unlink", "idle")
    /\ Unlinked(t, ptr[t])
    /\ mutex_data' = [mutex_data EXCEPT ![t] = FALSE]
    /\ list_mtx' = Null
    /\ ptr' = [ptr EXCEPT ![t] = Null]
    /\ UNCHANGED <<sharing, alive>>

\* data::~data(), which "assumes static destruction is single threaded": no
\* other thread is inside an operation or takes a step meanwhile.  Threads may
\* still end afterwards.
BeginDestroy(t) ==
    /\ alive /\ \A u \in Thread : pc[u] = "idle" /\ ~sharing[u]
    /\ Goto(t, "idle", "destroy")
    /\ ptr' = [ptr EXCEPT ![t] = head]
    /\ UNCHANGED <<listVars, sharing, list_mtx, alive>>

ClearFirst(t) ==
    /\ pc[t] = "destroy" /\ ptr[t] # Null
    /\ mutex_data' = [mutex_data EXCEPT ![ptr[t]] = FALSE]
    /\ ptr' = [ptr EXCEPT ![t] = Null]
    /\ UNCHANGED <<head, link, sharing, list_mtx, pc, alive>>

Clear(t) ==
    /\ pc[t] = "destroy" /\ ptr[t] # Null
    /\ mutex_data' = [mutex_data EXCEPT ![ptr[t]] = FALSE]
    /\ ptr' = [ptr EXCEPT ![t] = link[@]]
    /\ UNCHANGED <<head, link, sharing, list_mtx, pc, alive>>

EndDestroy(t) ==
    /\ ptr[t] = Null
    /\ Goto(t, "destroy", "idle")
    /\ alive' = FALSE
    /\ UNCHANGED <<listVars, sharing, list_mtx, ptr>>

Walks(t) ==
    \/ Link(t) \/ ReadFlag(t) \/ EndScan(t) \/ Walk(t) \/ Unlink(t)
    \/ Clear(t) \/ EndDestroy(t)

Starts(t) ==
    \/ LockToAdd(t) \/ SetSharing(t) \/ BeginScan(t) \/ LockToUnlink(t)
    \/ BeginDestroy(t)

Next ==
    \E t \in Thread :
        \/ Walks(t)
        \/ (\A u \in Thread : pc[u] # "destroy") /\ Starts(t)

Spec == Init /\ [][Next]_vars

\* A thread that has the list's mutex goes on.
FairSpec == Spec /\ \A t \in Thread : WF_vars(Walks(t))

-----------------------------------------------------------------------------
Registered == {t \in Thread : mutex_data[t]}

\* The members from a pointer on, along the links.
From(p) == Onward(Thread, link, p)

TypeOK ==
    /\ head \in Pointer /\ link \in [Thread -> Pointer]
    /\ mutex_data \in [Thread -> BOOLEAN] /\ sharing \in [Thread -> BOOLEAN]
    /\ list_mtx \in Pointer /\ alive \in BOOLEAN
    /\ pc \in [Thread -> {"idle", "add", "scan", "unlink", "destroy"}]
    /\ ptr \in [Thread -> Pointer]

\* Nobody follows a link out of the list, into the data of a thread that has
\* ended or of one that is not in yet: no scan, and no destructor, which looks
\* for itself without a test for the end of the list and never comes to it
\* (all_sharing_flags_false(), while (*ptr != this) in ~per_thread_data_()).
WalksStayInside ==
    /\ TypeOK
    /\ \A t \in Thread :
          pc[t] \in {"scan", "unlink"} => ptr[t] = Null \/ mutex_data[ptr[t]]
    /\ \A t \in Thread : pc[t] = "unlink" => At(ptr[t]) # Null

\* No step of a thread uses the data of a mutex that static destruction has
\* ended, whichever threads end after it and in whatever order they had come
\* and gone before ("the C++ static destruction fiasco" in ~data()).
NoUseAfterEnd ==
    ~alive => \A t \in Thread : pc[t] = "idle"

\* Every walk along the links comes to its end: no thread is sent round in a
\* circle (the loops of ~per_thread_data_(), ~data() and
\* all_sharing_flags_false()).
WalksEnd == \A t \in Thread : pc[t] # "idle" ~> pc[t] = "idle"

\* What a scan has yet to read: what the links lead to from where it is.
Unread(t) == IF pc[t] = "scan" THEN From(ptr[t]) ELSE {}

Scanning == {t \in Thread : pc[t] = "scan"}

TDS == INSTANCE ThreadDataSet WITH
    registered <- Registered,
    scanning <- Scanning,
    unread <- [t \in Thread |-> Unread(t)]

\* The list keeps the promise RuSharedMutex is built on: its links lead to
\* exactly the threads whose data says it is in, and a scan reads the flag
\* of every thread that was in the list when it began, each of them once, up
\* to the first that is set, and of no other.
ImplementsThreadDataSet == TDS!Spec
=============================================================================
