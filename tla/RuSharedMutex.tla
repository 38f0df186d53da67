--------------------------- MODULE RuSharedMutex ---------------------------
(***************************************************************************)
(* The rarely-unique shared mutex: ru_shared_mutex.h (the inline fast      *)
(* paths) and ru_shared_mutex.cpp (struct impl).                           *)
(*                                                                         *)
(* One instantiation of ru_shared_mutex::c and the threads that use it.    *)
(* Every access to an atomic, every operation on a mutex or a condition    *)
(* variable and every read of one sharing flag is a step of its own.  The  *)
(* accesses to 'uniq' and 'sharing' are the sequentially consistent        *)
(* defaults of std::atomic, so their interleavings are all there is.       *)
(* The L() locations of the source name the control points where one       *)
(* exists: "LU2" is the point L(LU2).                                      *)
(*                                                                         *)
(* The linked list of per-thread data is a set here; a scan reads its      *)
(* members in any order, a superset of the one order the links give.       *)
(*                                                                         *)
(* A few operators, like UnlockLate, are no part of the model: each is the *)
(* operator after it with a bug, kept to show which property notices.      *)
(***************************************************************************)

CONSTANTS
    Thread,       \* the threads
    Nobody,       \* the owner of a free mutex
    Lockers,      \* the threads whose code calls lock()
    TryLockers,   \* ... try_lock()
    Sharers,      \* ... lock_shared()
    TrySharers    \* ... try_lock_shared()

ASSUME CallersAssumption ==
    /\ Nobody \notin Thread
    /\ Lockers \subseteq Thread /\ TryLockers \subseteq Thread
    /\ Sharers \subseteq Thread /\ TrySharers \subseteq Thread

VARIABLES
    pc,                  \* control point of each thread
    uniq,                \* data::uniq
    uniq_mtx,            \* owner of data::uniq_mtx
    notify_uniq_cond,    \* data::notify_uniq_cond
    wait_shared_cond,    \* threads asleep in data::wait_shared_cond
    wait_uniq_cond,      \* threads asleep in data::wait_uniq_cond
    list_mtx,            \* exclusive owner of data::thread_data_list_mtx
    registered,          \* threads whose per_thread_data_ is in the list
    sharing,             \* per_thread_data_::sharing of each thread
    unread               \* list members a scan of this thread has yet to read

mutexVars == <<uniq, uniq_mtx>>
condVars  == <<notify_uniq_cond, wait_shared_cond, wait_uniq_cond>>
listVars  == <<list_mtx, registered>>
vars      == <<pc, mutexVars, condVars, listVars, sharing, unread>>

(***************************************************************************)
(* Control points.                                                         *)
(***************************************************************************)
ScanPoints == {"LU2scan", "TU1scan", "US_scan", "US5scan"}

LockPoints     == {"LU0", "LU1", "LU2", "LU2scan", "LU3", "LU_wait", "LU_cv"}
TryLockPoints  == {"TU", "TU_want", "TU1", "TU1scan", "TU3", "TU_no", "TU_unlock"}
UnlockPoints   == {"UU_all", "UU_unlock", "UU1", "UU1one", "UU1clear"}
SharePoints    == {"LS_add", "LS_link", "LS_set", "LS0", "LS2", "LS_test",
                   "LS3", "LS_cas", "LS_one", "LS_clear", "LS_wait", "LS_cv",
                   "LS_again", "LS4"}
TrySharePoints == {"TS_add", "TS_link", "TS_set", "TS0", "TS1"}
UnsharePoints  == {"US1", "US_chk", "US_scan", "US4", "US4one", "US4clear",
                   "US5", "US5chk", "US5scan"}
ExitPoints     == {"DP_lock", "DPTD"}

Points == {"idle", "unique", "shared"} \cup LockPoints \cup TryLockPoints
            \cup UnlockPoints \cup SharePoints \cup TrySharePoints
            \cup UnsharePoints \cup ExitPoints

TypeOK ==
    /\ pc \in [Thread -> Points]
    /\ uniq \in {"no", "want", "yes"}
    /\ uniq_mtx \in Thread \cup {Nobody}
    /\ notify_uniq_cond \in BOOLEAN
    /\ wait_shared_cond \in SUBSET Thread
    /\ wait_uniq_cond \in SUBSET Thread
    /\ list_mtx \in Thread \cup {Nobody}
    /\ registered \in SUBSET Thread
    /\ sharing \in [Thread -> BOOLEAN]
    /\ unread \in [Thread -> SUBSET Thread]

\* No thread has touched the mutex: data and every per_thread_data_ are as
\* their member initializers leave them.
Init ==
    /\ pc = [t \in Thread |-> "idle"]
    /\ uniq = "no"
    /\ uniq_mtx = Nobody
    /\ notify_uniq_cond = FALSE
    /\ wait_shared_cond = {}
    /\ wait_uniq_cond = {}
    /\ list_mtx = Nobody
    /\ registered = {}
    /\ sharing = [t \in Thread |-> FALSE]
    /\ unread = [t \in Thread |-> {}]

-----------------------------------------------------------------------------
(***************************************************************************)
(* Steps shared by several operations.                                     *)
(***************************************************************************)
Goto(t, point) == pc' = [pc EXCEPT ![t] = point]

Move(t, from, to) == pc[t] = from /\ Goto(t, to)

\* std::mutex::lock() of uniq_mtx, and its unlock().
Acquire(t, point, next) ==
    /\ Move(t, point, next)
    /\ uniq_mtx = Nobody
    /\ uniq_mtx' = t
    /\ UNCHANGED <<uniq, condVars, listVars, sharing, unread>>

ReleaseMtx(t, point, next) ==
    /\ Move(t, point, next)
    /\ uniq_mtx' = Nobody
    /\ UNCHANGED <<uniq, condVars, listVars, sharing, unread>>

SetUniq(t, point, value, next) ==
    /\ Move(t, point, next)
    /\ uniq' = value
    /\ UNCHANGED <<uniq_mtx, condVars, listVars, sharing, unread>>

SetSharing(t, point, value, next) ==
    /\ Move(t, point, next)
    /\ sharing' = [sharing EXCEPT ![t] = value]
    /\ UNCHANGED <<mutexVars, condVars, listVars, unread>>

\* Load uniq: to 'yes' when it has one of the values, else to 'no'.
TestUniq(t, point, values, yes, no) ==
    /\ Move(t, point, IF uniq \in values THEN yes ELSE no)
    /\ UNCHANGED <<mutexVars, condVars, listVars, sharing, unread>>

\* The list's shared mutex is held shared exactly by the threads in a scan.
Scanning == {t \in Thread : pc[t] \in ScanPoints}

ListFreeOfWriters == list_mtx = Nobody

ListFree == list_mtx = Nobody /\ Scanning = {}

\* all_sharing_flags_false(): lock the list shared, read one flag at a time,
\* stop at the first that is set.  The std::shared_lock goes with the return.
BeginScan(t, point, scan) ==
    /\ Move(t, point, scan)
    /\ list_mtx = Nobody
    /\ unread' = [unread EXCEPT ![t] = registered]
    /\ UNCHANGED <<mutexVars, condVars, listVars, sharing>>

ReadFlag(t, scan, someSet) ==
    \E u \in unread[t] :
        /\ Move(t, scan, IF sharing[u] THEN someSet ELSE scan)
        /\ unread' = [unread EXCEPT ![t] = IF sharing[u] THEN {} ELSE @ \ {u}]
        /\ UNCHANGED <<mutexVars, condVars, listVars, sharing>>

EndScanEarly(t, scan, allFalse) ==
    /\ Move(t, scan, allFalse)
    /\ UNCHANGED <<mutexVars, condVars, listVars, sharing, unread>>

EndScan(t, scan, allFalse) ==
    /\ Move(t, scan, allFalse)
    /\ unread[t] = {}
    /\ UNCHANGED <<mutexVars, condVars, listVars, sharing, unread>>

\* What is left of all_sharing_flags_false() once the list is locked.
Scan(t, scan, allFalse, someSet) ==
    ReadFlag(t, scan, someSet) \/ EndScan(t, scan, allFalse)

\* notify_uniq_cond(): only the thread whose compare_exchange succeeds calls
\* notify_one(); a thread that finds the flag set returns at once.
NotifyAlways(t, cas, one, next) ==
    /\ Move(t, cas, one)
    /\ notify_uniq_cond' = TRUE
    /\ UNCHANGED <<mutexVars, wait_shared_cond, wait_uniq_cond, listVars,
                   sharing, unread>>

NotifyCas(t, cas, one, next) ==
    /\ Move(t, cas, IF notify_uniq_cond THEN next ELSE one)
    /\ notify_uniq_cond' = TRUE
    /\ UNCHANGED <<mutexVars, wait_shared_cond, wait_uniq_cond, listVars,
                   sharing, unread>>

NotifyOne(t, one, clear) ==
    /\ Move(t, one, clear)
    /\ \/ wait_uniq_cond = {} /\ UNCHANGED wait_uniq_cond
       \/ \E w \in wait_uniq_cond : wait_uniq_cond' = wait_uniq_cond \ {w}
    /\ UNCHANGED <<mutexVars, notify_uniq_cond, wait_shared_cond, listVars,
                   sharing, unread>>

NotifyClear(t, clear, next) ==
    /\ Move(t, clear, next)
    /\ notify_uniq_cond' = FALSE
    /\ UNCHANGED <<mutexVars, wait_shared_cond, wait_uniq_cond, listVars,
                   sharing, unread>>

NotifyUniqCond(t, cas, one, clear, next) ==
    \/ NotifyCas(t, cas, one, next)
    \/ NotifyOne(t, one, clear)
    \/ NotifyClear(t, clear, next)

\* add_to_ptd_linked_list(): the critical section, and its blocking entry.
LockList(t, point, next) ==
    /\ Move(t, point, next)
    /\ ListFree
    /\ list_mtx' = t
    /\ UNCHANGED <<mutexVars, condVars, registered, sharing, unread>>

LinkPtdKeepLock(t, point, next) ==
    /\ Move(t, point, next)
    /\ registered' = registered \cup {t}
    /\ UNCHANGED <<mutexVars, condVars, list_mtx, sharing, unread>>

LinkPtd(t, point, next) ==
    /\ Move(t, point, next)
    /\ registered' = registered \cup {t}
    /\ list_mtx' = Nobody
    /\ UNCHANGED <<mutexVars, condVars, sharing, unread>>

UnlinkPtd(t) ==
    /\ Move(t, "DPTD", "idle")
    /\ registered' = registered \ {t}
    /\ list_mtx' = Nobody
    /\ UNCHANGED <<mutexVars, condVars, sharing, unread>>

\* A non-blocking attempt on a taken mutex comes back without any effect.
GiveUp(t, point, next) ==
    /\ Move(t, point, next)
    /\ UNCHANGED <<mutexVars, condVars, listVars, sharing, unread>>

\* uniq_mtx.try_lock().  It fails only when the mutex is taken, as the tests
\* (test_ru_shared_mutex2.cpp) and the pthread implementation have it.
TryAcquire(t) ==
    /\ Move(t, "TU", IF uniq_mtx = Nobody THEN "TU_want" ELSE "idle")
    /\ uniq_mtx' = IF uniq_mtx = Nobody THEN t ELSE uniq_mtx
    /\ UNCHANGED <<uniq, condVars, listVars, sharing, unread>>

\* condition_variable::wait(): release uniq_mtx and fall asleep in one step.
WaitUniq(t) ==
    /\ Move(t, "LU_wait", "LU_cv")
    /\ uniq_mtx' = Nobody
    /\ wait_uniq_cond' = wait_uniq_cond \cup {t}
    /\ UNCHANGED <<uniq, notify_uniq_cond, wait_shared_cond, listVars,
                   sharing, unread>>

WaitShared(t) ==
    /\ Move(t, "LS_wait", "LS_cv")
    /\ uniq_mtx' = Nobody
    /\ wait_shared_cond' = wait_shared_cond \cup {t}
    /\ UNCHANGED <<uniq, notify_uniq_cond, wait_uniq_cond, listVars,
                   sharing, unread>>

NotifyAllForgotten(t, point, next) ==
    /\ Move(t, point, next)
    /\ UNCHANGED <<mutexVars, condVars, listVars, sharing, unread>>

NotifyAll(t, point, next) ==
    /\ Move(t, point, next)
    /\ wait_shared_cond' = {}
    /\ UNCHANGED <<mutexVars, notify_uniq_cond, wait_uniq_cond, listVars,
                   sharing, unread>>

-----------------------------------------------------------------------------
(***************************************************************************)
(* The operations.                                                         *)
(***************************************************************************)

\* lock(): announce, scan, and either take the lock or sleep (which releases
\* uniq_mtx) and start over.
Lock(t) ==
    \/ Acquire(t, "LU0", "LU1")
    \/ SetUniq(t, "LU1", "want", "LU2")
    \/ BeginScan(t, "LU2", "LU2scan")
    \/ Scan(t, "LU2scan", "LU3", "LU_wait")
    \/ SetUniq(t, "LU3", "yes", "unique")
    \/ WaitUniq(t)
    \/ t \notin wait_uniq_cond /\ Acquire(t, "LU_cv", "LU1")

\* try_lock(): neither uniq_mtx nor the list is waited for; a failure after
\* the announcement takes it back.
TryLock(t) ==
    \/ TryAcquire(t)
    \/ SetUniq(t, "TU_want", "want", "TU1")
    \/ BeginScan(t, "TU1", "TU1scan")
    \/ list_mtx # Nobody /\ GiveUp(t, "TU1", "TU_no")
    \/ Scan(t, "TU1scan", "TU3", "TU_no")
    \/ SetUniq(t, "TU3", "yes", "unique")
    \/ SetUniq(t, "TU_no", "no", "TU_unlock")
    \/ ReleaseMtx(t, "TU_unlock", "idle")

\* unlock(), from the return of the lock() or try_lock() it undoes.
UnlockLate(t) ==
    \/ ReleaseMtx(t, "unique", "UU_unlock")
    \/ SetUniq(t, "UU_unlock", "no", "UU_all")
    \/ NotifyAll(t, "UU_all", "UU1")
    \/ NotifyUniqCond(t, "UU1", "UU1one", "UU1clear", "idle")

Unlock(t) ==
    \/ SetUniq(t, "unique", "no", "UU_all")
    \/ NotifyAll(t, "UU_all", "UU_unlock")
    \/ ReleaseMtx(t, "UU_unlock", "UU1")
    \/ NotifyUniqCond(t, "UU1", "UU1one", "UU1clear", "idle")

\* lock_shared() up to its call of blocking_lock_shared(): the flag is set
\* before uniq is read, which is what a seeker's scan relies on.
LockSharedTestFirst(t) ==
    \/ LockList(t, "LS_add", "LS_link")
    \/ LinkPtd(t, "LS_link", "LS_set")
    \/ TestUniq(t, "LS_set", {"no"}, "LS0", "LS2")
    \/ SetSharing(t, "LS0", TRUE, "shared")

LockSharedOverWant(t) ==
    \/ LockList(t, "LS_add", "LS_link")
    \/ LinkPtd(t, "LS_link", "LS_set")
    \/ SetSharing(t, "LS_set", TRUE, "LS0")
    \/ TestUniq(t, "LS0", {"no", "want"}, "shared", "LS2")

LockShared(t) ==
    \/ LockList(t, "LS_add", "LS_link")
    \/ LinkPtd(t, "LS_link", "LS_set")
    \/ SetSharing(t, "LS_set", TRUE, "LS0")
    \/ TestUniq(t, "LS0", {"no"}, "shared", "LS2")

\* blocking_lock_shared(): give way to the seeker, sleep, try again.
BlockingLockSharedKeepFlag(t) ==
    \/ Acquire(t, "LS2", "LS_test")
    \/ TestUniq(t, "LS_test", {"no"}, "LS4", "LS_cas")
    \/ NotifyUniqCond(t, "LS_cas", "LS_one", "LS_clear", "LS_wait")
    \/ WaitShared(t)
    \/ t \notin wait_shared_cond /\ Acquire(t, "LS_cv", "LS_again")
    \/ SetSharing(t, "LS_again", TRUE, "LS_test")
    \/ ReleaseMtx(t, "LS4", "shared")

BlockingLockShared(t) ==
    \/ Acquire(t, "LS2", "LS_test")
    \/ TestUniq(t, "LS_test", {"no"}, "LS4", "LS3")
    \/ SetSharing(t, "LS3", FALSE, "LS_cas")
    \/ NotifyUniqCond(t, "LS_cas", "LS_one", "LS_clear", "LS_wait")
    \/ WaitShared(t)
    \/ t \notin wait_shared_cond /\ Acquire(t, "LS_cv", "LS_again")
    \/ SetSharing(t, "LS_again", TRUE, "LS_test")
    \/ ReleaseMtx(t, "LS4", "shared")

\* try_lock_shared(): a refusal runs unlock_shared(), from its store on.
TryLockShared(t) ==
    \/ LockList(t, "TS_add", "TS_link")
    \/ ~ListFree /\ GiveUp(t, "TS_add", "idle")
    \/ LinkPtd(t, "TS_link", "TS_set")
    \/ SetSharing(t, "TS_set", TRUE, "TS0")
    \/ TestUniq(t, "TS0", {"no"}, "shared", "TS1")
    \/ SetSharing(t, "TS1", FALSE, "US1")

\* unlock_shared() up to its call of blocking_unlock_shared().
UnlockShared(t) ==
    \/ SetSharing(t, "shared", FALSE, "US1")
    \/ TestUniq(t, "US1", {"want"}, "US_chk", "idle")

\* blocking_unlock_shared(): the last reader out keeps notifying until the
\* announcement is answered.
BlockingUnlockSharedSilent(t) ==
    \/ BeginScan(t, "US_chk", "US_scan")
    \/ Scan(t, "US_scan", "idle", "idle")

BlockingUnlockSharedOnce(t) ==
    \/ BeginScan(t, "US_chk", "US_scan")
    \/ Scan(t, "US_scan", "US4", "idle")
    \/ NotifyUniqCond(t, "US4", "US4one", "US4clear", "idle")

BlockingUnlockShared(t) ==
    \/ BeginScan(t, "US_chk", "US_scan")
    \/ Scan(t, "US_scan", "US4", "idle")
    \/ NotifyUniqCond(t, "US4", "US4one", "US4clear", "US5")
    \/ TestUniq(t, "US5", {"want"}, "US5chk", "idle")
    \/ BeginScan(t, "US5chk", "US5scan")
    \/ Scan(t, "US5scan", "US4", "idle")

\* The end of a thread that ever asked for a shared lock runs the destructor
\* of its per_thread_data_; the control point "idle" then stands for a new
\* thread with a new per_thread_data_.
DestroyPtd(t) ==
    \/ LockList(t, "DP_lock", "DPTD")
    \/ UnlinkPtd(t)

-----------------------------------------------------------------------------
(***************************************************************************)
(* The threads.  A thread inside no operation may start any that its code  *)
(* has; a holder may release; a thread may end.  Calls respect the         *)
(* protocol the status_count assertions of ru_shared_mutex.h check: no     *)
(* lock is requested by a thread that holds one.                           *)
(***************************************************************************)
Start(t, callers, point) ==
    /\ t \in callers
    /\ Move(t, "idle", point)
    /\ UNCHANGED <<mutexVars, condVars, listVars, sharing, unread>>

Call(t) ==
    \/ Start(t, Lockers, "LU0")
    \/ Start(t, TryLockers, "TU")
    \/ Start(t, Sharers, IF t \in registered THEN "LS_set" ELSE "LS_add")
    \/ Start(t, TrySharers, IF t \in registered THEN "TS_set" ELSE "TS_add")
    \/ Start(t, registered, "DP_lock")

\* condition_variable::wait() may return without a notification.
SpuriousWakeup(t) ==
    /\ \/ /\ t \in wait_uniq_cond
          /\ wait_uniq_cond' = wait_uniq_cond \ {t}
          /\ UNCHANGED wait_shared_cond
       \/ /\ t \in wait_shared_cond
          /\ wait_shared_cond' = wait_shared_cond \ {t}
          /\ UNCHANGED wait_uniq_cond
    /\ UNCHANGED <<pc, mutexVars, notify_uniq_cond, listVars, sharing, unread>>

Run(t) == \/ Lock(t) \/ TryLock(t) \/ Unlock(t)
          \/ LockShared(t) \/ BlockingLockShared(t) \/ TryLockShared(t)
          \/ UnlockShared(t) \/ BlockingUnlockShared(t)
          \/ DestroyPtd(t)

Next == \E t \in Thread : Call(t) \/ Run(t) \/ SpuriousWakeup(t)

Spec == Init /\ [][Next]_vars

\* A thread inside an operation runs whenever it can, a holder releases at
\* some time, a thread that finds uniq_mtx or the list's mutex free again and
\* again gets it at some time, and spurious wakeups come to an end.  Nothing is
\* assumed of new calls.
FairSpec ==
    /\ Spec
    /\ <>[][\A t \in Thread : ~SpuriousWakeup(t)]_vars
    /\ \A t \in Thread : SF_vars(Run(t))

-----------------------------------------------------------------------------
(***************************************************************************)
(* Safety.                                                                 *)
(***************************************************************************)
HoldsUnique(t) == pc[t] = "unique"
HoldsShared(t) == pc[t] \in {"LS4", "shared"}
Parked(t)      == t \in wait_uniq_cond \cup wait_shared_cond

\* A unique holder is alone: no second unique holder and no reader, although
\* readers enter by one store and one load and never touch uniq_mtx
\* (lock_shared() in ru_shared_mutex.h, all_sharing_flags_false()).
MutualExclusion ==
    \A t, u \in Thread :
        HoldsUnique(t) /\ t # u => ~HoldsUnique(u) /\ ~HoldsShared(u)

\* The comment in blocking_lock_shared(): a reader that found uniq other than
\* 'no' under uniq_mtx gives way to a seeker, never to a unique holder; it
\* relies on every holder keeping uniq_mtx until uniq is 'no' again.
BlockedReaderSeesWant ==
    \A t \in Thread : pc[t] \in {"LS3", "LS_cas", "LS_wait"} => uniq = "want"

\* The comment on notify_uniq_cond: no two threads are ever inside
\* wait_uniq_cond.notify_one(), whichever of the three callers each is.
NotifyExclusive ==
    \A t, u \in Thread :
        /\ pc[t] \in {"UU1one", "LS_one", "US4one"}
        /\ pc[u] \in {"UU1one", "LS_one", "US4one"}
        => t = u

\* A set sharing flag always belongs to a thread that is in the list, inside
\* an operation or holding a shared lock, and awake: a flag left behind by a
\* refused, sleeping or ended reader would keep every seeker out for ever.
NoStaleFlag ==
    \A t \in Thread :
        sharing[t] => /\ t \in registered
                      /\ pc[t] \notin {"idle", "DP_lock", "DPTD"}
                      /\ ~Parked(t)

\* A scan never reads the per_thread_data_ of a thread that has ended: the
\* destructor waits until no scan is under way, and a scan is not begun while
\* a destructor is at work.
ScanReadsLive ==
    \A t \in Thread : pc[t] \in ScanPoints => unread[t] \subseteq registered

\* Not every thread that is inside an operation is asleep: someone is left
\* who can still notify.
NoSilentStall ==
    (\E t \in Thread : Parked(t)) =>
        \E t \in Thread : ~Parked(t) /\ pc[t] # "idle"

(***************************************************************************)
(* The inductive invariant behind these properties: what each variable     *)
(* says of the control points, and what a seeker's scan has learnt.        *)
(***************************************************************************)
OwnerPoints ==
    {"LU1", "LU2", "LU2scan", "LU3", "LU_wait", "unique", "UU_all", "UU_unlock",
     "TU_want", "TU1", "TU1scan", "TU3", "TU_no", "TU_unlock", "LS_test", "LS3",
     "LS_cas", "LS_one", "LS_clear", "LS_wait", "LS_again", "LS4"}

WantPoints ==
    {"LU2", "LU2scan", "LU3", "LU_wait", "TU1", "TU1scan", "TU3", "TU_no",
     "LS3", "LS_cas", "LS_one", "LS_clear", "LS_wait"}

FlagPoints == {"LS0", "LS2", "LS_test", "LS3", "LS4", "shared", "TS0", "TS1"}

\* The points where a thread is sure to be in the list; at the others it is
\* there or not.
MemberPoints ==
    FlagPoints \cup {"LS_set", "LS_cas", "LS_one", "LS_clear", "LS_wait",
                     "LS_cv", "LS_again", "TS_set", "DP_lock", "DPTD"}

NotifyPoints == {"UU1one", "UU1clear", "LS_one", "LS_clear", "US4one", "US4clear"}

ListPoints == {"LS_link", "TS_link", "DPTD"}

OwnerInv == \A t \in Thread : pc[t] \in OwnerPoints <=> uniq_mtx = t

UniqInv ==
    \A t \in Thread :
        /\ pc[t] = "unique" => uniq = "yes"
        /\ pc[t] \in WantPoints => uniq = "want"
        /\ pc[t] \in {"UU_all", "UU_unlock", "TU_unlock", "LS4"} => uniq = "no"

YesInv == uniq = "yes" => \E t \in Thread : pc[t] = "unique"

FlagInv ==
    \A t \in Thread :
        /\ sharing[t] <=> pc[t] \in FlagPoints
        /\ pc[t] \in MemberPoints => t \in registered

ParkInv ==
    /\ \A t \in wait_uniq_cond : pc[t] = "LU_cv"
    /\ \A t \in wait_shared_cond : pc[t] = "LS_cv"

NotifyInv ==
    \A t \in Thread :
        pc[t] \in NotifyPoints =>
            /\ notify_uniq_cond
            /\ \A u \in Thread : pc[u] \in NotifyPoints => u = t

ListInv ==
    /\ \A t \in Thread : pc[t] \in ListPoints <=> list_mtx = t
    /\ list_mtx # Nobody => \A t \in Thread : pc[t] \notin ScanPoints
    /\ ScanReadsLive

\* While uniq is 'want' no reader gets in, so those that are in are among the
\* flags the seeker has not read yet.
ScanInv ==
    \A t, u \in Thread :
        /\ pc[t] \in {"LU2scan", "TU1scan"} /\ HoldsShared(u) => u \in unread[t]
        /\ pc[t] \in {"LU3", "TU3", "unique"} => ~HoldsShared(u)

MutexInv ==
    /\ TypeOK /\ OwnerInv /\ UniqInv /\ YesInv /\ FlagInv /\ ParkInv
    /\ NotifyInv /\ ListInv /\ ScanInv

(***************************************************************************)
(* The state machine in the head comment of ru_shared_mutex.cpp.  Its      *)
(* three letters are the fields of MutexState.                             *)
(***************************************************************************)
MutexState ==
    << IF \E t \in Thread : HoldsUnique(t) \/ HoldsShared(t) THEN "L" ELSE "U",
       CASE uniq = "no" -> "N" [] uniq = "want" -> "W" [] uniq = "yes" -> "Y",
       IF \E t \in Thread : sharing[t] THEN "S" ELSE "s" >>

UNs == <<"U", "N", "s">>    UNS == <<"U", "N", "S">>
UWs == <<"U", "W", "s">>    UWS == <<"U", "W", "S">>
LNS == <<"L", "N", "S">>    LWS == <<"L", "W", "S">>
LYs == <<"L", "Y", "s">>    LYS == <<"L", "Y", "S">>

DocumentedPairs ==
    { <<UNs, UNS>>, <<UNs, UWs>>, <<UNS, LNS>>, <<UNS, UWS>>, <<UWS, LNS>>,
      <<UWS, UWs>>, <<LNS, UNs>>, <<LNS, LWS>>, <<UWs, LYs>>, <<UWs, UWS>>,
      <<LWS, UWs>>, <<LYs, LYS>>, <<LYs, UNs>>, <<LYS, LYs>>, <<LYS, UNS>> }

\* The transitions the code makes beyond the comment's: a holder releases
\* while another reader's flag is up; a try_lock() that failed takes its
\* announcement back; a refused try_lock_shared() lowers the last flag; a
\* seeker whose scan missed a late reader goes on to 'yes'.
OtherPairs ==
    { <<LNS, UNS>>, <<LWS, UWS>>, <<LWS, LNS>>, <<UWS, UNS>>, <<UWs, UNs>>,
      <<UNS, UNs>>, <<UWS, LYS>> }

\* Every change of the mutex state is one of these 22: in particular no step
\* leads from a shared to a unique lock state or back without passing through
\* 'unlocked', and a unique lock is given only from 'want'.
MutexStateMachine ==
    [][ \/ MutexState' = MutexState
        \/ <<MutexState, MutexState'>> \in DocumentedPairs \cup OtherPairs ]_vars

(***************************************************************************)
(* Refinement: what the callers of RuSharedMutex see is SharedMutex.       *)
(***************************************************************************)
ModeAt(point) ==
    CASE point = "unique"                  -> "unique"
      [] point \in {"LS4", "shared"}       -> "shared"
      [] point \in LockPoints              -> "lock"
      [] point \in TryLockPoints           -> "try_lock"
      [] point \in SharePoints \ {"LS4"}   -> "lock_shared"
      [] point \in TrySharePoints          -> "try_lock_shared"
      [] OTHER                             -> "out"

modes == [t \in Thread |-> ModeAt(pc[t])]

SM == INSTANCE SharedMutex WITH mode <- modes

\* Every behaviour of the code is one of a shared mutex whose operations take
\* effect at once: a lock is obtained only when nobody excludes it, and
\* lock() and lock_shared() never come back without it.
ImplementsSharedMutex == SM!Spec

\* What the threads rely on of the list of their data: it does not change
\* while anybody reads it, and a scan ends with every flag read or at one that
\* is set.  PtdList shows that the links keep this promise.
TDS == INSTANCE ThreadDataSet WITH scanning <- Scanning

ImplementsThreadDataSet == TDS!Spec

(***************************************************************************)
(* Liveness.                                                               *)
(***************************************************************************)
Returned(t) == pc[t] \in {"idle", "unique", "shared"}

\* Whoever seeks a unique lock obtains it, even while readers keep coming:
\* they see 'want' and give way, and the last of them notifies.
SeekerServed == \A t \in Thread : pc[t] \in LockPoints ~> HoldsUnique(t)

\* Once unique locks are no longer requested, every call comes back: readers
\* asleep in wait_shared_cond were notified, a releasing reader leaves its
\* notification loop.  (While they are requested over and over, readers may be
\* kept out, and a releasing reader kept in the loop, for ever.)
UniqueCallersStop == <>[](\A w \in Lockers \cup TryLockers : pc[w] = "idle")

CallsReturn ==
    \A t \in Thread : ~Returned(t) /\ UniqueCallersStop ~> Returned(t)

=============================================================================
