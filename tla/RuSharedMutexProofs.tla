------------------------ MODULE RuSharedMutexProofs ------------------------
(***************************************************************************)
(* What TLC checks of RuSharedMutex on a few threads, proved for every set *)
(* of threads and every choice of the operations each of them calls.       *)
(*                                                                         *)
(* MutexInv is inductive: one lemma per operation shows that each of its   *)
(* conjuncts survives.  The safety theorems and the refinement of          *)
(* SharedMutex follow from it.                                             *)
(***************************************************************************)
EXTENDS RuSharedMutex, TLAPS

USE CallersAssumption
USE DEF OwnerPoints, WantPoints, FlagPoints, MemberPoints, NotifyPoints,
        ListPoints, ScanPoints, mutexVars, condVars, listVars, Move, Goto

(***************************************************************************)
(* The inductive invariant.                                                *)
(***************************************************************************)

\* The mutex and every thread's data as their initializers leave them.
LEMMA Initial == Init => MutexInv
BY DEF Init, MutexInv, TypeOK, Points, OwnerInv, UniqInv, YesInv, FlagInv,
       ParkInv, NotifyInv, ListInv, ScanReadsLive, ScanInv, HoldsShared

\* lock() keeps the invariant.
LEMMA LockKeeps ==
    ASSUME MutexInv, NEW t \in Thread, Lock(t)
    PROVE  MutexInv'
<1> USE DEF Lock, Acquire, SetUniq, BeginScan, Scan, ReadFlag, EndScan, WaitUniq
<1>1. TypeOK'
  BY DEF MutexInv, TypeOK, Points, LockPoints
<1>2. OwnerInv'
  BY DEF MutexInv, TypeOK, OwnerInv
<1>3. UniqInv'
  BY DEF MutexInv, TypeOK, OwnerInv, UniqInv, YesInv
<1>4. YesInv'
  BY DEF MutexInv, TypeOK, OwnerInv, UniqInv, YesInv
<1>5. FlagInv'
  BY DEF MutexInv, TypeOK, FlagInv
<1>6. ParkInv'
  BY DEF MutexInv, TypeOK, ParkInv
<1>7. NotifyInv'
  BY DEF MutexInv, TypeOK, NotifyInv
<1>8. ListInv'
  BY DEF MutexInv, TypeOK, ListInv, ScanReadsLive
<1>9. ScanInv'
  BY DEF MutexInv, TypeOK, OwnerInv, UniqInv, FlagInv, ScanInv, HoldsShared
<1> QED
  BY <1>1, <1>2, <1>3, <1>4, <1>5, <1>6, <1>7, <1>8, <1>9 DEF MutexInv

\* try_lock() keeps the invariant.
LEMMA TryLockKeeps ==
    ASSUME MutexInv, NEW t \in Thread, TryLock(t)
    PROVE  MutexInv'
<1> USE DEF TryLock, TryAcquire, SetUniq, BeginScan, GiveUp, Scan, ReadFlag,
             EndScan, ReleaseMtx
<1>1. TypeOK'
  BY DEF MutexInv, TypeOK, Points, TryLockPoints
<1>2. OwnerInv'
  BY DEF MutexInv, TypeOK, OwnerInv
<1>3. UniqInv'
  BY DEF MutexInv, TypeOK, OwnerInv, UniqInv, YesInv
<1>4. YesInv'
  BY DEF MutexInv, TypeOK, OwnerInv, UniqInv, YesInv
<1>5. FlagInv'
  BY DEF MutexInv, TypeOK, FlagInv
<1>6. ParkInv'
  BY DEF MutexInv, TypeOK, ParkInv
<1>7. NotifyInv'
  BY DEF MutexInv, TypeOK, NotifyInv
<1>8. ListInv'
  BY DEF MutexInv, TypeOK, ListInv, ScanReadsLive
<1>9. ScanInv'
  BY DEF MutexInv, TypeOK, OwnerInv, UniqInv, FlagInv, ScanInv, HoldsShared
<1> QED
  BY <1>1, <1>2, <1>3, <1>4, <1>5, <1>6, <1>7, <1>8, <1>9 DEF MutexInv

\* unlock() keeps the invariant.
LEMMA UnlockKeeps ==
    ASSUME MutexInv, NEW t \in Thread, Unlock(t)
    PROVE  MutexInv'
<1> USE DEF Unlock, SetUniq, NotifyAll, ReleaseMtx, NotifyUniqCond, NotifyCas,
             NotifyOne, NotifyClear
<1>1. TypeOK'
  BY DEF MutexInv, TypeOK, Points, UnlockPoints
<1>2. OwnerInv'
  BY DEF MutexInv, TypeOK, OwnerInv
<1>3. UniqInv'
  BY DEF MutexInv, TypeOK, OwnerInv, UniqInv, YesInv
<1>4. YesInv'
  BY DEF MutexInv, TypeOK, OwnerInv, UniqInv, YesInv
<1>5. FlagInv'
  BY DEF MutexInv, TypeOK, FlagInv
<1>6. ParkInv'
  BY DEF MutexInv, TypeOK, ParkInv
<1>7. NotifyInv'
  BY DEF MutexInv, TypeOK, NotifyInv
<1>8. ListInv'
  BY DEF MutexInv, TypeOK, ListInv, ScanReadsLive
<1>9. ScanInv'
  BY DEF MutexInv, TypeOK, OwnerInv, UniqInv, FlagInv, ScanInv, HoldsShared
<1> QED
  BY <1>1, <1>2, <1>3, <1>4, <1>5, <1>6, <1>7, <1>8, <1>9 DEF MutexInv

\* lock_shared() keeps the invariant.
LEMMA LockSharedKeeps ==
    ASSUME MutexInv, NEW t \in Thread, LockShared(t)
    PROVE  MutexInv'
<1> USE DEF LockShared, LockList, ListFree, Scanning, LinkPtd, SetSharing,
             TestUniq
<1>1. TypeOK'
  BY DEF MutexInv, TypeOK, Points, SharePoints
<1>2. OwnerInv'
  BY DEF MutexInv, TypeOK, OwnerInv
<1>3. UniqInv'
  BY DEF MutexInv, TypeOK, OwnerInv, UniqInv, YesInv
<1>4. YesInv'
  BY DEF MutexInv, TypeOK, OwnerInv, UniqInv, YesInv
<1>5. FlagInv'
  BY DEF MutexInv, TypeOK, FlagInv
<1>6. ParkInv'
  BY DEF MutexInv, TypeOK, ParkInv
<1>7. NotifyInv'
  BY DEF MutexInv, TypeOK, NotifyInv
<1>8. ListInv'
  BY DEF MutexInv, TypeOK, ListInv, ScanReadsLive
<1>9. ScanInv'
  BY DEF MutexInv, TypeOK, OwnerInv, UniqInv, FlagInv, ScanInv, HoldsShared
<1> QED
  BY <1>1, <1>2, <1>3, <1>4, <1>5, <1>6, <1>7, <1>8, <1>9 DEF MutexInv

\* blocking_lock_shared() keeps the invariant.
LEMMA BlockingLockSharedKeeps ==
    ASSUME MutexInv, NEW t \in Thread, BlockingLockShared(t)
    PROVE  MutexInv'
<1> USE DEF BlockingLockShared, Acquire, TestUniq, SetSharing, NotifyUniqCond,
             NotifyCas, NotifyOne, NotifyClear, WaitShared, ReleaseMtx
<1>1. TypeOK'
  <2>1. TypeOK
    BY DEF MutexInv
  <2>2. pc' \in [Thread -> Points]
    BY <2>1 DEF TypeOK, Points, SharePoints
  <2> QED
    BY <2>1, <2>2 DEF TypeOK
<1>2. OwnerInv'
  BY DEF MutexInv, TypeOK, OwnerInv
<1>3. UniqInv'
  BY DEF MutexInv, TypeOK, OwnerInv, UniqInv, YesInv
<1>4. YesInv'
  BY DEF MutexInv, TypeOK, OwnerInv, UniqInv, YesInv
<1>5. FlagInv'
  BY DEF MutexInv, TypeOK, FlagInv
<1>6. ParkInv'
  BY DEF MutexInv, TypeOK, ParkInv
<1>7. NotifyInv'
  BY DEF MutexInv, TypeOK, NotifyInv
<1>8. ListInv'
  BY DEF MutexInv, TypeOK, ListInv, ScanReadsLive
<1>9. ScanInv'
  BY DEF MutexInv, TypeOK, OwnerInv, UniqInv, FlagInv, ScanInv, HoldsShared
<1> QED
  BY <1>1, <1>2, <1>3, <1>4, <1>5, <1>6, <1>7, <1>8, <1>9 DEF MutexInv

\* try_lock_shared() keeps the invariant.
LEMMA TryLockSharedKeeps ==
    ASSUME MutexInv, NEW t \in Thread, TryLockShared(t)
    PROVE  MutexInv'
<1> USE DEF TryLockShared, LockList, ListFree, Scanning, GiveUp, LinkPtd,
             SetSharing, TestUniq
<1>1. TypeOK'
  <2>1. TypeOK
    BY DEF MutexInv
  <2>2. pc' \in [Thread -> Points]
    BY <2>1 DEF TypeOK, Points, TrySharePoints, UnsharePoints
  <2> QED
    BY <2>1, <2>2 DEF TypeOK
<1>2. OwnerInv'
  BY DEF MutexInv, TypeOK, OwnerInv
<1>3. UniqInv'
  BY DEF MutexInv, TypeOK, OwnerInv, UniqInv, YesInv
<1>4. YesInv'
  BY DEF MutexInv, TypeOK, OwnerInv, UniqInv, YesInv
<1>5. FlagInv'
  BY DEF MutexInv, TypeOK, FlagInv
<1>6. ParkInv'
  BY DEF MutexInv, TypeOK, ParkInv
<1>7. NotifyInv'
  BY DEF MutexInv, TypeOK, NotifyInv
<1>8. ListInv'
  BY DEF MutexInv, TypeOK, ListInv, ScanReadsLive
<1>9. ScanInv'
  BY DEF MutexInv, TypeOK, OwnerInv, UniqInv, FlagInv, ScanInv, HoldsShared
<1> QED
  BY <1>1, <1>2, <1>3, <1>4, <1>5, <1>6, <1>7, <1>8, <1>9 DEF MutexInv

\* unlock_shared() keeps the invariant.
LEMMA UnlockSharedKeeps ==
    ASSUME MutexInv, NEW t \in Thread, UnlockShared(t)
    PROVE  MutexInv'
<1> USE DEF UnlockShared, SetSharing, TestUniq
<1>1. TypeOK'
  BY DEF MutexInv, TypeOK, Points, UnsharePoints
<1>2. OwnerInv'
  BY DEF MutexInv, TypeOK, OwnerInv
<1>3. UniqInv'
  BY DEF MutexInv, TypeOK, OwnerInv, UniqInv, YesInv
<1>4. YesInv'
  BY DEF MutexInv, TypeOK, OwnerInv, UniqInv, YesInv
<1>5. FlagInv'
  BY DEF MutexInv, TypeOK, FlagInv
<1>6. ParkInv'
  BY DEF MutexInv, TypeOK, ParkInv
<1>7. NotifyInv'
  BY DEF MutexInv, TypeOK, NotifyInv
<1>8. ListInv'
  BY DEF MutexInv, TypeOK, ListInv, ScanReadsLive
<1>9. ScanInv'
  BY DEF MutexInv, TypeOK, OwnerInv, UniqInv, FlagInv, ScanInv, HoldsShared
<1> QED
  BY <1>1, <1>2, <1>3, <1>4, <1>5, <1>6, <1>7, <1>8, <1>9 DEF MutexInv

\* blocking_unlock_shared() keeps the invariant.
LEMMA BlockingUnlockSharedKeeps ==
    ASSUME MutexInv, NEW t \in Thread, BlockingUnlockShared(t)
    PROVE  MutexInv'
<1> USE DEF BlockingUnlockShared, BeginScan, Scan, ReadFlag, EndScan, TestUniq,
             NotifyUniqCond, NotifyCas, NotifyOne, NotifyClear
<1>1. TypeOK'
  <2>1. pc' \in [Thread -> Points]
    BY DEF MutexInv, TypeOK, Points, UnsharePoints
  <2>2. unread' \in [Thread -> SUBSET Thread]
    BY DEF MutexInv, TypeOK
  <2> QED
    BY <2>1, <2>2 DEF MutexInv, TypeOK
<1>2. OwnerInv'
  BY DEF MutexInv, TypeOK, OwnerInv
<1>3. UniqInv'
  BY DEF MutexInv, TypeOK, OwnerInv, UniqInv, YesInv
<1>4. YesInv'
  BY DEF MutexInv, TypeOK, OwnerInv, UniqInv, YesInv
<1>5. FlagInv'
  BY DEF MutexInv, TypeOK, FlagInv
<1>6. ParkInv'
  BY DEF MutexInv, TypeOK, ParkInv
<1>7. NotifyInv'
  BY DEF MutexInv, TypeOK, NotifyInv
<1>8. ListInv'
  BY DEF MutexInv, TypeOK, ListInv, ScanReadsLive
<1>9. ScanInv'
  BY DEF MutexInv, TypeOK, OwnerInv, UniqInv, FlagInv, ScanInv, HoldsShared
<1> QED
  BY <1>1, <1>2, <1>3, <1>4, <1>5, <1>6, <1>7, <1>8, <1>9 DEF MutexInv

\* The destructor of a thread's per_thread_data_ keeps the invariant.
LEMMA DestroyPtdKeeps ==
    ASSUME MutexInv, NEW t \in Thread, DestroyPtd(t)
    PROVE  MutexInv'
<1> USE DEF DestroyPtd, LockList, ListFree, Scanning, UnlinkPtd
<1>1. TypeOK'
  BY DEF MutexInv, TypeOK, Points, ExitPoints
<1>2. OwnerInv'
  BY DEF MutexInv, TypeOK, OwnerInv
<1>3. UniqInv'
  BY DEF MutexInv, TypeOK, OwnerInv, UniqInv, YesInv
<1>4. YesInv'
  BY DEF MutexInv, TypeOK, OwnerInv, UniqInv, YesInv
<1>5. FlagInv'
  BY DEF MutexInv, TypeOK, FlagInv
<1>6. ParkInv'
  BY DEF MutexInv, TypeOK, ParkInv
<1>7. NotifyInv'
  BY DEF MutexInv, TypeOK, NotifyInv
<1>8. ListInv'
  BY DEF MutexInv, TypeOK, ListInv, ScanReadsLive
<1>9. ScanInv'
  BY DEF MutexInv, TypeOK, OwnerInv, UniqInv, FlagInv, ScanInv, HoldsShared
<1> QED
  BY <1>1, <1>2, <1>3, <1>4, <1>5, <1>6, <1>7, <1>8, <1>9 DEF MutexInv

\* The start of an operation keeps the invariant.
LEMMA CallKeeps ==
    ASSUME MutexInv, NEW t \in Thread, Call(t)
    PROVE  MutexInv'
<1> USE DEF Call, Start
<1>1. TypeOK'
  BY DEF MutexInv, TypeOK, Points, LockPoints, TryLockPoints, SharePoints,
         TrySharePoints, ExitPoints
<1>2. OwnerInv'
  BY DEF MutexInv, TypeOK, OwnerInv
<1>3. UniqInv'
  BY DEF MutexInv, TypeOK, OwnerInv, UniqInv, YesInv
<1>4. YesInv'
  BY DEF MutexInv, TypeOK, OwnerInv, UniqInv, YesInv
<1>5. FlagInv'
  BY DEF MutexInv, TypeOK, FlagInv
<1>6. ParkInv'
  BY DEF MutexInv, TypeOK, ParkInv
<1>7. NotifyInv'
  BY DEF MutexInv, TypeOK, NotifyInv
<1>8. ListInv'
  BY DEF MutexInv, TypeOK, ListInv, ScanReadsLive
<1>9. ScanInv'
  BY DEF MutexInv, TypeOK, OwnerInv, UniqInv, FlagInv, ScanInv, HoldsShared
<1> QED
  BY <1>1, <1>2, <1>3, <1>4, <1>5, <1>6, <1>7, <1>8, <1>9 DEF MutexInv

\* A wakeup without a notification keeps the invariant.
LEMMA SpuriousWakeupKeeps ==
    ASSUME MutexInv, NEW t \in Thread, SpuriousWakeup(t)
    PROVE  MutexInv'
<1> USE DEF SpuriousWakeup
<1>1. TypeOK'
  BY DEF MutexInv, TypeOK, Points
<1>2. OwnerInv'
  BY DEF MutexInv, TypeOK, OwnerInv
<1>3. UniqInv'
  BY DEF MutexInv, TypeOK, OwnerInv, UniqInv, YesInv
<1>4. YesInv'
  BY DEF MutexInv, TypeOK, OwnerInv, UniqInv, YesInv
<1>5. FlagInv'
  BY DEF MutexInv, TypeOK, FlagInv
<1>6. ParkInv'
  BY DEF MutexInv, TypeOK, ParkInv
<1>7. NotifyInv'
  BY DEF MutexInv, TypeOK, NotifyInv
<1>8. ListInv'
  BY DEF MutexInv, TypeOK, ListInv, ScanReadsLive
<1>9. ScanInv'
  BY DEF MutexInv, TypeOK, OwnerInv, UniqInv, FlagInv, ScanInv, HoldsShared
<1> QED
  BY <1>1, <1>2, <1>3, <1>4, <1>5, <1>6, <1>7, <1>8, <1>9 DEF MutexInv

\* Every step of the program keeps the invariant.
LEMMA StepKeeps == MutexInv /\ [Next]_vars => MutexInv'
<1> SUFFICES ASSUME MutexInv, [Next]_vars
             PROVE  MutexInv'
  OBVIOUS
<1>1. ASSUME NEW t \in Thread, Call(t) \/ Run(t) \/ SpuriousWakeup(t)
      PROVE  MutexInv'
  BY <1>1, LockKeeps, TryLockKeeps, UnlockKeeps, LockSharedKeeps,
     BlockingLockSharedKeeps, TryLockSharedKeeps, UnlockSharedKeeps,
     BlockingUnlockSharedKeeps, DestroyPtdKeeps, CallKeeps, SpuriousWakeupKeeps
  DEF Run
<1>2. CASE UNCHANGED vars
  BY <1>2 DEF vars, MutexInv, TypeOK, OwnerInv, UniqInv, YesInv, FlagInv,
              ParkInv, NotifyInv, ListInv, ScanReadsLive, ScanInv, HoldsShared
<1> QED
  BY <1>1, <1>2 DEF Next

(***************************************************************************)
(* Safety, for any number of threads.                                      *)
(***************************************************************************)

\* The inductive invariant holds throughout: types, ownership of uniq_mtx and
\* of the list, the meaning of uniq and of the flags, what a scan has learnt.
THEOREM InvariantHolds == Spec => []MutexInv
BY Initial, StepKeeps, PTL DEF Spec

\* Every variable keeps its type.
THEOREM TypeCorrect == Spec => []TypeOK
<1>1. MutexInv => TypeOK
  BY DEF MutexInv
<1> QED
  BY <1>1, InvariantHolds, PTL

\* A unique holder excludes every other holder: the seeker set uniq to 'want'
\* before its scan, so a reader either raised its flag in time to be seen or
\* will see 'want' itself.
THEOREM MutualExclusionHolds == Spec => []MutualExclusion
<1>1. MutexInv => MutualExclusion
  BY DEF MutexInv, TypeOK, OwnerInv, ScanInv, MutualExclusion, HoldsUnique,
         HoldsShared
<1> QED
  BY <1>1, InvariantHolds, PTL

\* A reader that has to give way meets a seeker, never a unique holder.
THEOREM BlockedReaderSeesWantHolds == Spec => []BlockedReaderSeesWant
<1>1. MutexInv => BlockedReaderSeesWant
  BY DEF MutexInv, UniqInv, BlockedReaderSeesWant
<1> QED
  BY <1>1, InvariantHolds, PTL

\* The flag notify_uniq_cond keeps two threads out of one notify_one().
THEOREM NotifyExclusiveHolds == Spec => []NotifyExclusive
<1>1. MutexInv => NotifyExclusive
  BY DEF MutexInv, NotifyInv, NotifyExclusive
<1> QED
  BY <1>1, InvariantHolds, PTL

\* No sharing flag is left set by a thread that sleeps, is outside or has ended.
THEOREM NoStaleFlagHolds == Spec => []NoStaleFlag
<1>1. MutexInv => NoStaleFlag
  BY DEF MutexInv, FlagInv, ParkInv, NoStaleFlag, Parked
<1> QED
  BY <1>1, InvariantHolds, PTL

\* No scan reads the per_thread_data_ of a thread that has ended.
THEOREM ScanReadsLiveHolds == Spec => []ScanReadsLive
<1>1. MutexInv => ScanReadsLive
  BY DEF MutexInv, ListInv
<1> QED
  BY <1>1, InvariantHolds, PTL

(***************************************************************************)
(* The state machine of the mutex.                                         *)
(***************************************************************************)

\* The three letters of MutexState: whether the lock is held, 'uniq', whether
\* a flag is up.
Held == \E t \in Thread : HoldsUnique(t) \/ HoldsShared(t)
Flagged == \E t \in Thread : sharing[t]

Documented ==
    \/ MutexState' = MutexState
    \/ <<MutexState, MutexState'>> \in DocumentedPairs \cup OtherPairs

\* Which letters go together: a reader that holds the lock has its flag up, a
\* unique holder excludes readers.
Letters ==
    /\ uniq \in {"no", "want", "yes"}
    /\ Held /\ uniq # "yes" => Flagged
    /\ uniq = "yes" => Held

\* The invariant of the lock has them so.
LEMMA LettersHold == MutexInv => Letters
BY DEF MutexInv, TypeOK, UniqInv, YesInv, FlagInv, Letters, Held, Flagged,
       HoldsUnique, HoldsShared

\* What a step may do to the letters: announce or take it back, grant and give
\* back a unique lock, raise or lower a flag, enter and leave as a reader.
LEMMA SomeLetter ==
    ASSUME Letters, Letters',
           \/ uniq # "yes" /\ uniq' = "want" /\ (Held' <=> Held) /\ (Flagged' <=> Flagged)
           \/ uniq = "want" /\ uniq' = "no" /\ (Held' <=> Held) /\ (Flagged' <=> Flagged)
           \/ uniq = "want" /\ uniq' = "yes" /\ ~Held /\ (Flagged' <=> Flagged)
           \/ uniq = "yes" /\ uniq' = "no" /\ ~Held' /\ (Flagged' <=> Flagged)
           \/ uniq' = uniq /\ (Held' <=> Held)
           \/ uniq' = uniq /\ uniq = "no" /\ (Flagged' <=> Flagged) /\ Held'
           \/ uniq' = uniq /\ uniq # "yes" /\ Held
    PROVE  Documented
<1> DEFINE h == Held   f == Flagged   hh == Held'   ff == Flagged'
<1>1. MutexState = <<IF h THEN "L" ELSE "U",
                     CASE uniq = "no" -> "N" [] uniq = "want" -> "W" [] uniq = "yes" -> "Y",
                     IF f THEN "S" ELSE "s">>
  BY DEF MutexState, Held, Flagged
<1>2. MutexState' = <<IF hh THEN "L" ELSE "U",
                      CASE uniq' = "no" -> "N" [] uniq' = "want" -> "W" [] uniq' = "yes" -> "Y",
                      IF ff THEN "S" ELSE "s">>
  BY DEF MutexState, Held, Flagged
<1>3. /\ uniq \in {"no", "want", "yes"}
      /\ h /\ uniq # "yes" => f
      /\ uniq = "yes" => h
  BY DEF Letters
<1>4. /\ hh /\ uniq' # "yes" => ff
      /\ uniq' = "yes" => hh
  BY DEF Letters
<1>5. \/ uniq # "yes" /\ uniq' = "want" /\ (hh <=> h) /\ (ff <=> f)
      \/ uniq = "want" /\ uniq' = "no" /\ (hh <=> h) /\ (ff <=> f)
      \/ uniq = "want" /\ uniq' = "yes" /\ ~h /\ (ff <=> f)
      \/ uniq = "yes" /\ uniq' = "no" /\ ~hh /\ (ff <=> f)
      \/ uniq' = uniq /\ (hh <=> h)
      \/ uniq' = uniq /\ uniq = "no" /\ (ff <=> f) /\ hh
      \/ uniq' = uniq /\ uniq # "yes" /\ h
  OBVIOUS
<1> HIDE DEF h, f, hh, ff
<1> USE DEF UNs, UNS, UWs, UWS, LNS, LWS, LYs, LYS
<1> QED
  BY <1>1, <1>2, <1>3, <1>4, <1>5 DEF Documented, DocumentedPairs, OtherPairs

\* A thread that holds no lock and gets none leaves the first letter alone.
LEMMA HeldAsBefore ==
    ASSUME TypeOK, NEW t \in Thread, NEW point, Goto(t, point),
           pc[t] \notin {"unique", "LS4", "shared"},
           point \notin {"unique", "LS4", "shared"}
    PROVE  Held' <=> Held
BY DEF TypeOK, Held, HoldsUnique, HoldsShared

\* Such a step that does not store to 'uniq'.
LEMMA Beside ==
    ASSUME Letters, Letters', TypeOK, NEW t \in Thread, NEW point, Goto(t, point),
           pc[t] \notin {"unique", "LS4", "shared"},
           point \notin {"unique", "LS4", "shared"},
           UNCHANGED uniq
    PROVE  Documented
BY HeldAsBefore, SomeLetter

\* Who has uniq_mtx in hand and is no holder knows that 'uniq' is not 'yes'.
LEMMA OwnerSeesNoHolder ==
    ASSUME MutexInv, NEW t \in Thread, pc[t] \in OwnerPoints, pc[t] # "unique"
    PROVE  uniq # "yes"
BY DEF MutexInv, OwnerInv, YesInv

\* A seeker that announces itself, or takes it back.
LEMMA Announces ==
    ASSUME MutexInv, Letters, Letters', NEW t \in Thread, NEW point, NEW value,
           NEW next, next \notin {"unique", "LS4", "shared"},
           \/ point \in {"LU1", "TU_want"} /\ value = "want"
           \/ point = "TU_no" /\ value = "no",
           SetUniq(t, point, value, next)
    PROVE  Documented
<1>1. Held' <=> Held
  BY HeldAsBefore DEF MutexInv, SetUniq
<1>2. Flagged' <=> Flagged
  BY DEF Flagged, SetUniq
<1>3. uniq # "yes" /\ (point = "TU_no" => uniq = "want")
  BY OwnerSeesNoHolder DEF SetUniq, MutexInv, UniqInv
<1> QED
  BY <1>1, <1>2, <1>3, SomeLetter DEF SetUniq

\* A seeker whose scan found every flag down.
LEMMA Grants ==
    ASSUME MutexInv, Letters, Letters', NEW t \in Thread,
           NEW point \in {"LU3", "TU3"}, SetUniq(t, point, "yes", "unique")
    PROVE  Documented
<1>1. uniq = "want" /\ uniq' = "yes"
  BY DEF MutexInv, UniqInv, SetUniq
<1>2. ~Held
  BY DEF MutexInv, OwnerInv, ScanInv, Held, HoldsUnique, HoldsShared, SetUniq
<1>3. Flagged' <=> Flagged
  BY DEF Flagged, SetUniq
<1> QED
  BY <1>1, <1>2, <1>3, SomeLetter

\* A unique holder that gives its lock back.
LEMMA GivesBack ==
    ASSUME MutexInv, Letters, Letters', NEW t \in Thread,
           SetUniq(t, "unique", "no", "UU_all")
    PROVE  Documented
<1>1. uniq = "yes" /\ uniq' = "no"
  BY DEF MutexInv, UniqInv, SetUniq
<1>2. ~Held'
  BY DEF MutexInv, TypeOK, OwnerInv, ScanInv, Held, HoldsUnique, HoldsShared, SetUniq
<1>3. Flagged' <=> Flagged
  BY DEF Flagged, SetUniq
<1> QED
  BY <1>1, <1>2, <1>3, SomeLetter

\* A reader that enters.
LEMMA Enters ==
    ASSUME MutexInv, Letters, Letters', NEW t \in Thread, NEW point,
           NEW next \in {"LS4", "shared"}, Goto(t, next),
           uniq = "no", UNCHANGED <<uniq, sharing>>
    PROVE  Documented
<1>1. Held'
  BY DEF MutexInv, TypeOK, Held, HoldsShared
<1>2. Flagged' <=> Flagged
  BY DEF Flagged
<1> QED
  BY <1>1, <1>2, SomeLetter

\* A reader that lets go.
LEMMA Leaves ==
    ASSUME MutexInv, Letters, Letters', NEW t \in Thread,
           SetSharing(t, "shared", FALSE, "US1")
    PROVE  Documented
<1>1. Held /\ uniq # "yes"
  BY DEF MutexInv, YesInv, ScanInv, Held, HoldsShared, SetSharing
<1> QED
  BY <1>1, SomeLetter DEF SetSharing

\* The letters change as the state machine allows, whatever the operation.
LEMMA RunDocumented ==
    ASSUME MutexInv, Letters, Letters', NEW t \in Thread, Run(t)
    PROVE  Documented
<1>1. TypeOK
  BY DEF MutexInv
<1>2. CASE Lock(t)
  <2>1. CASE SetUniq(t, "LU1", "want", "LU2")
    BY <2>1, Announces
  <2>2. CASE SetUniq(t, "LU3", "yes", "unique")
    BY <2>2, Grants
  <2> QED
    BY <1>1, <1>2, <2>1, <2>2, Beside
    DEF Lock, Acquire, BeginScan, Scan, ReadFlag, EndScan, WaitUniq
<1>3. CASE TryLock(t)
  <2>1. CASE SetUniq(t, "TU_want", "want", "TU1")
    BY <2>1, Announces
  <2>2. CASE SetUniq(t, "TU_no", "no", "TU_unlock")
    BY <2>2, Announces
  <2>3. CASE SetUniq(t, "TU3", "yes", "unique")
    BY <2>3, Grants
  <2> QED
    BY <1>1, <1>3, <2>1, <2>2, <2>3, Beside
    DEF TryLock, TryAcquire, BeginScan, GiveUp, Scan, ReadFlag, EndScan, ReleaseMtx
<1>4. CASE Unlock(t)
  <2>1. CASE SetUniq(t, "unique", "no", "UU_all")
    BY <2>1, GivesBack
  <2> QED
    BY <1>1, <1>4, <2>1, Beside
    DEF Unlock, NotifyAll, ReleaseMtx, NotifyUniqCond, NotifyCas, NotifyOne,
        NotifyClear
<1>5. CASE LockShared(t)
  <2>1. CASE TestUniq(t, "LS0", {"no"}, "shared", "LS2") /\ uniq = "no"
    BY <2>1, Enters DEF TestUniq
  <2> QED
    BY <1>1, <1>5, <2>1, Beside DEF LockShared, LockList, LinkPtd, SetSharing, TestUniq
<1>6. CASE BlockingLockShared(t)
  <2>1. CASE TestUniq(t, "LS_test", {"no"}, "LS4", "LS3") /\ uniq = "no"
    BY <2>1, Enters DEF TestUniq
  <2>2. CASE ReleaseMtx(t, "LS4", "shared")
    <3>1. Held' <=> Held
      BY <1>1, <2>2 DEF TypeOK, Held, HoldsUnique, HoldsShared, ReleaseMtx
    <3> QED
      BY <2>2, <3>1, SomeLetter DEF ReleaseMtx
  <2> QED
    BY <1>1, <1>6, <2>1, <2>2, Beside
    DEF BlockingLockShared, Acquire, TestUniq, SetSharing, NotifyUniqCond,
        NotifyCas, NotifyOne, NotifyClear, WaitShared
<1>7. CASE TryLockShared(t)
  <2>1. CASE TestUniq(t, "TS0", {"no"}, "shared", "TS1") /\ uniq = "no"
    BY <2>1, Enters DEF TestUniq
  <2> QED
    BY <1>1, <1>7, <2>1, Beside
    DEF TryLockShared, LockList, GiveUp, LinkPtd, SetSharing, TestUniq
<1>8. CASE UnlockShared(t)
  <2>1. CASE SetSharing(t, "shared", FALSE, "US1")
    BY <2>1, Leaves
  <2> QED
    BY <1>1, <1>8, <2>1, Beside DEF UnlockShared, TestUniq
<1>9. CASE BlockingUnlockShared(t)
  BY <1>1, <1>9, Beside
  DEF BlockingUnlockShared, BeginScan, Scan, ReadFlag, EndScan, TestUniq,
      NotifyUniqCond, NotifyCas, NotifyOne, NotifyClear
<1>10. CASE DestroyPtd(t)
  BY <1>1, <1>10, Beside DEF DestroyPtd, LockList, UnlinkPtd
<1> QED
  BY <1>2, <1>3, <1>4, <1>5, <1>6, <1>7, <1>8, <1>9, <1>10 DEF Run

\* Any number of threads go through the 22 transitions and no others: no lock
\* changes hands without an unlocked state between, and a unique lock is given
\* only from 'want'.
THEOREM MutexStateMachineHolds == Spec => MutexStateMachine
<1>1. ASSUME MutexInv, [Next]_vars
      PROVE  [Documented]_vars
  <2>1. MutexInv'
    BY <1>1, StepKeeps
  <2>2. Letters /\ Letters'
    BY <1>1, <2>1, LettersHold, PTL
  <2>3. ASSUME NEW t \in Thread, Call(t)
        PROVE  Documented
    BY <1>1, <2>2, <2>3, Beside DEF MutexInv, Call, Start
  <2>4. ASSUME NEW t \in Thread, SpuriousWakeup(t)
        PROVE  Documented
    <3>1. uniq' = uniq /\ (Held' <=> Held)
      BY <2>4 DEF SpuriousWakeup, Held, HoldsUnique, HoldsShared
    <3> QED
      BY <2>2, <3>1, SomeLetter
  <2> QED
    BY <1>1, <2>2, <2>3, <2>4, RunDocumented DEF Next
<1> QED
  BY <1>1, InvariantHolds, PTL DEF Spec, MutexStateMachine, Documented

(***************************************************************************)
(* Refinement of SharedMutex.                                              *)
(***************************************************************************)

\* A step of t changes the mode of t alone.
LEMMA MovedMode ==
    ASSUME TypeOK, NEW t \in Thread, NEW point, Goto(t, point)
    PROVE  modes' = [modes EXCEPT ![t] = ModeAt(point)]
BY DEF TypeOK, modes

\* A step that does not change the mode of the thread it moves is a stutter.
LEMMA SameMode ==
    ASSUME TypeOK, NEW t \in Thread, NEW point, Goto(t, point),
           ModeAt(point) = ModeAt(pc[t])
    PROVE  UNCHANGED modes
BY MovedMode DEF modes

\* What the callers see of each operation is a step of SharedMutex.
LEMMA LockRefines ==
    ASSUME MutexInv, NEW t \in Thread, Lock(t)
    PROVE  [SM!Next]_modes
<1> USE DEF LockPoints, TryLockPoints, SharePoints, TrySharePoints
<1>1. CASE SetUniq(t, "LU3", "yes", "unique")
  <2>1. \A u \in Thread : modes[u] \notin {"unique", "shared"}
    BY <1>1 DEF MutexInv, TypeOK, OwnerInv, ScanInv, HoldsShared, modes, ModeAt, SetUniq
  <2>2. modes[t] = "lock" /\ modes' = [modes EXCEPT ![t] = "unique"]
    BY <1>1, MovedMode DEF MutexInv, modes, ModeAt, SetUniq
  <2> QED
    BY <2>1, <2>2 DEF SM!Next, SM!ObtainUnique, SM!Become
<1>2. CASE ~SetUniq(t, "LU3", "yes", "unique")
  <2>1. PICK point \in LockPoints : Goto(t, point)
    BY <1>2 DEF Lock, Acquire, SetUniq, BeginScan, Scan, ReadFlag, EndScan, WaitUniq
  <2>2. pc[t] \in LockPoints
    BY <1>2 DEF Lock, Acquire, SetUniq, BeginScan, Scan, ReadFlag, EndScan, WaitUniq
  <2>3. ModeAt(point) = "lock" /\ ModeAt(pc[t]) = "lock"
    BY <2>1, <2>2 DEF ModeAt
  <2> QED
    BY <2>1, <2>3, SameMode DEF MutexInv
<1> QED
  BY <1>1, <1>2

\* While no thread holds it unique, as uniq = "no" tells, a reader may enter.
LEMMA ReaderMayEnter ==
    ASSUME MutexInv, uniq = "no"
    PROVE  \A u \in Thread : modes[u] # "unique"
BY DEF MutexInv, UniqInv, modes, ModeAt

\* try_lock() takes the lock in its last store, after a scan that found no reader.
LEMMA TryLockRefines ==
    ASSUME MutexInv, NEW t \in Thread, TryLock(t)
    PROVE  [SM!Next]_modes
<1> USE DEF LockPoints, TryLockPoints, SharePoints, TrySharePoints
<1>1. CASE SetUniq(t, "TU3", "yes", "unique")
  <2>1. \A u \in Thread : modes[u] \notin {"unique", "shared"}
    BY <1>1 DEF MutexInv, TypeOK, OwnerInv, ScanInv, HoldsShared, modes,
                ModeAt, SetUniq
  <2>2. modes[t] = "try_lock" /\ modes' = [modes EXCEPT ![t] = "unique"]
    BY <1>1, MovedMode DEF MutexInv, modes, ModeAt, SetUniq
  <2> QED
    BY <2>1, <2>2 DEF SM!Next, SM!ObtainUnique, SM!Become
<1>2. CASE pc[t] \in TryLockPoints /\ Goto(t, "idle")
  <2>1. ModeAt("idle") = "out" /\ ModeAt(pc[t]) = "try_lock"
    BY <1>2 DEF ModeAt
  <2>2. modes[t] = "try_lock" /\ modes' = [modes EXCEPT ![t] = "out"]
    BY <1>2, <2>1, MovedMode DEF MutexInv, modes
  <2> QED
    BY <2>2 DEF SM!Next, SM!Refuse, SM!Become
<1>3. CASE \E point \in TryLockPoints : Goto(t, point)
  <2>1. pc[t] \in TryLockPoints
    BY DEF TryLock, TryAcquire, SetUniq, BeginScan, GiveUp, Scan, ReadFlag,
           EndScan, ReleaseMtx
  <2>2. PICK point \in TryLockPoints : Goto(t, point)
    BY <1>3
  <2>3. ModeAt(point) = "try_lock" /\ ModeAt(pc[t]) = "try_lock"
    BY <2>1, <2>2 DEF ModeAt
  <2> QED
    BY <2>2, <2>3, SameMode DEF MutexInv
<1> QED
  BY <1>1, <1>2, <1>3 DEF TryLock, TryAcquire, SetUniq, BeginScan, GiveUp,
     Scan, ReadFlag, EndScan, ReleaseMtx

\* The steps that the callers do not see: from outside to outside.
LEMMA OutsideRefines ==
    ASSUME MutexInv, NEW t \in Thread,
           NEW point \in UnlockPoints \cup UnsharePoints \cup ExitPoints \cup {"idle"},
           Goto(t, point),
           pc[t] \in UnlockPoints \cup UnsharePoints \cup ExitPoints \cup {"idle"}
    PROVE  [SM!Next]_modes
<1>1. ModeAt(point) = "out" /\ ModeAt(pc[t]) = "out"
  BY DEF ModeAt, LockPoints, TryLockPoints, SharePoints, TrySharePoints,
         UnlockPoints, UnsharePoints, ExitPoints
<1> QED
  BY <1>1, SameMode DEF MutexInv

\* A holder lets go.
LEMMA ReleaseRefines ==
    ASSUME MutexInv, NEW t \in Thread, NEW point \in {"UU_all", "US1"},
           Goto(t, point), pc[t] \in {"unique", "shared"}
    PROVE  [SM!Next]_modes
<1>1. modes[t] \in {"unique", "shared"} /\ modes' = [modes EXCEPT ![t] = "out"]
  BY MovedMode DEF MutexInv, modes, ModeAt, LockPoints, TryLockPoints,
                   SharePoints, TrySharePoints
<1> QED
  BY <1>1 DEF SM!Next, SM!Release, SM!Become

\* A reader enters, having seen uniq = "no".
LEMMA EnterRefines ==
    ASSUME MutexInv, NEW t \in Thread, NEW point \in {"LS4", "shared"},
           Goto(t, point), uniq = "no",
           pc[t] \in (SharePoints \ {"LS4"}) \cup TrySharePoints
    PROVE  [SM!Next]_modes
<1>1. modes[t] \in {"lock_shared", "try_lock_shared"}
  BY DEF modes, ModeAt, LockPoints, TryLockPoints, SharePoints, TrySharePoints
<1>2. ModeAt(point) = "shared"
  BY DEF ModeAt, LockPoints, TryLockPoints, SharePoints, TrySharePoints
<1>3. modes' = [modes EXCEPT ![t] = "shared"]
  BY <1>2, MovedMode DEF MutexInv
<1> QED
  BY <1>1, <1>3, ReaderMayEnter DEF SM!Next, SM!ObtainShared, SM!Become

\* A reader goes on within lock_shared().
LEMMA SeekRefines ==
    ASSUME MutexInv, NEW t \in Thread, NEW point \in SharePoints \ {"LS4"},
           Goto(t, point), pc[t] \in SharePoints \ {"LS4"}
    PROVE  [SM!Next]_modes
<1>1. ModeAt(point) = "lock_shared"
  BY DEF ModeAt, LockPoints, TryLockPoints, SharePoints, TrySharePoints
<1>2. ModeAt(pc[t]) = "lock_shared"
  BY DEF ModeAt, LockPoints, TryLockPoints, SharePoints, TrySharePoints
<1> QED
  BY <1>1, <1>2, SameMode DEF MutexInv

\* unlock() releases in its first store; the rest is notification.
LEMMA UnlockRefines ==
    ASSUME MutexInv, NEW t \in Thread, Unlock(t)
    PROVE  [SM!Next]_modes
<1>1. CASE SetUniq(t, "unique", "no", "UU_all")
  BY <1>1, ReleaseRefines DEF SetUniq
<1>2. CASE ~SetUniq(t, "unique", "no", "UU_all")
  BY <1>2, OutsideRefines
  DEF Unlock, NotifyAll, ReleaseMtx, NotifyUniqCond, NotifyCas, NotifyOne,
      NotifyClear, UnlockPoints
<1> QED
  BY <1>1, <1>2

\* lock_shared() without a seeker or a holder gets the lock as it reads uniq.
LEMMA LockSharedRefines ==
    ASSUME MutexInv, NEW t \in Thread, LockShared(t)
    PROVE  [SM!Next]_modes
<1> USE DEF SharePoints
<1>1. CASE TestUniq(t, "LS0", {"no"}, "shared", "LS2") /\ uniq = "no"
  BY <1>1, EnterRefines DEF TestUniq
<1>2. CASE ~(TestUniq(t, "LS0", {"no"}, "shared", "LS2") /\ uniq = "no")
  BY <1>2, SeekRefines DEF LockShared, LockList, LinkPtd, SetSharing, TestUniq
<1> QED
  BY <1>1, <1>2

\* blocking_lock_shared() gets it when it reads "no" under uniq_mtx.
LEMMA BlockingLockSharedRefines ==
    ASSUME MutexInv, NEW t \in Thread, BlockingLockShared(t)
    PROVE  [SM!Next]_modes
<1> USE DEF SharePoints
<1>1. CASE TestUniq(t, "LS_test", {"no"}, "LS4", "LS3") /\ uniq = "no"
  BY <1>1, EnterRefines DEF TestUniq
<1>2. CASE ReleaseMtx(t, "LS4", "shared")
  <2>1. ModeAt("shared") = ModeAt(pc[t])
    BY <1>2 DEF ReleaseMtx, ModeAt
  <2> QED
    BY <1>2, <2>1, SameMode DEF MutexInv, ReleaseMtx
<1>3. CASE /\ ~(TestUniq(t, "LS_test", {"no"}, "LS4", "LS3") /\ uniq = "no")
           /\ ~ReleaseMtx(t, "LS4", "shared")
  BY <1>3, SeekRefines
  DEF BlockingLockShared, Acquire, TestUniq, SetSharing, NotifyUniqCond,
      NotifyCas, NotifyOne, NotifyClear, WaitShared
<1> QED
  BY <1>1, <1>2, <1>3

\* try_lock_shared() gets the lock or comes back without it.
LEMMA TryLockSharedRefines ==
    ASSUME MutexInv, NEW t \in Thread, TryLockShared(t)
    PROVE  [SM!Next]_modes
<1> USE DEF TrySharePoints
<1>1. CASE TestUniq(t, "TS0", {"no"}, "shared", "TS1") /\ uniq = "no"
  BY <1>1, EnterRefines DEF TestUniq
<1>2. CASE pc[t] \in TrySharePoints /\ (Goto(t, "idle") \/ Goto(t, "US1"))
  <2>1. modes[t] = "try_lock_shared" /\ modes' = [modes EXCEPT ![t] = "out"]
    BY <1>2, MovedMode, SMTT(60)
    DEF MutexInv, modes, ModeAt, LockPoints, TryLockPoints, SharePoints
  <2> QED
    BY <2>1 DEF SM!Next, SM!Refuse, SM!Become
<1>3. CASE pc[t] \in TrySharePoints /\ \E point \in TrySharePoints : Goto(t, point)
  <2>1. PICK point \in TrySharePoints : Goto(t, point)
    BY <1>3
  <2>2. ModeAt(point) = ModeAt(pc[t])
    BY <1>3, <2>1 DEF ModeAt, LockPoints, TryLockPoints, SharePoints
  <2> QED
    BY <2>1, <2>2, SameMode DEF MutexInv
<1> QED
  BY <1>1, <1>2, <1>3
  DEF TryLockShared, LockList, GiveUp, LinkPtd, SetSharing, TestUniq

\* unlock_shared() releases as it lowers the flag.
LEMMA UnlockSharedRefines ==
    ASSUME MutexInv, NEW t \in Thread, UnlockShared(t) \/ BlockingUnlockShared(t)
    PROVE  [SM!Next]_modes
<1>1. CASE SetSharing(t, "shared", FALSE, "US1")
  BY <1>1, ReleaseRefines DEF SetSharing
<1>2. CASE ~SetSharing(t, "shared", FALSE, "US1")
  BY <1>2, OutsideRefines
  DEF UnlockShared, BlockingUnlockShared, TestUniq, BeginScan, Scan, ReadFlag,
      EndScan, NotifyUniqCond, NotifyCas, NotifyOne, NotifyClear, UnsharePoints
<1> QED
  BY <1>1, <1>2

\* A thread enters an operation: no lock changes hands.
LEMMA CallRefines ==
    ASSUME MutexInv, NEW t \in Thread, Call(t)
    PROVE  [SM!Next]_modes
<1>1. PICK point \in Points : pc[t] = "idle" /\ Goto(t, point)
                              /\ point \in {"LU0", "TU", "LS_set", "LS_add",
                                            "TS_set", "TS_add", "DP_lock"}
  BY DEF Call, Start, Points, LockPoints, TryLockPoints, SharePoints,
         TrySharePoints, ExitPoints
<1>2. CASE point = "DP_lock"
  BY <1>1, <1>2, OutsideRefines DEF ExitPoints
<1>3. CASE point # "DP_lock"
  <2>1. modes[t] = "out" /\ modes' = [modes EXCEPT ![t] = ModeAt(point)]
    BY <1>1, MovedMode DEF MutexInv, modes, ModeAt, LockPoints, TryLockPoints,
                           SharePoints, TrySharePoints
  <2>2. ModeAt(point) \in SM!Waiting
    BY <1>1, <1>3 DEF ModeAt, LockPoints, TryLockPoints, SharePoints,
                      TrySharePoints, SM!Waiting
  <2> QED
    BY <2>1, <2>2 DEF SM!Next, SM!Call, SM!Become
<1> QED
  BY <1>2, <1>3

\* One lemma per operation, put together.
LEMMA StepRefines == MutexInv /\ [Next]_vars => [SM!Next]_modes
<1> SUFFICES ASSUME MutexInv, [Next]_vars
             PROVE  [SM!Next]_modes
  OBVIOUS
<1>1. ASSUME NEW t \in Thread, Run(t)
      PROVE  [SM!Next]_modes
  <2>1. CASE DestroyPtd(t)
    BY <2>1, OutsideRefines DEF DestroyPtd, LockList, UnlinkPtd, ExitPoints
  <2> QED
    BY <1>1, <2>1, LockRefines, TryLockRefines, UnlockRefines,
       LockSharedRefines, BlockingLockSharedRefines, TryLockSharedRefines,
       UnlockSharedRefines DEF Run
<1>2. ASSUME NEW t \in Thread, SpuriousWakeup(t)
      PROVE  UNCHANGED modes
  BY <1>2 DEF SpuriousWakeup, modes
<1>3. CASE UNCHANGED vars
  BY <1>3 DEF vars, modes
<1> QED
  BY <1>1, <1>2, <1>3, CallRefines DEF Next

\* What the callers see is a shared mutex whose operations take effect in one
\* step: locks are obtained only when nobody excludes them, and lock() and
\* lock_shared() come back only with the lock.
THEOREM RefinesSharedMutex == Spec => ImplementsSharedMutex
<1>1. Init => SM!Init
  BY DEF Init, SM!Init, modes, ModeAt, LockPoints, TryLockPoints, SharePoints,
         TrySharePoints
<1> QED
  BY <1>1, StepRefines, InvariantHolds, PTL
  DEF Spec, ImplementsSharedMutex, SM!Spec

(***************************************************************************)
(* Refinement of ThreadDataSet.                                            *)
(***************************************************************************)

\* A step that neither begins nor ends a scan and leaves the list alone, but
\* may store to the flag of its thread.
LEMMA OffTheList ==
    ASSUME TypeOK, NEW t \in Thread, NEW point, Goto(t, point),
           pc[t] \in ScanPoints <=> point \in ScanPoints,
           UNCHANGED <<registered, unread>>,
           UNCHANGED sharing \/ \E b \in BOOLEAN : sharing' = [sharing EXCEPT ![t] = b]
    PROVE  [TDS!Next]_(TDS!vars)
<1>1. UNCHANGED Scanning
  BY DEF TypeOK, Scanning
<1>2. CASE UNCHANGED sharing
  BY <1>1, <1>2 DEF TDS!vars
<1>3. CASE \E b \in BOOLEAN : sharing' = [sharing EXCEPT ![t] = b]
  BY <1>1, <1>3 DEF TDS!Next, TDS!SetFlag
<1> QED
  BY <1>2, <1>3

\* A scan begins with every member of the list unread.
LEMMA ScanBegins ==
    ASSUME TypeOK, NEW t \in Thread, NEW point, NEW scan \in ScanPoints,
           point \notin ScanPoints, BeginScan(t, point, scan)
    PROVE  TDS!Next
<1>1. t \notin Scanning /\ Scanning' = Scanning \cup {t}
  BY DEF TypeOK, Scanning, BeginScan
<1> QED
  BY <1>1 DEF TDS!Next, TDS!BeginScan, BeginScan

\* A scan reads a flag or ends, at one that is set or after all.
LEMMA ScanGoesOn ==
    ASSUME TypeOK, NEW t \in Thread, NEW scan \in ScanPoints,
           NEW allFalse, NEW someSet,
           allFalse \notin ScanPoints, someSet \notin ScanPoints,
           Scan(t, scan, allFalse, someSet)
    PROVE  TDS!Next
<1>1. t \in Scanning
  BY DEF Scanning, Scan, ReadFlag, EndScan
<1>2. CASE EndScan(t, scan, allFalse)
  <2>1. Scanning' = Scanning \ {t}
    BY <1>2 DEF TypeOK, Scanning, EndScan
  <2>2. unread' = [unread EXCEPT ![t] = {}]
    BY <1>2 DEF TypeOK, EndScan
  <2> QED
    BY <1>1, <1>2, <2>1, <2>2 DEF TDS!Next, TDS!EndScan, EndScan
<1>3. CASE ReadFlag(t, scan, someSet)
  <2>1. PICK u \in unread[t] :
            /\ Move(t, scan, IF sharing[u] THEN someSet ELSE scan)
            /\ unread' = [unread EXCEPT ![t] = IF sharing[u] THEN {} ELSE @ \ {u}]
            /\ UNCHANGED <<registered, sharing>>
    BY <1>3 DEF ReadFlag
  <2>2. u \in Thread
    BY DEF TypeOK
  <2>3. CASE sharing[u]
    <3>1. Scanning' = Scanning \ {t}
      BY <2>1, <2>3 DEF TypeOK, Scanning
    <3>2. unread' = [unread EXCEPT ![t] = {}]
      BY <2>1, <2>3
    <3> QED
      BY <1>1, <2>1, <2>3, <3>1, <3>2 DEF TDS!Next, TDS!EndScan
  <2>4. CASE ~sharing[u]
    <3>1. UNCHANGED Scanning
      BY <2>1, <2>4 DEF TypeOK, Scanning
    <3>2. unread' = [unread EXCEPT ![t] = @ \ {u}]
      BY <2>1, <2>4
    <3> QED
      BY <1>1, <2>1, <2>2, <2>4, <3>1, <3>2 DEF TDS!Next, TDS!ReadFlag
  <2> QED
    BY <2>3, <2>4
<1> QED
  BY <1>2, <1>3 DEF Scan

\* The list changes under its mutex, while nobody scans it.
LEMMA LinkAdds ==
    ASSUME MutexInv, NEW t \in Thread, NEW point \in ListPoints, NEW next,
           next \notin ScanPoints, LinkPtd(t, point, next)
    PROVE  TDS!Next
<1>1. Scanning = {}
  BY DEF MutexInv, TypeOK, ListInv, Scanning, LinkPtd
<1>2. Scanning' = {}
  BY <1>1 DEF MutexInv, TypeOK, Scanning, LinkPtd
<1> QED
  BY <1>1, <1>2 DEF TDS!Next, TDS!Add, LinkPtd

\* So it is when the data of a thread that ends is taken out.
LEMMA UnlinkRemoves ==
    ASSUME MutexInv, NEW t \in Thread, UnlinkPtd(t)
    PROVE  TDS!Next
<1>1. Scanning = {}
  BY DEF MutexInv, TypeOK, ListInv, Scanning, UnlinkPtd
<1>2. Scanning' = {}
  BY <1>1 DEF MutexInv, TypeOK, Scanning, UnlinkPtd
<1> QED
  BY <1>1, <1>2 DEF TDS!Next, TDS!Remove, UnlinkPtd

\* What each operation does to the list and the flags is a step of ThreadDataSet.
LEMMA RunKeepsSet ==
    ASSUME MutexInv, NEW t \in Thread, Run(t)
    PROVE  [TDS!Next]_(TDS!vars)
<1>1. TypeOK
  BY DEF MutexInv
<1>2. CASE Lock(t)
  <2>1. CASE BeginScan(t, "LU2", "LU2scan")
    BY <1>1, <2>1, ScanBegins
  <2>2. CASE Scan(t, "LU2scan", "LU3", "LU_wait")
    BY <1>1, <2>2, ScanGoesOn
  <2> QED
    BY <1>1, <1>2, <2>1, <2>2, OffTheList DEF Lock, Acquire, SetUniq, WaitUniq
<1>3. CASE TryLock(t)
  <2>1. CASE BeginScan(t, "TU1", "TU1scan")
    BY <1>1, <2>1, ScanBegins
  <2>2. CASE Scan(t, "TU1scan", "TU3", "TU_no")
    BY <1>1, <2>2, ScanGoesOn
  <2> QED
    BY <1>1, <1>3, <2>1, <2>2, OffTheList
    DEF TryLock, TryAcquire, SetUniq, GiveUp, ReleaseMtx
<1>4. CASE Unlock(t)
  BY <1>1, <1>4, OffTheList
  DEF Unlock, SetUniq, NotifyAll, ReleaseMtx, NotifyUniqCond, NotifyCas,
      NotifyOne, NotifyClear
<1>5. CASE LockShared(t)
  <2>1. CASE LinkPtd(t, "LS_link", "LS_set")
    BY <2>1, LinkAdds
  <2> QED
    BY <1>1, <1>5, <2>1, OffTheList DEF LockShared, LockList, SetSharing, TestUniq
<1>6. CASE BlockingLockShared(t)
  BY <1>1, <1>6, OffTheList
  DEF BlockingLockShared, Acquire, TestUniq, SetSharing, NotifyUniqCond,
      NotifyCas, NotifyOne, NotifyClear, WaitShared, ReleaseMtx
<1>7. CASE TryLockShared(t)
  <2>1. CASE LinkPtd(t, "TS_link", "TS_set")
    BY <2>1, LinkAdds
  <2> QED
    BY <1>1, <1>7, <2>1, OffTheList
    DEF TryLockShared, LockList, GiveUp, SetSharing, TestUniq
<1>8. CASE UnlockShared(t)
  BY <1>1, <1>8, OffTheList DEF UnlockShared, SetSharing, TestUniq
<1>9. CASE BlockingUnlockShared(t)
  <2>1. CASE \/ BeginScan(t, "US_chk", "US_scan")
             \/ BeginScan(t, "US5chk", "US5scan")
    BY <1>1, <2>1, ScanBegins
  <2>2. CASE \/ Scan(t, "US_scan", "US4", "idle")
             \/ Scan(t, "US5scan", "US4", "idle")
    BY <1>1, <2>2, ScanGoesOn
  <2> QED
    BY <1>1, <1>9, <2>1, <2>2, OffTheList
    DEF BlockingUnlockShared, TestUniq, NotifyUniqCond, NotifyCas, NotifyOne,
        NotifyClear
<1>10. CASE DestroyPtd(t)
  <2>1. CASE UnlinkPtd(t)
    BY <2>1, UnlinkRemoves
  <2> QED
    BY <1>1, <1>10, <2>1, OffTheList DEF DestroyPtd, LockList
<1> QED
  BY <1>2, <1>3, <1>4, <1>5, <1>6, <1>7, <1>8, <1>9, <1>10 DEF Run

\* The list the scans walk is a set that stands still under them, for any
\* number of threads: every scan ends at a flag that is set or with all read.
THEOREM RefinesThreadDataSet == Spec => ImplementsThreadDataSet
<1>1. Init => TDS!Init
  BY DEF Init, TDS!Init, Scanning
<1>2. ASSUME MutexInv, [Next]_vars
      PROVE  [TDS!Next]_(TDS!vars)
  <2>1. ASSUME NEW t \in Thread, Call(t)
        PROVE  [TDS!Next]_(TDS!vars)
    BY <1>2, <2>1, OffTheList DEF MutexInv, Call, Start
  <2>2. CASE UNCHANGED vars \/ \E t \in Thread : SpuriousWakeup(t)
    BY <2>2 DEF vars, SpuriousWakeup, TDS!vars, Scanning
  <2> QED
    BY <1>2, <2>1, <2>2, RunKeepsSet DEF Next
<1> QED
  BY <1>1, <1>2, InvariantHolds, PTL DEF Spec, ImplementsThreadDataSet, TDS!Spec


-----------------------------------------------------------------------------
(***************************************************************************)
(* No thread sleeps for ever for want of a notification, if there is one   *)
(* thread that asks for unique locks.  (With two there is such a stall.)   *)
(***************************************************************************)
OneSeeker == \A t, u \in Lockers \cup TryLockers : t = u

\* The seeker is asleep, or about to be, until a reader has notified it.
AwaitsReader(t) == pc[t] = "LU_wait" \/ t \in wait_uniq_cond

\* A reader that has its flag up, or has lowered it and not yet made sure that
\* the seeker was notified.
DutyPoints ==
    FlagPoints \cup {"LS_cas", "LS_one", "US1", "US_chk", "US_scan", "US4",
                     "US4one", "US4clear", "US5", "US5chk", "US5scan"}

\* From the announcement of lock() to the notification of the readers asleep.
PromisePoints ==
    {"LU1", "LU2", "LU2scan", "LU3", "LU_wait", "LU_cv", "unique", "UU_all"}

\* Only a seeker's code is at a point of the functions it calls.
SeekerInv ==
    \A t \in Thread :
        pc[t] \in LockPoints \cup TryLockPoints \cup UnlockPoints \cup {"unique"}
            => t \in Lockers \cup TryLockers

\* uniq stays 'want' while the seeker is asleep, and is so on its account.
WantInv ==
    /\ \A t \in Thread : pc[t] = "LU_cv" => uniq = "want"
    /\ uniq = "want" =>
         \E t \in Thread : pc[t] \in {"LU1", "LU2", "LU2scan", "LU3", "LU_wait",
                                     "LU_cv", "TU1", "TU1scan", "TU3", "TU_no"}

\* The flag of notify_uniq_cond() is set by a thread still at work in it.
CasInv == notify_uniq_cond => \E t \in Thread : pc[t] \in NotifyPoints

\* Some reader has yet to notify the seeker that sleeps.
DutyInv ==
    (\E t \in Thread : AwaitsReader(t)) => \E u \in Thread : pc[u] \in DutyPoints

\* The seeker has yet to notify the readers that sleep or are about to.
PromiseInv ==
    (\E t \in Thread : \/ t \in wait_shared_cond
                       \/ pc[t] \in {"LS3", "LS_cas", "LS_one", "LS_clear", "LS_wait"})
        => \E u \in Thread : pc[u] \in PromisePoints

WakeInv == SeekerInv /\ WantInv /\ CasInv /\ DutyInv /\ PromiseInv

\* Nobody is asleep, nobody is to be notified.
LEMMA WakeInitial == Init => WakeInv
BY DEF Init, WakeInv, SeekerInv, WantInv, CasInv, DutyInv, PromiseInv, AwaitsReader,
       LockPoints, TryLockPoints, UnlockPoints

\* lock() keeps the promises.
LEMMA LockWakes ==
    ASSUME MutexInv, WakeInv, OneSeeker, NEW t \in Thread, Lock(t)
    PROVE  WakeInv'
<1> USE DEF Lock, Acquire, SetUniq, BeginScan, Scan, ReadFlag, EndScan, WaitUniq
<1>1. SeekerInv'
  BY DEF MutexInv, TypeOK, WakeInv, SeekerInv, LockPoints, TryLockPoints, UnlockPoints
<1>2. WantInv'
  BY DEF MutexInv, TypeOK, OwnerInv, UniqInv, YesInv, WakeInv, WantInv, SeekerInv,
         OneSeeker, LockPoints, TryLockPoints, UnlockPoints
<1>3. CasInv'
  <2>1. notify_uniq_cond' => notify_uniq_cond \/ pc'[t] \in NotifyPoints
    BY DEF MutexInv, TypeOK
  <2>2. ASSUME NEW u \in Thread, pc[u] \in NotifyPoints, notify_uniq_cond'
        PROVE  pc'[u] \in NotifyPoints
    BY <2>2 DEF MutexInv, TypeOK
  <2> QED
    BY <2>1, <2>2 DEF WakeInv, CasInv
<1>4. DutyInv'
  BY DEF MutexInv, TypeOK, OwnerInv, UniqInv, FlagInv, ParkInv, NotifyInv, WakeInv,
         WantInv, CasInv, DutyInv, AwaitsReader, DutyPoints, SeekerInv, OneSeeker,
         LockPoints, UnlockPoints
<1>5. PromiseInv'
  BY DEF MutexInv, TypeOK, OwnerInv, UniqInv, YesInv, ParkInv, WakeInv, WantInv,
         PromiseInv, PromisePoints
<1> QED
  BY <1>1, <1>2, <1>3, <1>4, <1>5 DEF WakeInv

\* try_lock() keeps the promises.
LEMMA TryLockWakes ==
    ASSUME MutexInv, WakeInv, OneSeeker, NEW t \in Thread, TryLock(t)
    PROVE  WakeInv'
<1> USE DEF TryLock, TryAcquire, SetUniq, BeginScan, GiveUp, Scan, ReadFlag,
             EndScan, ReleaseMtx
<1>1. SeekerInv'
  BY DEF MutexInv, TypeOK, WakeInv, SeekerInv, LockPoints, TryLockPoints, UnlockPoints
<1>2. WantInv'
  BY DEF MutexInv, TypeOK, OwnerInv, UniqInv, YesInv, WakeInv, WantInv, SeekerInv,
         OneSeeker, LockPoints, TryLockPoints, UnlockPoints
<1>3. CasInv'
  <2>1. notify_uniq_cond' => notify_uniq_cond \/ pc'[t] \in NotifyPoints
    BY DEF MutexInv, TypeOK
  <2>2. ASSUME NEW u \in Thread, pc[u] \in NotifyPoints, notify_uniq_cond'
        PROVE  pc'[u] \in NotifyPoints
    BY <2>2 DEF MutexInv, TypeOK
  <2> QED
    BY <2>1, <2>2 DEF WakeInv, CasInv
<1>4. DutyInv'
  BY DEF MutexInv, TypeOK, OwnerInv, UniqInv, FlagInv, ParkInv, NotifyInv, WakeInv,
         WantInv, CasInv, DutyInv, AwaitsReader, DutyPoints, SeekerInv, OneSeeker,
         LockPoints, UnlockPoints
<1>5. PromiseInv'
  BY DEF MutexInv, TypeOK, OwnerInv, UniqInv, YesInv, ParkInv, WakeInv, WantInv,
         PromiseInv, PromisePoints
<1> QED
  BY <1>1, <1>2, <1>3, <1>4, <1>5 DEF WakeInv

\* unlock() keeps the promises.
LEMMA UnlockWakes ==
    ASSUME MutexInv, WakeInv, OneSeeker, NEW t \in Thread, Unlock(t)
    PROVE  WakeInv'
<1> USE DEF Unlock, SetUniq, NotifyAll, ReleaseMtx, NotifyUniqCond, NotifyCas,
             NotifyOne, NotifyClear
<1>1. SeekerInv'
  BY DEF MutexInv, TypeOK, WakeInv, SeekerInv, LockPoints, TryLockPoints, UnlockPoints
<1>2. WantInv'
  BY DEF MutexInv, TypeOK, OwnerInv, UniqInv, YesInv, WakeInv, WantInv, SeekerInv,
         OneSeeker, LockPoints, TryLockPoints, UnlockPoints
<1>3. CasInv'
  <2>1. notify_uniq_cond' => notify_uniq_cond \/ pc'[t] \in NotifyPoints
    BY DEF MutexInv, TypeOK
  <2>2. ASSUME NEW u \in Thread, pc[u] \in NotifyPoints, notify_uniq_cond'
        PROVE  pc'[u] \in NotifyPoints
    BY <2>2 DEF MutexInv, TypeOK
  <2> QED
    BY <2>1, <2>2 DEF WakeInv, CasInv
<1>4. DutyInv'
  BY DEF MutexInv, TypeOK, OwnerInv, UniqInv, FlagInv, ParkInv, NotifyInv, WakeInv,
         WantInv, CasInv, DutyInv, AwaitsReader, DutyPoints, SeekerInv, OneSeeker,
         LockPoints, UnlockPoints
<1>5. PromiseInv'
  BY DEF MutexInv, TypeOK, OwnerInv, UniqInv, YesInv, ParkInv, WakeInv, WantInv,
         PromiseInv, PromisePoints
<1> QED
  BY <1>1, <1>2, <1>3, <1>4, <1>5 DEF WakeInv

\* lock_shared() keeps the promises.
LEMMA LockSharedWakes ==
    ASSUME MutexInv, WakeInv, OneSeeker, NEW t \in Thread, LockShared(t)
    PROVE  WakeInv'
<1> USE DEF LockShared, LockList, LinkPtd, SetSharing, TestUniq
<1>1. SeekerInv'
  BY DEF MutexInv, TypeOK, WakeInv, SeekerInv, LockPoints, TryLockPoints, UnlockPoints
<1>2. WantInv'
  BY DEF MutexInv, TypeOK, OwnerInv, UniqInv, YesInv, WakeInv, WantInv, SeekerInv,
         OneSeeker, LockPoints, TryLockPoints, UnlockPoints
<1>3. CasInv'
  <2>1. notify_uniq_cond' => notify_uniq_cond \/ pc'[t] \in NotifyPoints
    BY DEF MutexInv, TypeOK
  <2>2. ASSUME NEW u \in Thread, pc[u] \in NotifyPoints, notify_uniq_cond'
        PROVE  pc'[u] \in NotifyPoints
    BY <2>2 DEF MutexInv, TypeOK
  <2> QED
    BY <2>1, <2>2 DEF WakeInv, CasInv
<1>4. DutyInv'
  BY DEF MutexInv, TypeOK, OwnerInv, UniqInv, FlagInv, ParkInv, NotifyInv, WakeInv,
         WantInv, CasInv, DutyInv, AwaitsReader, DutyPoints, SeekerInv, OneSeeker,
         LockPoints, UnlockPoints
<1>5. PromiseInv'
  BY DEF MutexInv, TypeOK, OwnerInv, UniqInv, YesInv, ParkInv, WakeInv, WantInv,
         PromiseInv, PromisePoints
<1> QED
  BY <1>1, <1>2, <1>3, <1>4, <1>5 DEF WakeInv

\* blocking_lock_shared() keeps the promises.
LEMMA BlockingLockSharedWakes ==
    ASSUME MutexInv, WakeInv, OneSeeker, NEW t \in Thread, BlockingLockShared(t)
    PROVE  WakeInv'
<1> USE DEF BlockingLockShared, Acquire, TestUniq, SetSharing, NotifyUniqCond,
             NotifyCas, NotifyOne, NotifyClear, WaitShared, ReleaseMtx
<1>1. SeekerInv'
  BY DEF MutexInv, TypeOK, WakeInv, SeekerInv, LockPoints, TryLockPoints, UnlockPoints
<1>2. WantInv'
  BY DEF MutexInv, TypeOK, OwnerInv, UniqInv, YesInv, WakeInv, WantInv, SeekerInv,
         OneSeeker, LockPoints, TryLockPoints, UnlockPoints
<1>3. CasInv'
  <2>1. notify_uniq_cond' => notify_uniq_cond \/ pc'[t] \in NotifyPoints
    BY DEF MutexInv, TypeOK
  <2>2. ASSUME NEW u \in Thread, pc[u] \in NotifyPoints, notify_uniq_cond'
        PROVE  pc'[u] \in NotifyPoints
    BY <2>2 DEF MutexInv, TypeOK
  <2> QED
    BY <2>1, <2>2 DEF WakeInv, CasInv
<1>4. DutyInv'
  BY DEF MutexInv, TypeOK, OwnerInv, UniqInv, FlagInv, ParkInv, NotifyInv, WakeInv,
         WantInv, CasInv, DutyInv, AwaitsReader, DutyPoints, SeekerInv, OneSeeker,
         LockPoints, UnlockPoints
<1>5. PromiseInv'
  BY DEF MutexInv, TypeOK, OwnerInv, UniqInv, YesInv, ParkInv, WakeInv, WantInv,
         PromiseInv, PromisePoints
<1> QED
  BY <1>1, <1>2, <1>3, <1>4, <1>5 DEF WakeInv

\* try_lock_shared() keeps the promises.
LEMMA TryLockSharedWakes ==
    ASSUME MutexInv, WakeInv, OneSeeker, NEW t \in Thread, TryLockShared(t)
    PROVE  WakeInv'
<1> USE DEF TryLockShared, LockList, GiveUp, LinkPtd, SetSharing, TestUniq
<1>1. SeekerInv'
  BY DEF MutexInv, TypeOK, WakeInv, SeekerInv, LockPoints, TryLockPoints, UnlockPoints
<1>2. WantInv'
  BY DEF MutexInv, TypeOK, OwnerInv, UniqInv, YesInv, WakeInv, WantInv, SeekerInv,
         OneSeeker, LockPoints, TryLockPoints, UnlockPoints
<1>3. CasInv'
  <2>1. notify_uniq_cond' => notify_uniq_cond \/ pc'[t] \in NotifyPoints
    BY DEF MutexInv, TypeOK
  <2>2. ASSUME NEW u \in Thread, pc[u] \in NotifyPoints, notify_uniq_cond'
        PROVE  pc'[u] \in NotifyPoints
    BY <2>2 DEF MutexInv, TypeOK
  <2> QED
    BY <2>1, <2>2 DEF WakeInv, CasInv
<1>4. DutyInv'
  BY DEF MutexInv, TypeOK, OwnerInv, UniqInv, FlagInv, ParkInv, NotifyInv, WakeInv,
         WantInv, CasInv, DutyInv, AwaitsReader, DutyPoints, SeekerInv, OneSeeker,
         LockPoints, UnlockPoints
<1>5. PromiseInv'
  BY DEF MutexInv, TypeOK, OwnerInv, UniqInv, YesInv, ParkInv, WakeInv, WantInv,
         PromiseInv, PromisePoints
<1> QED
  BY <1>1, <1>2, <1>3, <1>4, <1>5 DEF WakeInv

\* unlock_shared() keeps the promises.
LEMMA UnlockSharedWakes ==
    ASSUME MutexInv, WakeInv, OneSeeker, NEW t \in Thread, UnlockShared(t)
    PROVE  WakeInv'
<1> USE DEF UnlockShared, SetSharing, TestUniq
<1>1. SeekerInv'
  BY DEF MutexInv, TypeOK, WakeInv, SeekerInv, LockPoints, TryLockPoints, UnlockPoints
<1>2. WantInv'
  BY DEF MutexInv, TypeOK, OwnerInv, UniqInv, YesInv, WakeInv, WantInv, SeekerInv,
         OneSeeker, LockPoints, TryLockPoints, UnlockPoints
<1>3. CasInv'
  <2>1. notify_uniq_cond' => notify_uniq_cond \/ pc'[t] \in NotifyPoints
    BY DEF MutexInv, TypeOK
  <2>2. ASSUME NEW u \in Thread, pc[u] \in NotifyPoints, notify_uniq_cond'
        PROVE  pc'[u] \in NotifyPoints
    BY <2>2 DEF MutexInv, TypeOK
  <2> QED
    BY <2>1, <2>2 DEF WakeInv, CasInv
<1>4. DutyInv'
  BY DEF MutexInv, TypeOK, OwnerInv, UniqInv, FlagInv, ParkInv, NotifyInv, WakeInv,
         WantInv, CasInv, DutyInv, AwaitsReader, DutyPoints, SeekerInv, OneSeeker,
         LockPoints, UnlockPoints
<1>5. PromiseInv'
  BY DEF MutexInv, TypeOK, OwnerInv, UniqInv, YesInv, ParkInv, WakeInv, WantInv,
         PromiseInv, PromisePoints
<1> QED
  BY <1>1, <1>2, <1>3, <1>4, <1>5 DEF WakeInv

\* blocking_unlock_shared() keeps the promises.
LEMMA BlockingUnlockSharedWakes ==
    ASSUME MutexInv, WakeInv, OneSeeker, NEW t \in Thread, BlockingUnlockShared(t)
    PROVE  WakeInv'
<1> USE DEF BlockingUnlockShared, BeginScan, Scan, ReadFlag, EndScan,
             NotifyUniqCond, NotifyCas, NotifyOne, NotifyClear, TestUniq
<1>1. SeekerInv'
  BY DEF MutexInv, TypeOK, WakeInv, SeekerInv, LockPoints, TryLockPoints, UnlockPoints
<1>2. WantInv'
  BY DEF MutexInv, TypeOK, OwnerInv, UniqInv, YesInv, WakeInv, WantInv, SeekerInv,
         OneSeeker, LockPoints, TryLockPoints, UnlockPoints
<1>3. CasInv'
  <2>1. notify_uniq_cond' => notify_uniq_cond \/ pc'[t] \in NotifyPoints
    BY DEF MutexInv, TypeOK
  <2>2. ASSUME NEW u \in Thread, pc[u] \in NotifyPoints, notify_uniq_cond'
        PROVE  pc'[u] \in NotifyPoints
    BY <2>2 DEF MutexInv, TypeOK
  <2> QED
    BY <2>1, <2>2 DEF WakeInv, CasInv
<1>4. DutyInv'
  BY DEF MutexInv, TypeOK, OwnerInv, UniqInv, FlagInv, ParkInv, NotifyInv, WakeInv,
         WantInv, CasInv, DutyInv, AwaitsReader, DutyPoints, SeekerInv, OneSeeker,
         LockPoints, UnlockPoints
<1>5. PromiseInv'
  BY DEF MutexInv, TypeOK, OwnerInv, UniqInv, YesInv, ParkInv, WakeInv, WantInv,
         PromiseInv, PromisePoints
<1> QED
  BY <1>1, <1>2, <1>3, <1>4, <1>5 DEF WakeInv

\* The end of a thread keeps the promises.
LEMMA DestroyPtdWakes ==
    ASSUME MutexInv, WakeInv, OneSeeker, NEW t \in Thread, DestroyPtd(t)
    PROVE  WakeInv'
<1> USE DEF DestroyPtd, LockList, UnlinkPtd
<1>1. SeekerInv'
  BY DEF MutexInv, TypeOK, WakeInv, SeekerInv, LockPoints, TryLockPoints, UnlockPoints
<1>2. WantInv'
  BY DEF MutexInv, TypeOK, OwnerInv, UniqInv, YesInv, WakeInv, WantInv, SeekerInv,
         OneSeeker, LockPoints, TryLockPoints, UnlockPoints
<1>3. CasInv'
  <2>1. notify_uniq_cond' => notify_uniq_cond \/ pc'[t] \in NotifyPoints
    BY DEF MutexInv, TypeOK
  <2>2. ASSUME NEW u \in Thread, pc[u] \in NotifyPoints, notify_uniq_cond'
        PROVE  pc'[u] \in NotifyPoints
    BY <2>2 DEF MutexInv, TypeOK
  <2> QED
    BY <2>1, <2>2 DEF WakeInv, CasInv
<1>4. DutyInv'
  BY DEF MutexInv, TypeOK, OwnerInv, UniqInv, FlagInv, ParkInv, NotifyInv, WakeInv,
         WantInv, CasInv, DutyInv, AwaitsReader, DutyPoints, SeekerInv, OneSeeker,
         LockPoints, UnlockPoints
<1>5. PromiseInv'
  BY DEF MutexInv, TypeOK, OwnerInv, UniqInv, YesInv, ParkInv, WakeInv, WantInv,
         PromiseInv, PromisePoints
<1> QED
  BY <1>1, <1>2, <1>3, <1>4, <1>5 DEF WakeInv

\* A call keeps the promises.
LEMMA CallWakes ==
    ASSUME MutexInv, WakeInv, OneSeeker, NEW t \in Thread, Call(t)
    PROVE  WakeInv'
<1> USE DEF Call, Start
<1>1. SeekerInv'
  BY DEF MutexInv, TypeOK, WakeInv, SeekerInv, LockPoints, TryLockPoints, UnlockPoints
<1>2. WantInv'
  BY DEF MutexInv, TypeOK, OwnerInv, UniqInv, YesInv, WakeInv, WantInv, SeekerInv,
         OneSeeker, LockPoints, TryLockPoints, UnlockPoints
<1>3. CasInv'
  <2>1. notify_uniq_cond' => notify_uniq_cond \/ pc'[t] \in NotifyPoints
    BY DEF MutexInv, TypeOK
  <2>2. ASSUME NEW u \in Thread, pc[u] \in NotifyPoints, notify_uniq_cond'
        PROVE  pc'[u] \in NotifyPoints
    BY <2>2 DEF MutexInv, TypeOK
  <2> QED
    BY <2>1, <2>2 DEF WakeInv, CasInv
<1>4. DutyInv'
  BY DEF MutexInv, TypeOK, OwnerInv, UniqInv, FlagInv, ParkInv, NotifyInv, WakeInv,
         WantInv, CasInv, DutyInv, AwaitsReader, DutyPoints, SeekerInv, OneSeeker,
         LockPoints, UnlockPoints
<1>5. PromiseInv'
  BY DEF MutexInv, TypeOK, OwnerInv, UniqInv, YesInv, ParkInv, WakeInv, WantInv,
         PromiseInv, PromisePoints
<1> QED
  BY <1>1, <1>2, <1>3, <1>4, <1>5 DEF WakeInv

\* A spurious wakeup keeps the promises.
LEMMA SpuriousWakeupWakes ==
    ASSUME MutexInv, WakeInv, OneSeeker, NEW t \in Thread, SpuriousWakeup(t)
    PROVE  WakeInv'
<1> USE DEF SpuriousWakeup
<1>1. SeekerInv'
  BY DEF MutexInv, TypeOK, WakeInv, SeekerInv, LockPoints, TryLockPoints, UnlockPoints
<1>2. WantInv'
  BY DEF MutexInv, TypeOK, OwnerInv, UniqInv, YesInv, WakeInv, WantInv, SeekerInv,
         OneSeeker, LockPoints, TryLockPoints, UnlockPoints
<1>3. CasInv'
  <2>1. notify_uniq_cond' => notify_uniq_cond \/ pc'[t] \in NotifyPoints
    BY DEF MutexInv, TypeOK
  <2>2. ASSUME NEW u \in Thread, pc[u] \in NotifyPoints, notify_uniq_cond'
        PROVE  pc'[u] \in NotifyPoints
    BY <2>2 DEF MutexInv, TypeOK
  <2> QED
    BY <2>1, <2>2 DEF WakeInv, CasInv
<1>4. DutyInv'
  BY DEF MutexInv, TypeOK, OwnerInv, UniqInv, FlagInv, ParkInv, NotifyInv, WakeInv,
         WantInv, CasInv, DutyInv, AwaitsReader, DutyPoints, SeekerInv, OneSeeker,
         LockPoints, UnlockPoints
<1>5. PromiseInv'
  BY DEF MutexInv, TypeOK, OwnerInv, UniqInv, YesInv, ParkInv, WakeInv, WantInv,
         PromiseInv, PromisePoints
<1> QED
  BY <1>1, <1>2, <1>3, <1>4, <1>5 DEF WakeInv

\* Every step keeps the promises.
LEMMA StepWakes ==
    ASSUME MutexInv, WakeInv, OneSeeker, [Next]_vars
    PROVE  WakeInv'
<1>1. ASSUME NEW t \in Thread, Call(t) \/ Run(t) \/ SpuriousWakeup(t) PROVE WakeInv'
  BY <1>1, LockWakes, TryLockWakes, UnlockWakes, LockSharedWakes,
     BlockingLockSharedWakes, TryLockSharedWakes, UnlockSharedWakes,
     BlockingUnlockSharedWakes, DestroyPtdWakes, CallWakes, SpuriousWakeupWakes DEF Run
<1>2. CASE UNCHANGED vars
  BY <1>2 DEF vars, WakeInv, SeekerInv, WantInv, CasInv, DutyInv, PromiseInv, AwaitsReader
<1> QED
  BY <1>1, <1>2 DEF Next

\* Whoever sleeps waits for somebody who is awake and inside an operation, if
\* unique locks are asked for by one thread at most.
LEMMA SleepersHaveHope == MutexInv /\ WakeInv => NoSilentStall
<1> SUFFICES ASSUME MutexInv, WakeInv, NEW t \in Thread, Parked(t)
             PROVE  \E u \in Thread : ~Parked(u) /\ pc[u] # "idle"
  BY DEF NoSilentStall
<1>1. \A u \in Thread : pc[u] \in DutyPoints => ~Parked(u) /\ pc[u] # "idle"
  BY DEF MutexInv, ParkInv, Parked, DutyPoints
<1>2. CASE \E u \in Thread : AwaitsReader(u)
  BY <1>1, <1>2 DEF WakeInv, DutyInv
<1>3. CASE \A u \in Thread : ~AwaitsReader(u)
  <2>1. PICK u \in Thread : pc[u] \in PromisePoints
    BY <1>3 DEF WakeInv, PromiseInv, Parked, AwaitsReader
  <2> QED
    BY <1>3, <2>1 DEF MutexInv, ParkInv, Parked, AwaitsReader, PromisePoints
<1> QED
  BY <1>2, <1>3

\* The promises are kept for ever.
THEOREM WakeInvHolds == OneSeeker => (Spec => []WakeInv)
<1> SUFFICES ASSUME OneSeeker PROVE Spec => []WakeInv
  OBVIOUS
<1>1. MutexInv /\ WakeInv /\ [Next]_vars => WakeInv'
  BY StepWakes
<1> QED
  BY <1>1, WakeInitial, InvariantHolds, PTL DEF Spec

\* No lost wakeup: with one thread that asks for unique locks and any number of
\* readers, somebody who can still notify is awake whenever anybody sleeps,
\* in every interleaving of the three functions that notify and skip a
\* notification when another thread is at it.
THEOREM NoSilentStallHolds == OneSeeker => (Spec => []NoSilentStall)
<1> SUFFICES ASSUME OneSeeker PROVE Spec => []NoSilentStall
  OBVIOUS
<1> QED
  BY WakeInvHolds, InvariantHolds, SleepersHaveHope, PTL
=============================================================================
