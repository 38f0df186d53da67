---------------------------- MODULE SharedMutex ----------------------------
(***************************************************************************)
(* What a shared mutex promises its callers: the interface of              *)
(* std::shared_mutex, which ru_shared_mutex.h says every instantiation of  *)
(* ru_shared_mutex::c has.  Every operation takes effect in one step.      *)
(* RuSharedMutex is shown to implement this module.                        *)
(***************************************************************************)

CONSTANT Thread    \* the threads of the program

VARIABLE mode      \* what each thread is doing with the mutex

Waiting == {"lock", "try_lock", "lock_shared", "try_lock_shared"}
Modes   == {"out", "unique", "shared"} \cup Waiting

Init == mode = [t \in Thread |-> "out"]

Become(t, m) == mode' = [mode EXCEPT ![t] = m]

Call(t) ==
    /\ mode[t] = "out"
    /\ \E m \in Waiting : Become(t, m)

\* lock() and try_lock() obtain the mutex only while nobody holds it.
ObtainUnique(t) ==
    /\ mode[t] \in {"lock", "try_lock"}
    /\ \A u \in Thread : mode[u] \notin {"unique", "shared"}
    /\ Become(t, "unique")

\* lock_shared() and try_lock_shared() obtain it while nobody holds it unique.
ObtainShared(t) ==
    /\ mode[t] \in {"lock_shared", "try_lock_shared"}
    /\ \A u \in Thread : mode[u] # "unique"
    /\ Become(t, "shared")

\* Only the two try operations may come back without the mutex.
Refuse(t) ==
    /\ mode[t] \in {"try_lock", "try_lock_shared"}
    /\ Become(t, "out")

Release(t) ==
    /\ mode[t] \in {"unique", "shared"}
    /\ Become(t, "out")

Next == \E t \in Thread :
    Call(t) \/ ObtainUnique(t) \/ ObtainShared(t) \/ Refuse(t) \/ Release(t)

Spec == Init /\ [][Next]_mode
=============================================================================
