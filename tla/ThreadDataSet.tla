--------------------------- MODULE ThreadDataSet ---------------------------
(* What the threads of a ru_shared_mutex may rely on of the list of their    *)
(* per-thread data: a set that does not change while anybody is reading it,  *)
(* and scans that end at a flag that is set or with no member left to read.  *)

CONSTANT Thread

VARIABLES
    registered,     \* the threads whose data is in the set
    sharing,        \* the flag of each thread
    scanning,       \* the threads in a scan
    unread          \* thread -> the members its scan has yet to read

vars == <<registered, sharing, scanning, unread>>

Init ==
    /\ registered = {} /\ scanning = {}
    /\ sharing = [t \in Thread |-> FALSE]
    /\ unread = [t \in Thread |-> {}]

Add(t) ==
    /\ scanning = {}
    /\ registered' = registered \cup {t}
    /\ UNCHANGED <<sharing, scanning, unread>>

Remove(t) ==
    /\ scanning = {}
    /\ registered' = registered \ {t}
    /\ UNCHANGED <<sharing, scanning, unread>>

SetFlag(t) ==
    /\ \E b \in BOOLEAN : sharing' = [sharing EXCEPT ![t] = b]
    /\ UNCHANGED <<registered, scanning, unread>>

BeginScan(t) ==
    /\ t \notin scanning
    /\ scanning' = scanning \cup {t}
    /\ unread' = [unread EXCEPT ![t] = registered]
    /\ UNCHANGED <<registered, sharing>>

ReadFlag(t, u) ==
    /\ t \in scanning /\ u \in unread[t] /\ ~sharing[u]
    /\ unread' = [unread EXCEPT ![t] = @ \ {u}]
    /\ UNCHANGED <<registered, sharing, scanning>>

EndScan(t) ==
    /\ t \in scanning
    /\ unread[t] = {} \/ \E u \in unread[t] : sharing[u]
    /\ scanning' = scanning \ {t}
    /\ unread' = [unread EXCEPT ![t] = {}]
    /\ UNCHANGED <<registered, sharing>>

Next ==
    \E t \in Thread :
        \/ Add(t) \/ Remove(t) \/ SetFlag(t) \/ BeginScan(t) \/ EndScan(t)
        \/ \E u \in Thread : ReadFlag(t, u)

Spec == Init /\ [][Next]_vars
=============================================================================
