----------------------------- MODULE FifoLease ------------------------------
(***************************************************************************)
(* What SessionLocks promises, without promises, timers or heartbeats: one *)
(* FIFO queue per key, whose head alone may run, and which the head leaves *)
(* when its lease ends, whether its work finished or was given up on.      *)
(***************************************************************************)
EXTENDS Naturals, Sequences

CONSTANTS Keys, Calls, KeyOf

VARIABLES
    queue,    \* [Keys -> Seq(Calls)]: in order of arrival
    granted   \* the calls that were given the key

absVars == <<queue, granted>>

InQueue(c) == \E i \in 1..Len(queue[KeyOf[c]]) : queue[KeyOf[c]][i] = c

IsHead(c) == queue[KeyOf[c]] # <<>> /\ Head(queue[KeyOf[c]]) = c

AbsInit ==
    /\ queue = [k \in Keys |-> <<>>]
    /\ granted = {}

\* A call arrives behind every call already there.
Join(c) ==
    /\ c \notin granted
    /\ ~InQueue(c)
    /\ queue' = [queue EXCEPT ![KeyOf[c]] = Append(@, c)]
    /\ UNCHANGED granted

\* Only the head is given the key, and only once.
Grant(c) ==
    /\ IsHead(c)
    /\ c \notin granted
    /\ granted' = granted \cup {c}
    /\ UNCHANGED queue

\* The lease of the head ends.
Drop(c) ==
    /\ IsHead(c)
    /\ c \in granted
    /\ queue' = [queue EXCEPT ![KeyOf[c]] = Tail(@)]
    /\ UNCHANGED granted

AbsNext == \E c \in Calls : Join(c) \/ Grant(c) \/ Drop(c)

AbsSpec == AbsInit /\ [][AbsNext]_absVars
=============================================================================
