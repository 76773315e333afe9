-------------------------- MODULE SessionLocksQueue -------------------------
(***************************************************************************)
(* SessionLocks with its waiting line written down: a history variable     *)
(* holds the calls of each key that are chained, oldest first.  The code   *)
(* keeps no such list: each call only knows the promise of the one before  *)
(* it.  With the line at hand, the chain of promises can be compared, step *)
(* by step, with the queue of FifoLease.                                   *)
(***************************************************************************)
EXTENDS SessionLocks, Sequences

VARIABLE queue   \* history: [Keys -> Seq(Calls)]

QueueInit == Init /\ queue = [k \in Keys |-> <<>>]

\* A call that chains itself behind the tail goes to the end of the line,
Arrives(c) == WithLock(c) /\ queue' = [queue EXCEPT ![KeyOf[c]] = Append(@, c)]

\* and the one that resolves its promise leaves the front of it.
Departs(c) == Leave(c) /\ queue' = [queue EXCEPT ![KeyOf[c]] = Tail(@)]

Stays(c) == (Start(c) \/ Touch(c) \/ WorkSettles(c) \/ Expire(c)) /\ UNCHANGED queue

QueueNext ==
    \/ \E c \in Calls : Arrives(c) \/ Stays(c) \/ Departs(c)
    \/ Tick /\ UNCHANGED queue

QueueSpec == QueueInit /\ [][QueueNext]_<<vars, queue>>

FairQueueSpec == QueueSpec /\ Fairness

\* A call was given its key when its work was started.
Line == INSTANCE FifoLease WITH granted <- {c \in Calls : work[c] # "none"}

\* The chain of promises of withLock is a FIFO queue per key whose head alone
\* is granted: calls get the session in the order they asked for it, even
\* around holders whose lease expired.
FifoGrant == Line!AbsSpec
=============================================================================
