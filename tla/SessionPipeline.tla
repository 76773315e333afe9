--------------------------- MODULE SessionPipeline ---------------------------
(***************************************************************************)
(* One session of the inbound batcher and the users of its lock:           *)
(*                                                                         *)
(*   src/src/channels/pipeline.ts      enqueue, flushLocked, cancelQueued  *)
(*   src/src/channels/turn.ts          scheduleDeferredCompact             *)
(*   src/src/channels/compact-gate.ts  registerCompact, clearCompact,      *)
(*                                     abortActiveCompact                  *)
(*                                                                         *)
(* A hold is one call of withLock on the session's key: a flush of the     *)
(* bucket, a deferred /compact, or another user of the lock (cron fire,    *)
(* recovery turn).  The lock is the FIFO lease of FifoLease; an expired    *)
(* lease leaves its function running (a zombie).  Ids of holds are reused. *)
(*                                                                         *)
(* Time is counted in ticks of the debounce timer.  Code after an await    *)
(* runs before another timer fires, so time waits for it (see Quiet).      *)
(***************************************************************************)
EXTENDS Naturals, Sequences

CONSTANTS
    Msgs,       \* messages of the session, each enqueued at most once
    WindowOf,   \* windowFor: how long a message holds its batch open
    MaxMs,      \* cap from the first message of the bucket
    Flushes,    \* ids of flush holds
    Compacts,   \* ids of compact holds
    Others,     \* ids of the other holds
    None

Holds == Flushes \cup Compacts \cup Others

ASSUME MaxAssumption    == MaxMs \in Nat
ASSUME WindowAssumption == WindowOf \in [Msgs -> Nat]
ASSUME HoldAssumption   == /\ Flushes \cap Compacts = {}
                           /\ (Flushes \cup Compacts) \cap Others = {}
                           /\ None \notin Holds
ASSUME NoneAssumption   == None \notin Nat

VARIABLES
    queue,    \* b.queue
    waited,   \* ticks since b.firstAt (null while the queue is empty), up to MaxMs
    timer,    \* ticks left on b.timer, or None
    chain,    \* the holds of the session lock, oldest first
    phase,    \* where each hold is
    owed,     \* flush holds whose .finally has not run yet
    reg,      \* compact-gate: the registered compact
    aborted,  \* compacts whose controller was aborted
    sent,     \* history: messages ever enqueued
    handled   \* history: messages given to the handler or cancelled

bucketVars == <<queue, waited, timer>>
lockVars   == <<chain, phase, owed>>
gateVars   == <<reg, aborted>>
vars == <<bucketVars, lockVars, gateVars, sent, handled>>

\* A zombie's lease ended while its function runs on.
Phases == {"idle", "queued", "held", "zombie"}

TypeOK ==
    /\ queue \in Seq(Msgs)
    /\ waited \in 0..MaxMs
    /\ timer \in Nat \cup {None}
    /\ chain \in Seq(Holds)
    /\ phase \in [Holds -> Phases]
    /\ owed \subseteq Flushes
    /\ reg \in Compacts \cup {None}
    /\ aborted \subseteq Compacts
    /\ sent \subseteq Msgs
    /\ handled \subseteq sent

Init ==
    /\ queue = <<>>
    /\ waited = 0
    /\ timer = None
    /\ chain = <<>>
    /\ phase = [h \in Holds |-> "idle"]
    /\ owed = {}
    /\ reg = None
    /\ aborted = {}
    /\ sent = {}
    /\ handled = {}

-----------------------------------------------------------------------------
(* Helpers *)

Least(a, b) == IF a <= b THEN a ELSE b

Queued == {queue[i] : i \in DOMAIN queue}

\* The lock was granted to h, or is about to be.
AtHead(h) == chain # <<>> /\ Head(chain) = h

\* A hold that can be asked for: an id that is free again.
Free(h) == phase[h] = "idle" /\ h \notin owed

\* withLock: join the chain.
Join(h) ==
    /\ Free(h)
    /\ chain' = Append(chain, h)
    /\ phase' = [phase EXCEPT ![h] = "queued"]

\* No continuation is ready: the head of the chain has started, and no
\* .finally is pending.
Quiet == owed = {} /\ (chain # <<>> => phase[Head(chain)] # "queued")

\* Mutant of FlushLocked: a flush is not asked for while the lock is taken.
FlushLockedIfFree ==
    IF queue = <<>> \/ chain # <<>>
    THEN UNCHANGED <<chain, phase>>
    ELSE \E h \in Flushes : Join(h)

\* flushLocked: ask for the session lock unless the bucket is empty.
FlushLocked ==
    IF queue = <<>>
    THEN UNCHANGED <<chain, phase>>
    ELSE \E h \in Flushes : Join(h)

-----------------------------------------------------------------------------
(* Actions *)

\* Mutant of Window: the cap from the first message is forgotten.
WindowUncapped(m) == WindowOf[m]

\* How long enqueue waits on m: the window of the message within what is left
\* of the cap.
Window(m) == Least(WindowOf[m], MaxMs - waited)

\* abortActiveCompact: the compacts whose controller is aborted then.
AbortActiveCompact == IF reg = None THEN aborted ELSE aborted \cup {reg}

\* enqueue: abort a running compact, append, and set the timer anew; at the cap
\* the flush is asked for at once.
Enqueue(m) ==
    /\ m \notin sent
    /\ sent' = sent \cup {m}
    /\ reg' = None
    /\ aborted' = AbortActiveCompact
    /\ queue' = Append(queue, m)
    /\ IF Window(m) = 0
       THEN /\ timer' = None
            /\ \E h \in Flushes : Join(h)
       ELSE /\ timer' = Window(m)
            /\ UNCHANGED <<chain, phase>>
    /\ UNCHANGED <<waited, owed, handled>>

\* The debounce timer fires.
Fire ==
    /\ timer = 0
    /\ Quiet
    /\ timer' = None
    /\ FlushLocked
    /\ UNCHANGED <<queue, waited, owed, gateVars, sent, handled>>

\* cancelQueued: drop what has not acquired the lock yet.
CancelQueued ==
    /\ queue # <<>>
    /\ handled' = handled \cup Queued
    /\ queue' = <<>>
    /\ waited' = 0
    /\ timer' = None
    /\ UNCHANGED <<lockVars, gateVars, sent>>

\* A flush is granted the lock: it takes all the bucket holds by now.  With
\* nothing left to take it is over at once.
FlushStarts(h) ==
    /\ h \in Flushes
    /\ AtHead(h)
    /\ phase[h] = "queued"
    /\ handled' = handled \cup Queued
    /\ queue' = <<>>
    /\ waited' = 0
    /\ IF queue = <<>>
       THEN /\ chain' = Tail(chain)
            /\ phase' = [phase EXCEPT ![h] = "idle"]
            /\ owed' = owed \cup {h}
       ELSE /\ phase' = [phase EXCEPT ![h] = "held"]
            /\ UNCHANGED <<chain, owed>>
    /\ UNCHANGED <<timer, gateVars, sent>>

\* The handler of a flush ends; its turn may have asked for a compact, which
\* joins the chain before the lock is released.
FlushEnds(h) ==
    LET left == IF phase[h] = "held" THEN Tail(chain) ELSE chain IN
    /\ h \in Flushes
    /\ phase[h] \in {"held", "zombie"}
    /\ \/ /\ chain' = left
          /\ phase' = [phase EXCEPT ![h] = "idle"]
       \/ \E c \in Compacts :
             /\ Free(c)
             /\ chain' = Append(left, c)
             /\ phase' = [phase EXCEPT ![h] = "idle", ![c] = "queued"]
    /\ owed' = IF phase[h] = "held" THEN owed \cup {h} ELSE owed
    /\ UNCHANGED <<bucketVars, gateVars, sent, handled>>

\* flushLocked's .finally: arm the timer for what has queued up meanwhile.
Finally(h) ==
    /\ h \in owed
    /\ owed' = owed \ {h}
    /\ timer' = IF queue # <<>> /\ timer = None THEN WindowOf[Head(queue)] ELSE timer
    /\ UNCHANGED <<queue, waited, chain, phase, gateVars, sent, handled>>

\* A deferred compact is granted the lock: it is skipped when work is waiting
\* (in the bucket, or parked in the pending file), and registers otherwise.
CompactStarts(h) ==
    /\ h \in Compacts
    /\ AtHead(h)
    /\ phase[h] = "queued"
    /\ \/ /\ chain' = Tail(chain)
          /\ phase' = [phase EXCEPT ![h] = "idle"]
          /\ UNCHANGED reg
       \/ /\ queue = <<>>
          /\ phase' = [phase EXCEPT ![h] = "held"]
          /\ reg' = h
          /\ UNCHANGED chain
    /\ UNCHANGED <<bucketVars, owed, aborted, sent, handled>>

\* Mutant of ClearCompact: without the identity check.
ClearCompactUnchecked(h) == None

\* clearCompact: a stale clear does not drop a newer registration.
ClearCompact(h) == IF reg = h THEN None ELSE reg

\* The compact returns, done, failed or aborted.
CompactEnds(h) ==
    /\ h \in Compacts
    /\ phase[h] \in {"held", "zombie"}
    /\ chain' = IF phase[h] = "held" THEN Tail(chain) ELSE chain
    /\ phase' = [phase EXCEPT ![h] = "idle"]
    /\ reg' = ClearCompact(h)
    /\ aborted' = aborted \ {h}
    /\ UNCHANGED <<bucketVars, owed, sent, handled>>

\* Another user of the lock asks for it, is granted it, and ends: a cron fire or
\* a recovery turn, whose work is left out.
OtherAsks(h) ==
    /\ h \in Others
    /\ Join(h)
    /\ UNCHANGED <<bucketVars, owed, gateVars, sent, handled>>

OtherStarts(h) ==
    /\ h \in Others
    /\ AtHead(h)
    /\ phase[h] = "queued"
    /\ phase' = [phase EXCEPT ![h] = "held"]
    /\ UNCHANGED <<bucketVars, chain, owed, gateVars, sent, handled>>

OtherEnds(h) ==
    /\ h \in Others
    /\ phase[h] \in {"held", "zombie"}
    /\ chain' = IF phase[h] = "held" THEN Tail(chain) ELSE chain
    /\ phase' = [phase EXCEPT ![h] = "idle"]
    /\ UNCHANGED <<bucketVars, owed, gateVars, sent, handled>>

\* The lease of the hold runs out: the lock is released, the call rejects, and
\* the function runs on.
Expire(h) ==
    /\ phase[h] = "held"
    /\ chain' = Tail(chain)
    /\ phase' = [phase EXCEPT ![h] = "zombie"]
    /\ owed' = IF h \in Flushes THEN owed \cup {h} ELSE owed
    /\ UNCHANGED <<bucketVars, gateVars, sent, handled>>

\* Time passes, for the bucket also while its flush waits for the lock and no
\* timer is armed; a timer that is due fires first.
Tick ==
    /\ Quiet
    /\ timer # 0
    /\ timer # None \/ (queue # <<>> /\ waited < MaxMs)
    /\ timer' = IF timer = None THEN None ELSE timer - 1
    /\ waited' = IF queue = <<>> THEN 0 ELSE Least(waited + 1, MaxMs)
    /\ UNCHANGED <<queue, lockVars, gateVars, sent, handled>>

Starts(h) == FlushStarts(h) \/ CompactStarts(h) \/ OtherStarts(h)
Ends(h)   == FlushEnds(h) \/ CompactEnds(h) \/ OtherEnds(h)

Next ==
    \/ \E m \in Msgs : Enqueue(m)
    \/ Fire
    \/ CancelQueued
    \/ \E h \in Holds : Starts(h) \/ Ends(h) \/ Finally(h) \/ Expire(h)
    \/ \E h \in Others : OtherAsks(h)
    \/ Tick

Spec == Init /\ [][Next]_vars

\* Fairness: time passes and due timers fire however often the lock changes
\* hands, continuations run, and a hold ends or its lease does: no user of the
\* lock is active for ever, renewing the lease with heartbeats without end, which
\* by design never times out (the premise of SessionLocks!NoWedge).
FairSpec ==
    /\ Spec
    /\ SF_vars(Tick)
    /\ SF_vars(Fire)
    /\ \A h \in Holds : /\ WF_vars(Starts(h))
                        /\ WF_vars(Ends(h) \/ Expire(h))
                        /\ WF_vars(Finally(h))

-----------------------------------------------------------------------------
(* Properties *)

\* Some flush is waiting for the lock, and will take the bucket when it comes.
FlushAsked == \E i \in DOMAIN chain : chain[i] \in Flushes /\ phase[chain[i]] = "queued"

\* A burst cannot starve itself: though every message opens the window anew, a
\* bucket with messages in it asks for the lock at most MaxMs after the first
\* of them, and no message is left in a bucket that nothing will flush.
BurstIsBounded ==
    queue # <<>> /\ ~FlushAsked => timer # None /\ timer + waited <= MaxMs

\* Real work never waits for maintenance: a compact that holds the session lock
\* while a message is queued has been aborted.
CompactYields ==
    queue # <<>> => \A h \in Compacts : phase[h] = "held" => h \in aborted

\* Every message that is enqueued reaches a turn, or is cancelled, whatever
\* holds the lock meanwhile and whichever leases run out (no hold is active for
\* ever, see FairSpec).
EveryMessageHandled == \A m \in Msgs : m \in sent ~> m \in handled
=============================================================================
