----------------------------- MODULE WorkerPool -----------------------------
(***************************************************************************)
(* The pool of warm workers, and the calls that run turns on it.           *)
(*                                                                         *)
(*   src/src/claude/pool.ts     WorkerPool                                 *)
(*   src/src/claude/runner.ts   runViaPool, coldStartViaPool,              *)
(*                              compactWarmSession                         *)
(*                                                                         *)
(* The daemon is one thread: an action is the code between two awaits, and *)
(* a call that awaits a worker's end goes on with what the others did      *)
(* meanwhile.  Worker.tla models the inside of a worker; here a worker     *)
(* answers a turn, well or not, or dies.  A turn that is never answered is *)
(* ended by the worker's idle timer (Worker!EverythingEnds).               *)
(***************************************************************************)
EXTENDS Naturals, Sequences, FiniteSets

CONSTANTS
    Session,
    Calls,       \* calls of runViaPool and of compactWarmSession
    SessionOf,   \* the session of each
    BindOf,      \* its rebindKey
    CompactCalls,
    Slots,       \* bound: workers known at a time
    MaxWorkers,  \* the cap
    None,
    MaxExtras    \* bound: deaths of workers, failed turns, attempts after
                 \* a failed one, flushes, and calls let in by a lapsed lease

ASSUME PoolAssumption ==
    /\ SessionOf \in [Calls -> Session]
    /\ CompactCalls \subseteq Calls
    /\ {MaxWorkers, MaxExtras} \subseteq Nat
    /\ None \notin Session \cup Slots

VARIABLES
    entry,    \* entries: the worker of each session, or None
    life,     \* process: "none", "up", "closing" (stdin ended), "termed" or "gone"
    dead,     \* worker.isDead
    of, bind, \* what the worker was spawned for
    busy,
    pc,       \* of a call
    work,     \* the worker a call runs on or waits for
    flush,    \* flushAll: sessions left, and the worker it waits for
    stopped,
    lapsed,   \* a lease expired
    extras

vars   == <<entry, life, dead, of, bind, busy, pc, work, flush, stopped,
            lapsed, extras>>
worker == <<life, dead, of, bind, busy>>
call   == <<pc, work>>
bounds == <<lapsed, extras>>

TypeOK ==
    /\ entry \in [Session -> Slots \cup {None}]
    /\ life \in [Slots -> {"none", "up", "closing", "termed", "gone"}]
    /\ dead \in [Slots -> BOOLEAN]
    /\ of \in [Slots -> Session \cup {None}]
    /\ bind \in [Slots -> {BindOf[c] : c \in Calls} \cup {None}]
    /\ busy \in [Slots -> BOOLEAN]
    /\ pc \in [Calls -> {"new", "run", "rebinding", "room", "turn", "healing", "done"}]
    /\ work \in [Calls -> Slots \cup {None}]
    /\ flush \in [left : SUBSET Session, on : Slots \cup {None}]
    /\ stopped \in BOOLEAN
    /\ lapsed \in BOOLEAN
    /\ extras \in 0..MaxExtras
    /\ \A w \in Slots : dead[w] => life[w] \in {"termed", "gone"}

Init ==
    /\ entry = [s \in Session |-> None]
    /\ life = [w \in Slots |-> "none"]
    /\ dead = [w \in Slots |-> FALSE]
    /\ of = [w \in Slots |-> None]
    /\ bind = [w \in Slots |-> None]
    /\ busy = [w \in Slots |-> FALSE]
    /\ pc = [c \in Calls |-> "new"]
    /\ work = [c \in Calls |-> None]
    /\ flush = [left |-> {}, on |-> None]
    /\ stopped = FALSE
    /\ lapsed = FALSE
    /\ extras = 0

Extra(n) == extras + n <= MaxExtras /\ extras' = extras + n

Pooled(ent) == {ent[s] : s \in Session} \ {None}

\* Mutant of Idle: busy workers may be evicted.
IdleAny(ent) == Pooled(ent)

\* The workers an eviction may pick: "never a busy one".
Idle(ent)   == {w \in Pooled(ent) : ~busy[w]}
Without(ent, w) == [s \in Session |-> IF ent[s] = w THEN None ELSE ent[s]]

\* evictLruIdle's choices: which idle worker was used longest ago is a
\* matter of the times of their turns, and any may be the one.
LruIdle(ent) == IF Idle(ent) = {} THEN {None} ELSE Idle(ent)

InFlight(c) == pc[c] \notin {"new", "done"}

\* shutdown(): nothing on a dead worker, or one it was called for before.
Closing(w, l) == IF w # None /\ l[w] = "up" THEN [l EXCEPT ![w] = "closing"] ELSE l

\* What shutdown() resolves on: the process exited, or was sent SIGTERM.
Closed(w) == w # None => life[w] \in {"termed", "gone"}

\* A worker that ended and nobody holds any more leaves its name to another.
Held(w) == w \in Pooled(entry) \/ flush.on = w \/ \E c \in Calls : work[c] = w
Free(w) == ~Held(w) /\ life[w] \in {"none", "gone"}

(***************************************************************************)
(* run().                                                                  *)
(***************************************************************************)

\* turn() on an entry that is not busy.
TakesTurn(c, w) ==
    /\ busy' = [busy EXCEPT ![w] = TRUE]
    /\ pc' = [pc EXCEPT ![c] = "turn"]
    /\ work' = [work EXCEPT ![c] = w]

Goes(c, to, w) ==
    /\ pc' = [pc EXCEPT ![c] = to]
    /\ work' = [work EXCEPT ![c] = w]

Returns(c) == Goes(c, "done", None)

\* new Worker, the entry set whatever it held, and the turn.
Spawn(c) ==
    LET w == CHOOSE v \in Slots : Free(v)
    IN  /\ \E v \in Slots : Free(v)
        /\ life' = [life EXCEPT ![w] = "up"]
        /\ dead' = [dead EXCEPT ![w] = FALSE]
        /\ of' = [of EXCEPT ![w] = SessionOf[c]]
        /\ bind' = [bind EXCEPT ![w] = BindOf[c]]
        /\ entry' = [entry EXCEPT ![SessionOf[c]] = w]
        /\ TakesTurn(c, w)

\* Without an entry: at the cap the least recently used idle worker is
\* evicted, and with none idle the await goes on all the same.
Acquire(c, ent) ==
    IF Cardinality({s \in Session : ent[s] # None}) < MaxWorkers
    THEN Spawn(c)
    ELSE /\ \E lru \in LruIdle(ent) :
              /\ entry' = Without(ent, lru)
              /\ life' = Closing(lru, life)
              /\ Goes(c, "room", lru)
         /\ UNCHANGED <<dead, of, bind, busy>>

\* Mutant of Run: a worker of another loadout is used.
RunAnyBind(c) ==
    /\ pc[c] = "run"
    /\ LET w == entry[SessionOf[c]]
       IN  CASE stopped ->
                  Returns(c) /\ UNCHANGED <<entry, worker>>
             [] ~stopped /\ (w = None \/ (w # None /\ dead[w])) ->
                  Acquire(c, [entry EXCEPT ![SessionOf[c]] = None])
             [] OTHER ->
                  TakesTurn(c, w) /\ UNCHANGED <<entry, life, dead, of, bind>>
    /\ UNCHANGED <<flush, stopped, bounds>>

Run(c) ==
    /\ pc[c] = "run"
    /\ LET s == SessionOf[c]
           w == entry[s]
       IN  CASE stopped ->
                  Returns(c) /\ UNCHANGED <<entry, worker>>
             [] ~stopped /\ w = None ->
                  Acquire(c, entry)
             [] ~stopped /\ w # None /\ bind[w] # BindOf[c] ->
                  /\ entry' = [entry EXCEPT ![s] = None]
                  /\ life' = Closing(w, life)
                  /\ Goes(c, "rebinding", w)
                  /\ UNCHANGED <<dead, of, bind, busy>>
             [] ~stopped /\ w # None /\ bind[w] = BindOf[c] /\ dead[w] ->
                  Acquire(c, [entry EXCEPT ![s] = None])
             [] ~stopped /\ w # None /\ bind[w] = BindOf[c] /\ ~dead[w] /\ busy[w] ->
                  Returns(c) /\ UNCHANGED <<entry, worker>>
             [] OTHER ->
                  TakesTurn(c, w) /\ UNCHANGED <<entry, life, dead, of, bind>>
    /\ UNCHANGED <<flush, stopped, bounds>>

\* After the eviction: the entry is taken to be gone still.
Rebound(c) ==
    /\ pc[c] = "rebinding" /\ Closed(work[c])
    /\ Acquire(c, entry)
    /\ UNCHANGED <<flush, stopped, bounds>>

\* Mutant of RoomMade: without a worker to evict the call waits for one.
RoomMadeByEviction(c) ==
    /\ pc[c] = "room" /\ work[c] # None /\ Closed(work[c])
    /\ Spawn(c)
    /\ UNCHANGED <<flush, stopped, bounds>>

\* After the eviction of another: neither the cap nor the stop is looked at again.
RoomMade(c) ==
    /\ pc[c] = "room" /\ Closed(work[c])
    /\ Spawn(c)
    /\ UNCHANGED <<flush, stopped, bounds>>

(***************************************************************************)
(* The callers.                                                            *)
(***************************************************************************)

\* The session's lock keeps two calls of a session apart, until a lease
\* expires (SessionLocks).
Locked(c) == \E d \in Calls \ {c} : SessionOf[d] = SessionOf[c] /\ InFlight(d)

Asks(c) ==
    /\ pc[c] = "new"
    /\ IF Locked(c) THEN Extra(1) /\ lapsed' = TRUE ELSE UNCHANGED bounds
    /\ UNCHANGED <<flush, stopped>>

RunViaPool(c) ==
    /\ c \notin CompactCalls /\ Asks(c)
    /\ pc' = [pc EXCEPT ![c] = "run"]
    /\ UNCHANGED <<entry, worker, work>>

\* compactIfWarm: only on a warm worker that is not busy.
CompactIfWarm(c) ==
    /\ c \in CompactCalls /\ Asks(c)
    /\ LET w == entry[SessionOf[c]]
       IN  IF w = None \/ (w # None /\ (dead[w] \/ busy[w]))
           THEN Returns(c) /\ UNCHANGED busy
           ELSE TakesTurn(c, w)
    /\ UNCHANGED <<entry, life, dead, of, bind>>

\* Another attempt of the runner after a failed one: a healer that changed
\* the transcript evicts first; an id that was stale, or on disk already, is
\* tried again cold or as a resume.
TriesAgain(c) ==
    /\ c \notin CompactCalls /\ Extra(1)
    /\ \/ /\ Goes(c, "healing", entry[SessionOf[c]])
          /\ life' = Closing(entry[SessionOf[c]], life)
          /\ entry' = [entry EXCEPT ![SessionOf[c]] = None]
       \/ Goes(c, "run", None) /\ UNCHANGED <<entry, life>>

Healed(c) ==
    /\ pc[c] = "healing" /\ Closed(work[c])
    /\ Goes(c, "run", None)
    /\ UNCHANGED <<entry, worker, flush, stopped, bounds>>

\* turn() returned a reply or an error, or its worker died.
TurnEnds(c) ==
    /\ pc[c] = "turn"
    /\ busy' = [busy EXCEPT ![work[c]] = FALSE]
    /\ \/ Returns(c) /\ UNCHANGED <<entry, life, extras>>
       \/ TriesAgain(c)
    /\ UNCHANGED <<dead, of, bind, flush, stopped, lapsed>>

(***************************************************************************)
(* Workers.                                                                *)
(***************************************************************************)

\* die: idle timeout, abort, a missed mid-turn message.
Dies(w) ==
    /\ life[w] \in {"up", "closing"} /\ ~dead[w] /\ Extra(1)
    /\ dead' = [dead EXCEPT ![w] = TRUE]
    /\ life' = [life EXCEPT ![w] = "termed"]
    /\ UNCHANGED <<entry, of, bind, busy, call, flush, stopped, lapsed>>

\* Two seconds after shutdown().
Term(w) ==
    /\ life[w] = "closing"
    /\ life' = [life EXCEPT ![w] = "termed"]
    /\ UNCHANGED <<entry, dead, of, bind, busy, call, flush, stopped, bounds>>

\* The exit event comes with the exit (the lag is in Worker).
Exits(w) ==
    /\ life[w] \in {"up", "closing", "termed"}
    /\ IF life[w] = "up" THEN Extra(1) ELSE UNCHANGED extras
    /\ life' = [life EXCEPT ![w] = "gone"]
    /\ dead' = [dead EXCEPT ![w] = TRUE]
    /\ UNCHANGED <<entry, of, bind, busy, call, flush, stopped, lapsed>>

(***************************************************************************)
(* Evictions nobody in a call waits for.                                   *)
(***************************************************************************)
\* Mutants of EvictIdle: the entry is deleted after the shutdown, that is when
\* the process has ended; the entry is dropped and the process is not told.
EvictIdleLater(w) ==
    /\ w \in Idle(entry)
    /\ entry' = IF life[w] = "gone" THEN Without(entry, w) ELSE entry
    /\ life' = Closing(w, life)
    /\ UNCHANGED <<dead, of, bind, busy, call, flush, stopped, bounds>>

EvictIdleUntold(w) ==
    /\ w \in Idle(entry)
    /\ entry' = Without(entry, w)
    /\ UNCHANGED <<worker, call, flush, stopped, bounds>>

\* sweepIdle, on an entry idle for too long or dead, and the memory
\* governor's evictIdleWorkerForMemory.
EvictIdle(w) ==
    /\ w \in Idle(entry)
    /\ entry' = Without(entry, w)
    /\ life' = Closing(w, life)
    /\ UNCHANGED <<dead, of, bind, busy, call, flush, stopped, bounds>>

\* flushAll, one session after the other; evictWarmWorker flushes one.
FlushStarts ==
    /\ flush.left = {} /\ flush.on = None /\ Extra(1)
    /\ \E keys \in {{s \in Session : entry[s] # None}} \cup {{s} : s \in Session} :
         keys # {} /\ flush' = [flush EXCEPT !.left = keys]
    /\ UNCHANGED <<entry, worker, call, stopped, lapsed>>

FlushNext ==
    /\ Closed(flush.on) /\ (flush.left # {} \/ flush.on # None)
    /\ IF flush.left = {}
       THEN flush' = [flush EXCEPT !.on = None] /\ UNCHANGED <<entry, life>>
       ELSE \E s \in flush.left :
              /\ flush' = [left |-> flush.left \ {s}, on |-> entry[s]]
              /\ entry' = [entry EXCEPT ![s] = None]
              /\ life' = Closing(entry[s], life)
    /\ UNCHANGED <<dead, of, bind, busy, call, stopped, bounds>>

Stop ==
    /\ ~stopped
    /\ stopped' = TRUE
    /\ entry' = [s \in Session |-> None]
    /\ life' = [w \in Slots |-> IF w \in Pooled(entry) /\ life[w] = "up" THEN "closing" ELSE life[w]]
    /\ UNCHANGED <<dead, of, bind, busy, call, flush, bounds>>

Step(c) ==
    \/ Run(c) \/ Rebound(c) \/ RoomMade(c) \/ Healed(c) \/ TurnEnds(c)

Next ==
    \/ \E c \in Calls : RunViaPool(c) \/ CompactIfWarm(c) \/ Step(c)
    \/ \E w \in Slots : Dies(w) \/ Term(w) \/ Exits(w) \/ EvictIdle(w)
    \/ FlushStarts \/ FlushNext \/ Stop

Spec == Init /\ [][Next]_vars

\* A call goes on when what it awaits is there, a worker answers or its
\* idle timer ends the turn, timers fire and a process that was told to exit does.
Fairness ==
    /\ \A c \in Calls : WF_vars(Step(c))
    /\ \A w \in Slots : WF_vars(Term(w)) /\ WF_vars(Exits(w) /\ life[w] = "termed")

FairSpec == Spec /\ Fairness

(***************************************************************************)
(* Properties.                                                             *)
(***************************************************************************)

\* No turn is written to a worker whose stdin has been ended: whoever evicts
\* deletes the entry before it awaits the shutdown (evict).
OpenEntries == \A s \in Session : entry[s] # None => life[entry[s]] # "closing"

\* A turn runs in the process of its session, spawned with the loadout it
\* asked for, whatever was evicted or respawned while it waited; and it has
\* that process for itself (run, compactIfWarm).
RightWorker ==
    /\ \A c \in Calls : pc[c] = "turn" =>
           /\ of[work[c]] = SessionOf[c]
           /\ c \notin CompactCalls => bind[work[c]] = BindOf[c]
    /\ \A w \in Slots :
           busy[w] <=> Cardinality({c \in Calls : pc[c] = "turn" /\ work[c] = w}) = 1

\* While no lease expired, every process that runs is one the pool can
\* reach: "so a quiet session doesn't hold a Claude process forever".
NoStray == ~lapsed => \A w \in Slots : life[w] = "up" => entry[of[w]] = w

\* Making room, the sweep and the governor evict "never a busy one": a
\* worker in the middle of a turn is shut down by a flush, by the stop of
\* the pool, or by a call that the lock let in after a lease expired.
BusyIsKept ==
    [][\A w \in Slots : life[w] = "up" /\ life'[w] = "closing" /\ busy[w] /\ busy'[w] =>
          flush' # flush \/ stopped' # stopped \/ lapsed]_vars

\* run() and the retries of the runner come to an end.
EveryCallReturns == \A c \in Calls : InFlight(c) ~> pc[c] = "done"
=============================================================================
