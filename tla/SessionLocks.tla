---------------------------- MODULE SessionLocks ----------------------------
(***************************************************************************)
(* The per-session async mutex of src/src/sessions/locks.ts: every path    *)
(* that runs a model on a session (inbound batch, deferred compact, cron   *)
(* fire, catch-up, recovery) goes through withLock on the session's key.   *)
(*                                                                         *)
(* A call of withLock chains itself behind tails[key] and runs fn() when   *)
(* the promise it found there resolves.  The hold is a lease: `timeoutMs`  *)
(* without a touch(key) rejects the caller and releases the chain while    *)
(* fn() keeps running ("zombie").                                          *)
(*                                                                         *)
(* Time is counted in ticks of the expiry timer.  The code after an await  *)
(* runs as a microtask, before the event loop fires another timer, so time *)
(* does not pass while a continuation is ready (see Quiet).                *)
(***************************************************************************)
EXTENDS Naturals

CONSTANTS
    Keys,        \* session keys
    Calls,       \* invocations of withLock, each made at most once
    KeyOf,       \* the key argument of each call
    None,        \* "no entry" in tails / active, or "resolved promise" in prev
    Lease        \* timeoutMs, in ticks

ASSUME KeyOfAssumption == KeyOf \in [Calls -> Keys]
ASSUME NoneAssumption  == None \notin Calls
ASSUME LeaseAssumption == Lease \in Nat \ {0}

VARIABLES
    tails,     \* [Keys -> Calls or None]: the last call chained on the key
    active,    \* [Keys -> Calls or None]: the registered hold
    prev,      \* [Calls -> Calls or None]: the promise a call awaits
    phase,     \* where withLock itself is
    work,      \* where fn() is: it outlives an expired hold
    timedOut,  \* the hold's `timedOut` flag
    timer      \* ticks left on the hold's expiry timer, or Off

vars == <<tails, active, prev, phase, work, timedOut, timer>>

Off == Lease + 1

Phases == {"idle",      \* not called yet
           "queued",    \* awaiting prev
           "held",      \* awaiting `guarded`
           "leaving",   \* guarded settled, the finally block is next
           "released"}  \* finally done: curr is resolved

Works == {"none", "running", "settled"}

TypeOK ==
    /\ tails \in [Keys -> Calls \cup {None}]
    /\ active \in [Keys -> Calls \cup {None}]
    /\ prev \in [Calls -> Calls \cup {None}]
    /\ phase \in [Calls -> Phases]
    /\ work \in [Calls -> Works]
    /\ timedOut \in [Calls -> BOOLEAN]
    /\ timer \in [Calls -> 0..Off]

Init ==
    /\ tails = [k \in Keys |-> None]
    /\ active = [k \in Keys |-> None]
    /\ prev = [c \in Calls |-> None]
    /\ phase = [c \in Calls |-> "idle"]
    /\ work = [c \in Calls |-> "none"]
    /\ timedOut = [c \in Calls |-> FALSE]
    /\ timer = [c \in Calls |-> Off]

-----------------------------------------------------------------------------
(* Helpers *)

\* A call that is in the chain of its key: called and not yet released.
Chained(c) == phase[c] \in {"queued", "held", "leaving"}

\* The promise c awaits is resolved.
Granted(c) == IF prev[c] = None THEN TRUE ELSE phase[prev[c]] = "released"

\* Mutant of ClearActive: without the identity check.
ClearActiveUnchecked(c) ==
    [active EXCEPT ![KeyOf[c]] = None]

\* clearActive: remove c from the registry only if it is still registered.
ClearActive(c) ==
    IF active[KeyOf[c]] = c THEN [active EXCEPT ![KeyOf[c]] = None] ELSE active

\* No continuation is waiting for the event loop.
Quiet == \A c \in Calls : /\ phase[c] # "leaving"
                          /\ phase[c] = "queued" => ~Granted(c)

-----------------------------------------------------------------------------
(* Actions *)

\* Mutant of WithLock: chains behind the registered hold, not behind the tail.
WithLockBehindActive(c) ==
    /\ phase[c] = "idle"
    /\ phase' = [phase EXCEPT ![c] = "queued"]
    /\ prev' = [prev EXCEPT ![c] = active[KeyOf[c]]]
    /\ tails' = [tails EXCEPT ![KeyOf[c]] = c]
    /\ UNCHANGED <<active, work, timedOut, timer>>

\* withLock up to `await prev`: become the tail of the key's chain.
WithLock(c) ==
    /\ phase[c] = "idle"
    /\ phase' = [phase EXCEPT ![c] = "queued"]
    /\ prev' = [prev EXCEPT ![c] = tails[KeyOf[c]]]
    /\ tails' = [tails EXCEPT ![KeyOf[c]] = c]
    /\ UNCHANGED <<active, work, timedOut, timer>>

\* Mutant of Start: forgets `await prev`.
StartIgnoresChain(c) ==
    /\ phase[c] = "queued"
    /\ phase' = [phase EXCEPT ![c] = "held"]
    /\ work' = [work EXCEPT ![c] = "running"]
    /\ active' = [active EXCEPT ![KeyOf[c]] = c]
    /\ timer' = [timer EXCEPT ![c] = Lease]
    /\ UNCHANGED <<tails, prev, timedOut>>

\* prev resolved: call fn(), register the hold and arm its timer.
Start(c) ==
    /\ phase[c] = "queued"
    /\ Granted(c)
    /\ phase' = [phase EXCEPT ![c] = "held"]
    /\ work' = [work EXCEPT ![c] = "running"]
    /\ active' = [active EXCEPT ![KeyOf[c]] = c]
    /\ timer' = [timer EXCEPT ![c] = Lease]
    /\ UNCHANGED <<tails, prev, timedOut>>

\* Mutant of Touch: adds the ceiling to what is left of the hold's lease.
TouchAdds(c) ==
    LET h == active[KeyOf[c]] IN
    /\ work[c] = "running"
    /\ timer' = IF h # None /\ ~timedOut[h] THEN [timer EXCEPT ![h] = @ + Lease] ELSE timer
    /\ UNCHANGED <<tails, active, prev, phase, work, timedOut>>

\* The work of c heartbeats.  touch takes the KEY, so it re-arms whichever
\* hold is registered for it: c's own or, when c is a zombie, its successor's.
\* (The one-second throttle is below the model's tick.)
Touch(c) ==
    LET h == active[KeyOf[c]] IN
    /\ work[c] = "running"
    /\ timer' = IF h # None /\ ~timedOut[h] THEN [timer EXCEPT ![h] = Lease] ELSE timer
    /\ UNCHANGED <<tails, active, prev, phase, work, timedOut>>

\* fn() settles: clearTimeout; the caller's promise settles with it unless the
\* hold already timed out (then nobody is waiting for this result any more).
WorkSettles(c) ==
    /\ work[c] = "running"
    /\ work' = [work EXCEPT ![c] = "settled"]
    /\ timer' = [timer EXCEPT ![c] = Off]
    /\ phase' = IF timedOut[c] THEN phase ELSE [phase EXCEPT ![c] = "leaving"]
    /\ UNCHANGED <<tails, active, prev, timedOut>>

\* Mutant of Expire: rejects nobody, so the chain stays held.
ExpireKeepsChain(c) ==
    /\ timer[c] = 0
    /\ Quiet
    /\ timedOut' = [timedOut EXCEPT ![c] = TRUE]
    /\ timer' = [timer EXCEPT ![c] = Off]
    /\ active' = ClearActive(c)
    /\ UNCHANGED <<tails, prev, phase, work>>

\* The expiry timer fires: reject the caller and unregister the hold; fn()
\* keeps running.  A timer re-armed after its hold settled fires too, and then
\* has no caller left to reject.
Expire(c) ==
    /\ timer[c] = 0
    /\ Quiet
    /\ timedOut' = [timedOut EXCEPT ![c] = TRUE]
    /\ timer' = [timer EXCEPT ![c] = Off]
    /\ active' = ClearActive(c)
    /\ phase' = IF phase[c] = "held" THEN [phase EXCEPT ![c] = "leaving"] ELSE phase
    /\ UNCHANGED <<tails, prev, work>>

\* Mutant of Leave: tails.delete(key) without the identity check.
LeaveDropsTail(c) ==
    /\ phase[c] = "leaving"
    /\ phase' = [phase EXCEPT ![c] = "released"]
    /\ active' = ClearActive(c)
    /\ tails' = [tails EXCEPT ![KeyOf[c]] = None]
    /\ UNCHANGED <<prev, work, timedOut, timer>>

\* The finally block: unregister, resolve curr, and drop the tail entry when
\* nobody chained behind this call.
Leave(c) ==
    /\ phase[c] = "leaving"
    /\ phase' = [phase EXCEPT ![c] = "released"]
    /\ active' = ClearActive(c)
    /\ tails' = IF tails[KeyOf[c]] = c THEN [tails EXCEPT ![KeyOf[c]] = None] ELSE tails
    /\ UNCHANGED <<prev, work, timedOut, timer>>

\* Time passes on every armed timer; a timer that is due fires first.
Tick ==
    /\ Quiet
    /\ \E c \in Calls : timer[c] # Off
    /\ \A c \in Calls : timer[c] # 0
    /\ timer' = [c \in Calls |-> IF timer[c] = Off THEN Off ELSE timer[c] - 1]
    /\ UNCHANGED <<tails, active, prev, phase, work, timedOut>>

Next ==
    \/ \E c \in Calls : \/ WithLock(c)
                        \/ Start(c)
                        \/ Touch(c)
                        \/ WorkSettles(c)
                        \/ Expire(c)
                        \/ Leave(c)
    \/ Tick

Spec == Init /\ [][Next]_vars

\* Fairness: the event loop runs every ready continuation and fires every due
\* timer.  Nothing is assumed about fn(): it may hang for ever, silent or with
\* heartbeats without end (NoWedge says what these do to those who wait).
Fairness ==
    /\ \A c \in Calls : WF_vars(Start(c)) /\ WF_vars(Leave(c)) /\ WF_vars(Expire(c))
    /\ WF_vars(Tick)

-----------------------------------------------------------------------------
(* Properties *)

\* The race the lock exists to prevent: two pieces of work on one session run
\* at the same time only if one of them went silent past its lease.
LeaseExclusion ==
    \A c, d \in Calls :
        /\ c # d
        /\ KeyOf[c] = KeyOf[d]
        /\ work[c] = "running"
        /\ work[d] = "running"
        => timedOut[c] \/ timedOut[d]

\* The hold that touch(key) can reach is exactly the one the chain granted: a
\* running hold that has not expired is registered under its key, and a
\* registered hold has not been released.
RegistryTracksHold ==
    /\ \A c \in Calls : phase[c] = "held" => active[KeyOf[c]] = c
    /\ \A k \in Keys : active[k] # None =>
           /\ phase[active[k]] \in {"held", "leaving"}
           /\ KeyOf[active[k]] = k

\* The tails map grows only with live chains: a key has a tail exactly while a
\* call on it is not yet released ("prevents unbounded growth").
NoTailLeak ==
    \A k \in Keys : tails[k] # None <=> \E c \in Calls : KeyOf[c] = k /\ Chained(c)

\* From some point on no work on key k renews a lease.
HeartbeatsStop(k) == <>[][\A c \in Calls : KeyOf[c] = k => ~Touch(c)]_vars

\* A silent holder never wedges its session: once the heartbeats on a key stop,
\* every queued call of it gets its turn, whether fn() ever settles or not.  The
\* premise is needed: a holder that streams for ever keeps its lock, "for as long
\* as the work genuinely takes", and touch takes the key, so a zombie that
\* streams for ever renews the lease of the hung call that came after it.
NoWedge ==
    \A c \in Calls : HeartbeatsStop(KeyOf[c]) => (phase[c] = "queued" ~> phase[c] = "held")
=============================================================================
