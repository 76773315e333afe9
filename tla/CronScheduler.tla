---------------------------- MODULE CronScheduler ----------------------------
(***************************************************************************)
(* Scheduled events: the jobs table, which other processes write too, the  *)
(* daemon's scheduler that drains it, and the fires it queues per session. *)
(*                                                                         *)
(*   src/src/cron/store.ts       the table                                 *)
(*   src/src/cron/next-fire.ts   nextFire                                  *)
(*   src/src/cron/scheduler.ts   rearm, fireDue, launch                    *)
(*   src/src/cron/fire.ts        fireJob, runAndDeliver, scheduleRetry     *)
(*   src/src/cron/retry-marker.ts                                          *)
(*                                                                         *)
(* The drain of fireDue has no await, so nothing of the daemon runs in its *)
(* middle; but each store call is a statement of its own, and MCP servers, *)
(* agent runners and the portal write the table between any two of them.   *)
(* The inbound turns of a session appear as users of its lock that answer  *)
(* it, or fail and leave an inbound retry.                                 *)
(***************************************************************************)
EXTENDS Naturals, Sequences

CONSTANTS
    Jobs,        \* ids of rows; a row is never deleted
    Sessions,
    Chats,       \* bound: the sessions that receive messages
    SessionOf,   \* session_key of each job
    KindOf,      \* what each job is, see Kinds
    Period,      \* a recurring job is due at the multiples of Period
    None,
    MaxTime,     \* bound: the clock
    MaxEdits,    \* bound: changes to existing rows by other processes
    MaxCrashes   \* bound: crashes of the daemon

Kinds == {"cron",      \* recurring
          "once",      \* a reminder, or the retry of a failed fire
          "brief",     \* proactive: its fire may put itself off
          "result",    \* a finished result, which may join a running turn
          "inbound"}   \* the retry of a failed inbound turn

ASSUME JobAssumption   == /\ Chats \subseteq Sessions
                          /\ SessionOf \in [Jobs -> Sessions]
                          /\ KindOf \in [Jobs -> Kinds]
ASSUME TimeAssumption  == Period \in Nat \ {0} /\ MaxTime \in Nat
ASSUME BoundAssumption == MaxEdits \in Nat /\ MaxCrashes \in Nat

VARIABLES
    clock,
    row,       \* the table
    pc,        \* the daemon: "down", "idle", "drain" (in the loop), "mark" (a job was read)
    armed,     \* armedForMs, or None without a timer
    drainNow,  \* the `now` of the drain; 0 outside
    picked,    \* the job the drain has read, or None
    chain,     \* the fires of each session, oldest first
    stage,     \* of the first fire: "next", "waiting" for the lock, "running"
    lock,      \* the session lock: "free", "turn" or "fire"
    lastIn,    \* lastInboundMs
    lastOut,   \* lastOutboundMs
    fired,     \* history: due times a row fired for, since it was last scheduled
    edits,     \* changes by others so far (bounded by MaxEdits)
    crashes    \* crashes so far (bounded by MaxCrashes)

tableVars  == <<row, fired>>
daemonVars == <<pc, armed, drainNow, picked>>
fireVars   == <<chain, stage>>
chatVars   == <<lock, lastIn, lastOut>>
boundVars  == <<edits, crashes>>
vars == <<clock, tableVars, daemonVars, fireVars, chatVars, boundVars>>

Time == 0..MaxTime
Dues == 0..(MaxTime + Period + 1)

Statuses == {"absent", "active", "paused", "done", "canceled"}

Rows  == [st : Statuses, at : Dues, due : Dues, made : Time]
Fires == [job : Jobs, at : Dues, due : Dues, made : Time]

ASSUME NoneAssumption == None \notin Nat /\ None \notin Fires

TypeOK ==
    /\ clock \in Time
    /\ row \in [Jobs -> Rows]
    /\ pc \in {"down", "idle", "drain", "mark"}
    /\ armed \in Dues \cup {None}
    /\ drainNow \in Time
    /\ picked \in Fires \cup {None}
    /\ picked # None <=> pc = "mark"
    /\ chain \in [Sessions -> Seq(Fires)]
    /\ stage \in [Sessions -> {"next", "waiting", "running"}]
    /\ lock \in [Sessions -> {"free", "turn", "fire"}]
    /\ lastIn \in [Sessions -> Time]
    /\ lastOut \in [Sessions -> Time]
    /\ fired \in [Jobs -> SUBSET Dues]
    /\ edits \in 0..MaxEdits
    /\ crashes \in 0..MaxCrashes

Init ==
    /\ clock = 0
    /\ row = [j \in Jobs |-> [st |-> "absent", at |-> 0, due |-> 0, made |-> 0]]
    /\ pc = "idle"
    /\ armed = None
    /\ drainNow = 0
    /\ picked = None
    /\ chain = [s \in Sessions |-> <<>>]
    /\ stage = [s \in Sessions |-> "next"]
    /\ lock = [s \in Sessions |-> "free"]
    /\ lastIn = [s \in Sessions |-> 0]
    /\ lastOut = [s \in Sessions |-> 0]
    /\ fired = [j \in Jobs |-> {}]
    /\ edits = 0
    /\ crashes = 0

-----------------------------------------------------------------------------
(* Helpers *)

Later(a, b) == IF a >= b THEN a ELSE b

\* Mutant of NextFire: a recurring job may be due at the time it just fired.
NextFireNotAfter(j, at, t) ==
    IF KindOf[j] = "cron" THEN (t \div Period) * Period ELSE Later(at, t)

\* nextFire: a one-shot whose time has passed is due now; a recurring job is
\* due at the next multiple after t.
NextFire(j, at, t) ==
    IF KindOf[j] = "cron" THEN (t \div Period + 1) * Period ELSE Later(at, t)

ActiveIn(table) == {j \in Jobs : table[j].st = "active"}

\* Mutant of FirstDue: without ORDER BY.
FirstDueUnordered(table, j) == j \in ActiveIn(table)

\* nextDue: ORDER BY next_fire_ms LIMIT 1.
FirstDue(table, j) ==
    j \in ActiveIn(table) /\ \A i \in ActiveIn(table) : table[j].due <= table[i].due

\* rearm: the timer for the next due job, if there is any.
Rearm(table) ==
    \/ ActiveIn(table) = {} /\ armed' = None
    \/ \E j \in Jobs : FirstDue(table, j) /\ armed' = table[j].due

\* What a job may be scheduled for: a recurring job by its expression, a result
\* after its debounce, another one-shot for now or later.
Schedules(j) == CASE KindOf[j] = "cron"   -> {0}
                  [] KindOf[j] = "result" -> {clock + 1}
                  [] OTHER                -> clock..MaxTime

\* created_at, which only the fire of an inbound retry looks at.
CreatedAt(j) == IF KindOf[j] = "inbound" THEN clock ELSE 0

\* create: insert a row.
Insert(j, at) ==
    /\ row[j].st = "absent"
    /\ row' = [row EXCEPT ![j] = [st |-> "active", at |-> at,
                                  due |-> NextFire(j, at, clock), made |-> CreatedAt(j)]]

\* A row is scheduled anew: what it fired for before does not count any more.
Scheduled(j) == fired' = [fired EXCEPT ![j] = {}]

\* inboundRetryAlreadyAnswered, for a fire of session s.
AlreadyAnswered(s, f) ==
    /\ KindOf[f.job] = "inbound"
    /\ lastOut[s] >= lastIn[s]
    /\ lastOut[s] >= f.made

\* The fire may be later than its grace period allows.
MayBeTooLate(f) == KindOf[f.job] \in {"cron", "once"}

-----------------------------------------------------------------------------
(* The table, written by any process at any time *)

Create(j, at) ==
    /\ KindOf[j] # "inbound"
    /\ Insert(j, at)
    /\ UNCHANGED <<clock, fired, daemonVars, fireVars, chatVars, boundVars>>

\* What others change, over and over, is counted; a resume follows a pause.
EditByOther ==
    /\ edits < MaxEdits
    /\ edits' = edits + 1

Cancel(j) ==
    /\ EditByOther
    /\ row[j].st = "active"
    /\ row' = [row EXCEPT ![j].st = "canceled"]
    /\ UNCHANGED <<clock, fired, daemonVars, fireVars, chatVars, crashes>>

Pause(j) ==
    /\ EditByOther
    /\ row[j].st = "active"
    /\ row' = [row EXCEPT ![j].st = "paused"]
    /\ UNCHANGED <<clock, fired, daemonVars, fireVars, chatVars, crashes>>

\* Mutant of Resume: without the guard on the status.
ResumeAnyRow(j) ==
    /\ row[j].st \in {"paused", "canceled"}
    /\ row' = [row EXCEPT ![j].st = "active",
                          ![j].due = IF KindOf[j] = "cron" THEN NextFire(j, 0, clock)
                                     ELSE Later(row[j].at, clock + 1)]
    /\ Scheduled(j)
    /\ UNCHANGED <<clock, daemonVars, fireVars, chatVars, boundVars>>

\* resume: a one-shot whose time passed while it was paused is due shortly.
Resume(j) ==
    /\ row[j].st = "paused"
    /\ row' = [row EXCEPT ![j].st = "active",
                          ![j].due = IF KindOf[j] = "cron" THEN NextFire(j, 0, clock)
                                     ELSE Later(row[j].at, clock + 1)]
    /\ Scheduled(j)
    /\ UNCHANGED <<clock, daemonVars, fireVars, chatVars, boundVars>>

\* update: a new schedule for an active row.
Update(j, at) ==
    /\ EditByOther
    /\ row[j].st = "active"
    /\ row' = [row EXCEPT ![j].at = at, ![j].due = NextFire(j, at, clock)]
    /\ Scheduled(j)
    /\ UNCHANGED <<clock, daemonVars, fireVars, chatVars, crashes>>

-----------------------------------------------------------------------------
(* The scheduler *)

\* poke, every two seconds and after the daemon's own inserts.
Poke ==
    /\ pc = "idle"
    /\ Rearm(row)
    /\ UNCHANGED <<clock, tableVars, pc, drainNow, picked, fireVars, chatVars, boundVars>>

\* The timer fires: fireDue begins.
TimerFires ==
    /\ pc = "idle"
    /\ armed # None
    /\ clock >= armed
    /\ pc' = "drain"
    /\ armed' = None
    /\ drainNow' = clock
    /\ UNCHANGED <<clock, tableVars, picked, fireVars, chatVars, boundVars>>

\* The loop reads the next due job.
ReadDue(j) ==
    /\ pc = "drain"
    /\ FirstDue(row, j)
    /\ row[j].due <= drainNow
    /\ pc' = "mark"
    /\ picked' = [job |-> j, at |-> row[j].at, due |-> row[j].due, made |-> row[j].made]
    /\ UNCHANGED <<clock, tableVars, armed, drainNow, fireVars, chatVars, boundVars>>

\* Nothing is due any more: the loop ends and the timer is armed again.
DrainEnds ==
    /\ pc = "drain"
    /\ \A j \in ActiveIn(row) : row[j].due > drainNow
    /\ pc' = "idle"
    /\ drainNow' = 0
    /\ Rearm(row)
    /\ UNCHANGED <<clock, tableVars, picked, fireVars, chatVars, boundVars>>

\* Mutant of MarkFired: the drain waits for the fires of every session.
MarkFiredWaits ==
    LET j == picked.job
        s == SessionOf[j] IN
    /\ pc = "mark"
    /\ \A z \in Sessions : chain[z] = <<>>
    /\ row' = [row EXCEPT ![j] = IF KindOf[j] = "cron"
                                 THEN [@ EXCEPT !.st = "active", !.due = NextFire(j, picked.at, clock)]
                                 ELSE [@ EXCEPT !.st = "done"]]
    /\ chain' = [chain EXCEPT ![s] = Append(@, picked)]
    /\ fired' = [fired EXCEPT ![j] = @ \cup {picked.due}]
    /\ picked' = None
    /\ pc' = "drain"
    /\ UNCHANGED <<clock, armed, drainNow, stage, chatVars, boundVars>>

\* markFired writes the row whatever it holds by now (the next_fire_ms of a
\* done row is not read), then launch queues the fire behind its session's.
MarkFired ==
    LET j == picked.job
        s == SessionOf[j] IN
    /\ pc = "mark"
    /\ row' = [row EXCEPT ![j] = IF KindOf[j] = "cron"
                                 THEN [@ EXCEPT !.st = "active", !.due = NextFire(j, picked.at, clock)]
                                 ELSE [@ EXCEPT !.st = "done"]]
    /\ chain' = [chain EXCEPT ![s] = Append(@, picked)]
    /\ fired' = [fired EXCEPT ![j] = @ \cup {picked.due}]
    /\ picked' = None
    /\ pc' = "drain"
    /\ UNCHANGED <<clock, armed, drainNow, stage, chatVars, boundVars>>

\* expediteWakeUps: a pending wake-up is brought forward to now, for a call.
Expedite(j) ==
    /\ pc = "idle"
    /\ EditByOther
    /\ row[j].st = "active"
    /\ KindOf[j] = "result"
    /\ row[j].due > clock
    /\ row' = [row EXCEPT ![j].at = clock, ![j].due = clock]
    /\ Scheduled(j)
    /\ Rearm(row')
    /\ UNCHANGED <<clock, pc, drainNow, picked, fireVars, chatVars, crashes>>

-----------------------------------------------------------------------------
(* The fires of a session, and its inbound turns *)

\* fireJob up to withLock: a result may join the turn that runs, an answered
\* inbound retry is skipped, as is a job past its grace period, and the rest
\* waits for the lock.
FireStarts(s) ==
    LET f == Head(chain[s])
        join == KindOf[f.job] = "result" /\ lock[s] = "turn" IN
    /\ chain[s] # <<>>
    /\ stage[s] = "next"
    /\ \/ /\ join \/ AlreadyAnswered(s, f) \/ MayBeTooLate(f)
          /\ chain' = [chain EXCEPT ![s] = Tail(@)]
          /\ UNCHANGED stage
       \/ /\ ~AlreadyAnswered(s, f)
          /\ stage' = [stage EXCEPT ![s] = "waiting"]
          /\ UNCHANGED chain
    /\ UNCHANGED <<clock, tableVars, daemonVars, chatVars, boundVars>>

\* The fire is granted the session lock, and its model run begins.
FireRuns(s) ==
    /\ stage[s] = "waiting"
    /\ lock[s] = "free"
    /\ stage' = [stage EXCEPT ![s] = "running"]
    /\ lock' = [lock EXCEPT ![s] = "fire"]
    /\ UNCHANGED <<clock, tableVars, daemonVars, chain, lastIn, lastOut, boundVars>>

\* deferMidFire: a brief is put off; its row, done by now, is active again.
DeferMidFire(j) ==
    /\ KindOf[j] = "brief"
    /\ row[j].st \in {"active", "done"}
    /\ row' = [row EXCEPT ![j].st = "active", ![j].due = clock + 1]
    /\ Scheduled(j)

\* scheduleRetry: a one-shot with the text of the failed fire; never of a brief.
ScheduleRetry(j) ==
    /\ KindOf[j] # "brief"
    /\ \E i \in Jobs :
           /\ SessionOf[i] = SessionOf[j]
           /\ KindOf[i] = IF KindOf[j] = "inbound" THEN "inbound" ELSE "once"
           /\ Insert(i, clock + 1)
    /\ UNCHANGED fired

\* The fire is over: delivered or given up, put off, or to be retried.
FireEnds(s) ==
    LET j == Head(chain[s]).job IN
    /\ stage[s] = "running"
    /\ chain' = [chain EXCEPT ![s] = Tail(@)]
    /\ stage' = [stage EXCEPT ![s] = "next"]
    /\ lock' = [lock EXCEPT ![s] = "free"]
    /\ UNCHANGED tableVars \/ DeferMidFire(j) \/ ScheduleRetry(j)
    /\ UNCHANGED <<clock, daemonVars, lastIn, lastOut, boundVars>>

\* An inbound turn of the session gets the lock.
TurnStarts(s) ==
    /\ s \in Chats
    /\ lock[s] = "free"
    /\ lock' = [lock EXCEPT ![s] = "turn"]
    /\ lastIn' = [lastIn EXCEPT ![s] = clock]
    /\ UNCHANGED <<clock, tableVars, daemonVars, fireVars, lastOut, boundVars>>

\* The turn delivers its reply and cancels the inbound retries of its session.
TurnAnswers(s) ==
    /\ lock[s] = "turn"
    /\ lock' = [lock EXCEPT ![s] = "free"]
    /\ lastOut' = [lastOut EXCEPT ![s] = clock]
    /\ row' = [j \in Jobs |->
                  IF SessionOf[j] = s /\ KindOf[j] = "inbound" /\ row[j].st = "active"
                  THEN [row[j] EXCEPT !.st = "canceled"] ELSE row[j]]
    /\ UNCHANGED <<clock, fired, daemonVars, fireVars, lastIn, boundVars>>

\* The turn fails, and its burst is tried again shortly.
TurnFails(s) ==
    /\ lock[s] = "turn"
    /\ lock' = [lock EXCEPT ![s] = "free"]
    /\ \E j \in Jobs : SessionOf[j] = s /\ KindOf[j] = "inbound" /\ Insert(j, clock + 1)
    /\ UNCHANGED <<clock, fired, daemonVars, fireVars, lastIn, lastOut, boundVars>>

-----------------------------------------------------------------------------
(* Crash, boot and time *)

\* The daemon dies: the table and the session rows survive.
Crash ==
    /\ pc # "down"
    /\ crashes < MaxCrashes
    /\ crashes' = crashes + 1
    /\ pc' = "down"
    /\ armed' = None
    /\ drainNow' = 0
    /\ picked' = None
    /\ chain' = [s \in Sessions |-> <<>>]
    /\ stage' = [s \in Sessions |-> "next"]
    /\ lock' = [s \in Sessions |-> "free"]
    /\ UNCHANGED <<clock, tableVars, lastIn, lastOut, edits>>

\* start: arm the timer.
Boot ==
    /\ pc = "down"
    /\ pc' = "idle"
    /\ Rearm(row)
    /\ UNCHANGED <<clock, tableVars, drainNow, picked, fireVars, chatVars, boundVars>>

Tick ==
    /\ clock < MaxTime
    /\ clock' = clock + 1
    /\ UNCHANGED <<tableVars, daemonVars, fireVars, chatVars, boundVars>>

Outside ==
    \E j \in Jobs : \/ \E at \in Schedules(j) : Create(j, at) \/ Update(j, at)
                    \/ Cancel(j) \/ Pause(j) \/ Resume(j)

Session(s) ==
  /\ pc = "idle"
  /\ \/ FireStarts(s) \/ FireRuns(s) \/ FireEnds(s)
     \/ TurnStarts(s) \/ TurnAnswers(s) \/ TurnFails(s)

Drain == (\E j \in Jobs : ReadDue(j)) \/ DrainEnds \/ MarkFired

Next == \/ Outside
        \/ Poke \/ TimerFires \/ Drain
        \/ \E j \in Jobs : Expedite(j)
        \/ \E s \in Sessions : Session(s)
        \/ Crash \/ Boot \/ Tick

Spec == Init /\ [][Next]_vars

\* Fairness: the scheduler's heartbeat, timer and drain run, and launchd
\* restarts the daemon.  Nothing is assumed of the fires and turns: any of
\* them may hold its session for ever.
FairSpec ==
    /\ Spec
    /\ WF_vars(Poke)
    /\ WF_vars(TimerFires)
    /\ WF_vars(Drain)
    /\ WF_vars(Boot)

-----------------------------------------------------------------------------
(* Properties *)

\* "at-most-once across restarts" (scheduler.ts): a job is not fired twice for
\* one due time, wherever the daemon crashes and whoever writes the table.
AtMostOnce ==
    [][pc = "mark" /\ pc' = "drain" => picked.due \notin fired[picked.job]]_vars

\* Fires for one session run "in due order" (scheduler.ts).
DueOrder ==
    \A s \in Sessions : \A m, n \in 1..Len(chain[s]) :
        m < n => chain[s][m].due <= chain[s][n].due

\* "Canceled rows stay untouchable" (store.ts): a canceled job comes back only
\* if its cancel slipped in between the drain's read and its mark.
CanceledIsFinal ==
    [][\A j \in Jobs : row[j].st = "canceled" /\ row'[j].st # "canceled"
           => pc = "mark" /\ picked.job = j]_vars

\* Again and again nothing is overdue: whatever is due gets fired or taken off
\* the table, though the fires of any session may never end: "different
\* sessions do not wait for each other" (scheduler.ts).
NoneOverdue == []<>(\A j \in ActiveIn(row) : row[j].due > clock)
=============================================================================
