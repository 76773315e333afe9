# A formal model of edmund-harness

edmund-harness is a macOS daemon (TypeScript on Bun) that connects chats
(iMessage first of all) to a coding-agent model. A row appears in Messages'
`chat.db`, the daemon batches it with its neighbours, runs a model turn in the
session of that chat, and sends the reply. Around this path live schedulers,
background work, recovery and billing. This directory specifies the parts whose
correctness depends on the order of events: TLA+ modules, TLC configurations,
and proofs for TLAPS.

Paths below are relative to `src/src/` unless they say otherwise.

## 1. The system

### Processes and scheduling

One daemon process runs everything on one event loop; "concurrency" is the
interleaving of async functions at their `await`s. Code between two awaits is
atomic, and code after an await runs as a microtask, before the event loop
fires another timer. Separate processes exist too: model workers, agent runners,
background-job runners and MCP servers, which share SQLite files (`cron.db`, the
agent, job and trigger stores) with the daemon. launchd restarts a daemon that dies.

### Components

| component | state | operations | hard because | correct when |
|---|---|---|---|---|
| Session locks (`sessions/locks.ts`) | `tails`, `active` | `withLock`, `touch`, expiry timer | a hold is a lease: an expired holder runs on as a zombie beside its successor | overlap only after an expiry, FIFO, nobody wedged, no leak |
| Debounce pipeline (`channels/pipeline.ts`) | bucket per session: queue, `firstAt`, timer | `enqueue`, flush, `.finally`, `cancelQueued` | timers, lock waits and new messages interleave | a burst is bounded, no message is stranded |
| Deferred compact (`channels/compact-gate.ts`, `channels/turn.ts`) | the registered compact and its controller | register, clear, abort | a stale clear, a message between the check and the start | maintenance never holds up a message |
| Inbound turn (`channels/turn.ts`) | `activeSessions`, `turnControllers`, the loop's draft and message sets | `handleBatch`: gate, outbox drain, enrich, run, coalesce, deliver, finish | crashes and throws between steps, follow-ups arriving meanwhile, barge-ins | no row lost, forgotten or answered twice |
| Watcher (`imessage/watcher.ts`), wiring (`main.ts`) | drain cursor | drain, `onMessage`, `routeAccepted` | a row that fails, a row admitted late | every accepted row is acked or read again |
| State store (`sessions/store.ts`) | cursors (memory and disk), inbound acks, routing, outbox, last in/outbound | setters, two-second flush | a crash between a write and its flush | boot recovers all that is owed |
| Boot catch-up (`boot/catchup.ts`) | per-chat waiting batches | orphan acks, backlog, one turn per chat | the boundary at the cursor, live rows meanwhile | each row exactly once |
| Parked follow-ups (`bridge/session-queue.ts`, `claude/mid-turn.ts`) | pending file per session, rows shown mid-turn | park, drain, show, seen | a row seen by a run that then fails or keeps its draft | a row is folded, re-queued or dropped as seen, never two of these |
| Recovery (`recovery/`, `boot/wire-recovery.ts`) | in-flight and recovering sets | sweeper, recovery turn, outbox drainer | acts on records and queued replies read before an await, in sessions a live turn may hold | no row is recovered twice, no session stays silent |
| Cron (`cron/`) | `jobs` table, timer, `firing`, chains | `create`, `cancel`, `markFired`, `deferMidFire`, fire, retry | other processes write the table; crash between mark and fire | at most once, cancelled stays cancelled |
| Worker (`claude/worker.ts`, `claude/mid-turn.ts`) | one CLI process, its pipes, the turn in flight | turn, inject, compact, shutdown, die | results come on one pipe for turns, compactions and turns of the CLI's own | a turn gets its own result; a message counts as seen exactly when it was |
| Worker pool and runner (`claude/pool.ts`, `claude/runner.ts`) | workers per session, LRU order | run, evict, sweep, govern, flush, stop | awaits inside acquire | a turn has the right worker to itself, no process is lost, every call returns |
| Agents (`agents/`) | agents, teams, follow-on markers | spawn, settle, decide, cancel, reap | runner, daemon and parent settle the same rows | the parent is woken exactly once per piece of work |
| Background jobs (`background/`) | jobs | spawn, finish, wake, mark, reap | three processes, separate statements, none of which asks what the row holds | the session is told once, and the truth |
| Credits (`credits/`) | wallets, ledger, provider limits | grant, sync, charge | absolute writes computed before an await | a grant is never undone |
| Triggers (`triggers/`), proactive (`proactive/`), alerts (`alerts/`) | trigger rows, queued items, throttle times | evaluate, fire, queue, defer, notify | record-then-act, check-then-await | once per event, cancel respected |
| The rest | | | transports, tools, media, text, configuration | see `PROJECT.json`, `components` |

How they interact: the watcher calls `routeAccepted`, which writes the ack and
gives the row to the waiting catch-up batch, to the pending file of a running
turn, or to the pipeline. The pipeline, the catch-up, cron fires, recovery turns
and deferred compacts all run under `withLock` of the session key. A turn drains
the pending file, the outbox and the retry crons of its session, and runs the
model on the session's worker of the pool. Agents, jobs and triggers wake a
session by inserting a cron row, which the daemon's scheduler polls.

### Hazards

`PROJECT.json` lists the hazards of this code at the lines where they bite, each
with the properties that would catch it, or a note saying why none does: either
the code does not do what a property would ask (section 5), or its component is
still to be modelled (section 7).

## 2. The modules

| module | models | how |
|---|---|---|
| `SessionLocks` | `sessions/locks.ts` | one action per segment of `withLock` between awaits (`WithLock`, `Start`, `WorkSettles`, `Expire`, `Leave`) and `touch` |
| `SessionLocksQueue` | `sessions/locks.ts` | `SessionLocks` with a history variable, the waiting line of each key, which is what the refinement of `FifoLease` is stated with |
| `FifoLease` | what the lock promises | a FIFO queue per key, whose head is granted the key once and leaves it |
| `SessionPipeline` | `channels/pipeline.ts`, `channels/compact-gate.ts`, `scheduleDeferredCompact` | one session; the lock is a chain of holds as in `FifoLease`, whose leases may end |
| `Inbound` | `imessage/watcher.ts`, `main.ts`, `boot/catchup.ts`, `sessions/store.ts`, `bridge/session-queue.ts`, `channels/turn.ts` | the life of a row, with crashes; the lock is a slot per session |
| `Recovery` | `recovery/`, with the parts of `channels/turn.ts`, `cron/fire.ts` and `cron/retry-marker.ts` that use the same session | one session; overlapping sweeps and drains beside the live turn and the cron fire |
| `CronScheduler` | `cron/scheduler.ts`, `cron/store.ts`, `cron/fire.ts`, `cron/next-fire.ts`, `cron/retry-marker.ts` | the jobs table, its outside writers, the drain, the fires of each session, with crashes |
| `Agents` | `agents/`, `scripts/agent-runner.ts` | solo agents and teams; one action per statement or transaction of runner, daemon and parent |
| `BgJobs` | `background/`, `scripts/bg-runner.ts` | one action per statement of runner, parent and daemon on a job's row |
| `Worker` | `claude/worker.ts`, `claude/mid-turn.ts` | one worker and, as an external process, the CLI at the other end of its pipes |
| `WorkerPool` | `claude/pool.ts`, `runViaPool` and its relatives in `claude/runner.ts` | the map of workers, the calls that use it and everything that evicts |
| `MC*` | TLC instances | values of the constants |
| `*Proofs` | theorems | see section 4 |

The modules meet at their borders. `SessionLocks` is the lock that
`SessionPipeline`, `Inbound`, `Recovery`, `CronScheduler` and `WorkerPool` use: there it is
the FIFO queue of `FifoLease`, or just its holder where the order of the
waiters makes no difference, and an expired lease is an event of its own.
`Worker` shows that a turn always ends and what its caller learns, which
`WorkerPool` and `Inbound` take as outcomes. `Inbound` leaves a failed batch to a
retry cron and a session behind on its replies; `Recovery` goes on from there.
`Agents` and `BgJobs` end with a row in the jobs table, where `CronScheduler` begins.

### SessionLocks

`tails` and `active` are the two maps of the class. `prev[c]` is the promise a
call awaits, named by the call that resolves it. `phase` is where `withLock`
itself is, `work` where `fn()` is; they part company when the lease expires.
`touch` takes a key and re-arms whichever hold is registered, as in the code: a
zombie's heartbeat prolongs its successor. Heartbeats are not counted: running work
may touch as often as it likes, or never. Time is in ticks, and `Tick` is
blocked while a continuation is ready (`Quiet`), because microtasks run before
timers. The one-second throttle of `touch` lies below a tick and is left out.

The code keeps no waiting line, only promises that each know the one before. `SessionLocksQueue`
writes the line down: `queue` gets a call at its end when the call chains itself and loses its head
when a hold resolves its promise, and influences nothing (a behaviour of it is one of
`SessionLocks`, which is proved). `FifoGrant` says that with this `queue`, and with the calls
whose work was started as `granted`, every step is one of `FifoLease` or a stutter: a call starts only
at the head of the line.

### SessionPipeline

`queue`, `waited` and `timer` are the bucket (`waited` is `now - firstAt`, capped
at `MaxMs`, beyond which the code only sees "zero left"). `FlushLocked` asks for
the lock, `FlushStarts` takes the whole bucket when the lock is granted,
`Finally` re-arms the timer. A compact is skipped or registers itself
(`CompactStarts`); a message that is enqueued aborts the registered one. The
check of the pending file in `scheduleDeferredCompact` is a free choice to skip.
Other users of the lock, cron fires (`cron/fire.ts`) and recovery turns
(`recovery/turn.ts`), only ask, hold and leave: what they do in the session does not
concern the bucket. Time goes on for a bucket whose flush waits for the lock, when
no timer is armed, until the cap is used up. Ids of holds are
reused, so a bounded set of ids serves unbounded behaviour.

### Inbound

A row of `chat.db` is its ROWID; queues are sets of rows, since a batch is
answered as one and only its largest ROWID is read. `cursor`, `stored` and `disk`
are the drain's cursor, the store's copy and the flushed copy. `acks`, `routed`,
`outbox`, `retry`, `resend`, `lastIn`, `lastOut`, `parked` survive a crash; the
rest does not. A turn is a record with its program counter, its rows (`msgs`),
everything folded so far (`fed`, whose maximum is `foldedMax`), the same before
this iteration (`prev`), the iteration, the rows its runs saw mid-turn, the
abort flag, and whether it outlived its lease (a history variable, set by `Expire`).
A row that cannot be parked still aborts the turn it barges in on. Every action is what runs between two awaits; `Finish` is the finally
block of `handleBatch` with the release of the lock, and each way out of the turn
calls it with what it clears, re-enqueues and drops.

The constant `Allow` says which exceptional events an instance may contain
(`Events` lists them with their meaning). It separates the questions: a run or a
theorem names the events under which the code keeps the promise it is about.
`told` and `done` are history variables and influence nothing.

### Recovery

Messages are numbered as they land, and the clock is the number of the last
one, so `lastIn` and `lastOut` compare as the two timestamps of the record do. A
reply is the set of messages it answers. The live turn, the cron fire, each
sweep (`pass`) and each drain have a program counter; a pass holds the record it
listed (`since`) and the rows it loaded by it, a drain the reply it listed, which
is where staleness comes from. `recovering` and `inFlight` are the module-level
sets of the sweeper and of the drainer, `replayed` the rows marked as recovered.
Thresholds, cooldown, backoff and the skips for running agents, jobs and
imminent crons only delay a pass: a pass may come at any time. The retry crons
of the session are the set of rows they are for. Whether a healer takes the
failure is a free choice.

### CronScheduler

`row` is the `jobs` table (`st` the status, `at` and `due` the schedule of a
one-shot and `next_fire_ms`, `made` the `created_at` that `AlreadyAnswered`
reads). `fireDue` has no await, so while `pc` is `"drain"` or `"mark"` no other
action of the daemon is possible, but other processes write the table between
`ReadDue` and `MarkFired`. `chain` holds the launched fires of a session, oldest
first, `stage` how far the first one is in `fireJob`. `KindOf` is what
`classifyEvent`, `isBrownNoseEvent` and `isInboundRetryEvent` tell apart in the
text of an event. Inbound turns appear only as holders of the session lock that
answer (and cancel the inbound retries) or fail (and leave one). Whether a job
is past its grace period is a free choice for the jobs that have one. A retry
counter is the number of spare rows in the table. `fired` is a history variable:
the due times a row was marked for since it was last rescheduled.

### Agents

`row`, `stopped`, `late` are the table, `proc` the runner process, `file` the result
file, `marker` the follow-on marker and `done` the `team_done` table. `Settle` is
`finishIfActive`: whoever finds the row active settles it, and owes the report
(`note`, `by`). `DecideTeam` is the transaction that asks whether every member has
settled and whether a marker wants another stage; `ReapStart` lists, `ReapNext`
judges one listed row. The runner claims its row, the CLI exits, SIGTERM may
come in between, and each of these is a step of its own. The agents in `NoModel` are those
whose configured model the CLI may turn out not to have: the file then says so
(`"unavailable"`) and the row has a `stop_reason`, whatever the exit code.

### BgJobs

A teller is a process on its way through `finish`, `create` and `markWakeFired` for a
job (`step`, `says`): the runner, the parent that saw the spawn fail, or the
reaper. None of these statements asks what the row holds, and the model writes
as unconditionally as the code does. `age` says whether a finished row is due
for the recovery of lost wake-ups or beyond it, `told` is the history of what the
session heard, `reaped` and `cut` count what the properties excuse.

### Worker

`dead` is `deadReason`, `pending` the turn in flight with its flags (line written,
line echoed, tool running, notes injected and joined, callers that wait). `stdin`
and `stdout` are pipes. The CLI is external: it echoes a line when it reads it,
lines that are there at the end of a tool step join the turn, other lines run as
turns of their own, and a resumed CLI may first end a turn nobody asked for, as
`worker.ts`, `mid-turn.ts` and the tests' fake CLI describe it. `HandleEvent` takes one
event off the pipe, with every consequence it has in `handleEvent`.

### WorkerPool

`entry` is the map, `life`, `dead`, `of`, `bind`, `busy` the workers. A call goes from `run`
through `rebinding` (its session's worker wants another loadout, and its shutdown
is awaited) and `room` (an idle worker is evicted for room, and its shutdown is
awaited) to `turn`, and back through `healing` if the runner tries again. `EvictIdle`
is the sweep and the governor, `FlushStarts` and `FlushNext` the loop of
`flushAll`, `Stop` the shutdown. The session lock keeps the calls of a session
apart until a lease lapses (`lapsed`).

## 3. The runs

Deadlock checking is off everywhere: a daemon with nothing left to do, within
the bounds, rightly stops.

| run | properties | bounds |
|---|---|---|
| `locks` | `TypeOK`, `LeaseExclusion`, `RegistryTracksHold`, `NoTailLeak`, `FifoGrant` (refinement of `FifoLease`, in `SessionLocksQueue`), `NoWedge` | three calls on one key and one on another, lease of one tick, heartbeats without bound |
| `inbound` | `TypeOK`, `Durable`, `Remembered`, `ActiveIsTheTurn`, `EveryRowDone` | three rows, two crashes, two retryable failures of the model, two coalescing iterations; barge-ins, dropped and re-gated batches |
| `inbound_any` | `LockFollowsTurn` | every event, two failures, a crash, two turns of one session at once, two rows |
| `inbound_midturn` | `NoSecondAnswer` | four rows, three iterations, one failure, every event but an expired lease, no crash |
| `pipeline` | `BurstIsBounded`, `CompactYields`, `EveryMessageHandled` | three messages with windows 1, 2, 2 under a cap of 3, three flush ids, two compact ids, one other |
| `cron` | `DueOrder`, `AtMostOnce`, `CanceledIsFinal`, `NoneOverdue` | a brief, a result and an inbound retry in one chat, a recurring job in another session, two instants, one change of an existing row by others, one crash |
| `agents` | `OneWakeUp`, `TeamReportIsFinal`, `NoOrphan`, `ResultFits`, `EveryoneReported` | a team of two with a follow-on and a lone agent, whose model may be unavailable, one of the two started per behaviour, one cancel, one fault |
| `bg_jobs` | `StampMeansTold`, `ToldOnce`, `ToldTheTruth`, `EveryJobTold` | two jobs, one fault |
| `worker` | `OwnResult`, `SeenIsAnswered`, `ToldTheTruth`, `EverythingEnds` | three turns, the second a compact, two notes, one fault |
| `pool` | `OpenEntries`, `RightWorker`, `NoStray`, `BusyIsKept`, `EveryCallReturns` | two sessions, three turns (one of another loadout), a compact, a cap of one, three slots, one extra |
| `recovery` | `RecoveredOnce`, `NeverSilent` | two messages, two sweeps, two drains, two failures, one brief |
| `recovery_twice` | `NoSecondReply`, violated | the same; section 5 |

What the passing runs show, in a sentence each, is in `PROJECT.json`.

Why the bounds are enough.

* `locks`: the interesting situation is a zombie, its successor and a waiter:
  three calls on a key, plus one to see that keys do not mix. A lease of one
  tick distinguishes "touched since" from "due", which is all the code does.
  Heartbeats have no bound, so `NoWedge` meets the behaviours in which they never stop.
* `pipeline`: the cap matters as soon as two windows exceed it (2 + 2 > 3),
  `.finally` as soon as a third message meets two flushes, `clearCompact` as soon
  as two compacts overlap.
* `inbound`: one row the turn answers, one folded in or parked at the cap, one
  that comes after; two iterations give a first and a last one. Two crashes
  include one during the boot after another. `inbound_midturn` has a middle
  iteration as well, and a fourth row, since there a row can be seen, folded, kept or
  queued again while another one takes a different way. It has no crash, since after one
  the rows of the last two seconds are read again (section 5).
* `cron`: two instants give a due time reached, one ahead and one that was
  missed while the daemon was down; with a period of one the recurring job is due
  again after each of them. One change by others is enough, as each property is
  about a single row meeting a single change between a read and a write. Creating
  rows and resuming paused ones are not counted.
* `agents`, `bg_jobs`: the races are between the processes of one agent, of two
  members that settle together, and of a follow-on stage; a second fault only
  adds an excused report. Rows of different work share no state but the lists of the reaper.
* `worker`: the turn before, the one in flight and the one after a compact; two
  notes, of which one joins a turn that the other misses.
* `pool`: at a cap of one every acquire must make room, and the two sessions compete;
  the third slot is for a worker that is still on its way out.
* `recovery`: one message whose turn fails or succeeds, and one that lands after the records
  were read; two of each actor, since the code guards against exactly that overlap.

`CanceledIsFinal` names the one exception the code has: `markFired` writes
whatever the row holds by then (`cron/store.ts:421`), so a cancel, a pause or an
update that slips between `nextDue` and `markFired` is overwritten. `ToldOnce`
of `BgJobs` excuses the wake-ups that the code's separate statements can repeat: each must
be paid for by a settlement of the reaper or by a death in between. `NoStray`
and `BusyIsKept` are conditional on no lease having lapsed: the pool's code counts on
the session lock.

All instances of `Inbound` have one session: sessions share only the cursor, and
every other variable is indexed by the session.

### Fairness

* `SessionLocks`: the event loop runs each ready continuation and fires each due
  timer (weak fairness of `Start`, `Leave`, `Expire` and `Tick`). The fairness assumes nothing of
  `fn()`, of callers or of heartbeats; `NoWedge` itself has a premise: it promises the
  session to every queued call of a key on which heartbeats stop (`HeartbeatsStop`), even if
  a holder then hangs for ever. Without the premise it is false, in two ways. A holder that
  streams for ever keeps the lock, by design ("for as long as the work genuinely takes",
  `locks.ts:23-28`). And since `touch` takes a key (`locks.ts:93-95`), a zombie that streams for
  ever renews the lease of a successor that hangs silently, which is not by design (section 5).
* `SessionPipeline`: time passes and due timers fire however often the lock
  changes hands (strong fairness of `Tick` and `Fire`: a timer is disabled only
  for the length of a microtask); a granted hold starts, `.finally` runs, and a
  hold ends or its lease does. The last is what `NoWedge` provides, and shares its premise: no
  user of the lock streams for ever.
* `CronScheduler`: the two-second heartbeat pokes, an armed timer fires, the drain's
  loop runs, launchd restarts the daemon (weak fairness). Nothing is assumed of fires, turns
  and other processes: `NoneOverdue` holds with fires that hang for ever.
* `Inbound`: the watcher's poll drains `chat.db`, turns take their steps (the
  worker's idle timer ends a silent model run; sends have timeouts), launchd
  restarts a dead daemon. `EveryRowDone` promises nothing after a failure, since a
  failed turn hands its rows to a retry cron, whose firing is not part of this
  module; it includes crashes, barge-ins, dropped batches and coalescing.
* `Recovery`: the live turn and the cron fire take their steps, every sweep and
  every drain comes back with its interval and goes on. Failures are bounded, so `NeverSilent`
  says that the sweep gets through once they stop; it does not say when.
* `Agents`, `BgJobs`: processes that run go on, the reaper's interval fires, and time passes
  for what does not end. Nothing is assumed of a CLI, a tool call or a runner that never
  starts. In both a behaviour takes finitely many steps, so the weak fairness of
  one disjunction already is that of each process.
* `Worker`: pipes are read, the idle timer and the SIGTERM timer fire, an exit is noticed, and a
  process whose stdin was closed or which was sent SIGTERM ends. The CLI may hang at
  any other point.
* `WorkerPool`: a call goes on when what it awaits has happened, a worker answers or dies
  (its idle timer ends the turn: `EverythingEnds` of `Worker`), and a process sent SIGTERM ends.

## 4. The proofs

TLAPS checks, for every value of the constants that satisfies the named
assumptions of the modules (which TLC evaluates in the runs):

| module | theorems |
|---|---|
| `SessionLocksProofs` | `Typing`, `Exclusion` (`LeaseExclusion`), `Registry` (`RegistryTracksHold`), `TailsBounded` (`NoTailLeak`), `ImplementsFifo` (`FifoGrant`), `NobodyIsWedged` |
| `SessionPipelineProofs` | `Typing`, `NoStarvation` (`BurstIsBounded`), `MaintenanceYields` (`CompactYields`), `NoneLost`, `TheLockMovesOn` |
| `InboundProofs` | `Typing`, `LockFollows` (`LockFollowsTurn`), `ActiveTurns` (`ActiveIsTheTurn`), `NoneLost` (`Durable`), `NoneForgotten` (`Remembered`), `NoneTwice` (`NoSecondAnswer`) |
| `RecoveryProofs` | `Typing`, `UnderTheLock`, `OneRecovery`, `NoDoubleRecovery` (`RecoveredOnce`), `NoFlagIsLeft`, `TheLockMovesOn` |
| `CronSchedulerProofs` | `Typing`, `InDueOrder` (`DueOrder`), `NeverTwice` (`AtMostOnce`), `CancelHolds` (`CanceledIsFinal`), `TheDrainGoesOn` |
| `BgJobsProofs` | `Typing`, `StampsAreTrue` (`StampMeansTold`), `Truth` (`ToldTheTruth`), `NoRepeats` (`ToldOnce`), `NoneOverlooked` |
| `AgentsProofs` | `Typing`, `ToldOnce` (`OneWakeUp`), `ReportsAreFinal` (`TeamReportIsFinal`), `NoneOrphaned` (`NoOrphan`), `FilesFit` (`ResultFits`), `NoneForgotten` |
| `WorkerPoolProofs` | `Typing`, `EntriesAreOpen` (`OpenEntries`), `TurnsAreRight` (`RightWorker`), `NoneAstray` (`NoStray`), `BusyStays` (`BusyIsKept`), `WaitsEnd`; of `Worker`: `WorkerTyping`, `TurnsEndByTheirResult` (`OwnResult`), `SeenNotesAreAnswered` (`SeenIsAnswered`), `CallersAreToldTheTruth` (`ToldTheTruth`), `WaitersHaveTheirTurn` |

Assumed are types and bounds of constants, that ids of different kinds are different, and, for
four theorems of `InboundProofs`, which events may happen; nothing else.

**SessionLocks.** `LeaseExclusion` is not inductive: two running works need two
granted calls, and nothing in the property forbids two calls from awaiting the
same promise. What forbids it is that the chain of promises of a key is a line
from the granted call to the entry of `tails`. The invariant `IInv` says so without
recursion, with a rank: there is a function from calls to numbers that is
injective on the chained calls of a key, is largest at the tail, smallest at a
granted call, and for each waiting call leaves no rank between it and its `prev`
(`Ranks`). A call that joins is ranked above the tail (`ChainJoin`); when the granted
call leaves, the call right above it becomes the granted one (`ChainLeave`); other
steps do not touch the chain (`ChainStable`). Two granted calls of a key are the
same (`OneGranted`), hence the registered hold is the granted one (`HoldInv`), and
the theorems follow.

That the lock implements `FifoLease` is proved for `SessionLocksQueue`. Its invariant `LineInv` adds to
`IInv` that the line of a key lists exactly its chained calls, each once, of which the first one is
granted and each other one awaits the promise of the one before (`InLine`), that the last one is
the entry of `tails` (`Tails`), and which calls have been given their work (`Started`). A granted call is
then the head of its line (`GrantedIsHead`), so `Start` is a grant of `FifoLease`, `Leave` takes the
head away, `WithLock` appends, and everything else stutters (`StepsAsQueue`).

**SessionPipeline.** Both properties speak of a bucket that waits while somebody
has the lock. The invariant adds that only the head of the chain holds it
(`HeldIsFirst`), that the compact at work is the registered one or was aborted
(`GateKnows`: an enqueued message never misses it, even when an expired compact and its
successor overlap), and that what is in the bucket was sent (`BucketWasSent`).

**Inbound.** The proof has three layers. `Base` holds whatever happens: types, the
lock of a session is held exactly by its turn that did not outlive its lease, whose controller
is registered (`Locks`), a slot without a turn has no session (`Slotted`); it gives `LockFollows`:
the finally block of a turn that lost its lease takes neither lock nor controller from its successor. `OneTurn` holds unless a lease expires
(`"expire" \notin Allow`): the active mark, the lock and the controller of a session
belong to its one turn; it gives `ActiveTurns`. `Cares` is the invariant behind the
promises to the user, for the events the code was written for, `Allow \subseteq Ordinary`
(barge-ins, dropped and re-gated batches, retryable failures of the model in a turn's first
iteration, failed deliveries, with crashes at any step): what the running daemon has is acked (`Acked`), what it does not
have any more is done or a retry cron owns it (`Owned`), a row is in one place (`Alone`), and what is
queued behind a turn came after all that the turn has (`Order`). The last is what
makes the range clear of `turn.ts:278` right: clearing every ack up to the turn's
last row clears none of a row that waits. The other conjuncts say where rows
can be at all: nothing is in flight while the daemon is down or boots (`Quiet`,
`Down`), a turn's sets nest (`Folds`), rows are with their own session
(`Places`), and the three cursors are in order (`Cursors`). The comment at
`turn.ts:238-240` claims `Order`; the events that break it are the ones listed in section 5.

`NoneTwice` is about the other promise, and needs another invariant and other events: any but an
expired lease, until the first crash. `Once` says that a row is routed once (no part of the daemon knows a
row the watcher has not reached or the address check still judges: `Unrouted`), that a queued row
was not disposed of and waits in one queue, a parked one in front of no run yet (`QueuedOnce`), and what
a turn has of it (`FedOnce`). The delicate case is the turn that keeps its draft: it is the only one
behind whose back the bucket may fill, with follow-ups that it had folded, so what lies there and
is known to a run must be in the rows of its last iteration, which it does not count as answered.

**Recovery.** `RecoveredOnce` is not inductive, since a pass counts a row when it marks
it, long after it loaded it. One pass at most is past the look at `recovering`, and
the set says so (`OnePass`); the rows it carries are therefore unmarked until it
marks them itself, and what is marked was counted once (`Unmarked`). `LockHeld` says who runs under
the lock holds it; `Batches`, that who has a batch has rows in it.

**CronScheduler.** At-most-once and the due order are one argument: the drain
takes the earliest due time (`Read`), whatever other processes schedule meanwhile is due now or later,
and nothing is launched before its time (`Launched`, `Past`). Hence an active row is
due after everything it was marked for (`Ahead`).

**BgJobs.** `ToldOnce` is an accounting: what was told, plus what may still be told by
the job's own chain (runner, then parent), by the reaper's finishing and by its list of
missed wake-ups, never exceeds one plus the settlements of the reaper plus the
tellers that were cut off (`Paid`). A job that is not stamped was told only by tellers that were
cut off or are about to stamp (`Bare`), so listing it as missed is paid for. `Agreed`
says what tellers carry as long as the reaper overruled nobody; `Order`, that a teller stamps
after it told.

**Agents.** The row of an agent is settled by one statement, and whoever made it owes
the report: `Unsettled` says that runner, daemon and parent carry a report only of a
settled row and that one of them at most does. For a team the debt passes to the one who claims
it as done (`Reports`): before the claim nobody tells, after it the claimant
alone. A member is acted on only when its team is there (`Created`), the last stage
is started once and only while its marker is there (`Stages`), and a claimed team has no marker, all of
its members, and none of them active (`Finals`), so nothing can make it active again.
`Runs` ties a runner to its row, and `Files` the result file to how far
the runner came and why it stopped.

**WorkerPool.** Everything follows from who owns what: an entry is a worker of its
session that nobody told to end (`Owners`), a busy worker belongs to exactly one
turn, for which it was spawned (`Turns`), and while the session's lock keeps its
calls apart, the session of a call that awaits an eviction has no entry, so that
setting it later overwrites nobody (`Locks`).

**Worker.** Three sorts of lines (turns, compactions, messages shown mid-turn) share a pipe in each
direction, so everything follows from the order in the pipes. `Lines`: a line is written once and read
once, and a note that still waits has joined nothing. `Results`: an output result belongs to a line that was read and
is answered, or is that of a CLI which was resumed, and then nothing but changes of the session came before
it. `Between`: a worker that is kept has empty pipes, but for output that `handleEvent` ignores.
`InTurn` is about the turn in flight: the lines are its own and its notes' (`Ours`); until the CLI reads
its line there is no output of it (`Unread`); a compaction neither works nor takes notes (`Compacting`);
a note is answered only behind the result of the turn (`Answers`); what follows that result belongs to notes that
did not join (`After`); those that joined were echoed before it (`Joins`), and the callers that wait are
those of the other ones (`Callers`). So the first result that `isUnsolicitedResult` lets
through is the turn's own, and if every injected note joined, nothing of the turn is left behind: this is why
`retireAfterMissedMidTurn` may keep the worker then, and must not otherwise.

**What liveness rests on.** That something happens in the end needs fairness, and stays with TLC. But
most of the ways it could fail show in a single state: a waiter whose turn nobody is bound to
give him, a flag that nobody is left to clear, a debt that nobody owes. These are proved for every
value of the constants; no run lists them.

* `NobodyIsWedged` (for `NoWedge`): if a call waits for a key, some call of the key is granted, leaving, or
  holds with its timer armed (`SomeoneMoves`). The head of the line of `ImplementsFifo` is that call.
* `NoneLost` and `TheLockMovesOn` of `SessionPipeline` (for `EveryMessageHandled`): what was sent and not
  handled is in the bucket, once (`Conserved`); the chain lists each hold that waits or holds, once, and no
  other than its head has the lock (`OneLine`), also when a lease runs out or an `.finally` is late.
* `NoFlagIsLeft` and `TheLockMovesOn` of `Recovery` (for `NeverSilent`): the three marks that keep recovery
  from a session (`activeSessions`, `recovering`, the drainer's set) each belong to somebody still at work
  (`FlagsOwned`), and the line of the lock is exactly those who asked for it and did not leave
  (`LockMoves`), whatever failed.
* `TheDrainGoesOn` of `CronScheduler` (for `NoneOverdue`): a mark takes its job, and nothing else, from what the
  drain still has to fire (`DueRows`), whatever was written to the row in between, so that only
  newly scheduled jobs prolong a drain.
* `NoneOverlooked` of `BgJobs` (for `EveryJobTold`): a job whose session was not told within the hour is
  unfinished or without a stamp, and so in reach of the reaper (`InReach`).
* `NoneForgotten` of `Agents` (for `EveryoneReported`): a lone agent that ended is told or its report is owed;
  a team that was started is told, or one of its members is active, was cancelled, or owes the report
  or the wake-up (`ReportInHand`). Only a death between claim and wake-up loses one. The proof needs the
  same of the claim (`ClaimInHand`).
* `WaitsEnd` of `WorkerPool` (for `EveryCallReturns`): the worker whose end a call or a flush awaits was told to
  end and was not started anew (`EndIsComing`).
* `WaitersHaveTheirTurn` of `Worker` (for `EverythingEnds`): a turn without an answer is the one in flight, so
  that its timer is armed; a caller of `inject` waits for that turn, unless it failed by the idle
  timer or the write (section 5); a worker given up for dead was signalled or is gone (`WaitsInHand`).

For `EveryRowDone` of `Inbound` the same part is `Remembered`, which a run checks as well.

Every invariant that a run checks is stated by a theorem, and so are the action properties `AtMostOnce`,
`CanceledIsFinal` and `BusyIsKept` and the refinement `FifoGrant`. Only model-checked: the liveness properties
themselves (`NoWedge`, `EveryRowDone`, `EveryMessageHandled`, `NoneOverdue`, `EveryoneReported`, `EveryJobTold`,
`EverythingEnds`, `EveryCallReturns`, `NeverSilent`), as the prover cannot reason about fairness and
`ENABLED`.

## 5. Where the code and its comments disagree

One has a violation run, whose counterexample is a behaviour of the code:

* `recovery_twice`: a sweep judges and loads by the record that it listed before
  the recovery turns of other sessions (`recovery/sweeper.ts:190`, `:301`), though
  `sweeper.ts:113-115` says that "`evaluateSession` re-checks everything anyway" and
  l.331-332 that without the checks "the user could get two model replies to the
  same failed burst". The run: a message lands and its turn starts and composes the
  reply; a sweep lists the session; the turn delivers and leaves the active set;
  the sweep comes to the session, finds nothing in its way, and composes a second reply.

The others were met while modelling. The models have the steps, and the
properties are stated so as not to claim what the code does not do.

Inbound, by the event of the model that enables it (`Durable` and `Remembered` are
checked and proved without them, `NoSecondAnswer` with all but `expire` and until a crash,
`LockFollowsTurn` with all of them):

* `watch`: the drain moves its cursor before `onMessage` (`imessage/watcher.ts:230`)
  and goes on after an error, so a row whose ack could not be written is skipped;
  `main.ts:1130-1131` says the cursor stays put and the row is retried. (A failure
  to park is swallowed as well, in `writePending`, `bridge/session-queue.ts:61`.)
* `throw`: acks left by a turn that throws are cleared by the session's next turn
  (`channels/turn.ts:278`), while `turn.ts:241` counts on the boot replay.
* `fatal`: a model error that is not retryable ends the turn with its acks in place and schedules no
  retry (`turn.ts:1394`): nothing in the running daemon has the rows any more, which breaks `Remembered`.
  The session's next turn clears their acks. If its run succeeds the model had been given the rows
  (`told`), which the properties take as covered; if it is dropped, aborted or re-gated the
  rows are lost, which breaks `Durable`.
* `bail`: a turn that gives up on the queued reply (`turn.ts:650`) leaves its rows
  to the recovery path (`turn.ts:641-644`); the next turn clears their acks and
  its reply hides them from recovery.
* `foldfail`: the model fails while follow-ups are folded in; the retry scheduled for them
  (`turn.ts:1402-1404`) is cancelled by the delivery of the older draft (`turn.ts:846`).
* `expire`: a turn that outlived its lease deletes its successor's active mark
  (`turn.ts:279`; intent at `turn.ts:233-234`), so that follow-ups are not parked for the successor.
  `LockFollowsTurn` says that it takes neither the lock nor the controller; `ActiveIsTheTurn`, which is about
  the mark, is checked without this event.
* `late`: a row admitted late by the address check (`main.ts:1173`) may lie below the
  maximum of a running turn, whose range clear then takes its ack; `turn.ts:238-240` says
  such rows are always above it.
* `midturn`: `drainUnanswered` deletes the ack of a seen row (`turn.ts:903`) before the
  reply that covers it is sent, though `main.ts:1125-1127` promises the ack until the turn
  completes; and `KEEP_DRAFT` (`turn.ts:1504-1507`) drops a row its run saw, though the draft
  was written before it (`turn.ts:896-897` assumes the reply covers it).
* Rows read again after a crash are "filtered out by shouldAccept"
  (`sessions/store.ts:48-49`), but `shouldAccept` (`turn.ts:82-127`) has no memory of rows.

Locks and cron:

* A zombie's heartbeat keeps its successor's hold alive, as `touch` takes the key
  (`locks.ts:93-95`), though a touch after the expiry should do nothing (`locks.ts:75-78`).
* A paused job "simply never fires until resumed" (`cron/store.ts:158-159`), unless the pause
  lands between `nextDue` and `markFired` in the daemon (`cron/scheduler.ts:100-109`): the job fires, and
  a recurring one is active again. So is one that was cancelled there. `CanceledIsFinal` excepts exactly this
  slip, and so does not judge it.
* A one-shot job is lost if the daemon dies between `markFired` and the end of its fire. The
  code chooses this (`cron/scheduler.ts:102-108`), and `AtMostOnce` is the half that it keeps. The row of a fire
  that is queued or running is done, so a cancel or an update of it is refused, and the fire may then
  defer itself and be active again (`cron/store.ts:252`): no property is about that cancel.
* An inbound retry is checked for an answer (`cron/fire.ts:137`) before it waits for the
  session lock; a turn that answers meanwhile cannot cancel it, as its row is done, and it runs
  the model "on a resolved failure" (`cron/fire.ts:132-135`).

Recovery:

* Neither the drainer nor a cron fire moves `last_outbound_ms`, so a sweep answers again
  what their reply answered, though `recovery/turn.ts` flushes first because "otherwise we'd
  generate a second reply for the same unanswered backlog".
* The drainer clears the outbox unconditionally and may delete a newer reply that was queued
  meanwhile; `outbox-drainer.ts` says nothing is lost while it still has it. Two drains, or a drain
  and a turn's flush, may send the same reply twice.
* A recovery turn that flushes a queued reply marks all unanswered rows as replayed, also those
  the reply does not answer, and cancels the retries of newer rows. It reads
  the outbox before it waits for the lock, though `docs/recovery.md` says the queued reply comes
  before any new model call.
* A reply stashed by a cron fire, whose flush fails in a live turn, leaves the new row with
  `last_inbound_ms` not after `last_outbound_ms`, so the sweep never lists it (`turn.ts:641-644`
  counts on it).
* Two sweeps that overlap may each send the fallback notice, which `docs/recovery.md` promises at
  most once per burst (read, not modelled).

Agents and jobs:

* Cancelling the last active member of a team decides nothing (`agents/spawn.ts:324`), so the
  team's "ONE wake-up event" (`spawn.ts:158-160`) never comes. `EveryoneReported` excuses it.
* A crash between `claimTeamDone` or `finishIfActive` and the wake-up loses the report for good:
  nothing looks for a claimed team that was not told.
* `finish` of a background job does not reset `wake_fired_at` and asks nothing of the row, so a
  runner that the reaper gave up on still finishes and tells: the session hears twice, and possibly two different ends.

Worker and pool:

* An error result that arrives before the echo of our line ends our turn, and the worker is not retired.
* A message whose caller was told "joined" is not recorded as seen if the turn then fails.
* The idle timer settles the turn before it calls `die` (`worker.ts:482-490`), so the callers that wait for
  an injected message (`settleJoinWaiters`, l.573-582) find no turn and are never told,
  though l.324-326 says each is told exactly once; `cron/fire.ts:90` waits there.
* The cap is checked before an eviction is awaited (`pool.ts:233`), so it can be exceeded, though
  `pool.ts:15-16` states it as the ceiling of resident workers, and l.437-438 speaks of a "pool full"
  error that `run` does not have; a call that awaits an eviction while the pool stops spawns after the stop.
* Two calls of one session, let in by a lapsed lease, both set the entry (`pool.ts:209`); the
  worker of the first is then out of everybody's reach. `NoStray` is conditional for this reason.

## 6. What is not modelled

Of the modelled files:

* `Inbound`: the drop of stale acks at boot, the per-chat fallback of a catch-up
  turn that throws, the legacy settings `coalesce_pending = false` and
  `durable_pending_ack = false`, guest counters, mirrored and spoken replies,
  live calls, the delay of a held-up delivery, rows without text, tool sends that
  bump `lastOutbound` in the middle of a turn, and the firing of retry and resend
  crons. A graceful shutdown is a crash with `disk = stored`. The group re-gate
  is allowed for any key. The deferred compact is in `SessionPipeline`.
* `Recovery`: crashes of the daemon, more than one session (a pass that is busy elsewhere is a
  pass that has not come yet), the fallback notice, the healers' edits, the heal of the registry.
* `CronScheduler`: `cancelPokes`, `bumpNextFire`, the purge of old rows, corrupt rows, fire
  windows, a schedule whose kind is changed, the drop of a fire whose session has no record,
  what `runAndDeliver` and `fireBrownNose` send and stash.
* `SessionPipeline`: more than one session (buckets are independent), the error callback.
* `Agents`: progress lines, prompts, listings, the purge, the self-pokes a wake-up cancels, and ideation builds.
* `BgJobs`: the tool call itself, its arguments, listings and the purge.
* `Worker`: typing, activity, usage, session ids but for a change of id, prompt and flag assembly.
* `WorkerPool`: the inside of a worker (`Worker`), persona and config hashes (one loadout stands for
  whatever forces a respawn), the CLI canary, the Codex backend.

Of the system: everything `PROJECT.json` lists as `not_modelled`. Most of it is I/O, text,
configuration, or a pure predicate whose outcome the modules take as a choice;
the integrations, the dashboard, the voice and the tool servers make up the bulk of the
repository by lines, and keep no state whose order of events matters. What does, and
is still missing, is the plan.

## 7. Plan

Done: the lock and its abstract specification; the pipeline; the life of an inbound row; recovery;
cron; agents; background jobs; the worker and its pool; theorems for every invariant of the runs, for
the refinement of the lock, and for what the liveness properties need in each state.

Next:

1. The fallback notice of recovery, and `Recovery` with a crash between a send and its record.
2. `Credits`: grants against a concurrent sync by absolute value (`credits/sync.ts:86`).
3. `Triggers` (`triggers/watcher.ts:141`), the proactive queue (`proactive/queue.ts:82`), the alert
   throttle, the computer-use screen lock.
4. Liveness of the lock as a promise to its users: `NoWedge` restated for the lines of
   `SessionPipeline` and `Recovery`.
