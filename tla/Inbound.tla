------------------------------- MODULE Inbound -------------------------------
(***************************************************************************)
(* The path of an inbound message: a row of chat.db, the watcher's cursor, *)
(* the durable ack, the boot catch-up, the debounce bucket, the parked     *)
(* (pending) file of a busy session, and the turn that answers it, with    *)
(* coalescing, mid-turn showing, barge-in, the queued reply (outbox), the  *)
(* retry cron, and crashes of the daemon between any two steps.            *)
(*                                                                         *)
(*   src/src/imessage/watcher.ts   drain: chat.db -> onMessage             *)
(*   src/src/main.ts               onMessage, routeAccepted,               *)
(*                                 deliverToSession                        *)
(*   src/src/boot/catchup.ts       runCatchUp, extractOrphanAcks           *)
(*   src/src/channels/pipeline.ts  enqueue, flushLocked                    *)
(*   src/src/channels/turn.ts      handleBatch, handleBatchInner           *)
(*   src/src/bridge/session-queue.ts, src/src/sessions/store.ts            *)
(*                                                                         *)
(* A row is its ROWID.  Queues are sets of rows: the code answers a batch  *)
(* as one, and reads only its largest ROWID.  `now` is the number of rows  *)
(* landed, so a timestamp is compared with a row as the sweeper does.  The *)
(* session lock is a slot per key, as SessionLocks provides it; its lease  *)
(* may expire under a turn (Expire), which then runs on.                   *)
(*                                                                         *)
(* One step is what runs between two awaits.                               *)
(***************************************************************************)
EXTENDS Naturals

CONSTANTS
    Keys,        \* session keys
    MaxRow,      \* bound: rows that land in chat.db
    KeyOf,       \* the session each row routes to
    Slots,       \* turns that can run at once
    None,
    MaxIters,    \* MAX_COALESCE_ITERS
    Allow,       \* which of Events may happen in this instance
    MaxCrashes,  \* bound: crashes of the daemon
    MaxFails     \* bound: failures of the model, of a store or of a lease

Rows == 1..MaxRow

Events == {"watch",    \* the store refuses the row: onMessage throws
           "park",     \* the pending file cannot be written
           "late",     \* the address check admits a row after it was passed
           "midturn",  \* a parked row is shown to the running turn
           "barge",    \* a parked row aborts the running turn
           "drop",     \* the guest gate refuses the whole batch
           "regate",   \* a group batch turns out not to name the assistant
           "fail",     \* the model fails, and a retry is scheduled
           "fatal",    \* the model fails with an error that is not retryable
           "foldfail", \* the model fails while folding follow-ups in
           "throw",    \* a step of a turn throws
           "bail",     \* the queued reply still cannot be sent
           "expire"}   \* the lock's lease runs out under a turn

ASSUME RowAssumption   == MaxRow \in Nat /\ KeyOf \in [Rows -> Keys]
ASSUME SlotAssumption  == None \notin Slots /\ None \notin Keys
ASSUME IterAssumption  == MaxIters \in Nat \ {0}
ASSUME AllowAssumption == Allow \subseteq Events
ASSUME BoundAssumption == MaxCrashes \in Nat /\ MaxFails \in Nat

VARIABLES
    now,       \* rows landed in chat.db
    cursor,    \* watcher: the row the drain has reached
    stored,    \* state store: the cursor, in memory
    disk,      \* state store: the cursor, flushed
    acks,      \* state store: inbound_ack rows
    routed,    \* state store: message_routing rows
    judging,   \* rows the address check is judging
    boot,      \* "down", "booting" (catch-up reads) or "up"
    waiting,   \* catch-up: rows of each chat whose turn has not started
    bucket,    \* pipeline: rows of each session's bucket
    parked,    \* rows of each session's pending file
    shown,     \* parked rows that carry a midTurnUuid
    lock,      \* the slot holding each session's lock
    active,    \* activeSessions
    ctl,       \* turnControllers
    turn,      \* the turns running
    outbox,    \* sessions with a queued reply
    retry,     \* sessions with an inbound-retry cron
    resend,    \* sessions with a lost-reply cron
    lastIn,    \* lastInboundMs of each session
    lastOut,   \* lastOutboundMs of each session
    told,      \* history: rows a model run of their session was given
    done,      \* history: rows disposed of (answered, silenced, dropped, superseded)
    crashes,   \* crashes so far (bounded by MaxCrashes)
    fails      \* failures so far (bounded by MaxFails)

ingestVars == <<now, cursor, stored, disk, routed, judging, boot, waiting>>
queueVars  == <<acks, bucket, parked, shown>>
turnVars   == <<lock, active, ctl, turn>>
oweVars    == <<outbox, retry, resend, lastIn, lastOut>>
histVars   == <<told, done>>
bounds     == <<crashes, fails>>
vars == <<ingestVars, queueVars, turnVars, oweVars, histVars, bounds>>

-----------------------------------------------------------------------------
(* Types *)

NoTurn == [pc |-> "off", key |-> None, msgs |-> {}, fed |-> {}, prev |-> {},
           iter |-> 0, seen |-> {}, aborted |-> FALSE, outlived |-> FALSE,
           then |-> "final"]

\* msgs: the rows of this iteration; fed: the rows folded in so far (their
\* maximum is foldedMax); prev: the same before this iteration (prevFoldedMax).
\* A turn has a draft (prevDraft) from its second iteration on.  outlived: the
\* lease of its hold ran out (timedOut), and it runs on without the lock.
Turns ==
    [pc : {"off", "gate", "outbox", "enrich", "model", "send"},
     key : Keys \cup {None},
     msgs : SUBSET Rows, fed : SUBSET Rows, prev : SUBSET Rows,
     iter : 0..(MaxIters - 1), seen : SUBSET Rows, aborted : BOOLEAN, outlived : BOOLEAN,
     then : {"final", "keep", "regate", "failed"}]

TypeOK ==
    /\ now \in 0..MaxRow
    /\ cursor \in 0..MaxRow
    /\ stored \in 0..MaxRow
    /\ disk \in 0..MaxRow
    /\ acks \subseteq Rows
    /\ routed \subseteq Rows
    /\ judging \subseteq Rows
    /\ boot \in {"down", "booting", "up"}
    /\ waiting \in [Keys -> SUBSET Rows]
    /\ bucket \in [Keys -> SUBSET Rows]
    /\ parked \in [Keys -> SUBSET Rows]
    /\ shown \subseteq Rows
    /\ lock \in [Keys -> Slots \cup {None}]
    /\ active \subseteq Keys
    /\ ctl \in [Keys -> Slots \cup {None}]
    /\ turn \in [Slots -> Turns]
    /\ outbox \subseteq Keys
    /\ retry \subseteq Keys
    /\ resend \subseteq Keys
    /\ lastIn \in [Keys -> 0..MaxRow]
    /\ lastOut \in [Keys -> 0..MaxRow]
    /\ told \subseteq Rows
    /\ done \subseteq Rows
    /\ crashes \in 0..MaxCrashes
    /\ fails \in 0..MaxFails

Init ==
    /\ now = 0
    /\ cursor = 0
    /\ stored = 0
    /\ disk = 0
    /\ acks = {}
    /\ routed = {}
    /\ judging = {}
    /\ boot = "up"
    /\ waiting = [k \in Keys |-> {}]
    /\ bucket = [k \in Keys |-> {}]
    /\ parked = [k \in Keys |-> {}]
    /\ shown = {}
    /\ lock = [k \in Keys |-> None]
    /\ active = {}
    /\ ctl = [k \in Keys |-> None]
    /\ turn = [s \in Slots |-> NoTurn]
    /\ outbox = {}
    /\ retry = {}
    /\ resend = {}
    /\ lastIn = [k \in Keys |-> 0]
    /\ lastOut = [k \in Keys |-> 0]
    /\ told = {}
    /\ done = {}
    /\ crashes = 0
    /\ fails = 0

-----------------------------------------------------------------------------
(* Helpers *)

\* clearInboundAcks(k, max of C): the ack rows of k at or below some row of C.
Covered(k, C) == {a \in acks : KeyOf[a] = k /\ \E c \in C : a <= c}

\* One more bounded failure of the given kind.
Fails(e) ==
    /\ e \in Allow
    /\ fails < MaxFails
    /\ fails' = fails + 1
    /\ UNCHANGED crashes

\* writePending: append to the session's pending file.
WritePending(r) == parked' = [parked EXCEPT ![KeyOf[r]] = @ \cup {r}]

\* drainPending: read the pending file of k and delete it.
DrainPending(k) ==
    /\ parked' = [parked EXCEPT ![k] = {}]
    /\ shown' = shown \ parked[k]

\* The one reply of k that waits to be sent: stored, and removed again.
PutOutbox(k)   == outbox' = outbox \cup {k}
ClearOutbox(k) == outbox' = outbox \ {k}

\* The crons a turn leaves behind: try the burst again (until something is
\* delivered to k), or rephrase a reply that cannot be sent.
ScheduleInboundRetry(k)    == retry' = retry \cup {k}
CancelInboundRetries(k)    == retry' = retry \ {k}
ScheduleLostReplyResend(k) == resend' = resend \cup {k}

\* The parked rows drainUnanswered drops, because a run of turn t saw them.
SeenParked(t) == parked[t.key] \cap t.seen

\* markTurnStart / upsertSession: the last message of the batch.
InboundAt(k, msgs) ==
    \E m \in msgs : /\ \A n \in msgs : n <= m
                    /\ lastIn' = [lastIn EXCEPT ![k] = m]

-----------------------------------------------------------------------------
(* Ingest: chat.db, the watcher, the address check *)

\* Messages.app inserts a row, whether or not the daemon runs.
Land ==
    /\ now < MaxRow
    /\ now' = now + 1
    /\ UNCHANGED <<cursor, stored, disk, routed, judging, boot, waiting>>
    /\ UNCHANGED <<queueVars, turnVars, oweVars, histVars, bounds>>

\* The running turn of the session of r is shown r at its next tool step.
ShowToRunningTurn(r) ==
    /\ "midturn" \in Allow
    /\ \E s \in Slots : turn[s].key = KeyOf[r] /\ turn[s].pc = "model"
    /\ shown' = shown \cup {r}

\* The message asks to stop: the controller of the session is aborted.
BargeIn(k) ==
    /\ "barge" \in Allow
    /\ turn' = IF ctl[k] = None THEN turn ELSE [turn EXCEPT ![ctl[k]].aborted = TRUE]

\* deliverToSession behind a running turn: park the row, which may be shown to
\* the turn or abort it.  A failure to park is logged, not thrown, and the turn is
\* aborted all the same; what was shown then has no entry to be dropped.
Park(r) ==
    \/ /\ WritePending(r)
       /\ \/ UNCHANGED <<shown, turn>>
          \/ ShowToRunningTurn(r) /\ UNCHANGED turn
          \/ BargeIn(KeyOf[r]) /\ UNCHANGED shown
       /\ UNCHANGED bounds
    \/ /\ Fails("park")
       /\ UNCHANGED turn \/ BargeIn(KeyOf[r])
       /\ UNCHANGED <<parked, shown>>

\* routeAccepted: record the owner and the durable ack, then let the waiting
\* catch-up batch absorb the row, park it behind a running turn, or queue it.
Route(r) ==
    LET k == KeyOf[r] IN
    /\ routed' = routed \cup {r}
    /\ acks' = acks \cup {r}
    /\ \/ /\ waiting[k] # {}
          /\ waiting' = [waiting EXCEPT ![k] = @ \cup {r}]
          /\ UNCHANGED <<bucket, parked, shown, turn, bounds>>
       \/ /\ waiting[k] = {}
          /\ k \in active
          /\ Park(r)
          /\ UNCHANGED <<waiting, bucket>>
       \/ /\ waiting[k] = {}
          /\ k \notin active
          /\ bucket' = [bucket EXCEPT ![k] = @ \cup {r}]
          /\ UNCHANGED <<waiting, parked, shown, turn, bounds>>

\* The drain has reached row r; the cursor moves before onMessage runs.
Drained(r) ==
    /\ boot = "up"
    /\ r = cursor + 1
    /\ r <= now
    /\ cursor' = r

\* onMessage accepts the row: setCursor after routeAccepted returned.
WatchAccept(r) ==
    /\ Drained(r)
    /\ Route(r)
    /\ stored' = r
    /\ UNCHANGED <<now, disk, judging, boot, lock, active, ctl, oweVars, histVars>>

\* shouldAccept refuses the row; in a group the address check may judge it.
WatchReject(r) ==
    /\ Drained(r)
    /\ \/ UNCHANGED judging
       \/ "late" \in Allow /\ judging' = judging \cup {r}
    /\ stored' = r
    /\ UNCHANGED <<now, disk, routed, boot, waiting>>
    /\ UNCHANGED <<queueVars, turnVars, oweVars, histVars, bounds>>

\* routeAccepted throws (recordRouting or writeInboundAck): the drain logs the
\* error, counts it and goes on to the next row.
WatchThrow(r) ==
    /\ Drained(r)
    /\ Fails("watch")
    /\ routed' = routed \cup {r}
    /\ UNCHANGED <<now, stored, disk, judging, boot, waiting>>
    /\ UNCHANGED <<queueVars, turnVars, oweVars, histVars>>

\* The address check's verdict on a row the watcher has long passed.
Judged(r) ==
    /\ boot = "up"
    /\ r \in judging
    /\ judging' = judging \ {r}
    /\ \/ Route(r)
       \/ UNCHANGED <<routed, acks, waiting, bucket, parked, shown, turn, bounds>>
    /\ UNCHANGED <<now, cursor, stored, disk, boot, lock, active, ctl, oweVars, histVars>>

\* The store's two-second timer writes the cursor.
FlushCursor ==
    /\ boot = "up"
    /\ disk # stored
    /\ disk' = stored
    /\ UNCHANGED <<now, cursor, stored, routed, judging, boot, waiting>>
    /\ UNCHANGED <<queueVars, turnVars, oweVars, histVars, bounds>>

-----------------------------------------------------------------------------
(* The turn: from the session lock to the end of handleBatch *)

\* Mutant of Finish: the leftovers of the pending file are discarded.
FinishDiscards(s, cover, again, saw) ==
    LET k == turn[s].key IN
    /\ bucket' = [bucket EXCEPT ![k] = @ \cup again]
    /\ DrainPending(k)
    /\ acks' = acks \ (saw \cup Covered(k, cover))
    /\ active' = active \ {k}
    /\ ctl' = IF ctl[k] = s THEN [ctl EXCEPT ![k] = None] ELSE ctl
    /\ lock' = IF lock[k] = s THEN [lock EXCEPT ![k] = None] ELSE lock
    /\ turn' = [turn EXCEPT ![s] = NoTurn]

\* Mutant of Finish: rows the model saw mid-turn get a turn of their own too.
FinishRequeuesSeen(s, cover, again, saw) ==
    LET k == turn[s].key IN
    /\ bucket' = [bucket EXCEPT ![k] = @ \cup again \cup parked[k]]
    /\ DrainPending(k)
    /\ acks' = acks \ (saw \cup Covered(k, cover))
    /\ active' = active \ {k}
    /\ ctl' = IF ctl[k] = s THEN [ctl EXCEPT ![k] = None] ELSE ctl
    /\ lock' = IF lock[k] = s THEN [lock EXCEPT ![k] = None] ELSE lock
    /\ turn' = [turn EXCEPT ![s] = NoTurn]

\* Mutant of Finish: the abort controller is left behind.
FinishKeepsController(s, cover, again, saw) ==
    LET k == turn[s].key IN
    /\ bucket' = [bucket EXCEPT ![k] = @ \cup again \cup (parked[k] \ saw)]
    /\ DrainPending(k)
    /\ acks' = acks \ (saw \cup Covered(k, cover))
    /\ active' = active \ {k}
    /\ lock' = IF lock[k] = s THEN [lock EXCEPT ![k] = None] ELSE lock
    /\ turn' = [turn EXCEPT ![s] = NoTurn]
    /\ UNCHANGED ctl

\* Mutant of Finish: deletes whatever controller the session has by now.
FinishDropsController(s, cover, again, saw) ==
    LET k == turn[s].key IN
    /\ bucket' = [bucket EXCEPT ![k] = @ \cup again \cup (parked[k] \ saw)]
    /\ DrainPending(k)
    /\ acks' = acks \ (saw \cup Covered(k, cover))
    /\ active' = active \ {k}
    /\ ctl' = [ctl EXCEPT ![k] = None]
    /\ lock' = IF lock[k] = s THEN [lock EXCEPT ![k] = None] ELSE lock
    /\ turn' = [turn EXCEPT ![s] = NoTurn]

\* handleBatch's finally block, and the release of the session lock.  `again`
\* is re-enqueued, `saw` was dropped by drainUnanswered (with its acks), the
\* rest of the pending file is re-enqueued, and the acks up to the maximum of
\* `cover` are cleared (none when it is empty: ackCover.max = 0).
Finish(s, cover, again, saw) ==
    LET k == turn[s].key IN
    /\ bucket' = [bucket EXCEPT ![k] = @ \cup again \cup (parked[k] \ saw)]
    /\ DrainPending(k)
    /\ acks' = acks \ (saw \cup Covered(k, cover))
    /\ active' = active \ {k}
    /\ ctl' = IF ctl[k] = s THEN [ctl EXCEPT ![k] = None] ELSE ctl
    /\ lock' = IF lock[k] = s THEN [lock EXCEPT ![k] = None] ELSE lock
    /\ turn' = [turn EXCEPT ![s] = NoTurn]

\* A model run of turn s succeeded: everything its session was given before is
\* accounted for, except `again`, which gets a turn of its own, and what another
\* turn of the session still works on.
Answered(s, rows, again) ==
    LET told0 == {r \in told : KeyOf[r] = turn[s].key}
        other == UNION {turn[z].fed : z \in Slots \ {s}} IN
    done' = done \cup ((rows \cup (told0 \ other)) \ again)

Begin(s, k, batch) ==
    /\ boot = "up"
    /\ turn[s].pc = "off"
    /\ lock[k] = None
    /\ batch # {}
    /\ lock' = [lock EXCEPT ![k] = s]
    /\ ctl' = [ctl EXCEPT ![k] = s]
    /\ active' = active \cup {k}
    /\ turn' = [turn EXCEPT ![s] = [NoTurn EXCEPT !.pc = "gate", !.key = k,
                                        !.msgs = batch, !.fed = batch, !.prev = batch]]
    /\ UNCHANGED <<now, cursor, stored, disk, routed, judging, boot>>
    /\ UNCHANGED <<acks, parked, shown, oweVars, histVars, bounds>>

\* flushLocked got the lock: it takes everything the bucket holds by then.
BeginTurn(s, k) ==
    /\ Begin(s, k, bucket[k])
    /\ bucket' = [bucket EXCEPT ![k] = {}]
    /\ UNCHANGED waiting

\* The chat's catch-up turn got the lock: it stops absorbing.
BeginCatchUp(s, k) ==
    /\ Begin(s, k, waiting[k])
    /\ waiting' = [waiting EXCEPT ![k] = {}]
    /\ UNCHANGED bucket

\* The guest tier passes the batch on to the outbox drain, if a reply is queued.
GatePass(s) ==
    LET k == turn[s].key IN
    /\ turn[s].pc = "gate"
    /\ turn' = [turn EXCEPT ![s].pc = IF k \in outbox THEN "outbox" ELSE "enrich"]
    /\ UNCHANGED <<ingestVars, queueVars, lock, active, ctl, oweVars, histVars, bounds>>

\* The sender's tier was revoked, or a guest cap is hit: the batch is dropped.
GateDrop(s) ==
    /\ turn[s].pc = "gate"
    /\ "drop" \in Allow
    /\ Finish(s, turn[s].msgs, {}, {})
    /\ done' = done \cup turn[s].msgs
    /\ UNCHANGED <<ingestVars, oweVars, told, bounds>>

\* The queued reply went out: the batch is re-enqueued for a fresh turn.
FlushSent(s) ==
    LET k == turn[s].key IN
    /\ turn[s].pc = "outbox"
    /\ ClearOutbox(k)
    /\ lastOut' = [lastOut EXCEPT ![k] = now]
    /\ Finish(s, {}, turn[s].msgs, {})
    /\ UNCHANGED <<ingestVars, retry, resend, lastIn, histVars, bounds>>

\* The queued reply can never be sent: a cron asks the model to rephrase it,
\* and this turn goes on.
FlushPermanent(s) ==
    LET k == turn[s].key IN
    /\ turn[s].pc = "outbox"
    /\ ClearOutbox(k)
    /\ ScheduleLostReplyResend(k)
    /\ turn' = [turn EXCEPT ![s].pc = "enrich"]
    /\ UNCHANGED <<ingestVars, queueVars, lock, active, ctl, retry, lastIn, lastOut>>
    /\ UNCHANGED <<histVars, bounds>>

\* The queued reply still cannot be sent: the turn gives up without the model
\* and without re-enqueueing the batch.
FlushBails(s) ==
    /\ turn[s].pc = "outbox"
    /\ Fails("bail")
    /\ Finish(s, {}, {}, {})
    /\ UNCHANGED <<ingestVars, oweVars, histVars>>

\* The group re-gate finds no mention in text or transcripts: deliver the
\* draft if there is one, and drop the rest.
Regate(s) ==
    /\ turn[s].pc = "enrich"
    /\ "regate" \in Allow
    /\ IF turn[s].iter = 0
       THEN /\ Finish(s, turn[s].fed, {}, {})
            /\ done' = done \cup turn[s].fed
       ELSE /\ turn' = [turn EXCEPT ![s].pc = "send", ![s].then = "regate"]
            /\ UNCHANGED <<queueVars, lock, active, ctl, done>>
    /\ UNCHANGED <<ingestVars, oweVars, told, bounds>>

\* Enrichment is over: markTurnStart, and the model runs.
StartModel(s) ==
    /\ turn[s].pc = "enrich"
    /\ InboundAt(turn[s].key, turn[s].msgs)
    /\ told' = told \cup turn[s].msgs
    /\ turn' = [turn EXCEPT ![s].pc = "model"]
    /\ UNCHANGED <<ingestVars, queueVars, lock, active, ctl, outbox, retry, resend, lastOut>>
    /\ UNCHANGED <<done, bounds>>

\* The run was aborted by a barge-in: the user superseded what it had.
ModelAborted(s) ==
    /\ turn[s].pc = "model"
    /\ turn[s].aborted
    /\ Finish(s, turn[s].fed, {}, {})
    /\ done' = done \cup turn[s].fed
    /\ UNCHANGED <<ingestVars, oweVars, told, bounds>>

\* The run failed.  A retryable error schedules an inbound retry; a draft of
\* an earlier iteration is sent; otherwise the turn ends with its acks in place.
ModelFails(s) ==
    LET k == turn[s].key IN
    /\ turn[s].pc = "model"
    /\ ~turn[s].aborted
    /\ turn[s].iter = 0 \/ "foldfail" \in Allow
    /\ \/ Fails("fail") /\ ScheduleInboundRetry(k)
       \/ Fails("fatal") /\ UNCHANGED retry
    /\ IF turn[s].iter = 0
       THEN Finish(s, {}, {}, {})
       ELSE /\ turn' = [turn EXCEPT ![s].pc = "send", ![s].then = "failed"]
            /\ UNCHANGED <<queueVars, lock, active, ctl>>
    /\ UNCHANGED <<ingestVars, outbox, resend, lastIn, lastOut, histVars>>

\* The turn after a successful run that saw the shown rows `new`.
WithSeen(s, new) == [turn[s] EXCEPT !.seen = @ \cup new]

\* The rows a run of slot s may have seen mid-turn.
Showable(s) == shown \cap parked[turn[s].key]

\* A run without reply text: it spoke through tools or chose silence.
ModelSilent(s) ==
    LET k == turn[s].key IN
    /\ turn[s].pc = "model"
    /\ \E new \in SUBSET Showable(s) :
          LET saw == SeenParked(WithSeen(s, new)) IN
          /\ Finish(s, turn[s].fed, {}, saw)
          /\ Answered(s, turn[s].fed \cup saw, {})
    /\ InboundAt(k, turn[s].msgs)
    /\ lastOut' = [lastOut EXCEPT ![k] = now]
    /\ CancelInboundRetries(k)
    /\ UNCHANGED <<ingestVars, outbox, resend, told, bounds>>

\* KEEP_DRAFT: the follow-ups (and whatever is parked by now) are re-enqueued
\* for a turn of their own, then the draft is sent.  A row this run saw is
\* dropped too, although the draft was written before it.
ModelKeepsDraft(s) ==
    LET k == turn[s].key IN
    /\ turn[s].pc = "model"
    /\ turn[s].iter > 0
    /\ \E new \in SUBSET Showable(s) :
          LET t == WithSeen(s, new) IN
          /\ DrainPending(k)
          /\ acks' = acks \ SeenParked(t)
          /\ bucket' = [bucket EXCEPT ![k] = @ \cup t.msgs \cup (parked[k] \ SeenParked(t))]
          /\ done' = done \cup SeenParked(turn[s])
    /\ turn' = [turn EXCEPT ![s].pc = "send", ![s].then = "keep"]
    /\ UNCHANGED <<ingestVars, lock, active, ctl, oweVars, told, bounds>>

\* Mutant of ModelFolds: no iteration cap.
ModelFoldsUncapped(s) ==
    LET k == turn[s].key IN
    /\ turn[s].pc = "model"
    /\ \E new \in SUBSET Showable(s) :
          LET t    == WithSeen(s, new)
              rest == parked[k] \ SeenParked(t) IN
          /\ rest # {}
          /\ DrainPending(k)
          /\ acks' = acks \ SeenParked(t)
          /\ done' = done \cup SeenParked(t)
          /\ turn' = [turn EXCEPT ![s] = [t EXCEPT !.pc = "enrich", !.iter = @ + 1,
                                              !.msgs = rest, !.prev = @ \cup t.msgs,
                                              !.fed = @ \cup rest]]
    /\ UNCHANGED <<ingestVars, bucket, lock, active, ctl, oweVars, told, bounds>>

\* Follow-ups were parked meanwhile: run again with the draft and fold them in.
ModelFolds(s) ==
    LET k == turn[s].key IN
    /\ turn[s].pc = "model"
    /\ turn[s].iter + 1 < MaxIters
    /\ \E new \in SUBSET Showable(s) :
          LET t    == WithSeen(s, new)
              rest == parked[k] \ SeenParked(t) IN
          /\ rest # {}
          /\ DrainPending(k)
          /\ acks' = acks \ SeenParked(t)
          /\ done' = done \cup SeenParked(t)
          /\ turn' = [turn EXCEPT ![s] = [t EXCEPT !.pc = "enrich", !.iter = @ + 1,
                                              !.msgs = rest, !.prev = @ \cup t.msgs,
                                              !.fed = @ \cup rest]]
    /\ UNCHANGED <<ingestVars, bucket, lock, active, ctl, oweVars, told, bounds>>

\* The reply stands.  Below the iteration cap the pending file was drained to
\* get here, and held nothing but rows the run had seen.
ModelReplies(s) ==
    LET k == turn[s].key IN
    /\ turn[s].pc = "model"
    /\ \E new \in SUBSET Showable(s) :
          LET t == WithSeen(s, new) IN
          /\ IF turn[s].iter + 1 < MaxIters
             THEN /\ parked[k] \subseteq t.seen
                  /\ DrainPending(k)
                  /\ acks' = acks \ parked[k]
                  /\ done' = done \cup parked[k]
             ELSE UNCHANGED <<parked, shown, acks, done>>
          /\ turn' = [turn EXCEPT ![s] = [t EXCEPT !.pc = "send", !.then = "final"]]
    /\ UNCHANGED <<ingestVars, bucket, lock, active, ctl, oweVars, told, bounds>>

\* The outcomes of sendDeliver.
DeliverySent(k, msgs) ==
    /\ InboundAt(k, msgs)
    /\ lastOut' = [lastOut EXCEPT ![k] = now]
    /\ CancelInboundRetries(k)
    /\ UNCHANGED <<outbox, resend>>

DeliveryTransient(k) ==
    /\ PutOutbox(k)
    /\ UNCHANGED <<retry, resend, lastIn, lastOut>>

DeliveryPermanent(k, msgs) ==
    /\ InboundAt(k, msgs)
    /\ lastOut' = [lastOut EXCEPT ![k] = now]
    /\ ScheduleLostReplyResend(k)
    /\ UNCHANGED <<outbox, retry>>

DeliverySilenced == UNCHANGED oweVars         \* by the sanitizer

\* sendDeliver returns, and the turn ends the way `then` says.
Delivered(s) ==
    LET t == turn[s]
        k == t.key IN
    /\ t.pc = "send"
    /\ \/ DeliverySent(k, t.msgs)
       \/ DeliveryTransient(k)
       \/ DeliveryPermanent(k, t.msgs)
       \/ DeliverySilenced
    /\ \/ /\ t.then = "final"
          /\ Finish(s, t.fed, {}, SeenParked(t))
          /\ Answered(s, t.fed \cup SeenParked(t), {})
       \/ /\ t.then = "regate"
          /\ Finish(s, t.fed, {}, {})
          /\ Answered(s, t.fed, {})
       \/ /\ t.then = "keep"
          /\ Finish(s, t.prev, {}, {})
          /\ Answered(s, t.prev, t.msgs \ t.prev)
       \/ /\ t.then = "failed"
          /\ Finish(s, {}, {}, {})
          /\ Answered(s, t.prev, t.msgs \ t.prev)
    /\ UNCHANGED <<ingestVars, told, bounds>>

\* A step of the turn throws: ackCover.max stays 0.
TurnThrows(s) ==
    /\ turn[s].pc # "off"
    /\ Fails("throw")
    /\ Finish(s, {}, {}, {})
    /\ UNCHANGED <<ingestVars, oweVars, histVars>>

\* The lease of the lock runs out: the session is released, the turn runs on.
Expire(s) ==
    LET k == turn[s].key IN
    /\ turn[s].pc # "off"
    /\ lock[k] = s
    /\ Fails("expire")
    /\ lock' = [lock EXCEPT ![k] = None]
    /\ turn' = [turn EXCEPT ![s].outlived = TRUE]
    /\ UNCHANGED <<ingestVars, queueVars, active, ctl, oweVars, histVars>>

-----------------------------------------------------------------------------
(* Crash and boot *)

\* The daemon dies.  What survives: chat.db, the flushed cursor, acks, routing,
\* the pending files, the queued replies, the crons and the session rows.
Crash ==
    /\ boot # "down"
    /\ crashes < MaxCrashes
    /\ crashes' = crashes + 1
    /\ boot' = "down"
    /\ cursor' = disk
    /\ stored' = disk
    /\ judging' = {}
    /\ waiting' = [k \in Keys |-> {}]
    /\ bucket' = [k \in Keys |-> {}]
    /\ shown' = {}
    /\ lock' = [k \in Keys |-> None]
    /\ active' = {}
    /\ ctl' = [k \in Keys |-> None]
    /\ turn' = [s \in Slots |-> NoTurn]
    /\ UNCHANGED <<now, disk, routed, acks, parked, oweVars, histVars, fails>>

\* Mutant of BootExtract: drops the orphan at the cursor itself.
BootExtractOffByOne ==
    /\ boot = "down"
    /\ boot' = "booting"
    /\ acks' = {r \in acks : r < disk}
    /\ UNCHANGED <<now, cursor, stored, disk, routed, judging, waiting>>
    /\ UNCHANGED <<bucket, parked, shown, turnVars, oweVars, histVars, bounds>>

\* extractOrphanAcks: rows past the cursor are left to the backlog read.
BootExtract ==
    /\ boot = "down"
    /\ boot' = "booting"
    /\ acks' = {r \in acks : r <= disk}
    /\ UNCHANGED <<now, cursor, stored, disk, routed, judging, waiting>>
    /\ UNCHANGED <<bucket, parked, shown, turnVars, oweVars, histVars, bounds>>

\* readBacklog and groupBacklog: the rows past the cursor that the gate accepts
\* (a row accepted before is accepted again) are acked, and each chat waits for
\* one turn on its orphans and its backlog.  The watcher starts past them.
BootCatchUp ==
    LET backlog == {r \in Rows : disk < r /\ r <= now} IN
    /\ boot = "booting"
    /\ \E accepted \in SUBSET backlog :
          /\ routed \cap backlog \subseteq accepted
          /\ routed' = routed \cup accepted
          /\ acks' = acks \cup accepted
          /\ waiting' = [k \in Keys |-> {r \in acks \cup accepted : KeyOf[r] = k}]
    /\ cursor' = now
    /\ stored' = now
    /\ boot' = "up"
    /\ UNCHANGED <<now, disk, judging, bucket, parked, shown>>
    /\ UNCHANGED <<turnVars, oweVars, histVars, bounds>>

-----------------------------------------------------------------------------

TurnStep(s) ==
    \/ \E k \in Keys : BeginTurn(s, k) \/ BeginCatchUp(s, k)
    \/ GatePass(s)
    \/ FlushSent(s)
    \/ FlushPermanent(s)
    \/ Regate(s)
    \/ StartModel(s)
    \/ ModelAborted(s)
    \/ ModelSilent(s)
    \/ ModelKeepsDraft(s)
    \/ ModelFolds(s)
    \/ ModelReplies(s)
    \/ Delivered(s)

TurnFault(s) ==
    \/ GateDrop(s)
    \/ FlushBails(s)
    \/ ModelFails(s)
    \/ TurnThrows(s)
    \/ Expire(s)

Watch(r) == WatchAccept(r) \/ WatchReject(r)

Next ==
    \/ Land
    \/ \E r \in Rows : Watch(r) \/ WatchThrow(r) \/ Judged(r)
    \/ FlushCursor
    \/ \E s \in Slots : TurnStep(s) \/ TurnFault(s)
    \/ Crash
    \/ BootExtract
    \/ BootCatchUp

Spec == Init /\ [][Next]_vars

\* Fairness: the poll drains chat.db, debounce timers fire and a free lock is
\* taken, every turn's awaits come back (the worker's idle timer ends a silent
\* run), and a daemon that is down is restarted by launchd.
FairSpec ==
    /\ Spec
    /\ WF_vars(\E r \in Rows : Watch(r))
    /\ WF_vars(\E s \in Slots : TurnStep(s))
    /\ WF_vars(BootExtract)
    /\ WF_vars(BootCatchUp)

-----------------------------------------------------------------------------
(* Properties *)

\* The rows some part of the running daemon still means to answer.
Held ==
    LET queued(k) == waiting[k] \cup bucket[k] \cup parked[k] IN
    UNION ({queued(k) : k \in Keys} \cup {turn[s].fed : s \in Slots})

\* No accepted message is lost to a crash, whenever it comes: until a row is
\* answered, the flushed cursor has not passed it, so boot reads it again, or
\* its ack survives, so boot replays it, or a retry cron owns it.
Durable == \A r \in routed \ done : disk < r \/ r \in acks \/ KeyOf[r] \in retry

\* No accepted message is forgotten by the running daemon: an unanswered row is
\* queued or in a turn, or its turn failed and the retry cron owns it.
Remembered ==
    boot = "up" => \A r \in routed \ done : r \in Held \/ KeyOf[r] \in retry

\* Nothing that is queued was already disposed of: a restart re-reads the rows
\* of its last seconds, "filtered out by shouldAccept" (store.ts).
NothingDoneIsQueued ==
    \A k \in Keys : (waiting[k] \cup bucket[k] \cup parked[k]) \cap done = {}

\* No row is answered twice: nothing queued was already disposed of, and no row
\* waits in two queues.
NoSecondAnswer ==
    /\ NothingDoneIsQueued
    /\ \A k \in Keys : /\ bucket[k] \cap parked[k] = {}
                       /\ waiting[k] \cap (bucket[k] \cup parked[k]) = {}

\* A session is marked active exactly while one turn of it runs, and that turn
\* holds the lock and the abort controller, so a follow-up is parked behind the
\* turn that will drain it and a barge-in aborts the turn that is running.
ActiveIsTheTurn ==
    \A k \in Keys :
        LET running == {s \in Slots : turn[s].key = k} IN
        /\ k \in active <=> running # {}
        /\ lock[k] # None <=> running # {}
        /\ ctl[k] # None <=> running # {}
        /\ \A s \in running : lock[k] = s /\ ctl[k] = s

\* A turn that outlives its lease takes nothing from its successor, and leaves
\* nothing behind: the lock of a session is held exactly by its turn whose lease
\* has not run out, and a barge-in aborts that turn, not the one before it.  (The
\* active mark is not covered: the late finally block does remove it.)
LockFollowsTurn ==
    \A k \in Keys, s \in Slots :
        /\ lock[k] = s <=> turn[s].key = k /\ ~turn[s].outlived
        /\ lock[k] = s => ctl[k] = s

\* Every accepted message is answered (or deliberately disposed of), however
\* many follow-ups, barge-ins and restarts come in between, unless a model call
\* or a send failed, whose retry is a cron job's.
EveryRowDone == \A r \in Rows : r \in routed ~> r \in done \/ fails > 0
=============================================================================
