------------------------------ MODULE Recovery ------------------------------
(***************************************************************************)
(* What happens to the messages of one session after a turn of it failed:  *)
(* the recovery sweep (recovery/sweeper.ts) with its recovery turn         *)
(* (recovery/turn.ts), and the drainer of queued replies                   *)
(* (recovery/outbox-drainer.ts), beside the live turn (channels/turn.ts)   *)
(* and the cron fire (cron/fire.ts) that use the same session.             *)
(*                                                                         *)
(* Messages are numbered as they land in chat.db, and the clock is the     *)
(* number of the last one: last_outbound_ms is the number of messages that *)
(* had landed when the reply went out.  A reply is the set of messages it  *)
(* answers ({} for a brief).  The stale threshold, the cooldown, the       *)
(* drainer's backoff and the other reasons of evaluateSession (agents,     *)
(* jobs, imminent crons) only delay a pass: here it may come at any time.  *)
(* Every await is a step of its own; a pass and a drain list their         *)
(* sessions first and come to this one later, when they are done with the  *)
(* ones before it.                                                         *)
(***************************************************************************)
EXTENDS Naturals, Sequences, FiniteSets

CONSTANTS MaxRow,     \* messages (a bound of the model)
          MaxFaults,  \* failures of the model or of a send (a bound of the model)
          MaxFires,   \* briefs of the cron scheduler (a bound of the model)
          Passes,     \* sweeps that may run at the same time
          Drains,     \* drains that may run at the same time
          None

ASSUME BoundsAssumption == MaxRow \in Nat /\ MaxFaults \in Nat /\ MaxFires \in Nat
ASSUME ActorsAssumption == {"live", "fire"} \cap Passes = {}

Rows    == 1..MaxRow
Replies == SUBSET Rows

VARIABLES
    landed,     \* messages in chat.db
    bucket,     \* those that wait for a turn (debounced, parked or queued again)
    lastIn, lastOut, outbox, replayed,      \* state.db
    retry,      \* rows that the active inbound-retry crons are for
    active,     \* activeSessions has the session
    recovering, inFlight,                   \* module-level sets of sweeper and drainer
    queue,      \* the session lock: its holder, and those that wait for it
    live,       \* the live turn: pc, batch, reply, the last_inbound_ms it read
    fire,       \* the cron fire: pc, reply
    pass,       \* each sweep: pc, since, rows, reply
    drain,      \* each drain: pc, reply
    answered,   \* history: rows that a delivered reply answered
    recovered,  \* history: how many recovery turns disposed of a row
    faults, fires

state  == <<lastIn, lastOut, outbox, replayed, retry>>
chat   == <<landed, bucket>>
sets   == <<active, recovering, inFlight>>
hist   == <<answered, recovered>>
bounds == <<faults, fires>>
vars   == <<chat, state, sets, queue, live, fire, pass, drain, hist, bounds>>

Off == [pc |-> "off", batch |-> {}, reply |-> None, in |-> 0]
Idle == [pc |-> "off", since |-> 0, rows |-> {}, reply |-> None]
Still == [pc |-> "off", reply |-> None]

Last(rows) == CHOOSE r \in rows : \A s \in rows : s <= r

Actors == {"live", "fire"} \cup Passes

LiveStates == [pc : {"off", "wait", "flush", "model", "send"}, batch : Replies,
               reply : Replies \cup {None}, in : 0..MaxRow]
FireStates == [pc : {"off", "wait", "send"}, reply : Replies \cup {None}]
PassStates == [pc : {"off", "listed", "heal", "alert", "flush", "wait", "send", "mark"},
               since : 0..MaxRow, rows : Replies, reply : Replies \cup {None}]
DrainStates == [pc : {"off", "listed", "send"}, reply : Replies \cup {None}]

TypeOK ==
    /\ landed \in 0..MaxRow /\ bucket \subseteq Rows
    /\ lastIn \in 0..MaxRow /\ lastOut \in 0..MaxRow
    /\ outbox \in Replies \cup {None} /\ retry \subseteq Rows
    /\ replayed \subseteq Rows /\ answered \subseteq Rows
    /\ active \in BOOLEAN /\ recovering \in BOOLEAN /\ inFlight \in BOOLEAN
    /\ queue \in Seq(Actors)
    /\ live \in LiveStates
    /\ fire \in FireStates
    /\ pass \in [Passes -> PassStates]
    /\ drain \in [Drains -> DrainStates]
    /\ recovered \in [Rows -> Nat]
    /\ faults \in 0..MaxFaults /\ fires \in 0..MaxFires

Init ==
    /\ landed = 0 /\ bucket = {} /\ lastIn = 0 /\ lastOut = 0
    /\ outbox = None /\ replayed = {} /\ retry = {}
    /\ active = FALSE /\ recovering = FALSE /\ inFlight = FALSE
    /\ queue = <<>> /\ live = Off /\ fire = Still
    /\ pass = [p \in Passes |-> Idle] /\ drain = [d \in Drains |-> Still]
    /\ answered = {} /\ recovered = [r \in Rows |-> 0]
    /\ faults = 0 /\ fires = 0

\* A bounded failure: a model call or a send that goes wrong.
Fault   == faults < MaxFaults /\ faults' = faults + 1 /\ UNCHANGED fires

Holds(x)  == queue # <<>> /\ Head(queue) = x
Unlock    == queue' = Tail(queue)

------------------------------------------------------------------------------
(* The live turn (channels/turn.ts), as far as recovery meets it.          *)

\* A message lands, is accepted, and waits for a turn of its own (or is
\* parked behind the running one, whose finally block queues it again).
Land ==
    /\ landed < MaxRow
    /\ landed' = landed + 1
    /\ bucket' = bucket \cup {landed + 1}
    /\ UNCHANGED <<state, sets, queue, live, fire, pass, drain, hist, bounds>>

TurnQueues ==
    /\ live.pc = "off" /\ bucket # {}
    /\ live' = [Off EXCEPT !.pc = "wait"]
    /\ queue' = Append(queue, "live")
    /\ UNCHANGED <<chat, state, sets, fire, pass, drain, hist, bounds>>

\* handleBatch up to its first await: the queued reply goes first.
TurnStarts ==
    /\ live.pc = "wait" /\ Holds("live")
    /\ active' = TRUE
    /\ bucket' = {}
    /\ live' = [pc |-> IF outbox # None THEN "flush" ELSE "model",
                batch |-> bucket, reply |-> outbox, in |-> lastIn]
    /\ lastIn' = IF outbox # None THEN lastIn ELSE Last(bucket)
    /\ UNCHANGED <<landed, lastOut, outbox, replayed, retry, recovering, inFlight, queue,
                   fire, pass, drain, hist, bounds>>

TurnEnds == live' = Off /\ active' = FALSE /\ Unlock /\ UNCHANGED <<recovering, inFlight>>

\* The queued reply went out: the batch gets a fresh turn.
TurnFlushed ==
    /\ live.pc = "flush"
    /\ outbox' = None
    /\ lastIn' = live.in
    /\ lastOut' = landed
    /\ bucket' = bucket \cup live.batch
    /\ answered' = answered \cup live.reply
    /\ TurnEnds
    /\ UNCHANGED <<landed, replayed, retry, fire, pass, drain, recovered, bounds>>

\* It cannot be sent: the turn goes on without it, or is left to the sweeper.
TurnDropsReply ==
    /\ live.pc = "flush" /\ Fault
    /\ outbox' = None
    /\ lastIn' = Last(live.batch)
    /\ live' = [live EXCEPT !.pc = "model", !.reply = None]
    /\ UNCHANGED <<chat, lastOut, replayed, retry, sets, queue, fire, pass, drain, hist>>

TurnBails ==
    /\ live.pc = "flush" /\ Fault
    /\ TurnEnds
    /\ UNCHANGED <<chat, state, fire, pass, drain, hist>>

TurnReplies ==
    /\ live.pc = "model"
    /\ live' = [live EXCEPT !.pc = "send", !.reply = live.batch]
    /\ UNCHANGED <<chat, state, sets, queue, fire, pass, drain, hist, bounds>>

\* The model fails; a retryable error leaves an inbound-retry cron.
TurnFails ==
    /\ live.pc = "model" /\ Fault
    /\ retry' \in {retry, retry \cup live.batch}
    /\ TurnEnds
    /\ UNCHANGED <<chat, lastIn, lastOut, outbox, replayed, fire, pass, drain, hist>>

\* sendDeliver: sent. A silent or tool-only turn stamps the session alike.
TurnDelivers ==
    /\ live.pc = "send"
    /\ lastIn' = Last(live.batch)
    /\ lastOut' = landed
    /\ retry' = {}
    /\ answered' \in {answered, answered \cup live.reply}
    /\ TurnEnds
    /\ UNCHANGED <<chat, outbox, replayed, fire, pass, drain, recovered, bounds>>

\* Not sent: queued, or (a permanent error) given to a resend cron and
\* stamped as answered.
TurnStashes ==
    /\ live.pc = "send" /\ Fault
    /\ outbox' = live.reply
    /\ TurnEnds
    /\ UNCHANGED <<chat, lastIn, lastOut, replayed, retry, fire, pass, drain, hist>>

TurnLosesReply ==
    /\ live.pc = "send" /\ Fault
    /\ lastIn' = Last(live.batch)
    /\ lastOut' = landed
    /\ TurnEnds
    /\ UNCHANGED <<chat, outbox, replayed, retry, fire, pass, drain, hist>>

------------------------------------------------------------------------------
(* A cron fire (cron/fire.ts): a brief, or the inbound retries. It holds   *)
(* the lock but does not make the session active, and it stamps neither    *)
(* last_inbound_ms nor last_outbound_ms.                                   *)

FireEnds == fire' = Still /\ Unlock

\* A retry whose burst was answered since is dropped before it waits.
FireQueues ==
    /\ fire.pc = "off"
    /\ \/ retry # {} /\ UNCHANGED bounds
       \/ retry = {} /\ fires < MaxFires /\ fires' = fires + 1 /\ UNCHANGED faults
    /\ retry' = {}
    /\ IF retry # {} /\ lastOut >= lastIn
       THEN UNCHANGED <<fire, queue>>
       ELSE fire' = [pc |-> "wait", reply |-> retry] /\ queue' = Append(queue, "fire")
    /\ UNCHANGED <<chat, lastIn, lastOut, outbox, replayed, sets, live, pass, drain, hist>>

FireReplies ==
    /\ fire.pc = "wait" /\ Holds("fire")
    /\ fire' = [fire EXCEPT !.pc = "send"]
    /\ UNCHANGED <<chat, state, sets, queue, live, pass, drain, hist, bounds>>

\* The model fails: a retryable error schedules the fire again.
FireFails ==
    /\ fire.pc = "wait" /\ Holds("fire") /\ Fault
    /\ retry' \in {retry, retry \cup fire.reply}
    /\ FireEnds
    /\ UNCHANGED <<chat, lastIn, lastOut, outbox, replayed, sets, live, pass, drain, hist>>

\* Sent, or silent.
FireDelivers ==
    /\ fire.pc = "send"
    /\ answered' \in {answered, answered \cup fire.reply}
    /\ FireEnds
    /\ UNCHANGED <<chat, state, sets, live, pass, drain, recovered, bounds>>

\* Not sent: queued unless a reply is queued already, or (permanent) dropped.
FireStashes ==
    /\ fire.pc = "send" /\ Fault
    /\ outbox' \in {outbox, IF outbox = None THEN fire.reply ELSE outbox}
    /\ FireEnds
    /\ UNCHANGED <<chat, lastIn, lastOut, replayed, retry, sets, live, pass, drain, hist>>

------------------------------------------------------------------------------
(* The sweep (sweepStuckSessions) and its recovery turn.                   *)

Sweep(p, s)  == pass' = [pass EXCEPT ![p] = s]
SweepEnds(p) == Sweep(p, Idle) /\ recovering' = FALSE

\* listSessionsNeedingRecovery: the pass keeps the record it read here.
PassLists(p) ==
    /\ pass[p].pc = "off" /\ lastIn > lastOut
    /\ Sweep(p, [Idle EXCEPT !.pc = "listed", !.since = lastOut])
    /\ UNCHANGED <<chat, state, sets, queue, live, fire, drain, hist, bounds>>

\* The session's turn in the list: skipped, or healed first, or loaded.
PassSkips(p) ==
    /\ pass[p].pc = "listed"
    /\ recovering \/ active \/ retry # {}
    /\ Sweep(p, Idle)
    /\ UNCHANGED <<chat, state, sets, queue, live, fire, drain, hist, bounds>>

Unanswered(p) == {r \in 1..landed : r > pass[p].since} \ replayed

\* runRecoveryTurn up to its first await: the outbox, or the lock.
Begins(p, rows) ==
    IF outbox # None
    THEN /\ Sweep(p, [pass[p] EXCEPT !.pc = "flush", !.rows = rows, !.reply = outbox])
         /\ UNCHANGED queue
    ELSE /\ Sweep(p, [pass[p] EXCEPT !.pc = "wait", !.rows = rows])
         /\ queue' = Append(queue, p)

\* loadUnansweredInbound: nothing owed, or the operator is told first (a
\* session past max_age), or the recovery turn.
Loads(p) ==
    LET rows == Unanswered(p)
    IN  \/ rows = {} /\ SweepEnds(p) /\ UNCHANGED queue
        \/ rows # {} /\ recovering' = TRUE /\ UNCHANGED queue
                     /\ Sweep(p, [pass[p] EXCEPT !.pc = "alert", !.rows = rows])
        \/ rows # {} /\ recovering' = TRUE /\ Begins(p, rows)

\* Mutant of PassTakes: the pass does not look at what others recover.
PassTakesAnyway(p) ==
    /\ pass[p].pc = "listed"
    /\ ~active /\ retry = {}
    /\ Loads(p)
    /\ UNCHANGED <<chat, state, active, inFlight, live, fire, drain, hist, bounds>>

PassTakes(p) ==
    /\ pass[p].pc = "listed"
    /\ ~recovering /\ ~active /\ retry = {}
    /\ Loads(p)
    /\ UNCHANGED <<chat, state, active, inFlight, live, fire, drain, hist, bounds>>

\* The last error class has a healer, which is awaited.
PassHeals(p) ==
    /\ pass[p].pc = "listed"
    /\ ~recovering /\ ~active /\ retry = {}
    /\ recovering' = TRUE
    /\ Sweep(p, [pass[p] EXCEPT !.pc = "heal"])
    /\ UNCHANGED <<chat, state, active, inFlight, queue, live, fire, drain, hist, bounds>>

PassHealed(p) ==
    /\ pass[p].pc = "heal"
    /\ Loads(p)
    /\ UNCHANGED <<chat, state, active, inFlight, live, fire, drain, hist, bounds>>

PassHealFails(p) ==
    /\ pass[p].pc = "heal" /\ Fault
    /\ SweepEnds(p)
    /\ UNCHANGED <<chat, state, active, inFlight, queue, live, fire, drain, hist>>

PassAlerted(p) ==
    /\ pass[p].pc = "alert"
    /\ Begins(p, pass[p].rows)
    /\ UNCHANGED <<chat, state, sets, live, fire, drain, hist, bounds>>

Disposes(p) ==
    /\ replayed' = replayed \cup pass[p].rows
    /\ recovered' = [r \in Rows |-> IF r \in pass[p].rows THEN recovered[r] + 1 ELSE recovered[r]]
    /\ retry' = {}

\* The queued reply went out: one transaction, and the rows count as done.
PassFlushed(p) ==
    /\ pass[p].pc = "flush"
    /\ outbox' = None
    /\ lastIn' = Last(pass[p].rows)
    /\ lastOut' = landed
    /\ answered' = answered \cup pass[p].reply
    /\ Disposes(p)
    /\ SweepEnds(p)
    /\ UNCHANGED <<chat, active, inFlight, queue, live, fire, drain, bounds>>

\* It cannot be sent: the model is asked to reformat it, or the turn fails.
PassDropsReply(p) ==
    /\ pass[p].pc = "flush" /\ Fault
    /\ outbox' = None
    /\ Sweep(p, [pass[p] EXCEPT !.pc = "wait", !.reply = None])
    /\ queue' = Append(queue, p)
    /\ UNCHANGED <<chat, lastIn, lastOut, replayed, retry, sets, live, fire, drain, hist>>

\* Mutant of PassBails: the session stays in the set of those recovered.
PassBailsUnfinally(p) ==
    /\ pass[p].pc = "flush" /\ Fault
    /\ Sweep(p, Idle)
    /\ UNCHANGED <<chat, state, sets, queue, live, fire, drain, hist>>

PassBails(p) ==
    /\ pass[p].pc = "flush" /\ Fault
    /\ SweepEnds(p)
    /\ UNCHANGED <<chat, state, active, inFlight, queue, live, fire, drain, hist>>

\* Under the lock: the model composes a reply, stays silent, or fails.
PassReplies(p) ==
    /\ pass[p].pc = "wait" /\ Holds(p)
    /\ Sweep(p, [pass[p] EXCEPT !.pc = "send", !.reply = pass[p].rows])
    /\ UNCHANGED <<chat, state, sets, queue, live, fire, drain, hist, bounds>>

PassSilent(p) ==
    /\ pass[p].pc = "wait" /\ Holds(p)
    /\ lastIn' = Last(pass[p].rows)
    /\ lastOut' = landed
    /\ Sweep(p, [pass[p] EXCEPT !.pc = "mark"])
    /\ Unlock
    /\ UNCHANGED <<chat, outbox, replayed, retry, sets, live, fire, drain, hist, bounds>>

PassFails(p) ==
    /\ pass[p].pc = "wait" /\ Holds(p) /\ Fault
    /\ SweepEnds(p)
    /\ Unlock
    /\ UNCHANGED <<chat, state, active, inFlight, live, fire, drain, hist>>

PassDelivers(p) ==
    /\ pass[p].pc = "send"
    /\ lastIn' = Last(pass[p].rows)
    /\ lastOut' = landed
    /\ answered' = answered \cup pass[p].reply
    /\ Sweep(p, [pass[p] EXCEPT !.pc = "mark"])
    /\ Unlock
    /\ UNCHANGED <<chat, outbox, replayed, retry, sets, live, fire, drain, recovered, bounds>>

\* Not sent: queued, whatever the error; or the sanitizer left nothing.
PassStashes(p) ==
    /\ pass[p].pc = "send" /\ Fault
    /\ outbox' \in {outbox, pass[p].reply}
    /\ Sweep(p, [pass[p] EXCEPT !.pc = "mark"])
    /\ Unlock
    /\ UNCHANGED <<chat, lastIn, lastOut, replayed, retry, sets, live, fire, drain, hist>>

\* markRecovered and cancelInboundRetries, when the lock was given up.
PassMarks(p) ==
    /\ pass[p].pc = "mark"
    /\ Disposes(p)
    /\ SweepEnds(p)
    /\ UNCHANGED <<chat, lastIn, lastOut, outbox, active, inFlight, queue, live, fire, drain,
                   answered, bounds>>

------------------------------------------------------------------------------
(* The drainer (drainOutbox): outside the session lock.                    *)

DrainLists(d) ==
    /\ drain[d].pc = "off" /\ outbox # None
    /\ drain' = [drain EXCEPT ![d] = [pc |-> "listed", reply |-> outbox]]
    /\ UNCHANGED <<chat, state, sets, queue, live, fire, pass, hist, bounds>>

DrainTakes(d) ==
    /\ drain[d].pc = "listed"
    /\ inFlight' = TRUE
    /\ drain' = [drain EXCEPT ![d] = IF inFlight THEN Still ELSE [@ EXCEPT !.pc = "send"]]
    /\ UNCHANGED <<chat, state, active, recovering, queue, live, fire, pass, hist, bounds>>

DrainEnds(d) ==
    /\ drain' = [drain EXCEPT ![d] = Still]
    /\ inFlight' = FALSE
    /\ UNCHANGED <<active, recovering>>

\* Sent: the queued reply is cleared, whichever it is by now, and the session
\* is not stamped.
DrainDelivers(d) ==
    /\ drain[d].pc = "send"
    /\ outbox' = None
    /\ answered' = answered \cup drain[d].reply
    /\ DrainEnds(d)
    /\ UNCHANGED <<chat, lastIn, lastOut, replayed, retry, queue, live, fire, pass, recovered, bounds>>

\* Not sent: kept for the next drain, or (permanent) dropped.
DrainFails(d) ==
    /\ drain[d].pc = "send" /\ Fault
    /\ outbox' \in {outbox, None}
    /\ DrainEnds(d)
    /\ UNCHANGED <<chat, lastIn, lastOut, replayed, retry, queue, live, fire, pass, hist>>

------------------------------------------------------------------------------
TurnNext == \/ TurnQueues \/ TurnStarts \/ TurnFlushed \/ TurnDropsReply \/ TurnBails
            \/ TurnReplies \/ TurnFails \/ TurnDelivers \/ TurnStashes \/ TurnLosesReply
FireNext == FireQueues \/ FireReplies \/ FireFails \/ FireDelivers \/ FireStashes
PassNext(p) ==
    \/ PassLists(p) \/ PassSkips(p) \/ PassTakes(p) \/ PassHeals(p) \/ PassHealed(p)
    \/ PassHealFails(p) \/ PassAlerted(p) \/ PassFlushed(p) \/ PassDropsReply(p) \/ PassBails(p)
    \/ PassReplies(p) \/ PassSilent(p) \/ PassFails(p) \/ PassDelivers(p) \/ PassStashes(p)
    \/ PassMarks(p)
DrainNext(d) == DrainLists(d) \/ DrainTakes(d) \/ DrainDelivers(d) \/ DrainFails(d)

Next == \/ Land \/ TurnNext \/ FireNext
        \/ \E p \in Passes : PassNext(p)
        \/ \E d \in Drains : DrainNext(d)

Spec == Init /\ [][Next]_vars

\* Turns and fires end, intervals tick: nothing that can go on waits for ever.
FairSpec == /\ Spec
            /\ WF_vars(TurnNext) /\ WF_vars(FireNext)
            /\ \A p \in Passes : WF_vars(PassNext(p))
            /\ \A d \in Drains : WF_vars(DrainNext(d))

------------------------------------------------------------------------------
(* Properties.                                                             *)

\* No message is disposed of by two recovery turns, although passes overlap,
\* act on records they read long before, and queue on the session lock
\* (sweeper.ts recovering, turn.ts markRecovered).
RecoveredOnce == \A r \in Rows : recovered[r] <= 1

\* The session owes a reply, as the sweep sees it.
Owes == lastIn > lastOut /\ {r \in 1..landed : r > lastOut} \ replayed # {}

\* The sweep never gives a session up: what it owes is in the end answered or
\* disposed of, whatever fails on the way ("we keep trying", sweeper.ts).
NeverSilent == Owes ~> ~Owes

\* "the user could get two model replies to the same failed burst"
\* (sweeper.ts): no recovery turn composes a reply to a message that a
\* delivered reply answered already.
NoSecondReply ==
    [][\A p \in Passes : pass[p].pc = "wait" /\ pass'[p].pc = "send"
                         => pass[p].rows \cap answered = {}]_vars
=============================================================================
