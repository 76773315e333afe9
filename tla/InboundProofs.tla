---------------------------- MODULE InboundProofs ----------------------------
(***************************************************************************)
(* Safety of Inbound for any rows, sessions, slots, crashes and failures.  *)
(*                                                                         *)
(* Base, the types and a lock that is a turn's, holds whatever happens;    *)
(* OneTurn, one turn per session, unless a lock's lease runs out.  Cares   *)
(* is the invariant behind the promise that no accepted message is lost or *)
(* forgotten, for the events the code was written for (Ordinary): what the *)
(* running daemon has is acked (Acked), what it does not have any more a   *)
(* retry cron owns (Owned), and what is queued behind a turn came after    *)
(* all the turn has (Order), so that clearing acks up to a turn's last row *)
(* clears none of a row that still waits.  Once is the invariant behind    *)
(* the promise that nothing is answered twice before a crash: a row is     *)
(* routed once (Unrouted), waits in one queue (QueuedOnce) and is in one   *)
(* turn, which re-enqueues only what it does not count as answered.        *)
(***************************************************************************)
EXTENDS Inbound, TLAPS

\* The events under which every accepted row keeps an owner.
Ordinary == {"barge", "drop", "regate", "fail"}

\* The lock is the turn's that has not outlived its lease.
Locks == LockFollowsTurn

\* A slot without a turn has no session.
Slotted == \A s \in Slots : turn[s].pc = "off" <=> turn[s].key = None

Base == TypeOK /\ Locks /\ Slotted

\* ActiveIsTheTurn, session by session: one turn, which has everything.
OneTurn == \A k \in Keys :
    /\ k \in active <=> \E s \in Slots : turn[s].key = k
    /\ lock[k] # None <=> \E s \in Slots : turn[s].key = k
    /\ ctl[k] # None <=> \E s \in Slots : turn[s].key = k
    /\ \A s \in Slots : turn[s].key = k => lock[k] = s /\ ctl[k] = s

\* Nothing of a turn changes but that it may be aborted.
SameTurns == \A s \in Slots :
    /\ turn'[s].pc = turn[s].pc /\ turn'[s].key = turn[s].key
    /\ turn'[s].msgs = turn[s].msgs /\ turn'[s].fed = turn[s].fed /\ turn'[s].prev = turn[s].prev
    /\ turn'[s].iter = turn[s].iter /\ turn'[s].seen = turn[s].seen /\ turn'[s].then = turn[s].then
    /\ turn'[s].outlived = turn[s].outlived

-----------------------------------------------------------------------------
(* Helpers *)

\* The two forms of one turn per session.
LEMMA OneTurnMeans == (ActiveIsTheTurn <=> OneTurn) /\ (ActiveIsTheTurn <=> OneTurn)'
<1>1. ActiveIsTheTurn <=> OneTurn
  BY DEF ActiveIsTheTurn, OneTurn
<1>2. (ActiveIsTheTurn <=> OneTurn)'
  BY DEF ActiveIsTheTurn, OneTurn
<1> QED BY <1>1, <1>2

\* A record of a turn, and its fields.
LEMMA TurnFields ==
    ASSUME TypeOK, NEW s \in Slots
    PROVE  /\ turn[s] \in Turns
           /\ turn[s].pc \in {"off", "gate", "outbox", "enrich", "model", "send"}
           /\ turn[s].key \in Keys \cup {None}
           /\ turn[s].msgs \subseteq Rows /\ turn[s].fed \subseteq Rows /\ turn[s].prev \subseteq Rows
           /\ turn[s].iter \in 0..(MaxIters - 1) /\ turn[s].seen \subseteq Rows
           /\ turn[s].aborted \in BOOLEAN /\ turn[s].outlived \in BOOLEAN
           /\ turn[s].then \in {"final", "keep", "regate", "failed"}
<1>1. turn[s] \in Turns
  BY DEF TypeOK
<1> QED BY <1>1 DEF Turns

\* No turn is a turn of no session.
LEMMA NoTurnType ==
    /\ NoTurn \in Turns /\ NoTurn.pc = "off" /\ NoTurn.key = None /\ NoTurn.fed = {}
    /\ NoTurn.seen = {} /\ NoTurn.outlived = FALSE
  BY IterAssumption DEF NoTurn, Turns

\* A slot whose turn runs has a session.
LEMMA RunningHasKey ==
    ASSUME Base, NEW s \in Slots, turn[s].pc # "off"
    PROVE  turn[s].key \in Keys
  BY TurnFields DEF Base, Slotted

\* Turns that stay as they are keep their locks.
LEMMA TurnsStay ==
    ASSUME Base, turn' \in [Slots -> Turns], SameTurns, UNCHANGED <<lock, ctl>>
    PROVE  /\ Locks' /\ Slotted'
           /\ OneTurn /\ UNCHANGED active => OneTurn'
<1>1. Locks'
  BY DEF Base, Locks, LockFollowsTurn, SameTurns
<1>2. Slotted'
  BY DEF Base, Slotted, SameTurns
<1>3. OneTurn /\ UNCHANGED active => OneTurn'
  BY DEF OneTurn, SameTurns
<1> QED BY <1>1, <1>2, <1>3

\* A turn that goes on in its session keeps its lock.
LEMMA TurnGoesOn ==
    ASSUME Base, NEW s \in Slots, NEW t \in Turns, turn[s].pc # "off",
           turn' = [turn EXCEPT ![s] = t], t.pc # "off", t.key = turn[s].key,
           t.outlived = turn[s].outlived, UNCHANGED <<lock, ctl>>
    PROVE  /\ turn' \in [Slots -> Turns] /\ turn'[s] = t
           /\ \A z \in Slots : z # s => turn'[z] = turn[z]
           /\ Locks' /\ Slotted'
           /\ OneTurn /\ UNCHANGED active => OneTurn'
<1>1. turn \in [Slots -> Turns]
  BY DEF Base, TypeOK
<1>2. turn' \in [Slots -> Turns] /\ turn'[s] = t /\ \A z \in Slots : z # s => turn'[z] = turn[z]
  BY <1>1
<1>4. \A z \in Slots : turn'[z].key = turn[z].key /\ turn'[z].outlived = turn[z].outlived
  BY <1>2
<1>5. Locks'
  BY <1>4 DEF Base, Locks, LockFollowsTurn
<1>6. Slotted'
  BY <1>2, RunningHasKey, SlotAssumption DEF Base, Slotted
<1>7. OneTurn /\ UNCHANGED active => OneTurn'
  BY <1>4 DEF OneTurn
<1> QED BY <1>2, <1>5, <1>6, <1>7

\* What Finish leaves behind.
LEMMA FinishEffect ==
    ASSUME Base, NEW s \in Slots, turn[s].pc # "off",
           NEW cover, NEW again \in SUBSET Rows, NEW saw, Finish(s, cover, again, saw)
    PROVE  LET k == turn[s].key IN
           /\ bucket' \in [Keys -> SUBSET Rows] /\ parked' \in [Keys -> SUBSET Rows]
           /\ bucket'[k] = bucket[k] \cup again \cup (parked[k] \ saw) /\ parked'[k] = {}
           /\ \A j \in Keys : j # k => bucket'[j] = bucket[j] /\ parked'[j] = parked[j]
           /\ shown' \subseteq Rows /\ shown' \subseteq shown
           /\ acks' = acks \ (saw \cup Covered(k, cover)) /\ acks' \subseteq Rows
           /\ active' = active \ {k}
           /\ ctl' \in [Keys -> Slots \cup {None}] /\ lock' \in [Keys -> Slots \cup {None}]
           /\ turn' \in [Slots -> Turns] /\ turn'[s] = NoTurn
           /\ \A z \in Slots : z # s => turn'[z] = turn[z]
           /\ Locks' /\ Slotted'
           /\ OneTurn => OneTurn'
<1> DEFINE k == turn[s].key
<1>0. k \in Keys
  BY RunningHasKey
<1>t. /\ bucket \in [Keys -> SUBSET Rows] /\ parked \in [Keys -> SUBSET Rows]
      /\ ctl \in [Keys -> Slots \cup {None}] /\ lock \in [Keys -> Slots \cup {None}]
      /\ turn \in [Slots -> Turns] /\ shown \subseteq Rows /\ acks \subseteq Rows
  BY DEF Base, TypeOK
<1>1. /\ bucket' = [bucket EXCEPT ![k] = @ \cup again \cup (parked[k] \ saw)]
      /\ parked' = [parked EXCEPT ![k] = {}] /\ shown' = shown \ parked[k]
      /\ acks' = acks \ (saw \cup Covered(k, cover))
      /\ active' = active \ {k}
      /\ ctl' = IF ctl[k] = s THEN [ctl EXCEPT ![k] = None] ELSE ctl
      /\ lock' = IF lock[k] = s THEN [lock EXCEPT ![k] = None] ELSE lock
      /\ turn' = [turn EXCEPT ![s] = NoTurn]
  BY DEF Finish, DrainPending
<1> HIDE DEF k
<1>2. /\ bucket' \in [Keys -> SUBSET Rows] /\ parked' \in [Keys -> SUBSET Rows]
      /\ bucket'[k] = bucket[k] \cup again \cup (parked[k] \ saw) /\ parked'[k] = {}
      /\ \A j \in Keys : j # k => bucket'[j] = bucket[j] /\ parked'[j] = parked[j]
  BY <1>0, <1>1, <1>t
<1>3. /\ ctl' \in [Keys -> Slots \cup {None}] /\ lock' \in [Keys -> Slots \cup {None}]
      /\ \A j \in Keys : j # k => ctl'[j] = ctl[j] /\ lock'[j] = lock[j]
      /\ lock'[k] = IF lock[k] = s THEN None ELSE lock[k]
      /\ ctl'[k] = IF ctl[k] = s THEN None ELSE ctl[k]
  BY <1>0, <1>1, <1>t
<1>4. /\ turn' \in [Slots -> Turns] /\ turn'[s] = NoTurn
      /\ \A z \in Slots : z # s => turn'[z] = turn[z]
  BY <1>1, <1>t, NoTurnType
<1>5. Locks'
  <2> SUFFICES ASSUME NEW j \in Keys, NEW z \in Slots
               PROVE  /\ lock'[j] = z <=> turn'[z].key = j /\ ~turn'[z].outlived
                      /\ lock'[j] = z => ctl'[j] = z
    BY DEF Locks, LockFollowsTurn
  <2>1. /\ lock[j] = z <=> turn[z].key = j /\ ~turn[z].outlived
        /\ lock[j] = z => ctl[j] = z
        /\ lock[j] = s => j = k
    BY DEF Base, Locks, LockFollowsTurn, k
  <2>2. CASE z = s
    <3>1. turn'[z].key # j
      BY <1>4, <2>2, NoTurnType, SlotAssumption
    <3>2. lock'[j] # z
      BY <1>3, <2>1, <2>2, SlotAssumption
    <3> QED BY <3>1, <3>2
  <2>3. CASE z # s
    <3>1. turn'[z] = turn[z]
      BY <1>4, <2>3
    <3>2. lock'[j] = z <=> lock[j] = z
      BY <1>3, <2>1, <2>3, SlotAssumption
    <3>3. ctl[j] = z => ctl'[j] = z
      BY <1>3, <2>3
    <3> QED BY <2>1, <3>1, <3>2, <3>3
  <2> QED BY <2>2, <2>3
<1>6. Slotted'
  BY <1>4, NoTurnType DEF Base, Slotted
<1>7. ASSUME OneTurn PROVE OneTurn'
  <2>1. lock[k] = s /\ ctl[k] = s /\ \A z \in Slots : turn[z].key = k => z = s
    BY <1>0, <1>7 DEF OneTurn, k
  <2>2. \A z \in Slots : turn'[z].key # k
    BY <1>0, <1>4, <2>1, NoTurnType, SlotAssumption
  <2>3. \A j \in Keys, z \in Slots : j # k => (turn'[z].key = j <=> turn[z].key = j)
    BY <1>4, NoTurnType, SlotAssumption DEF k
  <2> QED BY <1>1, <1>3, <1>7, <2>1, <2>2, <2>3, SlotAssumption DEF OneTurn
<1> QED BY <1>1, <1>2, <1>3, <1>4, <1>5, <1>6, <1>7, <1>t DEF k

\* A turn that begins has the lock of a session without a turn of its own.
LEMMA BeginEffect ==
    ASSUME Base, NEW s \in Slots, NEW k \in Keys, NEW batch \in SUBSET Rows, Begin(s, k, batch)
    PROVE  /\ turn' \in [Slots -> Turns]
           /\ turn'[s] = [NoTurn EXCEPT !.pc = "gate", !.key = k, !.msgs = batch,
                                        !.fed = batch, !.prev = batch]
           /\ \A z \in Slots : z # s => turn'[z] = turn[z]
           /\ lock' \in [Keys -> Slots \cup {None}] /\ ctl' \in [Keys -> Slots \cup {None}]
           /\ active' = active \cup {k}
           /\ Locks' /\ Slotted'
           /\ OneTurn => OneTurn'
<1> DEFINE t == [NoTurn EXCEPT !.pc = "gate", !.key = k, !.msgs = batch,
                               !.fed = batch, !.prev = batch]
<1>t. /\ ctl \in [Keys -> Slots \cup {None}] /\ lock \in [Keys -> Slots \cup {None}]
      /\ turn \in [Slots -> Turns]
  BY DEF Base, TypeOK
<1>1. /\ turn[s].pc = "off" /\ lock[k] = None
      /\ lock' = [lock EXCEPT ![k] = s] /\ ctl' = [ctl EXCEPT ![k] = s]
      /\ active' = active \cup {k} /\ turn' = [turn EXCEPT ![s] = t]
  BY DEF Begin
<1>2. t \in Turns /\ t.key = k /\ t.pc = "gate" /\ t.outlived = FALSE
  <2>1. NoTurn \in Turns /\ NoTurn.outlived = FALSE
    BY NoTurnType
  <2> QED BY <2>1 DEF Turns
<1>3. turn[s].key = None
  BY <1>1 DEF Base, Slotted
<1> HIDE DEF t
<1>4. /\ turn' \in [Slots -> Turns] /\ turn'[s] = t
      /\ \A z \in Slots : z # s => turn'[z] = turn[z]
  BY <1>1, <1>2, <1>t
<1>5. /\ lock' \in [Keys -> Slots \cup {None}] /\ ctl' \in [Keys -> Slots \cup {None}]
      /\ lock'[k] = s /\ ctl'[k] = s
      /\ \A j \in Keys : j # k => lock'[j] = lock[j] /\ ctl'[j] = ctl[j]
  BY <1>1, <1>t
<1>6. Locks'
  <2> SUFFICES ASSUME NEW j \in Keys, NEW z \in Slots
               PROVE  /\ lock'[j] = z <=> turn'[z].key = j /\ ~turn'[z].outlived
                      /\ lock'[j] = z => ctl'[j] = z
    BY DEF Locks, LockFollowsTurn
  <2>1. /\ lock[j] = z <=> turn[z].key = j /\ ~turn[z].outlived
        /\ lock[j] = z => ctl[j] = z
    BY DEF Base, Locks, LockFollowsTurn
  <2>2. CASE z = s
    BY <2>1, <2>2, <1>2, <1>3, <1>4, <1>5, SlotAssumption
  <2>3. CASE z # s
    BY <2>1, <2>3, <1>1, <1>4, <1>5, SlotAssumption
  <2> QED BY <2>2, <2>3
<1>7. Slotted'
  BY <1>2, <1>4, SlotAssumption DEF Base, Slotted
<1>8. ASSUME OneTurn PROVE OneTurn'
  <2>1. \A z \in Slots : turn[z].key # k
    BY <1>1, <1>8 DEF OneTurn
  <2>2. \A z \in Slots : turn'[z].key = k <=> z = s
    BY <1>2, <1>4, <2>1
  <2>3. \A j \in Keys, z \in Slots : j # k => (turn'[z].key = j <=> turn[z].key = j)
    BY <1>2, <1>3, <1>4, SlotAssumption
  <2> QED BY <1>1, <1>5, <1>8, <2>2, <2>3, SlotAssumption DEF OneTurn
<1> QED BY <1>1, <1>4, <1>5, <1>6, <1>7, <1>8 DEF t


-----------------------------------------------------------------------------
(* Whatever happens: types, and a lock that is a turn's *)

\* What a fault counts.
LEMMA FailsType ==
    ASSUME TypeOK, NEW e, Fails(e)
    PROVE  fails' \in 0..MaxFails /\ UNCHANGED crashes /\ e \in Allow
  BY BoundAssumption DEF TypeOK, Fails

\* A row is a time of the model.
LEMMA RowsAreTimes == \A r \in Rows : r \in 0..MaxRow /\ r \in Nat
  BY RowAssumption DEF Rows

\* The last message of a batch.
LEMMA InboundAtType ==
    ASSUME TypeOK, NEW k, NEW msgs \in SUBSET Rows, InboundAt(k, msgs)
    PROVE  lastIn' \in [Keys -> 0..MaxRow]
<1>1. PICK m \in msgs : lastIn' = [lastIn EXCEPT ![k] = m]
  BY DEF InboundAt
<1>2. m \in 0..MaxRow
  BY RowsAreTimes
<1> QED BY <1>1, <1>2 DEF TypeOK

\* Aborting a turn changes nothing else.
LEMMA AbortIsAll ==
    ASSUME TypeOK, NEW k \in Keys,
           turn' = turn \/ turn' = IF ctl[k] = None THEN turn ELSE [turn EXCEPT ![ctl[k]].aborted = TRUE]
    PROVE  turn' \in [Slots -> Turns] /\ SameTurns
<1>1. CASE turn' = turn
  BY <1>1 DEF TypeOK, SameTurns
<1>2. CASE ctl[k] # None /\ turn' = [turn EXCEPT ![ctl[k]].aborted = TRUE]
  <2>1. PICK c \in Slots : c = ctl[k]
    BY <1>2 DEF TypeOK
  <2> DEFINE t == [turn[c] EXCEPT !.aborted = TRUE]
  <2>2. turn[c] \in Turns /\ turn \in [Slots -> Turns]
    BY DEF TypeOK
  <2>3. /\ t \in Turns
        /\ t.pc = turn[c].pc /\ t.key = turn[c].key
        /\ t.msgs = turn[c].msgs /\ t.fed = turn[c].fed /\ t.prev = turn[c].prev
        /\ t.iter = turn[c].iter /\ t.seen = turn[c].seen /\ t.then = turn[c].then
        /\ t.outlived = turn[c].outlived
    BY <2>2 DEF Turns
  <2>4. turn' = [turn EXCEPT ![c] = t]
    BY <1>2, <2>1
  <2> HIDE DEF t
  <2>5. turn' \in [Slots -> Turns] /\ turn'[c] = t /\ \A z \in Slots : z # c => turn'[z] = turn[z]
    BY <2>2, <2>3, <2>4
  <2> QED BY <2>3, <2>5 DEF SameTurns
<1> QED BY <1>1, <1>2

\* Parking a row: it is in the pending file, unless that could not be written.
LEMMA ParkEffect ==
    ASSUME TypeOK, NEW r \in Rows, Park(r)
    PROVE  /\ parked' \in [Keys -> SUBSET Rows] /\ shown' \subseteq Rows
           /\ turn' \in [Slots -> Turns] /\ SameTurns
           /\ fails' \in 0..MaxFails /\ UNCHANGED crashes
           /\ \/ parked' = [parked EXCEPT ![KeyOf[r]] = @ \cup {r}]
              \/ UNCHANGED parked /\ "park" \in Allow
           /\ UNCHANGED shown \/ "midturn" \in Allow
<1>0. KeyOf[r] \in Keys
  BY RowAssumption
<1>1. /\ \/ parked' = [parked EXCEPT ![KeyOf[r]] = @ \cup {r}]
         \/ UNCHANGED parked /\ Fails("park")
      /\ UNCHANGED shown \/ (shown' = shown \cup {r} /\ "midturn" \in Allow)
      /\ \/ turn' = turn
         \/ turn' = IF ctl[KeyOf[r]] = None THEN turn
                    ELSE [turn EXCEPT ![ctl[KeyOf[r]]].aborted = TRUE]
      /\ UNCHANGED bounds \/ Fails("park")
  BY DEF Park, WritePending, ShowToRunningTurn, BargeIn
<1>2. turn' \in [Slots -> Turns] /\ SameTurns
  BY <1>0, <1>1, AbortIsAll
<1>3. fails' \in 0..MaxFails /\ UNCHANGED crashes
  BY <1>1, FailsType DEF bounds, TypeOK
<1>4. parked' \in [Keys -> SUBSET Rows] /\ shown' \subseteq Rows
  BY <1>1 DEF TypeOK
<1>5. \/ parked' = [parked EXCEPT ![KeyOf[r]] = @ \cup {r}]
      \/ UNCHANGED parked /\ "park" \in Allow
  BY <1>1, FailsType
<1> QED BY <1>1, <1>2, <1>3, <1>4, <1>5

\* Routing a row: it is acked, and goes to one of the three queues.
LEMMA RouteEffect ==
    ASSUME TypeOK, NEW r \in Rows, Route(r)
    PROVE  /\ routed' = routed \cup {r} /\ acks' = acks \cup {r}
           /\ routed' \subseteq Rows /\ acks' \subseteq Rows
           /\ waiting' \in [Keys -> SUBSET Rows] /\ bucket' \in [Keys -> SUBSET Rows]
           /\ parked' \in [Keys -> SUBSET Rows] /\ shown' \subseteq Rows
           /\ turn' \in [Slots -> Turns] /\ SameTurns
           /\ fails' \in 0..MaxFails /\ UNCHANGED crashes
           /\ UNCHANGED shown \/ "midturn" \in Allow
           /\ \/ /\ waiting[KeyOf[r]] # {}
                 /\ waiting' = [waiting EXCEPT ![KeyOf[r]] = @ \cup {r}]
                 /\ UNCHANGED <<bucket, parked>>
              \/ /\ waiting[KeyOf[r]] = {} /\ KeyOf[r] \in active
                 /\ \/ parked' = [parked EXCEPT ![KeyOf[r]] = @ \cup {r}]
                    \/ UNCHANGED parked /\ "park" \in Allow
                 /\ UNCHANGED <<waiting, bucket>>
              \/ /\ waiting[KeyOf[r]] = {} /\ KeyOf[r] \notin active
                 /\ bucket' = [bucket EXCEPT ![KeyOf[r]] = @ \cup {r}]
                 /\ UNCHANGED <<waiting, parked>>
<1>0. KeyOf[r] \in Keys
  BY RowAssumption
<1>1. /\ routed' = routed \cup {r} /\ acks' = acks \cup {r}
      /\ routed' \subseteq Rows /\ acks' \subseteq Rows
  BY DEF Route, TypeOK
<1>2. CASE /\ waiting[KeyOf[r]] # {}
           /\ waiting' = [waiting EXCEPT ![KeyOf[r]] = @ \cup {r}]
           /\ UNCHANGED <<bucket, parked, shown, turn, bounds>>
  <2>1. turn' \in [Slots -> Turns] /\ SameTurns
    BY <1>2, <1>0, AbortIsAll
  <2>2. waiting' \in [Keys -> SUBSET Rows] /\ fails' \in 0..MaxFails /\ UNCHANGED crashes
    BY <1>2 DEF TypeOK, bounds
  <2> QED BY <1>1, <1>2, <2>1, <2>2 DEF TypeOK
<1>3. CASE /\ waiting[KeyOf[r]] = {} /\ KeyOf[r] \in active /\ Park(r)
           /\ UNCHANGED <<waiting, bucket>>
  BY <1>1, <1>3, ParkEffect DEF TypeOK
<1>4. CASE /\ waiting[KeyOf[r]] = {} /\ KeyOf[r] \notin active
           /\ bucket' = [bucket EXCEPT ![KeyOf[r]] = @ \cup {r}]
           /\ UNCHANGED <<waiting, parked, shown, turn, bounds>>
  <2>1. turn' \in [Slots -> Turns] /\ SameTurns
    BY <1>4, <1>0, AbortIsAll
  <2>2. bucket' \in [Keys -> SUBSET Rows] /\ fails' \in 0..MaxFails /\ UNCHANGED crashes
    BY <1>4 DEF TypeOK, bounds
  <2> QED BY <1>1, <1>4, <2>1, <2>2 DEF TypeOK
<1> QED BY <1>2, <1>3, <1>4 DEF Route

\* A row lands.
LEMMA LandKeeps ==
    ASSUME Base, Land
    PROVE  Base' /\ (OneTurn => OneTurn')
<1> USE DEF Base
<1>1. /\ UNCHANGED <<cursor, stored, disk, routed, judging, boot, waiting, acks, bucket,
                     parked, shown, lock, active, ctl, turn, outbox, retry, resend, lastIn,
                     lastOut, told, done, crashes, fails>>
      /\ now' \in 0..MaxRow
  BY RowAssumption DEF Land, ingestVars, queueVars, turnVars, oweVars, histVars, bounds, TypeOK
<1>2. turn' \in [Slots -> Turns] /\ SameTurns
  BY <1>1 DEF TypeOK, SameTurns
<1>3. Locks' /\ Slotted' /\ (OneTurn => OneTurn')
  BY <1>1, <1>2, TurnsStay
<1>4. TypeOK'
  BY <1>1, RowsAreTimes DEF TypeOK
<1> QED BY <1>3, <1>4

\* A row is refused.
LEMMA WatchRejectKeeps ==
    ASSUME Base, NEW r \in Rows, WatchReject(r)
    PROVE  Base' /\ (OneTurn => OneTurn')
<1> USE DEF Base
<1>1. /\ UNCHANGED <<now, disk, routed, boot, waiting, acks, bucket, parked, shown, lock,
                     active, ctl, turn, outbox, retry, resend, lastIn, lastOut, told, done,
                     crashes, fails>>
      /\ cursor' = r /\ stored' = r
      /\ judging' = judging \/ judging' = judging \cup {r}
  BY RowAssumption DEF WatchReject, ingestVars, queueVars, turnVars, oweVars, histVars, bounds,
     Drained, TypeOK
<1>2. turn' \in [Slots -> Turns] /\ SameTurns
  BY <1>1 DEF TypeOK, SameTurns
<1>3. Locks' /\ Slotted' /\ (OneTurn => OneTurn')
  BY <1>1, <1>2, TurnsStay
<1>4. TypeOK'
  BY <1>1, RowsAreTimes DEF TypeOK
<1> QED BY <1>3, <1>4

\* A row is skipped.
LEMMA WatchThrowKeeps ==
    ASSUME Base, NEW r \in Rows, WatchThrow(r)
    PROVE  Base' /\ (OneTurn => OneTurn')
<1> USE DEF Base
<1>1. /\ UNCHANGED <<now, stored, disk, judging, boot, waiting, acks, bucket, parked, shown,
                     lock, active, ctl, turn, outbox, retry, resend, lastIn, lastOut, told,
                     done>>
      /\ cursor' = r /\ routed' = routed \cup {r} /\ Fails("watch")
  BY DEF WatchThrow, Drained, ingestVars, queueVars, turnVars, oweVars, histVars, bounds
<1>2. turn' \in [Slots -> Turns] /\ SameTurns
  BY <1>1 DEF TypeOK, SameTurns
<1>3. Locks' /\ Slotted' /\ (OneTurn => OneTurn')
  BY <1>1, <1>2, TurnsStay
<1>4. TypeOK'
  BY <1>1, RowsAreTimes, FailsType DEF TypeOK
<1> QED BY <1>3, <1>4

\* The cursor is flushed.
LEMMA FlushCursorKeeps ==
    ASSUME Base, FlushCursor
    PROVE  Base' /\ (OneTurn => OneTurn')
<1> USE DEF Base
<1>1. /\ UNCHANGED <<now, cursor, stored, routed, judging, boot, waiting, acks, bucket,
                     parked, shown, lock, active, ctl, turn, outbox, retry, resend, lastIn,
                     lastOut, told, done, crashes, fails>>
      /\ disk' = stored
  BY RowAssumption DEF FlushCursor, ingestVars, queueVars, turnVars, oweVars, histVars, bounds,
     TypeOK
<1>2. turn' \in [Slots -> Turns] /\ SameTurns
  BY <1>1 DEF TypeOK, SameTurns
<1>3. Locks' /\ Slotted' /\ (OneTurn => OneTurn')
  BY <1>1, <1>2, TurnsStay
<1>4. TypeOK'
  BY <1>1, RowsAreTimes DEF TypeOK
<1> QED BY <1>3, <1>4

\* A row is accepted.
LEMMA WatchAcceptKeeps ==
    ASSUME Base, NEW r \in Rows, WatchAccept(r)
    PROVE  Base' /\ (OneTurn => OneTurn')
<1> USE DEF Base
<1>1. /\ UNCHANGED <<now, disk, judging, boot, lock, active, ctl, outbox, retry, resend, lastIn, lastOut,
                     told, done>>
      /\ cursor' = r /\ stored' = r /\ Route(r)
  BY DEF WatchAccept, Drained, oweVars, histVars
<1>2. Locks' /\ Slotted' /\ (OneTurn => OneTurn')
  BY <1>1, RouteEffect, TurnsStay
<1>3. TypeOK'
  BY <1>1, RouteEffect, RowsAreTimes DEF TypeOK
<1> QED BY <1>2, <1>3

\* A row is judged late.
LEMMA JudgedKeeps ==
    ASSUME Base, NEW r \in Rows, Judged(r)
    PROVE  Base' /\ (OneTurn => OneTurn')
<1> USE DEF Base
<1>1. /\ UNCHANGED <<now, cursor, stored, disk, boot, lock, active, ctl, outbox, retry, resend, lastIn,
                     lastOut, told, done>>
      /\ judging' = judging \ {r}
      /\ Route(r) \/ UNCHANGED <<routed, acks, waiting, bucket, parked, shown, turn, bounds>>
  BY DEF Judged, oweVars, histVars
<1>2. CASE Route(r)
  <2>1. Locks' /\ Slotted' /\ (OneTurn => OneTurn')
    BY <1>1, <1>2, RouteEffect, TurnsStay
  <2>2. TypeOK'
    BY <1>1, <1>2, RouteEffect DEF TypeOK
  <2> QED BY <2>1, <2>2
<1>3. CASE UNCHANGED <<routed, acks, waiting, bucket, parked, shown, turn, bounds>>
  <2>1. turn' \in [Slots -> Turns] /\ SameTurns
    BY <1>3 DEF TypeOK, SameTurns
  <2>2. Locks' /\ Slotted' /\ (OneTurn => OneTurn')
    BY <1>1, <2>1, TurnsStay
  <2>3. TypeOK'
    BY <1>1, <1>3 DEF TypeOK, bounds
  <2> QED BY <2>2, <2>3
<1> QED BY <1>1, <1>2, <1>3

\* A turn begins, on the bucket.
LEMMA BeginTurnKeeps ==
    ASSUME Base, NEW s \in Slots, NEW k \in Keys, BeginTurn(s, k)
    PROVE  Base' /\ (OneTurn => OneTurn')
<1> USE DEF Base
<1>1. /\ UNCHANGED <<now, cursor, stored, disk, routed, judging, boot, waiting, acks,
                     parked, shown, outbox, retry, resend, lastIn, lastOut, told, done,
                     crashes, fails>>
      /\ bucket' = [bucket EXCEPT ![k] = {}] /\ Begin(s, k, bucket[k]) /\ bucket[k] \in SUBSET Rows
  BY DEF BeginTurn, Begin, ingestVars, queueVars, turnVars, oweVars, histVars, bounds, TypeOK
<1>2. /\ turn' \in [Slots -> Turns]
      /\ lock' \in [Keys -> Slots \cup {None}] /\ ctl' \in [Keys -> Slots \cup {None}]
      /\ active' = active \cup {k}
      /\ Locks' /\ Slotted' /\ (OneTurn => OneTurn')
  BY <1>1, BeginEffect
<1>3. TypeOK'
  BY <1>1, <1>2 DEF TypeOK
<1> QED BY <1>2, <1>3

\* A turn begins, on the catch-up batch.
LEMMA BeginCatchUpKeeps ==
    ASSUME Base, NEW s \in Slots, NEW k \in Keys, BeginCatchUp(s, k)
    PROVE  Base' /\ (OneTurn => OneTurn')
<1> USE DEF Base
<1>1. /\ UNCHANGED <<now, cursor, stored, disk, routed, judging, boot, acks, bucket, parked,
                     shown, outbox, retry, resend, lastIn, lastOut, told, done, crashes,
                     fails>>
      /\ waiting' = [waiting EXCEPT ![k] = {}] /\ Begin(s, k, waiting[k]) /\ waiting[k] \in SUBSET Rows
  BY DEF BeginCatchUp, Begin, ingestVars, queueVars, turnVars, oweVars, histVars, bounds, TypeOK
<1>2. /\ turn' \in [Slots -> Turns]
      /\ lock' \in [Keys -> Slots \cup {None}] /\ ctl' \in [Keys -> Slots \cup {None}]
      /\ active' = active \cup {k}
      /\ Locks' /\ Slotted' /\ (OneTurn => OneTurn')
  BY <1>1, BeginEffect
<1>3. TypeOK'
  BY <1>1, <1>2 DEF TypeOK
<1> QED BY <1>2, <1>3

\* The gate passes the batch.
LEMMA GatePassKeeps ==
    ASSUME Base, NEW s \in Slots, GatePass(s)
    PROVE  Base' /\ (OneTurn => OneTurn')
<1> USE DEF Base
<1> DEFINE t == [turn[s] EXCEPT !.pc = IF turn[s].key \in outbox THEN "outbox" ELSE "enrich"]
<1>1. /\ UNCHANGED <<now, cursor, stored, disk, routed, judging, boot, waiting, acks,
                     bucket, parked, shown, lock, active, ctl, outbox, retry, resend,
                     lastIn, lastOut, told, done, crashes, fails>>
      /\ turn[s].pc = "gate" /\ turn' = [turn EXCEPT ![s] = t]
  BY DEF GatePass, ingestVars, queueVars, turnVars, oweVars, histVars, bounds
<1>2. turn[s] \in Turns
  BY DEF TypeOK
<1>3. t \in Turns /\ t.pc # "off" /\ t.key = turn[s].key /\ t.outlived = turn[s].outlived
  BY <1>2 DEF Turns
<1> HIDE DEF t
<1>4. turn' \in [Slots -> Turns] /\ Locks' /\ Slotted' /\ (OneTurn => OneTurn')
  BY <1>1, <1>3, TurnGoesOn
<1>5. TypeOK'
  BY <1>1, <1>4, RunningHasKey, TurnFields DEF TypeOK
<1> QED BY <1>4, <1>5

\* The queued reply is lost.
LEMMA FlushPermanentKeeps ==
    ASSUME Base, NEW s \in Slots, FlushPermanent(s)
    PROVE  Base' /\ (OneTurn => OneTurn')
<1> USE DEF Base
<1> DEFINE t == [turn[s] EXCEPT !.pc = "enrich"]
<1>1. /\ UNCHANGED <<now, cursor, stored, disk, routed, judging, boot, waiting, acks,
                     bucket, parked, shown, lock, active, ctl, retry, lastIn, lastOut, told,
                     done, crashes, fails>>
      /\ turn[s].pc = "outbox" /\ turn' = [turn EXCEPT ![s] = t]
      /\ outbox' = outbox \ {turn[s].key} /\ resend' = resend \cup {turn[s].key}
  BY DEF FlushPermanent, ClearOutbox, ScheduleLostReplyResend, ingestVars, queueVars, turnVars,
     oweVars, histVars, bounds
<1>2. turn[s] \in Turns
  BY DEF TypeOK
<1>3. t \in Turns /\ t.pc # "off" /\ t.key = turn[s].key /\ t.outlived = turn[s].outlived
  BY <1>2 DEF Turns
<1> HIDE DEF t
<1>4. turn' \in [Slots -> Turns] /\ Locks' /\ Slotted' /\ (OneTurn => OneTurn')
  BY <1>1, <1>3, TurnGoesOn
<1>5. TypeOK'
  BY <1>1, <1>4, RunningHasKey, TurnFields DEF TypeOK
<1> QED BY <1>4, <1>5

\* The model runs.
LEMMA StartModelKeeps ==
    ASSUME Base, NEW s \in Slots, StartModel(s)
    PROVE  Base' /\ (OneTurn => OneTurn')
<1> USE DEF Base
<1> DEFINE t == [turn[s] EXCEPT !.pc = "model"]
<1>1. /\ UNCHANGED <<now, cursor, stored, disk, routed, judging, boot, waiting, acks,
                     bucket, parked, shown, lock, active, ctl, outbox, retry, resend,
                     lastOut, done, crashes, fails>>
      /\ turn[s].pc = "enrich" /\ turn' = [turn EXCEPT ![s] = t]
      /\ InboundAt(turn[s].key, turn[s].msgs) /\ told' = told \cup turn[s].msgs
  BY DEF StartModel, ingestVars, queueVars, turnVars, oweVars, histVars, bounds
<1>2. turn[s] \in Turns
  BY DEF TypeOK
<1>3. t \in Turns /\ t.pc # "off" /\ t.key = turn[s].key /\ t.outlived = turn[s].outlived
  BY <1>2 DEF Turns
<1> HIDE DEF t
<1>4. turn' \in [Slots -> Turns] /\ Locks' /\ Slotted' /\ (OneTurn => OneTurn')
  BY <1>1, <1>3, TurnGoesOn
<1>5. TypeOK'
  BY <1>1, <1>4, RunningHasKey, TurnFields, InboundAtType DEF TypeOK
<1> QED BY <1>4, <1>5

\* The batch is dropped.
LEMMA GateDropKeeps ==
    ASSUME Base, NEW s \in Slots, GateDrop(s)
    PROVE  Base' /\ (OneTurn => OneTurn')
<1> USE DEF Base
<1>1. /\ UNCHANGED <<now, cursor, stored, disk, routed, judging, boot, waiting, outbox,
                     retry, resend, lastIn, lastOut, told, crashes, fails>>
      /\ turn[s].pc = "gate"
      /\ Finish(s, turn[s].msgs, {}, {})
      /\ done' = done \cup turn[s].msgs
  BY DEF GateDrop, ingestVars, queueVars, turnVars, oweVars, histVars, bounds
<1>2. {} \in SUBSET Rows
  BY TurnFields
<1>3. /\ bucket' \in [Keys -> SUBSET Rows] /\ parked' \in [Keys -> SUBSET Rows]
      /\ shown' \subseteq Rows /\ acks' \subseteq Rows
      /\ active' = active \ {turn[s].key}
      /\ ctl' \in [Keys -> Slots \cup {None}] /\ lock' \in [Keys -> Slots \cup {None}]
      /\ turn' \in [Slots -> Turns]
      /\ Locks' /\ Slotted' /\ (OneTurn => OneTurn')
  BY <1>1, <1>2, FinishEffect
<1>4. TypeOK'
  BY <1>1, <1>3, RunningHasKey, TurnFields DEF TypeOK
<1> QED BY <1>3, <1>4

\* The queued reply is sent.
LEMMA FlushSentKeeps ==
    ASSUME Base, NEW s \in Slots, FlushSent(s)
    PROVE  Base' /\ (OneTurn => OneTurn')
<1> USE DEF Base
<1>1. /\ UNCHANGED <<now, cursor, stored, disk, routed, judging, boot, waiting, retry,
                     resend, lastIn, told, done, crashes, fails>>
      /\ turn[s].pc = "outbox"
      /\ Finish(s, {}, turn[s].msgs, {})
      /\ outbox' = outbox \ {turn[s].key}
      /\ lastOut' = [lastOut EXCEPT ![turn[s].key] = now]
  BY DEF FlushSent, ingestVars, queueVars, turnVars, oweVars, histVars, bounds, ClearOutbox
<1>2. turn[s].msgs \in SUBSET Rows
  BY TurnFields
<1>3. /\ bucket' \in [Keys -> SUBSET Rows] /\ parked' \in [Keys -> SUBSET Rows]
      /\ shown' \subseteq Rows /\ acks' \subseteq Rows
      /\ active' = active \ {turn[s].key}
      /\ ctl' \in [Keys -> Slots \cup {None}] /\ lock' \in [Keys -> Slots \cup {None}]
      /\ turn' \in [Slots -> Turns]
      /\ Locks' /\ Slotted' /\ (OneTurn => OneTurn')
  BY <1>1, <1>2, FinishEffect
<1>4. TypeOK'
  BY <1>1, <1>3, RunningHasKey, TurnFields DEF TypeOK
<1> QED BY <1>3, <1>4

\* The turn gives up on the queued reply.
LEMMA FlushBailsKeeps ==
    ASSUME Base, NEW s \in Slots, FlushBails(s)
    PROVE  Base' /\ (OneTurn => OneTurn')
<1> USE DEF Base
<1>1. /\ UNCHANGED <<now, cursor, stored, disk, routed, judging, boot, waiting, outbox,
                     retry, resend, lastIn, lastOut, told, done>>
      /\ turn[s].pc = "outbox"
      /\ Finish(s, {}, {}, {})
      /\ Fails("bail")
  BY DEF FlushBails, ingestVars, queueVars, turnVars, oweVars, histVars, bounds
<1>2. {} \in SUBSET Rows
  BY TurnFields
<1>3. /\ bucket' \in [Keys -> SUBSET Rows] /\ parked' \in [Keys -> SUBSET Rows]
      /\ shown' \subseteq Rows /\ acks' \subseteq Rows
      /\ active' = active \ {turn[s].key}
      /\ ctl' \in [Keys -> Slots \cup {None}] /\ lock' \in [Keys -> Slots \cup {None}]
      /\ turn' \in [Slots -> Turns]
      /\ Locks' /\ Slotted' /\ (OneTurn => OneTurn')
  BY <1>1, <1>2, FinishEffect
<1>4. TypeOK'
  BY <1>1, <1>3, RunningHasKey, TurnFields, FailsType DEF TypeOK
<1> QED BY <1>3, <1>4

\* The run was aborted.
LEMMA ModelAbortedKeeps ==
    ASSUME Base, NEW s \in Slots, ModelAborted(s)
    PROVE  Base' /\ (OneTurn => OneTurn')
<1> USE DEF Base
<1>1. /\ UNCHANGED <<now, cursor, stored, disk, routed, judging, boot, waiting, outbox,
                     retry, resend, lastIn, lastOut, told, crashes, fails>>
      /\ turn[s].pc = "model"
      /\ Finish(s, turn[s].fed, {}, {})
      /\ done' = done \cup turn[s].fed
  BY DEF ModelAborted, ingestVars, queueVars, turnVars, oweVars, histVars, bounds
<1>2. {} \in SUBSET Rows
  BY TurnFields
<1>3. /\ bucket' \in [Keys -> SUBSET Rows] /\ parked' \in [Keys -> SUBSET Rows]
      /\ shown' \subseteq Rows /\ acks' \subseteq Rows
      /\ active' = active \ {turn[s].key}
      /\ ctl' \in [Keys -> Slots \cup {None}] /\ lock' \in [Keys -> Slots \cup {None}]
      /\ turn' \in [Slots -> Turns]
      /\ Locks' /\ Slotted' /\ (OneTurn => OneTurn')
  BY <1>1, <1>2, FinishEffect
<1>4. TypeOK'
  BY <1>1, <1>3, RunningHasKey, TurnFields DEF TypeOK
<1> QED BY <1>3, <1>4

\* A step throws.
LEMMA TurnThrowsKeeps ==
    ASSUME Base, NEW s \in Slots, TurnThrows(s)
    PROVE  Base' /\ (OneTurn => OneTurn')
<1> USE DEF Base
<1>1. /\ UNCHANGED <<now, cursor, stored, disk, routed, judging, boot, waiting, outbox,
                     retry, resend, lastIn, lastOut, told, done>>
      /\ turn[s].pc # "off"
      /\ Finish(s, {}, {}, {})
      /\ Fails("throw")
  BY DEF TurnThrows, ingestVars, queueVars, turnVars, oweVars, histVars, bounds
<1>2. {} \in SUBSET Rows
  BY TurnFields
<1>3. /\ bucket' \in [Keys -> SUBSET Rows] /\ parked' \in [Keys -> SUBSET Rows]
      /\ shown' \subseteq Rows /\ acks' \subseteq Rows
      /\ active' = active \ {turn[s].key}
      /\ ctl' \in [Keys -> Slots \cup {None}] /\ lock' \in [Keys -> Slots \cup {None}]
      /\ turn' \in [Slots -> Turns]
      /\ Locks' /\ Slotted' /\ (OneTurn => OneTurn')
  BY <1>1, <1>2, FinishEffect
<1>4. TypeOK'
  BY <1>1, <1>3, RunningHasKey, TurnFields, FailsType DEF TypeOK
<1> QED BY <1>3, <1>4

\* The group gate drops the batch, or sends the draft.
LEMMA RegateKeeps ==
    ASSUME Base, NEW s \in Slots, Regate(s)
    PROVE  Base' /\ (OneTurn => OneTurn')
<1> USE DEF Base
<1>1. /\ UNCHANGED <<now, cursor, stored, disk, routed, judging, boot, waiting, outbox,
                     retry, resend, lastIn, lastOut, told, crashes, fails>>
      /\ turn[s].pc = "enrich"
  BY DEF Regate, ingestVars, queueVars, turnVars, oweVars, histVars, bounds
<1>2. CASE Finish(s, turn[s].fed, {}, {}) /\ done' = done \cup turn[s].fed
  <2>1. /\ bucket' \in [Keys -> SUBSET Rows] /\ parked' \in [Keys -> SUBSET Rows]
        /\ shown' \subseteq Rows /\ acks' \subseteq Rows
        /\ active' = active \ {turn[s].key}
        /\ ctl' \in [Keys -> Slots \cup {None}] /\ lock' \in [Keys -> Slots \cup {None}]
        /\ turn' \in [Slots -> Turns]
        /\ Locks' /\ Slotted' /\ (OneTurn => OneTurn')
    BY <1>1, <1>2, FinishEffect
  <2>2. TypeOK'
    BY <1>1, <1>2, <2>1, TurnFields DEF TypeOK
  <2> QED BY <2>1, <2>2
<1>3. CASE /\ turn' = [turn EXCEPT ![s].pc = "send", ![s].then = "regate"]
           /\ UNCHANGED <<queueVars, lock, active, ctl, done>>
  <2> DEFINE t == [turn[s] EXCEPT !.pc = "send", !.then = "regate"]
  <2>1. t \in Turns /\ t.pc # "off" /\ t.key = turn[s].key /\ t.outlived = turn[s].outlived
    BY TurnFields DEF Turns
  <2>2. turn' = [turn EXCEPT ![s] = t]
    BY <1>3
  <2> HIDE DEF t
  <2>3. turn' \in [Slots -> Turns] /\ Locks' /\ Slotted' /\ (OneTurn => OneTurn')
    BY <1>1, <1>3, <2>1, <2>2, TurnGoesOn
  <2>4. TypeOK'
    BY <1>1, <1>3, <2>3 DEF TypeOK, queueVars
  <2> QED BY <2>3, <2>4
<1> QED BY <1>2, <1>3 DEF Regate

\* The run failed: the turn ends, or sends the draft.
LEMMA ModelFailsKeeps ==
    ASSUME Base, NEW s \in Slots, ModelFails(s)
    PROVE  Base' /\ (OneTurn => OneTurn')
<1> USE DEF Base
<1>1. /\ UNCHANGED <<now, cursor, stored, disk, routed, judging, boot, waiting, outbox,
                     resend, lastIn, lastOut, told, done>>
      /\ turn[s].pc = "model"
      /\ fails' \in 0..MaxFails /\ crashes' = crashes
      /\ retry' \in {retry, retry \cup {turn[s].key}}
  BY FailsType DEF ModelFails, ScheduleInboundRetry, ingestVars, queueVars, turnVars, oweVars,
     histVars, bounds
<1>2. retry' \subseteq Keys
  BY <1>1, RunningHasKey DEF TypeOK
<1>3. CASE Finish(s, {}, {}, {})
  <2>1. /\ bucket' \in [Keys -> SUBSET Rows] /\ parked' \in [Keys -> SUBSET Rows]
        /\ shown' \subseteq Rows /\ acks' \subseteq Rows
        /\ active' = active \ {turn[s].key}
        /\ ctl' \in [Keys -> Slots \cup {None}] /\ lock' \in [Keys -> Slots \cup {None}]
        /\ turn' \in [Slots -> Turns]
        /\ Locks' /\ Slotted' /\ (OneTurn => OneTurn')
    BY <1>1, <1>3, FinishEffect
  <2>2. TypeOK'
    BY <1>1, <1>2, <2>1 DEF TypeOK
  <2> QED BY <2>1, <2>2
<1>4. CASE /\ turn' = [turn EXCEPT ![s].pc = "send", ![s].then = "failed"]
           /\ UNCHANGED <<queueVars, lock, active, ctl>>
  <2> DEFINE t == [turn[s] EXCEPT !.pc = "send", !.then = "failed"]
  <2>1. t \in Turns /\ t.pc # "off" /\ t.key = turn[s].key /\ t.outlived = turn[s].outlived
    BY TurnFields DEF Turns
  <2>2. turn' = [turn EXCEPT ![s] = t]
    BY <1>4
  <2> HIDE DEF t
  <2>3. turn' \in [Slots -> Turns] /\ Locks' /\ Slotted' /\ (OneTurn => OneTurn')
    BY <1>1, <1>4, <2>1, <2>2, TurnGoesOn
  <2>4. TypeOK'
    BY <1>1, <1>2, <1>4, <2>3 DEF TypeOK, queueVars
  <2> QED BY <2>3, <2>4
<1> QED BY <1>3, <1>4 DEF ModelFails

\* What a successful run, or its reply, adds to the rows disposed of.
LEMMA AnsweredType ==
    ASSUME Base, NEW s \in Slots, NEW rows \in SUBSET Rows, NEW again, Answered(s, rows, again)
    PROVE  done' \subseteq Rows
<1>1. done \subseteq Rows /\ told \subseteq Rows
  BY DEF Base, TypeOK
<1>2. done' \subseteq done \cup rows \cup told
  BY DEF Answered
<1> QED BY <1>1, <1>2

\* What a run saw mid-turn.
LEMMA SeenFields ==
    ASSUME Base, NEW s \in Slots, turn[s].pc # "off", NEW new \in SUBSET Showable(s)
    PROVE  /\ new \subseteq Rows /\ WithSeen(s, new) \in Turns
           /\ WithSeen(s, new).seen = turn[s].seen \cup new
           /\ WithSeen(s, new).key = turn[s].key /\ WithSeen(s, new).msgs = turn[s].msgs
           /\ WithSeen(s, new).fed = turn[s].fed /\ WithSeen(s, new).prev = turn[s].prev
           /\ WithSeen(s, new).iter = turn[s].iter /\ WithSeen(s, new).pc = turn[s].pc
           /\ WithSeen(s, new).then = turn[s].then
           /\ WithSeen(s, new).outlived = turn[s].outlived
           /\ SeenParked(WithSeen(s, new)) = parked[turn[s].key] \cap (turn[s].seen \cup new)
           /\ parked[turn[s].key] \subseteq Rows
<1>0. shown \subseteq Rows /\ turn[s] \in Turns
  BY DEF Base, TypeOK
<1>1. turn[s].key \in Keys /\ parked[turn[s].key] \subseteq Rows
  BY RunningHasKey DEF Base, TypeOK
<1>2. new \subseteq Rows
  BY <1>0 DEF Showable
<1> DEFINE t == WithSeen(s, new)
<1>3. /\ t \in Turns /\ t.seen = turn[s].seen \cup new
      /\ t.key = turn[s].key /\ t.msgs = turn[s].msgs /\ t.fed = turn[s].fed
      /\ t.prev = turn[s].prev /\ t.iter = turn[s].iter /\ t.pc = turn[s].pc /\ t.then = turn[s].then
      /\ t.outlived = turn[s].outlived
  BY <1>0, <1>2 DEF WithSeen, Turns
<1>4. SeenParked(t) = parked[t.key] \cap t.seen
  BY DEF SeenParked
<1> QED BY <1>1, <1>2, <1>3, <1>4

\* A run without text.
LEMMA ModelSilentKeeps ==
    ASSUME Base, NEW s \in Slots, ModelSilent(s)
    PROVE  Base' /\ (OneTurn => OneTurn')
<1> USE DEF Base
<1>1. /\ UNCHANGED <<now, cursor, stored, disk, routed, judging, boot, waiting, outbox,
                     resend, told, crashes, fails>>
      /\ turn[s].pc = "model"
      /\ InboundAt(turn[s].key, turn[s].msgs)
      /\ lastOut' = [lastOut EXCEPT ![turn[s].key] = now]
      /\ retry' = retry \ {turn[s].key}
  BY DEF ModelSilent, ingestVars, queueVars, turnVars, oweVars, histVars, bounds,
     CancelInboundRetries
<1>2. PICK new \in SUBSET Showable(s) :
          /\ Finish(s, turn[s].fed, {}, SeenParked(WithSeen(s, new)))
          /\ Answered(s, turn[s].fed \cup SeenParked(WithSeen(s, new)), {})
  BY DEF ModelSilent
<1>3. /\ bucket' \in [Keys -> SUBSET Rows] /\ parked' \in [Keys -> SUBSET Rows]
      /\ shown' \subseteq Rows /\ acks' \subseteq Rows
      /\ active' = active \ {turn[s].key}
      /\ ctl' \in [Keys -> Slots \cup {None}] /\ lock' \in [Keys -> Slots \cup {None}]
      /\ turn' \in [Slots -> Turns]
      /\ Locks' /\ Slotted' /\ (OneTurn => OneTurn')
  BY <1>1, <1>2, FinishEffect
<1>4. turn[s].fed \cup SeenParked(WithSeen(s, new)) \subseteq Rows
  BY <1>1, SeenFields, TurnFields
<1>5. done' \subseteq Rows
  BY <1>2, <1>4, AnsweredType
<1>6. lastIn' \in [Keys -> 0..MaxRow]
  BY <1>1, InboundAtType, TurnFields
<1>7. TypeOK'
  BY <1>1, <1>3, <1>5, <1>6 DEF TypeOK
<1> QED BY <1>3, <1>7

\* The draft is kept.
LEMMA ModelKeepsDraftKeeps ==
    ASSUME Base, NEW s \in Slots, ModelKeepsDraft(s)
    PROVE  Base' /\ (OneTurn => OneTurn')
<1> USE DEF Base
<1>1. /\ UNCHANGED <<now, cursor, stored, disk, routed, judging, boot, waiting, lock,
                     active, ctl, outbox, retry, resend, lastIn, lastOut, told, crashes,
                     fails>>
      /\ turn[s].pc = "model"
      /\ turn' = [turn EXCEPT ![s].pc = "send", ![s].then = "keep"]
  BY DEF ModelKeepsDraft, ingestVars, queueVars, turnVars, oweVars, histVars, bounds
<1>2. PICK new \in SUBSET Showable(s) :
          /\ DrainPending(turn[s].key)
          /\ acks' = acks \ SeenParked(WithSeen(s, new))
          /\ bucket' = [bucket EXCEPT ![turn[s].key] = @ \cup WithSeen(s, new).msgs
                                          \cup (parked[turn[s].key] \ SeenParked(WithSeen(s, new)))]
          /\ done' = done \cup SeenParked(turn[s])
  BY DEF ModelKeepsDraft
<1>3. turn[s].key \in Keys /\ WithSeen(s, new).msgs \subseteq Rows
      /\ parked[turn[s].key] \subseteq Rows
  BY <1>1, RunningHasKey, SeenFields, TurnFields
<1>4. SeenParked(turn[s]) \subseteq Rows
  BY <1>3 DEF SeenParked
<1> DEFINE t == [turn[s] EXCEPT !.pc = "send", !.then = "keep"]
<1>5. t \in Turns /\ t.pc # "off" /\ t.key = turn[s].key /\ t.outlived = turn[s].outlived
  BY TurnFields DEF Turns
<1>6. turn' = [turn EXCEPT ![s] = t]
  BY <1>1
<1> HIDE DEF t
<1>7. turn' \in [Slots -> Turns] /\ Locks' /\ Slotted' /\ (OneTurn => OneTurn')
  BY <1>1, <1>5, <1>6, TurnGoesOn
<1>8. bucket' \in [Keys -> SUBSET Rows]
  BY <1>2, <1>3 DEF TypeOK
<1>9. TypeOK'
  BY <1>1, <1>2, <1>4, <1>7, <1>8 DEF TypeOK, DrainPending
<1> QED BY <1>7, <1>9

\* Follow-ups are folded in.
LEMMA ModelFoldsKeeps ==
    ASSUME Base, NEW s \in Slots, ModelFolds(s)
    PROVE  Base' /\ (OneTurn => OneTurn')
<1> USE DEF Base
<1>1. /\ UNCHANGED <<now, cursor, stored, disk, routed, judging, boot, waiting, bucket,
                     lock, active, ctl, outbox, retry, resend, lastIn, lastOut, told,
                     crashes, fails>>
      /\ turn[s].pc = "model" /\ turn[s].iter + 1 < MaxIters
  BY DEF ModelFolds, ingestVars, queueVars, turnVars, oweVars, histVars, bounds
<1> DEFINE k == turn[s].key
<1>2. PICK new \in SUBSET Showable(s) :
          /\ DrainPending(k)
          /\ acks' = acks \ SeenParked(WithSeen(s, new))
          /\ done' = done \cup SeenParked(WithSeen(s, new))
          /\ turn' = [turn EXCEPT ![s] =
                         [WithSeen(s, new) EXCEPT
                             !.pc = "enrich", !.iter = @ + 1,
                             !.msgs = parked[k] \ SeenParked(WithSeen(s, new)),
                             !.prev = @ \cup WithSeen(s, new).msgs,
                             !.fed = @ \cup (parked[k] \ SeenParked(WithSeen(s, new)))]]
  BY DEF ModelFolds
<1>3. PICK u \in Turns : /\ u = WithSeen(s, new) /\ u.key = k /\ u.iter = turn[s].iter
                         /\ u.outlived = turn[s].outlived
                         /\ SeenParked(u) \subseteq parked[k] /\ parked[k] \subseteq Rows
                         /\ u.msgs \subseteq Rows /\ u.prev \subseteq Rows /\ u.fed \subseteq Rows
  BY <1>1, SeenFields, TurnFields
<1> DEFINE t == [u EXCEPT !.pc = "enrich", !.iter = @ + 1, !.msgs = parked[k] \ SeenParked(u),
                          !.prev = @ \cup u.msgs, !.fed = @ \cup (parked[k] \ SeenParked(u))]
<1>4. turn[s].iter + 1 \in 0..(MaxIters - 1)
  BY <1>1, TurnFields, IterAssumption
<1>5. t \in Turns /\ t.pc # "off" /\ t.key = k /\ t.outlived = turn[s].outlived
  <2>1. /\ u.iter + 1 \in 0..(MaxIters - 1) /\ parked[k] \ SeenParked(u) \in SUBSET Rows
        /\ u.prev \cup u.msgs \in SUBSET Rows
        /\ u.fed \cup (parked[k] \ SeenParked(u)) \in SUBSET Rows
    BY <1>3, <1>4
  <2>2. PICK i \in 0..(MaxIters - 1), m \in SUBSET Rows, p \in SUBSET Rows, f \in SUBSET Rows :
            /\ i = u.iter + 1 /\ m = parked[k] \ SeenParked(u)
            /\ p = u.prev \cup u.msgs /\ f = u.fed \cup (parked[k] \ SeenParked(u))
    BY <2>1
  <2>3. t = [u EXCEPT !.pc = "enrich", !.iter = i, !.msgs = m, !.prev = p, !.fed = f]
    BY <2>2 DEF Turns
  <2> HIDE DEF t
  <2>4. t \in Turns /\ t.pc = "enrich" /\ t.key = u.key /\ t.outlived = u.outlived
    BY <2>3 DEF Turns
  <2> QED BY <1>3, <2>4
<1>6. turn' = [turn EXCEPT ![s] = t]
  BY <1>2, <1>3
<1> HIDE DEF t, k
<1>7. turn' \in [Slots -> Turns] /\ Locks' /\ Slotted' /\ (OneTurn => OneTurn')
  BY <1>1, <1>5, <1>6, TurnGoesOn DEF k
<1>8. done' \subseteq Rows /\ acks' \subseteq Rows
  BY <1>2, <1>3 DEF TypeOK
<1>9. TypeOK'
  BY <1>1, <1>2, <1>7, <1>8 DEF TypeOK, DrainPending
<1> QED BY <1>7, <1>9

\* The reply stands.
LEMMA ModelRepliesKeeps ==
    ASSUME Base, NEW s \in Slots, ModelReplies(s)
    PROVE  Base' /\ (OneTurn => OneTurn')
<1> USE DEF Base
<1>1. /\ UNCHANGED <<now, cursor, stored, disk, routed, judging, boot, waiting, bucket,
                     lock, active, ctl, outbox, retry, resend, lastIn, lastOut, told,
                     crashes, fails>>
      /\ turn[s].pc = "model"
  BY DEF ModelReplies, ingestVars, queueVars, turnVars, oweVars, histVars, bounds
<1> DEFINE k == turn[s].key
<1>2. PICK new \in SUBSET Showable(s) :
          /\ \/ /\ DrainPending(k) /\ acks' = acks \ parked[k] /\ done' = done \cup parked[k]
             \/ UNCHANGED <<parked, shown, acks, done>>
          /\ turn' = [turn EXCEPT ![s] = [WithSeen(s, new) EXCEPT !.pc = "send", !.then = "final"]]
  BY DEF ModelReplies
<1>3. PICK u \in Turns : u = WithSeen(s, new) /\ u.key = k /\ u.outlived = turn[s].outlived
  BY <1>1, SeenFields
<1> DEFINE t == [u EXCEPT !.pc = "send", !.then = "final"]
<1>4. t \in Turns /\ t.pc # "off" /\ t.key = k /\ t.outlived = turn[s].outlived
  BY <1>3 DEF Turns
<1>5. turn' = [turn EXCEPT ![s] = t]
  BY <1>2, <1>3
<1> HIDE DEF t, k
<1>6. turn' \in [Slots -> Turns] /\ Locks' /\ Slotted' /\ (OneTurn => OneTurn')
  BY <1>1, <1>4, <1>5, TurnGoesOn DEF k
<1>7. k \in Keys /\ parked[k] \subseteq Rows
  BY <1>1, RunningHasKey DEF k, TypeOK
<1>8. /\ done' \subseteq Rows /\ acks' \subseteq Rows
      /\ parked' \in [Keys -> SUBSET Rows] /\ shown' \subseteq Rows
  BY <1>2, <1>7 DEF TypeOK, DrainPending
<1>9. TypeOK'
  BY <1>1, <1>6, <1>8 DEF TypeOK
<1> QED BY <1>6, <1>9

\* What a delivery changes of what is owed.
LEMMA DeliveryType ==
    ASSUME Base, NEW k \in Keys, NEW msgs \in SUBSET Rows,
           \/ DeliverySent(k, msgs) \/ DeliveryTransient(k)
           \/ DeliveryPermanent(k, msgs) \/ DeliverySilenced
    PROVE  /\ outbox' \subseteq Keys /\ retry' \subseteq Keys /\ resend' \subseteq Keys
           /\ lastIn' \in [Keys -> 0..MaxRow] /\ lastOut' \in [Keys -> 0..MaxRow]
           /\ retry' = retry \/ retry' = retry \ {k}
<1> USE DEF Base
<1>1. CASE DeliverySent(k, msgs)
  BY <1>1, InboundAtType DEF DeliverySent, CancelInboundRetries, TypeOK
<1>2. CASE DeliveryTransient(k)
  BY <1>2 DEF DeliveryTransient, PutOutbox, TypeOK
<1>3. CASE DeliveryPermanent(k, msgs)
  BY <1>3, InboundAtType DEF DeliveryPermanent, ScheduleLostReplyResend, TypeOK
<1>4. CASE DeliverySilenced
  BY <1>4 DEF DeliverySilenced, oweVars, TypeOK
<1> QED BY <1>1, <1>2, <1>3, <1>4

\* The delivery returns, and the turn ends.
LEMMA DeliveredKeeps ==
    ASSUME Base, NEW s \in Slots, Delivered(s)
    PROVE  Base' /\ (OneTurn => OneTurn')
<1> USE DEF Base
<1>1. /\ UNCHANGED <<now, cursor, stored, disk, routed, judging, boot, waiting, told,
                     crashes, fails>>
      /\ turn[s].pc = "send"
  BY DEF Delivered, ingestVars, queueVars, turnVars, oweVars, histVars, bounds
<1> DEFINE k == turn[s].key
<1>2. /\ outbox' \subseteq Keys /\ retry' \subseteq Keys /\ resend' \subseteq Keys
      /\ lastIn' \in [Keys -> 0..MaxRow] /\ lastOut' \in [Keys -> 0..MaxRow]
  <2>1. k \in Keys /\ turn[s].msgs \in SUBSET Rows
    BY <1>1, RunningHasKey, TurnFields
  <2>2. \/ DeliverySent(k, turn[s].msgs) \/ DeliveryTransient(k)
        \/ DeliveryPermanent(k, turn[s].msgs) \/ DeliverySilenced
    BY DEF Delivered
  <2> HIDE DEF k
  <2> QED BY <2>1, <2>2, DeliveryType
<1>3. \E cover, saw, rows, again :
          /\ Finish(s, cover, {}, saw) /\ rows \subseteq Rows /\ Answered(s, rows, again)
  <2>1. SeenParked(turn[s]) \subseteq Rows
    BY <1>1, RunningHasKey DEF SeenParked, TypeOK
  <2>2. CASE Finish(s, turn[s].fed, {}, SeenParked(turn[s]))
             /\ Answered(s, turn[s].fed \cup SeenParked(turn[s]), {})
    BY <2>1, <2>2, TurnFields
  <2>3. CASE Finish(s, turn[s].fed, {}, {}) /\ Answered(s, turn[s].fed, {})
    BY <2>3, TurnFields
  <2>4. CASE Finish(s, turn[s].prev, {}, {}) /\ Answered(s, turn[s].prev, turn[s].msgs \ turn[s].prev)
    BY <2>4, TurnFields
  <2>5. CASE Finish(s, {}, {}, {}) /\ Answered(s, turn[s].prev, turn[s].msgs \ turn[s].prev)
    BY <2>5, TurnFields
  <2> QED BY <2>2, <2>3, <2>4, <2>5 DEF Delivered
<1>4. PICK cover, saw, rows, again :
          /\ Finish(s, cover, {}, saw) /\ rows \subseteq Rows /\ Answered(s, rows, again)
  BY <1>3
<1>5. /\ bucket' \in [Keys -> SUBSET Rows] /\ parked' \in [Keys -> SUBSET Rows]
      /\ shown' \subseteq Rows /\ acks' \subseteq Rows
      /\ active' = active \ {turn[s].key}
      /\ ctl' \in [Keys -> Slots \cup {None}] /\ lock' \in [Keys -> Slots \cup {None}]
      /\ turn' \in [Slots -> Turns]
      /\ Locks' /\ Slotted' /\ (OneTurn => OneTurn')
  BY <1>1, <1>4, FinishEffect
<1>6. done' \subseteq Rows
  BY <1>4, AnsweredType
<1> HIDE DEF k
<1>7. TypeOK'
  BY <1>1, <1>2, <1>5, <1>6 DEF TypeOK
<1> QED BY <1>5, <1>7

\* The lease runs out: the lock is nobody's.
LEMMA ExpireKeeps ==
    ASSUME Base, NEW s \in Slots, Expire(s)
    PROVE  Base' /\ "expire" \in Allow
<1> USE DEF Base
<1> DEFINE k == turn[s].key
           t == [turn[s] EXCEPT !.outlived = TRUE]
<1>1. /\ UNCHANGED <<now, cursor, stored, disk, routed, judging, boot, waiting, acks,
                     bucket, parked, shown, active, ctl, outbox, retry, resend,
                     lastIn, lastOut, told, done>>
      /\ turn[s].pc # "off" /\ lock[k] = s
      /\ Fails("expire") /\ lock' = [lock EXCEPT ![k] = None]
      /\ turn' = [turn EXCEPT ![s] = t]
  BY DEF Expire, ingestVars, queueVars, turnVars, oweVars, histVars, bounds
<1>2. t \in Turns /\ t.pc = turn[s].pc /\ t.key = k /\ t.outlived
  BY TurnFields DEF Turns
<1>3. k \in Keys
  BY <1>1, RunningHasKey
<1> HIDE DEF k, t
<1>4. /\ turn' \in [Slots -> Turns] /\ turn'[s] = t
      /\ \A z \in Slots : z # s => turn'[z] = turn[z]
  BY <1>1, <1>2 DEF TypeOK
<1>5. TypeOK' /\ "expire" \in Allow
  BY <1>1, <1>4, FailsType DEF TypeOK
<1>6. Locks'
  <2> SUFFICES ASSUME NEW j \in Keys, NEW z \in Slots
               PROVE  /\ lock'[j] = z <=> turn'[z].key = j /\ ~turn'[z].outlived
                      /\ lock'[j] = z => ctl'[j] = z
    BY DEF Locks, LockFollowsTurn
  <2>1. /\ lock[j] = z <=> turn[z].key = j /\ ~turn[z].outlived
        /\ lock[j] = z => ctl[j] = z
        /\ lock[j] = s => j = k
    BY DEF Locks, LockFollowsTurn, k
  <2>2. lock'[j] = IF j = k THEN None ELSE lock[j]
    BY <1>1, <1>3 DEF TypeOK
  <2>3. CASE z = s
    BY <2>1, <2>2, <2>3, <1>2, <1>4, SlotAssumption
  <2>4. CASE z # s
    BY <2>1, <2>2, <2>4, <1>1, <1>4, SlotAssumption
  <2> QED BY <2>3, <2>4
<1>7. Slotted'
  BY <1>2, <1>4 DEF Slotted, k
<1> QED BY <1>5, <1>6, <1>7

\* The daemon dies, and its turns with it.
LEMMA CrashKeeps ==
    ASSUME Base, Crash
    PROVE  Base' /\ (OneTurn => OneTurn')
<1> USE DEF Base
<1>1. /\ UNCHANGED <<now, disk, routed, acks, parked, outbox, retry, resend, lastIn, lastOut, told, done,
                     fails>>
      /\ crashes' \in 0..MaxCrashes /\ boot' = "down" /\ cursor' = disk /\ stored' = disk
      /\ judging' = {} /\ shown' = {} /\ active' = {}
      /\ waiting' = [k \in Keys |-> {}] /\ bucket' = [k \in Keys |-> {}]
      /\ lock' = [k \in Keys |-> None] /\ ctl' = [k \in Keys |-> None]
      /\ turn' = [s \in Slots |-> NoTurn]
  BY BoundAssumption DEF Crash, oweVars, histVars, TypeOK
<1>2. turn' \in [Slots -> Turns] /\ \A s \in Slots : turn'[s] = NoTurn
  BY <1>1, NoTurnType
<1>3. TypeOK'
  BY <1>1, <1>2 DEF TypeOK
<1>4. Locks' /\ Slotted' /\ OneTurn'
  BY <1>1, <1>2, NoTurnType, SlotAssumption DEF Locks, LockFollowsTurn, Slotted, OneTurn
<1> QED BY <1>3, <1>4

\* Boot takes the orphaned acks.
LEMMA BootExtractKeeps ==
    ASSUME Base, BootExtract
    PROVE  Base' /\ (OneTurn => OneTurn')
<1> USE DEF Base
<1>1. /\ UNCHANGED <<now, cursor, stored, disk, routed, judging, waiting, bucket, parked,
                     shown, lock, active, ctl, turn, outbox, retry, resend, lastIn, lastOut,
                     told, done, crashes, fails>>
      /\ boot' = "booting" /\ acks' \subseteq acks
  BY DEF BootExtract, ingestVars, queueVars, turnVars, oweVars, histVars, bounds
<1>2. turn' \in [Slots -> Turns] /\ SameTurns
  BY <1>1 DEF TypeOK, SameTurns
<1>3. Locks' /\ Slotted' /\ (OneTurn => OneTurn')
  BY <1>1, <1>2, TurnsStay
<1>4. TypeOK'
  BY <1>1 DEF TypeOK
<1> QED BY <1>3, <1>4

\* Boot reads the backlog.
LEMMA BootCatchUpKeeps ==
    ASSUME Base, BootCatchUp
    PROVE  Base' /\ (OneTurn => OneTurn')
<1> USE DEF Base
<1>1. /\ UNCHANGED <<now, disk, judging, bucket, parked, shown, lock, active, ctl, turn,
                     outbox, retry, resend, lastIn, lastOut, told, done, crashes, fails>>
      /\ boot' = "up" /\ cursor' = now /\ stored' = now
  BY DEF BootCatchUp, ingestVars, queueVars, turnVars, oweVars, histVars, bounds
<1>2. PICK accepted \in SUBSET Rows :
          /\ routed' = routed \cup accepted
          /\ acks' = acks \cup accepted
          /\ waiting' = [k \in Keys |-> {r \in acks \cup accepted : KeyOf[r] = k}]
  BY DEF BootCatchUp
<1>3. turn' \in [Slots -> Turns] /\ SameTurns
  BY <1>1 DEF TypeOK, SameTurns
<1>4. Locks' /\ Slotted' /\ (OneTurn => OneTurn')
  BY <1>1, <1>3, TurnsStay
<1>5. TypeOK'
  BY <1>1, <1>2 DEF TypeOK
<1> QED BY <1>4, <1>5

\* Types, and locks that are a turn's, hold at first,
LEMMA InitBase == Init => Base /\ OneTurn
<1> SUFFICES ASSUME Init PROVE Base /\ OneTurn
  OBVIOUS
<1>1. TypeOK
  BY NoTurnType, RowAssumption, BoundAssumption DEF Init, TypeOK
<1>2. Locks /\ Slotted /\ OneTurn
  BY NoTurnType, SlotAssumption DEF Init, Locks, LockFollowsTurn, Slotted, OneTurn
<1> QED BY <1>1, <1>2 DEF Base

\* and after every step; so does one turn per session, but for an expired lease.
LEMMA NextBase ==
    ASSUME Base, [Next]_vars
    PROVE  Base' /\ (OneTurn /\ "expire" \notin Allow => OneTurn')
<1>1. ASSUME NEW r \in Rows, Watch(r) \/ WatchThrow(r) \/ Judged(r)
      PROVE  Base' /\ (OneTurn /\ "expire" \notin Allow => OneTurn')
  BY <1>1, WatchAcceptKeeps, WatchRejectKeeps, WatchThrowKeeps, JudgedKeeps DEF Watch
<1>2. ASSUME NEW s \in Slots, TurnStep(s)
      PROVE  Base' /\ (OneTurn /\ "expire" \notin Allow => OneTurn')
  BY <1>2, BeginTurnKeeps, BeginCatchUpKeeps, GatePassKeeps, FlushSentKeeps, FlushPermanentKeeps,
     RegateKeeps, StartModelKeeps, ModelAbortedKeeps, ModelSilentKeeps, ModelKeepsDraftKeeps,
     ModelFoldsKeeps, ModelRepliesKeeps, DeliveredKeeps DEF TurnStep
<1>3. ASSUME NEW s \in Slots, TurnFault(s)
      PROVE  Base' /\ (OneTurn /\ "expire" \notin Allow => OneTurn')
  BY <1>3, GateDropKeeps, FlushBailsKeeps, ModelFailsKeeps, TurnThrowsKeeps,
     ExpireKeeps DEF TurnFault
<1>4. CASE Land \/ FlushCursor \/ Crash \/ BootExtract \/ BootCatchUp
  BY <1>4, LandKeeps, FlushCursorKeeps, CrashKeeps, BootExtractKeeps, BootCatchUpKeeps
<1>5. CASE UNCHANGED vars
  BY <1>5 DEF vars, ingestVars, queueVars, turnVars, oweVars, histVars, bounds, Base, TypeOK, Locks,
              LockFollowsTurn, Slotted, OneTurn
<1>6. CASE Next
  <2>1. CASE \E r \in Rows : Watch(r) \/ WatchThrow(r) \/ Judged(r)
    BY <1>1, <2>1
  <2>2. CASE \E s \in Slots : TurnStep(s) \/ TurnFault(s)
    BY <1>2, <1>3, <2>2
  <2> QED BY <1>4, <1>6, <2>1, <2>2 DEF Next
<1> QED BY <1>5, <1>6

\* Whatever happens, the basics hold.
THEOREM Basics == Spec => []Base
<1>1. Init => Base
  BY InitBase
<1>2. Base /\ [Next]_vars => Base'
  BY NextBase
<1> QED BY <1>1, <1>2, PTL DEF Spec

\* Every variable of the inbound path keeps its type.
THEOREM Typing == Spec => []TypeOK
<1>1. Base => TypeOK
  BY DEF Base
<1> QED BY <1>1, Basics, PTL

\* Whatever failed or expired before, the lock of a session is held exactly by
\* its turn whose lease has not run out, which a barge-in aborts: a turn that
\* outlived its lease took neither from its successor (handleBatch, withLock).
THEOREM LockFollows == Spec => []LockFollowsTurn
<1>1. Base => LockFollowsTurn
  BY DEF Base, Locks
<1> QED BY <1>1, Basics, PTL

\* While no lease runs out, a session is active exactly while one turn of it
\* runs, which holds its lock and its abort controller.
THEOREM ActiveTurns ==
    ASSUME "expire" \notin Allow
    PROVE  Spec => []ActiveIsTheTurn
<1>1. Init => Base /\ OneTurn
  BY InitBase
<1>2. (Base /\ OneTurn) /\ [Next]_vars => (Base /\ OneTurn)'
  BY NextBase
<1>3. Base /\ OneTurn => ActiveIsTheTurn
  BY OneTurnMeans
<1> QED BY <1>1, <1>2, <1>3, PTL DEF Spec

-----------------------------------------------------------------------------
(* No accepted message is lost: what it rests on *)

\* No mid-turn showing, no late verdicts: nothing of them is left anywhere.
Quiet == judging = {} /\ shown = {} /\ \A s \in Slots : turn[s].seen = {}

\* The batches of a turn: one in its first iteration; what was folded in later
\* came after what was there before.  Its session's bucket is empty until its
\* follow-ups are re-enqueued for the sake of the draft.
FoldsOf(s) ==
    /\ turn[s].fed = turn[s].prev \cup turn[s].msgs
    /\ turn[s].iter = 0 => turn[s].msgs = turn[s].fed /\ turn[s].prev = turn[s].fed
    /\ turn[s].pc \in {"gate", "outbox"} => turn[s].iter = 0
    /\ turn[s].pc = "model" => turn[s].msgs \subseteq told
    /\ turn[s].pc = "send" => turn[s].then # "failed"
    /\ IF turn[s].pc = "send" /\ turn[s].then = "keep"
       THEN turn[s].msgs \subseteq bucket[turn[s].key]
       ELSE bucket[turn[s].key] = {}
    /\ \A r \in turn[s].msgs \ (turn[s].prev \cup done) : \A p \in turn[s].prev : p < r

Folds == \A s \in Slots : turn[s].pc # "off" => FoldsOf(s)

\* What the daemon means to answer in session k, but for its turn.
Queued(k) == waiting[k] \cup bucket[k] \cup parked[k]

\* Rows are where they belong.
Places ==
    /\ \A k \in Keys : \A r \in Queued(k) : r \in routed /\ KeyOf[r] = k
    /\ \A s \in Slots : \A r \in turn[s].fed : r \in routed /\ KeyOf[r] = turn[s].key
    /\ acks \subseteq routed

\* The watcher of a running daemon has passed every row it routed.
Cursors ==
    /\ cursor <= now /\ stored = cursor /\ disk <= stored
    /\ \A r \in routed : r <= now
    /\ boot = "up" => \A r \in routed : r <= cursor
    /\ boot # "up" => cursor = disk

\* Until it is up, a daemon queues and runs nothing.
Down == boot # "up" =>
    /\ \A k \in Keys : waiting[k] = {} /\ bucket[k] = {} /\ k \notin active
    /\ \A s \in Slots : turn[s].fed = {}

\* What the running daemon has and is not disposed of is acked.
Acked == boot = "up" =>
    /\ \A k \in Keys : Queued(k) \subseteq acks \cup done
    /\ \A s \in Slots : turn[s].fed \subseteq acks \cup done

\* A row queued, or in the turn of its session.
Cared(r) == r \in Queued(KeyOf[r]) \/ \E s \in Slots : turn[s].key = KeyOf[r] /\ r \in turn[s].fed

\* A row whose turn failed, and which the retry cron of its session answers.
Retried(r) == r \in told /\ KeyOf[r] \in retry

\* Every accepted row that is not disposed of has an owner, while the daemon
\* runs and while it does not.
Owned ==
    IF boot = "up"
    THEN \A r \in routed \ done : Cared(r) \/ Retried(r)
    ELSE \A r \in routed \ done :
            /\ r \in acks \/ disk < r \/ Retried(r)
            /\ r \in parked[KeyOf[r]] => r \in acks \/ disk < r

\* What waits for catch-up waits alone, and the pending file that survived a
\* crash is part of it.
Alone == boot = "up" => \A k \in Keys :
    /\ waiting[k] # {} => bucket[k] = {} /\ k \notin active
    /\ k \notin active => parked[k] \subseteq waiting[k] \cup done

\* What is queued behind a turn came after all the turn has.
Order == \A s \in Slots : turn[s].pc # "off" =>
    \A r \in Queued(turn[s].key) \ (turn[s].fed \cup done) : \A f \in turn[s].fed : f < r

Cares == Quiet /\ Folds /\ Places /\ Cursors /\ Down /\ Acked /\ Owned /\ Alone /\ Order

\* The assumption of this part, and what it excludes.
LEMMA OrdinaryAllows ==
    ASSUME Allow \subseteq Ordinary
    PROVE  \A e \in {"watch", "park", "late", "midturn", "fatal", "foldfail", "throw", "bail",
                     "expire"} : e \notin Allow
  BY DEF Ordinary

\* A turn that stays as it is keeps its shape.
LEMMA FoldsKept ==
    ASSUME NEW z \in Slots, FoldsOf(z), turn'[z] = turn[z],
           bucket'[turn[z].key] = bucket[turn[z].key], done \subseteq done', told \subseteq told'
    PROVE  FoldsOf(z)'
  BY DEF FoldsOf

\* Steps that only move a cursor, a turn's program counter or a reminder.
LEMMA CaresStay ==
    ASSUME Base, Cares,
           UNCHANGED <<routed, acks, waiting, bucket, parked, shown, judging, boot, done, active>>,
           told \subseteq told', retry \subseteq retry', now <= now', now' \in 0..MaxRow,
           cursor' \in 0..MaxRow, boot = "up" => cursor <= cursor',
           cursor' <= now', stored' = cursor', disk' \in 0..MaxRow, disk' <= cursor',
           boot # "up" => UNCHANGED <<cursor, disk>>,
           \A z \in Slots : /\ turn'[z].key = turn[z].key /\ turn'[z].fed = turn[z].fed
                            /\ turn'[z].seen = turn[z].seen
                            /\ turn'[z].pc # "off" => turn[z].pc # "off",
           Folds'
    PROVE  Cares'
<1>1. Quiet'
  BY DEF Cares, Quiet
<1>2. \A k \in Keys : Queued(k)' = Queued(k)
  BY DEF Queued
<1>3. Places'
  BY <1>2 DEF Cares, Places
<1>4. Cursors'
  <2>1. \A r \in routed : r \in Nat
    BY RowsAreTimes DEF Base, TypeOK
  <2>2. now \in Nat /\ now' \in Nat /\ cursor \in Nat /\ cursor' \in Nat
    BY RowAssumption DEF Base, TypeOK
  <2> QED BY <2>1, <2>2 DEF Cares, Cursors
<1>5. Down'
  BY DEF Cares, Down
<1>6. Acked'
  BY <1>2 DEF Cares, Acked
<1>7. Owned'
  <2>1. \A r \in routed : KeyOf[r] \in Keys
    BY RowAssumption DEF Base, TypeOK
  <2>2. \A r \in routed : (Cared(r) => Cared(r)') /\ (Retried(r) => Retried(r)')
    BY <1>2, <2>1 DEF Cared, Retried
  <2> QED BY <2>2 DEF Cares, Owned
<1>8. Alone'
  BY DEF Cares, Alone
<1>9. Order'
  <2>1. \A z \in Slots : turn'[z].pc # "off" => turn[z].key \in Keys
    BY RunningHasKey
  <2> QED BY <1>2, <2>1 DEF Cares, Order
<1> QED BY <1>1, <1>3, <1>4, <1>5, <1>6, <1>7, <1>8, <1>9 DEF Cares

\* A row lands.
LEMMA LandCares ==
    ASSUME Base, OneTurn, Cares, Allow \subseteq Ordinary, Land
    PROVE  Cares'
<1>1. /\ UNCHANGED <<cursor, stored, disk, routed, judging, boot, waiting, acks, bucket,
                     parked, shown, lock, active, ctl, turn, outbox, retry, resend, lastIn,
                     lastOut, told, done, crashes, fails>>
      /\ now < MaxRow /\ now' = now + 1
  BY OrdinaryAllows DEF Land, ingestVars, queueVars, turnVars, oweVars, histVars, bounds
<1>2. Folds'
  BY <1>1 DEF Cares, Folds, FoldsOf
<1>3. /\ now \in Nat /\ cursor \in Nat /\ disk \in Nat /\ cursor <= now
      /\ stored = cursor /\ disk <= cursor /\ now \in 0..MaxRow /\ MaxRow \in Nat
      /\ cursor \in 0..MaxRow /\ disk \in 0..MaxRow
  BY RowAssumption DEF Base, TypeOK, Cares, Cursors
<1> QED BY <1>1, <1>2, <1>3, RowsAreTimes, CaresStay

\* The cursor is flushed.
LEMMA FlushCursorCares ==
    ASSUME Base, OneTurn, Cares, Allow \subseteq Ordinary, FlushCursor
    PROVE  Cares'
<1>1. /\ UNCHANGED <<now, cursor, stored, routed, judging, boot, waiting, acks, bucket,
                     parked, shown, lock, active, ctl, turn, outbox, retry, resend, lastIn,
                     lastOut, told, done, crashes, fails>>
      /\ boot = "up" /\ disk' = stored
  BY OrdinaryAllows DEF FlushCursor, ingestVars, queueVars, turnVars, oweVars, histVars, bounds
<1>2. Folds'
  BY <1>1 DEF Cares, Folds, FoldsOf
<1>3. /\ now \in Nat /\ cursor \in Nat /\ disk \in Nat /\ cursor <= now
      /\ stored = cursor /\ disk <= cursor /\ now \in 0..MaxRow /\ MaxRow \in Nat
      /\ cursor \in 0..MaxRow /\ disk \in 0..MaxRow
  BY RowAssumption DEF Base, TypeOK, Cares, Cursors
<1> QED BY <1>1, <1>2, <1>3, RowsAreTimes, CaresStay

\* A row is refused.
LEMMA WatchRejectCares ==
    ASSUME Base, OneTurn, Cares, Allow \subseteq Ordinary, NEW r \in Rows, WatchReject(r)
    PROVE  Cares'
<1>1. /\ UNCHANGED <<now, disk, routed, judging, boot, waiting, acks, bucket, parked, shown,
                     lock, active, ctl, turn, outbox, retry, resend, lastIn, lastOut, told,
                     done, crashes, fails>>
      /\ boot = "up" /\ r = cursor + 1 /\ r <= now
      /\ cursor' = r /\ stored' = r
  BY OrdinaryAllows DEF WatchReject, ingestVars, queueVars, turnVars, oweVars, histVars, bounds,
     Drained
<1>2. Folds'
  BY <1>1 DEF Cares, Folds, FoldsOf
<1>3. /\ now \in Nat /\ cursor \in Nat /\ disk \in Nat /\ cursor <= now
      /\ stored = cursor /\ disk <= cursor /\ now \in 0..MaxRow /\ MaxRow \in Nat
      /\ cursor \in 0..MaxRow /\ disk \in 0..MaxRow
  BY RowAssumption DEF Base, TypeOK, Cares, Cursors
<1> QED BY <1>1, <1>2, <1>3, RowsAreTimes, CaresStay

\* The gate passes the batch.
LEMMA GatePassCares ==
    ASSUME Base, OneTurn, Cares, Allow \subseteq Ordinary, NEW s \in Slots, GatePass(s)
    PROVE  Cares'
<1> DEFINE t == [turn[s] EXCEPT !.pc = IF turn[s].key \in outbox THEN "outbox" ELSE "enrich"]
<1>1. /\ UNCHANGED <<now, cursor, stored, disk, routed, judging, boot, waiting, acks,
                     bucket, parked, shown, lock, active, ctl, outbox, retry, resend,
                     lastIn, lastOut, told, done, crashes, fails>>
      /\ turn[s].pc = "gate" /\ turn' = [turn EXCEPT ![s] = t]
  BY OrdinaryAllows DEF GatePass, ingestVars, queueVars, turnVars, oweVars, histVars, bounds
<1>2. turn[s] \in Turns /\ turn \in [Slots -> Turns]
  BY DEF Base, TypeOK
<1>3. /\ t.pc # "off" /\ t.key = turn[s].key /\ t.fed = turn[s].fed /\ t.seen = turn[s].seen
      /\ t.msgs = turn[s].msgs /\ t.prev = turn[s].prev /\ t.iter = turn[s].iter
      /\ t.pc \in {"enrich", "outbox", "model", "send"} /\ (t.pc = "outbox" => turn[s].pc = "gate")
      /\ (t.pc = "model" => turn[s].pc = "enrich") /\ (t.pc = "send" => t.then \in {"regate", "final"})
  BY <1>1, <1>2 DEF Turns
<1> HIDE DEF t
<1>4. turn'[s] = t /\ \A z \in Slots : z # s => turn'[z] = turn[z]
  BY <1>1, <1>2
<1>5. /\ FoldsOf(s) /\ told \subseteq told' /\ retry \subseteq retry'
      /\ (t.pc = "model" => turn[s].msgs \subseteq told')
  BY <1>1, <1>3 DEF Cares, Folds
<1>6. FoldsOf(s)'
  BY <1>1, <1>3, <1>4, <1>5 DEF FoldsOf
<1>7. Folds'
  BY <1>1, <1>4, <1>5, <1>6, FoldsKept DEF Cares, Folds
<1>8. /\ now \in Nat /\ cursor <= now /\ stored = cursor /\ disk <= cursor /\ cursor \in Nat
      /\ now \in 0..MaxRow /\ cursor \in 0..MaxRow /\ disk \in 0..MaxRow
  BY RowAssumption DEF Base, TypeOK, Cares, Cursors
<1> QED BY <1>1, <1>3, <1>4, <1>5, <1>7, <1>8, CaresStay

\* The queued reply is lost.
LEMMA FlushPermanentCares ==
    ASSUME Base, OneTurn, Cares, Allow \subseteq Ordinary, NEW s \in Slots, FlushPermanent(s)
    PROVE  Cares'
<1> DEFINE t == [turn[s] EXCEPT !.pc = "enrich"]
<1>1. /\ UNCHANGED <<now, cursor, stored, disk, routed, judging, boot, waiting, acks,
                     bucket, parked, shown, lock, active, ctl, retry, lastIn, lastOut, told,
                     done, crashes, fails>>
      /\ turn[s].pc = "outbox" /\ turn' = [turn EXCEPT ![s] = t]
  BY OrdinaryAllows DEF FlushPermanent, ingestVars, queueVars, turnVars, oweVars, histVars, bounds,
     ClearOutbox, ScheduleLostReplyResend
<1>2. turn[s] \in Turns /\ turn \in [Slots -> Turns]
  BY DEF Base, TypeOK
<1>3. /\ t.pc # "off" /\ t.key = turn[s].key /\ t.fed = turn[s].fed /\ t.seen = turn[s].seen
      /\ t.msgs = turn[s].msgs /\ t.prev = turn[s].prev /\ t.iter = turn[s].iter
      /\ t.pc \in {"enrich", "outbox", "model", "send"} /\ (t.pc = "outbox" => turn[s].pc = "gate")
      /\ (t.pc = "model" => turn[s].pc = "enrich") /\ (t.pc = "send" => t.then \in {"regate", "final"})
  BY <1>1, <1>2 DEF Turns
<1> HIDE DEF t
<1>4. turn'[s] = t /\ \A z \in Slots : z # s => turn'[z] = turn[z]
  BY <1>1, <1>2
<1>5. /\ FoldsOf(s) /\ told \subseteq told' /\ retry \subseteq retry'
      /\ (t.pc = "model" => turn[s].msgs \subseteq told')
  BY <1>1, <1>3 DEF Cares, Folds
<1>6. FoldsOf(s)'
  BY <1>1, <1>3, <1>4, <1>5 DEF FoldsOf
<1>7. Folds'
  BY <1>1, <1>4, <1>5, <1>6, FoldsKept DEF Cares, Folds
<1>8. /\ now \in Nat /\ cursor <= now /\ stored = cursor /\ disk <= cursor /\ cursor \in Nat
      /\ now \in 0..MaxRow /\ cursor \in 0..MaxRow /\ disk \in 0..MaxRow
  BY RowAssumption DEF Base, TypeOK, Cares, Cursors
<1> QED BY <1>1, <1>3, <1>4, <1>5, <1>7, <1>8, CaresStay

\* The model runs on rows it is told of.
LEMMA StartModelCares ==
    ASSUME Base, OneTurn, Cares, Allow \subseteq Ordinary, NEW s \in Slots, StartModel(s)
    PROVE  Cares'
<1> DEFINE t == [turn[s] EXCEPT !.pc = "model"]
<1>1. /\ UNCHANGED <<now, cursor, stored, disk, routed, judging, boot, waiting, acks,
                     bucket, parked, shown, lock, active, ctl, outbox, retry, resend,
                     lastOut, done, crashes, fails>>
      /\ turn[s].pc = "enrich" /\ turn' = [turn EXCEPT ![s] = t]
      /\ told' = told \cup turn[s].msgs
  BY OrdinaryAllows DEF StartModel, ingestVars, queueVars, turnVars, oweVars, histVars, bounds
<1>2. turn[s] \in Turns /\ turn \in [Slots -> Turns]
  BY DEF Base, TypeOK
<1>3. /\ t.pc # "off" /\ t.key = turn[s].key /\ t.fed = turn[s].fed /\ t.seen = turn[s].seen
      /\ t.msgs = turn[s].msgs /\ t.prev = turn[s].prev /\ t.iter = turn[s].iter
      /\ t.pc \in {"enrich", "outbox", "model", "send"} /\ (t.pc = "outbox" => turn[s].pc = "gate")
      /\ (t.pc = "model" => turn[s].pc = "enrich") /\ (t.pc = "send" => t.then \in {"regate", "final"})
  BY <1>1, <1>2 DEF Turns
<1> HIDE DEF t
<1>4. turn'[s] = t /\ \A z \in Slots : z # s => turn'[z] = turn[z]
  BY <1>1, <1>2
<1>5. /\ FoldsOf(s) /\ told \subseteq told' /\ retry \subseteq retry'
      /\ (t.pc = "model" => turn[s].msgs \subseteq told')
  BY <1>1, <1>3 DEF Cares, Folds
<1>6. FoldsOf(s)'
  BY <1>1, <1>3, <1>4, <1>5 DEF FoldsOf
<1>7. Folds'
  BY <1>1, <1>4, <1>5, <1>6, FoldsKept DEF Cares, Folds
<1>8. /\ now \in Nat /\ cursor <= now /\ stored = cursor /\ disk <= cursor /\ cursor \in Nat
      /\ now \in 0..MaxRow /\ cursor \in 0..MaxRow /\ disk \in 0..MaxRow
  BY RowAssumption DEF Base, TypeOK, Cares, Cursors
<1> QED BY <1>1, <1>3, <1>4, <1>5, <1>7, <1>8, CaresStay

\* Nothing is shown mid-turn, and nothing parked was seen.
LEMMA NothingSeen ==
    ASSUME Base, Cares, NEW s \in Slots, turn[s].pc # "off", NEW new \in SUBSET Showable(s)
    PROVE  /\ new = {} /\ SeenParked(turn[s]) = {} /\ SeenParked(WithSeen(s, new)) = {}
           /\ WithSeen(s, new).seen = {}
<1>1. turn[s].seen = {} /\ shown = {}
  BY DEF Cares, Quiet
<1>2. new = {}
  BY <1>1 DEF Showable
<1>3. SeenParked(turn[s]) = {}
  BY <1>1 DEF SeenParked
<1>4. WithSeen(s, new).seen = {} /\ SeenParked(WithSeen(s, new)) = {}
  BY <1>1, <1>2, SeenFields
<1> QED BY <1>2, <1>3, <1>4

\* The reply stands: nothing was parked meanwhile, or the cap is reached.
LEMMA ModelRepliesCares ==
    ASSUME Base, OneTurn, Cares, Allow \subseteq Ordinary, NEW s \in Slots, ModelReplies(s)
    PROVE  Cares'
<1>1. /\ UNCHANGED <<now, cursor, stored, disk, routed, judging, boot, waiting, bucket,
                     lock, active, ctl, outbox, retry, resend, lastIn, lastOut, told,
                     crashes, fails>>
      /\ turn[s].pc = "model"
  BY DEF ModelReplies, ingestVars, queueVars, turnVars, oweVars, histVars, bounds
<1>2. PICK new \in SUBSET Showable(s) :
          /\ \/ /\ parked[turn[s].key] \subseteq WithSeen(s, new).seen
                /\ DrainPending(turn[s].key)
                /\ acks' = acks \ parked[turn[s].key] /\ done' = done \cup parked[turn[s].key]
             \/ UNCHANGED <<parked, shown, acks, done>>
          /\ turn' = [turn EXCEPT ![s] = [WithSeen(s, new) EXCEPT !.pc = "send", !.then = "final"]]
  BY DEF ModelReplies
<1>3. WithSeen(s, new).seen = {}
  BY <1>1, NothingSeen
<1>4. UNCHANGED <<parked, shown, acks, done>>
  <2>1. CASE /\ parked[turn[s].key] = {} /\ DrainPending(turn[s].key)
             /\ acks' = acks \ {} /\ done' = done \cup {}
    <3>1. parked' = parked
      BY <2>1 DEF DrainPending, Base, TypeOK
    <3> QED BY <2>1, <3>1 DEF DrainPending
  <2> QED BY <1>2, <1>3, <2>1
<1>5. PICK u \in Turns : /\ u = WithSeen(s, new) /\ u.seen = {}
                         /\ u.key = turn[s].key /\ u.msgs = turn[s].msgs /\ u.fed = turn[s].fed
                         /\ u.prev = turn[s].prev /\ u.iter = turn[s].iter
  BY <1>1, <1>3, SeenFields
<1> DEFINE t == [u EXCEPT !.pc = "send", !.then = "final"]
<1>6. /\ t.pc = "send" /\ t.then = "final" /\ t.seen = {}
      /\ t.key = turn[s].key /\ t.msgs = turn[s].msgs /\ t.fed = turn[s].fed
      /\ t.prev = turn[s].prev /\ t.iter = turn[s].iter
  BY <1>5 DEF Turns
<1>7. turn \in [Slots -> Turns] /\ turn' = [turn EXCEPT ![s] = t]
  BY <1>2, <1>5 DEF Base, TypeOK
<1> HIDE DEF t
<1>8. turn'[s] = t /\ \A z \in Slots : z # s => turn'[z] = turn[z]
  BY <1>7
<1>9. FoldsOf(s)'
  BY <1>1, <1>4, <1>6, <1>8 DEF Cares, Folds, FoldsOf
<1>10. Folds'
  BY <1>1, <1>4, <1>8, <1>9, FoldsKept DEF Cares, Folds
<1>11. turn[s].seen = {}
  BY DEF Cares, Quiet
<1>12. /\ now \in Nat /\ cursor <= now /\ stored = cursor /\ disk <= cursor /\ cursor \in Nat
      /\ now \in 0..MaxRow /\ cursor \in 0..MaxRow /\ disk \in 0..MaxRow
  BY RowAssumption DEF Base, TypeOK, Cares, Cursors
<1> QED BY <1>1, <1>4, <1>6, <1>8, <1>10, <1>11, <1>12, CaresStay

\* A turn that runs is its session's only one, and the daemon is up.
LEMMA RunningAlone ==
    ASSUME Base, OneTurn, Cares, NEW s \in Slots, turn[s].pc # "off"
    PROVE  /\ boot = "up" /\ turn[s].key \in Keys /\ turn[s].key \in active
           /\ waiting[turn[s].key] = {}
           /\ \A z \in Slots : turn[z].key = turn[s].key => z = s
           /\ FoldsOf(s)
<1>1. turn[s].key \in Keys /\ turn[s].key \in active
  BY RunningHasKey DEF OneTurn
<1>2. boot = "up"
  BY <1>1 DEF Cares, Down
<1>3. waiting[turn[s].key] = {}
  BY <1>1, <1>2 DEF Cares, Alone
<1>4. \A z \in Slots : turn[z].key = turn[s].key => z = s
  BY <1>1 DEF OneTurn
<1>5. FoldsOf(s)
  BY DEF Cares, Folds
<1> QED BY <1>1, <1>2, <1>3, <1>4, <1>5

\* What Finish does to the queues of its session, and to no other.
LEMMA FinishQueues ==
    ASSUME Base, NEW s \in Slots, NEW k \in Keys, k = turn[s].key, NEW cover, NEW again,
           Finish(s, cover, again, {})
    PROVE  /\ bucket'[k] = bucket[k] \cup again \cup parked[k] /\ parked'[k] = {}
           /\ \A j \in Keys : j # k => bucket'[j] = bucket[j] /\ parked'[j] = parked[j]
           /\ shown' \subseteq shown /\ acks' = acks \ Covered(k, cover)
           /\ active' = active \ {k}
           /\ turn'[s] = NoTurn /\ \A z \in Slots : z # s => turn'[z] = turn[z]
<1>1. /\ bucket \in [Keys -> SUBSET Rows] /\ parked \in [Keys -> SUBSET Rows]
      /\ turn \in [Slots -> Turns]
  BY DEF Base, TypeOK
<1>2. /\ bucket' = [bucket EXCEPT ![k] = @ \cup again \cup (parked[k] \ {})]
      /\ parked' = [parked EXCEPT ![k] = {}] /\ shown' = shown \ parked[k]
      /\ acks' = acks \ ({} \cup Covered(k, cover))
      /\ active' = active \ {k}
      /\ turn' = [turn EXCEPT ![s] = NoTurn]
  BY DEF Finish, DrainPending
<1> QED BY <1>1, <1>2

\* The end of a turn that accounts for all it had: a row is disposed of, or
\* back in the bucket, or left to the retry cron, and the acks cleared are those
\* of rows disposed of.
LEMMA EndCares ==
    ASSUME Base, OneTurn, Cares, NEW s \in Slots, turn[s].pc # "off",
           NEW cover \in SUBSET turn[s].fed, NEW again \in SUBSET turn[s].fed,
           Finish(s, cover, again, {}), UNCHANGED <<ingestVars, told>>, done \subseteq done',
           \A r \in turn[s].fed \ done' :
              r \in bucket'[turn[s].key] \/ (r \in told /\ turn[s].key \in retry'),
           \A r \in bucket'[turn[s].key] \ done' : \A c \in cover : c < r,
           retry \ {turn[s].key} \subseteq retry',
           \A r \in routed \ done' : KeyOf[r] = turn[s].key /\ Retried(r) =>
              r \in bucket'[turn[s].key] \/ turn[s].key \in retry'
    PROVE  Cares'
<1>k. PICK k \in Keys : k = turn[s].key
  BY RunningAlone
<1>1. /\ boot = "up" /\ k \in active /\ waiting[k] = {}
      /\ \A z \in Slots : turn[z].key = k => z = s
  BY <1>k, RunningAlone
<1>2. /\ UNCHANGED <<now, cursor, stored, disk, routed, judging, boot, waiting, told>>
      /\ bucket'[k] = bucket[k] \cup again \cup parked[k] /\ parked'[k] = {}
      /\ \A j \in Keys : j # k => bucket'[j] = bucket[j] /\ parked'[j] = parked[j]
      /\ shown' \subseteq shown /\ acks' = acks \ Covered(k, cover)
      /\ active' = active \ {k}
      /\ turn'[s] = NoTurn /\ \A z \in Slots : z # s => turn'[z] = turn[z]
  BY <1>k, FinishQueues DEF ingestVars
<1>3. \A r \in Rows : KeyOf[r] \in Keys
  BY RowAssumption
<1>4. /\ turn[s].fed \subseteq Rows /\ routed \subseteq Rows
      /\ \A r \in turn[s].fed : r \in routed /\ KeyOf[r] = k
      /\ \A j \in Keys : \A r \in Queued(j) : r \in routed /\ KeyOf[r] = j
  BY <1>k, <1>1, TurnFields DEF Base, TypeOK, Cares, Places
<1>5. /\ \A j \in Keys : Queued(j)' = waiting'[j] \cup bucket'[j] \cup parked'[j]
      /\ \A j \in Keys : j # k => Queued(j)' = Queued(j)
      /\ Queued(k)' = bucket'[k] /\ Queued(k) = bucket[k] \cup parked[k]
      /\ Queued(k)' \subseteq Queued(k) \cup turn[s].fed /\ Queued(k) \subseteq Queued(k)'
  BY <1>1, <1>2 DEF Queued
<1>6. \A a \in acks \ acks' : KeyOf[a] = k /\ \E c \in cover : a <= c
  BY <1>2 DEF Covered
<1>q. Quiet'
  BY <1>2, NoTurnType DEF Cares, Quiet
<1>f. Folds'
  <2> SUFFICES ASSUME NEW z \in Slots, turn'[z].pc # "off" PROVE FoldsOf(z)'
    BY DEF Folds
  <2>1. z # s /\ turn'[z] = turn[z] /\ turn[z].pc # "off"
    BY <1>2, NoTurnType
  <2>2. turn[z].key \in Keys /\ turn[z].key # k
    BY <1>1, <2>1, RunningHasKey
  <2> QED BY <1>2, <2>1, <2>2, FoldsKept DEF Cares, Folds
<1>p. Places'
  <2>1. \A j \in Keys : \A r \in Queued(j)' : r \in routed /\ KeyOf[r] = j
    BY <1>4, <1>5
  <2>2. \A z \in Slots : \A r \in turn'[z].fed : r \in routed /\ KeyOf[r] = turn'[z].key
    BY <1>2, NoTurnType DEF Cares, Places
  <2> QED BY <1>2, <2>1, <2>2 DEF Cares, Places
<1>c. Cursors' /\ Down'
  BY <1>1, <1>2 DEF Cares, Cursors, Down
<1>a. Acked'
  <2>1. \A z \in Slots : turn'[z].fed \subseteq acks' \cup done'
    <3> SUFFICES ASSUME NEW z \in Slots, NEW r \in turn'[z].fed, r \notin done' PROVE r \in acks'
      OBVIOUS
    <3>1. z # s /\ turn'[z] = turn[z]
      BY <1>2, NoTurnType
    <3>2. r \in acks /\ KeyOf[r] = turn[z].key
      BY <1>1, <3>1 DEF Cares, Acked, Places
    <3> QED BY <1>1, <1>6, <3>1, <3>2
  <2>2. \A j \in Keys : Queued(j)' \subseteq acks' \cup done'
    <3> SUFFICES ASSUME NEW j \in Keys, NEW r \in Queued(j)', r \notin done' PROVE r \in acks'
      OBVIOUS
    <3>1. r \in acks /\ KeyOf[r] = j /\ r \in Rows
      BY <1>1, <1>4, <1>5 DEF Cares, Acked
    <3>2. CASE j # k
      BY <1>6, <3>1, <3>2
    <3>3. CASE j = k
      <4>1. \A c \in cover : c < r
        BY <1>k, <1>5, <3>3
      <4>2. \A c \in cover : ~(r <= c)
        BY <4>1, <3>1, <1>4, RowsAreTimes
      <4> QED BY <1>6, <3>1, <4>2
    <3> QED BY <3>2, <3>3
  <2> QED BY <2>1, <2>2 DEF Acked
<1>o. Owned'
  <2> SUFFICES ASSUME NEW r \in routed, r \notin done' PROVE Cared(r)' \/ Retried(r)'
    BY <1>1, <1>2 DEF Owned
  <2>1. (Cared(r) \/ Retried(r)) /\ KeyOf[r] \in Keys
    BY <1>1, <1>3, <1>4 DEF Cares, Owned
  <2>2. CASE KeyOf[r] = k
    <3>1. r \in Queued(k) \/ r \in turn[s].fed \/ Retried(r)
      BY <1>1, <2>1, <2>2 DEF Cared
    <3>2. r \in bucket'[k] \/ (r \in told /\ k \in retry')
      BY <1>k, <1>5, <2>2, <3>1 DEF Retried
    <3> QED BY <1>2, <1>5, <2>2, <3>2 DEF Cared, Retried
  <2>3. CASE KeyOf[r] # k
    <3>1. Cared(r) => Cared(r)'
      BY <1>k, <1>2, <1>5, <2>1, <2>3 DEF Cared
    <3>2. Retried(r) => Retried(r)'
      BY <1>k, <1>2, <2>3 DEF Retried
    <3> QED BY <2>1, <3>1, <3>2
  <2> QED BY <2>2, <2>3
<1>l. Alone'
  <2> SUFFICES ASSUME NEW j \in Keys
               PROVE  /\ waiting[j] # {} => bucket'[j] = {} /\ j \notin active'
                      /\ j \notin active' => parked'[j] \subseteq waiting[j] \cup done'
    BY <1>2 DEF Alone
  <2>1. CASE j = k
    BY <1>1, <1>2, <2>1
  <2>2. CASE j # k
    BY <1>1, <1>2, <2>2 DEF Cares, Alone
  <2> QED BY <2>1, <2>2
<1>r. Order'
  <2> SUFFICES ASSUME NEW z \in Slots, turn'[z].pc # "off",
                      NEW j, j = turn'[z].key,
                      NEW r \in waiting'[j] \cup bucket'[j] \cup parked'[j],
                      r \notin turn'[z].fed \cup done', NEW f \in turn'[z].fed
               PROVE  f < r
    BY DEF Order, Queued
  <2>1. z # s /\ turn'[z] = turn[z] /\ turn[z].pc # "off" /\ turn[z].key \in Keys
    BY <1>2, NoTurnType, RunningHasKey
  <2>2. j \in Keys /\ j # k /\ r \in Queued(j)
    BY <1>1, <1>5, <2>1
  <2> QED BY <1>2, <2>1, <2>2 DEF Cares, Order
<1> QED BY <1>q, <1>f, <1>p, <1>c, <1>a, <1>o, <1>l, <1>r DEF Cares

\* A successful run, or its reply, disposes of what its session was told.
LEMMA AnsweredAll ==
    ASSUME Base, OneTurn, Cares, NEW s \in Slots, turn[s].pc # "off",
           NEW rows, NEW again, Answered(s, rows, again)
    PROVE  /\ done \subseteq done' /\ rows \ again \subseteq done'
           /\ \A r \in told : KeyOf[r] = turn[s].key => r \in done' \/ r \in again
<1>1. \A z \in Slots : z # s => turn[z].key # turn[s].key
  BY RunningAlone
<1>2. \A z \in Slots \ {s} : \A r \in turn[z].fed : KeyOf[r] # turn[s].key
  BY <1>1 DEF Cares, Places
<1>3. done' = done \cup ((rows \cup ({r \in told : KeyOf[r] = turn[s].key}
                                        \ UNION {turn[z].fed : z \in Slots \ {s}})) \ again)
  BY DEF Answered
<1>4. \A r \in told : KeyOf[r] = turn[s].key => r \notin UNION {turn[z].fed : z \in Slots \ {s}}
  BY <1>2
<1> HIDE DEF Cares
<1> QED BY <1>3, <1>4

\* The end of a turn that disposes of all it had.
LEMMA EndAnswered ==
    ASSUME Base, OneTurn, Cares, NEW s \in Slots, turn[s].pc # "off",
           Finish(s, turn[s].fed, {}, {}), UNCHANGED <<ingestVars, told>>,
           done \cup turn[s].fed \subseteq done',
           \/ retry' = retry
           \/ /\ retry' = retry \ {turn[s].key}
              /\ \A r \in told : KeyOf[r] = turn[s].key => r \in done'
    PROVE  Cares'
<1>k. PICK k \in Keys : k = turn[s].key
  BY RunningAlone
<1>1. bucket'[k] = bucket[k] \cup {} \cup parked[k]
  BY <1>k, FinishQueues
<1>2. \A r \in bucket'[k] \ done' : \A c \in turn[s].fed : c < r
  <2> SUFFICES ASSUME NEW r \in bucket'[k] \ done', NEW c \in turn[s].fed PROVE c < r
    OBVIOUS
  <2>1. r \in Queued(k) \ (turn[s].fed \cup done)
    BY <1>1 DEF Queued
  <2> QED BY <1>k, <2>1 DEF Cares, Order
<1>3. \A r \in routed \ done' : KeyOf[r] = k /\ Retried(r) => r \in bucket'[k] \/ k \in retry'
  BY <1>k DEF Retried
<1>4. retry \ {k} \subseteq retry'
  BY <1>k
<1>5. \A r \in turn[s].fed \ done' : r \in bucket'[k] \/ (r \in told /\ k \in retry')
  OBVIOUS
<1> QED BY <1>k, <1>2, <1>3, <1>4, <1>5, EndCares

\* The batch is dropped.
LEMMA GateDropCares ==
    ASSUME Base, OneTurn, Cares, Allow \subseteq Ordinary, NEW s \in Slots, GateDrop(s)
    PROVE  Cares'
<1>1. /\ turn[s].pc = "gate" /\ retry' = retry /\ UNCHANGED <<ingestVars, told>>
  BY DEF GateDrop, oweVars
<1>2. FoldsOf(s)
  BY <1>1, RunningAlone
<1>3. turn[s].msgs = turn[s].fed
  BY <1>1, <1>2 DEF FoldsOf
<1>4. Finish(s, turn[s].fed, {}, {}) /\ done' = done \cup turn[s].fed
  BY <1>3 DEF GateDrop
<1> QED BY <1>1, <1>4, EndAnswered

\* The run was aborted.
LEMMA ModelAbortedCares ==
    ASSUME Base, OneTurn, Cares, Allow \subseteq Ordinary, NEW s \in Slots, ModelAborted(s)
    PROVE  Cares'
<1>1. /\ turn[s].pc = "model" /\ retry' = retry /\ UNCHANGED <<ingestVars, told>>
  BY DEF ModelAborted, oweVars
<1>2. FoldsOf(s)
  BY <1>1, RunningAlone
<1>4. Finish(s, turn[s].fed, {}, {}) /\ done' = done \cup turn[s].fed
  BY DEF ModelAborted
<1> QED BY <1>1, <1>4, EndAnswered

\* The queued reply is sent, and the batch is queued again.
LEMMA FlushSentCares ==
    ASSUME Base, OneTurn, Cares, Allow \subseteq Ordinary, NEW s \in Slots, FlushSent(s)
    PROVE  Cares'
<1>1. /\ turn[s].pc = "outbox" /\ UNCHANGED <<retry, done>> /\ UNCHANGED <<ingestVars, told>>
  BY DEF FlushSent, histVars
<1>2. FoldsOf(s)
  BY <1>1, RunningAlone
<1>3. turn[s].msgs = turn[s].fed
  BY <1>1, <1>2 DEF FoldsOf
<1>4. Finish(s, {}, turn[s].fed, {})
  BY <1>3 DEF FlushSent
<1>k. PICK k \in Keys : k = turn[s].key
  BY <1>1, RunningAlone
<1>5. bucket'[k] = bucket[k] \cup turn[s].fed \cup parked[k]
  BY <1>k, <1>4, FinishQueues
<1>6. \A r \in routed \ done' : KeyOf[r] = k /\ Retried(r) => k \in retry'
  BY <1>1 DEF Retried
<1> QED BY <1>k, <1>1, <1>4, <1>5, <1>6, EndCares

\* The run failed in its first iteration: the retry cron owns the batch.
LEMMA ModelFailsCares ==
    ASSUME Base, OneTurn, Cares, Allow \subseteq Ordinary, NEW s \in Slots, ModelFails(s)
    PROVE  Cares'
<1>1. /\ turn[s].pc = "model" /\ turn[s].iter = 0 /\ done' = done /\ UNCHANGED <<ingestVars, told>>
  BY OrdinaryAllows DEF ModelFails, histVars
<1>2. FoldsOf(s)
  BY <1>1, RunningAlone
<1>3. Finish(s, {}, {}, {}) /\ retry' = retry \cup {turn[s].key}
  BY <1>1, OrdinaryAllows DEF ModelFails, Fails, ScheduleInboundRetry
<1>k. PICK k \in Keys : k = turn[s].key
  BY <1>1, RunningAlone
<1>4. turn[s].fed \subseteq told
  BY <1>1, <1>2 DEF FoldsOf
<1> QED BY <1>k, <1>1, <1>3, <1>4, EndCares

\* A run without text.
LEMMA ModelSilentCares ==
    ASSUME Base, OneTurn, Cares, Allow \subseteq Ordinary, NEW s \in Slots, ModelSilent(s)
    PROVE  Cares'
<1>1. /\ turn[s].pc = "model" /\ retry' = retry \ {turn[s].key} /\ UNCHANGED <<ingestVars, told>>
  BY DEF ModelSilent, CancelInboundRetries
<1>2. FoldsOf(s)
  BY <1>1, RunningAlone
<1>3. PICK new \in SUBSET Showable(s) :
          /\ Finish(s, turn[s].fed, {}, SeenParked(WithSeen(s, new)))
          /\ Answered(s, turn[s].fed \cup SeenParked(WithSeen(s, new)), {})
  BY DEF ModelSilent
<1>4. SeenParked(WithSeen(s, new)) = {}
  BY <1>1, NothingSeen
<1>5. Finish(s, turn[s].fed, {}, {}) /\ Answered(s, turn[s].fed \cup {}, {})
  BY <1>3, <1>4
<1>6. /\ done \cup turn[s].fed \subseteq done'
      /\ \A r \in told : KeyOf[r] = turn[s].key => r \in done'
  BY <1>1, <1>5, AnsweredAll
<1> QED BY <1>1, <1>5, <1>6, EndAnswered

\* The group gate drops the batch, or sends the draft.
LEMMA RegateCares ==
    ASSUME Base, OneTurn, Cares, Allow \subseteq Ordinary, NEW s \in Slots, Regate(s)
    PROVE  Cares'
<1>1. turn[s].pc = "enrich" /\ UNCHANGED <<ingestVars, oweVars, told, bounds>>
  BY DEF Regate
<1>2. CASE Finish(s, turn[s].fed, {}, {}) /\ done' = done \cup turn[s].fed
  <2>1. retry' = retry
    BY <1>1 DEF oweVars
  <2> QED BY <1>1, <1>2, <2>1, EndAnswered
<1>3. CASE /\ turn' = [turn EXCEPT ![s].pc = "send", ![s].then = "regate"]
           /\ UNCHANGED <<queueVars, lock, active, ctl, done>>
  <2> DEFINE t == [turn[s] EXCEPT !.pc = "send", !.then = "regate"]
  <2>1. UNCHANGED <<now, cursor, stored, disk, routed, judging, boot, waiting, acks,
                     bucket, parked, shown, lock, active, ctl, outbox, retry, resend,
                     lastIn, lastOut, told, done, crashes, fails>>
    BY <1>1, <1>3 DEF ingestVars, queueVars, turnVars, oweVars, histVars, bounds
  <2>2. turn[s] \in Turns /\ turn \in [Slots -> Turns]
    BY DEF Base, TypeOK
  <2>3. /\ t.pc = "send" /\ t.then = "regate" /\ t.key = turn[s].key /\ t.fed = turn[s].fed
        /\ t.seen = turn[s].seen /\ t.msgs = turn[s].msgs /\ t.prev = turn[s].prev
        /\ t.iter = turn[s].iter
    BY <2>2 DEF Turns
  <2>4. turn' = [turn EXCEPT ![s] = t]
    BY <1>3
  <2> HIDE DEF t
  <2>5. turn'[s] = t /\ \A z \in Slots : z # s => turn'[z] = turn[z]
    BY <2>2, <2>4
  <2>6. FoldsOf(s)'
    BY <1>1, <2>1, <2>3, <2>5 DEF Cares, Folds, FoldsOf
  <2>7. Folds'
    BY <2>1, <2>5, <2>6, FoldsKept DEF Cares, Folds
  <2>8. /\ now \in Nat /\ cursor <= now /\ stored = cursor /\ disk <= cursor /\ cursor \in Nat
        /\ now \in 0..MaxRow /\ cursor \in 0..MaxRow /\ disk \in 0..MaxRow
    BY RowAssumption DEF Base, TypeOK, Cares, Cursors
  <2> QED BY <1>1, <2>1, <2>3, <2>5, <2>7, <2>8, CaresStay
<1> QED BY <1>2, <1>3 DEF Regate

\* The delivery returns, and the turn ends.
LEMMA DeliveredCares ==
    ASSUME Base, OneTurn, Cares, Allow \subseteq Ordinary, NEW s \in Slots, Delivered(s)
    PROVE  Cares'
<1>1. /\ turn[s].pc = "send" /\ UNCHANGED <<ingestVars, told>>
  BY DEF Delivered
<1>2. FoldsOf(s)
  BY <1>1, RunningAlone
<1>k. PICK k \in Keys : k = turn[s].key
  BY <1>1, RunningAlone
<1>3. retry' = retry \/ retry' = retry \ {k}
  BY <1>k DEF Delivered, DeliverySent, DeliveryTransient, DeliveryPermanent, DeliverySilenced,
              CancelInboundRetries, oweVars
<1>4. SeenParked(turn[s]) = {}
  <2>1. {} \in SUBSET Showable(s)
    OBVIOUS
  <2> QED BY <1>1, <2>1, NothingSeen
<1>5. CASE /\ Finish(s, turn[s].fed, {}, {}) /\ Answered(s, turn[s].fed, {})
  <2>1. /\ done \cup turn[s].fed \subseteq done'
        /\ \A r \in told : KeyOf[r] = turn[s].key => r \in done'
    BY <1>1, <1>5, AnsweredAll
  <2> QED BY <1>k, <1>1, <1>3, <1>5, <2>1, EndAnswered
<1>6. CASE /\ turn[s].then = "keep"
           /\ Finish(s, turn[s].prev, {}, {}) /\ Answered(s, turn[s].prev, turn[s].msgs \ turn[s].prev)
  <2>1. /\ turn[s].fed = turn[s].prev \cup turn[s].msgs /\ turn[s].msgs \subseteq bucket[k]
        /\ \A r \in turn[s].msgs \ (turn[s].prev \cup done) : \A p \in turn[s].prev : p < r
    BY <1>k, <1>1, <1>2, <1>6 DEF FoldsOf
  <2>2. bucket'[k] = bucket[k] \cup {} \cup parked[k]
    BY <1>k, <1>6, FinishQueues
  <2>3. /\ done \subseteq done' /\ turn[s].prev \subseteq done'
        /\ \A r \in told : KeyOf[r] = k => r \in done' \/ r \in turn[s].msgs
    BY <1>k, <1>1, <1>6, AnsweredAll
  <2>4. \A r \in bucket'[k] \ done' : \A c \in turn[s].prev : c < r
    <3> SUFFICES ASSUME NEW r \in bucket'[k] \ done', NEW c \in turn[s].prev PROVE c < r
      OBVIOUS
    <3>1. CASE r \in turn[s].fed
      BY <2>1, <2>3, <3>1
    <3>2. CASE r \notin turn[s].fed
      <4>1. r \in Queued(k) \ (turn[s].fed \cup done) /\ c \in turn[s].fed
        BY <2>1, <2>2, <2>3, <3>2 DEF Queued
      <4> QED BY <1>k, <1>1, <4>1 DEF Cares, Order
    <3> QED BY <3>1, <3>2
  <2>5. \A r \in turn[s].fed \ done' : r \in bucket'[k]
    BY <2>1, <2>2, <2>3
  <2>6. \A r \in routed \ done' : KeyOf[r] = k /\ Retried(r) => r \in bucket'[k]
    BY <2>1, <2>2, <2>3 DEF Retried
  <2>7. turn[s].prev \subseteq turn[s].fed /\ retry \ {k} \subseteq retry'
    BY <1>3, <2>1
  <2> QED BY <1>k, <1>1, <1>6, <2>3, <2>4, <2>5, <2>6, <2>7, EndCares
<1>7. turn[s].then # "failed"
  BY <1>1, <1>2 DEF FoldsOf
<1>8. turn[s].fed \cup {} = turn[s].fed
  OBVIOUS
<1> QED BY <1>4, <1>5, <1>6, <1>7, <1>8 DEF Delivered

\* A turn that begins takes all its session has queued, but what is disposed of.
LEMMA BeginCares ==
    ASSUME Base, OneTurn, Cares, NEW s \in Slots, NEW k \in Keys, NEW batch \in SUBSET Rows,
           Begin(s, k, batch), waiting'[k] = {}, bucket'[k] = {},
           \A j \in Keys : j # k => waiting'[j] = waiting[j] /\ bucket'[j] = bucket[j],
           waiting[k] \cup bucket[k] = batch, parked[k] \subseteq batch \cup done
    PROVE  Cares'
<1>1. /\ UNCHANGED <<now, cursor, stored, disk, routed, judging, boot, acks, parked, shown, retry,
                     told, done>>
      /\ boot = "up" /\ turn[s].pc = "off" /\ lock[k] = None /\ active' = active \cup {k}
  BY DEF Begin, oweVars, histVars
<1>2. /\ turn'[s] = [NoTurn EXCEPT !.pc = "gate", !.key = k, !.msgs = batch,
                                   !.fed = batch, !.prev = batch]
      /\ \A z \in Slots : z # s => turn'[z] = turn[z]
  BY DEF Begin, Base, TypeOK
<1>3. /\ turn'[s].pc = "gate" /\ turn'[s].key = k /\ turn'[s].fed = batch
      /\ turn'[s].msgs = batch /\ turn'[s].prev = batch /\ turn'[s].seen = {} /\ turn'[s].iter = 0
  BY <1>2, NoTurnType DEF NoTurn
<1>z. \A z \in Slots : z # s => turn'[z] = turn[z]
  BY <1>2
<1>4. \A z \in Slots : turn[z].key # k
  BY <1>1 DEF OneTurn
<1>5. \A z \in Slots : z # s /\ turn[z].pc # "off" => turn[z].key \in Keys /\ turn[z].key # k
  BY <1>4, RunningHasKey
<1>6. \A z \in Slots : turn[z].key \in Keys /\ turn[z].key # k => z # s
  BY <1>1, SlotAssumption DEF Base, Slotted
<1>7. /\ \A j \in Keys : Queued(j)' = waiting'[j] \cup bucket'[j] \cup parked[j]
      /\ \A j \in Keys : j # k => Queued(j)' = Queued(j)
      /\ Queued(k)' = parked[k] /\ Queued(k) = batch \cup parked[k]
  BY <1>1 DEF Queued
<1>q. Quiet'
  BY <1>1, <1>z, <1>3 DEF Cares, Quiet
<1>f. Folds'
  <2>1. FoldsOf(s)'
    <3>1. bucket'[turn'[s].key] = {}
      BY <1>3
    <3> QED BY <1>3, <3>1 DEF FoldsOf
  <2>2. ASSUME NEW z \in Slots, z # s, turn'[z].pc # "off" PROVE FoldsOf(z)'
    BY <1>1, <1>z, <1>5, <2>2, FoldsKept DEF Cares, Folds
  <2> QED BY <2>1, <2>2 DEF Folds
<1>p. Places'
  <2>1. \A j \in Keys : \A r \in Queued(j)' : r \in routed /\ KeyOf[r] = j
    BY <1>7 DEF Cares, Places
  <2>2. \A z \in Slots : \A r \in turn'[z].fed : r \in routed /\ KeyOf[r] = turn'[z].key
    <3>1. \A r \in batch : r \in routed /\ KeyOf[r] = k
      BY <1>7 DEF Cares, Places
    <3>2. \A z \in Slots : z # s => \A r \in turn[z].fed : r \in routed /\ KeyOf[r] = turn[z].key
      BY DEF Cares, Places
    <3> QED BY <1>z, <1>3, <3>1, <3>2
  <2> QED BY <1>1, <2>1, <2>2 DEF Cares, Places
<1>c. Cursors' /\ Down'
  BY <1>1 DEF Cares, Cursors, Down
<1>a. Acked'
  <2>1. \A j \in Keys : Queued(j)' \subseteq acks \cup done
    BY <1>1, <1>7 DEF Cares, Acked
  <2>2. \A z \in Slots : turn'[z].fed \subseteq acks \cup done
    BY <1>1, <1>z, <1>3, <1>7 DEF Cares, Acked
  <2> QED BY <1>1, <2>1, <2>2 DEF Acked
<1>o. Owned'
  <2> SUFFICES ASSUME NEW r \in routed, r \notin done PROVE Cared(r)' \/ Retried(r)'
    BY <1>1 DEF Owned
  <2>1. (Cared(r) \/ Retried(r)) /\ KeyOf[r] \in Keys
    BY <1>1, RowAssumption DEF Cares, Owned, Base, TypeOK
  <2>2. CASE KeyOf[r] = k
    BY <1>1, <1>3, <1>4, <1>7, <2>1, <2>2 DEF Cared, Retried
  <2>3. CASE KeyOf[r] # k
    BY <1>1, <1>z, <1>6, <1>7, <2>1, <2>3 DEF Cared, Retried
  <2> QED BY <2>2, <2>3
<1>l. Alone'
  BY <1>1 DEF Cares, Alone
<1>r. Order'
  <2> SUFFICES ASSUME NEW z \in Slots, turn'[z].pc # "off", NEW j, j = turn'[z].key,
                      NEW r \in waiting'[j] \cup bucket'[j] \cup parked'[j],
                      r \notin turn'[z].fed \cup done', NEW f \in turn'[z].fed
               PROVE  f < r
    BY DEF Order, Queued
  <2>1. CASE z = s
    BY <1>1, <1>3, <2>1
  <2>2. CASE z # s
    <3>1. turn'[z] = turn[z] /\ j = turn[z].key /\ j \in Keys /\ j # k /\ turn[z].pc # "off"
      BY <1>z, <1>5, <2>2
    <3>2. r \in Queued(j)
      BY <1>1, <3>1 DEF Queued
    <3> QED BY <1>1, <3>1, <3>2 DEF Cares, Order
  <2> QED BY <2>1, <2>2
<1> QED BY <1>q, <1>f, <1>p, <1>c, <1>a, <1>o, <1>l, <1>r DEF Cares

\* A turn begins on the bucket: nothing else is queued that is not disposed of.
LEMMA BeginTurnCares ==
    ASSUME Base, OneTurn, Cares, Allow \subseteq Ordinary, NEW s \in Slots, NEW k \in Keys, BeginTurn(s, k)
    PROVE  Cares'
<1>1. /\ boot = "up" /\ lock[k] = None /\ bucket[k] # {} /\ Begin(s, k, bucket[k])
      /\ bucket' = [bucket EXCEPT ![k] = {}] /\ waiting' = waiting
  BY DEF BeginTurn, Begin
<1>2. waiting \in [Keys -> SUBSET Rows] /\ bucket \in [Keys -> SUBSET Rows]
  BY DEF Base, TypeOK
<1>3. k \notin active
  BY <1>1 DEF OneTurn
<1>4. waiting[k] = {} /\ parked[k] \subseteq bucket[k] \cup done
  BY <1>1, <1>3 DEF Cares, Alone
<1>5. /\ waiting'[k] = {} /\ bucket'[k] = {}
      /\ \A j \in Keys : j # k => waiting'[j] = waiting[j] /\ bucket'[j] = bucket[j]
      /\ waiting[k] \cup bucket[k] = bucket[k] /\ bucket[k] \in SUBSET Rows
  BY <1>1, <1>2, <1>4
<1> QED BY <1>1, <1>4, <1>5, BeginCares

\* A turn begins on the catch-up batch: nothing else is queued that is not disposed of.
LEMMA BeginCatchUpCares ==
    ASSUME Base, OneTurn, Cares, Allow \subseteq Ordinary, NEW s \in Slots, NEW k \in Keys, BeginCatchUp(s, k)
    PROVE  Cares'
<1>1. /\ boot = "up" /\ lock[k] = None /\ waiting[k] # {} /\ Begin(s, k, waiting[k])
      /\ waiting' = [waiting EXCEPT ![k] = {}] /\ bucket' = bucket
  BY DEF BeginCatchUp, Begin
<1>2. waiting \in [Keys -> SUBSET Rows] /\ bucket \in [Keys -> SUBSET Rows]
  BY DEF Base, TypeOK
<1>3. k \notin active
  BY <1>1 DEF OneTurn
<1>4. bucket[k] = {} /\ parked[k] \subseteq waiting[k] \cup done
  BY <1>1, <1>3 DEF Cares, Alone
<1>5. /\ waiting'[k] = {} /\ bucket'[k] = {}
      /\ \A j \in Keys : j # k => waiting'[j] = waiting[j] /\ bucket'[j] = bucket[j]
      /\ waiting[k] \cup bucket[k] = waiting[k] /\ waiting[k] \in SUBSET Rows
  BY <1>1, <1>2, <1>4
<1> QED BY <1>1, <1>4, <1>5, BeginCares

\* A new row is queued, parked or absorbed: it comes after all there is.
LEMMA WatchAcceptCares ==
    ASSUME Base, OneTurn, Cares, Allow \subseteq Ordinary, NEW r \in Rows, WatchAccept(r)
    PROVE  Cares'
<1>k. PICK k \in Keys : k = KeyOf[r]
  BY RowAssumption
<1>1. /\ UNCHANGED <<now, disk, judging, boot, active, retry, told, done>>
      /\ boot = "up" /\ r = cursor + 1 /\ r <= now /\ cursor' = r /\ stored' = r /\ Route(r)
  BY DEF WatchAccept, Drained, oweVars, histVars
<1>2. /\ routed' = routed \cup {r} /\ acks' = acks \cup {r} /\ UNCHANGED shown /\ SameTurns
      /\ \/ /\ waiting[k] # {} /\ waiting' = [waiting EXCEPT ![k] = @ \cup {r}]
            /\ UNCHANGED <<bucket, parked>>
         \/ /\ waiting[k] = {} /\ k \in active /\ parked' = [parked EXCEPT ![k] = @ \cup {r}]
            /\ UNCHANGED <<waiting, bucket>>
         \/ /\ waiting[k] = {} /\ k \notin active /\ bucket' = [bucket EXCEPT ![k] = @ \cup {r}]
            /\ UNCHANGED <<waiting, parked>>
  BY <1>k, <1>1, RouteEffect, OrdinaryAllows DEF Base
<1>3. /\ waiting \in [Keys -> SUBSET Rows] /\ bucket \in [Keys -> SUBSET Rows]
      /\ parked \in [Keys -> SUBSET Rows] /\ routed \subseteq Rows
  BY DEF Base, TypeOK
<1>4. /\ \A j \in Keys : Queued(j)' = waiting'[j] \cup bucket'[j] \cup parked'[j]
      /\ \A j \in Keys : j # k => Queued(j)' = Queued(j)
      /\ Queued(k)' = Queued(k) \cup {r}
  <2>1. waiting'[k] \cup bucket'[k] \cup parked'[k] = waiting[k] \cup bucket[k] \cup parked[k] \cup {r}
    BY <1>2, <1>3
  <2>2. \A j \in Keys : j # k => waiting'[j] = waiting[j] /\ bucket'[j] = bucket[j] /\ parked'[j] = parked[j]
    BY <1>2, <1>3
  <2> QED BY <2>1, <2>2 DEF Queued
<1>5. \A q \in routed : q <= cursor /\ q < r
  <2>1. \A q \in routed : q <= cursor /\ q \in Nat /\ cursor \in Nat
    BY <1>1, <1>3, RowsAreTimes DEF Cares, Cursors, Base, TypeOK
  <2> QED BY <1>1, <2>1
<1>q. Quiet'
  BY <1>1, <1>2 DEF Cares, Quiet, SameTurns
<1>f. Folds'
  <2> SUFFICES ASSUME NEW z \in Slots, turn'[z].pc # "off" PROVE FoldsOf(z)'
    BY DEF Folds
  <2>1. FoldsOf(z) /\ turn[z].pc # "off" /\ turn[z].key \in Keys /\ turn[z].key \in active
    BY <1>2, RunningAlone DEF SameTurns
  <2>2. bucket'[turn[z].key] = bucket[turn[z].key]
    BY <1>2, <1>3, <2>1
  <2> QED BY <1>1, <1>2, <2>1, <2>2 DEF FoldsOf, SameTurns
<1>p. Places'
  <2>1. \A j \in Keys : \A x \in Queued(j)' : x \in routed' /\ KeyOf[x] = j
    BY <1>k, <1>2, <1>4 DEF Cares, Places
  <2>2. \A z \in Slots : \A x \in turn'[z].fed : x \in routed' /\ KeyOf[x] = turn'[z].key
    BY <1>2 DEF Cares, Places, SameTurns
  <2> QED BY <1>2, <2>1, <2>2 DEF Cares, Places
<1>c. Cursors'
  <2>1. /\ cursor \in Nat /\ disk \in Nat /\ now \in Nat /\ disk <= cursor
    BY DEF Base, TypeOK, Cares, Cursors
  <2>2. disk <= r /\ r \in Nat
    BY <1>1, <2>1
  <2>3. \A q \in routed : q \in Nat /\ q < r
    BY <1>3, <1>5, RowsAreTimes
  <2>4. \A q \in routed' : q <= r /\ q <= now
    BY <1>1, <1>2, <2>1, <2>2, <2>3
  <2> QED BY <1>1, <2>2, <2>4 DEF Cursors
<1>d. Down'
  BY <1>1 DEF Down
<1>a. Acked'
  <2>1. \A j \in Keys : Queued(j)' \subseteq acks' \cup done'
    BY <1>1, <1>2, <1>4 DEF Cares, Acked
  <2>2. \A z \in Slots : turn'[z].fed \subseteq acks' \cup done'
    BY <1>1, <1>2 DEF Cares, Acked, SameTurns
  <2> QED BY <2>1, <2>2 DEF Acked
<1>o. Owned'
  <2> SUFFICES ASSUME NEW x \in routed', x \notin done PROVE Cared(x)' \/ Retried(x)'
    BY <1>1 DEF Owned
  <2>1. CASE x = r
    BY <1>k, <1>4, <2>1 DEF Cared
  <2>2. CASE x \in routed
    <3>1. (Cared(x) \/ Retried(x)) /\ KeyOf[x] \in Keys
      BY <1>1, <1>3, <2>2, RowAssumption DEF Cares, Owned
    <3>2. Queued(KeyOf[x]) \subseteq Queued(KeyOf[x])'
      BY <1>4, <3>1
    <3> QED BY <1>1, <1>2, <3>1, <3>2 DEF Cared, Retried, SameTurns
  <2> QED BY <1>2, <2>1, <2>2
<1>l. Alone'
  <2> SUFFICES ASSUME NEW j \in Keys
               PROVE  /\ waiting'[j] # {} => bucket'[j] = {} /\ j \notin active
                      /\ j \notin active => parked'[j] \subseteq waiting'[j] \cup done
    BY <1>1 DEF Alone
  <2>1. /\ waiting[j] # {} => bucket[j] = {} /\ j \notin active
        /\ j \notin active => parked[j] \subseteq waiting[j] \cup done
    BY <1>1 DEF Cares, Alone
  <2>2. CASE j # k
    BY <1>2, <1>3, <2>1, <2>2
  <2>3. CASE j = k
    BY <1>2, <1>3, <2>1, <2>3
  <2> QED BY <2>2, <2>3
<1>r. Order'
  <2> SUFFICES ASSUME NEW z \in Slots, turn'[z].pc # "off", NEW j, j = turn'[z].key,
                      NEW x \in waiting'[j] \cup bucket'[j] \cup parked'[j],
                      x \notin turn'[z].fed \cup done', NEW f \in turn'[z].fed
               PROVE  f < x
    BY DEF Order, Queued
  <2>1. /\ turn[z].pc # "off" /\ j = turn[z].key /\ j \in Keys /\ f \in turn[z].fed
        /\ x \notin turn[z].fed \cup done
    BY <1>1, <1>2, RunningHasKey DEF SameTurns
  <2>2. CASE x \in Queued(j)
    BY <2>1, <2>2 DEF Cares, Order
  <2>3. CASE x = r
    BY <1>5, <2>1, <2>3 DEF Cares, Places
  <2> QED BY <1>4, <2>1, <2>2, <2>3
<1> QED BY <1>q, <1>f, <1>p, <1>c, <1>d, <1>a, <1>o, <1>l, <1>r DEF Cares

\* A step that moves rows between the pending file, the turn and the bucket of
\* the session of turn s.
LEMMA MoveCares ==
    ASSUME Base, OneTurn, Cares, NEW s \in Slots, NEW k \in Keys, k = turn[s].key,
           turn[s].pc # "off", turn'[s].key = k, turn'[s].seen = {}, turn'[s].pc # "off",
           UNCHANGED <<now, cursor, stored, disk, routed, judging, boot, waiting, acks, shown,
                       active, retry, told, done>>,
           \A z \in Slots : z # s => turn'[z] = turn[z],
           \A j \in Keys : j # k => bucket'[j] = bucket[j] /\ parked'[j] = parked[j],
           bucket'[k] \cup parked'[k] \cup turn'[s].fed
              \subseteq bucket[k] \cup parked[k] \cup turn[s].fed,
           bucket[k] \cup parked[k] \cup turn[s].fed
              \subseteq bucket'[k] \cup parked'[k] \cup turn'[s].fed,
           FoldsOf(s)',
           \A r \in (bucket'[k] \cup parked'[k]) \ (turn'[s].fed \cup done) :
              \A f \in turn'[s].fed : f < r
    PROVE  Cares'
<1>1. /\ boot = "up" /\ k \in active /\ waiting[k] = {}
      /\ \A z \in Slots : z # s => turn[z].key # k
  BY RunningAlone
<1>4. /\ \A j \in Keys : Queued(j)' = waiting[j] \cup bucket'[j] \cup parked'[j]
      /\ \A j \in Keys : j # k => Queued(j)' = Queued(j)
      /\ Queued(k)' = bucket'[k] \cup parked'[k] /\ Queued(k) = bucket[k] \cup parked[k]
  BY <1>1 DEF Queued
<1>q. Quiet'
  BY DEF Cares, Quiet
<1>f. Folds'
  <2> SUFFICES ASSUME NEW z \in Slots, z # s, turn'[z].pc # "off" PROVE FoldsOf(z)'
    BY DEF Folds
  <2>1. turn'[z] = turn[z] /\ turn[z].key \in Keys /\ turn[z].key # k /\ turn[z].pc # "off"
    BY <1>1, RunningHasKey
  <2> QED BY <2>1, FoldsKept DEF Cares, Folds
<1>p. Places'
  <2>0. \A r \in bucket[k] \cup parked[k] \cup turn[s].fed : r \in routed /\ KeyOf[r] = k
    BY <1>4 DEF Cares, Places
  <2>1. \A j \in Keys : \A r \in Queued(j)' : r \in routed /\ KeyOf[r] = j
    BY <1>4, <2>0 DEF Cares, Places
  <2>2. \A z \in Slots : \A r \in turn'[z].fed : r \in routed /\ KeyOf[r] = turn'[z].key
    BY <2>0 DEF Cares, Places
  <2> QED BY <2>1, <2>2 DEF Cares, Places
<1>c. Cursors' /\ Down'
  BY <1>1 DEF Cares, Cursors, Down
<1>a. Acked'
  <2>0. bucket[k] \cup parked[k] \cup turn[s].fed \subseteq acks \cup done
    BY <1>1, <1>4 DEF Cares, Acked
  <2>1. \A j \in Keys : Queued(j)' \subseteq acks \cup done
    BY <1>1, <1>4, <2>0 DEF Cares, Acked
  <2>2. \A z \in Slots : turn'[z].fed \subseteq acks \cup done
    BY <1>1, <2>0 DEF Cares, Acked
  <2> QED BY <2>1, <2>2 DEF Acked
<1>o. Owned'
  <2> SUFFICES ASSUME NEW r \in routed, r \notin done PROVE Cared(r)' \/ Retried(r)'
    BY <1>1 DEF Owned
  <2>1. (Cared(r) \/ Retried(r)) /\ KeyOf[r] \in Keys
    BY <1>1, RowAssumption DEF Cares, Owned, Base, TypeOK
  <2>2. CASE KeyOf[r] = k
    <3>1. r \in Queued(k) \/ r \in turn[s].fed \/ Retried(r)
      BY <1>1, <2>1, <2>2 DEF Cared
    <3>2. r \in Queued(k)' \/ r \in turn'[s].fed \/ Retried(r)
      BY <1>4, <3>1
    <3> QED BY <2>2, <3>2 DEF Cared, Retried
  <2>3. CASE KeyOf[r] # k
    BY <1>4, <2>1, <2>3 DEF Cared, Retried
  <2> QED BY <2>2, <2>3
<1>l. Alone'
  <2> SUFFICES ASSUME NEW j \in Keys
               PROVE  /\ waiting[j] # {} => bucket'[j] = {} /\ j \notin active
                      /\ j \notin active => parked'[j] \subseteq waiting[j] \cup done
    BY DEF Alone
  <2> QED BY <1>1 DEF Cares, Alone
<1>r. Order'
  <2> SUFFICES ASSUME NEW z \in Slots, turn'[z].pc # "off", NEW j, j = turn'[z].key,
                      NEW r \in waiting[j] \cup bucket'[j] \cup parked'[j],
                      r \notin turn'[z].fed \cup done, NEW f \in turn'[z].fed
               PROVE  f < r
    BY DEF Order, Queued
  <2>1. CASE z = s
    BY <1>1, <2>1
  <2>2. CASE z # s
    <3>1. turn'[z] = turn[z] /\ j = turn[z].key /\ j \in Keys /\ j # k /\ turn[z].pc # "off"
      BY <1>1, <2>2, RunningHasKey
    <3>2. r \in Queued(j)
      BY <3>1 DEF Queued
    <3> QED BY <3>1, <3>2 DEF Cares, Order
  <2> QED BY <2>1, <2>2
<1> QED BY <1>q, <1>f, <1>p, <1>c, <1>a, <1>o, <1>l, <1>r DEF Cares

\* The follow-ups, and what is parked, are re-enqueued for a turn of their own.
LEMMA ModelKeepsDraftCares ==
    ASSUME Base, OneTurn, Cares, Allow \subseteq Ordinary, NEW s \in Slots, ModelKeepsDraft(s)
    PROVE  Cares'
<1>1. /\ UNCHANGED <<now, cursor, stored, disk, routed, judging, boot, waiting, active, retry, told>>
      /\ turn[s].pc = "model" /\ turn[s].iter > 0
      /\ turn' = [turn EXCEPT ![s].pc = "send", ![s].then = "keep"]
  BY DEF ModelKeepsDraft, ingestVars, oweVars
<1>k. PICK k \in Keys : k = turn[s].key
  BY <1>1, RunningAlone
<1>2. PICK new \in SUBSET Showable(s) :
          /\ DrainPending(k)
          /\ acks' = acks \ SeenParked(WithSeen(s, new))
          /\ bucket' = [bucket EXCEPT ![k] = @ \cup WithSeen(s, new).msgs
                                          \cup (parked[k] \ SeenParked(WithSeen(s, new)))]
          /\ done' = done \cup SeenParked(turn[s])
  BY <1>k DEF ModelKeepsDraft
<1>3. /\ SeenParked(WithSeen(s, new)) = {} /\ SeenParked(turn[s]) = {}
      /\ WithSeen(s, new).msgs = turn[s].msgs
  BY <1>1, NothingSeen, SeenFields
<1>4. /\ bucket \in [Keys -> SUBSET Rows] /\ parked \in [Keys -> SUBSET Rows]
      /\ turn[s] \in Turns /\ turn \in [Slots -> Turns]
  BY DEF Base, TypeOK
<1>5. /\ bucket'[k] = bucket[k] \cup turn[s].msgs \cup parked[k] /\ parked'[k] = {}
      /\ \A j \in Keys : j # k => bucket'[j] = bucket[j] /\ parked'[j] = parked[j]
      /\ UNCHANGED <<acks, done>> /\ shown' \subseteq shown
  BY <1>2, <1>3, <1>4 DEF DrainPending
<1>6. UNCHANGED shown
  BY <1>5 DEF Cares, Quiet
<1> DEFINE t == [turn[s] EXCEPT !.pc = "send", !.then = "keep"]
<1>7. /\ t.pc = "send" /\ t.then = "keep" /\ t.key = k /\ t.fed = turn[s].fed
      /\ t.seen = turn[s].seen /\ t.msgs = turn[s].msgs /\ t.prev = turn[s].prev
      /\ t.iter = turn[s].iter
  BY <1>k, <1>4 DEF Turns
<1>8. turn' = [turn EXCEPT ![s] = t]
  BY <1>1
<1> HIDE DEF t
<1>9. turn'[s] = t /\ \A z \in Slots : z # s => turn'[z] = turn[z]
  BY <1>4, <1>8
<1>10. FoldsOf(s) /\ turn[s].seen = {} /\ turn[s].msgs \subseteq turn[s].fed
  BY <1>1 DEF Cares, Folds, FoldsOf, Quiet
<1>11. FoldsOf(s)'
  <2>1. turn[s].msgs \subseteq bucket'[turn'[s].key]
    BY <1>5, <1>7, <1>9
  <2> QED BY <1>1, <1>5, <1>7, <1>9, <1>10, <2>1 DEF FoldsOf
<1>12. \A r \in (bucket'[k] \cup parked'[k]) \ (turn'[s].fed \cup done) :
          \A f \in turn'[s].fed : f < r
  <2> SUFFICES ASSUME NEW r \in bucket'[k] \cup parked'[k], r \notin turn[s].fed \cup done,
                      NEW f \in turn[s].fed
               PROVE  f < r
    BY <1>7, <1>9
  <2>1. r \in Queued(k)
    BY <1>5, <1>10 DEF Queued
  <2> QED BY <1>k, <1>1, <2>1 DEF Cares, Order
<1> QED BY <1>k, <1>1, <1>5, <1>6, <1>7, <1>9, <1>10, <1>11, <1>12, MoveCares

\* The follow-ups are folded into the turn: they came after all it had.
LEMMA ModelFoldsCares ==
    ASSUME Base, OneTurn, Cares, Allow \subseteq Ordinary, NEW s \in Slots, ModelFolds(s)
    PROVE  Cares'
<1>1. /\ UNCHANGED <<now, cursor, stored, disk, routed, judging, boot, waiting, bucket, active, retry,
                     told>>
      /\ turn[s].pc = "model"
  BY DEF ModelFolds, ingestVars, oweVars
<1>k. PICK k \in Keys : k = turn[s].key
  BY <1>1, RunningAlone
<1>2. PICK new \in SUBSET Showable(s) :
          /\ DrainPending(k)
          /\ acks' = acks \ SeenParked(WithSeen(s, new))
          /\ done' = done \cup SeenParked(WithSeen(s, new))
          /\ turn' = [turn EXCEPT ![s] =
                         [WithSeen(s, new) EXCEPT
                             !.pc = "enrich", !.iter = @ + 1,
                             !.msgs = parked[k] \ SeenParked(WithSeen(s, new)),
                             !.prev = @ \cup WithSeen(s, new).msgs,
                             !.fed = @ \cup (parked[k] \ SeenParked(WithSeen(s, new)))]]
  BY <1>k DEF ModelFolds
<1>3. PICK u \in Turns : /\ u = WithSeen(s, new) /\ u.seen = {} /\ u.key = k
                         /\ u.msgs = turn[s].msgs /\ u.fed = turn[s].fed
                         /\ u.prev = turn[s].prev /\ u.iter = turn[s].iter
  BY <1>k, <1>1, SeenFields, NothingSeen
<1>4. SeenParked(WithSeen(s, new)) = {}
  BY <1>1, NothingSeen
<1> DEFINE t == [u EXCEPT !.pc = "enrich", !.iter = @ + 1, !.msgs = parked[k] \ {},
                          !.prev = @ \cup u.msgs, !.fed = @ \cup (parked[k] \ {})]
<1>5. /\ t.pc = "enrich" /\ t.key = k /\ t.seen = {} /\ t.iter = turn[s].iter + 1
      /\ t.msgs = parked[k] /\ t.prev = turn[s].prev \cup turn[s].msgs
      /\ t.fed = turn[s].fed \cup parked[k]
  BY <1>3 DEF Turns
<1>6. /\ turn \in [Slots -> Turns] /\ parked \in [Keys -> SUBSET Rows]
      /\ turn' = [turn EXCEPT ![s] = t] /\ turn[s].iter \in Nat
  BY <1>2, <1>3, <1>4, TurnFields DEF Base, TypeOK
<1> HIDE DEF t
<1>7. turn'[s] = t /\ \A z \in Slots : z # s => turn'[z] = turn[z]
  BY <1>6
<1>8. /\ parked'[k] = {} /\ \A j \in Keys : j # k => parked'[j] = parked[j]
      /\ UNCHANGED <<acks, done>> /\ shown' \subseteq shown
  BY <1>2, <1>4, <1>6 DEF DrainPending
<1>9. UNCHANGED shown
  BY <1>8 DEF Cares, Quiet
<1>10. FoldsOf(s) /\ turn[s].fed = turn[s].prev \cup turn[s].msgs /\ bucket[k] = {}
  BY <1>k, <1>1 DEF Cares, Folds, FoldsOf
<1>11. \A r \in parked[k] \ (turn[s].fed \cup done) : \A p \in turn[s].fed : p < r
  <2>1. parked[k] \subseteq Queued(k)
    BY DEF Queued
  <2> QED BY <1>k, <1>1, <2>1 DEF Cares, Order
<1>12. FoldsOf(s)'
  <2>1. bucket'[turn'[s].key] = {}
    BY <1>1, <1>5, <1>7, <1>10
  <2>2. turn[s].iter + 1 # 0
    BY <1>6
  <2> QED BY <1>5, <1>7, <1>8, <1>10, <1>11, <2>1, <2>2 DEF FoldsOf
<1> QED BY <1>k, <1>1, <1>5, <1>7, <1>8, <1>9, <1>10, <1>12, MoveCares

\* The daemon dies: every row it had is acked, or the cron's.
LEMMA CrashCares ==
    ASSUME Base, OneTurn, Cares, Allow \subseteq Ordinary, Crash
    PROVE  Cares'
<1>1. /\ UNCHANGED <<now, disk, routed, acks, parked, retry, told, done>>
      /\ boot' = "down" /\ cursor' = disk /\ stored' = disk
      /\ judging' = {} /\ shown' = {} /\ active' = {}
      /\ waiting' = [k \in Keys |-> {}] /\ bucket' = [k \in Keys |-> {}]
      /\ \A s \in Slots : turn'[s] = NoTurn
  BY DEF Crash, oweVars, histVars
<1>q. Quiet' /\ Folds' /\ Order'
  BY <1>1, NoTurnType DEF Quiet, Folds, Order
<1>p. Places'
  BY <1>1, NoTurnType DEF Cares, Places, Queued
<1>c. Cursors'
  <2>1. disk <= now
    BY DEF Cares, Cursors, Base, TypeOK
  <2> QED BY <1>1, <2>1 DEF Cares, Cursors, Base, TypeOK
<1>d. Down' /\ Acked' /\ Alone'
  BY <1>1, NoTurnType DEF Down, Acked, Alone
<1>o. Owned'
  <2> SUFFICES ASSUME NEW r \in routed, r \notin done
               PROVE  /\ r \in acks \/ disk < r \/ Retried(r)
                      /\ r \in parked[KeyOf[r]] => r \in acks \/ disk < r
    BY <1>1 DEF Owned, Retried
  <2>1. KeyOf[r] \in Keys
    BY RowAssumption DEF Base, TypeOK
  <2>2. CASE boot = "up"
    <3>1. Queued(KeyOf[r]) \subseteq acks \cup done /\ \A s \in Slots : turn[s].fed \subseteq acks \cup done
      BY <2>1, <2>2 DEF Cares, Acked
    <3>2. Cared(r) \/ Retried(r)
      BY <2>2 DEF Cares, Owned
    <3> QED BY <3>1, <3>2 DEF Cared, Queued
  <2>3. CASE boot # "up"
    BY <2>3 DEF Cares, Owned
  <2> QED BY <2>2, <2>3
<1> QED BY <1>q, <1>p, <1>c, <1>d, <1>o DEF Cares

\* Boot drops the acks of the rows its backlog will hold.
LEMMA BootExtractCares ==
    ASSUME Base, OneTurn, Cares, Allow \subseteq Ordinary, BootExtract
    PROVE  Cares'
<1>1. /\ UNCHANGED <<now, cursor, stored, disk, routed, judging, waiting, bucket, parked,
                     shown, lock, active, ctl, turn, outbox, retry, resend, lastIn, lastOut,
                     told, done, crashes, fails>>
      /\ boot = "down" /\ boot' = "booting" /\ acks' = {r \in acks : r <= disk}
  BY DEF BootExtract, ingestVars, queueVars, turnVars, oweVars, histVars, bounds
<1>2. /\ Quiet' /\ Folds' /\ Cursors' /\ Down' /\ Acked' /\ Alone' /\ Order'
  BY <1>1 DEF Cares, Quiet, Folds, FoldsOf, Cursors, Down, Acked, Alone, Order, Queued
<1>3. Places'
  BY <1>1 DEF Cares, Places, Queued
<1>4. Owned'
  <2>1. \A r \in routed : r \in Nat /\ disk \in Nat
    BY RowsAreTimes DEF Base, TypeOK
  <2> QED BY <1>1, <2>1 DEF Cares, Owned, Retried
<1> QED BY <1>2, <1>3, <1>4 DEF Cares

\* Boot queues every row that is acked or past the cursor.
LEMMA BootCatchUpCares ==
    ASSUME Base, OneTurn, Cares, Allow \subseteq Ordinary, BootCatchUp
    PROVE  Cares'
<1>1. /\ UNCHANGED <<now, disk, judging, bucket, parked, shown, lock, active, ctl, turn,
                     outbox, retry, resend, lastIn, lastOut, told, done, crashes, fails>>
      /\ boot = "booting" /\ boot' = "up" /\ cursor' = now /\ stored' = now
  BY DEF BootCatchUp, ingestVars, queueVars, turnVars, oweVars, histVars, bounds
<1>2. PICK accepted \in SUBSET {r \in Rows : disk < r /\ r <= now} :
          /\ routed \cap {r \in Rows : disk < r /\ r <= now} \subseteq accepted
          /\ routed' = routed \cup accepted
          /\ acks' = acks \cup accepted
          /\ waiting' = [k \in Keys |-> {r \in acks \cup accepted : KeyOf[r] = k}]
  BY DEF BootCatchUp
<1>3. /\ routed \subseteq Rows /\ acks \subseteq routed /\ now \in Nat /\ disk \in Nat
      /\ \A r \in routed : r <= now /\ KeyOf[r] \in Keys
      /\ \A r \in accepted : r \in Rows /\ r <= now /\ KeyOf[r] \in Keys
  BY RowAssumption DEF Base, TypeOK, Cares, Places, Cursors
<1>4. /\ \A k \in Keys : bucket[k] = {} /\ k \notin active
      /\ \A s \in Slots : turn[s].fed = {}
  BY <1>1 DEF Cares, Down
<1>5. \A r \in routed : disk < r => r \in accepted
  BY <1>2, <1>3
<1>6. \A k \in Keys : \A r \in parked[k] \ done : r \in waiting'[k]
  <2> SUFFICES ASSUME NEW k \in Keys, NEW r \in parked[k], r \notin done PROVE r \in waiting'[k]
    OBVIOUS
  <2>1. r \in routed /\ KeyOf[r] = k
    BY DEF Cares, Places, Queued
  <2>2. r \in acks \/ disk < r
    BY <1>1, <2>1 DEF Cares, Owned
  <2> QED BY <1>2, <1>5, <2>1, <2>2
<1>q. Quiet' /\ Folds' /\ Order'
  BY <1>1, <1>4 DEF Cares, Quiet, Folds, FoldsOf, Order
<1>p. Places'
  <2>1. \A k \in Keys : \A r \in Queued(k)' : r \in routed' /\ KeyOf[r] = k
    BY <1>1, <1>2, <1>3, <1>4 DEF Cares, Places, Queued
  <2> QED BY <1>1, <1>2, <1>3, <1>4, <2>1 DEF Places
<1>c. Cursors'
  <2>1. disk <= now
    BY <1>3 DEF Base, TypeOK, Cares, Cursors
  <2> QED BY <1>1, <1>2, <1>3, <2>1 DEF Cursors
<1>d. Down'
  BY <1>1 DEF Down
<1>a. Acked'
  <2>1. \A k \in Keys : waiting'[k] \subseteq acks'
    BY <1>2
  <2> QED BY <1>1, <1>4, <1>6, <2>1 DEF Acked, Queued
<1>o. Owned'
  <2> SUFFICES ASSUME NEW r \in routed', r \notin done PROVE Cared(r)' \/ Retried(r)'
    BY <1>1 DEF Owned
  <2>1. CASE r \in acks \cup accepted
    BY <1>2, <1>3, <2>1 DEF Cared, Queued
  <2>2. CASE r \notin acks \cup accepted
    BY <1>1, <1>2, <1>5, <2>2 DEF Cares, Owned, Retried
  <2> QED BY <2>1, <2>2
<1>l. Alone'
  BY <1>1, <1>4, <1>6 DEF Alone
<1> QED BY <1>q, <1>p, <1>c, <1>d, <1>a, <1>o, <1>l DEF Cares

\* The invariant holds at first,
LEMMA InitCares == Init => Cares
<1> SUFFICES ASSUME Init PROVE Cares
  OBVIOUS
<1>1. Quiet /\ Folds /\ Down /\ Acked /\ Owned /\ Alone /\ Order
  BY NoTurnType DEF Init, Quiet, Folds, Down, Acked, Owned, Alone, Order, Queued
<1>2. Places /\ Cursors
  BY NoTurnType DEF Init, Places, Cursors, Queued
<1> QED BY <1>1, <1>2 DEF Cares

\* and after every step of the events the code was written for.
LEMMA NextCares ==
    ASSUME Base, OneTurn, Cares, Allow \subseteq Ordinary, [Next]_vars
    PROVE  Cares'
<1>1. ASSUME NEW r \in Rows, Watch(r) \/ WatchThrow(r) \/ Judged(r) PROVE Cares'
  <2>1. ~WatchThrow(r)
    BY OrdinaryAllows DEF WatchThrow, Fails
  <2>2. ~Judged(r)
    BY DEF Judged, Cares, Quiet
  <2> QED BY <1>1, <2>1, <2>2, WatchAcceptCares, WatchRejectCares DEF Watch
<1>2. ASSUME NEW s \in Slots, TurnStep(s) PROVE Cares'
  BY <1>2, BeginTurnCares, BeginCatchUpCares, GatePassCares, FlushSentCares, FlushPermanentCares,
     RegateCares, StartModelCares, ModelAbortedCares, ModelSilentCares, ModelKeepsDraftCares,
     ModelFoldsCares, ModelRepliesCares, DeliveredCares DEF TurnStep
<1>3. ASSUME NEW s \in Slots, TurnFault(s) PROVE Cares'
  <2>1. ~FlushBails(s) /\ ~TurnThrows(s) /\ ~Expire(s)
    BY OrdinaryAllows DEF FlushBails, TurnThrows, Expire, Fails
  <2> QED BY <1>3, <2>1, GateDropCares, ModelFailsCares DEF TurnFault
<1>4. CASE Land \/ FlushCursor \/ Crash \/ BootExtract \/ BootCatchUp
  BY <1>4, LandCares, FlushCursorCares, CrashCares, BootExtractCares, BootCatchUpCares
<1>5. CASE UNCHANGED vars
  <2>1. UNCHANGED <<now, cursor, stored, disk, routed, judging, boot, waiting, acks,
                     bucket, parked, shown, lock, active, ctl, turn, outbox, retry, resend,
                     lastIn, lastOut, told, done, crashes, fails>>
    BY <1>5 DEF vars, ingestVars, queueVars, turnVars, oweVars, histVars, bounds
  <2>2. /\ Quiet' /\ Folds' /\ Places' /\ Cursors' /\ Down' /\ Alone' /\ Order'
    BY <2>1 DEF Cares, Quiet, Folds, FoldsOf, Places, Cursors, Down, Alone, Order, Queued
  <2>3. Acked' /\ Owned'
    BY <2>1 DEF Cares, Acked, Owned, Cared, Retried, Queued
  <2> QED BY <2>2, <2>3 DEF Cares
<1>6. CASE Next
  <2>1. CASE \E r \in Rows : Watch(r) \/ WatchThrow(r) \/ Judged(r)
    BY <1>1, <2>1
  <2>2. CASE \E s \in Slots : TurnStep(s) \/ TurnFault(s)
    BY <1>2, <1>3, <2>2
  <2> QED BY <1>4, <1>6, <2>1, <2>2 DEF Next
<1> QED BY <1>5, <1>6

\* The invariant, for the events the code was written for.
THEOREM Caring ==
    ASSUME Allow \subseteq Ordinary
    PROVE  Spec => [](Base /\ OneTurn /\ Cares)
<1>1. Init => Base /\ OneTurn /\ Cares
  BY InitBase, InitCares
<1>2. (Base /\ OneTurn /\ Cares) /\ [Next]_vars => (Base /\ OneTurn /\ Cares)'
  BY NextBase, NextCares, OrdinaryAllows
<1> QED BY <1>1, <1>2, PTL DEF Spec

\* No accepted message is lost to a crash, whenever it comes and however many,
\* also when barge-ins, gates, retryable failures of a turn's first model run
\* (turn.ts:1394) and failed deliveries came before it.
THEOREM NoneLost ==
    ASSUME Allow \subseteq Ordinary
    PROVE  Spec => []Durable
<1>1. Base /\ OneTurn /\ Cares => Durable
  <2> SUFFICES ASSUME Base, Cares, NEW r \in routed, r \notin done
               PROVE  disk < r \/ r \in acks \/ KeyOf[r] \in retry
    BY DEF Durable
  <2>1. KeyOf[r] \in Keys
    BY RowAssumption DEF Base, TypeOK
  <2>2. CASE boot = "up"
    BY <2>1, <2>2 DEF Cares, Acked, Owned, Cared, Retried
  <2>3. CASE boot # "up"
    BY <2>3 DEF Cares, Owned, Retried
  <2> QED BY <2>2, <2>3
<1> QED BY <1>1, Caring, PTL

\* The running daemon forgets no accepted message, under the same events: it is
\* in the bucket, parked, in a turn or a boot batch, or a retry cron owns it.
THEOREM NoneForgotten ==
    ASSUME Allow \subseteq Ordinary
    PROVE  Spec => []Remembered
<1>1. Base /\ OneTurn /\ Cares => Remembered
  <2> SUFFICES ASSUME Base, Cares, boot = "up", NEW r \in routed, r \notin done
               PROVE  r \in Held \/ KeyOf[r] \in retry
    BY DEF Remembered
  <2>1. KeyOf[r] \in Keys /\ (Cared(r) \/ Retried(r))
    BY RowAssumption DEF Base, TypeOK, Cares, Owned
  <2>2. CASE r \in waiting[KeyOf[r]] \cup bucket[KeyOf[r]] \cup parked[KeyOf[r]]
    BY <2>1, <2>2 DEF Held
  <2>3. CASE \E s \in Slots : r \in turn[s].fed
    BY <2>3 DEF Held
  <2> QED BY <2>1, <2>2, <2>3 DEF Cared, Retried, Queued
<1> QED BY <1>1, Caring, PTL

-----------------------------------------------------------------------------
(* Without a crash, nothing is answered twice *)

\* A row the watcher has not reached, or that the address check still judges.
Fresh(r) == cursor < r \/ r \in judging

\* The daemon runs, and has no catch-up to do.
Up == boot = "up" /\ \A k \in Keys : waiting[k] = {}

\* A row is routed once: no part of the daemon knows a fresh one.
Unrouted ==
    /\ \A r \in judging : r <= cursor
    /\ \A r \in Rows : Fresh(r) =>
          /\ r \notin told \cup done
          /\ \A k \in Keys : r \notin bucket[k] \cup parked[k]
          /\ \A s \in Slots : r \notin turn[s].fed

\* What is queued is its session's, was not disposed of, and waits in one queue;
\* what is parked was given to no run.
QueuedOnce == \A k \in Keys :
    /\ \A r \in bucket[k] \cup parked[k] : KeyOf[r] = k /\ r \notin done
    /\ \A r \in parked[k] : r \notin bucket[k] \cup told

\* A turn has rows of its session, none of them parked; those of the iteration
\* are new.  Its bucket is empty, but for a turn that keeps its draft: what it
\* had of the follow-ups there is what it will not count as answered.
FedOnce(s) ==
    /\ \A r \in turn[s].fed : KeyOf[r] = turn[s].key /\ r \notin parked[turn[s].key]
    /\ turn[s].prev \subseteq turn[s].fed
    /\ \A r \in turn[s].msgs : r \in turn[s].fed /\ r \notin done
    /\ turn[s].iter > 0 => turn[s].msgs \cap turn[s].prev = {}
    /\ ~(turn[s].pc = "send" /\ turn[s].then = "keep") => bucket[turn[s].key] = {}
    /\ turn[s].pc = "send" /\ turn[s].then = "keep" =>
          /\ turn[s].iter > 0
          /\ \A r \in bucket[turn[s].key] : r \in told \cup turn[s].fed => r \in turn[s].msgs

TurnsOnce == \A s \in Slots : turn[s].pc # "off" => FedOnce(s)

Once == Up /\ Unrouted /\ QueuedOnce /\ TurnsOnce

\* Of a session whose turn runs.
LEMMA RunningOnce ==
    ASSUME Base, OneTurn, Once, NEW s \in Slots, turn[s].pc # "off"
    PROVE  /\ turn[s].key \in Keys
           /\ \A z \in Slots : z # s => turn[z].key # turn[s].key
           /\ FedOnce(s)
<1>1. turn[s].key \in Keys
  BY RunningHasKey
<1>2. \A z \in Slots : z # s => turn[z].key # turn[s].key
  BY <1>1 DEF OneTurn
<1>3. FedOnce(s)
  BY DEF Once, TurnsOnce
<1> QED BY <1>1, <1>2, <1>3

\* The turn of another session, when a step disposes of rows of session k and
\* gives a run rows of k.
LEMMA OtherOnce ==
    ASSUME Base, Once, NEW k \in Keys, NEW z \in Slots, turn[z].pc # "off", turn[z].key # k,
           turn'[z] = turn[z],
           \A j \in Keys : j # k => bucket'[j] = bucket[j] /\ parked'[j] = parked[j],
           \A r \in done' : r \in done \/ KeyOf[r] = k,
           \A r \in told' : r \in told \/ KeyOf[r] = k
    PROVE  FedOnce(z)'
<1>1. turn[z].key \in Keys
  BY RunningHasKey
<1>2. bucket'[turn[z].key] = bucket[turn[z].key] /\ parked'[turn[z].key] = parked[turn[z].key]
  BY <1>1
<1>3. FedOnce(z) /\ \A r \in bucket[turn[z].key] : KeyOf[r] = turn[z].key
  BY <1>1 DEF Once, TurnsOnce, QueuedOnce
<1> QED BY <1>2, <1>3 DEF FedOnce

\* A turn ends: what it disposes of is its session's, was the turn's or dropped
\* from the pending file, and is in no queue.
LEMMA EndOnce ==
    ASSUME Base, OneTurn, Once, NEW s \in Slots, turn[s].pc # "off",
           NEW cover, NEW again \in SUBSET turn[s].msgs, NEW saw, Finish(s, cover, again, saw),
           UNCHANGED <<ingestVars, told>>,
           \A r \in done' \ done :
              /\ r \in turn[s].fed \cup {x \in told : KeyOf[x] = turn[s].key}
                       \cup (parked[turn[s].key] \cap saw)
              /\ r \notin again \cup bucket[turn[s].key]
    PROVE  Once'
<1>k. PICK k \in Keys : k = turn[s].key
  BY RunningHasKey
<1>1. /\ \A z \in Slots : z # s => turn[z].key # k
      /\ \A r \in turn[s].fed : KeyOf[r] = k /\ r \notin parked[k]
      /\ \A r \in turn[s].msgs : r \in turn[s].fed /\ r \notin done
  BY <1>k, RunningOnce DEF FedOnce
<1>0. /\ bucket \in [Keys -> SUBSET Rows] /\ parked \in [Keys -> SUBSET Rows]
      /\ turn \in [Slots -> Turns]
  BY DEF Base, TypeOK
<1>f. /\ bucket' = [bucket EXCEPT ![k] = @ \cup again \cup (parked[k] \ saw)]
      /\ parked' = [parked EXCEPT ![k] = {}] /\ turn' = [turn EXCEPT ![s] = NoTurn]
  BY <1>k DEF Finish, DrainPending
<1>2. /\ UNCHANGED <<cursor, judging, boot, waiting, told>>
      /\ bucket'[k] = bucket[k] \cup again \cup (parked[k] \ saw) /\ parked'[k] = {}
      /\ \A j \in Keys : j # k => bucket'[j] = bucket[j] /\ parked'[j] = parked[j]
      /\ turn'[s] = NoTurn /\ \A z \in Slots : z # s => turn'[z] = turn[z]
  BY <1>0, <1>f DEF ingestVars
<1>3. /\ \A r \in bucket[k] \cup parked[k] : KeyOf[r] = k /\ r \notin done
      /\ \A r \in parked[k] : r \notin bucket[k] \cup told
  BY DEF Once, QueuedOnce
<1>4. \A r \in done' : r \in done \/ KeyOf[r] = k
  BY <1>k, <1>1, <1>3
<1>5. Up'
  BY <1>2 DEF Once, Up
<1>6. Unrouted'
  <2>1. \A r \in judging' : r <= cursor'
    BY <1>2 DEF Once, Unrouted
  <2> SUFFICES ASSUME NEW r \in Rows, Fresh(r)'
               PROVE  /\ r \notin told' \cup done'
                      /\ \A j \in Keys : r \notin bucket'[j] \cup parked'[j]
                      /\ \A z \in Slots : r \notin turn'[z].fed
    BY <2>1 DEF Unrouted
  <2>2. /\ r \notin told \cup done
        /\ \A j \in Keys : r \notin bucket[j] \cup parked[j]
        /\ \A z \in Slots : r \notin turn[z].fed
    BY <1>2 DEF Once, Unrouted, Fresh
  <2>3. r \notin told' \cup done'
    BY <1>k, <1>2, <2>2
  <2>4. \A j \in Keys : r \notin bucket'[j] \cup parked'[j]
    BY <1>1, <1>2, <2>2
  <2>5. \A z \in Slots : r \notin turn'[z].fed
    BY <1>2, <2>2, NoTurnType
  <2> QED BY <2>3, <2>4, <2>5
<1>7. QueuedOnce'
  <2> SUFFICES ASSUME NEW j \in Keys
               PROVE  /\ \A r \in bucket'[j] \cup parked'[j] : KeyOf[r] = j /\ r \notin done'
                      /\ \A r \in parked'[j] : r \notin bucket'[j] \cup told'
    BY DEF QueuedOnce
  <2>1. CASE j = k
    <3>1. \A r \in bucket'[k] : KeyOf[r] = k /\ r \notin done
      BY <1>1, <1>2, <1>3
    <3>2. \A r \in bucket'[k] : r \notin done' \ done
      BY <1>k, <1>1, <1>2, <1>3
    <3> QED BY <1>2, <2>1, <3>1, <3>2
  <2>2. CASE j # k
    <3>1. /\ \A r \in bucket[j] \cup parked[j] : KeyOf[r] = j /\ r \notin done
          /\ \A r \in parked[j] : r \notin bucket[j] \cup told
      BY DEF Once, QueuedOnce
    <3> QED BY <1>2, <1>4, <2>2, <3>1
  <2> QED BY <2>1, <2>2
<1>8. TurnsOnce'
  <2> SUFFICES ASSUME NEW z \in Slots, turn'[z].pc # "off" PROVE FedOnce(z)'
    BY DEF TurnsOnce
  <2>1. z # s /\ turn'[z] = turn[z] /\ turn[z].pc # "off" /\ turn[z].key # k
    BY <1>1, <1>2, NoTurnType
  <2> QED BY <1>2, <1>4, <2>1, OtherOnce
<1> QED BY <1>5, <1>6, <1>7, <1>8 DEF Once

\* A turn goes on: it may move rows between the queues and itself, dispose of
\* parked ones, and give its rows to a run.
LEMMA StayOnce ==
    ASSUME Base, OneTurn, Once, NEW s \in Slots, NEW k \in Keys, k = turn[s].key,
           turn[s].pc # "off", UNCHANGED ingestVars,
           \A z \in Slots : z # s => turn'[z] = turn[z],
           \A j \in Keys : j # k => bucket'[j] = bucket[j] /\ parked'[j] = parked[j],
           bucket'[k] \cup parked'[k] \cup turn'[s].fed
              \subseteq bucket[k] \cup parked[k] \cup turn[s].fed,
           \A r \in told' : r \in told \/ r \in turn[s].fed,
           \A r \in done' : r \in done \/ r \in parked[k],
           \A r \in bucket'[k] \cup parked'[k] : r \notin done',
           \A r \in parked'[k] : r \notin bucket'[k] \cup told',
           FedOnce(s)'
    PROVE  Once'
<1>1. /\ \A z \in Slots : z # s => turn[z].key # k
      /\ \A r \in turn[s].fed : KeyOf[r] = k
  BY RunningOnce DEF FedOnce
<1>2. UNCHANGED <<cursor, judging, boot, waiting>>
  BY DEF ingestVars
<1>3. \A r \in bucket[k] \cup parked[k] : KeyOf[r] = k
  BY DEF Once, QueuedOnce
<1>4. /\ \A r \in done' : r \in done \/ KeyOf[r] = k
      /\ \A r \in told' : r \in told \/ KeyOf[r] = k
  BY <1>1, <1>3
<1>5. Up'
  BY <1>2 DEF Once, Up
<1>6. Unrouted'
  <2>1. \A r \in judging' : r <= cursor'
    BY <1>2 DEF Once, Unrouted
  <2> SUFFICES ASSUME NEW r \in Rows, Fresh(r)'
               PROVE  /\ r \notin told' \cup done'
                      /\ \A j \in Keys : r \notin bucket'[j] \cup parked'[j]
                      /\ \A z \in Slots : r \notin turn'[z].fed
    BY <2>1 DEF Unrouted
  <2>2. /\ r \notin told \cup done
        /\ \A j \in Keys : r \notin bucket[j] \cup parked[j]
        /\ \A z \in Slots : r \notin turn[z].fed
    BY <1>2 DEF Once, Unrouted, Fresh
  <2> QED BY <2>2
<1>7. QueuedOnce'
  <2> SUFFICES ASSUME NEW j \in Keys
               PROVE  /\ \A r \in bucket'[j] \cup parked'[j] : KeyOf[r] = j /\ r \notin done'
                      /\ \A r \in parked'[j] : r \notin bucket'[j] \cup told'
    BY DEF QueuedOnce
  <2>1. CASE j = k
    BY <1>1, <1>3, <2>1
  <2>2. CASE j # k
    <3>1. /\ \A r \in bucket[j] \cup parked[j] : KeyOf[r] = j /\ r \notin done
          /\ \A r \in parked[j] : r \notin bucket[j] \cup told
      BY DEF Once, QueuedOnce
    <3> QED BY <1>4, <2>2, <3>1
  <2> QED BY <2>1, <2>2
<1>8. TurnsOnce'
  <2> SUFFICES ASSUME NEW z \in Slots, z # s, turn'[z].pc # "off" PROVE FedOnce(z)'
    BY DEF TurnsOnce
  <2>1. turn'[z] = turn[z] /\ turn[z].pc # "off" /\ turn[z].key # k
    BY <1>1
  <2> QED BY <1>4, <2>1, OtherOnce
<1> QED BY <1>5, <1>6, <1>7, <1>8 DEF Once

\* A row is routed: until then no part of the daemon knew it.
LEMMA RouteOnce ==
    ASSUME Base, OneTurn, Once, NEW r \in Rows, Fresh(r), Route(r), ~Fresh(r)',
           \A q \in Rows : Fresh(q)' => Fresh(q), \A q \in judging' : q <= cursor',
           UNCHANGED <<boot, active, told, done>>
    PROVE  Once'
<1>k. PICK k \in Keys : k = KeyOf[r]
  BY RowAssumption
<1>1. /\ SameTurns
      /\ \/ /\ waiting[k] # {} /\ waiting' = [waiting EXCEPT ![k] = @ \cup {r}]
            /\ UNCHANGED <<bucket, parked>>
         \/ /\ waiting[k] = {} /\ k \in active
            /\ UNCHANGED parked \/ parked' = [parked EXCEPT ![k] = @ \cup {r}]
            /\ UNCHANGED <<waiting, bucket>>
         \/ /\ waiting[k] = {} /\ k \notin active /\ bucket' = [bucket EXCEPT ![k] = @ \cup {r}]
            /\ UNCHANGED <<waiting, parked>>
  BY <1>k, RouteEffect DEF Base
<1>2. bucket \in [Keys -> SUBSET Rows] /\ parked \in [Keys -> SUBSET Rows]
  BY DEF Base, TypeOK
<1>3. waiting[k] = {}
  BY DEF Once, Up
<1>4. /\ r \notin told \cup done
      /\ \A j \in Keys : r \notin bucket[j] \cup parked[j]
      /\ \A z \in Slots : r \notin turn[z].fed
  BY DEF Once, Unrouted
<1>5. /\ \A j \in Keys : j # k => bucket'[j] = bucket[j] /\ parked'[j] = parked[j]
      /\ \/ bucket'[k] = bucket[k] /\ parked'[k] \subseteq parked[k] \cup {r}
         \/ bucket'[k] = bucket[k] \cup {r} /\ parked'[k] = parked[k] /\ k \notin active
      /\ UNCHANGED waiting
  BY <1>1, <1>2, <1>3
<1>6. Up'
  BY <1>5 DEF Once, Up
<1>7. Unrouted'
  <2> SUFFICES ASSUME NEW q \in Rows, Fresh(q)'
               PROVE  /\ q \notin told' \cup done'
                      /\ \A j \in Keys : q \notin bucket'[j] \cup parked'[j]
                      /\ \A z \in Slots : q \notin turn'[z].fed
    BY DEF Unrouted
  <2>1. q # r /\ Fresh(q)
    OBVIOUS
  <2>2. /\ q \notin told \cup done
        /\ \A j \in Keys : q \notin bucket[j] \cup parked[j]
        /\ \A z \in Slots : q \notin turn[z].fed
    BY <2>1 DEF Once, Unrouted
  <2> QED BY <1>1, <1>5, <2>1, <2>2 DEF SameTurns
<1>8. QueuedOnce'
  <2> SUFFICES ASSUME NEW j \in Keys
               PROVE  /\ \A q \in bucket'[j] \cup parked'[j] : KeyOf[q] = j /\ q \notin done
                      /\ \A q \in parked'[j] : q \notin bucket'[j] \cup told
    BY DEF QueuedOnce
  <2>1. /\ \A q \in bucket[j] \cup parked[j] : KeyOf[q] = j /\ q \notin done
        /\ \A q \in parked[j] : q \notin bucket[j] \cup told
    BY DEF Once, QueuedOnce
  <2> QED BY <1>k, <1>4, <1>5, <2>1
<1>9. TurnsOnce'
  <2> SUFFICES ASSUME NEW z \in Slots, turn'[z].pc # "off" PROVE FedOnce(z)'
    BY DEF TurnsOnce
  <2>1. turn[z].pc # "off"
    BY <1>1 DEF SameTurns
  <2>2. FedOnce(z) /\ turn[z].key \in Keys /\ turn[z].key \in active
    BY <2>1, RunningOnce DEF OneTurn
  <2>3. bucket'[turn[z].key] = bucket[turn[z].key]
    BY <1>5, <2>2
  <2>4. \A q \in turn[z].fed : q \notin parked'[turn[z].key]
    BY <1>4, <1>5, <2>2 DEF FedOnce
  <2> QED BY <1>1, <2>2, <2>3, <2>4 DEF FedOnce, SameTurns
<1> QED BY <1>6, <1>7, <1>8, <1>9 DEF Once

\* A step that leaves the queues, the turns and what the runs were given alone.
LEMMA StillOnce ==
    ASSUME Once, UNCHANGED <<boot, waiting, bucket, parked, turn, told, done>>,
           \A q \in Rows : Fresh(q)' => Fresh(q), \A q \in judging' : q <= cursor'
    PROVE  Once'
<1>1. Up' /\ QueuedOnce'
  BY DEF Once, Up, QueuedOnce
<1>2. Unrouted'
  BY DEF Once, Unrouted
<1>3. TurnsOnce'
  BY DEF Once, TurnsOnce, FedOnce
<1> QED BY <1>1, <1>2, <1>3 DEF Once

\* The rows the watcher passes, and those it leaves to the address check.
LEMMA WatchOnce ==
    ASSUME Base, OneTurn, Once, NEW r \in Rows, Watch(r) \/ WatchThrow(r) \/ Judged(r)
    PROVE  Once'
<1>0. /\ cursor \in Nat /\ \A q \in Rows : q \in Nat
      /\ judging \subseteq Rows /\ \A q \in judging : q <= cursor
  BY RowsAreTimes DEF Base, TypeOK, Once, Unrouted
<1>1. CASE WatchAccept(r)
  <2>1. /\ r = cursor + 1 /\ cursor' = r /\ Route(r) /\ UNCHANGED <<judging, boot, active, told, done>>
    BY <1>1 DEF WatchAccept, Drained, histVars
  <2>2. Fresh(r) /\ ~Fresh(r)'
    BY <1>0, <2>1 DEF Fresh
  <2>3. (\A q \in Rows : Fresh(q)' => Fresh(q)) /\ \A q \in judging' : q <= cursor'
    BY <1>0, <2>1 DEF Fresh
  <2> QED BY <2>1, <2>2, <2>3, RouteOnce
<1>2. CASE WatchReject(r)
  <2>1. /\ r = cursor + 1 /\ cursor' = r /\ judging' \subseteq judging \cup {r}
        /\ UNCHANGED <<boot, waiting, bucket, parked, turn, told, done>>
    BY <1>2 DEF WatchReject, Drained, queueVars, turnVars, histVars
  <2>2. (\A q \in Rows : Fresh(q)' => Fresh(q)) /\ \A q \in judging' : q <= cursor'
    BY <1>0, <2>1 DEF Fresh
  <2> QED BY <2>1, <2>2, StillOnce
<1>3. CASE WatchThrow(r)
  <2>1. /\ r = cursor + 1 /\ cursor' = r /\ judging' = judging
        /\ UNCHANGED <<boot, waiting, bucket, parked, turn, told, done>>
    BY <1>3 DEF WatchThrow, Drained, queueVars, turnVars, histVars
  <2>2. (\A q \in Rows : Fresh(q)' => Fresh(q)) /\ \A q \in judging' : q <= cursor'
    BY <1>0, <2>1 DEF Fresh
  <2> QED BY <2>1, <2>2, StillOnce
<1>4. CASE Judged(r)
  <2>1. /\ r \in judging /\ judging' = judging \ {r} /\ UNCHANGED <<cursor, boot, active, told, done>>
        /\ Route(r) \/ UNCHANGED <<routed, acks, waiting, bucket, parked, shown, turn, bounds>>
    BY <1>4 DEF Judged, histVars
  <2>2. (\A q \in Rows : Fresh(q)' => Fresh(q)) /\ \A q \in judging' : q <= cursor'
    BY <1>0, <2>1 DEF Fresh
  <2>3. Fresh(r) /\ ~Fresh(r)'
    BY <1>0, <2>1 DEF Fresh
  <2> QED BY <2>1, <2>2, <2>3, RouteOnce, StillOnce
<1> QED BY <1>1, <1>2, <1>3, <1>4 DEF Watch

\* A turn takes the bucket; there is no catch-up to take.
LEMMA BeginOnce ==
    ASSUME Base, OneTurn, Once, NEW s \in Slots, NEW k \in Keys, BeginTurn(s, k) \/ BeginCatchUp(s, k)
    PROVE  Once'
<1>0. ~BeginCatchUp(s, k)
  BY DEF BeginCatchUp, Begin, Once, Up
<1>1. /\ UNCHANGED <<cursor, judging, boot, waiting, parked, told, done>>
      /\ bucket' = [bucket EXCEPT ![k] = {}] /\ Begin(s, k, bucket[k]) /\ bucket[k] \in SUBSET Rows
      /\ turn[s].pc = "off" /\ lock[k] = None
  BY <1>0 DEF BeginTurn, Begin, oweVars, histVars, bounds, Base, TypeOK
<1>2. turn \in [Slots -> Turns] /\ turn' = [turn EXCEPT ![s] =
          [NoTurn EXCEPT !.pc = "gate", !.key = k, !.msgs = bucket[k], !.fed = bucket[k],
                         !.prev = bucket[k]]]
  BY <1>1 DEF Begin, Base, TypeOK
<1>3. /\ turn'[s].pc = "gate" /\ turn'[s].key = k /\ turn'[s].msgs = bucket[k]
      /\ turn'[s].fed = bucket[k] /\ turn'[s].prev = bucket[k] /\ turn'[s].iter = 0
      /\ \A z \in Slots : z # s => turn'[z] = turn[z]
  BY <1>2 DEF NoTurn
<1>4. bucket'[k] = {} /\ \A j \in Keys : j # k => bucket'[j] = bucket[j]
  BY <1>1 DEF Base, TypeOK
<1>5. \A z \in Slots : turn[z].key # k
  BY <1>1 DEF OneTurn
<1>6. /\ \A r \in bucket[k] : KeyOf[r] = k /\ r \notin done /\ r \notin parked[k]
  BY DEF Once, QueuedOnce
<1>7. Up' /\ Unrouted'
  <2>1. \A j \in Keys : bucket'[j] \subseteq bucket[j]
    BY <1>4
  <2>2. \A z \in Slots : turn'[z].fed = turn[z].fed \/ turn'[z].fed = bucket[k]
    BY <1>3
  <2> QED BY <1>1, <2>1, <2>2 DEF Once, Up, Unrouted, Fresh
<1>8. QueuedOnce'
  BY <1>1, <1>4 DEF Once, QueuedOnce
<1>9. TurnsOnce'
  <2> SUFFICES ASSUME NEW z \in Slots, turn'[z].pc # "off" PROVE FedOnce(z)'
    BY DEF TurnsOnce
  <2>1. CASE z = s
    BY <1>1, <1>3, <1>4, <1>6, <2>1 DEF FedOnce
  <2>2. CASE z # s
    BY <1>1, <1>3, <1>4, <1>5, <2>2, OtherOnce
  <2> QED BY <2>1, <2>2
<1> QED BY <1>7, <1>8, <1>9 DEF Once

\* A turn passes the gate, or the queued reply is lost, or the model starts.
LEMMA AheadOnce ==
    ASSUME Base, OneTurn, Once, NEW s \in Slots, GatePass(s) \/ FlushPermanent(s) \/ StartModel(s)
    PROVE  Once'
<1>1. /\ turn[s].pc \in {"gate", "outbox", "enrich"} /\ UNCHANGED ingestVars /\ UNCHANGED queueVars
      /\ UNCHANGED <<bucket, parked, done>> /\ told' \in {told, told \cup turn[s].msgs}
      /\ \E p \in {"outbox", "enrich", "model"} : turn' = [turn EXCEPT ![s].pc = p]
  BY DEF GatePass, FlushPermanent, StartModel, queueVars, histVars
<1>k. PICK k \in Keys : k = turn[s].key
  BY <1>1, RunningOnce
<1>2. PICK p \in {"outbox", "enrich", "model"} : turn' = [turn EXCEPT ![s].pc = p]
  BY <1>1
<1>3. turn \in [Slots -> Turns] /\ turn[s] \in Turns
  BY DEF Base, TypeOK
<1>4. /\ turn'[s].pc = p /\ turn'[s].key = k /\ turn'[s].msgs = turn[s].msgs
      /\ turn'[s].fed = turn[s].fed /\ turn'[s].prev = turn[s].prev /\ turn'[s].iter = turn[s].iter
      /\ \A z \in Slots : z # s => turn'[z] = turn[z]
  BY <1>k, <1>2, <1>3 DEF Turns
<1>5. FedOnce(s) /\ turn[s].msgs \subseteq turn[s].fed /\ bucket[k] = {}
      /\ \A r \in turn[s].fed : r \notin parked[k]
  BY <1>k, <1>1, RunningOnce DEF FedOnce
<1>6. FedOnce(s)'
  BY <1>k, <1>1, <1>4, <1>5 DEF FedOnce
<1>7. /\ \A r \in bucket[k] \cup parked[k] : r \notin done
      /\ \A r \in parked[k] : r \notin bucket[k] \cup told'
  BY <1>1, <1>5 DEF Once, QueuedOnce
<1> QED BY <1>k, <1>1, <1>4, <1>5, <1>6, <1>7, StayOnce

\* Turns that end having disposed of nothing, or of what they were given.
LEMMA DropOnce ==
    ASSUME Base, OneTurn, Once, NEW s \in Slots,
           GateDrop(s) \/ FlushSent(s) \/ FlushBails(s) \/ ModelAborted(s) \/ TurnThrows(s)
    PROVE  Once'
<1>1. turn[s].pc # "off" /\ UNCHANGED <<ingestVars, told>>
  BY DEF GateDrop, FlushSent, FlushBails, ModelAborted, TurnThrows, histVars
<1>2. /\ FedOnce(s) /\ turn[s].msgs \subseteq turn[s].fed
      /\ turn[s].pc \in {"gate", "model"} => bucket[turn[s].key] = {}
  BY <1>1, RunningOnce DEF FedOnce
<1>3. CASE GateDrop(s) \/ ModelAborted(s)
  <2>1. PICK cover : /\ Finish(s, cover, {}, {}) /\ done' \subseteq done \cup turn[s].fed
                     /\ bucket[turn[s].key] = {}
    BY <1>2, <1>3 DEF GateDrop, ModelAborted
  <2> QED BY <1>1, <2>1, EndOnce
<1>4. CASE FlushSent(s)
  <2>1. Finish(s, {}, turn[s].msgs, {}) /\ done' = done
    BY <1>4 DEF FlushSent, histVars
  <2>2. turn[s].msgs \in SUBSET turn[s].msgs
    OBVIOUS
  <2>3. \A r \in done' \ done : FALSE
    BY <2>1
  <2> HIDE DEF Finish
  <2> QED BY <1>1, <2>1, <2>2, <2>3, EndOnce
<1>5. CASE FlushBails(s) \/ TurnThrows(s)
  <2>1. Finish(s, {}, {}, {}) /\ done' = done
    BY <1>5 DEF FlushBails, TurnThrows, histVars
  <2> QED BY <1>1, <2>1, EndOnce
<1> QED BY <1>3, <1>4, <1>5

\* A turn that goes on to send its draft.
LEMMA SendOnce ==
    ASSUME Base, OneTurn, Once, NEW s \in Slots, turn[s].pc \in {"enrich", "model"},
           NEW then \in {"regate", "failed"},
           turn' = [turn EXCEPT ![s].pc = "send", ![s].then = then],
           UNCHANGED <<ingestVars, queueVars, told, done>>
    PROVE  Once'
<1>k. PICK k \in Keys : k = turn[s].key
  BY RunningOnce
<1>3. turn \in [Slots -> Turns] /\ turn[s] \in Turns
  BY DEF Base, TypeOK
<1>4. /\ turn'[s].pc = "send" /\ turn'[s].then = then /\ turn'[s].key = k
      /\ turn'[s].msgs = turn[s].msgs /\ turn'[s].fed = turn[s].fed
      /\ turn'[s].prev = turn[s].prev /\ turn'[s].iter = turn[s].iter
      /\ \A z \in Slots : z # s => turn'[z] = turn[z]
  BY <1>k, <1>3 DEF Turns
<1>1. UNCHANGED <<bucket, parked>>
  BY DEF queueVars
<1>2. FedOnce(s) /\ bucket[k] = {}
  BY <1>k, RunningOnce DEF FedOnce
<1>5. FedOnce(s)'
  BY <1>k, <1>1, <1>2, <1>4 DEF FedOnce
<1>6. /\ \A r \in bucket[k] \cup parked[k] : r \notin done
      /\ \A r \in parked[k] : r \notin bucket[k] \cup told
  BY DEF Once, QueuedOnce
<1> QED BY <1>k, <1>1, <1>4, <1>5, <1>6, StayOnce

\* The group re-gate drops the batch, or delivers the draft.
LEMMA RegateOnce ==
    ASSUME Base, OneTurn, Once, NEW s \in Slots, Regate(s)
    PROVE  Once'
<1>1. turn[s].pc = "enrich" /\ UNCHANGED <<ingestVars, told>>
  BY DEF Regate
<1>2. FedOnce(s) /\ bucket[turn[s].key] = {}
  BY <1>1, RunningOnce DEF FedOnce
<1>3. CASE turn[s].iter = 0
  <2>1. Finish(s, turn[s].fed, {}, {}) /\ done' = done \cup turn[s].fed
    BY <1>3 DEF Regate
  <2> QED BY <1>1, <1>2, <2>1, EndOnce
<1>4. CASE turn[s].iter # 0
  <2>1. turn' = [turn EXCEPT ![s].pc = "send", ![s].then = "regate"]
        /\ UNCHANGED <<queueVars, done>>
    BY <1>4 DEF Regate
  <2> QED BY <1>1, <2>1, SendOnce
<1> QED BY <1>3, <1>4

\* The run failed.
LEMMA ModelFailsOnce ==
    ASSUME Base, OneTurn, Once, NEW s \in Slots, ModelFails(s)
    PROVE  Once'
<1>1. turn[s].pc = "model" /\ UNCHANGED <<ingestVars, told, done>>
  BY DEF ModelFails, histVars
<1>3. CASE turn[s].iter = 0
  <2>1. Finish(s, {}, {}, {})
    BY <1>3 DEF ModelFails
  <2> QED BY <1>1, <2>1, EndOnce
<1>4. CASE turn[s].iter # 0
  <2>1. turn' = [turn EXCEPT ![s].pc = "send", ![s].then = "failed"]
        /\ UNCHANGED queueVars
    BY <1>4 DEF ModelFails
  <2> QED BY <1>1, <2>1, SendOnce
<1> QED BY <1>3, <1>4

\* What a successful run, or its reply, disposes of.
LEMMA AnsweredOnce ==
    ASSUME NEW s \in Slots, NEW rows, NEW again, Answered(s, rows, again)
    PROVE  \A r \in done' \ done :
              /\ r \in rows \cup {x \in told : KeyOf[x] = turn[s].key}
              /\ r \notin again
  BY DEF Answered

\* A run without text: what it saw mid-turn is answered with the rest.
LEMMA ModelSilentOnce ==
    ASSUME Base, OneTurn, Once, NEW s \in Slots, ModelSilent(s)
    PROVE  Once'
<1>1. turn[s].pc = "model" /\ UNCHANGED <<ingestVars, told>>
  BY DEF ModelSilent
<1>2. FedOnce(s) /\ bucket[turn[s].key] = {}
  BY <1>1, RunningOnce DEF FedOnce
<1>3. PICK new \in SUBSET Showable(s) :
          /\ Finish(s, turn[s].fed, {}, SeenParked(WithSeen(s, new)))
          /\ Answered(s, turn[s].fed \cup SeenParked(WithSeen(s, new)), {})
  BY DEF ModelSilent
<1>4. PICK saw \in SUBSET parked[turn[s].key] : saw = SeenParked(WithSeen(s, new))
  BY <1>1, SeenFields
<1>5. Finish(s, turn[s].fed, {}, saw) /\ Answered(s, turn[s].fed \cup saw, {})
  BY <1>3, <1>4
<1>6. \A r \in done' \ done : r \in turn[s].fed \cup saw \cup {x \in told : KeyOf[x] = turn[s].key}
  BY <1>5, AnsweredOnce
<1> QED BY <1>1, <1>2, <1>5, <1>6, EndOnce

\* The reply was sent, queued or lost, and the turn ends: what is re-enqueued is
\* not counted as answered.
LEMMA DeliveredOnce ==
    ASSUME Base, OneTurn, Once, NEW s \in Slots, Delivered(s)
    PROVE  Once'
<1>1. turn[s].pc = "send" /\ UNCHANGED <<ingestVars, told>>
  BY DEF Delivered
<1>k. PICK k \in Keys : k = turn[s].key
  BY <1>1, RunningOnce
<1>2. FedOnce(s)
  BY <1>1, RunningOnce
<1>3. CASE turn[s].then = "final"
  <2>1. /\ Finish(s, turn[s].fed, {}, SeenParked(turn[s]))
        /\ Answered(s, turn[s].fed \cup SeenParked(turn[s]), {}) /\ bucket[k] = {}
    BY <1>k, <1>1, <1>2, <1>3 DEF Delivered, FedOnce
  <2>2. PICK saw \in SUBSET parked[k] : saw = SeenParked(turn[s])
    BY <1>k DEF SeenParked
  <2>3. \A r \in done' \ done : r \in turn[s].fed \cup saw \cup {x \in told : KeyOf[x] = turn[s].key}
    BY <2>1, <2>2, AnsweredOnce
  <2>4. Finish(s, turn[s].fed, {}, saw)
    BY <2>1, <2>2
  <2> QED BY <1>k, <1>1, <2>1, <2>3, <2>4, EndOnce
<1>4. CASE turn[s].then = "regate"
  <2>1. Finish(s, turn[s].fed, {}, {}) /\ Answered(s, turn[s].fed, {}) /\ bucket[k] = {}
    BY <1>k, <1>1, <1>2, <1>4 DEF Delivered, FedOnce
  <2>2. \A r \in done' \ done : r \in turn[s].fed \cup {x \in told : KeyOf[x] = turn[s].key}
    BY <2>1, AnsweredOnce
  <2> QED BY <1>k, <1>1, <2>1, <2>2, EndOnce
<1>5. CASE turn[s].then \in {"keep", "failed"}
  <2>1. PICK cover : /\ Finish(s, cover, {}, {})
                     /\ Answered(s, turn[s].prev, turn[s].msgs \ turn[s].prev)
    BY <1>5 DEF Delivered
  <2>2. \A r \in done' \ done : /\ r \in turn[s].prev \cup {x \in told : KeyOf[x] = turn[s].key}
                                /\ r \notin turn[s].msgs \ turn[s].prev
    BY <2>1, AnsweredOnce
  <2>3. turn[s].prev \subseteq turn[s].fed
    BY <1>2 DEF FedOnce
  <2>4. \A r \in done' \ done : r \notin bucket[k]
    <3>1. CASE turn[s].then = "failed"
      BY <1>k, <1>1, <1>2, <3>1 DEF FedOnce
    <3>2. CASE turn[s].then = "keep"
      <4>1. /\ turn[s].msgs \cap turn[s].prev = {}
            /\ \A r \in bucket[k] : r \in told \cup turn[s].fed => r \in turn[s].msgs
        BY <1>k, <1>1, <1>2, <3>2, TurnFields DEF FedOnce, Base
      <4> QED BY <2>2, <2>3, <4>1
    <3> QED BY <1>5, <3>1, <3>2
  <2> QED BY <1>k, <1>1, <2>1, <2>2, <2>3, <2>4, EndOnce
<1>6. turn[s].then \in {"final", "keep", "regate", "failed"}
  BY TurnFields DEF Base
<1> QED BY <1>3, <1>4, <1>5, <1>6

\* The draft is kept: the follow-ups go back to the bucket, with what is parked.
LEMMA ModelKeepsDraftOnce ==
    ASSUME Base, OneTurn, Once, NEW s \in Slots, ModelKeepsDraft(s)
    PROVE  Once'
<1>1. /\ UNCHANGED ingestVars /\ UNCHANGED told /\ turn[s].pc = "model" /\ turn[s].iter > 0
      /\ turn' = [turn EXCEPT ![s].pc = "send", ![s].then = "keep"]
  BY DEF ModelKeepsDraft
<1>k. PICK k \in Keys : k = turn[s].key
  BY <1>1, RunningOnce
<1>2. PICK new \in SUBSET Showable(s) :
          /\ DrainPending(k)
          /\ bucket' = [bucket EXCEPT ![k] = @ \cup WithSeen(s, new).msgs
                                          \cup (parked[k] \ SeenParked(WithSeen(s, new)))]
          /\ done' = done \cup SeenParked(turn[s])
  BY <1>k DEF ModelKeepsDraft
<1>3. PICK saw \in SUBSET parked[k] :
          /\ saw = SeenParked(WithSeen(s, new)) /\ SeenParked(turn[s]) \subseteq saw
          /\ WithSeen(s, new).msgs = turn[s].msgs
  <2>1. SeenParked(turn[s]) = parked[k] \cap turn[s].seen
    BY <1>k DEF SeenParked
  <2>2. /\ SeenParked(WithSeen(s, new)) = parked[k] \cap (turn[s].seen \cup new)
        /\ WithSeen(s, new).msgs = turn[s].msgs
    BY <1>k, <1>1, SeenFields
  <2> QED BY <2>1, <2>2
<1>4. /\ bucket \in [Keys -> SUBSET Rows] /\ parked \in [Keys -> SUBSET Rows]
      /\ turn[s] \in Turns /\ turn \in [Slots -> Turns]
  BY DEF Base, TypeOK
<1>5. /\ FedOnce(s) /\ turn[s].msgs \subseteq turn[s].fed /\ bucket[k] = {}
      /\ \A r \in turn[s].msgs : r \notin done
      /\ \A r \in turn[s].fed : r \notin parked[k]
  BY <1>k, <1>1, RunningOnce DEF FedOnce
<1>6. /\ bucket'[k] = turn[s].msgs \cup (parked[k] \ saw) /\ parked'[k] = {}
      /\ \A j \in Keys : j # k => bucket'[j] = bucket[j] /\ parked'[j] = parked[j]
      /\ \A r \in done' : r \in done \/ r \in saw
  BY <1>2, <1>3, <1>4, <1>5 DEF DrainPending
<1>7. /\ turn'[s].pc = "send" /\ turn'[s].then = "keep" /\ turn'[s].key = k
      /\ turn'[s].fed = turn[s].fed /\ turn'[s].msgs = turn[s].msgs
      /\ turn'[s].prev = turn[s].prev /\ turn'[s].iter = turn[s].iter
      /\ \A z \in Slots : z # s => turn'[z] = turn[z]
  BY <1>k, <1>1, <1>4 DEF Turns
<1>8. \A r \in parked[k] : r \notin told /\ r \notin done
  BY DEF Once, QueuedOnce
<1>9. FedOnce(s)'
  <2>1. \A r \in bucket'[k] : r \in told' \cup turn[s].fed => r \in turn[s].msgs
    BY <1>1, <1>5, <1>6, <1>8
  <2>2. \A r \in turn[s].msgs : r \notin done'
    BY <1>5, <1>6
  <2> QED BY <1>k, <1>1, <1>5, <1>6, <1>7, <2>1, <2>2 DEF FedOnce
<1>10. \A r \in bucket'[k] : r \notin done'
  BY <1>5, <1>6, <1>8
<1>11. /\ bucket'[k] \cup parked'[k] \cup turn'[s].fed \subseteq bucket[k] \cup parked[k] \cup turn[s].fed
       /\ \A r \in told' : r \in told \/ r \in turn[s].fed
       /\ \A r \in done' : r \in done \/ r \in parked[k]
  BY <1>1, <1>5, <1>6, <1>7
<1> QED BY <1>k, <1>1, <1>6, <1>7, <1>9, <1>10, <1>11, StayOnce

\* Follow-ups are folded in: they are new to the turn.
LEMMA ModelFoldsOnce ==
    ASSUME Base, OneTurn, Once, NEW s \in Slots, ModelFolds(s)
    PROVE  Once'
<1>1. UNCHANGED <<ingestVars, bucket, told>> /\ turn[s].pc = "model"
  BY DEF ModelFolds
<1>k. PICK k \in Keys : k = turn[s].key
  BY <1>1, RunningOnce
<1>2. PICK new \in SUBSET Showable(s) :
          /\ DrainPending(k)
          /\ done' = done \cup SeenParked(WithSeen(s, new))
          /\ turn' = [turn EXCEPT ![s] =
                         [WithSeen(s, new) EXCEPT
                             !.pc = "enrich", !.iter = @ + 1,
                             !.msgs = parked[k] \ SeenParked(WithSeen(s, new)),
                             !.prev = @ \cup WithSeen(s, new).msgs,
                             !.fed = @ \cup (parked[k] \ SeenParked(WithSeen(s, new)))]]
  BY <1>k DEF ModelFolds
<1>3. PICK u \in Turns : /\ u = WithSeen(s, new) /\ u.key = k
                         /\ u.msgs = turn[s].msgs /\ u.fed = turn[s].fed /\ u.prev = turn[s].prev
                         /\ SeenParked(u) \subseteq parked[k]
  BY <1>k, <1>1, SeenFields
<1> DEFINE rest == parked[k] \ SeenParked(u)
           t == [u EXCEPT !.pc = "enrich", !.iter = @ + 1, !.msgs = rest,
                          !.prev = @ \cup u.msgs, !.fed = @ \cup rest]
<1>4. /\ t.pc = "enrich" /\ t.key = k /\ t.msgs = rest
      /\ t.prev = turn[s].prev \cup turn[s].msgs /\ t.fed = turn[s].fed \cup rest
  BY <1>3 DEF Turns
<1>5. turn \in [Slots -> Turns] /\ parked \in [Keys -> SUBSET Rows] /\ turn' = [turn EXCEPT ![s] = t]
  BY <1>2, <1>3 DEF Base, TypeOK
<1> HIDE DEF t
<1>6. turn'[s] = t /\ \A z \in Slots : z # s => turn'[z] = turn[z]
  BY <1>5
<1>7. /\ parked'[k] = {} /\ \A j \in Keys : j # k => parked'[j] = parked[j]
      /\ \A r \in done' : r \in done \/ r \in SeenParked(u)
  BY <1>2, <1>3, <1>5 DEF DrainPending
<1>8. /\ turn[s].msgs \cup turn[s].prev \subseteq turn[s].fed /\ bucket[k] = {}
      /\ \A r \in turn[s].fed : KeyOf[r] = k /\ r \notin parked[k]
  BY <1>k, <1>1, RunningOnce DEF FedOnce
<1>9. \A r \in parked[k] : KeyOf[r] = k /\ r \notin done
  BY DEF Once, QueuedOnce
<1>10. FedOnce(s)'
  <2>1. \A r \in rest : r \notin done' /\ KeyOf[r] = k /\ r \notin turn[s].fed
    BY <1>7, <1>8, <1>9
  <2>2. t.msgs \cap t.prev = {}
    BY <1>4, <1>8, <2>1
  <2> QED BY <1>1, <1>4, <1>6, <1>7, <1>8, <2>1, <2>2 DEF FedOnce
<1>11. /\ bucket'[k] \cup parked'[k] \cup turn'[s].fed \subseteq bucket[k] \cup parked[k] \cup turn[s].fed
       /\ \A r \in told' : r \in told \/ r \in turn[s].fed
       /\ \A r \in done' : r \in done \/ r \in parked[k]
       /\ \A r \in bucket'[k] \cup parked'[k] : r \notin done'
  BY <1>1, <1>3, <1>4, <1>6, <1>7, <1>8
<1> QED BY <1>k, <1>1, <1>6, <1>7, <1>10, <1>11, StayOnce

\* The reply stands: what is parked was seen, and is dropped, or it stays.
LEMMA ModelRepliesOnce ==
    ASSUME Base, OneTurn, Once, NEW s \in Slots, ModelReplies(s)
    PROVE  Once'
<1>1. UNCHANGED <<ingestVars, bucket, told>> /\ turn[s].pc = "model"
  BY DEF ModelReplies
<1>k. PICK k \in Keys : k = turn[s].key
  BY <1>1, RunningOnce
<1>2. PICK new \in SUBSET Showable(s) :
          /\ \/ DrainPending(k) /\ done' = done \cup parked[k]
             \/ UNCHANGED <<parked, done>>
          /\ turn' = [turn EXCEPT ![s] = [WithSeen(s, new) EXCEPT !.pc = "send", !.then = "final"]]
  BY <1>k DEF ModelReplies
<1>3. PICK u \in Turns : /\ u = WithSeen(s, new) /\ u.key = k
                         /\ u.msgs = turn[s].msgs /\ u.fed = turn[s].fed /\ u.prev = turn[s].prev
                         /\ u.iter = turn[s].iter
  BY <1>k, <1>1, SeenFields
<1> DEFINE t == [u EXCEPT !.pc = "send", !.then = "final"]
<1>4. /\ t.pc = "send" /\ t.then = "final" /\ t.key = k /\ t.msgs = turn[s].msgs
      /\ t.prev = turn[s].prev /\ t.fed = turn[s].fed /\ t.iter = turn[s].iter
  BY <1>3 DEF Turns
<1>5. turn \in [Slots -> Turns] /\ parked \in [Keys -> SUBSET Rows] /\ turn' = [turn EXCEPT ![s] = t]
  BY <1>2, <1>3 DEF Base, TypeOK
<1> HIDE DEF t
<1>6. turn'[s] = t /\ \A z \in Slots : z # s => turn'[z] = turn[z]
  BY <1>5
<1>7. /\ \A j \in Keys : j # k => parked'[j] = parked[j]
      /\ \/ parked'[k] = {} /\ \A r \in done' : r \in done \/ r \in parked[k]
         \/ parked'[k] = parked[k] /\ done' = done
  BY <1>2, <1>5 DEF DrainPending
<1>8. /\ turn[s].msgs \cup turn[s].prev \subseteq turn[s].fed /\ bucket[k] = {}
      /\ \A r \in turn[s].fed : KeyOf[r] = k /\ r \notin parked[k]
      /\ \A r \in turn[s].msgs : r \notin done
      /\ turn[s].iter > 0 => turn[s].msgs \cap turn[s].prev = {}
  BY <1>k, <1>1, RunningOnce DEF FedOnce
<1>9. \A r \in parked[k] : r \notin done /\ r \notin told
  BY DEF Once, QueuedOnce
<1>10. FedOnce(s)'
  <2>1. \A r \in turn[s].msgs : r \notin done'
    BY <1>7, <1>8
  <2>2. \A r \in turn[s].fed : r \notin parked'[k]
    BY <1>7, <1>8
  <2> QED BY <1>1, <1>4, <1>6, <1>8, <2>1, <2>2 DEF FedOnce
<1>11. /\ bucket'[k] \cup parked'[k] \cup turn'[s].fed \subseteq bucket[k] \cup parked[k] \cup turn[s].fed
       /\ \A r \in told' : r \in told \/ r \in turn[s].fed
       /\ \A r \in done' : r \in done \/ r \in parked[k]
       /\ \A r \in bucket'[k] \cup parked'[k] : r \notin done'
       /\ \A r \in parked'[k] : r \notin bucket'[k] \cup told'
  BY <1>1, <1>4, <1>6, <1>7, <1>8, <1>9
<1> QED BY <1>k, <1>1, <1>6, <1>7, <1>10, <1>11, StayOnce

\* Only a crash counts as one.
LEMMA CrashCounts ==
    ASSUME Base, Next
    PROVE  crashes' = crashes \/ Crash
<1>1. ASSUME NEW r \in Rows, Watch(r) \/ WatchThrow(r) \/ Judged(r) PROVE crashes' = crashes
  <2>1. Route(r) => crashes' = crashes
    BY RouteEffect DEF Base
  <2> QED BY <1>1, <2>1 DEF Watch, WatchAccept, WatchReject, WatchThrow, Judged, Fails, bounds
<1>2. ASSUME NEW s \in Slots, TurnStep(s) PROVE crashes' = crashes
  BY <1>2 DEF TurnStep, BeginTurn, BeginCatchUp, Begin, GatePass, FlushSent, FlushPermanent, Regate,
     StartModel, ModelAborted, ModelSilent, ModelKeepsDraft, ModelFolds, ModelReplies, Delivered, bounds
<1>3. ASSUME NEW s \in Slots, TurnFault(s) PROVE crashes' = crashes
  BY <1>3 DEF TurnFault, GateDrop, FlushBails, ModelFails, TurnThrows, Expire, Fails, bounds
<1>4. CASE Land \/ FlushCursor \/ BootExtract \/ BootCatchUp
  BY <1>4 DEF Land, FlushCursor, BootExtract, BootCatchUp, bounds
<1> QED BY <1>1, <1>2, <1>3, <1>4 DEF Next

\* The invariant holds at first,
LEMMA InitOnce == Init => Once
  BY NoTurnType DEF Init, Once, Up, Unrouted, Fresh, QueuedOnce, TurnsOnce, Rows

\* and until a crash, after every step but the expiry of a lease.
LEMMA NextOnce ==
    ASSUME Base, OneTurn, Once, "expire" \notin Allow, [Next]_vars
    PROVE  crashes' = 0 => Once'
<1>1. ASSUME NEW r \in Rows, Watch(r) \/ WatchThrow(r) \/ Judged(r) PROVE Once'
  BY <1>1, WatchOnce
<1>2. ASSUME NEW s \in Slots, TurnStep(s) PROVE Once'
  BY <1>2, BeginOnce, AheadOnce, DropOnce, RegateOnce, ModelSilentOnce, ModelKeepsDraftOnce,
     ModelFoldsOnce, ModelRepliesOnce, DeliveredOnce DEF TurnStep
<1>3. ASSUME NEW s \in Slots, TurnFault(s) PROVE Once'
  BY <1>3, DropOnce, ModelFailsOnce DEF TurnFault, Expire, Fails
<1>4. CASE Land \/ FlushCursor \/ UNCHANGED vars
  <2>1. UNCHANGED <<cursor, judging, boot, waiting, bucket, parked, turn, told, done>>
    BY <1>4 DEF Land, FlushCursor, vars, ingestVars, queueVars, turnVars, histVars
  <2>2. \A q \in judging : q <= cursor
    BY DEF Once, Unrouted
  <2> QED BY <2>1, <2>2, StillOnce DEF Fresh
<1>5. CASE Crash
  BY <1>5 DEF Crash, Base, TypeOK
<1>6. ~BootExtract /\ ~BootCatchUp
  BY DEF BootExtract, BootCatchUp, Once, Up
<1>7. CASE Next
  <2>1. CASE \E r \in Rows : Watch(r) \/ WatchThrow(r) \/ Judged(r)
    BY <1>1, <2>1
  <2>2. CASE \E s \in Slots : TurnStep(s) \/ TurnFault(s)
    BY <1>2, <1>3, <2>2
  <2> QED BY <1>4, <1>5, <1>6, <1>7, <2>1, <2>2 DEF Next
<1> QED BY <1>4, <1>7

\* Until a crash, no row is answered twice, nor queued after it was disposed
\* of, whatever the watcher, the stores, the model and the sends do, as long as
\* no lock's lease runs out.  (A restart reads the rows past the flushed cursor
\* again, and two turns of a session would share its pending file.)
THEOREM NoneTwice ==
    ASSUME "expire" \notin Allow
    PROVE  Spec => [](crashes = 0 => NoSecondAnswer)
<1> DEFINE Inv == Base /\ OneTurn /\ (crashes = 0 => Once)
<1>1. Init => Inv
  BY InitBase, InitOnce
<1>2. Inv /\ [Next]_vars => Inv'
  <2> SUFFICES ASSUME Inv, [Next]_vars PROVE Inv'
    OBVIOUS
  <2>1. Base' /\ OneTurn'
    BY NextBase
  <2>2. ASSUME crashes' = 0 PROVE Once'
    <3>1. crashes = 0
      BY <2>2, CrashCounts DEF Crash, vars, bounds, Base, TypeOK
    <3> QED BY <2>2, <3>1, NextOnce
  <2> QED BY <2>1, <2>2
<1>3. Inv => (crashes = 0 => NoSecondAnswer)
  BY DEF Once, Up, QueuedOnce, NoSecondAnswer, NothingDoneIsQueued
<1> QED BY <1>1, <1>2, <1>3, PTL DEF Spec
=============================================================================
