---------------------------- MODULE RecoveryProofs ----------------------------
(***************************************************************************)
(* Safety of Recovery for any number of sweeps, drains and messages.       *)
(*                                                                         *)
(* RecoveredOnce is not inductive: a pass counts a row when it marks it,   *)
(* long after it loaded it.  What makes it true is that one pass at most   *)
(* is past the look at `recovering`, so the rows it carries stay unmarked  *)
(* until it marks them itself.                                             *)
(*                                                                         *)
(* The last part is about what NeverSilent rests on: the marks that keep   *)
(* recovery away, and the line of the lock, belong to somebody at work.    *)
(***************************************************************************)
EXTENDS Recovery, TLAPS, WellFoundedInduction

Less == {ss \in Nat \X Nat : ss[1] < ss[2]}

\* The order of the numbers is well founded.
LEMMA LessWF == IsWellFoundedOn(Less, Nat)
  BY NatLessThanWellFounded DEF OpToRel, Less

\* A batch that is not empty has a last row.
LEMMA LastExists ==
    ASSUME NEW S \in SUBSET Rows, S # {}
    PROVE  Last(S) \in S /\ \A s \in S : s <= Last(S)
  <1> DEFINE back == {MaxRow - s : s \in S}
  <1>1. back \subseteq Nat
    BY BoundsAssumption DEF Rows
  <1>2. back # {}
    OBVIOUS
  <1>3. PICK x \in back : \A y \in back : ~(<<y, x>> \in Less)
    <2> HIDE DEF back
    <2> QED
      BY <1>1, <1>2, LessWF, WFMin, Zenon
  <1>4. \A y \in back : ~(y < x)
    BY <1>1, <1>3 DEF Less
  <1>5. PICK r \in S : x = MaxRow - r
    OBVIOUS
  <1>6. \A s \in S : s <= r
    <2> TAKE s \in S
    <2>1. ~(MaxRow - s < MaxRow - r)
      BY <1>4, <1>5
    <2> QED
      BY <2>1, BoundsAssumption DEF Rows
  <1> QED
    BY <1>6 DEF Last

-----------------------------------------------------------------------------

\* The steps of a pass that is past the look at `recovering`.
Loaded  == {"alert", "flush", "wait", "send", "mark"}
Working == {"heal"} \cup Loaded

\* Who has a batch has rows in it, and who sends a reply has one.
Batches ==
    /\ live.pc = "wait" => bucket # {}
    /\ live.pc \in {"flush", "model", "send"} => live.batch # {}
    /\ \A p \in Passes : pass[p].pc \in Loaded => pass[p].rows # {}
    /\ live.pc \in {"flush", "send"} => live.reply \in Replies
    /\ fire.pc # "off" => fire.reply \in Replies
    /\ \A p \in Passes : pass[p].pc \in {"flush", "send"} => pass[p].reply \in Replies
    /\ \A d \in Drains : drain[d].pc # "off" => drain[d].reply \in Replies

\* The pass that recovers the session is the only one, and `recovering` says so.
OnePass ==
    /\ \A p \in Passes : pass[p].pc \in Working => recovering
    /\ \A p, q \in Passes : pass[p].pc \in Working /\ pass[q].pc \in Working => p = q

\* What it carries was not disposed of, and what was is counted once.
Unmarked ==
    /\ \A p \in Passes : pass[p].pc \in Loaded => pass[p].rows \cap replayed = {}
    /\ \A r \in Rows : recovered[r] = IF r \in replayed THEN 1 ELSE 0

\* Who runs under the lock holds it.
LockHeld ==
    /\ live.pc \in {"flush", "model", "send"} => Holds("live")
    /\ fire.pc = "send" => Holds("fire")
    /\ \A p \in Passes : pass[p].pc = "send" => Holds(p)

IInv == TypeOK /\ Batches /\ LockHeld /\ OnePass /\ Unmarked

-----------------------------------------------------------------------------

\* The session lock: the holder is the head, and who asks goes to the end.
LEMMA Queues ==
    ASSUME NEW q \in Seq(Actors)
    PROVE  /\ \A x \in Actors : /\ Append(q, x) \in Seq(Actors)
                               /\ Append(q, x) # <<>>
                               /\ q # <<>> => Head(Append(q, x)) = Head(q)
           /\ q # <<>> => Tail(q) \in Seq(Actors)
  OBVIOUS

\* TypeOK by the kind of value.
Times == landed \in 0..MaxRow /\ lastIn \in 0..MaxRow /\ lastOut \in 0..MaxRow
RowSets == /\ bucket \subseteq Rows /\ retry \subseteq Rows /\ replayed \subseteq Rows
           /\ answered \subseteq Rows /\ outbox \in Replies \cup {None}
Flags == active \in BOOLEAN /\ recovering \in BOOLEAN /\ inFlight \in BOOLEAN
Counts == recovered \in [Rows -> Nat] /\ faults \in 0..MaxFaults /\ fires \in 0..MaxFires

TypeInv == TypeOK /\ Batches /\ LockHeld

\* What the actors carry, unfolded from the types of their records.
LEMMA Carried ==
    ASSUME TypeOK
    PROVE  /\ live.batch \in Replies /\ live.reply \in Replies \cup {None} /\ live.in \in 0..MaxRow
           /\ fire.reply \in Replies \cup {None}
           /\ \A p \in Passes : /\ pass[p] \in PassStates /\ pass[p].since \in 0..MaxRow
                               /\ pass[p].rows \in Replies /\ pass[p].reply \in Replies \cup {None}
           /\ \A d \in Drains : drain[d].reply \in Replies \cup {None}
  BY DEF TypeOK, LiveStates, FireStates, PassStates, DrainStates

\* The records that the steps of a pass write.
LEMMA PassRecords ==
    ASSUME TypeOK, NEW p \in Passes
    PROVE  /\ Idle \in PassStates
           /\ [Idle EXCEPT !.pc = "listed", !.since = lastOut] \in PassStates
           /\ \A pc \in {"heal", "mark"} : [pass[p] EXCEPT !.pc = pc] \in PassStates
           /\ [pass[p] EXCEPT !.pc = "wait", !.reply = None] \in PassStates
           /\ [pass[p] EXCEPT !.pc = "send", !.reply = pass[p].rows] \in PassStates
           /\ \A rows \in Replies :
                  /\ \A pc \in {"alert", "wait"} : [pass[p] EXCEPT !.pc = pc, !.rows = rows] \in PassStates
                  /\ outbox # None =>
                        [pass[p] EXCEPT !.pc = "flush", !.rows = rows, !.reply = outbox] \in PassStates
  <1>1. /\ pass[p] \in PassStates /\ pass[p].rows \in Replies
        /\ lastOut \in 0..MaxRow /\ outbox \in Replies \cup {None} /\ {} \in Replies
    BY Carried DEF TypeOK, Replies
  <1>2. Idle \in PassStates
    BY <1>1, BoundsAssumption DEF PassStates, Idle
  <1>3. [Idle EXCEPT !.pc = "listed", !.since = lastOut] \in PassStates
    BY <1>1, <1>2, BoundsAssumption DEF PassStates, Idle
  <1>4. \A pc \in {"heal", "mark"} : [pass[p] EXCEPT !.pc = pc] \in PassStates
    BY <1>1 DEF PassStates
  <1>5. [pass[p] EXCEPT !.pc = "wait", !.reply = None] \in PassStates
    BY <1>1 DEF PassStates
  <1>6. [pass[p] EXCEPT !.pc = "send", !.reply = pass[p].rows] \in PassStates
    BY <1>1 DEF PassStates
  <1>7. \A rows \in Replies : \A pc \in {"alert", "wait"} :
            [pass[p] EXCEPT !.pc = pc, !.rows = rows] \in PassStates
    BY <1>1 DEF PassStates
  <1>8. \A rows \in Replies : outbox # None =>
            [pass[p] EXCEPT !.pc = "flush", !.rows = rows, !.reply = outbox] \in PassStates
    BY <1>1 DEF PassStates
  <1> QED
    BY <1>2, <1>3, <1>4, <1>5, <1>6, <1>7, <1>8

\* The rows a pass loads are rows.
LEMMA LoadedRows ==
    ASSUME TypeOK, NEW p \in Passes
    PROVE  Unanswered(p) \in Replies
  BY BoundsAssumption DEF TypeOK, Unanswered, Replies, Rows

\* A step of one pass keeps the types of all.
LEMMA SweepTypes ==
    ASSUME TypeOK, NEW p \in Passes, NEW s \in PassStates, Sweep(p, s)
    PROVE  pass' \in [Passes -> PassStates]
  BY DEF TypeOK, Sweep

\* What runRecoveryTurn and the load before it write.
LEMMA BeginsTypes ==
    ASSUME TypeOK, NEW p \in Passes, NEW rows \in Replies, Begins(p, rows)
    PROVE  pass' \in [Passes -> PassStates] /\ queue' \in Seq(Actors)
  <1>1. CASE outbox # None
    BY <1>1, PassRecords, SweepTypes DEF Begins, TypeOK
  <1>2. CASE outbox = None
    <2>1. Sweep(p, [pass[p] EXCEPT !.pc = "wait", !.rows = rows]) /\ queue' = Append(queue, p)
      BY <1>2 DEF Begins
    <2>2. queue' \in Seq(Actors)
      BY <2>1, Queues DEF TypeOK, Actors
    <2>3. [pass[p] EXCEPT !.pc = "wait", !.rows = rows] \in PassStates
      BY PassRecords
    <2> QED
      BY <2>1, <2>2, <2>3, SweepTypes
  <1> QED
    BY <1>1, <1>2

\* The same for loadUnansweredInbound and what follows it.
LEMMA LoadsTypes ==
    ASSUME TypeOK, NEW p \in Passes, Loads(p), recovering \in BOOLEAN
    PROVE  /\ pass' \in [Passes -> PassStates] /\ queue' \in Seq(Actors)
           /\ recovering' \in BOOLEAN
  <1> DEFINE rows == Unanswered(p)
  <1>1. rows \in Replies
    BY LoadedRows
  <1>2. CASE rows = {} /\ SweepEnds(p) /\ UNCHANGED queue
    BY <1>2, PassRecords, SweepTypes DEF SweepEnds, TypeOK
  <1>3. CASE /\ recovering' = TRUE /\ UNCHANGED queue
             /\ Sweep(p, [pass[p] EXCEPT !.pc = "alert", !.rows = rows])
    BY <1>1, <1>3, PassRecords, SweepTypes DEF TypeOK
  <1>4. CASE recovering' = TRUE /\ Begins(p, rows)
    BY <1>1, <1>4, BeginsTypes
  <1> QED
    BY <1>2, <1>3, <1>4 DEF Loads

\* Every step keeps the types of the variables.
LEMMA TypeStep == TypeInv /\ [Next]_vars => TypeOK'
  <1> USE BoundsAssumption
  <1> SUFFICES ASSUME TypeOK, Batches, LockHeld, [Next]_vars
               PROVE  TypeOK'
    BY DEF TypeInv
  <1>1. CASE Land
    <2>1. Times'
      BY <1>1 DEF Times, TypeOK, Land, chat, state, Rows
    <2>2. RowSets'
      BY <1>1 DEF RowSets, TypeOK, Land, state, hist, Rows
    <2> QED
      BY <1>1, <2>1, <2>2 DEF TypeOK, Land, chat, state, sets, hist, bounds, Times, RowSets
  <1>2. CASE TurnQueues
    <2>1. live' \in LiveStates
      BY <1>2 DEF TypeOK, TurnQueues, LiveStates, Off, Replies
    <2>2. queue' \in Seq(Actors)
      BY <1>2, Queues DEF TypeOK, TurnQueues, Actors
    <2> QED
      BY <1>2, <2>1, <2>2 DEF TypeOK, TurnQueues, chat, state, sets, hist, bounds
  <1>3. CASE TurnStarts
    <2>1. Last(bucket) \in Rows
      BY <1>3, LastExists, Carried DEF TypeOK, Batches, Loaded, Replies, TurnStarts
    <2>2. Times'
      BY <1>3, <2>1 DEF Times, TypeOK, TurnStarts, chat, state, Rows
    <2>3. RowSets'
      BY <1>3 DEF RowSets, TypeOK, TurnStarts, hist
    <2>4. Flags'
      BY <1>3 DEF Flags, TypeOK, TurnStarts, sets
    <2>5. live' \in LiveStates
      BY <1>3 DEF TypeOK, TurnStarts, Holds, LiveStates, Off, Replies, Rows
    <2> QED
      BY <1>3, <2>1, <2>2, <2>3, <2>4, <2>5
         DEF TypeOK, TurnStarts, chat, state, sets, hist, bounds, Times, RowSets, Flags
  <1>4. CASE TurnFlushed
    <2>1. Times'
      BY <1>4, Carried DEF Times, TypeOK, TurnFlushed, chat, state, Rows
    <2>2. live.reply \in SUBSET Rows
      BY <1>4, Carried DEF Batches, Replies, TurnFlushed
    <2>3. RowSets'
      BY <1>4, Carried, <2>2 DEF RowSets, TypeOK, TurnFlushed, chat, state, hist, Replies
    <2>4. Flags'
      BY <1>4 DEF Flags, TypeOK, TurnFlushed, TurnEnds, sets
    <2>5. live' \in LiveStates
      BY <1>4 DEF TypeOK, TurnFlushed, TurnEnds, Unlock, LiveStates, Off, Replies
    <2>6. queue' \in Seq(Actors)
      BY <1>4, Queues DEF TypeOK, TurnFlushed, TurnEnds, Unlock, Actors, LockHeld, Holds
    <2> QED
      BY <1>4, <2>1, <2>2, <2>3, <2>4, <2>5, <2>6
         DEF TypeOK, TurnFlushed, TurnEnds, chat, state, sets, hist, bounds, Times, RowSets,
             Flags
  <1>5. CASE TurnDropsReply
    <2>1. Last(live.batch) \in Rows
      BY <1>5, LastExists, Carried DEF TypeOK, Batches, Loaded, Replies, TurnDropsReply
    <2>2. Times'
      BY <1>5, <2>1 DEF Times, TypeOK, TurnDropsReply, chat, state, Rows
    <2>3. RowSets'
      BY <1>5, Carried DEF RowSets, TypeOK, TurnDropsReply, chat, state, hist, Replies
    <2>4. live' \in LiveStates
      BY <1>5 DEF TypeOK, TurnDropsReply, Fault, LiveStates, Off, Replies
    <2>5. Counts'
      BY <1>5 DEF Counts, TypeOK, TurnDropsReply, Fault, hist, bounds
    <2> QED
      BY <1>5, <2>1, <2>2, <2>3, <2>4, <2>5
         DEF TypeOK, TurnDropsReply, chat, state, sets, hist, bounds, Times, RowSets, Counts
  <1>6. CASE TurnBails
    <2>1. Flags'
      BY <1>6 DEF Flags, TypeOK, TurnBails, TurnEnds, sets
    <2>2. live' \in LiveStates
      BY <1>6 DEF TypeOK, TurnBails, TurnEnds, Unlock, Fault, LiveStates, Off, Replies
    <2>3. queue' \in Seq(Actors)
      BY <1>6, Queues DEF TypeOK, TurnBails, TurnEnds, Unlock, Fault, Actors, LockHeld, Holds
    <2>4. Counts'
      BY <1>6 DEF Counts, TypeOK, TurnBails, Fault, hist, bounds
    <2> QED
      BY <1>6, <2>1, <2>2, <2>3, <2>4
         DEF TypeOK, TurnBails, TurnEnds, chat, state, sets, hist, bounds, Flags, Counts
  <1>7. CASE TurnReplies
    <2>1. live' \in LiveStates
      BY <1>7 DEF TypeOK, TurnReplies, LiveStates, Off, Replies
    <2> QED
      BY <1>7, <2>1 DEF TypeOK, TurnReplies, chat, state, sets, hist, bounds
  <1>8. CASE TurnFails
    <2>1. RowSets'
      BY <1>8, Carried DEF RowSets, TypeOK, TurnFails, chat, state, hist, Replies
    <2>2. Flags'
      BY <1>8 DEF Flags, TypeOK, TurnFails, TurnEnds, sets
    <2>3. live' \in LiveStates
      BY <1>8 DEF TypeOK, TurnFails, TurnEnds, Unlock, Fault, LiveStates, Off, Replies
    <2>4. queue' \in Seq(Actors)
      BY <1>8, Queues DEF TypeOK, TurnFails, TurnEnds, Unlock, Fault, Actors, LockHeld, Holds
    <2>5. Counts'
      BY <1>8 DEF Counts, TypeOK, TurnFails, Fault, hist, bounds
    <2> QED
      BY <1>8, <2>1, <2>2, <2>3, <2>4, <2>5
         DEF TypeOK, TurnFails, TurnEnds, chat, state, sets, hist, bounds, RowSets, Flags,
             Counts
  <1>9. CASE TurnDelivers
    <2>1. Last(live.batch) \in Rows
      BY <1>9, LastExists, Carried DEF TypeOK, Batches, Loaded, Replies, TurnDelivers
    <2>2. Times'
      BY <1>9, <2>1 DEF Times, TypeOK, TurnDelivers, chat, state, Rows
    <2>3. live.reply \in SUBSET Rows
      BY <1>9, Carried DEF Batches, Replies, TurnDelivers
    <2>4. RowSets'
      BY <1>9, Carried, <2>3 DEF RowSets, TypeOK, TurnDelivers, chat, state, hist, Replies
    <2>5. Flags'
      BY <1>9 DEF Flags, TypeOK, TurnDelivers, TurnEnds, sets
    <2>6. live' \in LiveStates
      BY <1>9 DEF TypeOK, TurnDelivers, TurnEnds, Unlock, LiveStates, Off, Replies
    <2>7. queue' \in Seq(Actors)
      BY <1>9, Queues DEF TypeOK, TurnDelivers, TurnEnds, Unlock, Actors, LockHeld, Holds
    <2> QED
      BY <1>9, <2>1, <2>2, <2>3, <2>4, <2>5, <2>6, <2>7
         DEF TypeOK, TurnDelivers, TurnEnds, chat, state, sets, hist, bounds, Times, RowSets,
             Flags
  <1>10. CASE TurnStashes
    <2>1. RowSets'
      BY <1>10, Carried DEF RowSets, TypeOK, TurnStashes, chat, state, hist, Replies
    <2>2. Flags'
      BY <1>10 DEF Flags, TypeOK, TurnStashes, TurnEnds, sets
    <2>3. live' \in LiveStates
      BY <1>10 DEF TypeOK, TurnStashes, TurnEnds, Unlock, Fault, LiveStates, Off, Replies
    <2>4. queue' \in Seq(Actors)
      BY <1>10, Queues DEF TypeOK, TurnStashes, TurnEnds, Unlock, Fault, Actors, LockHeld, Holds
    <2>5. Counts'
      BY <1>10 DEF Counts, TypeOK, TurnStashes, Fault, hist, bounds
    <2> QED
      BY <1>10, <2>1, <2>2, <2>3, <2>4, <2>5
         DEF TypeOK, TurnStashes, TurnEnds, chat, state, sets, hist, bounds, RowSets, Flags,
             Counts
  <1>11. CASE TurnLosesReply
    <2>1. Last(live.batch) \in Rows
      BY <1>11, LastExists, Carried DEF TypeOK, Batches, Loaded, Replies, TurnLosesReply
    <2>2. Times'
      BY <1>11, <2>1 DEF Times, TypeOK, TurnLosesReply, chat, state, Rows
    <2>3. Flags'
      BY <1>11 DEF Flags, TypeOK, TurnLosesReply, TurnEnds, sets
    <2>4. live' \in LiveStates
      BY <1>11 DEF TypeOK, TurnLosesReply, TurnEnds, Unlock, Fault, LiveStates, Off, Replies
    <2>5. queue' \in Seq(Actors)
      BY <1>11, Queues
         DEF TypeOK, TurnLosesReply, TurnEnds, Unlock, Fault, Actors, LockHeld, Holds
    <2>6. Counts'
      BY <1>11 DEF Counts, TypeOK, TurnLosesReply, Fault, hist, bounds
    <2> QED
      BY <1>11, <2>1, <2>2, <2>3, <2>4, <2>5, <2>6
         DEF TypeOK, TurnLosesReply, TurnEnds, chat, state, sets, hist, bounds, Times, Flags,
             Counts
  <1>12. CASE FireQueues
    <2>1. RowSets'
      BY <1>12, Carried DEF RowSets, TypeOK, FireQueues, chat, state, hist, Replies
    <2>2. fire' \in FireStates
      BY <1>12 DEF TypeOK, FireQueues, FireStates, Still, Replies
    <2>3. queue' \in Seq(Actors)
      <3>1. CASE queue' = Append(queue, "fire")
        BY <3>1, Queues DEF TypeOK, Actors
      <3>2. CASE UNCHANGED queue
        BY <3>2 DEF TypeOK
      <3> QED
        BY <1>12, <3>1, <3>2 DEF FireQueues
    <2>4. Counts'
      BY <1>12 DEF Counts, TypeOK, FireQueues, hist, bounds
    <2> QED
      BY <1>12, <2>1, <2>2, <2>3, <2>4
         DEF TypeOK, FireQueues, chat, state, sets, hist, bounds, RowSets, Counts
  <1>13. CASE FireReplies
    <2>1. fire' \in FireStates
      BY <1>13 DEF TypeOK, FireReplies, Holds, FireStates, Still, Replies
    <2> QED
      BY <1>13, <2>1 DEF TypeOK, FireReplies, chat, state, sets, hist, bounds
  <1>14. CASE FireFails
    <2>1. fire.reply \in SUBSET Rows
      BY <1>14, Carried DEF Batches, Replies, FireFails
    <2>2. RowSets'
      BY <1>14, Carried, <2>1 DEF RowSets, TypeOK, FireFails, chat, state, hist, Replies
    <2>3. fire' \in FireStates
      BY <1>14 DEF TypeOK, FireFails, Holds, Fault, FireEnds, Unlock, FireStates, Still, Replies
    <2>4. queue' \in Seq(Actors)
      BY <1>14, Queues
         DEF TypeOK, FireFails, Holds, Fault, FireEnds, Unlock, Actors, LockHeld, Holds
    <2>5. Counts'
      BY <1>14 DEF Counts, TypeOK, FireFails, Fault, hist, bounds
    <2> QED
      BY <1>14, <2>1, <2>2, <2>3, <2>4, <2>5
         DEF TypeOK, FireFails, FireEnds, chat, state, sets, hist, bounds, RowSets, Counts
  <1>15. CASE FireDelivers
    <2>1. fire.reply \in SUBSET Rows
      BY <1>15, Carried DEF Batches, Replies, FireDelivers
    <2>2. RowSets'
      BY <1>15, Carried, <2>1 DEF RowSets, TypeOK, FireDelivers, chat, state, hist, Replies
    <2>3. fire' \in FireStates
      BY <1>15 DEF TypeOK, FireDelivers, FireEnds, Unlock, FireStates, Still, Replies
    <2>4. queue' \in Seq(Actors)
      BY <1>15, Queues DEF TypeOK, FireDelivers, FireEnds, Unlock, Actors, LockHeld, Holds
    <2> QED
      BY <1>15, <2>1, <2>2, <2>3, <2>4
         DEF TypeOK, FireDelivers, FireEnds, chat, state, sets, hist, bounds, RowSets
  <1>16. CASE FireStashes
    <2>1. RowSets'
      BY <1>16, Carried DEF RowSets, TypeOK, FireStashes, chat, state, hist, Replies
    <2>2. fire' \in FireStates
      BY <1>16 DEF TypeOK, FireStashes, FireEnds, Unlock, Fault, FireStates, Still, Replies
    <2>3. queue' \in Seq(Actors)
      BY <1>16, Queues DEF TypeOK, FireStashes, FireEnds, Unlock, Fault, Actors, LockHeld, Holds
    <2>4. Counts'
      BY <1>16 DEF Counts, TypeOK, FireStashes, Fault, hist, bounds
    <2> QED
      BY <1>16, <2>1, <2>2, <2>3, <2>4
         DEF TypeOK, FireStashes, FireEnds, chat, state, sets, hist, bounds, RowSets, Counts
  <1>17. ASSUME NEW p \in Passes, PassLists(p) PROVE TypeOK'
    <2>1. pass' \in [Passes -> PassStates]
      BY <1>17, PassRecords, SweepTypes DEF TypeOK, PassLists
    <2> QED
      BY <1>17, <2>1 DEF TypeOK, PassLists, chat, state, sets, hist, bounds
  <1>18. ASSUME NEW p \in Passes, PassSkips(p) PROVE TypeOK'
    <2>1. pass' \in [Passes -> PassStates]
      BY <1>18, PassRecords, SweepTypes DEF TypeOK, PassSkips
    <2> QED
      BY <1>18, <2>1 DEF TypeOK, PassSkips, chat, state, sets, hist, bounds
  <1>19. ASSUME NEW p \in Passes, PassTakes(p) PROVE TypeOK'
    <2>1. pass' \in [Passes -> PassStates] /\ queue' \in Seq(Actors) /\ recovering' \in BOOLEAN
      BY <1>19, LoadsTypes DEF TypeOK, PassTakes
    <2>2. Flags'
      BY <1>19, <2>1 DEF Flags, TypeOK, PassTakes, sets
    <2> QED
      BY <1>19, <2>1, <2>2
         DEF TypeOK, PassTakes, SweepEnds, chat, state, sets, hist, bounds, Flags
  <1>20. ASSUME NEW p \in Passes, PassHeals(p) PROVE TypeOK'
    <2>1. Flags'
      BY <1>20 DEF Flags, TypeOK, PassHeals, sets
    <2>2. pass' \in [Passes -> PassStates]
      BY <1>20, PassRecords, SweepTypes DEF TypeOK, PassHeals
    <2> QED
      BY <1>20, <2>1, <2>2 DEF TypeOK, PassHeals, chat, state, sets, hist, bounds, Flags
  <1>21. ASSUME NEW p \in Passes, PassHealed(p) PROVE TypeOK'
    <2>1. pass' \in [Passes -> PassStates] /\ queue' \in Seq(Actors) /\ recovering' \in BOOLEAN
      BY <1>21, LoadsTypes DEF TypeOK, PassHealed
    <2>2. Flags'
      BY <1>21, <2>1 DEF Flags, TypeOK, PassHealed, sets
    <2> QED
      BY <1>21, <2>1, <2>2
         DEF TypeOK, PassHealed, SweepEnds, chat, state, sets, hist, bounds, Flags
  <1>22. ASSUME NEW p \in Passes, PassHealFails(p) PROVE TypeOK'
    <2>1. Flags'
      BY <1>22 DEF Flags, TypeOK, PassHealFails, SweepEnds, sets
    <2>2. pass' \in [Passes -> PassStates]
      BY <1>22, PassRecords, SweepTypes DEF TypeOK, PassHealFails, SweepEnds
    <2>3. Counts'
      BY <1>22 DEF Counts, TypeOK, PassHealFails, Fault, hist, bounds
    <2> QED
      BY <1>22, <2>1, <2>2, <2>3
         DEF TypeOK, PassHealFails, SweepEnds, chat, state, sets, hist, bounds, Flags, Counts
  <1>23. ASSUME NEW p \in Passes, PassAlerted(p) PROVE TypeOK'
    <2>1. pass' \in [Passes -> PassStates] /\ queue' \in Seq(Actors)
      BY <1>23, Carried, BeginsTypes DEF PassAlerted
    <2> QED
      BY <1>23, <2>1 DEF TypeOK, PassAlerted, chat, state, sets, hist, bounds
  <1>24. ASSUME NEW p \in Passes, PassFlushed(p) PROVE TypeOK'
    <2>1. Last(pass[p].rows) \in Rows
      BY <1>24, LastExists, Carried DEF TypeOK, Batches, Loaded, Replies, PassFlushed
    <2>2. Times'
      BY <1>24, <2>1 DEF Times, TypeOK, PassFlushed, chat, state, Rows
    <2>3. pass[p].reply \in SUBSET Rows
      BY <1>24, Carried DEF Batches, Replies, PassFlushed
    <2>4. RowSets'
      BY <1>24, Carried, <2>3
         DEF RowSets, TypeOK, PassFlushed, chat, state, hist, Replies, Disposes
    <2>5. Flags'
      BY <1>24 DEF Flags, TypeOK, PassFlushed, SweepEnds, sets
    <2>6. pass' \in [Passes -> PassStates]
      BY <1>24, PassRecords, SweepTypes DEF TypeOK, PassFlushed, SweepEnds
    <2>7. Counts'
      BY <1>24 DEF Counts, TypeOK, PassFlushed, Disposes, hist, bounds
    <2> QED
      BY <1>24, <2>1, <2>2, <2>3, <2>4, <2>5, <2>6, <2>7
         DEF TypeOK, PassFlushed, SweepEnds, chat, state, sets, hist, bounds, Times, RowSets,
             Flags, Counts
  <1>25. ASSUME NEW p \in Passes, PassDropsReply(p) PROVE TypeOK'
    <2>1. RowSets'
      BY <1>25, Carried DEF RowSets, TypeOK, PassDropsReply, chat, state, hist, Replies
    <2>2. pass' \in [Passes -> PassStates]
      BY <1>25, PassRecords, SweepTypes DEF TypeOK, PassDropsReply
    <2>3. queue' \in Seq(Actors)
      BY <1>25, Queues DEF TypeOK, PassDropsReply, Sweep, Fault, Actors
    <2>4. Counts'
      BY <1>25 DEF Counts, TypeOK, PassDropsReply, Fault, hist, bounds
    <2> QED
      BY <1>25, <2>1, <2>2, <2>3, <2>4
         DEF TypeOK, PassDropsReply, chat, state, sets, hist, bounds, RowSets, Counts
  <1>26. ASSUME NEW p \in Passes, PassBails(p) PROVE TypeOK'
    <2>1. Flags'
      BY <1>26 DEF Flags, TypeOK, PassBails, SweepEnds, sets
    <2>2. pass' \in [Passes -> PassStates]
      BY <1>26, PassRecords, SweepTypes DEF TypeOK, PassBails, SweepEnds
    <2>3. Counts'
      BY <1>26 DEF Counts, TypeOK, PassBails, Fault, hist, bounds
    <2> QED
      BY <1>26, <2>1, <2>2, <2>3
         DEF TypeOK, PassBails, SweepEnds, chat, state, sets, hist, bounds, Flags, Counts
  <1>27. ASSUME NEW p \in Passes, PassReplies(p) PROVE TypeOK'
    <2>1. pass' \in [Passes -> PassStates]
      BY <1>27, PassRecords, SweepTypes DEF TypeOK, PassReplies
    <2> QED
      BY <1>27, <2>1 DEF TypeOK, PassReplies, chat, state, sets, hist, bounds
  <1>28. ASSUME NEW p \in Passes, PassSilent(p) PROVE TypeOK'
    <2>1. Last(pass[p].rows) \in Rows
      BY <1>28, LastExists, Carried DEF TypeOK, Batches, Loaded, Replies, PassSilent
    <2>2. Times'
      BY <1>28, <2>1 DEF Times, TypeOK, PassSilent, chat, state, Rows
    <2>3. pass' \in [Passes -> PassStates]
      BY <1>28, PassRecords, SweepTypes DEF TypeOK, PassSilent
    <2>4. queue' \in Seq(Actors)
      BY <1>28, Queues DEF TypeOK, PassSilent, Sweep, Holds, Unlock, Actors, LockHeld, Holds
    <2> QED
      BY <1>28, <2>1, <2>2, <2>3, <2>4
         DEF TypeOK, PassSilent, chat, state, sets, hist, bounds, Times
  <1>29. ASSUME NEW p \in Passes, PassFails(p) PROVE TypeOK'
    <2>1. Flags'
      BY <1>29 DEF Flags, TypeOK, PassFails, SweepEnds, sets
    <2>2. pass' \in [Passes -> PassStates]
      BY <1>29, PassRecords, SweepTypes DEF TypeOK, PassFails, SweepEnds
    <2>3. queue' \in Seq(Actors)
      BY <1>29, Queues
         DEF TypeOK, PassFails, Sweep, SweepEnds, Holds, Unlock, Fault, Actors, LockHeld,
             Holds
    <2>4. Counts'
      BY <1>29 DEF Counts, TypeOK, PassFails, Fault, hist, bounds
    <2> QED
      BY <1>29, <2>1, <2>2, <2>3, <2>4
         DEF TypeOK, PassFails, SweepEnds, chat, state, sets, hist, bounds, Flags, Counts
  <1>30. ASSUME NEW p \in Passes, PassDelivers(p) PROVE TypeOK'
    <2>1. Last(pass[p].rows) \in Rows
      BY <1>30, LastExists, Carried DEF TypeOK, Batches, Loaded, Replies, PassDelivers
    <2>2. Times'
      BY <1>30, <2>1 DEF Times, TypeOK, PassDelivers, chat, state, Rows
    <2>3. pass[p].reply \in SUBSET Rows
      BY <1>30, Carried DEF Batches, Replies, PassDelivers
    <2>4. RowSets'
      BY <1>30, Carried, <2>3 DEF RowSets, TypeOK, PassDelivers, chat, state, hist, Replies
    <2>5. pass' \in [Passes -> PassStates]
      BY <1>30, PassRecords, SweepTypes DEF TypeOK, PassDelivers
    <2>6. queue' \in Seq(Actors)
      BY <1>30, Queues DEF TypeOK, PassDelivers, Sweep, Unlock, Actors, LockHeld, Holds
    <2> QED
      BY <1>30, <2>1, <2>2, <2>3, <2>4, <2>5, <2>6
         DEF TypeOK, PassDelivers, chat, state, sets, hist, bounds, Times, RowSets
  <1>31. ASSUME NEW p \in Passes, PassStashes(p) PROVE TypeOK'
    <2>1. RowSets'
      BY <1>31, Carried DEF RowSets, TypeOK, PassStashes, chat, state, hist, Replies
    <2>2. pass' \in [Passes -> PassStates]
      BY <1>31, PassRecords, SweepTypes DEF TypeOK, PassStashes
    <2>3. queue' \in Seq(Actors)
      BY <1>31, Queues DEF TypeOK, PassStashes, Sweep, Unlock, Fault, Actors, LockHeld, Holds
    <2>4. Counts'
      BY <1>31 DEF Counts, TypeOK, PassStashes, Fault, hist, bounds
    <2> QED
      BY <1>31, <2>1, <2>2, <2>3, <2>4
         DEF TypeOK, PassStashes, chat, state, sets, hist, bounds, RowSets, Counts
  <1>32. ASSUME NEW p \in Passes, PassMarks(p) PROVE TypeOK'
    <2>1. RowSets'
      BY <1>32, Carried DEF RowSets, TypeOK, PassMarks, chat, state, hist, Replies, Disposes
    <2>2. Flags'
      BY <1>32 DEF Flags, TypeOK, PassMarks, SweepEnds, sets
    <2>3. pass' \in [Passes -> PassStates]
      BY <1>32, PassRecords, SweepTypes DEF TypeOK, PassMarks, SweepEnds
    <2>4. Counts'
      BY <1>32 DEF Counts, TypeOK, PassMarks, Disposes, hist, bounds
    <2> QED
      BY <1>32, <2>1, <2>2, <2>3, <2>4
         DEF TypeOK, PassMarks, SweepEnds, chat, state, sets, hist, bounds, RowSets, Flags,
             Counts
  <1>33. ASSUME NEW d \in Drains, DrainLists(d) PROVE TypeOK'
    <2>1. drain' \in [Drains -> DrainStates]
      BY <1>33 DEF TypeOK, DrainLists, DrainStates, Still, Replies
    <2> QED
      BY <1>33, <2>1 DEF TypeOK, DrainLists, chat, state, sets, hist, bounds
  <1>34. ASSUME NEW d \in Drains, DrainTakes(d) PROVE TypeOK'
    <2>1. Flags'
      BY <1>34 DEF Flags, TypeOK, DrainTakes, sets
    <2>2. drain' \in [Drains -> DrainStates]
      BY <1>34 DEF TypeOK, DrainTakes, DrainStates, Still, Replies
    <2> QED
      BY <1>34, <2>1, <2>2 DEF TypeOK, DrainTakes, chat, state, sets, hist, bounds, Flags
  <1>35. ASSUME NEW d \in Drains, DrainDelivers(d) PROVE TypeOK'
    <2>1. drain[d].reply \in SUBSET Rows
      BY <1>35, Carried DEF Batches, Replies, DrainDelivers
    <2>2. RowSets'
      BY <1>35, Carried, <2>1 DEF RowSets, TypeOK, DrainDelivers, chat, state, hist, Replies
    <2>3. Flags'
      BY <1>35 DEF Flags, TypeOK, DrainDelivers, DrainEnds, sets
    <2>4. drain' \in [Drains -> DrainStates]
      BY <1>35 DEF TypeOK, DrainDelivers, DrainEnds, DrainStates, Still, Replies
    <2> QED
      BY <1>35, <2>1, <2>2, <2>3, <2>4
         DEF TypeOK, DrainDelivers, DrainEnds, chat, state, sets, hist, bounds, RowSets, Flags
  <1>36. ASSUME NEW d \in Drains, DrainFails(d) PROVE TypeOK'
    <2>1. RowSets'
      BY <1>36, Carried DEF RowSets, TypeOK, DrainFails, chat, state, hist, Replies
    <2>2. Flags'
      BY <1>36 DEF Flags, TypeOK, DrainFails, DrainEnds, sets
    <2>3. drain' \in [Drains -> DrainStates]
      BY <1>36 DEF TypeOK, DrainFails, DrainEnds, Fault, DrainStates, Still, Replies
    <2>4. Counts'
      BY <1>36 DEF Counts, TypeOK, DrainFails, Fault, hist, bounds
    <2> QED
      BY <1>36, <2>1, <2>2, <2>3, <2>4
         DEF TypeOK, DrainFails, DrainEnds, chat, state, sets, hist, bounds, RowSets, Flags,
             Counts
  <1>37. CASE UNCHANGED vars
    BY <1>37 DEF TypeOK, vars, chat, state, sets, hist, bounds
  <1> QED
    BY <1>1, <1>2, <1>3, <1>4, <1>5, <1>6, <1>7, <1>8, <1>9, <1>10, <1>11, <1>12, <1>13, <1>14,
       <1>15, <1>16, <1>17, <1>18, <1>19, <1>20, <1>21, <1>22, <1>23, <1>24, <1>25, <1>26,
       <1>27, <1>28, <1>29, <1>30, <1>31, <1>32, <1>33, <1>34, <1>35, <1>36, <1>37
       DEF Next, TurnNext, FireNext, PassNext, DrainNext

\* A step of a pass keeps Batches when the record it writes fits it.
LEMMA SweepBatches ==
    ASSUME TypeOK, Batches, NEW p \in Passes, NEW s \in PassStates, Sweep(p, s),
           s.pc \in Loaded => s.rows # {}, s.pc \in {"flush", "send"} => s.reply \in Replies,
           UNCHANGED <<bucket, live, fire, drain>>
    PROVE  Batches'
  BY DEF TypeOK, Batches, Sweep, Loaded

\* What the records that the steps of a pass write carry.
LEMMA PassFields ==
    ASSUME TypeOK, NEW p \in Passes, NEW pc, NEW rows, NEW reply
    PROVE  LET s == [pass[p] EXCEPT !.pc = pc]
               r == [pass[p] EXCEPT !.pc = pc, !.rows = rows]
               a == [pass[p] EXCEPT !.pc = pc, !.reply = reply]
               b == [pass[p] EXCEPT !.pc = pc, !.rows = rows, !.reply = reply]
           IN  /\ s.pc = pc /\ s.rows = pass[p].rows /\ s.reply = pass[p].reply
               /\ r.pc = pc /\ r.rows = rows /\ r.reply = pass[p].reply
               /\ a.pc = pc /\ a.rows = pass[p].rows /\ a.reply = reply
               /\ b.pc = pc /\ b.rows = rows /\ b.reply = reply
  <1>1. pass[p] \in PassStates
    BY Carried
  <1> QED
    BY <1>1 DEF PassStates

\* The same for what runRecoveryTurn and the load before it write.
LEMMA BeginsBatches ==
    ASSUME TypeOK, Batches, NEW p \in Passes, NEW rows \in Replies, rows # {}, Begins(p, rows),
           UNCHANGED <<bucket, live, fire, drain>>
    PROVE  Batches'
  <1>1. CASE outbox # None
    <2> DEFINE s == [pass[p] EXCEPT !.pc = "flush", !.rows = rows, !.reply = outbox]
    <2>1. s \in PassStates /\ Sweep(p, s)
      BY <1>1, PassRecords DEF Begins
    <2>2. s.rows # {} /\ s.reply \in Replies
      BY <1>1, PassFields DEF TypeOK
    <2> HIDE DEF s
    <2> QED
      BY <2>1, <2>2, SweepBatches
  <1>2. CASE outbox = None
    <2> DEFINE s == [pass[p] EXCEPT !.pc = "wait", !.rows = rows]
    <2>1. s \in PassStates /\ Sweep(p, s)
      BY <1>2, PassRecords DEF Begins
    <2>2. s.pc = "wait" /\ s.rows # {}
      BY PassFields
    <2> HIDE DEF s
    <2> QED
      BY <2>1, <2>2, SweepBatches
  <1> QED
    BY <1>1, <1>2

\* The same for the load before it.
LEMMA LoadsBatches ==
    ASSUME TypeOK, Batches, NEW p \in Passes, Loads(p), UNCHANGED <<bucket, live, fire, drain>>
    PROVE  Batches'
  <1> DEFINE rows == Unanswered(p)
  <1>1. rows \in Replies
    BY LoadedRows
  <1>2. CASE SweepEnds(p)
    BY <1>2, PassRecords, SweepBatches DEF SweepEnds, Loaded, Idle
  <1>3. CASE rows # {} /\ Sweep(p, [pass[p] EXCEPT !.pc = "alert", !.rows = rows])
    <2> DEFINE s == [pass[p] EXCEPT !.pc = "alert", !.rows = rows]
    <2>1. s \in PassStates /\ Sweep(p, s)
      BY <1>1, <1>3, PassRecords
    <2>2. s.pc = "alert" /\ s.rows # {}
      BY <1>3, PassFields
    <2> HIDE DEF s
    <2> QED
      BY <2>1, <2>2, SweepBatches
  <1>4. CASE rows # {} /\ Begins(p, rows)
    BY <1>1, <1>4, BeginsBatches
  <1> QED
    BY <1>2, <1>3, <1>4 DEF Loads

\* What a pass does while it waits, loads or alerts takes the lock from nobody.
LEMMA SweepLock ==
    ASSUME TypeOK, LockHeld, NEW p \in Passes, NEW s \in PassStates, Sweep(p, s), s.pc # "send",
           queue' = queue \/ queue' = Append(queue, p), UNCHANGED <<live, fire>>
    PROVE  LockHeld'
  <1>1. p \in Actors
    BY DEF Actors
  <1>2. \A x : Holds(x) => Holds(x)'
    BY <1>1, Queues DEF TypeOK, Holds
  <1>3. \A q \in Passes : pass'[q].pc = "send" => pass[q].pc = "send"
    BY DEF Sweep, TypeOK
  <1> QED
    BY <1>2, <1>3 DEF LockHeld

\* The same for runRecoveryTurn up to its first await.
LEMMA BeginsLock ==
    ASSUME TypeOK, LockHeld, NEW p \in Passes, NEW rows \in Replies, Begins(p, rows),
           UNCHANGED <<live, fire>>
    PROVE  LockHeld'
  <1>1. CASE outbox # None
    <2> DEFINE s == [pass[p] EXCEPT !.pc = "flush", !.rows = rows, !.reply = outbox]
    <2>1. s \in PassStates /\ Sweep(p, s) /\ queue' = queue
      BY <1>1, PassRecords DEF Begins
    <2>2. s.pc = "flush"
      BY PassFields
    <2> HIDE DEF s
    <2> QED
      BY <2>1, <2>2, SweepLock
  <1>2. CASE outbox = None
    <2> DEFINE s == [pass[p] EXCEPT !.pc = "wait", !.rows = rows]
    <2>1. s \in PassStates /\ Sweep(p, s) /\ queue' = Append(queue, p)
      BY <1>2, PassRecords DEF Begins
    <2>2. s.pc = "wait"
      BY PassFields
    <2> HIDE DEF s
    <2> QED
      BY <2>1, <2>2, SweepLock
  <1> QED
    BY <1>1, <1>2

\* The same for the load before it.
LEMMA LoadsLock ==
    ASSUME TypeOK, LockHeld, NEW p \in Passes, Loads(p), UNCHANGED <<live, fire>>
    PROVE  LockHeld'
  <1> DEFINE rows == Unanswered(p)
  <1>1. rows \in Replies
    BY LoadedRows
  <1>2. CASE SweepEnds(p) /\ queue' = queue
    BY <1>2, PassRecords, SweepLock DEF SweepEnds, Idle
  <1>3. CASE Sweep(p, [pass[p] EXCEPT !.pc = "alert", !.rows = rows]) /\ queue' = queue
    <2> DEFINE s == [pass[p] EXCEPT !.pc = "alert", !.rows = rows]
    <2>1. s \in PassStates /\ Sweep(p, s)
      BY <1>1, <1>3, PassRecords
    <2>2. s.pc = "alert"
      BY PassFields
    <2> HIDE DEF s
    <2> QED
      BY <1>3, <2>1, <2>2, SweepLock
  <1>4. CASE Begins(p, rows)
    BY <1>1, <1>4, BeginsLock
  <1> QED
    BY <1>2, <1>3, <1>4 DEF Loads

\* A pass that is the only one loads rows that nobody disposed of.
LEMMA LoadsUnmarked ==
    ASSUME TypeOK, Unmarked, NEW p \in Passes, Loads(p), UNCHANGED <<replayed, recovered>>
    PROVE  Unmarked'
  <1> DEFINE rows == Unanswered(p)
  <1>1. rows \cap replayed = {}
    BY DEF Unanswered
  <1>2. pass[p] \in PassStates
    BY Carried
  <1>3. PICK s \in {Idle, [pass[p] EXCEPT !.pc = "alert", !.rows = rows],
                    [pass[p] EXCEPT !.pc = "flush", !.rows = rows, !.reply = outbox],
                    [pass[p] EXCEPT !.pc = "wait", !.rows = rows]} : Sweep(p, s)
    BY DEF Loads, Begins, SweepEnds
  <1>4. s.pc \in Loaded => s.rows = rows
    <2>1. CASE s = Idle
      BY <2>1 DEF Idle, Loaded
    <2>2. CASE s # Idle
      BY <1>2, <1>3, <2>2 DEF PassStates
    <2> QED
      BY <2>1, <2>2
  <1> HIDE DEF rows
  <1> QED
    BY <1>1, <1>3, <1>4 DEF Unmarked, Sweep, TypeOK

\* No step leaves a batch empty or a sender without its reply.
LEMMA BatchesStep == TypeInv /\ [Next]_vars => Batches'
  <1> SUFFICES ASSUME TypeInv, [Next]_vars
               PROVE  Batches'
    OBVIOUS
  <1>1. CASE Land
    BY <1>1, Carried, BoundsAssumption DEF Land, chat, Batches, TypeInv, TypeOK, Replies, Rows
  <1>2. CASE TurnQueues
    BY <1>2, Carried, BoundsAssumption
       DEF TurnQueues, chat, Batches, TypeInv, TypeOK, Replies, Off, Rows
  <1>3. CASE TurnStarts
    BY <1>3, Carried, BoundsAssumption
       DEF TurnStarts, Holds, chat, Batches, TypeInv, TypeOK, Replies, Off, Rows
  <1>4. CASE TurnFlushed
    BY <1>4, Carried, BoundsAssumption
       DEF TurnFlushed, TurnEnds, Unlock, chat, Batches, TypeInv, TypeOK, Replies, Off, Rows
  <1>5. CASE TurnDropsReply
    BY <1>5, Carried, BoundsAssumption
       DEF TurnDropsReply, Fault, chat, Batches, TypeInv, TypeOK, Replies, Off, Rows,
           LiveStates
  <1>6. CASE TurnBails
    BY <1>6, Carried, BoundsAssumption
       DEF TurnBails, TurnEnds, Unlock, Fault, chat, Batches, TypeInv, TypeOK, Replies, Off,
           Rows
  <1>7. CASE TurnReplies
    BY <1>7, Carried, BoundsAssumption
       DEF TurnReplies, chat, Batches, TypeInv, TypeOK, Replies, Off, Rows, LiveStates
  <1>8. CASE TurnFails
    BY <1>8, Carried, BoundsAssumption
       DEF TurnFails, TurnEnds, Unlock, Fault, chat, Batches, TypeInv, TypeOK, Replies, Off,
           Rows
  <1>9. CASE TurnDelivers
    BY <1>9, Carried, BoundsAssumption
       DEF TurnDelivers, TurnEnds, Unlock, chat, Batches, TypeInv, TypeOK, Replies, Off, Rows
  <1>10. CASE TurnStashes
    BY <1>10, Carried, BoundsAssumption
       DEF TurnStashes, TurnEnds, Unlock, Fault, chat, Batches, TypeInv, TypeOK, Replies, Off,
           Rows
  <1>11. CASE TurnLosesReply
    BY <1>11, Carried, BoundsAssumption
       DEF TurnLosesReply, TurnEnds, Unlock, Fault, chat, Batches, TypeInv, TypeOK, Replies,
           Off, Rows
  <1>12. CASE FireQueues
    <2>1. retry \in Replies
      BY DEF TypeInv, TypeOK, Replies
    <2>2. fire'.pc # "off" => fire'.reply \in Replies
      BY <1>12, <2>1 DEF TypeInv, Batches, FireQueues
    <2> QED
      BY <1>12, <2>2 DEF TypeInv, Batches, FireQueues, chat
  <1>13. CASE FireReplies
    BY <1>13, Carried, BoundsAssumption
       DEF FireReplies, Holds, chat, Batches, TypeInv, TypeOK, Replies, Still, Rows,
           FireStates
  <1>14. CASE FireFails
    BY <1>14, Carried, BoundsAssumption
       DEF FireFails, Holds, Fault, FireEnds, Unlock, chat, Batches, TypeInv, TypeOK, Replies,
           Still, Rows
  <1>15. CASE FireDelivers
    BY <1>15, Carried, BoundsAssumption
       DEF FireDelivers, FireEnds, Unlock, chat, Batches, TypeInv, TypeOK, Replies, Still,
           Rows
  <1>16. CASE FireStashes
    BY <1>16, Carried, BoundsAssumption
       DEF FireStashes, FireEnds, Unlock, Fault, chat, Batches, TypeInv, TypeOK, Replies,
           Still, Rows
  <1>17. ASSUME NEW p \in Passes, PassLists(p) PROVE Batches'
    BY <1>17, Carried, BoundsAssumption
       DEF PassLists, Sweep, chat, Batches, TypeInv, TypeOK, Loaded, Replies, Idle, Rows
  <1>18. ASSUME NEW p \in Passes, PassSkips(p) PROVE Batches'
    BY <1>18, Carried, BoundsAssumption
       DEF PassSkips, Sweep, chat, Batches, TypeInv, TypeOK, Loaded, Replies, Idle, Rows
  <1>19. ASSUME NEW p \in Passes, PassTakes(p) PROVE Batches'
    BY <1>19, LoadsBatches DEF TypeInv, PassTakes, chat
  <1>20. ASSUME NEW p \in Passes, PassHeals(p) PROVE Batches'
    <2> DEFINE s == [pass[p] EXCEPT !.pc = "heal"]
    <2>1. s \in PassStates /\ Sweep(p, s) /\ UNCHANGED <<bucket, live, fire, drain>>
      BY <1>20, PassRecords DEF TypeInv, PassHeals, chat
    <2>2. s.pc = "heal"
      BY PassFields DEF TypeInv
    <2> HIDE DEF s
    <2> QED
      BY <2>1, <2>2, SweepBatches DEF TypeInv, Loaded
  <1>21. ASSUME NEW p \in Passes, PassHealed(p) PROVE Batches'
    BY <1>21, LoadsBatches DEF TypeInv, PassHealed, chat
  <1>22. ASSUME NEW p \in Passes, PassHealFails(p) PROVE Batches'
    BY <1>22, Carried, BoundsAssumption
       DEF PassHealFails, Sweep, SweepEnds, Fault, chat, Batches, TypeInv, TypeOK, Loaded,
           Replies, Idle, Rows
  <1>23. ASSUME NEW p \in Passes, PassAlerted(p) PROVE Batches'
    BY <1>23, BeginsBatches, Carried DEF TypeInv, PassAlerted, chat, Batches, Loaded
  <1>24. ASSUME NEW p \in Passes, PassFlushed(p) PROVE Batches'
    BY <1>24, Carried, BoundsAssumption
       DEF PassFlushed, Disposes, Sweep, SweepEnds, chat, Batches, TypeInv, TypeOK, Loaded,
           Replies, Idle, Rows
  <1>25. ASSUME NEW p \in Passes, PassDropsReply(p) PROVE Batches'
    <2> DEFINE s == [pass[p] EXCEPT !.pc = "wait", !.reply = None]
    <2>1. s \in PassStates /\ Sweep(p, s) /\ UNCHANGED <<bucket, live, fire, drain>>
      BY <1>25, PassRecords DEF TypeInv, PassDropsReply, chat
    <2>2. s.pc = "wait" /\ s.rows = pass[p].rows
      BY PassFields DEF TypeInv
    <2>3. pass[p].rows # {} /\ pass[p].rows \in Replies
      BY <1>25, Carried DEF TypeInv, Batches, Loaded, PassDropsReply
    <2> HIDE DEF s
    <2> QED
      BY <2>1, <2>2, <2>3, SweepBatches DEF TypeInv, Loaded
  <1>26. ASSUME NEW p \in Passes, PassBails(p) PROVE Batches'
    BY <1>26, Carried, BoundsAssumption
       DEF PassBails, Sweep, SweepEnds, Fault, chat, Batches, TypeInv, TypeOK, Loaded,
           Replies, Idle, Rows
  <1>27. ASSUME NEW p \in Passes, PassReplies(p) PROVE Batches'
    <2> DEFINE s == [pass[p] EXCEPT !.pc = "send", !.reply = pass[p].rows]
    <2>1. s \in PassStates /\ Sweep(p, s) /\ UNCHANGED <<bucket, live, fire, drain>>
      BY <1>27, PassRecords DEF TypeInv, PassReplies, chat
    <2>2. s.pc = "send" /\ s.rows = pass[p].rows /\ s.reply = pass[p].rows
      BY PassFields DEF TypeInv
    <2>3. pass[p].rows # {} /\ pass[p].rows \in Replies
      BY <1>27, Carried DEF TypeInv, Batches, Loaded, PassReplies
    <2> HIDE DEF s
    <2> QED
      BY <2>1, <2>2, <2>3, SweepBatches DEF TypeInv, Loaded
  <1>28. ASSUME NEW p \in Passes, PassSilent(p) PROVE Batches'
    <2> DEFINE s == [pass[p] EXCEPT !.pc = "mark"]
    <2>1. s \in PassStates /\ Sweep(p, s) /\ UNCHANGED <<bucket, live, fire, drain>>
      BY <1>28, PassRecords DEF TypeInv, PassSilent, chat
    <2>2. s.pc = "mark" /\ s.rows = pass[p].rows
      BY PassFields DEF TypeInv
    <2>3. pass[p].rows # {} /\ pass[p].rows \in Replies
      BY <1>28, Carried DEF TypeInv, Batches, Loaded, PassSilent
    <2> HIDE DEF s
    <2> QED
      BY <2>1, <2>2, <2>3, SweepBatches DEF TypeInv, Loaded
  <1>29. ASSUME NEW p \in Passes, PassFails(p) PROVE Batches'
    BY <1>29, Carried, BoundsAssumption
       DEF PassFails, Sweep, SweepEnds, Holds, Unlock, Fault, chat, Batches, TypeInv, TypeOK,
           Loaded, Replies, Idle, Rows
  <1>30. ASSUME NEW p \in Passes, PassDelivers(p) PROVE Batches'
    <2> DEFINE s == [pass[p] EXCEPT !.pc = "mark"]
    <2>1. s \in PassStates /\ Sweep(p, s) /\ UNCHANGED <<bucket, live, fire, drain>>
      BY <1>30, PassRecords DEF TypeInv, PassDelivers, chat
    <2>2. s.pc = "mark" /\ s.rows = pass[p].rows
      BY PassFields DEF TypeInv
    <2>3. pass[p].rows # {} /\ pass[p].rows \in Replies
      BY <1>30, Carried DEF TypeInv, Batches, Loaded, PassDelivers
    <2> HIDE DEF s
    <2> QED
      BY <2>1, <2>2, <2>3, SweepBatches DEF TypeInv, Loaded
  <1>31. ASSUME NEW p \in Passes, PassStashes(p) PROVE Batches'
    <2> DEFINE s == [pass[p] EXCEPT !.pc = "mark"]
    <2>1. s \in PassStates /\ Sweep(p, s) /\ UNCHANGED <<bucket, live, fire, drain>>
      BY <1>31, PassRecords DEF TypeInv, PassStashes, chat
    <2>2. s.pc = "mark" /\ s.rows = pass[p].rows
      BY PassFields DEF TypeInv
    <2>3. pass[p].rows # {} /\ pass[p].rows \in Replies
      BY <1>31, Carried DEF TypeInv, Batches, Loaded, PassStashes
    <2> HIDE DEF s
    <2> QED
      BY <2>1, <2>2, <2>3, SweepBatches DEF TypeInv, Loaded
  <1>32. ASSUME NEW p \in Passes, PassMarks(p) PROVE Batches'
    BY <1>32, Carried, BoundsAssumption
       DEF PassMarks, Disposes, Sweep, SweepEnds, chat, Batches, TypeInv, TypeOK, Loaded,
           Replies, Idle, Rows
  <1>33. ASSUME NEW d \in Drains, DrainLists(d) PROVE Batches'
    BY <1>33, Carried, BoundsAssumption
       DEF DrainLists, chat, Batches, TypeInv, TypeOK, Replies, Still, Rows
  <1>34. ASSUME NEW d \in Drains, DrainTakes(d) PROVE Batches'
    BY <1>34, Carried, BoundsAssumption
       DEF DrainTakes, chat, Batches, TypeInv, TypeOK, Replies, Still, Rows
  <1>35. ASSUME NEW d \in Drains, DrainDelivers(d) PROVE Batches'
    BY <1>35, Carried, BoundsAssumption
       DEF DrainDelivers, DrainEnds, chat, Batches, TypeInv, TypeOK, Replies, Still, Rows
  <1>36. ASSUME NEW d \in Drains, DrainFails(d) PROVE Batches'
    BY <1>36, Carried, BoundsAssumption
       DEF DrainFails, DrainEnds, Fault, chat, Batches, TypeInv, TypeOK, Replies, Still, Rows
  <1>37. CASE UNCHANGED vars
    BY <1>37
       DEF vars, Batches, chat, state, sets, hist, bounds, TypeInv, TypeOK, Loaded, Replies,
           Off, Still, Idle, Rows
  <1> QED
    BY <1>1, <1>2, <1>3, <1>4, <1>5, <1>6, <1>7, <1>8, <1>9, <1>10, <1>11, <1>12, <1>13, <1>14,
       <1>15, <1>16, <1>17, <1>18, <1>19, <1>20, <1>21, <1>22, <1>23, <1>24, <1>25, <1>26,
       <1>27, <1>28, <1>29, <1>30, <1>31, <1>32, <1>33, <1>34, <1>35, <1>36, <1>37
       DEF Next, TurnNext, FireNext, PassNext, DrainNext

\* The lock passes from its holder to the next, and to nobody else.
LEMMA LockHeldStep == TypeInv /\ [Next]_vars => LockHeld'
  <1> SUFFICES ASSUME TypeInv, [Next]_vars
               PROVE  LockHeld'
    OBVIOUS
  <1>1. CASE Land
    BY <1>1, Queues, ActorsAssumption DEF Land, LockHeld, TypeInv, TypeOK, Holds, Actors
  <1>2. CASE TurnQueues
    BY <1>2, Queues, ActorsAssumption
       DEF TurnQueues, LockHeld, TypeInv, TypeOK, Holds, Off, Actors
  <1>3. CASE TurnStarts
    BY <1>3, Queues, ActorsAssumption
       DEF TurnStarts, Holds, LockHeld, TypeInv, TypeOK, Holds, Off, Actors
  <1>4. CASE TurnFlushed
    BY <1>4, Queues, ActorsAssumption
       DEF TurnFlushed, TurnEnds, Unlock, LockHeld, TypeInv, TypeOK, Holds, Off, Actors
  <1>5. CASE TurnDropsReply
    BY <1>5, Queues, ActorsAssumption
       DEF TurnDropsReply, Fault, LockHeld, TypeInv, TypeOK, Holds, Off, Actors
  <1>6. CASE TurnBails
    BY <1>6, Queues, ActorsAssumption
       DEF TurnBails, TurnEnds, Unlock, Fault, LockHeld, TypeInv, TypeOK, Holds, Off, Actors
  <1>7. CASE TurnReplies
    BY <1>7, Queues, ActorsAssumption
       DEF TurnReplies, LockHeld, TypeInv, TypeOK, Holds, Off, Actors
  <1>8. CASE TurnFails
    BY <1>8, Queues, ActorsAssumption
       DEF TurnFails, TurnEnds, Unlock, Fault, LockHeld, TypeInv, TypeOK, Holds, Off, Actors
  <1>9. CASE TurnDelivers
    BY <1>9, Queues, ActorsAssumption
       DEF TurnDelivers, TurnEnds, Unlock, LockHeld, TypeInv, TypeOK, Holds, Off, Actors
  <1>10. CASE TurnStashes
    BY <1>10, Queues, ActorsAssumption
       DEF TurnStashes, TurnEnds, Unlock, Fault, LockHeld, TypeInv, TypeOK, Holds, Off, Actors
  <1>11. CASE TurnLosesReply
    BY <1>11, Queues, ActorsAssumption
       DEF TurnLosesReply, TurnEnds, Unlock, Fault, LockHeld, TypeInv, TypeOK, Holds, Off,
           Actors
  <1>12. CASE FireQueues
    <2>1. "fire" \in Actors
      BY DEF Actors
    <2>2. \A x : Holds(x) => Holds(x)'
      <3>1. queue \in Seq(Actors)
        BY DEF TypeInv, TypeOK
      <3>2. queue' = queue \/ queue' = Append(queue, "fire")
        BY <1>12 DEF FireQueues
      <3> QED
        BY <2>1, <3>1, <3>2, Queues DEF Holds
    <2> QED
      BY <1>12, <2>2 DEF TypeInv, LockHeld, FireQueues
  <1>13. CASE FireReplies
    BY <1>13, Queues, ActorsAssumption
       DEF FireReplies, Holds, LockHeld, TypeInv, TypeOK, Holds, Still, Actors
  <1>14. CASE FireFails
    BY <1>14, Queues, ActorsAssumption
       DEF FireFails, Holds, Fault, FireEnds, Unlock, LockHeld, TypeInv, TypeOK, Holds, Still,
           Actors
  <1>15. CASE FireDelivers
    BY <1>15, Queues, ActorsAssumption
       DEF FireDelivers, FireEnds, Unlock, LockHeld, TypeInv, TypeOK, Holds, Still, Actors
  <1>16. CASE FireStashes
    BY <1>16, Queues, ActorsAssumption
       DEF FireStashes, FireEnds, Unlock, Fault, LockHeld, TypeInv, TypeOK, Holds, Still,
           Actors
  <1>17. ASSUME NEW p \in Passes, PassLists(p) PROVE LockHeld'
    BY <1>17, Queues, ActorsAssumption
       DEF PassLists, Sweep, LockHeld, TypeInv, TypeOK, Holds, Idle, Actors
  <1>18. ASSUME NEW p \in Passes, PassSkips(p) PROVE LockHeld'
    BY <1>18, Queues, ActorsAssumption
       DEF PassSkips, Sweep, LockHeld, TypeInv, TypeOK, Holds, Idle, Actors
  <1>19. ASSUME NEW p \in Passes, PassTakes(p) PROVE LockHeld'
    BY <1>19, LoadsLock DEF TypeInv, PassTakes
  <1>20. ASSUME NEW p \in Passes, PassHeals(p) PROVE LockHeld'
    BY <1>20, Queues, ActorsAssumption
       DEF PassHeals, Sweep, LockHeld, TypeInv, TypeOK, Holds, Idle, Actors
  <1>21. ASSUME NEW p \in Passes, PassHealed(p) PROVE LockHeld'
    BY <1>21, LoadsLock DEF TypeInv, PassHealed
  <1>22. ASSUME NEW p \in Passes, PassHealFails(p) PROVE LockHeld'
    BY <1>22, Queues, ActorsAssumption
       DEF PassHealFails, Sweep, SweepEnds, Fault, LockHeld, TypeInv, TypeOK, Holds, Idle,
           Actors
  <1>23. ASSUME NEW p \in Passes, PassAlerted(p) PROVE LockHeld'
    BY <1>23, BeginsLock, Carried DEF TypeInv, PassAlerted
  <1>24. ASSUME NEW p \in Passes, PassFlushed(p) PROVE LockHeld'
    BY <1>24, Queues, ActorsAssumption
       DEF PassFlushed, Disposes, Sweep, SweepEnds, LockHeld, TypeInv, TypeOK, Holds, Idle,
           Actors
  <1>25. ASSUME NEW p \in Passes, PassDropsReply(p) PROVE LockHeld'
    BY <1>25, Queues, ActorsAssumption
       DEF PassDropsReply, Sweep, Fault, LockHeld, TypeInv, TypeOK, Holds, Idle, Actors
  <1>26. ASSUME NEW p \in Passes, PassBails(p) PROVE LockHeld'
    BY <1>26, Queues, ActorsAssumption
       DEF PassBails, Sweep, SweepEnds, Fault, LockHeld, TypeInv, TypeOK, Holds, Idle, Actors
  <1>27. ASSUME NEW p \in Passes, PassReplies(p) PROVE LockHeld'
    BY <1>27, Queues, ActorsAssumption
       DEF PassReplies, Sweep, Holds, LockHeld, TypeInv, TypeOK, Holds, Idle, Actors
  <1>28. ASSUME NEW p \in Passes, PassSilent(p) PROVE LockHeld'
    BY <1>28, Queues, ActorsAssumption
       DEF PassSilent, Sweep, Holds, Unlock, LockHeld, TypeInv, TypeOK, Holds, Idle, Actors
  <1>29. ASSUME NEW p \in Passes, PassFails(p) PROVE LockHeld'
    BY <1>29, Queues, ActorsAssumption
       DEF PassFails, Sweep, SweepEnds, Holds, Unlock, Fault, LockHeld, TypeInv, TypeOK,
           Holds, Idle, Actors
  <1>30. ASSUME NEW p \in Passes, PassDelivers(p) PROVE LockHeld'
    BY <1>30, Queues, ActorsAssumption
       DEF PassDelivers, Sweep, Unlock, LockHeld, TypeInv, TypeOK, Holds, Idle, Actors
  <1>31. ASSUME NEW p \in Passes, PassStashes(p) PROVE LockHeld'
    BY <1>31, Queues, ActorsAssumption
       DEF PassStashes, Sweep, Unlock, Fault, LockHeld, TypeInv, TypeOK, Holds, Idle, Actors
  <1>32. ASSUME NEW p \in Passes, PassMarks(p) PROVE LockHeld'
    BY <1>32, Queues, ActorsAssumption
       DEF PassMarks, Disposes, Sweep, SweepEnds, LockHeld, TypeInv, TypeOK, Holds, Idle,
           Actors
  <1>33. ASSUME NEW d \in Drains, DrainLists(d) PROVE LockHeld'
    BY <1>33, Queues, ActorsAssumption
       DEF DrainLists, LockHeld, TypeInv, TypeOK, Holds, Still, Actors
  <1>34. ASSUME NEW d \in Drains, DrainTakes(d) PROVE LockHeld'
    BY <1>34, Queues, ActorsAssumption
       DEF DrainTakes, LockHeld, TypeInv, TypeOK, Holds, Still, Actors
  <1>35. ASSUME NEW d \in Drains, DrainDelivers(d) PROVE LockHeld'
    BY <1>35, Queues, ActorsAssumption
       DEF DrainDelivers, DrainEnds, LockHeld, TypeInv, TypeOK, Holds, Still, Actors
  <1>36. ASSUME NEW d \in Drains, DrainFails(d) PROVE LockHeld'
    BY <1>36, Queues, ActorsAssumption
       DEF DrainFails, DrainEnds, Fault, LockHeld, TypeInv, TypeOK, Holds, Still, Actors
  <1>37. CASE UNCHANGED vars
    BY <1>37
       DEF vars, LockHeld, chat, state, sets, hist, bounds, TypeInv, TypeOK, Holds, Off,
           Still, Idle, Actors
  <1> QED
    BY <1>1, <1>2, <1>3, <1>4, <1>5, <1>6, <1>7, <1>8, <1>9, <1>10, <1>11, <1>12, <1>13, <1>14,
       <1>15, <1>16, <1>17, <1>18, <1>19, <1>20, <1>21, <1>22, <1>23, <1>24, <1>25, <1>26,
       <1>27, <1>28, <1>29, <1>30, <1>31, <1>32, <1>33, <1>34, <1>35, <1>36, <1>37
       DEF Next, TurnNext, FireNext, PassNext, DrainNext

\* A pass starts to work only when no other does.
LEMMA OnePassStep == TypeInv /\ OnePass /\ [Next]_vars => OnePass'
  <1> SUFFICES ASSUME TypeInv, OnePass, [Next]_vars
               PROVE  OnePass'
    OBVIOUS
  <1>1. CASE Land
    BY <1>1 DEF Land, sets, OnePass, TypeInv, TypeOK
  <1>2. CASE TurnQueues
    BY <1>2 DEF TurnQueues, sets, OnePass, TypeInv, TypeOK
  <1>3. CASE TurnStarts
    BY <1>3 DEF TurnStarts, Holds, sets, OnePass, TypeInv, TypeOK
  <1>4. CASE TurnFlushed
    BY <1>4 DEF TurnFlushed, TurnEnds, Unlock, sets, OnePass, TypeInv, TypeOK
  <1>5. CASE TurnDropsReply
    BY <1>5 DEF TurnDropsReply, Fault, sets, OnePass, TypeInv, TypeOK
  <1>6. CASE TurnBails
    BY <1>6 DEF TurnBails, TurnEnds, Unlock, Fault, sets, OnePass, TypeInv, TypeOK
  <1>7. CASE TurnReplies
    BY <1>7 DEF TurnReplies, sets, OnePass, TypeInv, TypeOK
  <1>8. CASE TurnFails
    BY <1>8 DEF TurnFails, TurnEnds, Unlock, Fault, sets, OnePass, TypeInv, TypeOK
  <1>9. CASE TurnDelivers
    BY <1>9 DEF TurnDelivers, TurnEnds, Unlock, sets, OnePass, TypeInv, TypeOK
  <1>10. CASE TurnStashes
    BY <1>10 DEF TurnStashes, TurnEnds, Unlock, Fault, sets, OnePass, TypeInv, TypeOK
  <1>11. CASE TurnLosesReply
    BY <1>11 DEF TurnLosesReply, TurnEnds, Unlock, Fault, sets, OnePass, TypeInv, TypeOK
  <1>12. CASE FireQueues
    BY <1>12 DEF FireQueues, sets, OnePass, TypeInv, TypeOK
  <1>13. CASE FireReplies
    BY <1>13 DEF FireReplies, Holds, sets, OnePass, TypeInv, TypeOK
  <1>14. CASE FireFails
    BY <1>14 DEF FireFails, Holds, Fault, FireEnds, Unlock, sets, OnePass, TypeInv, TypeOK
  <1>15. CASE FireDelivers
    BY <1>15 DEF FireDelivers, FireEnds, Unlock, sets, OnePass, TypeInv, TypeOK
  <1>16. CASE FireStashes
    BY <1>16 DEF FireStashes, FireEnds, Unlock, Fault, sets, OnePass, TypeInv, TypeOK
  <1>17. ASSUME NEW p \in Passes, PassLists(p) PROVE OnePass'
    BY <1>17 DEF PassLists, Sweep, sets, OnePass, TypeInv, TypeOK, Working, Loaded, Idle
  <1>18. ASSUME NEW p \in Passes, PassSkips(p) PROVE OnePass'
    BY <1>18 DEF PassSkips, Sweep, sets, OnePass, TypeInv, TypeOK, Working, Loaded, Idle
  <1>19. ASSUME NEW p \in Passes, PassTakes(p) PROVE OnePass'
    BY <1>19
       DEF PassTakes, Loads, Begins, Sweep, SweepEnds, Unanswered, sets, OnePass, TypeInv,
           TypeOK, Working, Loaded, Idle
  <1>20. ASSUME NEW p \in Passes, PassHeals(p) PROVE OnePass'
    BY <1>20 DEF PassHeals, Sweep, sets, OnePass, TypeInv, TypeOK, Working, Loaded, Idle
  <1>21. ASSUME NEW p \in Passes, PassHealed(p) PROVE OnePass'
    <2>1. \A q \in Passes : q # p => pass'[q] = pass[q]
      BY <1>21 DEF PassHealed, Loads, Begins, Sweep, SweepEnds, TypeInv, TypeOK
    <2>2. pass'[p].pc \in Working => recovering'
      BY <1>21
         DEF PassHealed, Loads, Begins, Sweep, SweepEnds, TypeInv, TypeOK, Idle, Working,
             Loaded
    <2>3. \A q \in Passes : pass[q].pc \in Working => q = p
      BY <1>21 DEF PassHealed, OnePass, Working
    <2> QED
      BY <2>1, <2>2, <2>3 DEF OnePass
  <1>22. ASSUME NEW p \in Passes, PassHealFails(p) PROVE OnePass'
    BY <1>22
       DEF PassHealFails, Sweep, SweepEnds, Fault, sets, OnePass, TypeInv, TypeOK, Working,
           Loaded, Idle
  <1>23. ASSUME NEW p \in Passes, PassAlerted(p) PROVE OnePass'
    BY <1>23
       DEF PassAlerted, Begins, Sweep, sets, OnePass, TypeInv, TypeOK, Working, Loaded, Idle
  <1>24. ASSUME NEW p \in Passes, PassFlushed(p) PROVE OnePass'
    BY <1>24
       DEF PassFlushed, Disposes, Sweep, SweepEnds, sets, OnePass, TypeInv, TypeOK, Working,
           Loaded, Idle
  <1>25. ASSUME NEW p \in Passes, PassDropsReply(p) PROVE OnePass'
    BY <1>25
       DEF PassDropsReply, Sweep, Fault, sets, OnePass, TypeInv, TypeOK, Working, Loaded, Idle
  <1>26. ASSUME NEW p \in Passes, PassBails(p) PROVE OnePass'
    BY <1>26
       DEF PassBails, Sweep, SweepEnds, Fault, sets, OnePass, TypeInv, TypeOK, Working,
           Loaded, Idle
  <1>27. ASSUME NEW p \in Passes, PassReplies(p) PROVE OnePass'
    BY <1>27
       DEF PassReplies, Sweep, Holds, sets, OnePass, TypeInv, TypeOK, Working, Loaded, Idle
  <1>28. ASSUME NEW p \in Passes, PassSilent(p) PROVE OnePass'
    BY <1>28
       DEF PassSilent, Sweep, Holds, Unlock, sets, OnePass, TypeInv, TypeOK, Working, Loaded,
           Idle
  <1>29. ASSUME NEW p \in Passes, PassFails(p) PROVE OnePass'
    BY <1>29
       DEF PassFails, Sweep, SweepEnds, Holds, Unlock, Fault, sets, OnePass, TypeInv, TypeOK,
           Working, Loaded, Idle
  <1>30. ASSUME NEW p \in Passes, PassDelivers(p) PROVE OnePass'
    BY <1>30
       DEF PassDelivers, Sweep, Unlock, sets, OnePass, TypeInv, TypeOK, Working, Loaded, Idle
  <1>31. ASSUME NEW p \in Passes, PassStashes(p) PROVE OnePass'
    BY <1>31
       DEF PassStashes, Sweep, Unlock, Fault, sets, OnePass, TypeInv, TypeOK, Working, Loaded,
           Idle
  <1>32. ASSUME NEW p \in Passes, PassMarks(p) PROVE OnePass'
    BY <1>32
       DEF PassMarks, Disposes, Sweep, SweepEnds, sets, OnePass, TypeInv, TypeOK, Working,
           Loaded, Idle
  <1>33. ASSUME NEW d \in Drains, DrainLists(d) PROVE OnePass'
    BY <1>33 DEF DrainLists, sets, OnePass, TypeInv, TypeOK
  <1>34. ASSUME NEW d \in Drains, DrainTakes(d) PROVE OnePass'
    BY <1>34 DEF DrainTakes, sets, OnePass, TypeInv, TypeOK
  <1>35. ASSUME NEW d \in Drains, DrainDelivers(d) PROVE OnePass'
    BY <1>35 DEF DrainDelivers, DrainEnds, sets, OnePass, TypeInv, TypeOK
  <1>36. ASSUME NEW d \in Drains, DrainFails(d) PROVE OnePass'
    BY <1>36 DEF DrainFails, DrainEnds, Fault, sets, OnePass, TypeInv, TypeOK
  <1>37. CASE UNCHANGED vars
    BY <1>37
       DEF vars, OnePass, chat, state, sets, hist, bounds, TypeInv, TypeOK, Working, Loaded,
           Idle
  <1> QED
    BY <1>1, <1>2, <1>3, <1>4, <1>5, <1>6, <1>7, <1>8, <1>9, <1>10, <1>11, <1>12, <1>13, <1>14,
       <1>15, <1>16, <1>17, <1>18, <1>19, <1>20, <1>21, <1>22, <1>23, <1>24, <1>25, <1>26,
       <1>27, <1>28, <1>29, <1>30, <1>31, <1>32, <1>33, <1>34, <1>35, <1>36, <1>37
       DEF Next, TurnNext, FireNext, PassNext, DrainNext

\* A row is counted by the pass that carries it, once.
LEMMA UnmarkedStep == TypeInv /\ OnePass /\ Unmarked /\ [Next]_vars => Unmarked'
  <1> SUFFICES ASSUME TypeInv, OnePass, Unmarked, [Next]_vars
               PROVE  Unmarked'
    OBVIOUS
  <1>1. CASE Land
    BY <1>1 DEF Land, state, hist, Unmarked, TypeInv, TypeOK, OnePass, Replies, Rows
  <1>2. CASE TurnQueues
    BY <1>2 DEF TurnQueues, state, hist, Unmarked, TypeInv, TypeOK, OnePass, Replies, Rows
  <1>3. CASE TurnStarts
    BY <1>3
       DEF TurnStarts, Holds, state, hist, Unmarked, TypeInv, TypeOK, OnePass, Replies, Rows
  <1>4. CASE TurnFlushed
    BY <1>4
       DEF TurnFlushed, TurnEnds, Unlock, state, hist, Unmarked, TypeInv, TypeOK, OnePass,
           Replies, Rows
  <1>5. CASE TurnDropsReply
    BY <1>5
       DEF TurnDropsReply, Fault, state, hist, Unmarked, TypeInv, TypeOK, OnePass, Replies,
           Rows
  <1>6. CASE TurnBails
    BY <1>6
       DEF TurnBails, TurnEnds, Unlock, Fault, state, hist, Unmarked, TypeInv, TypeOK,
           OnePass, Replies, Rows
  <1>7. CASE TurnReplies
    BY <1>7 DEF TurnReplies, state, hist, Unmarked, TypeInv, TypeOK, OnePass, Replies, Rows
  <1>8. CASE TurnFails
    BY <1>8
       DEF TurnFails, TurnEnds, Unlock, Fault, state, hist, Unmarked, TypeInv, TypeOK,
           OnePass, Replies, Rows
  <1>9. CASE TurnDelivers
    BY <1>9
       DEF TurnDelivers, TurnEnds, Unlock, state, hist, Unmarked, TypeInv, TypeOK, OnePass,
           Replies, Rows
  <1>10. CASE TurnStashes
    BY <1>10
       DEF TurnStashes, TurnEnds, Unlock, Fault, state, hist, Unmarked, TypeInv, TypeOK,
           OnePass, Replies, Rows
  <1>11. CASE TurnLosesReply
    BY <1>11
       DEF TurnLosesReply, TurnEnds, Unlock, Fault, state, hist, Unmarked, TypeInv, TypeOK,
           OnePass, Replies, Rows
  <1>12. CASE FireQueues
    BY <1>12 DEF FireQueues, state, hist, Unmarked, TypeInv, TypeOK, OnePass, Replies, Rows
  <1>13. CASE FireReplies
    BY <1>13
       DEF FireReplies, Holds, state, hist, Unmarked, TypeInv, TypeOK, OnePass, Replies, Rows
  <1>14. CASE FireFails
    BY <1>14
       DEF FireFails, Holds, Fault, FireEnds, Unlock, state, hist, Unmarked, TypeInv, TypeOK,
           OnePass, Replies, Rows
  <1>15. CASE FireDelivers
    BY <1>15
       DEF FireDelivers, FireEnds, Unlock, state, hist, Unmarked, TypeInv, TypeOK, OnePass,
           Replies, Rows
  <1>16. CASE FireStashes
    BY <1>16
       DEF FireStashes, FireEnds, Unlock, Fault, state, hist, Unmarked, TypeInv, TypeOK,
           OnePass, Replies, Rows
  <1>17. ASSUME NEW p \in Passes, PassLists(p) PROVE Unmarked'
    BY <1>17, Carried
       DEF PassLists, Sweep, state, hist, Unmarked, TypeInv, TypeOK, OnePass, Working, Loaded,
           Idle, Replies, Rows
  <1>18. ASSUME NEW p \in Passes, PassSkips(p) PROVE Unmarked'
    BY <1>18, Carried
       DEF PassSkips, Sweep, state, hist, Unmarked, TypeInv, TypeOK, OnePass, Working, Loaded,
           Idle, Replies, Rows
  <1>19. ASSUME NEW p \in Passes, PassTakes(p) PROVE Unmarked'
    BY <1>19, LoadsUnmarked DEF TypeInv, PassTakes, hist, state
  <1>20. ASSUME NEW p \in Passes, PassHeals(p) PROVE Unmarked'
    BY <1>20, Carried
       DEF PassHeals, Sweep, state, hist, Unmarked, TypeInv, TypeOK, OnePass, Working, Loaded,
           Idle, Replies, Rows
  <1>21. ASSUME NEW p \in Passes, PassHealed(p) PROVE Unmarked'
    BY <1>21, LoadsUnmarked DEF TypeInv, PassHealed, hist, state
  <1>22. ASSUME NEW p \in Passes, PassHealFails(p) PROVE Unmarked'
    BY <1>22, Carried
       DEF PassHealFails, Sweep, SweepEnds, Fault, state, hist, Unmarked, TypeInv, TypeOK,
           OnePass, Working, Loaded, Idle, Replies, Rows
  <1>23. ASSUME NEW p \in Passes, PassAlerted(p) PROVE Unmarked'
    <2>1. pass'[p].pc \in Loaded => pass'[p].rows = pass[p].rows
      <3>1. PICK s \in {[pass[p] EXCEPT !.pc = "flush", !.rows = pass[p].rows, !.reply = outbox],
                         [pass[p] EXCEPT !.pc = "wait", !.rows = pass[p].rows]} : Sweep(p, s)
        BY <1>23 DEF PassAlerted, Begins
      <3>2. pass[p] \in PassStates
        BY Carried DEF TypeInv
      <3>3. s.rows = pass[p].rows
        BY <3>1, <3>2 DEF PassStates
      <3> QED
        BY <3>1, <3>3 DEF Sweep, TypeInv, TypeOK
    <2>2. \A q \in Passes \ {p} : pass'[q] = pass[q]
      BY <1>23 DEF TypeInv, TypeOK, PassAlerted, Begins, Sweep
    <2>3. pass[p].pc \in Loaded
      BY <1>23 DEF PassAlerted, Loaded
    <2> QED
      BY <1>23, <2>1, <2>2, <2>3 DEF PassAlerted, Unmarked, hist, state
  <1>24. ASSUME NEW p \in Passes, PassFlushed(p) PROVE Unmarked'
    BY <1>24, Carried
       DEF PassFlushed, Disposes, Sweep, SweepEnds, state, hist, Unmarked, TypeInv, TypeOK,
           OnePass, Working, Loaded, Idle, Replies, Rows
  <1>25. ASSUME NEW p \in Passes, PassDropsReply(p) PROVE Unmarked'
    BY <1>25, Carried
       DEF PassDropsReply, Sweep, Fault, state, hist, Unmarked, TypeInv, TypeOK, OnePass,
           Working, Loaded, Idle, Replies, Rows
  <1>26. ASSUME NEW p \in Passes, PassBails(p) PROVE Unmarked'
    BY <1>26, Carried
       DEF PassBails, Sweep, SweepEnds, Fault, state, hist, Unmarked, TypeInv, TypeOK,
           OnePass, Working, Loaded, Idle, Replies, Rows
  <1>27. ASSUME NEW p \in Passes, PassReplies(p) PROVE Unmarked'
    BY <1>27, Carried
       DEF PassReplies, Sweep, Holds, state, hist, Unmarked, TypeInv, TypeOK, OnePass,
           Working, Loaded, Idle, Replies, Rows
  <1>28. ASSUME NEW p \in Passes, PassSilent(p) PROVE Unmarked'
    BY <1>28, Carried
       DEF PassSilent, Sweep, Holds, Unlock, state, hist, Unmarked, TypeInv, TypeOK, OnePass,
           Working, Loaded, Idle, Replies, Rows
  <1>29. ASSUME NEW p \in Passes, PassFails(p) PROVE Unmarked'
    BY <1>29, Carried
       DEF PassFails, Sweep, SweepEnds, Holds, Unlock, Fault, state, hist, Unmarked, TypeInv,
           TypeOK, OnePass, Working, Loaded, Idle, Replies, Rows
  <1>30. ASSUME NEW p \in Passes, PassDelivers(p) PROVE Unmarked'
    BY <1>30, Carried
       DEF PassDelivers, Sweep, Unlock, state, hist, Unmarked, TypeInv, TypeOK, OnePass,
           Working, Loaded, Idle, Replies, Rows
  <1>31. ASSUME NEW p \in Passes, PassStashes(p) PROVE Unmarked'
    BY <1>31, Carried
       DEF PassStashes, Sweep, Unlock, Fault, state, hist, Unmarked, TypeInv, TypeOK, OnePass,
           Working, Loaded, Idle, Replies, Rows
  <1>32. ASSUME NEW p \in Passes, PassMarks(p) PROVE Unmarked'
    BY <1>32, Carried
       DEF PassMarks, Disposes, Sweep, SweepEnds, state, hist, Unmarked, TypeInv, TypeOK,
           OnePass, Working, Loaded, Idle, Replies, Rows
  <1>33. ASSUME NEW d \in Drains, DrainLists(d) PROVE Unmarked'
    BY <1>33 DEF DrainLists, state, hist, Unmarked, TypeInv, TypeOK, OnePass, Replies, Rows
  <1>34. ASSUME NEW d \in Drains, DrainTakes(d) PROVE Unmarked'
    BY <1>34 DEF DrainTakes, state, hist, Unmarked, TypeInv, TypeOK, OnePass, Replies, Rows
  <1>35. ASSUME NEW d \in Drains, DrainDelivers(d) PROVE Unmarked'
    BY <1>35
       DEF DrainDelivers, DrainEnds, state, hist, Unmarked, TypeInv, TypeOK, OnePass, Replies,
           Rows
  <1>36. ASSUME NEW d \in Drains, DrainFails(d) PROVE Unmarked'
    BY <1>36
       DEF DrainFails, DrainEnds, Fault, state, hist, Unmarked, TypeInv, TypeOK, OnePass,
           Replies, Rows
  <1>37. CASE UNCHANGED vars
    BY <1>37
       DEF vars, Unmarked, chat, state, sets, hist, bounds, TypeInv, TypeOK, OnePass, Working,
           Loaded, Idle, Replies, Rows
  <1> QED
    BY <1>1, <1>2, <1>3, <1>4, <1>5, <1>6, <1>7, <1>8, <1>9, <1>10, <1>11, <1>12, <1>13, <1>14,
       <1>15, <1>16, <1>17, <1>18, <1>19, <1>20, <1>21, <1>22, <1>23, <1>24, <1>25, <1>26,
       <1>27, <1>28, <1>29, <1>30, <1>31, <1>32, <1>33, <1>34, <1>35, <1>36, <1>37
       DEF Next, TurnNext, FireNext, PassNext, DrainNext

-----------------------------------------------------------------------------

\* It holds before the first message.
LEMMA Initially == Init => IInv
  <1> SUFFICES ASSUME Init
               PROVE  IInv
    OBVIOUS
  <1> USE BoundsAssumption DEF Init, state, chat, sets, hist, bounds
  <1>1. TypeOK
    <2>1. Off \in LiveStates
      BY DEF Off, LiveStates, Replies
    <2>2. Still \in FireStates /\ Still \in DrainStates
      BY DEF Still, FireStates, DrainStates
    <2>3. Idle \in PassStates
      BY DEF Idle, PassStates, Replies
    <2>4. Times
      BY DEF Times
    <2>5. RowSets
      BY DEF RowSets, Rows
    <2>6. Flags
      BY DEF Flags
    <2>7. Counts
      BY DEF Counts
    <2>8. live \in LiveStates /\ fire \in FireStates
      BY <2>1, <2>2
    <2>9. pass \in [Passes -> PassStates] /\ drain \in [Drains -> DrainStates]
      BY <2>2, <2>3
    <2>10. queue \in Seq(Actors)
      OBVIOUS
    <2> QED
      BY <2>4, <2>5, <2>6, <2>7, <2>8, <2>9, <2>10 DEF TypeOK, Times, RowSets, Flags, Counts
  <1>2. Batches /\ LockHeld /\ OnePass
    BY DEF Batches, LockHeld, OnePass, Loaded, Working, Off, Still, Idle
  <1>3. Unmarked
    BY DEF Unmarked, Loaded, Idle
  <1> QED
    BY <1>1, <1>2, <1>3 DEF IInv

\* So it holds in every state.
LEMMA Inductive == Spec => []IInv
  <1>1. Init => IInv
    BY Initially
  <1>2. IInv /\ [Next]_vars => IInv'
    BY TypeStep, BatchesStep, LockHeldStep, OnePassStep, UnmarkedStep DEF IInv, TypeInv
  <1> QED
    BY <1>1, <1>2, PTL DEF Spec

\* Every variable of the recovery keeps its type: in particular a batch, a
\* stash and a cron never name a message that did not land within the bounds.
THEOREM Typing == Spec => []TypeOK
  <1>1. IInv => TypeOK
    BY DEF IInv
  <1> QED
    BY <1>1, Inductive, PTL

\* A turn, a fire and a recovery turn work under the session lock only, and a
\* step of another never takes it from them (session-lock.ts withSessionLock).
THEOREM UnderTheLock == Spec => []LockHeld
  <1>1. IInv => LockHeld
    BY DEF IInv
  <1> QED
    BY <1>1, Inductive, PTL

\* However many sweeps run, the set `recovering` lets one of them at a time
\* past the checks of evaluateSession, from the healer to markRecovered.
THEOREM OneRecovery == Spec => []OnePass
  <1>1. IInv => OnePass
    BY DEF IInv
  <1> QED
    BY <1>1, Inductive, PTL

\* No message is disposed of by two recovery turns, for any number of
\* messages, sweeps, drains, failures and fires (sweeper.ts, turn.ts
\* markRecovered).
THEOREM NoDoubleRecovery == Spec => []RecoveredOnce
  <1>1. IInv => RecoveredOnce
    BY DEF IInv, Unmarked, RecoveredOnce
  <1> QED
    BY <1>1, Inductive, PTL
-----------------------------------------------------------------------------
(* No set keeps a session that nobody works on, and no lock a holder that is gone. *)

\* The session is in one of the module-level sets only while somebody is at work
\* who will take it out again; and one drain at a time sends its queued reply.
FlagsOwned ==
    /\ active <=> live.pc \in {"flush", "model", "send"}
    /\ recovering => \E p \in Passes : pass[p].pc \in Working
    /\ inFlight <=> \E d \in Drains : drain[d].pc = "send"
    /\ \A d, e \in Drains : drain[d].pc = "send" /\ drain[e].pc = "send" => d = e

\* Every way out of a turn, a recovery turn and a drain takes the session out.
LEMMA FlagsStep == IInv /\ FlagsOwned /\ [Next]_vars => FlagsOwned'
  <1> SUFFICES ASSUME IInv, FlagsOwned, [Next]_vars
               PROVE  FlagsOwned'
    OBVIOUS
  <1> USE DEF IInv, TypeOK
  <1>1. CASE Land \/ TurnNext \/ FireNext
    <2>1. UNCHANGED <<recovering, inFlight, pass, drain>>
      BY <1>1 DEF Land, TurnNext, FireNext, TurnQueues, TurnStarts, TurnFlushed, TurnDropsReply,
                  TurnBails, TurnReplies, TurnFails, TurnDelivers, TurnStashes, TurnLosesReply,
                  FireQueues, FireReplies, FireFails, FireDelivers, FireStashes, TurnEnds, sets
    <2>2. active' <=> live'.pc \in {"flush", "model", "send"}
      <3>1. CASE Land \/ FireNext \/ TurnQueues
        BY <3>1 DEF Land, FireNext, TurnQueues, FireQueues, FireReplies, FireFails, FireDelivers,
                    FireStashes, sets, FlagsOwned, Off
      <3>2. CASE TurnStarts
        BY <3>2 DEF TurnStarts
      <3>3. CASE TurnDropsReply \/ TurnReplies
        BY <3>3 DEF TurnDropsReply, TurnReplies, sets, FlagsOwned, LiveStates
      <3>4. CASE TurnFlushed \/ TurnBails \/ TurnFails \/ TurnDelivers \/ TurnStashes \/ TurnLosesReply
        BY <3>4 DEF TurnFlushed, TurnBails, TurnFails, TurnDelivers, TurnStashes, TurnLosesReply,
                    TurnEnds, Off
      <3> QED BY <1>1, <3>1, <3>2, <3>3, <3>4 DEF TurnNext
    <2> QED BY <2>1, <2>2 DEF FlagsOwned
  <1>2. ASSUME NEW p \in Passes, PassNext(p) PROVE FlagsOwned'
    <2>1. UNCHANGED <<active, inFlight, live, drain>>
      BY <1>2 DEF PassNext, PassLists, PassSkips, PassTakes, PassHeals, PassHealed, PassHealFails,
                  PassAlerted, PassFlushed, PassDropsReply, PassBails, PassReplies, PassSilent,
                  PassFails, PassDelivers, PassStashes, PassMarks, sets
    <2>2. recovering' => \E q \in Passes : pass'[q].pc \in Working
      <3>1. CASE recovering' = FALSE
        BY <3>1
      <3>2. CASE PassLists(p) \/ PassSkips(p)
        <4>1. recovering' = recovering /\ \A q \in Passes : q # p => pass'[q] = pass[q]
          BY <3>2 DEF PassLists, PassSkips, Sweep, sets
        <4>2. pass[p].pc \notin Working
          BY <3>2 DEF PassLists, PassSkips, Working, Loaded
        <4> QED BY <4>1, <4>2 DEF FlagsOwned
      <3>3. CASE PassTakes(p) \/ PassHealed(p)
        <4>1. Loads(p) /\ "pc" \in DOMAIN pass[p]
          BY <3>3, Carried DEF PassTakes, PassHealed, PassStates
        <4>2. \A rows : Begins(p, rows) => pass'[p].pc \in Working
          BY <4>1 DEF Begins, Sweep, Working, Loaded
        <4>3. CASE Sweep(p, [pass[p] EXCEPT !.pc = "alert", !.rows = Unanswered(p)])
          BY <4>1, <4>3 DEF Sweep, Working, Loaded
        <4>4. CASE SweepEnds(p)
          BY <4>4 DEF SweepEnds
        <4> QED BY <4>1, <4>2, <4>3, <4>4 DEF Loads
      <3>4. CASE PassHeals(p) \/ PassAlerted(p) \/ PassDropsReply(p) \/ PassReplies(p)
                 \/ PassSilent(p) \/ PassDelivers(p) \/ PassStashes(p)
        <4>1. "pc" \in DOMAIN pass[p]
          BY Carried DEF PassStates
        <4>2. \A rows : Begins(p, rows) => pass'[p].pc \in Working
          BY <4>1 DEF Begins, Sweep, Working, Loaded
        <4>3. CASE PassAlerted(p)
          BY <4>2, <4>3 DEF PassAlerted
        <4>4. CASE PassHeals(p) \/ PassDropsReply(p) \/ PassReplies(p)
          BY <4>1, <4>4 DEF PassHeals, PassDropsReply, PassReplies, Sweep, Working, Loaded
        <4>5. CASE PassSilent(p) \/ PassDelivers(p) \/ PassStashes(p)
          BY <4>1, <4>5 DEF PassSilent, PassDelivers, PassStashes, Sweep, Working, Loaded
        <4> QED BY <3>4, <4>3, <4>4, <4>5
      <3>5. CASE PassHealFails(p) \/ PassFlushed(p) \/ PassBails(p) \/ PassFails(p) \/ PassMarks(p)
        BY <3>5 DEF PassHealFails, PassFlushed, PassBails, PassFails, PassMarks, SweepEnds
      <3> QED BY <1>2, <3>1, <3>2, <3>3, <3>4, <3>5 DEF PassNext
    <2> QED BY <2>1, <2>2 DEF FlagsOwned
  <1>3. ASSUME NEW d \in Drains, DrainNext(d) PROVE FlagsOwned'
    <2>1. UNCHANGED <<active, recovering, live, pass>>
      BY <1>3 DEF DrainNext, DrainLists, DrainTakes, DrainDelivers, DrainFails, DrainEnds, sets
    <2>2. \A e \in Drains : e # d => drain'[e] = drain[e]
      BY <1>3 DEF DrainNext, DrainLists, DrainTakes, DrainDelivers, DrainFails, DrainEnds
    <2>3. CASE DrainLists(d)
      <3>1. inFlight' = inFlight /\ drain[d].pc # "send" /\ drain'[d].pc # "send"
        BY <2>3 DEF DrainLists, sets
      <3> QED BY <2>1, <2>2, <3>1 DEF FlagsOwned
    <2>4. CASE DrainTakes(d)
      <3>1. drain'[d].pc = IF inFlight THEN "off" ELSE "send"
        BY <2>4, Carried DEF DrainTakes, Still, DrainStates
      <3>2. drain[d].pc # "send" /\ inFlight' = TRUE
        BY <2>4 DEF DrainTakes
      <3> QED BY <2>1, <2>2, <3>1, <3>2 DEF FlagsOwned
    <2>5. CASE DrainDelivers(d) \/ DrainFails(d)
      <3>1. drain[d].pc = "send" /\ inFlight' = FALSE /\ drain'[d].pc = "off"
        BY <2>5 DEF DrainDelivers, DrainFails, DrainEnds, Still
      <3> QED BY <2>1, <2>2, <3>1 DEF FlagsOwned
    <2> QED BY <1>3, <2>3, <2>4, <2>5 DEF DrainNext
  <1>4. CASE UNCHANGED vars
    BY <1>4 DEF vars, sets, FlagsOwned
  <1> QED BY <1>1, <1>2, <1>3, <1>4 DEF Next

\* A session is never left in activeSessions, `recovering` or the drainer's set by
\* a turn, a sweep or a drain that ended, however it ended: any of them would keep
\* recovery from the session for good (sweeper.ts, drainer.ts: the finally blocks).
\* One drain at a time sends the queued reply.
THEOREM NoFlagIsLeft == Spec => []FlagsOwned
  <1>1. Init => FlagsOwned
    BY DEF Init, FlagsOwned, Off, Still
  <1> QED BY <1>1, FlagsStep, Inductive, PTL DEF Spec

-----------------------------------------------------------------------------

\* q lists S, each member once.
Enumerates(q, S) ==
    /\ \A x \in S : \E i \in 1..Len(q) : q[i] = x
    /\ \A i \in 1..Len(q) : q[i] \in S
    /\ \A i, j \in 1..Len(q) : q[i] = q[j] => i = j

\* Who asked for the session lock and has not given it up.
InLock == {x \in Actors : \/ x = "live" /\ live.pc # "off"
                          \/ x = "fire" /\ fire.pc # "off"
                          \/ x \in Passes /\ pass[x].pc \in {"wait", "send"}}

\* The lock's queue is they: its head is somebody who goes on.
LockMoves == Enumerates(queue, InLock)

\* One asks who is not there yet.
LEMMA AskedFor ==
    ASSUME NEW q \in Seq(Actors), NEW S, Enumerates(q, S), NEW x \in Actors, x \notin S
    PROVE  Enumerates(Append(q, x), S \cup {x})
  <1> DEFINE n == Len(q) + 1
             r == Append(q, x)
  <1>1. Len(q) \in Nat /\ Len(r) = n /\ r[n] = x /\ n \in 1..n /\ \A i \in 1..Len(q) : r[i] = q[i] /\ i # n /\ i \in 1..n
    OBVIOUS
  <1>2. \A i \in 1..n : i \in 1..Len(q) \/ i = n
    BY <1>1
  <1> HIDE DEF n, r
  <1>3. \A y \in S \cup {x} : \E i \in 1..n : r[i] = y
    BY <1>1 DEF Enumerates
  <1>4. \A i \in 1..n : r[i] \in S \cup {x}
    BY <1>1, <1>2 DEF Enumerates
  <1>5. \A i, j \in 1..n : r[i] = r[j] => i = j
    <2> SUFFICES ASSUME NEW i \in 1..n, NEW j \in 1..n, r[i] = r[j] PROVE i = j
      OBVIOUS
    <2>1. CASE i \in 1..Len(q) /\ j \in 1..Len(q)
      BY <1>1, <2>1 DEF Enumerates
    <2>2. CASE i = n \/ j = n
      BY <1>1, <1>2, <2>2 DEF Enumerates
    <2> QED BY <1>2, <2>1, <2>2
  <1>6. Enumerates(r, S \cup {x})
    BY <1>1, <1>3, <1>4, <1>5 DEF Enumerates
  <1> QED BY <1>6 DEF r

\* The head gives it up.
LEMMA GivenUp ==
    ASSUME NEW q \in Seq(Actors), NEW S, Enumerates(q, S), q # <<>>
    PROVE  Enumerates(Tail(q), S \ {Head(q)})
  <1> DEFINE n == Len(q) - 1
             r == Tail(q)
             x == Head(q)
  <1>1. /\ Len(q) \in Nat \ {0} /\ Len(r) = n /\ x = q[1] /\ 1 \in 1..Len(q)
        /\ \A i \in 1..n : r[i] = q[i + 1] /\ i + 1 \in 1..Len(q) /\ i + 1 # 1 /\ i \in Nat
        /\ \A i \in 1..Len(q) : i # 1 => i - 1 \in 1..n /\ r[i - 1] = q[(i - 1) + 1] /\ (i - 1) + 1 = i
    OBVIOUS
  <1> HIDE DEF n, r, x
  <1>2. ASSUME NEW y \in S \ {x} PROVE \E i \in 1..n : r[i] = y
    <2>1. PICK i \in 1..Len(q) : q[i] = y
      BY DEF Enumerates
    <2>2. i # 1
      BY <1>1, <1>2, <2>1
    <2>3. i - 1 \in 1..n /\ r[i - 1] = y
      BY <1>1, <2>1, <2>2
    <2> QED BY <2>3
  <1>3. ASSUME NEW i \in 1..n PROVE r[i] \in S \ {x}
    <2>1. r[i] = q[i + 1] /\ i + 1 \in 1..Len(q) /\ i + 1 # 1
      BY <1>1
    <2> QED BY <1>1, <2>1 DEF Enumerates
  <1>4. ASSUME NEW i \in 1..n, NEW j \in 1..n, r[i] = r[j] PROVE i = j
    <2>1. i + 1 = j + 1
      BY <1>1, <1>4 DEF Enumerates
    <2> QED BY <1>1, <2>1
  <1>5. Enumerates(r, S \ {x})
    BY <1>1, <1>2, <1>3, <1>4 DEF Enumerates
  <1> QED BY <1>5 DEF r, x

\* The ways of a step with the lock.
LEMMA LockSteps ==
    ASSUME TypeOK, LockMoves,
           \/ UNCHANGED queue /\ InLock' = InLock
           \/ \E x \in Actors : queue' = Append(queue, x) /\ x \notin InLock /\ InLock' = InLock \cup {x}
           \/ \E x \in Actors : Holds(x) /\ Unlock /\ InLock' = InLock \ {x}
    PROVE  LockMoves'
  <1>1. queue \in Seq(Actors)
    BY DEF TypeOK
  <1>2. ASSUME NEW x \in Actors, queue' = Append(queue, x), x \notin InLock, InLock' = InLock \cup {x}
        PROVE  LockMoves'
    <2>1. Enumerates(Append(queue, x), InLock \cup {x})
      BY <1>1, <1>2, AskedFor DEF LockMoves
    <2> QED BY <1>2, <2>1 DEF LockMoves, Enumerates
  <1>3. ASSUME NEW x \in Actors, Holds(x), Unlock, InLock' = InLock \ {x}
        PROVE  LockMoves'
    <2>1. Enumerates(Tail(queue), InLock \ {Head(queue)})
      BY <1>1, <1>3, GivenUp DEF LockMoves, Holds
    <2> QED BY <1>3, <2>1 DEF LockMoves, Enumerates, Holds, Unlock
  <1>4. ASSUME UNCHANGED queue, InLock' = InLock PROVE LockMoves'
    BY <1>4 DEF LockMoves, Enumerates
  <1> QED BY <1>2, <1>3, <1>4

\* Who begins to recover, or is told the queued reply cannot be sent, asks for it.
LEMMA PassAsks ==
    ASSUME TypeOK, NEW p \in Passes, pass[p].pc \notin {"wait", "send"},
           UNCHANGED <<live, fire>>, NEW s \in PassStates, Sweep(p, s), s.pc # "send",
           IF s.pc = "wait" THEN queue' = Append(queue, p) ELSE UNCHANGED queue
    PROVE  \/ UNCHANGED queue /\ InLock' = InLock
           \/ \E x \in Actors : queue' = Append(queue, x) /\ x \notin InLock /\ InLock' = InLock \cup {x}
  <1>1. pass'[p] = s /\ \A q \in Passes : q # p => pass'[q] = pass[q]
    BY DEF Sweep, TypeOK
  <1>2. p \in Actors /\ p # "live" /\ p # "fire"
    BY ActorsAssumption DEF Actors
  <1>3. p \notin InLock
    BY <1>2 DEF InLock
  <1>4. CASE s.pc = "wait"
    <2>1. InLock' = InLock \cup {p}
      BY <1>1, <1>2, <1>4 DEF InLock
    <2> QED BY <1>2, <1>3, <1>4, <2>1
  <1>5. CASE s.pc # "wait"
    <2>1. InLock' = InLock
      BY <1>1, <1>2, <1>5 DEF InLock
    <2> QED BY <1>5, <2>1
  <1> QED BY <1>4, <1>5

\* Who ends, or is done with the delivery, gives it up.
LEMMA PassLeaves ==
    ASSUME TypeOK, NEW p \in Passes, Holds(p), Unlock,
           UNCHANGED <<live, fire>>, NEW s \in PassStates, Sweep(p, s), s.pc \notin {"wait", "send"}
    PROVE  \E x \in Actors : Holds(x) /\ Unlock /\ InLock' = InLock \ {x}
  <1>1. pass'[p] = s /\ \A q \in Passes : q # p => pass'[q] = pass[q]
    BY DEF Sweep, TypeOK
  <1>2. p \in Actors /\ p # "live" /\ p # "fire"
    BY ActorsAssumption DEF Actors
  <1>3. InLock' = InLock \ {p}
    BY <1>1, <1>2 DEF InLock
  <1> QED BY <1>2, <1>3

\* Every step: who asks was not in the queue, and who ends is its head.
LEMMA LockStep == IInv /\ LockMoves /\ [Next]_vars => LockMoves'
  <1> SUFFICES ASSUME IInv, LockMoves, [Next]_vars
               PROVE  LockMoves'
    OBVIOUS
  <1> USE DEF IInv
  <1>0. "live" \in Actors /\ "fire" \in Actors /\ "live" \notin Passes /\ "fire" \notin Passes
    BY ActorsAssumption DEF Actors
  <1>1. ASSUME UNCHANGED <<queue, fire, pass>>, live'.pc # "off" <=> live.pc # "off" PROVE LockMoves'
    <2>1. InLock' = InLock
      BY <1>1 DEF InLock
    <2> QED BY <1>1, <2>1, LockSteps
  <1>2. ASSUME UNCHANGED <<queue, live, pass>>, fire'.pc # "off" <=> fire.pc # "off" PROVE LockMoves'
    <2>1. InLock' = InLock
      BY <1>2 DEF InLock
    <2> QED BY <1>2, <2>1, LockSteps
  <1>3. ASSUME UNCHANGED <<fire, pass>>, queue' = Append(queue, "live"), live.pc = "off", live'.pc # "off"
        PROVE  LockMoves'
    <2>1. InLock' = InLock \cup {"live"} /\ "live" \notin InLock
      BY <1>0, <1>3 DEF InLock
    <2> QED BY <1>0, <1>3, <2>1, LockSteps
  <1>4. ASSUME UNCHANGED <<live, pass>>, queue' = Append(queue, "fire"), fire.pc = "off", fire'.pc # "off"
        PROVE  LockMoves'
    <2>1. InLock' = InLock \cup {"fire"} /\ "fire" \notin InLock
      BY <1>0, <1>4 DEF InLock
    <2> QED BY <1>0, <1>4, <2>1, LockSteps
  <1>5. ASSUME UNCHANGED <<fire, pass>>, Holds("live"), Unlock, live'.pc = "off" PROVE LockMoves'
    <2>1. InLock' = InLock \ {"live"}
      BY <1>0, <1>5 DEF InLock
    <2> QED BY <1>0, <1>5, <2>1, LockSteps
  <1>6. ASSUME UNCHANGED <<live, pass>>, Holds("fire"), Unlock, fire'.pc = "off" PROVE LockMoves'
    <2>1. InLock' = InLock \ {"fire"}
      BY <1>0, <1>6 DEF InLock
    <2> QED BY <1>0, <1>6, <2>1, LockSteps
  <1>7. CASE TurnNext
    <2>1. CASE TurnQueues
      BY <1>3, <2>1 DEF TurnQueues, Off
    <2>2. CASE TurnStarts \/ TurnDropsReply \/ TurnReplies
      <3>1. "pc" \in DOMAIN live
        BY DEF TypeOK, LiveStates
      <3>2. live.pc # "off" /\ live'.pc # "off"
        <4>1. CASE TurnStarts
          BY <4>1 DEF TurnStarts
        <4>2. CASE TurnDropsReply
          BY <3>1, <4>2 DEF TurnDropsReply
        <4>3. CASE TurnReplies
          BY <3>1, <4>3 DEF TurnReplies
        <4> QED BY <2>2, <4>1, <4>2, <4>3
      <3> QED BY <1>1, <2>2, <3>2 DEF TurnStarts, TurnDropsReply, TurnReplies
    <2>3. CASE TurnFlushed \/ TurnBails \/ TurnFails \/ TurnDelivers \/ TurnStashes \/ TurnLosesReply
      BY <1>5, <2>3 DEF TurnFlushed, TurnBails, TurnFails, TurnDelivers, TurnStashes, TurnLosesReply,
                        TurnEnds, Off, LockHeld
    <2> QED BY <1>7, <2>1, <2>2, <2>3 DEF TurnNext
  <1>8. CASE FireNext
    <2>1. CASE FireQueues
      <3>1. CASE queue' = Append(queue, "fire")
        BY <1>4, <2>1, <3>1 DEF FireQueues
      <3>2. CASE UNCHANGED <<fire, queue>>
        BY <1>2, <2>1, <3>2 DEF FireQueues
      <3> QED BY <2>1, <3>1, <3>2 DEF FireQueues
    <2>2. CASE FireReplies
      BY <1>2, <2>2 DEF FireReplies, TypeOK, FireStates
    <2>3. CASE FireFails \/ FireDelivers \/ FireStashes
      BY <1>6, <2>3 DEF FireFails, FireDelivers, FireStashes, FireEnds, Still, LockHeld
    <2> QED BY <1>8, <2>1, <2>2, <2>3 DEF FireNext
  <1>9. ASSUME NEW p \in Passes, PassNext(p) PROVE LockMoves'
    <2>1. CASE PassLists(p) \/ PassSkips(p) \/ PassHeals(p) \/ PassHealFails(p) \/ PassFlushed(p)
               \/ PassDropsReply(p) \/ PassBails(p) \/ PassMarks(p)
      <3>1. \E s \in PassStates : /\ Sweep(p, s) /\ s.pc # "send" /\ UNCHANGED <<live, fire>>
                                  /\ IF s.pc = "wait" THEN queue' = Append(queue, p) ELSE UNCHANGED queue
        <4>1. /\ Idle \in PassStates /\ Idle.pc = "off"
              /\ [Idle EXCEPT !.pc = "listed", !.since = lastOut] \in PassStates
              /\ [Idle EXCEPT !.pc = "listed", !.since = lastOut].pc = "listed"
              /\ [pass[p] EXCEPT !.pc = "heal"] \in PassStates
              /\ [pass[p] EXCEPT !.pc = "wait", !.reply = None] \in PassStates
          BY PassRecords DEF Idle
        <4>2. pass[p] \in PassStates
          BY Carried
        <4>3. /\ [pass[p] EXCEPT !.pc = "heal"].pc = "heal"
              /\ [pass[p] EXCEPT !.pc = "wait", !.reply = None].pc = "wait"
          BY <4>2 DEF PassStates
        <4>4. CASE PassSkips(p) \/ PassHealFails(p) \/ PassFlushed(p) \/ PassBails(p) \/ PassMarks(p)
          BY <4>1, <4>4 DEF PassSkips, PassHealFails, PassFlushed, PassBails, PassMarks, SweepEnds
        <4>5. CASE PassLists(p)
          BY <4>1, <4>5 DEF PassLists
        <4>6. CASE PassHeals(p)
          BY <4>1, <4>3, <4>6 DEF PassHeals
        <4>7. CASE PassDropsReply(p)
          BY <4>1, <4>3, <4>7 DEF PassDropsReply
        <4> QED BY <2>1, <4>4, <4>5, <4>6, <4>7
      <3>2. pass[p].pc \notin {"wait", "send"}
        BY <2>1 DEF PassLists, PassSkips, PassHeals, PassHealFails, PassFlushed, PassDropsReply,
                    PassBails, PassMarks
      <3> QED BY <3>1, <3>2, PassAsks, LockSteps
    <2>2. ASSUME NEW rows \in Replies, Begins(p, rows), UNCHANGED <<live, fire>>,
                 pass[p].pc \notin {"wait", "send"}
          PROVE  LockMoves'
      <3>1. pass[p] \in PassStates /\ (outbox # None => outbox \in Replies)
        BY Carried DEF TypeOK
      <3>2. CASE outbox # None
        <4>1. [pass[p] EXCEPT !.pc = "flush", !.rows = rows, !.reply = outbox] \in PassStates
          BY <3>2, PassRecords
        <4>2. [pass[p] EXCEPT !.pc = "flush", !.rows = rows, !.reply = outbox].pc = "flush"
          BY <3>1 DEF PassStates
        <4> QED BY <2>2, <3>2, <4>1, <4>2, PassAsks, LockSteps DEF Begins
      <3>3. CASE outbox = None
        <4>1. [pass[p] EXCEPT !.pc = "wait", !.rows = rows] \in PassStates
          BY PassRecords
        <4>2. [pass[p] EXCEPT !.pc = "wait", !.rows = rows].pc = "wait"
          BY <3>1 DEF PassStates
        <4> QED BY <2>2, <3>3, <4>1, <4>2, PassAsks, LockSteps DEF Begins
      <3> QED BY <3>2, <3>3
    <2>3. CASE PassTakes(p) \/ PassHealed(p)
      <3> DEFINE rows == Unanswered(p)
      <3>1. rows \in Replies /\ UNCHANGED <<live, fire>> /\ pass[p].pc \notin {"wait", "send"} /\ Loads(p)
        BY <2>3, LoadedRows DEF PassTakes, PassHealed
      <3>2. CASE SweepEnds(p) /\ UNCHANGED queue
        <4>1. Idle \in PassStates /\ Idle.pc = "off"
          BY PassRecords DEF Idle
        <4> QED BY <3>1, <3>2, <4>1, PassAsks, LockSteps DEF SweepEnds
      <3>3. CASE UNCHANGED queue /\ Sweep(p, [pass[p] EXCEPT !.pc = "alert", !.rows = rows])
        <4>1. [pass[p] EXCEPT !.pc = "alert", !.rows = rows] \in PassStates
          BY <3>1, PassRecords
        <4>2. [pass[p] EXCEPT !.pc = "alert", !.rows = rows].pc = "alert"
          BY Carried DEF PassStates
        <4> QED BY <3>1, <3>3, <4>1, <4>2, PassAsks, LockSteps
      <3>4. CASE Begins(p, rows)
        BY <2>2, <3>1, <3>4
      <3> QED BY <3>1, <3>2, <3>3, <3>4 DEF Loads
    <2>4. CASE PassAlerted(p)
      BY <2>2, <2>4, Carried DEF PassAlerted
    <2>5. CASE PassReplies(p)
      <3>1. \A q \in Passes : pass'[q].pc \in {"wait", "send"} <=> pass[q].pc \in {"wait", "send"}
        BY <2>5, Carried DEF PassReplies, Sweep, TypeOK, PassStates
      <3>2. InLock' = InLock
        BY <2>5, <3>1 DEF PassReplies, InLock
      <3> QED BY <2>5, <3>2, LockSteps DEF PassReplies
    <2>6. CASE PassFails(p)
      <3>1. Idle \in PassStates /\ Idle.pc = "off"
        BY PassRecords DEF Idle
      <3> QED BY <2>6, <3>1, PassLeaves, LockSteps DEF PassFails, SweepEnds
    <2>7. CASE PassSilent(p) \/ PassDelivers(p) \/ PassStashes(p)
      <3>1. [pass[p] EXCEPT !.pc = "mark"] \in PassStates
        BY PassRecords
      <3>2. [pass[p] EXCEPT !.pc = "mark"].pc = "mark"
        BY Carried DEF PassStates
      <3>3. Holds(p) /\ Unlock /\ UNCHANGED <<live, fire>> /\ Sweep(p, [pass[p] EXCEPT !.pc = "mark"])
        BY <2>7 DEF PassSilent, PassDelivers, PassStashes, LockHeld
      <3> QED BY <3>1, <3>2, <3>3, PassLeaves, LockSteps
    <2> QED BY <1>9, <2>1, <2>3, <2>4, <2>5, <2>6, <2>7 DEF PassNext
  <1>10. ASSUME UNCHANGED <<queue, live, fire, pass>> PROVE LockMoves'
    BY <1>1, <1>10
  <1>11. CASE Land \/ (\E d \in Drains : DrainNext(d)) \/ UNCHANGED vars
    BY <1>10, <1>11 DEF Land, DrainNext, DrainLists, DrainTakes, DrainDelivers, DrainFails, vars
  <1> QED BY <1>7, <1>8, <1>9, <1>11 DEF Next

\* The session lock is asked for once by each that works on the session, and its
\* head is one of them: whatever fails in a turn, a fire or a recovery turn, the
\* lock is not left to somebody who is gone.
THEOREM TheLockMovesOn == Spec => []LockMoves
  <1>1. Init => LockMoves
    BY DEF Init, LockMoves, Enumerates, InLock, Off, Still, Idle
  <1> QED BY <1>1, LockStep, Inductive, PTL DEF Spec

=============================================================================
