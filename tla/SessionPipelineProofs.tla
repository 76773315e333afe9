----------------------- MODULE SessionPipelineProofs -----------------------
(***************************************************************************)
(* Safety of SessionPipeline for any messages, windows, cap and holds.     *)
(*                                                                         *)
(* Both properties speak of a bucket that waits while somebody has the     *)
(* lock, so the invariant says who that can be: the head of the chain and  *)
(* no other, and a compact only while it can still be found to be aborted. *)
(*                                                                         *)
(* The last part is about what EveryMessageHandled rests on: the bucket    *)
(* keeps what it was given, and the lock has no holder but its head.       *)
(***************************************************************************)
EXTENDS SessionPipeline, SequenceTheorems, TLAPS

\* Who holds the lock is first in line for it.
HeldIsFirst == \A h \in Holds : phase[h] = "held" => AtHead(h)

\* The compact at work is the registered one, or was aborted: abortActiveCompact
\* never misses it.
GateKnows == \A h \in Compacts : phase[h] = "held" => h \in aborted \/ reg = h

\* What is in the bucket was sent.
BucketWasSent == \A i \in DOMAIN queue : queue[i] \in sent

IInv == TypeOK /\ BucketWasSent /\ HeldIsFirst /\ GateKnows /\ BurstIsBounded /\ CompactYields

-----------------------------------------------------------------------------

\* The kinds of holds are apart.
LEMMA Kinds ==
    /\ Flushes \subseteq Holds /\ Compacts \subseteq Holds /\ Others \subseteq Holds
    /\ \A h \in Flushes : h \notin Compacts /\ h \notin Others
    /\ \A h \in Compacts : h \notin Others
  BY HoldAssumption DEF Holds

\* A call that joins goes to the end of the chain; nobody there moves.
LEMMA JoinEffect ==
    ASSUME TypeOK, HeldIsFirst, NEW h \in Holds, Join(h)
    PROVE  /\ chain' \in Seq(Holds)
           /\ phase' \in [Holds -> Phases]
           /\ \A g \in Holds : phase'[g] = "held" => phase[g] = "held"
           /\ HeldIsFirst'
           /\ FlushAsked => FlushAsked'
           /\ h \in Flushes => FlushAsked'
<1> USE DEF TypeOK
<1>1. chain' = Append(chain, h) /\ chain' \in Seq(Holds) /\ chain' # <<>>
      /\ Len(chain') = Len(chain) + 1 /\ chain'[Len(chain')] = h
      /\ \A i \in 1..Len(chain) : chain'[i] = chain[i]
  BY DEF Join
<1>2. phase[h] = "idle" /\ phase' = [phase EXCEPT ![h] = "queued"]
  BY DEF Join, Free
<1>3. phase' \in [Holds -> Phases]
  BY <1>2 DEF Phases
<1>4. \A g \in Holds : phase'[g] = "held" => phase[g] = "held"
  BY <1>2
<1>5. HeldIsFirst'
  <2> SUFFICES ASSUME NEW g \in Holds, phase'[g] = "held" PROVE AtHead(g)'
    BY DEF HeldIsFirst
  <2>1. chain # <<>> /\ Head(chain) = g
    BY <1>4 DEF HeldIsFirst, AtHead
  <2>2. Head(chain') = Head(chain)
    BY <1>1, <2>1
  <2> QED BY <1>1, <2>1, <2>2 DEF AtHead
<1>6. FlushAsked => FlushAsked'
  <2> SUFFICES ASSUME NEW i \in DOMAIN chain, chain[i] \in Flushes, phase[chain[i]] = "queued"
               PROVE FlushAsked'
    BY DEF FlushAsked
  <2>1. chain[i] \in Holds /\ i \in 1..Len(chain) OBVIOUS
  <2>2. i \in DOMAIN chain' /\ chain'[i] = chain[i]
    BY <1>1, <2>1
  <2>3. phase'[chain'[i]] = "queued"
    BY <1>2, <2>1, <2>2
  <2> QED BY <2>2, <2>3 DEF FlushAsked
<1>7. h \in Flushes => FlushAsked'
  <2>1. Len(chain') \in DOMAIN chain'
    BY <1>1
  <2>2. phase'[h] = "queued"
    BY <1>2
  <2> QED BY <1>1, <2>1, <2>2 DEF FlushAsked
<1> QED BY <1>1, <1>3, <1>4, <1>5, <1>6, <1>7

\* The hold h moves to p, and the chain drops it if it was first and in the way
\* of the others: what HeldIsFirst and FlushAsked become.
LEMMA LeaveEffect ==
    ASSUME TypeOK, HeldIsFirst, NEW h \in Holds, NEW p \in Phases, AtHead(h),
           phase[h] \in {"queued", "held"}, p # "held",
           chain' = Tail(chain), phase' = [phase EXCEPT ![h] = p]
    PROVE  /\ chain' \in Seq(Holds)
           /\ phase' \in [Holds -> Phases]
           /\ \A g \in Holds : phase'[g] # "held"
           /\ HeldIsFirst'
           /\ FlushAsked /\ (h \notin Flushes \/ phase[h] = "held") => FlushAsked'
<1> USE DEF TypeOK
<1>1. chain # <<>> /\ Head(chain) = h
  BY DEF AtHead
<1>2. chain' \in Seq(Holds) /\ Len(chain') = Len(chain) - 1
      /\ \A i \in 1..Len(chain') : chain'[i] = chain[i + 1]
  BY <1>1
<1>3. phase' \in [Holds -> Phases]
  BY DEF Phases
<1>4. \A g \in Holds : phase'[g] # "held"
  BY <1>1 DEF HeldIsFirst, AtHead
<1>5. HeldIsFirst'
  BY <1>4 DEF HeldIsFirst
<1>6. ASSUME FlushAsked, h \notin Flushes \/ phase[h] = "held"
      PROVE  FlushAsked'
  <2>1. PICK i \in DOMAIN chain : chain[i] \in Flushes /\ phase[chain[i]] = "queued"
    BY <1>6 DEF FlushAsked
  <2>2. chain[i] # h
    BY <1>6, <2>1
  <2>3. i \in 1..Len(chain) /\ i # 1 /\ Len(chain) \in Nat
    BY <1>1, <2>2
  <2>4. i - 1 \in 1..Len(chain')
    BY <1>2, <2>3
  <2>5. chain'[i - 1] = chain[i]
    BY <1>2, <2>3, <2>4
  <2>6. phase'[chain'[i - 1]] = "queued"
    BY <2>1, <2>2, <2>3, <2>5
  <2>7. i - 1 \in DOMAIN chain'
    BY <1>2, <2>4
  <2> QED BY <2>1, <2>5, <2>6, <2>7 DEF FlushAsked
<1> QED BY <1>2, <1>3, <1>4, <1>5, <1>6

\* Only the phase of h changes, and the chain does not.
LEMMA StayEffect ==
    ASSUME TypeOK, HeldIsFirst, NEW h \in Holds, NEW p \in Phases, phase[h] # "idle",
           p = "held" => AtHead(h), h \notin Flushes \/ phase[h] = "zombie" \/ p = "queued",
           UNCHANGED chain, phase' = [phase EXCEPT ![h] = p]
    PROVE  /\ phase' \in [Holds -> Phases]
           /\ \A g \in Holds : phase'[g] = "held" => phase[g] = "held" \/ (g = h /\ p = "held")
           /\ HeldIsFirst'
           /\ FlushAsked => FlushAsked'
<1> USE DEF TypeOK
<1>1. phase' \in [Holds -> Phases]
  BY DEF Phases
<1>2. \A g \in Holds : g # h => phase'[g] = phase[g]
  OBVIOUS
<1>3. phase'[h] = p
  OBVIOUS
<1>4. HeldIsFirst'
  BY <1>2, <1>3 DEF HeldIsFirst, AtHead
<1>5. ASSUME FlushAsked PROVE FlushAsked'
  <2>1. PICK i \in DOMAIN chain : chain[i] \in Flushes /\ phase[chain[i]] = "queued"
    BY <1>5 DEF FlushAsked
  <2>2. chain[i] \in Holds
    BY <2>1
  <2>3. phase'[chain[i]] = "queued"
    BY <1>2, <1>3, <2>1, <2>2
  <2> QED BY <2>1, <2>3 DEF FlushAsked
<1> QED BY <1>1, <1>2, <1>3, <1>4, <1>5

\* The bucket of a message that opens it anew: its batch is due within the cap.
LEMMA WindowBounded ==
    ASSUME TypeOK, NEW m \in Msgs
    PROVE  Window(m) \in Nat /\ Window(m) + waited <= MaxMs
  BY MaxAssumption, WindowAssumption DEF TypeOK, Window, Least

\* What is queued was sent.
LEMMA QueuedWasSent == ASSUME IInv PROVE Queued \subseteq sent
  BY DEF IInv, BucketWasSent, Queued

\* It holds initially.
LEMMA InitIInv == Init => IInv
  BY MaxAssumption, HoldAssumption
     DEF Init, IInv, TypeOK, HeldIsFirst, BucketWasSent, GateKnows, BurstIsBounded, CompactYields, Holds, Phases

-----------------------------------------------------------------------------
(* The steps *)

\* enqueue: either the flush joins the chain, or the timer is set within the cap; the
\* registered compact is aborted.
LEMMA EnqueueKeeps ==
    ASSUME IInv, NEW m \in Msgs, Enqueue(m)
    PROVE  IInv'
<1> USE DEF IInv
<1>1. PICK w \in Nat : w = Window(m) /\ w + waited <= MaxMs
  BY WindowBounded
<1>2. /\ queue' \in Seq(Msgs)
      /\ waited' = waited /\ waited' \in 0..MaxMs
      /\ reg' = None
      /\ aborted' = AbortActiveCompact
      /\ aborted' \subseteq Compacts /\ aborted \subseteq aborted'
      /\ reg # None => reg \in aborted'
      /\ owed' \subseteq Flushes
      /\ sent' \subseteq Msgs
      /\ handled' \subseteq sent'
  BY DEF Enqueue, TypeOK, AbortActiveCompact
<1>3. /\ \A g \in Holds : phase'[g] = "held" => phase[g] = "held"
      /\ chain' \in Seq(Holds) /\ phase' \in [Holds -> Phases]
      /\ HeldIsFirst'
      /\ timer' \in Nat \cup {None}
      /\ FlushAsked' \/ (timer' # None /\ timer' + waited' <= MaxMs)
  <2>1. CASE w = 0
    <3>1. PICK h \in Flushes : Join(h)
      BY <1>1, <2>1 DEF Enqueue
    <3>2. timer' = None
      BY <1>1, <2>1 DEF Enqueue
    <3>3. h \in Holds
      BY Kinds
    <3>4. /\ \A g \in Holds : phase'[g] = "held" => phase[g] = "held"
          /\ chain' \in Seq(Holds) /\ phase' \in [Holds -> Phases]
          /\ HeldIsFirst' /\ FlushAsked'
      BY <3>1, <3>3, JoinEffect
    <3> QED BY <3>2, <3>4
  <2>2. CASE w # 0
    <3>1. timer' = w /\ UNCHANGED <<chain, phase>>
      BY <1>1, <2>2 DEF Enqueue
    <3>2. timer' # None /\ timer' + waited' <= MaxMs
      BY <1>1, <1>2, <3>1, NoneAssumption
    <3> QED BY <3>1, <3>2, <1>1 DEF TypeOK, HeldIsFirst, AtHead
  <2> QED BY <2>1, <2>2
<1>4. TypeOK'
  BY <1>2, <1>3 DEF TypeOK
<1>5. GateKnows' /\ CompactYields'
  <2>1. \A g \in Compacts : phase'[g] = "held" => g \in aborted'
    <3> SUFFICES ASSUME NEW g \in Compacts, phase'[g] = "held" PROVE g \in aborted'
      OBVIOUS
    <3>1. phase[g] = "held" /\ g # None
      BY <1>3, Kinds, HoldAssumption
    <3> QED BY <1>2, <3>1 DEF GateKnows
  <2> QED BY <2>1 DEF GateKnows, CompactYields
<1>6. BucketWasSent'
  <2>1. sent' = sent \cup {m} /\ queue' = Append(queue, m) /\ queue \in Seq(Msgs)
    BY DEF Enqueue, TypeOK
  <2> QED BY <2>1 DEF BucketWasSent
<1> QED BY <1>3, <1>4, <1>5, <1>6 DEF BurstIsBounded

\* The timer fires: a bucket with messages in it has asked for the lock.
LEMMA FireKeeps ==
    ASSUME IInv, Fire
    PROVE  IInv'
<1> USE DEF IInv
<1>1. UNCHANGED <<queue, waited, owed, reg, aborted, sent, handled>> /\ timer' = None
  BY DEF Fire, gateVars
<1>2. CASE queue = <<>>
  <2>1. UNCHANGED <<chain, phase>>
    BY <1>2 DEF Fire, FlushLocked
  <2> QED BY <1>1, <1>2, <2>1
         DEF TypeOK, HeldIsFirst, AtHead, BucketWasSent, GateKnows, BurstIsBounded, CompactYields
<1>3. CASE queue # <<>>
  <2>1. PICK h \in Flushes : Join(h)
    BY <1>3 DEF Fire, FlushLocked
  <2>2. /\ \A g \in Holds : phase'[g] = "held" => phase[g] = "held"
        /\ chain' \in Seq(Holds) /\ phase' \in [Holds -> Phases]
        /\ HeldIsFirst' /\ FlushAsked'
    BY <2>1, JoinEffect, Kinds
  <2>3. TypeOK'
    BY <1>1, <2>2 DEF TypeOK
  <2>4. GateKnows' /\ CompactYields'
    BY <1>1, <2>2, Kinds DEF GateKnows, CompactYields
  <2> QED BY <1>1, <2>2, <2>3, <2>4 DEF BurstIsBounded, BucketWasSent
<1> QED BY <1>2, <1>3

\* cancelQueued empties the bucket.
LEMMA CancelQueuedKeeps ==
    ASSUME IInv, CancelQueued
    PROVE  IInv'
<1> USE DEF IInv
<1>1. /\ queue' = <<>> /\ waited' = 0 /\ timer' = None
      /\ UNCHANGED <<chain, phase, owed, reg, aborted, sent>>
  BY DEF CancelQueued, lockVars, gateVars
<1>2. handled' \subseteq sent'
  BY <1>1, QueuedWasSent DEF CancelQueued, TypeOK
<1>3. TypeOK'
  BY <1>1, <1>2, MaxAssumption DEF TypeOK
<1> QED BY <1>1, <1>3 DEF HeldIsFirst, AtHead, BucketWasSent, GateKnows, BurstIsBounded, CompactYields

\* A flush that is granted the lock empties the bucket.
LEMMA FlushStartsKeeps ==
    ASSUME IInv, NEW h \in Holds, FlushStarts(h)
    PROVE  IInv'
<1> USE DEF IInv
<1>1. /\ queue' = <<>> /\ waited' = 0
      /\ UNCHANGED <<timer, reg, aborted, sent>>
  BY DEF FlushStarts, gateVars
<1>2. handled' \subseteq sent'
  BY <1>1, QueuedWasSent DEF FlushStarts, TypeOK
<1>3. /\ h \in Flushes /\ AtHead(h) /\ phase[h] = "queued" /\ owed' \subseteq Flushes
  BY DEF FlushStarts, TypeOK
<1>4. /\ \A g \in Compacts : phase'[g] = "held" => phase[g] = "held"
      /\ chain' \in Seq(Holds) /\ phase' \in [Holds -> Phases]
      /\ HeldIsFirst'
  <2>1. CASE queue = <<>>
    <3>1. chain' = Tail(chain) /\ phase' = [phase EXCEPT ![h] = "idle"]
      BY <2>1 DEF FlushStarts
    <3>2. "idle" \in Phases BY DEF Phases
    <3> QED BY <1>3, <3>1, <3>2, LeaveEffect, Kinds
  <2>2. CASE queue # <<>>
    <3>1. UNCHANGED chain /\ phase' = [phase EXCEPT ![h] = "held"]
      BY <2>2 DEF FlushStarts
    <3>2. phase' \in [Holds -> Phases] /\ \A g \in Holds : g # h => phase'[g] = phase[g]
      BY <3>1 DEF TypeOK, Phases
    <3>3. HeldIsFirst'
      BY <1>3, <3>1, <3>2 DEF HeldIsFirst, AtHead
    <3> QED BY <1>3, <3>1, <3>2, <3>3, Kinds DEF TypeOK
  <2> QED BY <2>1, <2>2
<1>5. TypeOK'
  BY <1>1, <1>2, <1>3, <1>4, MaxAssumption DEF TypeOK
<1>6. GateKnows'
  BY <1>1, <1>4 DEF GateKnows
<1>7. BucketWasSent'
  BY <1>1 DEF BucketWasSent
<1> QED BY <1>1, <1>4, <1>5, <1>6, <1>7 DEF BurstIsBounded, CompactYields

\* What the end of a hold leaves behind, when the bucket stays as it is and the
\* registration only changes for that hold.
LEMMA Settles ==
    ASSUME IInv, NEW h \in Holds,
           UNCHANGED <<queue, waited, timer, sent, handled>>,
           owed' \subseteq Flushes,
           reg' \in Compacts \cup {None}, reg # h => reg' = reg,
           aborted' \subseteq Compacts, aborted \ {h} \subseteq aborted',
           chain' \in Seq(Holds), phase' \in [Holds -> Phases], HeldIsFirst',
           phase'[h] # "held",
           \A g \in Holds : phase'[g] = "held" => phase[g] = "held",
           FlushAsked => FlushAsked'
    PROVE  IInv'
<1> USE DEF IInv
<1>1. TypeOK'
  BY DEF TypeOK
<1>2. GateKnows'
  BY Kinds DEF GateKnows
<1>3. CompactYields'
  BY Kinds DEF CompactYields
<1>4. BucketWasSent'
  BY DEF BucketWasSent
<1>5. BurstIsBounded'
  BY DEF BurstIsBounded
<1> QED BY <1>1, <1>2, <1>3, <1>4, <1>5

\* A hold that was granted the lock ends, in time or as a zombie.
LEMMA EndEffect ==
    ASSUME IInv, NEW h \in Holds, phase[h] \in {"held", "zombie"},
           chain' = IF phase[h] = "held" THEN Tail(chain) ELSE chain,
           phase' = [phase EXCEPT ![h] = "idle"]
    PROVE  /\ chain' \in Seq(Holds)
           /\ phase' \in [Holds -> Phases]
           /\ \A g \in Holds : phase'[g] = "held" => phase[g] = "held"
           /\ phase'[h] # "held"
           /\ HeldIsFirst'
           /\ FlushAsked => FlushAsked'
<1> USE DEF IInv
<1>0. "idle" \in Phases /\ phase'[h] = "idle"
  BY DEF Phases, TypeOK
<1>1. CASE phase[h] = "held"
  <2>1. AtHead(h) /\ chain' = Tail(chain)
    BY <1>1 DEF HeldIsFirst
  <2> QED BY <1>0, <1>1, <2>1, LeaveEffect
<1>2. CASE phase[h] = "zombie"
  <2>1. UNCHANGED chain
    BY <1>2
  <2> QED BY <1>0, <1>2, <2>1, StayEffect DEF TypeOK
<1> QED BY <1>1, <1>2

\* The handler ends; a compact it asked for is behind every flush.
LEMMA FlushEndsKeeps ==
    ASSUME IInv, NEW h \in Holds, FlushEnds(h)
    PROVE  IInv'
<1> USE DEF IInv
<1> DEFINE left == IF phase[h] = "held" THEN Tail(chain) ELSE chain
<1>1. /\ UNCHANGED <<queue, waited, timer, reg, aborted, sent, handled>>
      /\ h \in Flushes /\ phase[h] \in {"held", "zombie"} /\ owed' \subseteq Flushes
  BY DEF FlushEnds, bucketVars, gateVars, TypeOK
<1>2. CASE chain' = left /\ phase' = [phase EXCEPT ![h] = "idle"]
  <2>1. /\ chain' \in Seq(Holds)
        /\ phase' \in [Holds -> Phases]
        /\ \A g \in Holds : phase'[g] = "held" => phase[g] = "held"
        /\ phase'[h] # "held"
        /\ HeldIsFirst'
        /\ FlushAsked => FlushAsked'
    BY <1>1, <1>2, EndEffect
  <2> QED BY <1>1, <2>1, Settles DEF TypeOK
<1>3. ASSUME NEW c \in Compacts, Free(c), chain' = Append(left, c),
             phase' = [phase EXCEPT ![h] = "idle", ![c] = "queued"]
      PROVE  IInv'
  <2>0. c \in Holds /\ c # h /\ phase[c] = "idle"
    BY <1>1, <1>3, Kinds DEF Free
  <2>1. left \in Seq(Holds)
    BY <1>1 DEF TypeOK, HeldIsFirst, AtHead
  <2>2. chain' \in Seq(Holds)
    BY <1>3, <2>0, <2>1
  <2>3. phase' \in [Holds -> Phases] /\ phase'[h] = "idle"
        /\ phase'[c] = "queued"
        /\ \A g \in Holds : g # h /\ g # c => phase'[g] = phase[g]
    BY <1>3, <2>0 DEF TypeOK, Phases
  <2>4. \A g \in Holds : phase'[g] = "held" => phase[g] = "held"
    BY <2>3
  <2>5. HeldIsFirst'
    <3> SUFFICES ASSUME NEW g \in Holds, phase'[g] = "held" PROVE AtHead(g)'
      BY DEF HeldIsFirst
    <3>1. g # h /\ phase[g] = "held"
      BY <2>3, <2>4
    <3>2. AtHead(g) /\ phase[h] # "held"
      BY <3>1 DEF HeldIsFirst, AtHead
    <3>3. left = chain /\ chain # <<>> /\ Head(chain) = g
      BY <3>2 DEF AtHead
    <3>4. chain' # <<>> /\ Head(chain') = g
      BY <1>3, <2>0, <3>3 DEF TypeOK
    <3> QED BY <3>4 DEF AtHead
  <2>6. ASSUME FlushAsked PROVE FlushAsked'
    <3>1. PICK i \in DOMAIN chain : chain[i] \in Flushes /\ phase[chain[i]] = "queued"
      BY <2>6 DEF FlushAsked
    <3>2. chain[i] \in Holds /\ chain[i] # h /\ chain[i] # c /\ i \in 1..Len(chain)
      BY <1>1, <2>0, <3>1 DEF TypeOK
    <3>3. \E k \in 1..Len(left) : left[k] = chain[i]
      <4>1. CASE phase[h] = "held"
        <5>1. left = Tail(chain) /\ Head(chain) = h /\ chain # <<>>
          BY <4>1 DEF HeldIsFirst, AtHead
        <5>2. i # 1
          BY <3>2, <5>1 DEF TypeOK
        <5>3. i - 1 \in 1..Len(left) /\ left[i - 1] = chain[i]
          BY <3>2, <5>1, <5>2 DEF TypeOK
        <5> QED BY <5>3
      <4>2. CASE phase[h] = "zombie"
        BY <3>2, <4>2
      <4> QED BY <1>1, <4>1, <4>2
    <3>4. PICK k \in 1..Len(left) : left[k] = chain[i]
      BY <3>3
    <3>5. k \in DOMAIN chain' /\ chain'[k] = chain[i]
      BY <1>3, <2>0, <2>1, <3>4
    <3>6. phase'[chain'[k]] = "queued"
      BY <2>3, <3>1, <3>2, <3>5
    <3> QED BY <3>1, <3>5, <3>6 DEF FlushAsked
  <2> HIDE DEF left
  <2> QED BY <1>1, <2>2, <2>3, <2>4, <2>5, <2>6, Settles DEF TypeOK
<1> QED BY <1>2, <1>3 DEF FlushEnds

\* .finally only arms a timer for a bucket whose flush is asked for already.
LEMMA FinallyKeeps ==
    ASSUME IInv, NEW h \in Holds, Finally(h)
    PROVE  IInv'
<1> USE DEF IInv
<1>1. /\ UNCHANGED <<queue, waited, chain, phase, reg, aborted, sent, handled>>
      /\ owed' \subseteq Flushes
      /\ timer' = IF queue # <<>> /\ timer = None THEN WindowOf[Head(queue)] ELSE timer
  BY DEF Finally, gateVars, TypeOK
<1>2. timer' \in Nat \cup {None}
  BY <1>1, WindowAssumption DEF TypeOK
<1>3. TypeOK'
  BY <1>1, <1>2 DEF TypeOK
<1>4. FlushAsked' = FlushAsked
  BY <1>1 DEF FlushAsked
<1>5. BurstIsBounded'
  BY <1>1, <1>4 DEF BurstIsBounded
<1> QED BY <1>1, <1>3, <1>5 DEF HeldIsFirst, AtHead, BucketWasSent, GateKnows, CompactYields

\* A compact starts over an empty bucket, registered.
LEMMA CompactStartsKeeps ==
    ASSUME IInv, NEW h \in Holds, CompactStarts(h)
    PROVE  IInv'
<1> USE DEF IInv
<1>1. /\ UNCHANGED <<queue, waited, timer, owed, aborted, sent, handled>>
      /\ h \in Compacts /\ h \notin Flushes /\ AtHead(h) /\ phase[h] = "queued"
  BY Kinds DEF CompactStarts, bucketVars
<1>2. CASE chain' = Tail(chain) /\ phase' = [phase EXCEPT ![h] = "idle"] /\ UNCHANGED reg
  <2>1. "idle" \in Phases /\ phase'[h] = "idle"
    BY <1>2 DEF Phases, TypeOK
  <2>2. /\ chain' \in Seq(Holds)
        /\ phase' \in [Holds -> Phases]
        /\ \A g \in Holds : phase'[g] # "held"
        /\ HeldIsFirst'
        /\ FlushAsked => FlushAsked'
    BY <1>1, <1>2, <2>1, LeaveEffect
  <2> QED BY <1>1, <1>2, <2>2, Settles DEF TypeOK
<1>3. CASE /\ queue = <<>> /\ phase' = [phase EXCEPT ![h] = "held"]
           /\ reg' = h /\ UNCHANGED chain
  <2>1. "held" \in Phases
    BY DEF Phases
  <2>2. /\ phase' \in [Holds -> Phases]
        /\ HeldIsFirst'
    BY <1>1, <1>3, <2>1, StayEffect
  <2>3. \A g \in Holds : phase[g] # "held"
    BY <1>1 DEF HeldIsFirst, AtHead
  <2>4. GateKnows'
    BY <1>3, <2>3, Kinds DEF GateKnows, TypeOK
  <2>5. TypeOK'
    BY <1>1, <1>3, <2>2 DEF TypeOK
  <2> QED BY <1>1, <1>3, <2>2, <2>4, <2>5 DEF BucketWasSent, BurstIsBounded, CompactYields
<1> QED BY <1>2, <1>3 DEF CompactStarts

\* A compact ends, and clears its own registration only.
LEMMA CompactEndsKeeps ==
    ASSUME IInv, NEW h \in Holds, CompactEnds(h)
    PROVE  IInv'
<1>1. /\ UNCHANGED <<queue, waited, timer, owed, sent, handled>>
      /\ phase[h] \in {"held", "zombie"}
      /\ chain' = IF phase[h] = "held" THEN Tail(chain) ELSE chain
      /\ phase' = [phase EXCEPT ![h] = "idle"]
      /\ reg' = IF reg = h THEN None ELSE reg
      /\ aborted' = aborted \ {h}
  BY DEF CompactEnds, ClearCompact, bucketVars
<1>2. /\ chain' \in Seq(Holds)
      /\ phase' \in [Holds -> Phases]
      /\ \A g \in Holds : phase'[g] = "held" => phase[g] = "held"
      /\ phase'[h] # "held"
      /\ HeldIsFirst'
      /\ FlushAsked => FlushAsked'
  BY <1>1, EndEffect
<1> QED BY <1>1, <1>2, Settles DEF IInv, TypeOK

\* Another user of the lock asks for it,
LEMMA OtherAsksKeeps ==
    ASSUME IInv, NEW h \in Others, OtherAsks(h)
    PROVE  IInv'
<1> USE DEF IInv
<1>1. /\ UNCHANGED <<queue, waited, timer, owed, reg, aborted, sent, handled>>
      /\ h \in Holds /\ Join(h) /\ phase'[h] = "queued"
  BY Kinds DEF OtherAsks, Join, bucketVars, gateVars, TypeOK
<1>2. /\ chain' \in Seq(Holds)
      /\ phase' \in [Holds -> Phases]
      /\ \A g \in Holds : phase'[g] = "held" => phase[g] = "held"
      /\ HeldIsFirst'
      /\ FlushAsked => FlushAsked'
  BY <1>1, JoinEffect
<1> QED BY <1>1, <1>2, Settles DEF TypeOK

\* is granted it,
LEMMA OtherStartsKeeps ==
    ASSUME IInv, NEW h \in Holds, OtherStarts(h)
    PROVE  IInv'
<1> USE DEF IInv
<1>1. /\ UNCHANGED <<queue, waited, timer, chain, owed, reg, aborted, sent, handled>>
      /\ h \in Others /\ h \notin Flushes /\ h \notin Compacts
      /\ AtHead(h) /\ phase[h] = "queued" /\ phase' = [phase EXCEPT ![h] = "held"]
  BY Kinds DEF OtherStarts, bucketVars, gateVars
<1>2. "held" \in Phases
  BY DEF Phases
<1>3. /\ phase' \in [Holds -> Phases]
      /\ \A g \in Holds : phase'[g] = "held" => phase[g] = "held" \/ g = h
      /\ HeldIsFirst'
      /\ FlushAsked => FlushAsked'
  BY <1>1, <1>2, StayEffect
<1>4. \A g \in Compacts : phase'[g] = "held" => phase[g] = "held"
  BY <1>1, <1>3, Kinds
<1>5. TypeOK'
  BY <1>1, <1>3 DEF TypeOK
<1> QED BY <1>1, <1>3, <1>4, <1>5 DEF BucketWasSent, GateKnows, BurstIsBounded, CompactYields

\* and ends.
LEMMA OtherEndsKeeps ==
    ASSUME IInv, NEW h \in Holds, OtherEnds(h)
    PROVE  IInv'
<1>1. /\ UNCHANGED <<queue, waited, timer, owed, reg, aborted, sent, handled>>
      /\ phase[h] \in {"held", "zombie"}
      /\ chain' = IF phase[h] = "held" THEN Tail(chain) ELSE chain
      /\ phase' = [phase EXCEPT ![h] = "idle"]
  BY DEF OtherEnds, bucketVars, gateVars
<1>2. /\ chain' \in Seq(Holds)
      /\ phase' \in [Holds -> Phases]
      /\ \A g \in Holds : phase'[g] = "held" => phase[g] = "held"
      /\ phase'[h] # "held"
      /\ HeldIsFirst'
      /\ FlushAsked => FlushAsked'
  BY <1>1, EndEffect
<1> QED BY <1>1, <1>2, Settles DEF IInv, TypeOK

\* A lease ends: the next in line can be granted the lock.
LEMMA ExpireKeeps ==
    ASSUME IInv, NEW h \in Holds, Expire(h)
    PROVE  IInv'
<1> USE DEF IInv
<1>1. /\ UNCHANGED <<queue, waited, timer, reg, aborted, sent, handled>>
      /\ phase[h] = "held" /\ owed' \subseteq Flushes
      /\ chain' = Tail(chain) /\ phase' = [phase EXCEPT ![h] = "zombie"]
  BY DEF Expire, bucketVars, gateVars, TypeOK
<1>2. AtHead(h) /\ "zombie" \in Phases
  BY <1>1 DEF HeldIsFirst, Phases
<1>3. /\ chain' \in Seq(Holds)
      /\ phase' \in [Holds -> Phases]
      /\ \A g \in Holds : phase'[g] # "held"
      /\ HeldIsFirst'
      /\ FlushAsked => FlushAsked'
  BY <1>1, <1>2, LeaveEffect
<1> QED BY <1>1, <1>3, Settles DEF TypeOK

\* Time moves from the timer to the wait of the first message.
LEMMA TickKeeps ==
    ASSUME IInv, Tick
    PROVE  IInv'
<1> USE DEF IInv
<1>1. /\ UNCHANGED <<queue, chain, phase, owed, reg, aborted, sent, handled>>
      /\ timer # 0 /\ timer' = IF timer = None THEN None ELSE timer - 1
      /\ waited' = IF queue = <<>> THEN 0 ELSE Least(waited + 1, MaxMs)
  BY DEF Tick, lockVars, gateVars
<1>2. /\ waited \in 0..MaxMs /\ waited' \in 0..MaxMs /\ timer' \in Nat \cup {None}
      /\ timer # None => timer \in Nat /\ timer' \in Nat
  BY <1>1, MaxAssumption DEF TypeOK, Least
<1>3. queue # <<>> /\ timer # None => timer' + waited' <= timer + waited
  BY <1>1, <1>2, MaxAssumption DEF Least
<1>4. FlushAsked' = FlushAsked
  BY <1>1 DEF FlushAsked
<1>5. BurstIsBounded'
  <2> SUFFICES ASSUME queue' # <<>>, ~FlushAsked'
               PROVE  timer' # None /\ timer' + waited' <= MaxMs
    BY DEF BurstIsBounded
  <2>1. timer # None /\ timer + waited <= MaxMs
    BY <1>1, <1>4 DEF BurstIsBounded
  <2>2. timer' # None
    BY <1>2, <2>1, NoneAssumption
  <2> QED BY <1>1, <1>2, <1>3, <2>1, <2>2, MaxAssumption
<1>6. TypeOK'
  BY <1>1, <1>2 DEF TypeOK
<1> QED BY <1>1, <1>5, <1>6 DEF HeldIsFirst, AtHead, BucketWasSent, GateKnows, CompactYields

-----------------------------------------------------------------------------

\* Every step keeps the invariant.
LEMMA NextKeeps == IInv /\ [Next]_vars => IInv'
<1> SUFFICES ASSUME IInv, [Next]_vars PROVE IInv'
  OBVIOUS
<1>1. ASSUME NEW m \in Msgs, Enqueue(m) PROVE IInv'
  BY <1>1, EnqueueKeeps
<1>2. ASSUME Fire PROVE IInv'
  BY <1>2, FireKeeps
<1>3. ASSUME CancelQueued PROVE IInv'
  BY <1>3, CancelQueuedKeeps
<1>4. ASSUME NEW h \in Holds, Starts(h) \/ Ends(h) \/ Finally(h) \/ Expire(h) PROVE IInv'
  BY <1>4, FlushStartsKeeps, CompactStartsKeeps, OtherStartsKeeps, FlushEndsKeeps,
     CompactEndsKeeps, OtherEndsKeeps, FinallyKeeps, ExpireKeeps DEF Starts, Ends
<1>5. ASSUME NEW h \in Others, OtherAsks(h) PROVE IInv'
  BY <1>5, OtherAsksKeeps
<1>6. ASSUME Tick PROVE IInv'
  BY <1>6, TickKeeps
<1>7. ASSUME UNCHANGED vars PROVE IInv'
  BY <1>7 DEF vars, bucketVars, lockVars, gateVars, IInv, TypeOK, HeldIsFirst, AtHead,
              BucketWasSent, GateKnows, BurstIsBounded, FlushAsked, CompactYields
<1> QED BY <1>1, <1>2, <1>3, <1>4, <1>5, <1>6, <1>7 DEF Next

\* The invariant of the pipeline.
THEOREM Invariance == Spec => []IInv
<1>1. Init => IInv
  BY InitIInv
<1>2. IInv /\ [Next]_vars => IInv'
  BY NextKeeps
<1> QED BY <1>1, <1>2, PTL DEF Spec

\* Every variable of the pipeline keeps its type; what was handled was sent.
THEOREM Typing == Spec => []TypeOK
<1>1. IInv => TypeOK
  BY DEF IInv
<1> QED BY <1>1, Invariance, PTL

\* A bucket with messages in it asks for the lock within the cap of the first of
\* them, or has asked already.
THEOREM NoStarvation == Spec => []BurstIsBounded
<1>1. IInv => BurstIsBounded
  BY DEF IInv
<1> QED BY <1>1, Invariance, PTL

\* A compact that holds the lock while a message waits has been aborted.
THEOREM MaintenanceYields == Spec => []CompactYields
<1>1. IInv => CompactYields
  BY DEF IInv
<1> QED BY <1>1, Invariance, PTL
-----------------------------------------------------------------------------
(* No message is lost on the way through the bucket, and none goes twice. *)

\* What was enqueued is in the bucket, at one place, until it is handed to a turn
\* or cancelled, and not after.
Conserved ==
    /\ sent \ handled = Queued
    /\ \A i, j \in DOMAIN queue : queue[i] = queue[j] => i = j

\* Only enqueue adds to the bucket, and a message that was never seen; who takes
\* from it takes all.
LEMMA ConservedStep ==
    ASSUME IInv, Conserved, [Next]_vars
    PROVE  Conserved'
<1> USE DEF IInv, TypeOK
<1>1. ASSUME NEW m \in Msgs, Enqueue(m) PROVE Conserved'
  <2>1. m \notin sent /\ sent' = sent \cup {m} /\ queue' = Append(queue, m) /\ handled' = handled
    BY <1>1 DEF Enqueue
  <2>2. /\ DOMAIN queue = 1..Len(queue) /\ DOMAIN queue' = 1..(Len(queue) + 1) /\ Len(queue) \in Nat
        /\ \A i \in 1..Len(queue) : queue'[i] = queue[i]
        /\ queue'[Len(queue) + 1] = m
    BY <2>1
  <2>3. \A i \in DOMAIN queue' : i \in DOMAIN queue \/ i = Len(queue) + 1
    BY <2>2
  <2>4. Queued' = Queued \cup {m}
    <3>1. Queued' \subseteq Queued \cup {m}
      BY <2>2, <2>3 DEF Queued
    <3>2. m \in Queued'
      BY <2>2 DEF Queued
    <3>3. Queued \subseteq Queued'
      <4>1. \A i \in DOMAIN queue : i \in DOMAIN queue' /\ queue'[i] = queue[i]
        BY <2>2
      <4> QED BY <4>1 DEF Queued
    <3> QED BY <3>1, <3>2, <3>3
  <2>5. sent' \ handled' = Queued'
    BY <2>1, <2>4 DEF Conserved
  <2>6. \A i \in DOMAIN queue : queue[i] # m
    BY <2>1 DEF BucketWasSent
  <2>7. \A i, j \in DOMAIN queue' : queue'[i] = queue'[j] => i = j
    BY <2>2, <2>3, <2>6 DEF Conserved
  <2> QED BY <2>5, <2>7 DEF Conserved
<1>2. ASSUME handled' = handled \cup Queued, queue' = <<>>, sent' = sent PROVE Conserved'
  <2>1. DOMAIN queue' = {} /\ Queued' = {}
    BY <1>2 DEF Queued
  <2> QED BY <1>2, <2>1 DEF Conserved
<1>3. ASSUME UNCHANGED <<queue, sent, handled>> PROVE Conserved'
  BY <1>3 DEF Conserved, Queued
<1>4. ASSUME NEW h \in Holds, Starts(h) \/ Ends(h) \/ Finally(h) \/ Expire(h) PROVE Conserved'
  <2>1. CASE FlushStarts(h)
    BY <1>2, <2>1 DEF FlushStarts
  <2>2. CASE ~FlushStarts(h)
    BY <1>3, <1>4, <2>2 DEF Starts, Ends, CompactStarts, OtherStarts, FlushEnds, CompactEnds,
                            OtherEnds, Finally, Expire, bucketVars
  <2> QED BY <2>1, <2>2
<1>5. ASSUME CancelQueued PROVE Conserved'
  BY <1>2, <1>5 DEF CancelQueued
<1>6. ASSUME Fire \/ Tick \/ (\E h \in Others : OtherAsks(h)) \/ UNCHANGED vars PROVE Conserved'
  BY <1>3, <1>6 DEF Fire, Tick, OtherAsks, bucketVars, vars
<1> QED BY <1>1, <1>4, <1>5, <1>6 DEF Next

\* A message that was enqueued is in the bucket until a flush takes it or it is
\* cancelled (pipeline.ts enqueue, flushLocked, cancelQueued): none is dropped
\* when the lock changes hands, a lease runs out or the .finally of an earlier
\* flush comes late, and none is given to two turns.
THEOREM NoneLost == Spec => []Conserved
<1>1. Init => Conserved
  BY DEF Init, Conserved, Queued
<1> QED BY <1>1, ConservedStep, Invariance, PTL DEF Spec

-----------------------------------------------------------------------------
(* The lock keeps moving. *)

Place(ch) == 1..Len(ch)

\* A chain lists the holds that wait and the one that has the lock, each once, and
\* only the first may have it.
Lines(ch, ph) ==
    /\ \A i \in Place(ch) : ph[ch[i]] = "queued" \/ (i = 1 /\ ph[ch[i]] = "held")
    /\ \A i, j \in Place(ch) : ch[i] = ch[j] => i = j
    /\ \A h \in Holds : ph[h] \in {"queued", "held"} => \E i \in Place(ch) : ch[i] = h

OneLine == Lines(chain, phase)

\* A hold that is nowhere in the chain joins it.
LEMMA LineJoin ==
    ASSUME NEW ch \in Seq(Holds), NEW ph \in [Holds -> Phases], Lines(ch, ph),
           NEW h \in Holds, ph[h] \notin {"queued", "held"}
    PROVE  Lines(Append(ch, h), [ph EXCEPT ![h] = "queued"])
<1> DEFINE ch2 == Append(ch, h)
           ph2 == [ph EXCEPT ![h] = "queued"]
           n   == Len(ch) + 1
<1>1. /\ Len(ch) \in Nat /\ Len(ch2) = n /\ ch2[n] = h
      /\ \A i \in Place(ch) : ch2[i] = ch[i] /\ ch[i] \in Holds
  BY DEF Place
<1>2. /\ \A i \in Place(ch2) : i \in Place(ch) \/ i = n
      /\ \A i \in Place(ch) : i \in Place(ch2) /\ i # n
      /\ n \in Place(ch2)
  BY <1>1 DEF Place
<1>3. ph2[h] = "queued" /\ \A g \in Holds : g # h => ph2[g] = ph[g]
  OBVIOUS
<1>4. \A i \in Place(ch) : ch[i] # h
  BY DEF Lines
<1> HIDE DEF ch2, ph2, n
<1>5. ASSUME NEW i \in Place(ch2) PROVE ph2[ch2[i]] = "queued" \/ (i = 1 /\ ph2[ch2[i]] = "held")
  <2>1. CASE i \in Place(ch)
    <3>1. ch2[i] = ch[i] /\ ph2[ch[i]] = ph[ch[i]]
      BY <1>1, <1>3, <1>4, <2>1
    <3> QED BY <2>1, <3>1 DEF Lines
  <2>2. CASE i = n
    BY <1>1, <1>3, <2>2
  <2> QED BY <1>2, <2>1, <2>2
<1>6. ASSUME NEW i \in Place(ch2), NEW j \in Place(ch2), ch2[i] = ch2[j] PROVE i = j
  <2>1. CASE i \in Place(ch) /\ j \in Place(ch)
    <3>1. ch[i] = ch[j]
      BY <1>1, <1>6, <2>1
    <3> QED BY <2>1, <3>1 DEF Lines
  <2>2. CASE i = n \/ j = n
    BY <1>1, <1>2, <1>4, <1>6, <2>2
  <2> QED BY <1>2, <2>1, <2>2
<1>7. ASSUME NEW g \in Holds, ph2[g] \in {"queued", "held"} PROVE \E i \in Place(ch2) : ch2[i] = g
  <2>1. CASE g = h
    BY <1>1, <1>2, <2>1
  <2>2. CASE g # h
    <3>1. PICK i \in Place(ch) : ch[i] = g
      BY <1>3, <1>7, <2>2 DEF Lines
    <3> QED BY <1>1, <1>2, <3>1
  <2> QED BY <2>1, <2>2
<1>8. Lines(ch2, ph2)
  BY <1>5, <1>6, <1>7 DEF Lines
<1> QED BY <1>8 DEF ch2, ph2

\* The first leaves.
LEMMA LineLeave ==
    ASSUME NEW ch \in Seq(Holds), NEW ph \in [Holds -> Phases], Lines(ch, ph), ch # <<>>,
           NEW h \in Holds, Head(ch) = h, NEW to \in {"idle", "zombie"}
    PROVE  Lines(Tail(ch), [ph EXCEPT ![h] = to])
<1> DEFINE ch2 == Tail(ch)
           ph2 == [ph EXCEPT ![h] = to]
           n   == Len(ch) - 1
<1>1. /\ Len(ch) \in Nat \ {0} /\ Len(ch2) = n /\ ch[1] = h
      /\ \A i \in 1..n : ch2[i] = ch[i + 1]
      /\ \A i \in Place(ch) : ch[i] \in Holds
  BY DEF Place
<1>2. /\ \A i \in Place(ch2) : i \in 1..n /\ i + 1 \in Place(ch) /\ i + 1 # 1 /\ i \in Nat
      /\ \A i \in Place(ch) : i # 1 => i - 1 \in Place(ch2) /\ i - 1 \in 1..n /\ (i - 1) + 1 = i
      /\ 1 \in Place(ch)
  BY <1>1 DEF Place
<1>3. ph2[h] = to /\ \A g \in Holds : g # h => ph2[g] = ph[g]
  OBVIOUS
<1> HIDE DEF ch2, ph2, n
<1>4. ASSUME NEW i \in Place(ch2)
      PROVE  ch2[i] = ch[i + 1] /\ ph2[ch2[i]] = "queued"
  <2>1. ch2[i] = ch[i + 1] /\ i + 1 \in Place(ch) /\ i + 1 # 1
    BY <1>1, <1>2
  <2>2. ch[i + 1] # h
    BY <1>1, <1>2, <2>1 DEF Lines
  <2> QED BY <1>1, <1>3, <2>1, <2>2 DEF Lines
<1>5. ASSUME NEW i \in Place(ch2), NEW j \in Place(ch2), ch2[i] = ch2[j] PROVE i = j
  <2>1. i + 1 = j + 1
    BY <1>2, <1>4, <1>5 DEF Lines
  <2> QED BY <1>2, <2>1
<1>6. ASSUME NEW g \in Holds, ph2[g] \in {"queued", "held"} PROVE \E i \in Place(ch2) : ch2[i] = g
  <2>1. g # h /\ ph[g] \in {"queued", "held"}
    BY <1>3, <1>6
  <2>2. PICK i \in Place(ch) : ch[i] = g
    BY <2>1 DEF Lines
  <2>3. i # 1
    BY <1>1, <2>1, <2>2
  <2>4. i - 1 \in Place(ch2) /\ ch2[i - 1] = ch[(i - 1) + 1] /\ (i - 1) + 1 = i
    BY <1>1, <1>2, <2>3
  <2> QED BY <2>2, <2>4
<1>7. Lines(ch2, ph2)
  BY <1>4, <1>5, <1>6 DEF Lines
<1> QED BY <1>7 DEF ch2, ph2

\* The first is granted the lock; a zombie ends.
LEMMA LineStays ==
    ASSUME NEW ch \in Seq(Holds), NEW ph \in [Holds -> Phases], Lines(ch, ph), NEW h \in Holds
    PROVE  /\ ch # <<>> /\ Head(ch) = h => Lines(ch, [ph EXCEPT ![h] = "held"])
           /\ ph[h] = "zombie" => Lines(ch, [ph EXCEPT ![h] = "idle"])
<1>1. \A i \in Place(ch) : ch[i] \in Holds
  BY DEF Place
<1>2. ASSUME ch # <<>>, Head(ch) = h PROVE Lines(ch, [ph EXCEPT ![h] = "held"])
  <2>1. 1 \in Place(ch) /\ ch[1] = h
    BY <1>2 DEF Place
  <2>2. \A i \in Place(ch) : ch[i] = h => i = 1
    BY <2>1 DEF Lines
  <2> QED BY <1>1, <2>1, <2>2 DEF Lines
<1>3. ASSUME ph[h] = "zombie" PROVE Lines(ch, [ph EXCEPT ![h] = "idle"])
  BY <1>1, <1>3 DEF Lines
<1> QED BY <1>2, <1>3

\* Holds that join, are granted the lock, end, or lose their lease.
LEMMA LineStep ==
    ASSUME IInv, OneLine, [Next]_vars
    PROVE  OneLine'
<1> USE Kinds DEF IInv, TypeOK, OneLine
<1>1. ASSUME NEW h \in Holds, Join(h) PROVE OneLine'
  BY <1>1, LineJoin DEF Join, Free
<1>2. ASSUME UNCHANGED <<chain, phase>> PROVE OneLine'
  BY <1>2
<1>3. ASSUME NEW h \in Holds, phase[h] \in {"held", "zombie"}
      PROVE  Lines(IF phase[h] = "held" THEN Tail(chain) ELSE chain, [phase EXCEPT ![h] = "idle"])
  BY <1>3, LineLeave, LineStays DEF HeldIsFirst, AtHead
<1>4. ASSUME NEW h \in Holds, Starts(h) PROVE OneLine'
  <2>1. chain # <<>> /\ Head(chain) = h
    BY <1>4 DEF Starts, FlushStarts, CompactStarts, OtherStarts, AtHead
  <2>2. \/ chain' = Tail(chain) /\ phase' = [phase EXCEPT ![h] = "idle"]
        \/ chain' = chain /\ phase' = [phase EXCEPT ![h] = "held"]
    BY <1>4 DEF Starts, FlushStarts, CompactStarts, OtherStarts
  <2>3. Lines(Tail(chain), [phase EXCEPT ![h] = "idle"])
    BY <2>1, LineLeave
  <2>4. Lines(chain, [phase EXCEPT ![h] = "held"])
    BY <2>1, LineStays
  <2> QED BY <2>2, <2>3, <2>4
<1>5. ASSUME NEW h \in Holds, FlushEnds(h) PROVE OneLine'
  <2> DEFINE left == IF phase[h] = "held" THEN Tail(chain) ELSE chain
             freed == [phase EXCEPT ![h] = "idle"]
  <2>1. Lines(left, freed) /\ left \in Seq(Holds) /\ freed \in [Holds -> Phases]
    <3>1. phase[h] = "held" => chain # <<>>
      BY DEF HeldIsFirst, AtHead
    <3>2. phase[h] \in {"held", "zombie"}
      BY <1>5 DEF FlushEnds
    <3>3. Lines(left, freed)
      BY <1>3, <3>2
    <3>4. left \in Seq(Holds)
      BY <3>1
    <3>5. freed \in [Holds -> Phases]
      BY DEF Phases
    <3> QED BY <3>3, <3>4, <3>5
  <2>2. CASE chain' = left /\ phase' = freed
    BY <2>1, <2>2
  <2>3. ASSUME NEW c \in Compacts, Free(c), chain' = Append(left, c),
               phase' = [phase EXCEPT ![h] = "idle", ![c] = "queued"]
        PROVE  OneLine'
    <3>1. freed[c] = "idle" /\ phase' = [freed EXCEPT ![c] = "queued"]
      BY <2>3 DEF Free
    <3>2. c \in Holds /\ chain' = Append(left, c)
      BY <2>3
    <3> HIDE DEF left, freed
    <3>3. Lines(Append(left, c), [freed EXCEPT ![c] = "queued"])
      BY <2>1, <3>1, <3>2, LineJoin
    <3> QED BY <3>1, <3>2, <3>3
  <2> QED BY <1>5, <2>2, <2>3 DEF FlushEnds
<1>6. ASSUME NEW h \in Holds, CompactEnds(h) \/ OtherEnds(h) PROVE OneLine'
  BY <1>3, <1>6 DEF CompactEnds, OtherEnds
<1>7. ASSUME NEW h \in Holds, Expire(h) PROVE OneLine'
  BY <1>7, LineLeave DEF Expire, HeldIsFirst, AtHead
<1>8. ASSUME \/ CancelQueued \/ Tick \/ UNCHANGED vars
             \/ \E h \in Holds : Finally(h)
      PROVE  OneLine'
  BY <1>2, <1>8 DEF CancelQueued, Tick, Finally, lockVars, vars
<1>9. ASSUME (\E m \in Msgs : Enqueue(m)) \/ Fire \/ \E h \in Others : OtherAsks(h) PROVE OneLine'
  BY <1>1, <1>2, <1>9 DEF Enqueue, Fire, FlushLocked, OtherAsks
<1> QED BY <1>4, <1>5, <1>6, <1>7, <1>8, <1>9 DEF Next, Ends

\* Every hold that asked for the lock is in its chain, once, and the first of the
\* chain starts, or has the lock under a lease: a hold that ended or expired never
\* stays in front of the others (pipeline.ts flushLocked, turn.ts
\* scheduleDeferredCompact, by way of withLock).
THEOREM TheLockMovesOn == Spec => []OneLine
<1>1. Init => OneLine
  BY DEF Init, OneLine, Lines, Place
<1> QED BY <1>1, LineStep, Invariance, PTL DEF Spec
=============================================================================
