-------------------------- MODULE WorkerPoolProofs --------------------------
(***************************************************************************)
(* Safety of WorkerPool for any sessions, calls, slots and cap.            *)
(*                                                                         *)
(* The invariants follow from who owns what: an entry is a live worker of  *)
(* its session, a busy worker belongs to one turn, and, as long as the     *)
(* session's lock keeps its calls apart, nobody sets an entry behind the   *)
(* back of a call that awaits an eviction.                                 *)
(*                                                                         *)
(* The second part is about Worker, the process a slot of the pool stands  *)
(* for: what a turn is ended by, and what becomes of the messages it is    *)
(* shown.                                                                  *)
(***************************************************************************)
EXTENDS WorkerPool, Worker, TLAPS, FiniteSetTheorems

\* A session's entry is a worker of its own, and not one that was told to end.
Owners == \A s \in Session : entry[s] # None =>
              of[entry[s]] = s /\ life[entry[s]] # "closing"

\* A turn runs on a worker that was spawned for it and for its loadout, and is
\* busy with it alone.
TurnsApart ==
    /\ \A c \in Calls : pc[c] = "turn" =>
           /\ work[c] \in Slots /\ of[work[c]] = SessionOf[c]
           /\ c \notin CompactCalls => bind[work[c]] = BindOf[c]
    /\ \A c, d \in Calls : pc[c] = "turn" /\ pc[d] = "turn" /\ work[c] = work[d] => c = d
    /\ \A w \in Slots : busy[w] <=> \E c \in Calls : pc[c] = "turn" /\ work[c] = w

\* While no lease expired: one call of a session at a time; the session of a
\* call that awaits an eviction has no entry; what runs is in the map.
Locks == ~lapsed =>
    /\ \A c, d \in Calls : InFlight(c) /\ InFlight(d) /\ SessionOf[c] = SessionOf[d] => c = d
    /\ \A c \in Calls : pc[c] \in {"rebinding", "room"} => entry[SessionOf[c]] = None
    /\ \A w \in Slots : life[w] = "up" => of[w] \in Session /\ entry[of[w]] = w

IInv == TypeOK /\ Owners /\ TurnsApart /\ Locks

-----------------------------------------------------------------------------

\* The ways through run().
LEMMA RunCases ==
    ASSUME TypeOK, NEW c \in Calls, Run(c)
    PROVE  /\ pc[c] = "run" /\ UNCHANGED <<flush, stopped, bounds>>
           /\ \/ Returns(c) /\ UNCHANGED <<entry, worker>>
              \/ entry[SessionOf[c]] = None /\ Acquire(c, entry)
              \/ /\ entry[SessionOf[c]] # None
                 /\ entry' = [entry EXCEPT ![SessionOf[c]] = None]
                 /\ life' = Closing(entry[SessionOf[c]], life)
                 /\ Goes(c, "rebinding", entry[SessionOf[c]])
                 /\ UNCHANGED <<dead, of, bind, busy>>
              \/ /\ entry[SessionOf[c]] # None /\ dead[entry[SessionOf[c]]]
                 /\ Acquire(c, [entry EXCEPT ![SessionOf[c]] = None])
              \/ /\ entry[SessionOf[c]] # None /\ ~busy[entry[SessionOf[c]]]
                 /\ bind[entry[SessionOf[c]]] = BindOf[c]
                 /\ TakesTurn(c, entry[SessionOf[c]]) /\ UNCHANGED <<entry, life, dead, of, bind>>
  BY DEF Run, TypeOK

\* The worker that is spawned is one that nobody holds.
LEMMA SpawnPicks ==
    ASSUME NEW c \in Calls, Spawn(c)
    PROVE  \E w \in Slots :
               /\ Free(w)
               /\ life' = [life EXCEPT ![w] = "up"]
               /\ dead' = [dead EXCEPT ![w] = FALSE]
               /\ of' = [of EXCEPT ![w] = SessionOf[c]]
               /\ bind' = [bind EXCEPT ![w] = BindOf[c]]
               /\ entry' = [entry EXCEPT ![SessionOf[c]] = w]
               /\ TakesTurn(c, w)
  BY DEF Spawn

\* A call that is in flight spawns a worker for its session, when no worker of
\* the session runs.
LEMMA SpawnKeeps ==
    ASSUME IInv, NEW c \in Calls, pc[c] \in {"run", "rebinding", "room"}, Spawn(c),
           UNCHANGED <<flush, stopped, bounds>>,
           ~lapsed => \A w \in Slots : life[w] = "up" => of[w] # SessionOf[c]
    PROVE  IInv'
  <1> USE PoolAssumption DEF bounds
  <1>1. PICK w \in Slots :
               /\ Free(w)
               /\ life' = [life EXCEPT ![w] = "up"]
               /\ dead' = [dead EXCEPT ![w] = FALSE]
               /\ of' = [of EXCEPT ![w] = SessionOf[c]]
               /\ bind' = [bind EXCEPT ![w] = BindOf[c]]
               /\ entry' = [entry EXCEPT ![SessionOf[c]] = w]
               /\ TakesTurn(c, w)
    BY SpawnPicks
  <1>2. /\ \A s \in Session : entry[s] # w
        /\ \A d \in Calls : work[d] # w
        /\ life[w] \in {"none", "gone"}
    BY <1>1 DEF Free, Held, Pooled, IInv, TypeOK
  <1>3. TypeOK'
    BY <1>1 DEF IInv, TypeOK, TakesTurn
  <1>4. Owners'
    BY <1>1, <1>2 DEF IInv, TypeOK, Owners
  <1>5. TurnsApart'
    BY <1>1, <1>2 DEF IInv, TypeOK, TurnsApart, TakesTurn
  <1>6. Locks'
    BY <1>1, <1>2 DEF IInv, TypeOK, Locks, TakesTurn, InFlight
  <1> QED
    BY <1>3, <1>4, <1>5, <1>6 DEF IInv

\* A step that drops entries and tells the workers they named to end keeps all
\* but the order of the calls.
LEMMA DropKeeps ==
    ASSUME IInv,
           entry' \in [Session -> Slots \cup {None}], life' \in [Slots -> {"none", "up", "closing", "termed", "gone"}],
           \A s \in Session : entry'[s] \in {None, entry[s]},
           \A w \in Slots : \/ life'[w] = life[w]
                            \/ life[w] = "up" /\ life'[w] = "closing" /\ \A s \in Session : entry'[s] # w,
           \A s \in Session : entry[s] # None /\ entry'[s] = None => life'[entry[s]] # "up",
           UNCHANGED <<dead, of, bind>>
    PROVE  /\ \A w \in Slots : dead'[w] => life'[w] \in {"termed", "gone"}
           /\ Owners'
           /\ ~lapsed => \A w \in Slots : life'[w] = "up" => of'[w] \in Session /\ entry'[of'[w]] = w
  <1> USE PoolAssumption
  <1>1. \A w \in Slots : dead'[w] => life'[w] \in {"termed", "gone"}
    BY DEF IInv, TypeOK
  <1>2. Owners'
    BY DEF IInv, TypeOK, Owners
  <1>3. ASSUME ~lapsed, NEW w \in Slots, life'[w] = "up"
        PROVE  of'[w] \in Session /\ entry'[of'[w]] = w
    <2>1. life[w] = "up"
      BY <1>3
    <2>2. of[w] \in Session /\ entry[of[w]] = w
      BY <1>3, <2>1 DEF IInv, Locks
    <2> QED
      BY <1>3, <2>2
  <1> QED
    BY <1>1, <1>2, <1>3

\* A call that moves on, to wait or to return, keeps the turns and the order of
\* the calls.
LEMMA MoveKeeps ==
    ASSUME IInv, NEW c \in Calls, InFlight(c), pc[c] # "turn",
           NEW to \in {"run", "rebinding", "room", "healing", "done"}, NEW w \in Slots \cup {None},
           Goes(c, to, w),
           UNCHANGED <<of, bind, busy, lapsed>>
    PROVE  /\ pc' \in [Calls -> {"new", "run", "rebinding", "room", "turn", "healing", "done"}]
           /\ work' \in [Calls -> Slots \cup {None}]
           /\ TurnsApart'
           /\ ~lapsed => \A d, e \in Calls : InFlight(d)' /\ InFlight(e)' /\ SessionOf[d] = SessionOf[e]
                                             => d = e
  <1> USE DEF IInv, TypeOK, Goes
  <1>1. TurnsApart'
    BY DEF TurnsApart
  <1>2. \A d \in Calls : InFlight(d)' => InFlight(d)
    BY DEF InFlight
  <1> QED
    BY <1>1, <1>2 DEF Locks

\* At the cap an idle worker is told to end, and the call waits for it.
LEMMA EvictKeeps ==
    ASSUME IInv, NEW c \in Calls, pc[c] \in {"run", "rebinding"},
           NEW ent \in [Session -> Slots \cup {None}],
           \A s \in Session : \/ ent[s] = entry[s]
                              \/ ent[s] = None /\ entry[s] # None /\ dead[entry[s]],
           ~lapsed => ent[SessionOf[c]] = None,
           NEW lru \in LruIdle(ent),
           entry' = Without(ent, lru), life' = Closing(lru, life), Goes(c, "room", lru),
           UNCHANGED <<dead, of, bind, busy, flush, stopped, bounds>>
    PROVE  IInv'
  <1> USE PoolAssumption DEF bounds
  <1>1. lru \in Slots \cup {None}
    BY DEF LruIdle, Idle, Pooled
  <1>2. /\ entry' \in [Session -> Slots \cup {None}]
        /\ life' \in [Slots -> {"none", "up", "closing", "termed", "gone"}]
    BY <1>1 DEF IInv, TypeOK, Without, Closing
  <1>3. \A s \in Session : entry'[s] \in {None, entry[s]} /\ entry'[s] \in {None, ent[s]}
                           /\ (lru # None => entry'[s] # lru)
    BY DEF Without
  <1>4. \A w \in Slots : \/ life'[w] = life[w]
                         \/ life[w] = "up" /\ life'[w] = "closing" /\ \A s \in Session : entry'[s] # w
    BY <1>1, <1>3 DEF IInv, TypeOK, Closing
  <1>5. \A s \in Session : entry[s] # None /\ entry'[s] = None => life'[entry[s]] # "up"
    <2> SUFFICES ASSUME NEW s \in Session, entry[s] # None, entry'[s] = None
                 PROVE  life'[entry[s]] # "up"
      OBVIOUS
    <2>0. entry[s] \in Slots
      BY DEF IInv, TypeOK
    <2>1. CASE ent[s] = entry[s]
      <3>1. entry[s] = lru
        BY <2>1 DEF Without
      <3> QED
        BY <2>0, <3>1 DEF Closing, IInv, TypeOK
    <2>2. CASE dead[entry[s]]
      BY <2>0, <2>2, <1>4 DEF IInv, TypeOK
    <2> QED
      BY <2>1, <2>2
  <1>6. InFlight(c) /\ pc[c] # "turn"
    BY DEF InFlight
  <1>7. /\ \A w \in Slots : dead'[w] => life'[w] \in {"termed", "gone"}
        /\ Owners'
        /\ ~lapsed => \A w \in Slots : life'[w] = "up" => of'[w] \in Session /\ entry'[of'[w]] = w
    BY <1>2, <1>3, <1>4, <1>5, DropKeeps
  <1>8. /\ pc' \in [Calls -> {"new", "run", "rebinding", "room", "turn", "healing", "done"}]
        /\ work' \in [Calls -> Slots \cup {None}]
        /\ TurnsApart'
        /\ ~lapsed => \A d, e \in Calls : InFlight(d)' /\ InFlight(e)' /\ SessionOf[d] = SessionOf[e]
                                          => d = e
    BY <1>1, <1>6, MoveKeeps
  <1>9. TypeOK'
    BY <1>2, <1>7, <1>8 DEF IInv, TypeOK
  <1>10. ~lapsed => \A d \in Calls : pc'[d] \in {"rebinding", "room"} => entry'[SessionOf[d]] = None
    <2> SUFFICES ASSUME ~lapsed, NEW d \in Calls, pc'[d] \in {"rebinding", "room"}
                 PROVE  entry'[SessionOf[d]] = None
      OBVIOUS
    <2>0. SessionOf[d] \in Session
      OBVIOUS
    <2>1. CASE d = c
      BY <2>0, <2>1, <1>3
    <2>2. CASE d # c
      BY <2>0, <2>2, <1>3 DEF Goes, IInv, TypeOK, Locks
    <2> QED
      BY <2>1, <2>2
  <1>11. Locks'
    BY <1>7, <1>8, <1>10 DEF Locks
  <1> QED
    BY <1>7, <1>8, <1>9, <1>11 DEF IInv

\* Without an entry a call spawns a worker, or makes room for one first.
LEMMA AcquireKeeps ==
    ASSUME IInv, NEW c \in Calls, pc[c] \in {"run", "rebinding"},
           NEW ent \in [Session -> Slots \cup {None}],
           \A s \in Session : \/ ent[s] = entry[s]
                              \/ ent[s] = None /\ entry[s] # None /\ dead[entry[s]],
           ~lapsed => ent[SessionOf[c]] = None,
           Acquire(c, ent), UNCHANGED <<flush, stopped, bounds>>
    PROVE  IInv'
  <1>1. CASE Spawn(c)
    <2>1. ASSUME ~lapsed, NEW w \in Slots, life[w] = "up"
          PROVE  of[w] # SessionOf[c]
      <3>1. of[w] \in Session /\ entry[of[w]] = w /\ ~dead[w]
        BY <2>1 DEF IInv, TypeOK, Locks
      <3>2. ent[of[w]] = w
        BY <3>1
      <3>3. w # None
        BY PoolAssumption
      <3> QED
        BY <2>1, <3>2, <3>3
    <2> QED
      BY <1>1, <2>1, SpawnKeeps
  <1>2. CASE ~Spawn(c)
    <2>1. PICK lru \in LruIdle(ent) :
              /\ entry' = Without(ent, lru)
              /\ life' = Closing(lru, life)
              /\ Goes(c, "room", lru)
      BY <1>2 DEF Acquire
    <2>2. UNCHANGED <<dead, of, bind, busy>>
      BY <1>2 DEF Acquire
    <2> QED
      BY <2>1, <2>2, EvictKeeps
  <1> QED
    BY <1>1, <1>2

-----------------------------------------------------------------------------

\* What the steps other than those of run() keep, once the calls and the
\* workers are known to be in order.
LEMMA Together ==
    ASSUME TypeOK', Owners', TurnsApart',
           ~lapsed' => \A c, d \in Calls : InFlight(c)' /\ InFlight(d)' /\ SessionOf[c] = SessionOf[d]
                                           => c = d,
           ~lapsed' => \A c \in Calls : pc'[c] \in {"rebinding", "room"} => entry'[SessionOf[c]] = None,
           ~lapsed' => \A w \in Slots : life'[w] = "up" => of'[w] \in Session /\ entry'[of'[w]] = w
    PROVE  IInv'
  BY DEF IInv, Locks

\* runViaPool asks for a turn.
LEMMA RunViaPoolKeeps == ASSUME IInv, NEW c \in Calls, RunViaPool(c) PROVE IInv'
  <1> USE PoolAssumption DEF RunViaPool, Asks, bounds, worker, Extra
  <1>0. extras' \in 0..MaxExtras /\ lapsed' \in BOOLEAN
    <2>1. CASE Locked(c)
      BY <2>1 DEF IInv, TypeOK
    <2>2. CASE ~Locked(c)
      BY <2>2 DEF IInv, TypeOK
    <2> QED
      BY <2>1, <2>2
  <1> HIDE DEF Extra
  <1>1. TypeOK'
    BY <1>0 DEF IInv, TypeOK
  <1>2. Owners'
    BY DEF IInv, Owners
  <1>3. TurnsApart'
    BY DEF IInv, TypeOK, TurnsApart
  <1>4. ASSUME ~lapsed' PROVE Locks'
    <2>1. ~lapsed /\ ~Locked(c)
      BY <1>4 DEF IInv, TypeOK
    <2> QED
      BY <2>1 DEF IInv, TypeOK, Locks, Locked, InFlight
  <1> QED
    BY <1>1, <1>2, <1>3, <1>4 DEF IInv, Locks

\* compactIfWarm takes a turn on a worker that is there, or returns.
LEMMA CompactIfWarmKeeps == ASSUME IInv, NEW c \in Calls, CompactIfWarm(c) PROVE IInv'
  <1> USE PoolAssumption DEF CompactIfWarm, Asks, bounds, Extra, TakesTurn, Returns, Goes
  <1>0. extras' \in 0..MaxExtras /\ lapsed' \in BOOLEAN
    <2>1. CASE Locked(c)
      BY <2>1 DEF IInv, TypeOK
    <2>2. CASE ~Locked(c)
      BY <2>2 DEF IInv, TypeOK
    <2> QED
      BY <2>1, <2>2
  <1> HIDE DEF Extra
  <1>1. TypeOK'
    <2>1. pc' \in [Calls -> {"new", "run", "rebinding", "room", "turn", "healing", "done"}]
      BY DEF IInv, TypeOK
    <2>2. work' \in [Calls -> Slots \cup {None}] /\ busy' \in [Slots -> BOOLEAN]
      <3>1. SessionOf[c] \in Session
        OBVIOUS
      <3>2. CASE UNCHANGED busy /\ Returns(c)
        BY <3>2 DEF IInv, TypeOK
      <3>3. CASE entry[SessionOf[c]] # None /\ TakesTurn(c, entry[SessionOf[c]])
        BY <3>1, <3>3 DEF IInv, TypeOK
      <3> HIDE DEF Asks, TakesTurn, Returns
      <3> QED
        BY <3>2, <3>3
    <2> QED
      BY <1>0, <2>1, <2>2 DEF IInv, TypeOK
  <1>2. Owners'
    BY DEF IInv, Owners
  <1>3. TurnsApart'
    BY DEF IInv, TypeOK, TurnsApart, Owners
  <1>4. ASSUME ~lapsed' PROVE Locks'
    <2>1. ~lapsed /\ ~Locked(c)
      BY <1>4 DEF IInv, TypeOK
    <2> QED
      BY <2>1 DEF IInv, TypeOK, Locks, Locked, InFlight
  <1> QED
    BY <1>1, <1>2, <1>3, <1>4 DEF IInv, Locks

\* run(), by its ways.
LEMMA RunKeeps == ASSUME IInv, NEW c \in Calls, Run(c) PROVE IInv'
  <1> USE PoolAssumption
  <1>0. pc[c] = "run" /\ InFlight(c) /\ UNCHANGED <<flush, stopped, bounds>> /\ TypeOK
    BY RunCases DEF IInv, InFlight
  <1>1. CASE Returns(c) /\ UNCHANGED <<entry, worker>>
    <2>1. /\ pc' \in [Calls -> {"new", "run", "rebinding", "room", "turn", "healing", "done"}]
          /\ work' \in [Calls -> Slots \cup {None}]
          /\ TurnsApart'
          /\ ~lapsed => \A d, e \in Calls : InFlight(d)' /\ InFlight(e)' /\ SessionOf[d] = SessionOf[e]
                                            => d = e
      BY <1>0, <1>1, MoveKeeps DEF Returns, worker, bounds
    <2>2. TypeOK'
      BY <1>0, <1>1, <2>1 DEF TypeOK, worker, bounds
    <2>3. Owners'
      BY <1>1 DEF IInv, Owners, worker
    <2>4. Locks'
      BY <1>0, <1>1, <2>1 DEF IInv, TypeOK, Locks, worker, bounds, Returns, Goes
    <2> QED
      BY <2>1, <2>2, <2>3, <2>4 DEF IInv
  <1>2. CASE entry[SessionOf[c]] = None /\ Acquire(c, entry)
    BY <1>0, <1>2, AcquireKeeps DEF TypeOK
  <1>3. CASE /\ entry[SessionOf[c]] # None
             /\ entry' = [entry EXCEPT ![SessionOf[c]] = None]
             /\ life' = Closing(entry[SessionOf[c]], life)
             /\ Goes(c, "rebinding", entry[SessionOf[c]])
             /\ UNCHANGED <<dead, of, bind, busy>>
    <2> DEFINE w == entry[SessionOf[c]]
    <2>0. w \in Slots /\ SessionOf[c] \in Session
      BY <1>0, <1>3 DEF TypeOK
    <2>1. /\ entry' \in [Session -> Slots \cup {None}]
          /\ life' \in [Slots -> {"none", "up", "closing", "termed", "gone"}]
      BY <1>0, <1>3, <2>0 DEF TypeOK, Closing
    <2>2. \A s \in Session : entry'[s] \in {None, entry[s]} /\ entry'[s] # w
      BY <1>0, <1>3, <2>0 DEF IInv, TypeOK, Owners
    <2>3. \A v \in Slots : \/ life'[v] = life[v]
                           \/ life[v] = "up" /\ life'[v] = "closing" /\ \A s \in Session : entry'[s] # v
      BY <1>0, <1>3, <2>0, <2>2 DEF TypeOK, Closing
    <2>4. \A s \in Session : entry[s] # None /\ entry'[s] = None => life'[entry[s]] # "up"
      BY <1>0, <1>3, <2>0 DEF TypeOK, Closing
    <2>5. /\ \A v \in Slots : dead'[v] => life'[v] \in {"termed", "gone"}
          /\ Owners'
          /\ ~lapsed => \A v \in Slots : life'[v] = "up" => of'[v] \in Session /\ entry'[of'[v]] = v
      BY <1>3, <2>1, <2>2, <2>3, <2>4, DropKeeps
    <2>6. /\ pc' \in [Calls -> {"new", "run", "rebinding", "room", "turn", "healing", "done"}]
          /\ work' \in [Calls -> Slots \cup {None}]
          /\ TurnsApart'
          /\ ~lapsed => \A d, e \in Calls : InFlight(d)' /\ InFlight(e)' /\ SessionOf[d] = SessionOf[e]
                                            => d = e
      BY <1>0, <1>3, <2>0, MoveKeeps DEF bounds
    <2>7. TypeOK'
      BY <1>0, <1>3, <2>1, <2>5, <2>6 DEF TypeOK, bounds
    <2>8. ~lapsed => \A d \in Calls : pc'[d] \in {"rebinding", "room"} => entry'[SessionOf[d]] = None
      BY <1>0, <1>3, <2>0, <2>2 DEF IInv, TypeOK, Goes, Locks
    <2> QED
      BY <1>0, <2>5, <2>6, <2>7, <2>8, Together DEF bounds
  <1>4. CASE /\ entry[SessionOf[c]] # None /\ dead[entry[SessionOf[c]]]
             /\ Acquire(c, [entry EXCEPT ![SessionOf[c]] = None])
    <2> DEFINE ent == [entry EXCEPT ![SessionOf[c]] = None]
    <2>1. /\ ent \in [Session -> Slots \cup {None}]
          /\ \A s \in Session : \/ ent[s] = entry[s]
                                \/ ent[s] = None /\ entry[s] # None /\ dead[entry[s]]
          /\ ent[SessionOf[c]] = None
      BY <1>0, <1>4 DEF TypeOK
    <2> HIDE DEF ent
    <2> QED
      BY <1>0, <1>4, <2>1, AcquireKeeps DEF ent
  <1>5. CASE /\ entry[SessionOf[c]] # None /\ ~busy[entry[SessionOf[c]]]
             /\ bind[entry[SessionOf[c]]] = BindOf[c]
             /\ TakesTurn(c, entry[SessionOf[c]]) /\ UNCHANGED <<entry, life, dead, of, bind>>
    <2>0. entry[SessionOf[c]] \in Slots /\ of[entry[SessionOf[c]]] = SessionOf[c]
      BY <1>0, <1>5 DEF IInv, TypeOK, Owners
    <2>1. TypeOK'
      BY <1>0, <1>5, <2>0 DEF TypeOK, TakesTurn, bounds
    <2>2. Owners'
      BY <1>5 DEF IInv, Owners
    <2>3. TurnsApart'
      BY <1>0, <1>5, <2>0 DEF IInv, TypeOK, TurnsApart, TakesTurn
    <2>4. Locks'
      BY <1>0, <1>5 DEF IInv, TypeOK, Locks, TakesTurn, InFlight, bounds
    <2> QED
      BY <2>1, <2>2, <2>3, <2>4 DEF IInv
  <1> QED
    BY <1>0, <1>1, <1>2, <1>3, <1>4, <1>5, RunCases

\* After the worker of another loadout ended.
LEMMA ReboundKeeps == ASSUME IInv, NEW c \in Calls, Rebound(c) PROVE IInv'
  <1>1. ~lapsed => entry[SessionOf[c]] = None
    BY DEF Rebound, IInv, Locks
  <1> QED
    BY <1>1, AcquireKeeps DEF Rebound, IInv, TypeOK

\* After another session's worker made room.
LEMMA RoomMadeKeeps == ASSUME IInv, NEW c \in Calls, RoomMade(c) PROVE IInv'
  <1>1. ASSUME ~lapsed, NEW w \in Slots, life[w] = "up" PROVE of[w] # SessionOf[c]
    BY <1>1, PoolAssumption DEF RoomMade, IInv, Locks
  <1> QED
    BY <1>1, SpawnKeeps DEF RoomMade

\* After a healer's eviction the call tries again.
LEMMA HealedKeeps == ASSUME IInv, NEW c \in Calls, Healed(c) PROVE IInv'
  <1> USE PoolAssumption DEF Healed, worker, bounds
  <1>1. /\ pc' \in [Calls -> {"new", "run", "rebinding", "room", "turn", "healing", "done"}]
        /\ work' \in [Calls -> Slots \cup {None}]
        /\ TurnsApart'
        /\ ~lapsed => \A d, e \in Calls : InFlight(d)' /\ InFlight(e)' /\ SessionOf[d] = SessionOf[e]
                                          => d = e
    BY MoveKeeps DEF InFlight
  <1>2. TypeOK'
    BY <1>1 DEF IInv, TypeOK
  <1>3. Owners'
    BY DEF IInv, Owners
  <1>4. Locks'
    BY <1>1 DEF IInv, TypeOK, Locks, Goes
  <1> QED
    BY <1>1, <1>2, <1>3, <1>4 DEF IInv

\* A turn ends, and its call returns or tries again.
LEMMA TurnEndsKeeps == ASSUME IInv, NEW c \in Calls, TurnEnds(c) PROVE IInv'
  <1> USE PoolAssumption
  <1> DEFINE w == entry[SessionOf[c]]
  <1>0. /\ pc[c] = "turn" /\ work[c] \in Slots /\ busy' = [busy EXCEPT ![work[c]] = FALSE]
        /\ UNCHANGED <<dead, of, bind, flush, stopped, lapsed>>
        /\ TypeOK /\ TurnsApart /\ InFlight(c) /\ SessionOf[c] \in Session
    BY DEF TurnEnds, IInv, TurnsApart, InFlight
  <1>1. PICK to \in {"done", "run", "healing"}, v \in Slots \cup {None} : Goes(c, to, v)
    BY <1>0 DEF TurnEnds, Returns, TriesAgain, TypeOK
  <1>2. /\ \A s \in Session : entry'[s] \in {None, entry[s]}
        /\ \A s \in Session \ {SessionOf[c]} : entry'[s] = entry[s]
        /\ \/ entry' = entry /\ life' = life
           \/ entry'[SessionOf[c]] = None /\ life' = Closing(w, life)
    BY <1>0 DEF TurnEnds, Returns, TriesAgain, TypeOK
  <1>3. w \in Slots \cup {None} /\ (w # None => \A s \in Session \ {SessionOf[c]} : entry[s] # w)
    BY <1>0 DEF IInv, TypeOK, Owners
  <1>4. /\ entry' \in [Session -> Slots \cup {None}]
        /\ life' \in [Slots -> {"none", "up", "closing", "termed", "gone"}]
        /\ extras' \in 0..MaxExtras
    BY <1>0, <1>3 DEF TypeOK, TurnEnds, Returns, TriesAgain, Closing, Extra
  <1>5. \A u \in Slots : \/ life'[u] = life[u]
                         \/ life[u] = "up" /\ life'[u] = "closing" /\ \A s \in Session : entry'[s] # u
    BY <1>0, <1>2, <1>3 DEF TypeOK, Closing
  <1>6. \A s \in Session : entry[s] # None /\ entry'[s] = None => life'[entry[s]] # "up"
    BY <1>0, <1>2, <1>3 DEF TypeOK, Closing
  <1>7. /\ \A u \in Slots : dead'[u] => life'[u] \in {"termed", "gone"}
        /\ Owners'
        /\ ~lapsed => \A u \in Slots : life'[u] = "up" => of'[u] \in Session /\ entry'[of'[u]] = u
    BY <1>0, <1>2, <1>4, <1>5, <1>6, DropKeeps
  <1>8. TypeOK'
    BY <1>0, <1>1, <1>4, <1>7 DEF TypeOK, Goes
  <1>9. TurnsApart'
    BY <1>0, <1>1 DEF TypeOK, TurnsApart, Goes
  <1>10. \A d \in Calls : InFlight(d)' => InFlight(d)
    BY <1>0, <1>1 DEF TypeOK, InFlight, Goes
  <1>11. ~lapsed => \A d \in Calls : pc'[d] \in {"rebinding", "room"} => entry'[SessionOf[d]] = None
    BY <1>0, <1>1, <1>2 DEF IInv, TypeOK, Locks, Goes
  <1> QED
    BY <1>0, <1>7, <1>8, <1>9, <1>10, <1>11, Together DEF IInv, Locks

\* A worker that dies, is sent SIGTERM or exits stays where it is in the map.
LEMMA WorkerKeeps ==
    ASSUME IInv, NEW w \in Slots, Dies(w) \/ Term(w) \/ Exits(w)
    PROVE  IInv'
  <1> USE PoolAssumption DEF Dies, Term, Exits, call, bounds, Extra
  <1>0. extras' \in 0..MaxExtras /\ lapsed' \in BOOLEAN
    BY DEF IInv, TypeOK
  <1> HIDE DEF Extra
  <1>1. TypeOK'
    BY <1>0 DEF IInv, TypeOK
  <1>2. Owners'
    BY DEF IInv, TypeOK, Owners
  <1>3. TurnsApart'
    BY DEF IInv, TurnsApart
  <1>4. Locks'
    BY DEF IInv, TypeOK, Locks, InFlight
  <1> QED
    BY <1>1, <1>2, <1>3, <1>4 DEF IInv

\* What drops entries and moves no call keeps the rest.
LEMMA DropsKeep ==
    ASSUME IInv,
           entry' \in [Session -> Slots \cup {None}], life' \in [Slots -> {"none", "up", "closing", "termed", "gone"}],
           \A s \in Session : entry'[s] \in {None, entry[s]},
           \A w \in Slots : \/ life'[w] = life[w]
                            \/ life[w] = "up" /\ life'[w] = "closing" /\ \A s \in Session : entry'[s] # w,
           \A s \in Session : entry[s] # None /\ entry'[s] = None => life'[entry[s]] # "up",
           flush' \in [left : SUBSET Session, on : Slots \cup {None}], stopped' \in BOOLEAN,
           UNCHANGED <<dead, of, bind, busy, call, bounds>>
    PROVE  IInv'
  <1> USE PoolAssumption DEF call, bounds
  <1>1. /\ \A w \in Slots : dead'[w] => life'[w] \in {"termed", "gone"}
        /\ Owners'
        /\ ~lapsed => \A w \in Slots : life'[w] = "up" => of'[w] \in Session /\ entry'[of'[w]] = w
    BY DropKeeps
  <1>2. TypeOK'
    BY <1>1 DEF IInv, TypeOK
  <1>3. TurnsApart'
    BY DEF IInv, TurnsApart
  <1>4. Locks'
    BY <1>1 DEF IInv, TypeOK, Locks, InFlight
  <1> QED
    BY <1>1, <1>2, <1>3, <1>4 DEF IInv

\* The sweep or the governor evicts an idle worker.
LEMMA EvictIdleKeeps == ASSUME IInv, NEW w \in Slots, EvictIdle(w) PROVE IInv'
  <1>1. w \in Pooled(entry) /\ w # None
    BY DEF EvictIdle, Idle, Pooled
  <1>2. /\ entry' \in [Session -> Slots \cup {None}]
        /\ life' \in [Slots -> {"none", "up", "closing", "termed", "gone"}]
    BY DEF EvictIdle, Without, Closing, IInv, TypeOK
  <1>3. \A s \in Session : entry'[s] \in {None, entry[s]} /\ entry'[s] # w
    BY <1>1 DEF EvictIdle, Without
  <1>4. \A v \in Slots : \/ life'[v] = life[v]
                         \/ life[v] = "up" /\ life'[v] = "closing" /\ \A s \in Session : entry'[s] # v
    BY <1>3 DEF EvictIdle, Closing, IInv, TypeOK
  <1>5. \A s \in Session : entry[s] # None /\ entry'[s] = None => life'[entry[s]] # "up"
    BY <1>1 DEF EvictIdle, Without, Closing, IInv, TypeOK
  <1> QED
    BY <1>2, <1>3, <1>4, <1>5, DropsKeep DEF EvictIdle, IInv, TypeOK

\* flushAll comes to a session, or to its end.
LEMMA FlushNextKeeps == ASSUME IInv, FlushNext PROVE IInv'
  <1> USE PoolAssumption
  <1>1. CASE flush.left = {}
    BY <1>1, DropsKeep DEF FlushNext, IInv, TypeOK
  <1>2. CASE flush.left # {}
    <2>1. PICK s \in flush.left :
              /\ flush' = [left |-> flush.left \ {s}, on |-> entry[s]]
              /\ entry' = [entry EXCEPT ![s] = None]
              /\ life' = Closing(entry[s], life)
      BY <1>2 DEF FlushNext
    <2>2. s \in Session /\ entry[s] \in Slots \cup {None}
      BY DEF IInv, TypeOK
    <2>3. /\ entry' \in [Session -> Slots \cup {None}]
          /\ life' \in [Slots -> {"none", "up", "closing", "termed", "gone"}]
          /\ flush' \in [left : SUBSET Session, on : Slots \cup {None}]
      BY <2>1, <2>2 DEF Closing, IInv, TypeOK
    <2>4. \A r \in Session : entry'[r] \in {None, entry[r]} /\ (entry[s] # None => entry'[r] # entry[s])
      BY <2>1, <2>2 DEF IInv, TypeOK, Owners
    <2>5. \A v \in Slots : \/ life'[v] = life[v]
                           \/ life[v] = "up" /\ life'[v] = "closing" /\ \A r \in Session : entry'[r] # v
      BY <2>1, <2>2, <2>4 DEF Closing, IInv, TypeOK
    <2>6. \A r \in Session : entry[r] # None /\ entry'[r] = None => life'[entry[r]] # "up"
      BY <2>1, <2>2 DEF Closing, IInv, TypeOK
    <2>7. UNCHANGED <<dead, of, bind, busy, call, bounds>> /\ stopped' \in BOOLEAN
      BY DEF FlushNext, IInv, TypeOK
    <2> QED
      BY <2>3, <2>4, <2>5, <2>6, <2>7, DropsKeep
  <1> QED
    BY <1>1, <1>2

\* The pool stops: every entry goes.
LEMMA StopKeeps == ASSUME IInv, Stop PROVE IInv'
  <1> USE PoolAssumption
  <1>1. /\ entry' \in [Session -> Slots \cup {None}]
        /\ life' \in [Slots -> {"none", "up", "closing", "termed", "gone"}]
    BY DEF Stop, IInv, TypeOK
  <1>2. \A s \in Session : entry'[s] = None
    BY DEF Stop
  <1>3. \A v \in Slots : life'[v] = life[v] \/ (life[v] = "up" /\ life'[v] = "closing")
    BY DEF Stop, IInv, TypeOK
  <1>4. \A s \in Session : entry[s] # None => life'[entry[s]] # "up"
    BY DEF Stop, Pooled, IInv, TypeOK
  <1>5. UNCHANGED <<dead, of, bind, busy, call, bounds, flush>> /\ stopped' \in BOOLEAN
    BY DEF Stop
  <1>6. flush' \in [left : SUBSET Session, on : Slots \cup {None}]
    BY <1>5 DEF IInv, TypeOK
  <1> QED
    BY <1>1, <1>2, <1>3, <1>4, <1>5, <1>6, DropsKeep

\* flushAll starts.
LEMMA FlushStartsKeeps == ASSUME IInv, FlushStarts PROVE IInv'
  <1> USE PoolAssumption DEF FlushStarts, worker, call, Extra
  <1>1. TypeOK'
    BY DEF IInv, TypeOK
  <1>2. Owners' /\ TurnsApart'
    BY DEF IInv, Owners, TurnsApart
  <1>3. Locks'
    BY DEF IInv, Locks, InFlight
  <1> QED
    BY <1>1, <1>2, <1>3 DEF IInv

-----------------------------------------------------------------------------

\* At the start there are neither workers nor calls.
LEMMA Initially == Init => IInv
  <1> SUFFICES ASSUME Init
               PROVE  IInv
    OBVIOUS
  <1> USE PoolAssumption DEF Init
  <1>1. TypeOK
    <2>1. extras \in 0..MaxExtras
      OBVIOUS
    <2>2. flush \in [left : SUBSET Session, on : Slots \cup {None}]
      OBVIOUS
    <2>3. pc \in [Calls -> {"new", "run", "rebinding", "room", "turn", "healing", "done"}]
      OBVIOUS
    <2>4. bind \in [Slots -> {BindOf[c] : c \in Calls} \cup {None}]
      OBVIOUS
    <2> QED
      BY <2>1, <2>2, <2>3, <2>4 DEF TypeOK
  <1>2. Owners
    BY DEF Owners
  <1>3. TurnsApart
    BY DEF TurnsApart
  <1>4. Locks
    BY DEF Locks, InFlight
  <1> QED
    BY <1>1, <1>2, <1>3, <1>4 DEF IInv

\* Every step keeps the invariant.
LEMMA StepKeeps == IInv /\ [Next]_vars => IInv'
  <1> SUFFICES ASSUME IInv, [Next]_vars
               PROVE  IInv'
    OBVIOUS
  <1>1. ASSUME NEW c \in Calls, RunViaPool(c) \/ CompactIfWarm(c) \/ Step(c)
        PROVE  IInv'
    BY <1>1, RunViaPoolKeeps, CompactIfWarmKeeps, RunKeeps, ReboundKeeps, RoomMadeKeeps, HealedKeeps,
       TurnEndsKeeps DEF Step
  <1>2. ASSUME NEW w \in Slots, Dies(w) \/ Term(w) \/ Exits(w) \/ EvictIdle(w)
        PROVE  IInv'
    BY <1>2, WorkerKeeps, EvictIdleKeeps
  <1>3. CASE FlushStarts \/ FlushNext \/ Stop
    BY <1>3, FlushStartsKeeps, FlushNextKeeps, StopKeeps
  <1>4. CASE UNCHANGED vars
    BY <1>4 DEF vars, IInv, TypeOK, Owners, TurnsApart, Locks, InFlight
  <1> QED
    BY <1>1, <1>2, <1>3, <1>4 DEF Next

\* So it holds in every state.
LEMMA Inductive == Spec => []IInv
  BY Initially, StepKeeps, PTL DEF Spec

\* The variables keep their types, and a worker that is dead is on its way out.
THEOREM Typing == Spec => []TypeOK
  <1>1. IInv => TypeOK
    BY DEF IInv
  <1> QED
    BY <1>1, Inductive, PTL

\* No entry names a worker whose stdin was ended (pool.ts evict: the entry goes
\* before the shutdown is awaited).
THEOREM EntriesAreOpen == Spec => []OpenEntries
  <1>1. IInv => OpenEntries
    BY DEF IInv, Owners, OpenEntries
  <1> QED
    BY <1>1, Inductive, PTL

\* A turn runs on a worker of its session and of its loadout, and has it for
\* itself, whatever was evicted and respawned meanwhile (pool.ts run).
THEOREM TurnsAreRight == Spec => []RightWorker
  <1>1. ASSUME IInv PROVE RightWorker
    <2>1. ASSUME NEW c \in Calls, pc[c] = "turn"
          PROVE  of[work[c]] = SessionOf[c] /\ (c \notin CompactCalls => bind[work[c]] = BindOf[c])
      BY <1>1, <2>1 DEF IInv, TurnsApart
    <2>2. ASSUME NEW w \in Slots
          PROVE  busy[w] <=> Cardinality({c \in Calls : pc[c] = "turn" /\ work[c] = w}) = 1
      <3> DEFINE on == {c \in Calls : pc[c] = "turn" /\ work[c] = w}
      <3>1. CASE busy[w]
        <4>1. PICK c \in Calls : pc[c] = "turn" /\ work[c] = w
          BY <1>1, <3>1 DEF IInv, TurnsApart
        <4>2. on = {c}
          BY <1>1, <4>1 DEF IInv, TurnsApart
        <4> QED
          BY <3>1, <4>2, FS_Singleton
      <3>2. CASE ~busy[w]
        <4>1. on = {}
          BY <1>1, <3>2 DEF IInv, TurnsApart
        <4>2. Cardinality(on) = 0
          BY <4>1, FS_EmptySet
        <4> QED
          BY <3>2, <4>2
      <3> QED
        BY <3>1, <3>2
    <2> QED
      BY <2>1, <2>2 DEF RightWorker
  <1> QED
    BY <1>1, Inductive, PTL

\* While no lease expired, every process that runs is one the pool can reach,
\* and therefore evict (pool.ts acquire, sweepIdle).
THEOREM NoneAstray == Spec => []NoStray
  <1>1. IInv => NoStray
    BY DEF IInv, Locks, NoStray
  <1> QED
    BY <1>1, Inductive, PTL

\* A step that tells a busy worker to end, and does not end its turn.
Kept == \A w \in Slots : life[w] = "up" /\ life'[w] = "closing" /\ busy[w] /\ busy'[w] =>
            flush' # flush \/ stopped' # stopped \/ lapsed

\* A worker in the middle of a turn is told to end by a flush, by the stop of
\* the pool, or by a call that a lapsed lease let in (pool.ts evictLruIdle,
\* sweepIdle, evictIdleWorkerForMemory).
THEOREM BusyStays == Spec => BusyIsKept
  <1>1. IInv /\ [Next]_vars => Kept
    <2> SUFFICES ASSUME IInv, [Next]_vars, NEW w \in Slots,
                        life[w] = "up", life'[w] = "closing", busy[w], busy'[w],
                        flush' = flush, stopped' = stopped, ~lapsed
                 PROVE  FALSE
      BY DEF Kept
    <2> USE PoolAssumption
    <2>1. w # None /\ of[w] \in Session /\ entry[of[w]] = w
      BY DEF IInv, Locks
    <2>2. PICK d \in Calls : pc[d] = "turn" /\ work[d] = w /\ of[w] = SessionOf[d]
      BY DEF IInv, TurnsApart
    <2>3. \A s \in Session : entry[s] = w => s = SessionOf[d]
      BY <2>1, <2>2 DEF IInv, Owners
    <2>4. \A c \in Calls : InFlight(c) /\ SessionOf[c] = SessionOf[d] => c = d
      BY <2>2 DEF IInv, Locks, InFlight
    <2>5. ASSUME NEW c \in Calls, NEW ent, Acquire(c, ent)
          PROVE  FALSE
      <3>1. CASE Spawn(c)
        <4>1. PICK v \in Slots : life' = [life EXCEPT ![v] = "up"]
          BY <3>1, SpawnPicks
        <4> QED
          BY <4>1 DEF IInv, TypeOK
      <3>2. CASE ~Spawn(c)
        <4>1. PICK lru \in LruIdle(ent) : life' = Closing(lru, life)
          BY <2>5, <3>2 DEF Acquire
        <4>2. lru = w
          BY <4>1 DEF Closing, IInv, TypeOK
        <4> QED
          BY <2>1, <4>2 DEF LruIdle, Idle
      <3> QED
        BY <3>1, <3>2
    <2>6. ASSUME NEW c \in Calls, Run(c)
          PROVE  FALSE
      <3>1. TypeOK /\ SessionOf[c] \in Session
        BY DEF IInv
      <3>2. /\ entry[SessionOf[c]] # None
            /\ life' = Closing(entry[SessionOf[c]], life)
            /\ pc[c] = "run"
        BY <2>5, <2>6, <3>1, RunCases DEF Returns, worker, TakesTurn
      <3>3. entry[SessionOf[c]] = w
        BY <3>1, <3>2 DEF Closing, TypeOK
      <3>4. c = d
        BY <2>3, <2>4, <3>1, <3>2, <3>3 DEF InFlight
      <3> QED
        BY <2>2, <3>2, <3>4
    <2>7. ASSUME NEW c \in Calls, TurnEnds(c)
          PROVE  FALSE
      <3>1. pc[c] = "turn" /\ SessionOf[c] \in Session
        BY <2>7 DEF TurnEnds
      <3>2. life' = Closing(entry[SessionOf[c]], life)
        BY <2>7 DEF TurnEnds, TriesAgain
      <3>3. entry[SessionOf[c]] = w
        BY <3>1, <3>2 DEF Closing, IInv, TypeOK
      <3>4. c = d
        BY <2>3, <2>4, <3>1, <3>3 DEF InFlight
      <3> QED
        BY <2>2, <2>7, <3>4 DEF TurnEnds, IInv, TypeOK
    <2>8. ASSUME NEW c \in Calls, RunViaPool(c) \/ CompactIfWarm(c) \/ Healed(c)
          PROVE  FALSE
      BY <2>8 DEF RunViaPool, CompactIfWarm, Healed, worker
    <2>9. ASSUME NEW c \in Calls, Rebound(c) \/ RoomMade(c)
          PROVE  FALSE
      <3>1. CASE Rebound(c)
        BY <2>5, <3>1 DEF Rebound
      <3>2. CASE RoomMade(c)
        <4>1. PICK v \in Slots : life' = [life EXCEPT ![v] = "up"]
          BY <3>2, SpawnPicks DEF RoomMade
        <4> QED
          BY <4>1 DEF IInv, TypeOK
      <3> QED
        BY <2>9, <3>1, <3>2
    <2>10. ASSUME NEW v \in Slots, Dies(v) \/ Term(v) \/ Exits(v)
           PROVE  FALSE
      BY <2>10 DEF Dies, Term, Exits, IInv, TypeOK
    <2>11. ASSUME NEW v \in Slots, EvictIdle(v)
           PROVE  FALSE
      BY <2>11 DEF EvictIdle, Idle, Closing, IInv, TypeOK
    <2>12. ASSUME FlushStarts \/ FlushNext \/ Stop \/ UNCHANGED vars
           PROVE  FALSE
      <3>1. CASE FlushNext
        <4>1. flush.left = {} /\ UNCHANGED <<entry, life>>
          BY <3>1 DEF FlushNext, IInv, TypeOK
        <4> QED
          BY <4>1
      <3> QED
        BY <2>12, <3>1 DEF FlushStarts, Stop, worker, vars, IInv, TypeOK
    <2> QED
      BY <2>6, <2>7, <2>8, <2>9, <2>10, <2>11, <2>12 DEF Next, Step
  <1>2. IInv /\ [Next]_vars => [Kept]_vars
    BY <1>1
  <1> QED
    BY <1>2, Inductive, PTL DEF Spec, BusyIsKept, Kept

-----------------------------------------------------------------------------
(* Nobody waits for a worker that was not told to end. *)

Ends == {w \in Slots : life[w] \in {"closing", "termed", "gone"}}

\* Who waits for a worker's end waits for one that comes: its stdin was ended, it
\* was killed, or it is gone.
EndIsComing ==
    /\ \A c \in Calls : pc[c] \in {"rebinding", "room", "healing"} /\ work[c] # None => work[c] \in Ends
    /\ flush.on # None => flush.on \in Ends

\* A worker that an entry or a turn names was started.
Begun ==
    /\ \A s \in Session : entry[s] # None => life[entry[s]] # "none"
    /\ \A c \in Calls : pc[c] = "turn" => life[work[c]] # "none"

\* Nobody who holds a worker sees it start again.
Ages(w) == (w \in Ends => w \in Ends') /\ (life[w] # "none" => life'[w] # "none")

\* What a call does to its entry and its worker.
CallOnly(c) == \A d \in Calls : d # c => pc'[d] = pc[d] /\ work'[d] = work[d]

LEMMA AgesAll ==
    ASSUME IInv, EndIsComing, Begun, \A w \in Slots : Ages(w), NEW c \in Calls, CallOnly(c),
           UNCHANGED flush, \A s \in Session : entry'[s] \in {None, entry[s]},
           pc'[c] \in {"rebinding", "room", "healing"} /\ work'[c] # None => work'[c] \in Ends',
           pc'[c] = "turn" => life'[work'[c]] # "none"
    PROVE  EndIsComing' /\ Begun'
  <1>1. \A s \in Session : entry[s] # None => entry[s] \in Slots
    BY DEF IInv, TypeOK
  <1>2. \A d \in Calls : /\ work[d] # None => work[d] \in Slots
                         /\ pc[d] = "turn" => work[d] \in Slots
    BY DEF IInv, TypeOK, TurnsApart
  <1>3. flush.on # None => flush.on \in Slots
    BY DEF IInv, TypeOK
  <1>4. \A d \in Calls \ {c} :
            /\ pc'[d] \in {"rebinding", "room", "healing"} /\ work'[d] # None => work'[d] \in Ends'
            /\ pc'[d] = "turn" => life'[work'[d]] # "none"
    BY <1>2 DEF CallOnly, EndIsComing, Begun, Ages, Ends
  <1>5. EndIsComing'
    BY <1>3, <1>4 DEF EndIsComing, Ages, Ends
  <1>6. Begun'
    BY <1>1, <1>4 DEF Begun, Ages
  <1> QED BY <1>5, <1>6

\* A call that spawns a worker takes one that nobody holds.
LEMMA SpawnEnds ==
    ASSUME IInv, EndIsComing, Begun, NEW c \in Calls, Spawn(c), UNCHANGED flush
    PROVE  EndIsComing' /\ Begun'
  <1>1. PICK w \in Slots :
               /\ Free(w)
               /\ life' = [life EXCEPT ![w] = "up"]
               /\ entry' = [entry EXCEPT ![SessionOf[c]] = w]
               /\ TakesTurn(c, w)
    BY SpawnPicks
  <1>2. /\ \A s \in Session : entry[s] # w
        /\ \A d \in Calls : work[d] # w
        /\ flush.on # w
    <2>1. w \notin Pooled(entry) /\ flush.on # w /\ \A d \in Calls : work[d] # w
      BY <1>1 DEF Free, Held
    <2> QED BY <2>1, PoolAssumption DEF Pooled
  <1>3. \A v \in Slots : life'[v] = IF v = w THEN "up" ELSE life[v]
    BY <1>1 DEF IInv, TypeOK
  <1>4. \A d \in Calls : /\ pc'[d] = IF d = c THEN "turn" ELSE pc[d]
                         /\ work'[d] = IF d = c THEN w ELSE work[d]
    BY <1>1 DEF IInv, TypeOK, TakesTurn
  <1>5. \A s \in Session : entry'[s] \in {w, entry[s]}
    BY <1>1 DEF IInv, TypeOK
  <1>6. \A d \in Calls : (work[d] # None => work[d] \in Slots) /\ (pc[d] = "turn" => work[d] \in Slots)
    BY DEF IInv, TypeOK, TurnsApart
  <1>7. \A s \in Session : entry[s] # None => entry[s] \in Slots
    BY DEF IInv, TypeOK
  <1>8. flush.on # None => flush.on \in Slots
    BY DEF IInv, TypeOK
  <1>9. EndIsComing'
    BY <1>2, <1>3, <1>4, <1>6, <1>8 DEF EndIsComing, Ends
  <1>10. Begun'
    BY <1>2, <1>3, <1>4, <1>5, <1>6, <1>7 DEF Begun
  <1> QED BY <1>9, <1>10

\* A shutdown that is awaited comes to an end.
LEMMA ClosingEnds ==
    ASSUME IInv, Begun, NEW w \in Slots \cup {None}, life' = Closing(w, life),
           w \in Pooled(entry) \cup {None}
    PROVE  (\A v \in Slots : Ages(v)) /\ (w # None => w \in Ends')
  <1>1. \A v \in Slots : life'[v] = IF v = w /\ life[v] = "up" THEN "closing" ELSE life[v]
    BY PoolAssumption DEF Closing, IInv, TypeOK
  <1>2. w # None => w \in Slots /\ life[w] # "none"
    BY DEF Pooled, Begun
  <1>3. w # None => life[w] \in {"none", "up", "closing", "termed", "gone"}
    BY <1>2 DEF IInv, TypeOK
  <1> QED BY <1>1, <1>2, <1>3 DEF Ages, Ends

\* A call that gets a worker spawns one, or waits for the one it evicts.
LEMMA AcquireEnds ==
    ASSUME IInv, EndIsComing, Begun, NEW c \in Calls,
           NEW ent \in [Session -> Slots \cup {None}],
           \A s \in Session : ent[s] \in {None, entry[s]}, Acquire(c, ent), UNCHANGED flush
    PROVE  EndIsComing' /\ Begun'
  <1>1. CASE Spawn(c)
    BY <1>1, SpawnEnds
  <1>2. CASE ~Spawn(c)
    <2>1. PICK lru \in LruIdle(ent) :
              entry' = Without(ent, lru) /\ life' = Closing(lru, life) /\ Goes(c, "room", lru)
      BY <1>2 DEF Acquire
    <2>2. lru \in Slots \cup {None} /\ lru \in Pooled(entry) \cup {None}
      BY DEF LruIdle, Idle, Pooled
    <2>3. (\A v \in Slots : Ages(v)) /\ (lru # None => lru \in Ends')
      BY <2>1, <2>2, ClosingEnds
    <2>4. pc'[c] = "room" /\ work'[c] = lru /\ CallOnly(c)
      BY <2>1 DEF Goes, CallOnly, IInv, TypeOK
    <2>5. \A s \in Session : entry'[s] \in {None, entry[s]}
      BY <2>1 DEF Without
    <2> QED BY <2>3, <2>4, <2>5, AgesAll
  <1> QED BY <1>1, <1>2

\* The calls of run() and of the runner.
LEMMA CallEnds ==
    ASSUME IInv, EndIsComing, Begun, NEW c \in Calls, RunViaPool(c) \/ CompactIfWarm(c) \/ Step(c)
    PROVE  EndIsComing' /\ Begun'
  <1> DEFINE w == entry[SessionOf[c]]
  <1>1. /\ SessionOf[c] \in Session /\ w \in Slots \cup {None} /\ w \in Pooled(entry) \cup {None}
        /\ w # None => w \in Slots /\ life[w] # "none"
        /\ entry \in [Session -> Slots \cup {None}]
    BY PoolAssumption DEF IInv, TypeOK, Pooled, Begun
  <1>2. life' = life => \A v \in Slots : Ages(v)
    BY DEF Ages, Ends
  <1>3. ASSUME NEW to, NEW v, Goes(c, to, v)
        PROVE  pc'[c] = to /\ work'[c] = v /\ CallOnly(c)
    BY <1>3 DEF Goes, CallOnly, IInv, TypeOK
  <1>4. ASSUME NEW v, TakesTurn(c, v)
        PROVE  pc'[c] = "turn" /\ work'[c] = v /\ CallOnly(c)
    BY <1>4 DEF TakesTurn, CallOnly, IInv, TypeOK
  <1>5. CASE RunViaPool(c)
    <2>1. pc'[c] = "run" /\ CallOnly(c)
      BY <1>5 DEF RunViaPool, CallOnly, IInv, TypeOK
    <2> QED BY <1>2, <1>5, <2>1, AgesAll DEF RunViaPool, Asks, worker
  <1>6. CASE CompactIfWarm(c)
    <2>1. UNCHANGED <<entry, life, flush>>
      BY <1>6 DEF CompactIfWarm, Asks
    <2>2. (w # None /\ TakesTurn(c, w)) \/ Returns(c)
      BY <1>6 DEF CompactIfWarm
    <2>3. CallOnly(c) /\ (pc'[c] = "done" \/ (pc'[c] = "turn" /\ w # None /\ work'[c] = w))
      BY <1>3, <1>4, <2>2 DEF Returns
    <2> QED BY <1>1, <1>2, <2>1, <2>3, AgesAll
  <1>7. CASE Run(c)
    <2>1. CASE \E ent \in [Session -> Slots \cup {None}] :
                   Acquire(c, ent) /\ \A s \in Session : ent[s] \in {None, entry[s]}
      BY <1>7, <2>1, AcquireEnds DEF Run
    <2>2. CASE /\ entry' = [entry EXCEPT ![SessionOf[c]] = None]
               /\ life' = Closing(w, life) /\ Goes(c, "rebinding", w)
      <3>1. (\A v \in Slots : Ages(v)) /\ (w # None => w \in Ends')
        BY <1>1, <2>2, ClosingEnds
      <3>2. \A s \in Session : entry'[s] \in {None, entry[s]}
        BY <1>1, <2>2
      <3> QED BY <1>3, <1>7, <2>2, <3>1, <3>2, AgesAll DEF Run
    <2>3. CASE Returns(c) /\ UNCHANGED <<entry, worker>>
      <3>1. pc'[c] = "done" /\ CallOnly(c) /\ life' = life /\ entry' = entry /\ flush' = flush
        BY <1>3, <1>7, <2>3 DEF Returns, worker, Run
      <3> QED BY <1>2, <3>1, AgesAll
    <2>4. CASE w # None /\ TakesTurn(c, w) /\ UNCHANGED <<entry, life>>
      <3>1. pc'[c] = "turn" /\ work'[c] = w /\ CallOnly(c) /\ flush' = flush
        BY <1>4, <1>7, <2>4 DEF Run
      <3> QED BY <1>1, <1>2, <2>4, <3>1, AgesAll
    <2>5. [entry EXCEPT ![SessionOf[c]] = None] \in [Session -> Slots \cup {None}]
      BY <1>1
    <2>6. \A s \in Session : [entry EXCEPT ![SessionOf[c]] = None][s] \in {None, entry[s]}
      BY <1>1
    <2> QED BY <1>1, <1>7, <2>1, <2>2, <2>3, <2>4, <2>5, <2>6, RunCases DEF IInv
  <1>8. CASE Rebound(c) \/ RoomMade(c)
    BY <1>1, <1>8, AcquireEnds, SpawnEnds DEF Rebound, RoomMade
  <1>9. CASE Healed(c)
    <2>1. pc'[c] = "run" /\ CallOnly(c) /\ life' = life /\ entry' = entry /\ flush' = flush
      BY <1>3, <1>9 DEF Healed, worker
    <2> QED BY <1>2, <2>1, AgesAll
  <1>10. CASE TurnEnds(c)
    <2>1. CASE Returns(c) /\ UNCHANGED <<entry, life>>
      <3>1. pc'[c] = "done" /\ CallOnly(c) /\ flush' = flush
        BY <1>3, <1>10, <2>1 DEF Returns, TurnEnds
      <3> QED BY <1>2, <2>1, <3>1, AgesAll
    <2>2. CASE /\ Goes(c, "healing", w) /\ life' = Closing(w, life)
               /\ entry' = [entry EXCEPT ![SessionOf[c]] = None]
      <3>1. (\A v \in Slots : Ages(v)) /\ (w # None => w \in Ends')
        BY <1>1, <2>2, ClosingEnds
      <3>2. \A s \in Session : entry'[s] \in {None, entry[s]}
        BY <1>1, <2>2
      <3> QED BY <1>3, <1>10, <2>2, <3>1, <3>2, AgesAll DEF TurnEnds
    <2>3. CASE Goes(c, "run", None) /\ UNCHANGED <<entry, life>>
      <3>1. pc'[c] = "run" /\ CallOnly(c) /\ flush' = flush
        BY <1>3, <1>10, <2>3 DEF TurnEnds
      <3> QED BY <1>2, <2>3, <3>1, AgesAll
    <2> QED BY <1>10, <2>1, <2>2, <2>3 DEF TurnEnds, TriesAgain
  <1> QED BY <1>5, <1>6, <1>7, <1>8, <1>9, <1>10 DEF Step

\* Workers that die, evictions nobody in a call waits for, a flush, the stop.
LEMMA OtherEnds ==
    ASSUME IInv, EndIsComing, Begun,
           \/ \E w \in Slots : Dies(w) \/ Term(w) \/ Exits(w) \/ EvictIdle(w)
           \/ FlushStarts \/ FlushNext \/ Stop
    PROVE  EndIsComing' /\ Begun'
  <1>1. UNCHANGED call
    BY DEF Dies, Term, Exits, EvictIdle, FlushStarts, FlushNext, Stop
  <1>2. \A s \in Session : entry'[s] \in {None, entry[s]}
    BY DEF Dies, Term, Exits, EvictIdle, FlushStarts, FlushNext, Stop, Without, IInv, TypeOK
  <1>3. \A w \in Slots : Ages(w)
    <2>1. CASE \E w \in Slots : Dies(w) \/ Term(w) \/ Exits(w)
      BY <2>1 DEF Dies, Term, Exits, Ages, Ends, IInv, TypeOK
    <2>2. CASE \E w \in Slots : EvictIdle(w)
      BY <2>2, ClosingEnds DEF EvictIdle, Idle
    <2>3. CASE Stop
      BY <2>3 DEF Stop, Ages, Ends
    <2>4. CASE FlushStarts
      BY <2>4 DEF FlushStarts, worker, Ages, Ends
    <2>5. CASE FlushNext
      <3>1. CASE flush.left = {}
        BY <2>5, <3>1 DEF FlushNext, Ages, Ends
      <3>2. CASE flush.left # {}
        <4>1. PICK s \in flush.left : life' = Closing(entry[s], life)
          BY <2>5, <3>2 DEF FlushNext
        <4>2. entry[s] \in Slots \cup {None} /\ entry[s] \in Pooled(entry) \cup {None}
          BY DEF IInv, TypeOK, Pooled
        <4> QED BY <4>1, <4>2, ClosingEnds
      <3> QED BY <3>1, <3>2
    <2> QED BY <2>1, <2>2, <2>3, <2>4, <2>5
  <1>4. flush'.on # None => flush'.on \in Ends'
    <2>1. CASE FlushNext /\ flush.left # {}
      <3>1. PICK s \in flush.left : flush'.on = entry[s] /\ life' = Closing(entry[s], life)
        BY <2>1 DEF FlushNext
      <3>2. entry[s] \in Slots \cup {None} /\ entry[s] \in Pooled(entry) \cup {None}
        BY DEF IInv, TypeOK, Pooled
      <3> QED BY <3>1, <3>2, ClosingEnds
    <2>2. CASE ~(FlushNext /\ flush.left # {})
      <3>1. flush'.on \in {None, flush.on}
        BY <2>2 DEF Dies, Term, Exits, EvictIdle, FlushStarts, FlushNext, Stop, IInv, TypeOK
      <3>2. flush.on # None => flush.on \in Slots
        BY DEF IInv, TypeOK
      <3> QED BY <1>3, <3>1, <3>2 DEF EndIsComing, Ages
    <2> QED BY <2>1, <2>2
  <1>5. \A s \in Session : entry[s] # None => entry[s] \in Slots
    BY DEF IInv, TypeOK
  <1>6. \A d \in Calls : (work[d] # None => work[d] \in Slots) /\ (pc[d] = "turn" => work[d] \in Slots)
    BY DEF IInv, TypeOK, TurnsApart
  <1>7. EndIsComing'
    BY <1>1, <1>3, <1>4, <1>6 DEF EndIsComing, Ages, Ends, call
  <1>8. Begun'
    BY <1>1, <1>2, <1>3, <1>5, <1>6 DEF Begun, Ages, call
  <1> QED BY <1>7, <1>8

\* A call that evicted a worker to rebind, to make room or to heal, and a flush,
\* wait for a worker that was told to end, or ended already; never for one that
\* another call has started under the same session meanwhile.  That the end
\* comes is then up to the SIGTERM that follows in two seconds (shutdown).
THEOREM WaitsEnd == Spec => []EndIsComing
  <1>1. Init => EndIsComing /\ Begun
    BY DEF Init, EndIsComing, Begun
  <1>2. IInv /\ EndIsComing /\ Begun /\ [Next]_vars => EndIsComing' /\ Begun'
    <2> SUFFICES ASSUME IInv, EndIsComing, Begun, [Next]_vars
                 PROVE  EndIsComing' /\ Begun'
      OBVIOUS
    <2>1. CASE UNCHANGED vars
      BY <2>1 DEF vars, EndIsComing, Begun, Ends
    <2>2. CASE Next
      BY <2>2, CallEnds, OtherEnds DEF Next
    <2> QED BY <2>1, <2>2
  <1> QED BY <1>1, <1>2, Inductive, PTL DEF Spec

-----------------------------------------------------------------------------
(***************************************************************************)
(* Safety of Worker for any number of turns, compactions, messages and     *)
(* faults.                                                                 *)
(*                                                                         *)
(* What the properties say of results and notes follows from the order of  *)
(* the two pipes.  Of the turn in flight, its own line comes first: until  *)
(* the CLI reads it, there is no output but what nobody asked for; until   *)
(* the CLI answers it, every note that is read joins it; and the output    *)
(* that follows that answer belongs to notes that missed the turn.  So the *)
(* first result that is not of the CLI's own is the turn's, and when no    *)
(* note missed it, nothing of the turn is left behind when it ends, which  *)
(* is what makes it safe to keep the worker for the next.                  *)
(***************************************************************************)

\* What is in the pipes: a line that waits, and the kinds of output.
Waits(l)       == \E i \in 1..Len(stdin) : stdin[i] = l
Out            == 1..Len(stdout)
ResultOf(e, l) == e.type = "result" /\ e.line = l
EchoOf(e, l)   == e.type = "echo" /\ e.line = l
OwnTurn(e)     == e.type = "result" /\ e.line = Nothing
Calm(e)        == e.type = "changed" \/ OwnTurn(e)

\* The result of the turn in flight, in the output.
Ended(i)       == ResultOf(stdout[i], pending.turn)
EndedBefore(i) == \E j \in 1..(i - 1) : Ended(j)
Finished       == \E i \in Out : Ended(i)

\* A line is written once, and read once.
Lines ==
    /\ \A i, j \in 1..Len(stdin) : stdin[i] = stdin[j] => i = j
    /\ cli.run # Nothing => ~Waits(cli.run)
    /\ cli.tool => cli.run # Nothing /\ cli.run \notin Compacts
    /\ \A n \in Notes : Waits(n) \/ cli.run = n => joined[n] = Nothing /\ told[n] # "none"
    /\ \A n \in Notes : told[n] = "none" => into[n] = Nothing /\ joined[n] = Nothing
    /\ \A t \in Turns : Waits(t) \/ cli.run = t => outcome[t] \notin {"none", "ok"}
    /\ \A n \in Notes, t \in Turns : into[n] = t \/ joined[n] = t => Began(t)
    /\ pending # Nothing => outcome[pending.turn] = "waiting"

\* A line that was written, read, and is not being answered.
Past(l) ==
    /\ ~Waits(l) /\ cli.run # l
    /\ l \in Turns => Began(l)
    /\ l \in Notes => told[l] # "none"

\* A compaction is no work, and only a compaction is refused.
Proper(e) == (e.worked <=> e.line \notin Compacts) /\ (e.says = "refused" => e.line \in Compacts)

\* A result is that of such a line, or comes before all that was read.
Results ==
    /\ \A i \in Out : stdout[i].type = "result" /\ stdout[i].line # Nothing =>
          Past(stdout[i].line) /\ Proper(stdout[i])
    /\ \A i \in Out : OwnTurn(stdout[i]) =>
          /\ ~stdout[i].worked /\ stdout[i].says # "error"
          /\ \A j \in 1..(i - 1) : stdout[j].type = "changed"
          /\ pending # Nothing => ~pending.echoed
    /\ cli.fresh =>
          /\ cli.run = Nothing /\ \A i \in Out : stdout[i].type = "changed"
          /\ pending # Nothing => ~pending.echoed

\* Between two turns of a worker that lives, nothing of a turn is left.
Between == ~deadReason /\ pending = Nothing =>
    /\ stdin = <<>> /\ cli.run = Nothing
    /\ \A i \in Out : Calm(stdout[i])

\* The lines are those of the turn in flight,
Ours ==
    /\ \A l \in Line : Waits(l) => l = pending.turn \/ l \in pending.injected
    /\ cli.run = Nothing \/ cli.run = pending.turn \/ cli.run \in pending.injected

\* which does nothing before the CLI reads it,
Unread == Waits(pending.turn) \/ ~pending.wrote =>
    /\ cli.run = Nothing /\ ~pending.tools /\ pending.injected = {}
    /\ \A i \in Out : Calm(stdout[i])
    /\ ~pending.wrote => stdin = <<>>

\* nor, when it is a compaction, later;
Compacting == pending.turn \in Compacts =>
    /\ ~pending.tools /\ pending.injected = {}
    /\ \A i \in Out : stdout[i].type # "tool"

\* the CLI goes on to a note only after the result of the turn,
Answers ==
    /\ pending.wrote /\ ~Waits(pending.turn) /\ cli.run # pending.turn
          /\ pending.turn \notin Compacts /\ Runs => Finished
    /\ \A i \in Out : stdout[i].type = "result" /\ stdout[i].line # Nothing =>
          stdout[i].line = pending.turn \/ EndedBefore(i)

\* and what follows that result is of a note that did not join.
After == \A i \in Out : EndedBefore(i) =>
    stdout[i].type = "changed" \/ \E n \in pending.injected : joined[n] # pending.turn

\* The notes that joined the turn are those echoed before its result.
Joins ==
    /\ \A n \in Notes : joined[n] = pending.turn =>
          /\ n \in pending.injected
          /\ n \in pending.joined \/ \E i \in Out : EchoOf(stdout[i], n) /\ ~EndedBefore(i)
    /\ \A n \in pending.joined : joined[n] = pending.turn
    /\ \A i \in Out, n \in Notes : EchoOf(stdout[i], n) /\ ~EndedBefore(i) => joined[n] = pending.turn

\* Their callers wait, or were told so.
Callers ==
    /\ pending.waiters \subseteq pending.injected /\ pending.waiters \cap pending.joined = {}
    /\ \A n \in Notes : into[n] = pending.turn <=> n \in pending.injected
    /\ \A n \in pending.injected : told[n] \in {"waiting", "yes"}

InTurn == pending # Nothing =>
    Ours /\ Unread /\ Compacting /\ Answers /\ After /\ Joins /\ Callers

WorkerInv == /\ WorkerTypeOK /\ Lines /\ Results /\ Between /\ InTurn
             /\ OwnResult /\ SeenIsAnswered /\ ToldTheTruth

-----------------------------------------------------------------------------
(* The pipes *)

\* The fields of the turn in flight.
LEMMA PendingFields ==
    ASSUME WorkerTypeOK, pending # Nothing
    PROVE  /\ pending \in Pending /\ pending.turn \in Turns /\ pending.wrote \in BOOLEAN
           /\ pending.injected \subseteq Notes /\ pending.joined \subseteq Notes
           /\ pending.waiters \subseteq Notes /\ pending.joined \subseteq pending.injected
           /\ ~deadReason /\ pending.turn # Nothing /\ pending.turn \notin Notes
  BY LineAssumption DEF WorkerTypeOK, Pending, Line

\* A turn is no note, and neither is nothing.
LEMMA LineKinds ==
    /\ \A t \in Turns : t \in Line /\ t \notin Notes /\ t # Nothing
    /\ \A n \in Notes : n \in Line /\ n \notin Turns /\ n # Nothing
    /\ Compacts \subseteq Turns
  BY LineAssumption, WorkerAssumption DEF Line, Turns

\* The CLI's state, and an idle one's.
LEMMA CliFields ==
    /\ WorkerTypeOK => /\ cli.run \in Line \cup {Nothing} /\ cli.tool \in BOOLEAN
                       /\ cli.fresh \in BOOLEAN /\ cli.steps \in Nat
    /\ Resting.run = Nothing /\ Resting.tool = FALSE /\ Resting.fresh = FALSE /\ Resting.steps = 1
  BY DEF WorkerTypeOK, Resting

\* Output is added at the end.
LEMMA Grows ==
    ASSUME WorkerTypeOK, NEW events \in Seq(Event), stdout' = stdout \o events
    PROVE  /\ stdout' \in Seq(Event) /\ Len(stdout') = Len(stdout) + Len(events)
           /\ Out \subseteq Out'
           /\ \A i \in Out : stdout'[i] = stdout[i]
           /\ \A m \in 1..Len(events) :
                 Len(stdout) + m \in Out' /\ stdout'[Len(stdout) + m] = events[m]
           /\ \A i \in Out' : i \in Out \/ \E m \in 1..Len(events) : i = Len(stdout) + m
<1>1. stdout \in Seq(Event) /\ Len(stdout) \in Nat /\ Len(events) \in Nat
  BY DEF WorkerTypeOK
<1>2. /\ stdout' \in Seq(Event) /\ Len(stdout') = Len(stdout) + Len(events)
      /\ \A i \in 1..Len(stdout) : stdout'[i] = stdout[i]
      /\ \A m \in 1..Len(events) : stdout'[Len(stdout) + m] = events[m]
  BY <1>1
<1>3. \A i \in 1..Len(stdout') : i \in 1..Len(stdout) \/ i - Len(stdout) \in 1..Len(events)
  BY <1>1, <1>2
<1>4. \A i \in 1..Len(stdout') : i \in 1..Len(stdout) \/ \E m \in 1..Len(events) : i = Len(stdout) + m
  <2> SUFFICES ASSUME NEW i \in 1..Len(stdout'), i \notin 1..Len(stdout)
               PROVE  \E m \in 1..Len(events) : i = Len(stdout) + m
    OBVIOUS
  <2>1. i - Len(stdout) \in 1..Len(events) /\ i = Len(stdout) + (i - Len(stdout))
    BY <1>1, <1>3
  <2> QED BY <2>1
<1>5. \A m \in 1..Len(events) : Len(stdout) + m \in 1..Len(stdout')
  BY <1>1, <1>2
<1>6. 1..Len(stdout) \subseteq 1..Len(stdout')
  BY <1>1, <1>2
<1> QED BY <1>2, <1>4, <1>5, <1>6 DEF Out

\* The result of the turn in flight, when output is added.
LEMMA GrowsEnded ==
    ASSUME WorkerTypeOK, NEW events \in Seq(Event), stdout' = stdout \o events, UNCHANGED pending
    PROVE  /\ \A i \in Out : (Ended(i)' <=> Ended(i)) /\ (EndedBefore(i)' <=> EndedBefore(i))
           /\ Finished => Finished'
           /\ \A i \in Out' \ Out : Finished => EndedBefore(i)'
           /\ (\A m \in 1..Len(events) : events[m].type # "result") \/ Len(events) = 1 =>
                 \A i \in Out' \ Out : EndedBefore(i)' => Finished
<1>1. /\ Len(stdout') = Len(stdout) + Len(events) /\ Out \subseteq Out'
      /\ \A i \in Out : stdout'[i] = stdout[i]
      /\ \A m \in 1..Len(events) : stdout'[Len(stdout) + m] = events[m]
      /\ \A i \in Out' : i \in Out \/ \E m \in 1..Len(events) : i = Len(stdout) + m
  BY Grows
<1>0. Len(stdout) \in Nat /\ Len(events) \in Nat
  BY DEF WorkerTypeOK
<1>2. \A i \in Out : Ended(i)' <=> Ended(i)
  BY <1>1 DEF Ended, ResultOf
<1>3. \A i \in Out : \A j \in 1..(i - 1) : j \in Out
  BY <1>0 DEF Out
<1>4. \A i \in Out : EndedBefore(i)' <=> EndedBefore(i)
  BY <1>2, <1>3 DEF EndedBefore
<1>5. Finished => Finished'
  BY <1>1, <1>2 DEF Finished
<1>6. \A i \in Out' \ Out : \A j \in Out : j \in 1..(i - 1)
  BY <1>0, <1>1 DEF Out
<1>7. \A i \in Out' \ Out : Finished => EndedBefore(i)'
  BY <1>2, <1>6 DEF Finished, EndedBefore
<1>8. ASSUME (\A m \in 1..Len(events) : events[m].type # "result") \/ Len(events) = 1,
             NEW i \in Out' \ Out, NEW j \in 1..(i - 1), Ended(j)'
      PROVE  Finished
  <2>1. j \in Out'
    BY <1>0, <1>1 DEF Out
  <2>2. j \in Out
    <3>1. SUFFICES ASSUME j \notin Out PROVE FALSE
      OBVIOUS
    <3>2. PICK m \in 1..Len(events) : j = Len(stdout) + m
      BY <1>1, <2>1, <3>1
    <3>3. CASE \A x \in 1..Len(events) : events[x].type # "result"
      BY <1>1, <1>8, <3>2, <3>3 DEF Ended, ResultOf
    <3>4. CASE Len(events) = 1
      BY <1>0, <1>1, <3>2, <3>4 DEF Out
    <3> QED BY <1>8, <3>3, <3>4
  <2> QED BY <1>2, <1>8, <2>2 DEF Finished
<1> QED BY <1>2, <1>4, <1>5, <1>7, <1>8 DEF EndedBefore

\* Output is handled from the front.
LEMMA Shifts ==
    ASSUME WorkerTypeOK, stdout # <<>>, stdout' = Tail(stdout)
    PROVE  /\ stdout' \in Seq(Event) /\ Len(stdout') = Len(stdout) - 1
           /\ 1 \in Out /\ Head(stdout) = stdout[1] /\ Head(stdout) \in Event
           /\ \A i \in Out' : i + 1 \in Out /\ stdout'[i] = stdout[i + 1]
           /\ \A i \in Out : i = 1 \/ \E j \in Out' : i = j + 1
<1>1. stdout \in Seq(Event) /\ Len(stdout) \in Nat /\ Len(stdout) > 0
  BY DEF WorkerTypeOK
<1>2. /\ stdout' \in Seq(Event) /\ Len(stdout') = Len(stdout) - 1
      /\ \A i \in 1..Len(stdout') : stdout'[i] = stdout[i + 1]
      /\ Head(stdout) = stdout[1] /\ stdout[1] \in Event
  BY <1>1
<1>3. \A i \in 1..Len(stdout) : i = 1 \/ \E j \in 1..Len(stdout') : i = j + 1
  <2> SUFFICES ASSUME NEW i \in 1..Len(stdout), i # 1 PROVE \E j \in 1..Len(stdout') : i = j + 1
    OBVIOUS
  <2>1. i - 1 \in 1..Len(stdout') /\ i = (i - 1) + 1
    BY <1>1, <1>2
  <2> QED BY <2>1
<1> QED BY <1>1, <1>2, <1>3 DEF Out

\* The result of the turn in flight, when output is handled.
LEMMA ShiftsEnded ==
    ASSUME WorkerTypeOK, stdout # <<>>, stdout' = Tail(stdout),
           pending # Nothing, pending' # Nothing, pending'.turn = pending.turn
    PROVE  /\ \A i \in Out' : Ended(i)' <=> Ended(i + 1)
           /\ \A i \in Out' : EndedBefore(i)' => EndedBefore(i + 1)
           /\ \A i \in Out' : EndedBefore(i + 1) => EndedBefore(i)' \/ Ended(1)
           /\ Finished => Finished' \/ Ended(1)
           /\ ~EndedBefore(1)
<1>0. Len(stdout) \in Nat
  BY DEF WorkerTypeOK
<1>1. /\ Len(stdout') = Len(stdout) - 1 /\ 1 \in Out /\ Len(stdout) \in Nat
      /\ \A i \in Out' : i + 1 \in Out /\ stdout'[i] = stdout[i + 1]
      /\ \A i \in Out : i = 1 \/ \E j \in Out' : i = j + 1
  BY <1>0, Shifts
<1>2. \A i \in Out' : Ended(i)' <=> Ended(i + 1)
  BY <1>1 DEF Ended, ResultOf
<1>3. ASSUME NEW i \in Out', EndedBefore(i)' PROVE EndedBefore(i + 1)
  <2>1. PICK j \in 1..(i - 1) : Ended(j)'
    BY <1>3 DEF EndedBefore
  <2>2. j \in Out' /\ j + 1 \in 1..((i + 1) - 1)
    BY <1>1 DEF Out
  <2> QED BY <1>2, <2>1, <2>2 DEF EndedBefore
<1>4. ASSUME NEW i \in Out', EndedBefore(i + 1), ~Ended(1) PROVE EndedBefore(i)'
  <2>1. PICK j \in 1..((i + 1) - 1) : Ended(j)
    BY <1>4 DEF EndedBefore
  <2>2. j \in Out /\ j # 1
    BY <1>1, <1>4, <2>1 DEF Out
  <2>3. PICK x \in Out' : j = x + 1
    BY <1>1, <2>2
  <2>4. x \in 1..(i - 1)
    BY <1>1, <2>1, <2>3 DEF Out
  <2> QED BY <1>2, <2>1, <2>3, <2>4 DEF EndedBefore
<1>5. Finished => Finished' \/ Ended(1)
  BY <1>1, <1>2 DEF Finished
<1> QED BY <1>2, <1>3, <1>4, <1>5 DEF EndedBefore

-----------------------------------------------------------------------------
(* Types *)

\* What the CLI emits.
LEMMA EventTypes ==
    /\ \A l \in Line : Echo(l) \in Event
    /\ \A l \in Line \cup {Nothing} : \A says \in {"reply", "refused", "error"} : \A w \in BOOLEAN :
          [type |-> "result", line |-> l, says |-> says, worked |-> w] \in Event
    /\ [type |-> "tool"] \in Event /\ [type |-> "back"] \in Event /\ [type |-> "changed"] \in Event
    /\ \A e \in Event : /\ e.type \in {"echo", "tool", "back", "changed", "result"}
                        /\ e.type = "echo" => e.line \in Line
                        /\ e.type = "result" => e.line \in Line \cup {Nothing}
  BY DEF Event, Echo

\* The CLI keeps the types,
LEMMA CliTypes ==
    ASSUME WorkerTypeOK, Cli \/ CliChangesSession \/ CliExits
    PROVE  WorkerTypeOK'
<1>0. /\ stdout \in Seq(Event) /\ stdin \in Seq(Line) /\ Len(stdin) \in Nat
      /\ cli \in [run : Line \cup {Nothing}, tool : BOOLEAN, steps : Nat, fresh : BOOLEAN]
      /\ Resting \in [run : Line \cup {Nothing}, tool : BOOLEAN, steps : Nat, fresh : BOOLEAN]
  BY DEF WorkerTypeOK, Resting
<1>1. CASE CliOwnTurn
  <2>1. /\ UNCHANGED <<deadReason, pending, eof, proc, stdin, outcome, told, seen, took, into, joined, faults>>
        /\ cli' = [cli EXCEPT !.fresh = FALSE]
        /\ stdout' = stdout \o <<[type |-> "result", line |-> Nothing, says |-> "reply", worked |-> FALSE]>>
    BY <1>1 DEF CliOwnTurn, Emit, answer
  <2>2. [type |-> "result", line |-> Nothing, says |-> "reply", worked |-> FALSE] \in Event
    BY EventTypes
  <2>3. stdout' \in Seq(Event)
    BY <1>0, <2>1, <2>2
  <2> QED BY <1>0, <2>1, <2>3 DEF WorkerTypeOK
<1>2. CASE CliReads
  <2>1. /\ UNCHANGED <<deadReason, pending, eof, proc, outcome, told, seen, took, into, joined, faults>>
        /\ stdin # <<>> /\ cli' = [Resting EXCEPT !.run = Head(stdin)] /\ stdin' = Tail(stdin)
        /\ stdout' = stdout \o <<Echo(Head(stdin))>>
    BY <1>2 DEF CliReads, Emit, answer
  <2>2. Head(stdin) \in Line /\ stdin' \in Seq(Line)
    BY <1>0, <2>1
  <2>3. Echo(Head(stdin)) \in Event
    BY <2>2, EventTypes
  <2>4. stdout' \in Seq(Event)
    BY <1>0, <2>1, <2>3
  <2>5. cli' \in [run : Line \cup {Nothing}, tool : BOOLEAN, steps : Nat, fresh : BOOLEAN]
    BY <1>0, <2>1, <2>2
  <2> QED BY <2>1, <2>2, <2>4, <2>5 DEF WorkerTypeOK
<1>3. CASE CliTool
  <2>1. /\ UNCHANGED <<deadReason, pending, eof, proc, stdin, outcome, told, seen, took, into, joined, faults>>
        /\ cli' = [cli EXCEPT !.tool = TRUE, !.steps = @ - 1] /\ cli.steps > 0
        /\ stdout' = stdout \o <<[type |-> "tool"]>>
    BY <1>3 DEF CliTool, Emit, answer
  <2>2. stdout' \in Seq(Event)
    BY <1>0, <2>1, EventTypes
  <2>3. cli.steps - 1 \in Nat
    BY <1>0, <2>1
  <2>4. cli' \in [run : Line \cup {Nothing}, tool : BOOLEAN, steps : Nat, fresh : BOOLEAN]
    BY <1>0, <2>1, <2>3
  <2> QED BY <2>1, <2>2, <2>4 DEF WorkerTypeOK
<1>4. CASE CliToolBack
  <2>1. /\ UNCHANGED <<deadReason, pending, eof, proc, outcome, told, seen, took, into, faults>>
        /\ cli' = [cli EXCEPT !.tool = FALSE]
    BY <1>4 DEF CliToolBack, answer
  <2>2. PICK k \in 0..Len(stdin) :
          /\ stdout' = stdout \o (<<[type |-> "back"]>> \o [i \in 1..k |-> Echo(SubSeq(stdin, 1, k)[i])])
          /\ stdin' = SubSeq(stdin, k + 1, Len(stdin))
          /\ joined' = [n \in Notes |-> IF \E i \in 1..k : SubSeq(stdin, 1, k)[i] = n
                                        THEN cli.run ELSE joined[n]]
    BY <1>4 DEF CliToolBack, Emit
  <2>3. \A i \in 1..k : SubSeq(stdin, 1, k)[i] \in Line
    BY <1>0
  <2>4. \A i \in 1..k : Echo(SubSeq(stdin, 1, k)[i]) \in Event
    BY <2>3, EventTypes
  <2>5. [i \in 1..k |-> Echo(SubSeq(stdin, 1, k)[i])] \in Seq(Event)
    BY <2>4
  <2>6. stdout' \in Seq(Event)
    BY <1>0, <2>2, <2>5, EventTypes
  <2>7. stdin' \in Seq(Line)
    BY <1>0, <2>2
  <2>8. joined' \in [Notes -> Line \cup {Nothing}]
    BY <1>0, <2>2 DEF WorkerTypeOK
  <2> QED BY <1>0, <2>1, <2>6, <2>7, <2>8 DEF WorkerTypeOK
<1>5. CASE CliResult
  <2>1. /\ UNCHANGED <<deadReason, pending, eof, proc, stdin, outcome, told, seen, took, into, joined>>
        /\ cli' = Resting /\ faults' \in {faults, faults + 1} /\ (faults' = faults \/ faults < MaxFaults)
    BY <1>5 DEF CliResult, Fault, answer
  <2>2. PICK says \in {"reply", "refused", "error"} :
           stdout' = stdout \o <<[type |-> "result", line |-> cli.run, says |-> says,
                                  worked |-> cli.run \notin Compacts]>>
    BY <1>5 DEF CliResult, Emit
  <2>3. [type |-> "result", line |-> cli.run, says |-> says, worked |-> cli.run \notin Compacts] \in Event
    BY <1>0, EventTypes
  <2>4. stdout' \in Seq(Event)
    BY <1>0, <2>2, <2>3
  <2> QED BY <1>0, <2>1, <2>4, WorkerAssumption DEF WorkerTypeOK
<1>6. CASE CliChangesSession
  <2>1. /\ UNCHANGED <<deadReason, pending, eof, proc, stdin, cli, outcome, told, seen, took, into, joined>>
        /\ faults' = faults + 1 /\ faults < MaxFaults /\ stdout' = stdout \o <<[type |-> "changed"]>>
    BY <1>6 DEF CliChangesSession, Fault, Emit, answer
  <2>2. stdout' \in Seq(Event)
    BY <1>0, <2>1, EventTypes
  <2> QED BY <2>1, <2>2, WorkerAssumption DEF WorkerTypeOK
<1>7. CASE CliExits
  BY <1>7, WorkerAssumption DEF CliExits, Fault, answer, WorkerTypeOK
<1> QED BY <1>1, <1>2, <1>3, <1>4, <1>5, <1>6, <1>7 DEF Cli

\* What a turn's end does to the callers.
LEMMA EndTypes ==
    ASSUME WorkerTypeOK, NEW how \in {"ok", "failed"}
    PROVE  /\ SettleJoinWaiters \in [Notes -> {"none", "waiting", "yes", "no"}]
           /\ Settled(how) \in [Turns -> {"none", "waiting", "ok", "failed"}]
           /\ Signal \in {"up", "termed", "gone"}
  BY DEF WorkerTypeOK, SettleJoinWaiters, Settled, Signal

\* the daemon's calls and timers do,
LEMMA CallTypes ==
    ASSUME WorkerTypeOK,
           \/ \E t \in Turns : Turn(t)
           \/ \E n \in Notes : Inject(n)
           \/ WriteFails \/ IdleTimeout \/ Abort \/ Shutdown \/ ShutdownTerm \/ ExitSeen
    PROVE  WorkerTypeOK'
<1>0. /\ stdin \in Seq(Line) /\ Turns \subseteq Line /\ Notes \subseteq Line
      /\ faults \in 0..MaxFaults /\ MaxFaults \in Nat
  BY WorkerAssumption DEF WorkerTypeOK, Line
<1>1. ASSUME NEW t \in Turns, Turn(t) PROVE WorkerTypeOK'
  <2>1. CASE TurnRefused(t)
    BY <2>1 DEF TurnRefused, pipes, WorkerTypeOK
  <2>2. CASE TurnStarts(t)
    <3>1. /\ UNCHANGED <<deadReason, eof, proc, stdout, cli, told, seen, took, into, joined, faults>>
          /\ outcome' = [outcome EXCEPT ![t] = "waiting"] /\ ~deadReason
          /\ pending' = [turn |-> t, wrote |-> proc # "gone" /\ ~eof, echoed |-> FALSE,
                         tools |-> FALSE, injected |-> {}, joined |-> {}, waiters |-> {}]
      BY <2>2 DEF TurnStarts
    <3>2. pending' \in Pending
      BY <3>1 DEF Pending
    <3>3. stdin' \in Seq(Line)
      BY <1>0, <2>2 DEF TurnStarts, Write
    <3> QED BY <3>1, <3>2, <3>3 DEF WorkerTypeOK
  <2> QED BY <1>1, <2>1, <2>2 DEF Turn
<1>2. ASSUME NEW n \in Notes, Inject(n) PROVE WorkerTypeOK'
  <2>0. UNCHANGED <<deadReason, eof, proc, stdout, cli, outcome, seen, took, joined, faults>>
    BY <1>2 DEF Inject
  <2>1. CASE told' = [told EXCEPT ![n] = "no"] /\ UNCHANGED <<pending, stdin, into>>
    BY <2>0, <2>1 DEF WorkerTypeOK
  <2>2. CASE /\ pending # Nothing /\ told' = [told EXCEPT ![n] = "waiting"]
             /\ pending' = [pending EXCEPT !.injected = @ \cup {n}, !.waiters = @ \cup {n}]
             /\ Write(n) /\ into' = [into EXCEPT ![n] = pending.turn]
    <3>1. pending' \in Pending /\ pending'.joined \subseteq pending'.injected
      BY <2>2, PendingFields DEF Pending
    <3>2. stdin' \in Seq(Line)
      BY <1>0, <2>2 DEF Write
    <3> QED BY <2>0, <2>2, <3>1, <3>2, PendingFields DEF WorkerTypeOK
  <2> QED BY <1>2, <2>1, <2>2 DEF Inject
<1>3. CASE WriteFails
  BY <1>3, EndTypes DEF WriteFails, pipes, WorkerTypeOK
<1>4. CASE IdleTimeout
  BY <1>4, EndTypes DEF IdleTimeout, pipes, WorkerTypeOK
<1>5. CASE Abort \/ ExitSeen
  <2>1. /\ UNCHANGED <<eof, stdin, stdout, cli, seen, took, into, joined>>
        /\ faults' \in {faults, faults + 1} /\ (faults' = faults \/ faults < MaxFaults)
        /\ deadReason' = TRUE /\ proc' \in {proc, Signal} /\ told' = SettleJoinWaiters
        /\ outcome' = Settled("failed") /\ pending' = Nothing
    BY <1>5 DEF Abort, ExitSeen, Fault, pipes, Die
  <2> QED BY <1>0, <2>1, EndTypes DEF WorkerTypeOK
<1>6. CASE Shutdown \/ ShutdownTerm
  <2>1. /\ UNCHANGED <<deadReason, pending, stdin, stdout, cli, outcome, told, seen, took, into,
                       joined, faults>>
        /\ eof' \in {eof, TRUE} /\ proc' \in {proc, "termed"}
    BY <1>6 DEF Shutdown, ShutdownTerm, pipes, answer
  <2> QED BY <2>1 DEF WorkerTypeOK
<1> QED BY <1>1, <1>2, <1>3, <1>4, <1>5, <1>6

\* and so does the handling of the output.
LEMMA EventStepTypes ==
    ASSUME WorkerTypeOK, HandleEvent
    PROVE  WorkerTypeOK'
<1>1. /\ UNCHANGED <<eof, stdin, cli, into, joined, faults>> /\ stdout # <<>> /\ stdout' = Tail(stdout)
  BY DEF HandleEvent
<1>2. PICK e \in Event : /\ e = Head(stdout)
                         /\ \/ Ignore(e) \/ Changed(e) \/ TakeEcho(e)
                            \/ TakeTool(e) \/ SkipResult(e) \/ TakeResult(e)
  BY <1>1, Shifts DEF HandleEvent
<1>3. stdout' \in Seq(Event)
  BY <1>1, Shifts
<1>4. CASE Ignore(e) \/ SkipResult(e)
  BY <1>1, <1>3, <1>4 DEF Ignore, SkipResult, answer, WorkerTypeOK
<1>5. CASE Changed(e)
  BY <1>1, <1>3, <1>5, EndTypes DEF Changed, Die, WorkerTypeOK
<1>6. CASE TakeEcho(e)
  <2>1. /\ pending # Nothing /\ UNCHANGED <<deadReason, proc, outcome, seen, took>>
        /\ told' = [n \in Notes |-> IF n = e.line /\ n \in pending.waiters THEN "yes" ELSE told[n]]
        /\ pending' = [pending EXCEPT
                          !.echoed = @ \/ e.line = pending.turn,
                          !.joined = @ \cup (IF e.line \in pending.injected THEN {e.line} ELSE {}),
                          !.waiters = @ \ {e.line}]
    BY <1>6 DEF TakeEcho, Mine
  <2>2. pending' \in Pending /\ pending'.joined \subseteq pending'.injected
    BY <2>1, PendingFields DEF Pending
  <2>3. told' \in [Notes -> {"none", "waiting", "yes", "no"}]
    BY <2>1 DEF WorkerTypeOK
  <2> QED BY <1>1, <1>3, <2>1, <2>2, <2>3, PendingFields DEF WorkerTypeOK
<1>7. CASE TakeTool(e)
  <2>1. /\ pending # Nothing /\ UNCHANGED <<deadReason, proc, outcome, told, seen, took>>
        /\ pending' = [pending EXCEPT !.tools = (e.type = "tool")]
    BY <1>7 DEF TakeTool, Mine, answer
  <2>2. pending' \in Pending /\ pending'.joined \subseteq pending'.injected
    BY <2>1, PendingFields DEF Pending
  <2> QED BY <1>1, <1>3, <2>1, <2>2, PendingFields DEF WorkerTypeOK
<1>8. CASE TakeResult(e)
  <2>1. /\ pending # Nothing /\ told' = SettleJoinWaiters
        /\ outcome' \in {Settled("ok"), Settled("failed")}
        /\ took' = [took EXCEPT ![pending.turn] = e]
        /\ seen' \in {seen, seen \cup pending.joined}
        /\ pending' = Nothing /\ deadReason' \in BOOLEAN /\ proc' \in {proc, Signal}
    BY <1>8 DEF TakeResult, Mine, WorkerTypeOK
  <2>2. took' \in [Turns -> Event \cup {Nothing}]
    BY <2>1 DEF WorkerTypeOK
  <2> QED BY <1>1, <1>3, <2>1, <2>2, EndTypes, PendingFields DEF WorkerTypeOK
<1> QED BY <1>2, <1>4, <1>5, <1>6, <1>7, <1>8

LEMMA InitTypes == WorkerInit => WorkerTypeOK
<1> SUFFICES ASSUME WorkerInit PROVE WorkerTypeOK
  OBVIOUS
<1>1. PICK resumed \in BOOLEAN : cli = [Resting EXCEPT !.fresh = resumed]
  BY DEF WorkerInit
<1>2. cli \in [run : Line \cup {Nothing}, tool : BOOLEAN, steps : Nat, fresh : BOOLEAN]
  BY <1>1 DEF Resting
<1>3. stdin \in Seq(Line) /\ stdout \in Seq(Event)
  BY DEF WorkerInit
<1>4. /\ outcome \in [Turns -> {"none", "waiting", "ok", "failed"}]
      /\ told \in [Notes -> {"none", "waiting", "yes", "no"}]
      /\ took \in [Turns -> Event \cup {Nothing}]
      /\ into \in [Notes -> Turns \cup {Nothing}] /\ joined \in [Notes -> Line \cup {Nothing}]
  BY DEF WorkerInit
<1>5. /\ deadReason = FALSE /\ pending = Nothing /\ eof = FALSE /\ seen = {}
      /\ proc = "up" /\ faults = 0
  BY DEF WorkerInit
<1>6. faults \in 0..MaxFaults
  BY <1>5, WorkerAssumption
<1> QED BY <1>2, <1>3, <1>4, <1>5, <1>6 DEF WorkerTypeOK

-----------------------------------------------------------------------------
(* The steps of the CLI *)

\* What a step keeps besides the types.
AllKept == Lines' /\ Results' /\ Between' /\ InTurn' /\ OwnResult' /\ SeenIsAnswered' /\ ToldTheTruth'

\* One more event of output.
LEMMA GrowsByOne ==
    ASSUME WorkerTypeOK, NEW e \in Event, stdout' = stdout \o <<e>>, UNCHANGED pending
    PROVE  /\ \A i \in Out : i \in Out' /\ stdout'[i] = stdout[i] /\ \A j \in 1..(i - 1) : j \in Out
           /\ \A i \in Out' \ Out : stdout'[i] = e /\ \A j \in 1..(i - 1) : j \in Out
           /\ \A i \in Out : (Ended(i)' <=> Ended(i)) /\ (EndedBefore(i)' <=> EndedBefore(i))
           /\ \A i \in Out' \ Out : EndedBefore(i)' <=> Finished
           /\ Finished => Finished'
           /\ ResultOf(e, pending.turn) => Finished'
<1>1. <<e>> \in Seq(Event) /\ Len(<<e>>) = 1 /\ <<e>>[1] = e /\ 1 \in 1..Len(<<e>>)
  OBVIOUS
<1>2. Len(stdout) \in Nat
  BY DEF WorkerTypeOK
<1>3. /\ Len(stdout') = Len(stdout) + 1 /\ Out \subseteq Out'
      /\ \A i \in Out : stdout'[i] = stdout[i]
      /\ Len(stdout) + 1 \in Out' /\ stdout'[Len(stdout) + 1] = e
  BY <1>1, Grows
<1>4. /\ \A i \in Out : \A j \in 1..(i - 1) : j \in Out
      /\ \A i \in Out' \ Out : i = Len(stdout) + 1 /\ \A j \in 1..(i - 1) : j \in Out
  BY <1>2, <1>3 DEF Out
<1>5. /\ \A i \in Out : (Ended(i)' <=> Ended(i)) /\ (EndedBefore(i)' <=> EndedBefore(i))
      /\ \A i \in Out' \ Out : EndedBefore(i)' <=> Finished
      /\ Finished => Finished'
  BY <1>1, GrowsEnded
<1>6. ResultOf(e, pending.turn) => Finished'
  BY <1>3 DEF Finished, Ended
<1> QED BY <1>3, <1>4, <1>5, <1>6

\* A step that touches neither the answers nor the notes keeps the properties.
LEMMA PropertiesKept ==
    ASSUME WorkerInv, UNCHANGED <<outcome, told, seen, took, into, joined>>
    PROVE  OwnResult' /\ SeenIsAnswered' /\ ToldTheTruth'
  BY DEF WorkerInv, OwnResult, SeenIsAnswered, ToldTheTruth

\* The first k lines are read.
LEMMA LinesRead ==
    ASSUME WorkerTypeOK, Lines, NEW k \in 0..Len(stdin), Len(stdin') = Len(stdin) - k,
           \A i \in 1..Len(stdin') : stdin'[i] = stdin[i + k]
    PROVE  /\ \A l : Waits(l)' <=> Waits(l) /\ \A i \in 1..k : stdin[i] # l
           /\ \A i, j \in 1..Len(stdin') : stdin'[i] = stdin'[j] => i = j
<1>1. Len(stdin) \in Nat
  BY DEF WorkerTypeOK
<1>2. \A i \in 1..Len(stdin') : i + k \in 1..Len(stdin) /\ i + k \notin 1..k
  BY <1>1
<1>3. \A i \in 1..Len(stdin) : i \in 1..k \/ (i - k \in 1..Len(stdin') /\ (i - k) + k = i)
  BY <1>1
<1>4. \A i \in 1..k : i \in 1..Len(stdin)
  BY <1>1
<1>5. \A i, j \in 1..Len(stdin) : stdin[i] = stdin[j] => i = j
  BY DEF Lines
<1>6. ASSUME NEW l, Waits(l)' PROVE Waits(l) /\ \A i \in 1..k : stdin[i] # l
  <2>1. PICK i \in 1..Len(stdin') : stdin'[i] = l
    BY <1>6 DEF Waits
  <2>2. stdin[i + k] = l /\ i + k \in 1..Len(stdin) /\ i + k \notin 1..k
    BY <1>2, <2>1
  <2> QED BY <1>4, <1>5, <2>2 DEF Waits
<1>7. ASSUME NEW l, Waits(l), \A i \in 1..k : stdin[i] # l PROVE Waits(l)'
  <2>1. PICK i \in 1..Len(stdin) : stdin[i] = l
    BY <1>7 DEF Waits
  <2>2. i - k \in 1..Len(stdin') /\ (i - k) + k = i
    BY <1>3, <1>7, <2>1
  <2>3. stdin'[i - k] = l
    BY <2>1, <2>2
  <2> QED BY <2>2, <2>3 DEF Waits
<1>8. ASSUME NEW i \in 1..Len(stdin'), NEW j \in 1..Len(stdin'), stdin'[i] = stdin'[j] PROVE i = j
  <2>1. i + k = j + k
    BY <1>2, <1>5, <1>8
  <2> QED BY <2>1, <1>1
<1> QED BY <1>6, <1>7, <1>8

\* While a line of a turn is being answered, the turn's own line was read, and
\* answered if it is another.
LEMMA Running ==
    ASSUME WorkerInv, pending # Nothing, cli.run # Nothing
    PROVE  /\ pending.wrote /\ ~Waits(pending.turn)
           /\ cli.run = pending.turn => ~Finished
           /\ cli.run # pending.turn =>
                 /\ cli.run \in pending.injected /\ joined[cli.run] # pending.turn
                 /\ pending.turn \notin Compacts /\ (Runs => Finished)
<1>1. /\ WorkerTypeOK /\ Lines /\ Results /\ Ours /\ Unread /\ Compacting /\ Answers
      /\ pending.turn \in Turns /\ pending.turn # Nothing /\ pending.injected \subseteq Notes
  BY PendingFields DEF WorkerInv, InTurn
<1>2. pending.wrote /\ ~Waits(pending.turn)
  BY <1>1 DEF Unread
<1>3. ASSUME cli.run = pending.turn, NEW i \in Out, Ended(i) PROVE FALSE
  BY <1>1, <1>3 DEF Results, Past, Ended, ResultOf
<1>4. ASSUME cli.run # pending.turn
      PROVE  /\ cli.run \in pending.injected /\ joined[cli.run] # pending.turn
             /\ pending.turn \notin Compacts /\ (Runs => Finished)
  <2>1. cli.run \in pending.injected /\ cli.run \in Notes
    BY <1>1, <1>4 DEF Ours
  <2>2. joined[cli.run] = Nothing
    BY <1>1, <2>1 DEF Lines
  <2>3. pending.turn \notin Compacts
    BY <1>1, <2>1 DEF Compacting
  <2> QED BY <1>1, <1>2, <1>4, <2>1, <2>2, <2>3 DEF Answers
<1> QED BY <1>2, <1>3, <1>4 DEF Finished

\* The step of a CLI that only writes an event which is no echo, and may end
\* what it runs.
LEMMA KeptByEmit ==
    ASSUME WorkerInv, NEW e \in Event, stdout' = stdout \o <<e>>, Runs,
           UNCHANGED <<deadReason, pending, eof, proc, stdin, outcome, told, seen, took, into, joined>>,
           cli'.run \in {cli.run, Nothing},
           cli'.tool => cli'.run # Nothing /\ cli'.run \notin Compacts,
           Calm(e) \/ cli.run # Nothing,
           e.type # "echo",
           e.type = "changed" \/ cli.run # Nothing \/ ~Finished,
           e.type = "tool" => cli.run \notin Compacts,
           e.type = "result" /\ e.line # Nothing => e.line = cli.run,
           cli'.run # cli.run => e.type = "result" /\ e.line = cli.run
    PROVE  Lines' /\ Between' /\ InTurn' /\ OwnResult' /\ SeenIsAnswered' /\ ToldTheTruth'
<1>1. /\ WorkerTypeOK /\ Lines /\ Results /\ Between /\ InTurn
      /\ \A x : Waits(x)' <=> Waits(x)
      /\ \A x : Began(x)' <=> Began(x)
  BY DEF WorkerInv, Waits, Began
<1>2. /\ \A i \in Out : i \in Out' /\ stdout'[i] = stdout[i] /\ \A j \in 1..(i - 1) : j \in Out
      /\ \A i \in Out' \ Out : stdout'[i] = e /\ \A j \in 1..(i - 1) : j \in Out
      /\ \A i \in Out : (Ended(i)' <=> Ended(i)) /\ (EndedBefore(i)' <=> EndedBefore(i))
      /\ \A i \in Out' \ Out : EndedBefore(i)' <=> Finished
      /\ Finished => Finished'
      /\ ResultOf(e, pending.turn) => Finished'
  BY <1>1, GrowsByOne
<1>3. Lines'
  <2>1. \A i, j \in 1..Len(stdin') : stdin'[i] = stdin'[j] => i = j
    BY <1>1 DEF Lines
  <2>2. cli'.run # Nothing => ~Waits(cli.run)' /\ cli'.run = cli.run
    BY <1>1 DEF Lines
  <2>3. /\ \A n \in Notes : Waits(n)' \/ cli'.run = n => Waits(n) \/ cli.run = n
        /\ \A t \in Turns : Waits(t)' \/ cli'.run = t => Waits(t) \/ cli.run = t
    BY <1>1, LineKinds
  <2> QED BY <1>1, <2>1, <2>2, <2>3 DEF Lines
<1>4. Between'
  BY <1>1, <1>2 DEF Between, Calm, OwnTurn
<1>5. ASSUME pending # Nothing PROVE InTurn'
  <2> USE <1>5
  <2>1. /\ Ours /\ Unread /\ Compacting /\ Answers /\ After /\ Joins /\ Callers
        /\ pending.turn \in Turns /\ pending.turn # Nothing /\ pending.turn \notin Notes
    BY <1>1, PendingFields DEF InTurn
  <2>2. Ours'
    BY <1>1, <2>1 DEF Ours
  <2>3. Unread'
    <3>1. SUFFICES ASSUME Waits(pending.turn) \/ ~pending.wrote
          PROVE  /\ cli'.run = Nothing /\ ~pending.tools /\ pending.injected = {}
                 /\ \A i \in Out' : Calm(stdout'[i])
                 /\ ~pending.wrote => stdin' = <<>>
      BY <1>1 DEF Unread, Calm, OwnTurn
    <3>2. /\ cli.run = Nothing /\ ~pending.tools /\ pending.injected = {}
          /\ \A i \in Out : Calm(stdout[i])
          /\ ~pending.wrote => stdin = <<>>
      BY <2>1, <3>1 DEF Unread
    <3> QED BY <1>2, <3>2
  <2>4. Compacting'
    <3>1. pending.turn \in Compacts => e.type # "tool"
      BY Running DEF Calm, OwnTurn
    <3> QED BY <1>2, <2>1, <3>1 DEF Compacting
  <2>5. Answers'
    <3>1. pending.wrote /\ ~Waits(pending.turn) /\ cli'.run # pending.turn
            /\ pending.turn \notin Compacts => Finished'
      <4>1. CASE cli.run = pending.turn /\ cli'.run # pending.turn
        BY <1>2, <4>1 DEF ResultOf
      <4> QED BY <1>2, <2>1, <4>1 DEF Answers
    <3>2. ASSUME NEW i \in Out', stdout'[i].type = "result", stdout'[i].line # Nothing
          PROVE  stdout'[i].line = pending.turn \/ EndedBefore(i)'
      <4>1. CASE i \in Out
        BY <1>2, <2>1, <3>2, <4>1 DEF Answers
      <4>2. CASE i \notin Out
        BY <1>2, <3>2, <4>2, Running
      <4> QED BY <4>1, <4>2
    <3> QED BY <1>1, <3>1, <3>2 DEF Answers
  <2>6. After'
    <3>1. e.type = "changed" \/ (Finished => \E n \in pending.injected : joined[n] # pending.turn)
      BY Running
    <3> QED BY <1>2, <2>1, <3>1 DEF After
  <2>7. Joins'
    <3>1. \A i \in Out', n \in Notes : EchoOf(stdout'[i], n) => i \in Out
      BY <1>2 DEF EchoOf
    <3> QED BY <1>2, <2>1, <3>1 DEF Joins
  <2>8. Callers'
    BY <2>1 DEF Callers
  <2> QED BY <2>2, <2>3, <2>4, <2>5, <2>6, <2>7, <2>8 DEF InTurn
<1>6. InTurn'
  BY <1>5 DEF InTurn
<1> QED BY <1>3, <1>4, <1>6, PropertiesKept


\* What was answered stays so when nothing is read.
LEMMA PastKept ==
    ASSUME UNCHANGED <<stdin, outcome, told>>, cli'.run \in {cli.run, Nothing}
    PROVE  \A x : Past(x) /\ x # Nothing => Past(x)'
  BY DEF Past, Waits, Began

LEMMA KeptByOwnTurn ==
    ASSUME WorkerInv, CliOwnTurn
    PROVE  AllKept
<1> DEFINE e == [type |-> "result", line |-> Nothing, says |-> "reply", worked |-> FALSE]
<1>1. /\ UNCHANGED <<deadReason, pending, eof, proc, stdin, outcome, told, seen, took, into, joined>>
      /\ Runs /\ cli.fresh /\ cli' = [cli EXCEPT !.fresh = FALSE] /\ stdout' = stdout \o <<e>>
  BY DEF CliOwnTurn, Emit, answer
<1>2. /\ WorkerTypeOK /\ Lines /\ Results
      /\ e \in Event /\ OwnTurn(e) /\ Calm(e) /\ ~e.worked /\ e.says = "reply" /\ e.type = "result"
  BY EventTypes DEF WorkerInv, OwnTurn, Calm
<1>3. cli'.run = cli.run /\ cli'.tool = cli.tool /\ ~cli'.fresh
  BY <1>1, <1>2 DEF WorkerTypeOK
<1>4. /\ cli.run = Nothing /\ ~cli.tool /\ \A i \in Out : stdout[i].type = "changed"
      /\ pending # Nothing => ~pending.echoed
  BY <1>1, <1>2 DEF Results, Lines
<1>5. ~Finished
  BY <1>4 DEF Finished, Ended, ResultOf
<1> HIDE DEF e
<1>6. Lines' /\ Between' /\ InTurn' /\ OwnResult' /\ SeenIsAnswered' /\ ToldTheTruth'
  BY <1>1, <1>2, <1>3, <1>4, <1>5, KeptByEmit DEF OwnTurn
<1>7. Results'
  <2>1. /\ \A i \in Out : i \in Out' /\ stdout'[i] = stdout[i] /\ \A j \in 1..(i - 1) : j \in Out
        /\ \A i \in Out' \ Out : stdout'[i] = e /\ \A j \in 1..(i - 1) : j \in Out
    BY <1>1, <1>2, GrowsByOne
  <2>2. \A i \in Out' : ~(stdout'[i].type = "result" /\ stdout'[i].line # Nothing)
    BY <1>2, <1>4, <2>1 DEF OwnTurn
  <2>3. \A i \in Out' : OwnTurn(stdout'[i]) =>
          /\ ~stdout'[i].worked /\ stdout'[i].says # "error"
          /\ \A j \in 1..(i - 1) : stdout'[j].type = "changed"
    BY <1>2, <1>4, <2>1 DEF OwnTurn
  <2> QED BY <1>1, <1>3, <1>4, <2>2, <2>3 DEF Results
<1> QED BY <1>6, <1>7 DEF AllKept

LEMMA KeptByReads ==
    ASSUME WorkerInv, CliReads
    PROVE  AllKept
<1> DEFINE l == Head(stdin)
           e == Echo(l)
<1>1. /\ UNCHANGED <<deadReason, pending, eof, proc, outcome, told, seen, took, into, joined>>
      /\ stdin # <<>> /\ stdin' = Tail(stdin) /\ cli.run = Nothing /\ Runs
      /\ cli' = [Resting EXCEPT !.run = l] /\ stdout' = stdout \o <<e>>
  BY DEF CliReads, Emit, answer
<1>2. WorkerTypeOK /\ Lines /\ Results /\ Between /\ InTurn
  BY DEF WorkerInv
<1>3. /\ l \in Line /\ Waits(l) /\ l # Nothing
      /\ \A x : Waits(x)' <=> Waits(x) /\ x # l
      /\ \A i, j \in 1..Len(stdin') : stdin'[i] = stdin'[j] => i = j
  <2>1. stdin \in Seq(Line) /\ Len(stdin) \in Nat /\ stdin # <<>>
    BY <1>1, <1>2 DEF WorkerTypeOK
  <2>2. /\ 1 \in 0..Len(stdin) /\ 1 \in 1..Len(stdin) /\ l = stdin[1] /\ l \in Line
        /\ Len(stdin') = Len(stdin) - 1 /\ \A i \in 1..Len(stdin') : stdin'[i] = stdin[i + 1]
    BY <1>1, <2>1
  <2>3. /\ \A x : Waits(x)' <=> Waits(x) /\ \A i \in 1..1 : stdin[i] # x
        /\ \A i, j \in 1..Len(stdin') : stdin'[i] = stdin'[j] => i = j
    BY <1>2, <2>2, LinesRead
  <2>4. l # Nothing /\ Waits(l)
    BY <2>2, LineAssumption DEF Waits
  <2>5. \A i \in 1..1 : stdin[i] = l
    BY <2>2
  <2> HIDE DEF l
  <2>6. \A x : Waits(x)' <=> Waits(x) /\ x # l
    BY <2>3, <2>5
  <2> QED BY <2>2, <2>3, <2>4, <2>6
<1>4. /\ e \in Event /\ e.type = "echo" /\ e.line = l /\ ~Calm(e)
      /\ \A x : EchoOf(e, x) <=> x = l
  BY <1>3, EventTypes DEF Echo, Calm, OwnTurn, EchoOf
<1>5. cli'.run = l /\ ~cli'.tool /\ ~cli'.fresh
  BY <1>1 DEF Resting
<1>6. /\ \A i \in Out : i \in Out' /\ stdout'[i] = stdout[i] /\ \A j \in 1..(i - 1) : j \in Out
      /\ \A i \in Out' \ Out : stdout'[i] = e /\ \A j \in 1..(i - 1) : j \in Out
      /\ \A i \in Out : (Ended(i)' <=> Ended(i)) /\ (EndedBefore(i)' <=> EndedBefore(i))
      /\ \A i \in Out' \ Out : EndedBefore(i)' <=> Finished
      /\ Finished => Finished'
  BY <1>1, <1>2, <1>4, GrowsByOne
<1> HIDE DEF l, e
<1>7. Lines'
  BY <1>1, <1>2, <1>3, <1>5 DEF Lines, Began
<1>8. Results'
  <2>1. \A i \in Out' : stdout'[i].type = "result" => i \in Out
    BY <1>4, <1>6
  <2>2. \A x : Past(x) => Past(x)'
    BY <1>1, <1>3, <1>5 DEF Past, Began
  <2>3. \A i \in Out' : OwnTurn(stdout'[i]) =>
          /\ ~stdout'[i].worked /\ stdout'[i].says # "error"
          /\ \A j \in 1..(i - 1) : stdout'[j].type = "changed"
          /\ pending # Nothing => ~pending.echoed
    BY <1>2, <1>6, <2>1 DEF Results, OwnTurn
  <2>4. \A i \in Out' : \A x : stdout'[i].type = "result" /\ stdout'[i].line # Nothing =>
          (x = stdout'[i].line => Past(x)') /\ Proper(stdout'[i])
    BY <1>2, <1>6, <2>1, <2>2 DEF Results
  <2> QED BY <1>1, <1>5, <2>3, <2>4 DEF Results
<1>9. deadReason \/ pending # Nothing
  BY <1>1, <1>2 DEF Between
<1>10. Between'
  BY <1>1, <1>9 DEF Between
<1>11. ASSUME pending # Nothing PROVE InTurn'
  <2> USE <1>11
  <2>1. Ours /\ Unread /\ Compacting /\ Answers /\ After /\ Joins /\ Callers
    BY <1>2 DEF InTurn
  <2>2. pending.wrote /\ ~Waits(pending.turn)' /\ pending.wrote'
    <3>1. pending.wrote
      BY <1>1, <2>1 DEF Unread
    <3>2. Waits(pending.turn) => l = pending.turn
      BY <1>3, <2>1 DEF Ours, Unread
    <3> QED BY <1>1, <1>3, <3>1, <3>2
  <2>3. l # pending.turn =>
           /\ l \in pending.injected /\ ~Waits(pending.turn) /\ pending.turn \notin Compacts
           /\ Finished /\ joined[l] # pending.turn
    <3>1. SUFFICES ASSUME l # pending.turn PROVE l \in pending.injected /\ ~Waits(pending.turn)
             /\ pending.turn \notin Compacts /\ Finished /\ joined[l] # pending.turn
      OBVIOUS
    <3>2. l \in pending.injected /\ l \in Notes
      BY <1>2, <1>3, <2>1, <3>1, PendingFields DEF Ours
    <3>3. ~Waits(pending.turn) /\ pending.turn \notin Compacts
      BY <2>1, <3>2 DEF Unread, Compacting
    <3>4. Finished
      BY <1>1, <1>2, <2>1, <2>2, <3>3, PendingFields DEF Answers
    <3>5. joined[l] = Nothing
      BY <1>2, <1>3, <3>2 DEF Lines
    <3> QED BY <1>2, <3>2, <3>3, <3>4, <3>5, PendingFields
  <2>4. l = pending.turn => ~Finished
    <3>1. SUFFICES ASSUME l = pending.turn, NEW i \in Out, Ended(i) PROVE FALSE
      BY DEF Finished
    <3>2. stdout[i].type = "result" /\ stdout[i].line = l /\ stdout[i].line # Nothing
      BY <1>3, <3>1 DEF Ended, ResultOf
    <3> QED BY <1>2, <1>3, <3>2 DEF Results, Past
  <2>5. Ours' /\ Unread' /\ Compacting'
    <3>1. Ours'
      BY <1>1, <1>3, <1>5, <2>1, <2>3 DEF Ours
    <3>2. Unread'
      BY <1>1, <2>2 DEF Unread
    <3>3. Compacting'
      BY <1>1, <1>4, <1>6, <2>1 DEF Compacting
    <3> QED BY <3>1, <3>2, <3>3
  <2>6. Answers'
    <3>1. \A i \in Out' : stdout'[i].type = "result" => i \in Out
      BY <1>4, <1>6
    <3>2. \A i \in Out' : stdout'[i].type = "result" /\ stdout'[i].line # Nothing =>
            stdout'[i].line = pending.turn \/ EndedBefore(i)'
      BY <1>6, <2>1, <3>1 DEF Answers
    <3>3. cli'.run # pending.turn => Finished'
      BY <1>5, <1>6, <2>3
    <3> QED BY <1>1, <3>2, <3>3 DEF Answers
  <2>7. After'
    BY <1>1, <1>6, <2>1, <2>3, <2>4 DEF After
  <2>8. Joins'
    <3>1. \A i \in Out', n \in Notes : EchoOf(stdout'[i], n) /\ ~EndedBefore(i)' => i \in Out
      <4>1. ASSUME NEW i \in Out' \ Out, NEW n \in Notes, EchoOf(stdout'[i], n), ~EndedBefore(i)'
            PROVE  FALSE
        <5>1. n = l /\ ~Finished
          BY <1>4, <1>6, <4>1
        <5> QED BY <1>2, <2>3, <5>1, PendingFields
      <4> QED BY <4>1
    <3>2. \A n \in Notes : joined[n] = pending.turn =>
            /\ n \in pending.injected
            /\ n \in pending.joined \/ \E i \in Out' : EchoOf(stdout'[i], n) /\ ~EndedBefore(i)'
      BY <1>6, <2>1 DEF Joins
    <3>3. \A i \in Out', n \in Notes : EchoOf(stdout'[i], n) /\ ~EndedBefore(i)' => joined[n] = pending.turn
      BY <1>6, <2>1, <3>1 DEF Joins
    <3> QED BY <1>1, <2>1, <3>2, <3>3 DEF Joins
  <2>9. Callers'
    BY <1>1, <2>1 DEF Callers
  <2> QED BY <2>5, <2>6, <2>7, <2>8, <2>9 DEF InTurn
<1>12. InTurn'
  BY <1>1, <1>11 DEF InTurn
<1> QED BY <1>1, <1>7, <1>8, <1>10, <1>12, PropertiesKept DEF AllKept

LEMMA KeptByTool ==
    ASSUME WorkerInv, CliTool
    PROVE  AllKept
<1> DEFINE e == [type |-> "tool"]
<1>1. /\ UNCHANGED <<deadReason, pending, eof, proc, stdin, outcome, told, seen, took, into, joined>>
      /\ Runs /\ cli.run \notin Compacts \cup {Nothing}
      /\ cli' = [cli EXCEPT !.tool = TRUE, !.steps = @ - 1] /\ stdout' = stdout \o <<e>>
  BY DEF CliTool, Emit, answer
<1>2. WorkerTypeOK /\ Results /\ e \in Event /\ e.type = "tool"
  BY EventTypes DEF WorkerInv
<1>3. cli'.run = cli.run /\ cli'.fresh = cli.fresh
  BY <1>1, <1>2 DEF WorkerTypeOK
<1> HIDE DEF e
<1>4. Lines' /\ Between' /\ InTurn' /\ OwnResult' /\ SeenIsAnswered' /\ ToldTheTruth'
  BY <1>1, <1>2, <1>3, KeptByEmit
<1>5. Results'
  <2>1. /\ \A i \in Out : i \in Out' /\ stdout'[i] = stdout[i] /\ \A j \in 1..(i - 1) : j \in Out
        /\ \A i \in Out' \ Out : stdout'[i] = e /\ \A j \in 1..(i - 1) : j \in Out
    BY <1>1, <1>2, GrowsByOne
  <2>2. \A x : Past(x) /\ x # Nothing => Past(x)'
    BY <1>1, <1>3, PastKept
  <2>3. \A i \in Out' : \A x : stdout'[i].type = "result" /\ stdout'[i].line # Nothing =>
          (x = stdout'[i].line => Past(x)') /\ Proper(stdout'[i])
    BY <1>2, <2>1, <2>2 DEF Results
  <2>4. \A i \in Out' : OwnTurn(stdout'[i]) =>
          /\ ~stdout'[i].worked /\ stdout'[i].says # "error"
          /\ \A j \in 1..(i - 1) : stdout'[j].type = "changed"
          /\ pending # Nothing => ~pending.echoed
    BY <1>2, <2>1 DEF Results, OwnTurn
  <2>5. ~cli'.fresh
    BY <1>1, <1>2, <1>3 DEF Results
  <2> QED BY <1>1, <2>3, <2>4, <2>5 DEF Results
<1> QED BY <1>4, <1>5 DEF AllKept

LEMMA KeptByResult ==
    ASSUME WorkerInv, CliResult
    PROVE  AllKept
<1>1. PICK says \in {"reply", "refused", "error"} :
         /\ says = "refused" => cli.run \in Compacts
         /\ stdout' = stdout \o <<[type |-> "result", line |-> cli.run, says |-> says,
                                   worked |-> cli.run \notin Compacts]>>
  BY DEF CliResult, Emit
<1> DEFINE e == [type |-> "result", line |-> cli.run, says |-> says, worked |-> cli.run \notin Compacts]
<1>2. /\ UNCHANGED <<deadReason, pending, eof, proc, stdin, outcome, told, seen, took, into, joined>>
      /\ Runs /\ cli.run # Nothing /\ cli' = Resting /\ stdout' = stdout \o <<e>>
  BY <1>1 DEF CliResult, answer
<1>3. WorkerTypeOK /\ Lines /\ Results /\ cli.run \in Line
  BY <1>2 DEF WorkerInv, WorkerTypeOK
<1>4. /\ e \in Event /\ e.type = "result" /\ e.line = cli.run /\ ~OwnTurn(e)
      /\ Proper(e)
  BY <1>1, <1>2, <1>3, EventTypes DEF OwnTurn, Proper
<1>5. cli'.run = Nothing /\ ~cli'.tool /\ ~cli'.fresh
  BY <1>2 DEF Resting
<1> HIDE DEF e
<1>6. Lines' /\ Between' /\ InTurn' /\ OwnResult' /\ SeenIsAnswered' /\ ToldTheTruth'
  BY <1>2, <1>3, <1>4, <1>5, KeptByEmit
<1>7. Results'
  <2>1. /\ \A i \in Out : i \in Out' /\ stdout'[i] = stdout[i] /\ \A j \in 1..(i - 1) : j \in Out
        /\ \A i \in Out' \ Out : stdout'[i] = e /\ \A j \in 1..(i - 1) : j \in Out
    BY <1>2, <1>3, <1>4, GrowsByOne
  <2>2. \A x : Past(x) /\ x # Nothing => Past(x)'
    BY <1>2, <1>5, PastKept
  <2>3. \A x : x = cli.run => Past(x)'
    BY <1>2, <1>3, <1>5, LineKinds DEF Past, Waits, Lines, Began
  <2>4. \A i \in Out' : \A x : stdout'[i].type = "result" /\ stdout'[i].line # Nothing =>
          (x = stdout'[i].line => Past(x)') /\ Proper(stdout'[i])
    BY <1>3, <1>4, <2>1, <2>2, <2>3 DEF Results
  <2>5. \A i \in Out' : OwnTurn(stdout'[i]) =>
          /\ ~stdout'[i].worked /\ stdout'[i].says # "error"
          /\ \A j \in 1..(i - 1) : stdout'[j].type = "changed"
          /\ pending # Nothing => ~pending.echoed
    BY <1>3, <1>4, <2>1 DEF Results, OwnTurn
  <2> QED BY <1>2, <1>5, <2>4, <2>5 DEF Results
<1> QED BY <1>6, <1>7 DEF AllKept

LEMMA KeptByChange ==
    ASSUME WorkerInv, CliChangesSession
    PROVE  AllKept
<1> DEFINE e == [type |-> "changed"]
<1>1. /\ UNCHANGED <<deadReason, pending, eof, proc, stdin, cli, outcome, told, seen, took, into, joined>>
      /\ Runs /\ stdout' = stdout \o <<e>>
  BY DEF CliChangesSession, Emit, answer
<1>2. WorkerTypeOK /\ Lines /\ Results /\ e \in Event /\ e.type = "changed" /\ Calm(e)
  BY EventTypes DEF WorkerInv, Calm
<1> HIDE DEF e
<1>3. Lines' /\ Between' /\ InTurn' /\ OwnResult' /\ SeenIsAnswered' /\ ToldTheTruth'
  <2>1. cli.tool => cli.run # Nothing /\ cli.run \notin Compacts
    BY <1>2 DEF Lines
  <2> QED BY <1>1, <1>2, <2>1, KeptByEmit
<1>4. Results'
  <2>1. /\ \A i \in Out : i \in Out' /\ stdout'[i] = stdout[i] /\ \A j \in 1..(i - 1) : j \in Out
        /\ \A i \in Out' \ Out : stdout'[i] = e /\ \A j \in 1..(i - 1) : j \in Out
    BY <1>1, <1>2, GrowsByOne
  <2>2. \A x : Past(x) /\ x # Nothing => Past(x)'
    BY <1>1, PastKept
  <2>3. \A i \in Out' : \A x : stdout'[i].type = "result" /\ stdout'[i].line # Nothing =>
          (x = stdout'[i].line => Past(x)') /\ Proper(stdout'[i])
    BY <1>2, <2>1, <2>2 DEF Results
  <2>4. \A i \in Out' : OwnTurn(stdout'[i]) =>
          /\ ~stdout'[i].worked /\ stdout'[i].says # "error"
          /\ \A j \in 1..(i - 1) : stdout'[j].type = "changed"
          /\ pending # Nothing => ~pending.echoed
    BY <1>2, <2>1 DEF Results, OwnTurn
  <2>5. cli.fresh => /\ cli.run = Nothing /\ \A i \in Out' : stdout'[i].type = "changed"
                     /\ pending # Nothing => ~pending.echoed
    BY <1>2, <2>1 DEF Results
  <2> QED BY <1>1, <2>3, <2>4, <2>5 DEF Results
<1> QED BY <1>3, <1>4 DEF AllKept

\* The lines read by the end of a tool step join the turn that runs.
LEMMA KeptByToolBack ==
    ASSUME WorkerInv, CliToolBack
    PROVE  AllKept
<1>1. PICK k \in 0..Len(stdin) :
        /\ stdout' = stdout \o (<<[type |-> "back"]>> \o [i \in 1..k |-> Echo(SubSeq(stdin, 1, k)[i])])
        /\ stdin' = SubSeq(stdin, k + 1, Len(stdin))
        /\ joined' = [n \in Notes |-> IF \E i \in 1..k : SubSeq(stdin, 1, k)[i] = n
                                      THEN cli.run ELSE joined[n]]
  BY DEF CliToolBack, Emit
<1> DEFINE Read(x) == \E i \in 1..k : stdin[i] = x
           events == <<[type |-> "back"]>> \o [i \in 1..k |-> Echo(SubSeq(stdin, 1, k)[i])]
<1>2. /\ UNCHANGED <<deadReason, pending, eof, proc, outcome, told, seen, took, into>>
      /\ Runs /\ cli.tool /\ cli' = [cli EXCEPT !.tool = FALSE] /\ stdout' = stdout \o events
  BY <1>1 DEF CliToolBack, answer
<1>3. /\ WorkerTypeOK /\ Lines /\ Results /\ InTurn /\ OwnResult /\ SeenIsAnswered /\ ToldTheTruth
      /\ stdin \in Seq(Line) /\ Len(stdin) \in Nat
  BY DEF WorkerInv, WorkerTypeOK
<1>4. /\ cli'.run = cli.run /\ ~cli'.tool /\ cli'.fresh = cli.fresh
      /\ cli.run # Nothing /\ cli.run \in Line /\ ~cli.fresh
  BY <1>2, <1>3 DEF WorkerTypeOK, Lines, Results
<1>5. \A i \in 1..k : /\ SubSeq(stdin, 1, k)[i] = stdin[i] /\ stdin[i] \in Line
                      /\ i \in 1..Len(stdin) /\ Waits(stdin[i])
  BY <1>3 DEF Waits
<1>6. /\ \A x : Waits(x)' <=> Waits(x) /\ ~Read(x)
      /\ \A x : Read(x) => Waits(x)
      /\ \A i, j \in 1..Len(stdin') : stdin'[i] = stdin'[j] => i = j
  <2>1. /\ Len(stdin') = Len(stdin) - k
        /\ \A i \in 1..Len(stdin') : stdin'[i] = stdin[i + k]
    BY <1>1, <1>3
  <2>2. /\ \A x : Waits(x)' <=> Waits(x) /\ \A i \in 1..k : stdin[i] # x
        /\ \A i, j \in 1..Len(stdin') : stdin'[i] = stdin'[j] => i = j
    BY <1>3, <2>1, LinesRead
  <2> QED BY <1>5, <2>2
<1>7. joined' = [n \in Notes |-> IF Read(n) THEN cli.run ELSE joined[n]]
  BY <1>1, <1>5
<1>8. /\ events \in Seq(Event) /\ Len(events) = k + 1
      /\ events[1].type = "back"
      /\ \A i \in 1..k : events[i + 1] = Echo(stdin[i])
  <2>1. [type |-> "back"] \in Event /\ \A i \in 1..k : Echo(SubSeq(stdin, 1, k)[i]) \in Event
    BY <1>5, EventTypes
  <2>2. [i \in 1..k |-> Echo(SubSeq(stdin, 1, k)[i])] \in Seq(Event)
    BY <2>1
  <2>3. /\ Len([i \in 1..k |-> Echo(SubSeq(stdin, 1, k)[i])]) = k
        /\ \A i \in 1..k : [j \in 1..k |-> Echo(SubSeq(stdin, 1, k)[j])][i] = Echo(stdin[i])
    BY <1>5
  <2> QED BY <2>1, <2>2, <2>3
<1> HIDE DEF events
<1>9. /\ \A m \in 1..Len(events) : events[m].type \in {"back", "echo"}
      /\ \A m \in 1..Len(events) : \A x : EchoOf(events[m], x) => Read(x)
      /\ \A x : Read(x) => \E m \in 1..Len(events) : EchoOf(events[m], x)
  <2>1. \A m \in 1..Len(events) : m = 1 \/ (m - 1 \in 1..k /\ (m - 1) + 1 = m)
    BY <1>8
  <2>2. \A i \in 1..k : Echo(stdin[i]).type = "echo" /\ Echo(stdin[i]).line = stdin[i]
    BY DEF Echo
  <2>3. \A m \in 1..Len(events) : m = 1 \/ \E i \in 1..k : events[m] = Echo(stdin[i])
    BY <1>8, <2>1
  <2>4. \A i \in 1..k : i + 1 \in 1..Len(events)
    BY <1>8
  <2>5. \A i \in 1..k : events[i + 1].type = "echo" /\ events[i + 1].line = stdin[i]
    BY <1>8, <2>2
  <2>6. \A m \in 1..Len(events) : events[m].type \in {"back", "echo"}
    BY <1>8, <2>2, <2>3
  <2>7. \A m \in 1..Len(events) : \A x : EchoOf(events[m], x) => Read(x)
    <3>1. SUFFICES ASSUME NEW m \in 1..Len(events), NEW x, EchoOf(events[m], x) PROVE Read(x)
      OBVIOUS
    <3>2. PICK i \in 1..k : events[m] = Echo(stdin[i])
      BY <1>8, <2>3, <3>1 DEF EchoOf
    <3>3. stdin[i] = x
      BY <2>2, <3>1, <3>2 DEF EchoOf
    <3> QED BY <3>3
  <2>8. \A x : Read(x) => \E m \in 1..Len(events) : EchoOf(events[m], x)
    BY <2>4, <2>5 DEF EchoOf
  <2> QED BY <2>6, <2>7, <2>8
<1>10. /\ \A i \in Out : i \in Out' /\ stdout'[i] = stdout[i] /\ \A j \in 1..(i - 1) : j \in Out
       /\ \A i \in Out' \ Out : \E m \in 1..Len(events) : stdout'[i] = events[m]
       /\ \A m \in 1..Len(events) : \E i \in Out' \ Out : stdout'[i] = events[m]
  <2>1. /\ Out \subseteq Out' /\ \A i \in Out : stdout'[i] = stdout[i]
        /\ \A m \in 1..Len(events) :
              Len(stdout) + m \in Out' /\ stdout'[Len(stdout) + m] = events[m]
        /\ \A i \in Out' : i \in Out \/ \E m \in 1..Len(events) : i = Len(stdout) + m
    BY <1>2, <1>3, <1>8, Grows
  <2>2. Len(stdout) \in Nat /\ \A m \in 1..Len(events) : Len(stdout) + m \notin Out
    BY <1>3, <1>8 DEF WorkerTypeOK, Out
  <2>3. \A i \in Out : \A j \in 1..(i - 1) : j \in Out
    BY <2>2 DEF Out
  <2> QED BY <2>1, <2>2, <2>3
<1>11. /\ \A i \in Out : EndedBefore(i)' <=> EndedBefore(i)
       /\ Finished => Finished'
       /\ \A i \in Out' \ Out : EndedBefore(i)' <=> Finished
  <2>1. \A m \in 1..Len(events) : events[m].type # "result"
    BY <1>9
  <2> QED BY <1>2, <1>3, <1>8, <2>1, GrowsEnded
<1> HIDE DEF Read
<1>12. \A i \in Out' \ Out :
          /\ stdout'[i].type \in {"back", "echo"}
          /\ \A x : EchoOf(stdout'[i], x) => Read(x)
  BY <1>9, <1>10
<1>13. \A n \in Notes : /\ Read(n) => joined[n] = Nothing /\ joined'[n] = cli.run
                        /\ Read(n) => told[n] # "none" /\ n # cli.run
                        /\ ~Read(n) => joined'[n] = joined[n]
  BY <1>3, <1>4, <1>6, <1>7 DEF Lines
<1>14. Lines'
  <2>1. cli'.run # Nothing => ~Waits(cli.run)'
    BY <1>3, <1>4, <1>6 DEF Lines
  <2>2. \A n \in Notes : Waits(n)' \/ cli.run = n => joined'[n] = Nothing /\ told[n] # "none"
    BY <1>3, <1>6, <1>13 DEF Lines
  <2>3. \A n \in Notes : told[n] = "none" => into[n] = Nothing /\ joined'[n] = Nothing
    BY <1>3, <1>13 DEF Lines
  <2>4. \A t \in Turns : Waits(t)' \/ cli.run = t => outcome[t] \notin {"none", "ok"}
    BY <1>3, <1>6 DEF Lines
  <2>5. \A n \in Notes, t \in Turns : into[n] = t \/ joined'[n] = t => outcome[t] # "none"
    BY <1>3, <1>13 DEF Lines, Began
  <2> QED BY <1>2, <1>3, <1>4, <1>6, <2>1, <2>2, <2>3, <2>4, <2>5 DEF Lines, Began
<1>15. Results'
  <2>1. \A x : Past(x) => Past(x)'
    BY <1>2, <1>4, <1>6 DEF Past, Began
  <2>2. \A i \in Out' : stdout'[i].type = "result" => i \in Out
    BY <1>12
  <2>3. \A i \in Out' : \A x : stdout'[i].type = "result" /\ stdout'[i].line # Nothing =>
          (x = stdout'[i].line => Past(x)') /\ Proper(stdout'[i])
    BY <1>3, <1>10, <2>1, <2>2 DEF Results
  <2>4. \A i \in Out' : OwnTurn(stdout'[i]) =>
          /\ ~stdout'[i].worked /\ stdout'[i].says # "error"
          /\ \A j \in 1..(i - 1) : stdout'[j].type = "changed"
          /\ pending # Nothing => ~pending.echoed
    BY <1>3, <1>10, <2>2 DEF Results, OwnTurn
  <2> QED BY <1>2, <1>4, <2>3, <2>4 DEF Results
<1>16. Between'
  <2>1. deadReason \/ pending # Nothing
    BY <1>4 DEF WorkerInv, Between
  <2> QED BY <1>2, <2>1 DEF Between
<1>17. ASSUME pending # Nothing PROVE InTurn'
  <2> USE <1>17
  <2>1. /\ Ours /\ Unread /\ Compacting /\ Answers /\ After /\ Joins /\ Callers
        /\ pending.turn \in Turns /\ pending.turn # Nothing /\ pending.turn \notin Notes
        /\ pending.injected \subseteq Notes /\ pending.joined \subseteq Notes
    BY <1>3, PendingFields DEF InTurn
  <2>2. /\ pending.wrote /\ ~Waits(pending.turn)
        /\ cli.run = pending.turn <=> ~Finished
        /\ cli.run # pending.turn =>
              cli.run \in pending.injected /\ joined[cli.run] # pending.turn
    BY <1>2, <1>4, Running
  <2>3. \A n \in Notes : joined[n] = pending.turn => ~Read(n)
    BY <1>13, <2>1
  <2>4. Ours'
    BY <1>2, <1>4, <1>6, <2>1 DEF Ours
  <2>5. Unread'
    BY <1>2, <1>6, <2>2 DEF Unread
  <2>6. Compacting'
    <3>1. \A i \in Out' : stdout'[i].type = "tool" => i \in Out
      BY <1>12
    <3> QED BY <1>2, <1>10, <2>1, <3>1 DEF Compacting
  <2>7. Answers'
    <3>1. \A i \in Out' : stdout'[i].type = "result" => i \in Out
      BY <1>12
    <3>2. \A i \in Out' : stdout'[i].type = "result" /\ stdout'[i].line # Nothing =>
            stdout'[i].line = pending.turn \/ EndedBefore(i)'
      BY <1>10, <1>11, <2>1, <3>1 DEF Answers
    <3> QED BY <1>2, <1>4, <1>11, <2>2, <3>2 DEF Answers
  <2>8. After'
    <3>1. ASSUME NEW n \in pending.injected, joined[n] # pending.turn, cli.run # pending.turn
          PROVE  joined'[n] # pending.turn
      BY <1>13, <2>1, <3>1
    <3>2. ASSUME NEW i \in Out', EndedBefore(i)'
          PROVE  stdout'[i].type = "changed" \/ \E n \in pending.injected : joined'[n] # pending.turn
      <4>1. Finished
        BY <1>10, <1>11, <3>2 DEF EndedBefore, Finished
      <4>2. cli.run \in pending.injected /\ joined[cli.run] # pending.turn /\ cli.run # pending.turn
        BY <2>2, <4>1
      <4> QED BY <3>1, <4>2
    <3> QED BY <1>2, <3>2 DEF After
  <2>9. Joins'
    <3>1. ASSUME NEW n \in Notes, joined'[n] = pending.turn
          PROVE  /\ n \in pending.injected
                 /\ n \in pending.joined \/ \E i \in Out' : EchoOf(stdout'[i], n) /\ ~EndedBefore(i)'
      <4>1. CASE Read(n)
        <5>1. cli.run = pending.turn /\ ~Finished
          BY <1>13, <2>2, <3>1, <4>1
        <5>2. n \in pending.injected
          BY <1>6, <2>1, <4>1, LineKinds DEF Ours
        <5>3. PICK i \in Out' \ Out : EchoOf(stdout'[i], n)
          BY <1>9, <1>10, <4>1
        <5> QED BY <1>11, <5>1, <5>2, <5>3
      <4>2. CASE ~Read(n)
        BY <1>10, <1>11, <1>13, <2>1, <3>1, <4>2 DEF Joins
      <4> QED BY <4>1, <4>2
    <3>2. \A n \in pending.joined : joined'[n] = pending.turn
      BY <1>13, <2>1, <2>3 DEF Joins
    <3>3. ASSUME NEW i \in Out', NEW n \in Notes, EchoOf(stdout'[i], n), ~EndedBefore(i)'
          PROVE  joined'[n] = pending.turn
      <4>1. CASE i \in Out
        <5>1. joined[n] = pending.turn
          BY <1>10, <1>11, <2>1, <3>3, <4>1 DEF Joins
        <5> QED BY <1>13, <2>3, <5>1
      <4>2. CASE i \notin Out
        <5>1. Read(n) /\ ~Finished
          BY <1>11, <1>12, <3>3, <4>2
        <5> QED BY <1>13, <2>2, <5>1
      <4> QED BY <4>1, <4>2
    <3> QED BY <1>2, <3>1, <3>2, <3>3 DEF Joins
  <2>10. Callers'
    BY <1>2, <2>1 DEF Callers
  <2> QED BY <2>4, <2>5, <2>6, <2>7, <2>8, <2>9, <2>10 DEF InTurn
<1>18. InTurn'
  BY <1>2, <1>17 DEF InTurn
<1>19. OwnResult'
  BY <1>2, <1>3 DEF OwnResult
<1>20. SeenIsAnswered'
  <2>1. \A n \in Notes : Read(n) =>
           n \notin seen /\ ~(joined'[n] \in Turns /\ outcome[joined'[n]] = "ok")
    BY <1>3, <1>13, LineKinds DEF SeenIsAnswered, Lines
  <2> QED BY <1>2, <1>3, <1>13, <2>1 DEF SeenIsAnswered
<1>21. ToldTheTruth'
  <2>1. ASSUME NEW n \in Notes, told[n] = "yes" PROVE into[n] # Nothing /\ joined'[n] = into[n]
    BY <1>3, <1>13, <2>1 DEF ToldTheTruth
  <2>2. ASSUME NEW n \in Notes, told[n] = "no", into[n] # Nothing, outcome[into[n]] = "ok"
        PROVE  joined'[n] # into[n]
    <3>1. into[n] \in Turns
      BY <1>3, <2>2 DEF WorkerTypeOK
    <3> QED BY <1>3, <1>13, <2>2, <3>1 DEF ToldTheTruth, Lines
  <2> QED BY <1>2, <2>1, <2>2 DEF ToldTheTruth
<1> QED BY <1>14, <1>15, <1>16, <1>18, <1>19, <1>20, <1>21 DEF AllKept

LEMMA KeptByExits ==
    ASSUME WorkerInv, CliExits
    PROVE  AllKept
<1>1. /\ UNCHANGED <<deadReason, pending, eof, stdout, cli, outcome, told, seen, took, into, joined>>
      /\ proc' = "gone" /\ stdin' = <<>>
  BY DEF CliExits, answer
<1>2. /\ \A x : ~Waits(x)'
      /\ \A x : Past(x) => Past(x)'
      /\ Out' = Out /\ \A i \in Out : EndedBefore(i)' <=> EndedBefore(i)
  BY <1>1 DEF Waits, Past, Began, Out, EndedBefore, Ended
<1>3. WorkerTypeOK /\ Lines /\ Results /\ Between /\ InTurn
  BY DEF WorkerInv
<1>4. Lines'
  BY <1>1, <1>2, <1>3 DEF Lines, Began
<1>5. Results'
  <2>1. \A i \in Out : \A x : stdout[i].type = "result" /\ stdout[i].line # Nothing =>
          (x = stdout[i].line => Past(x)') /\ Proper(stdout[i])
    BY <1>2, <1>3 DEF Results
  <2> QED BY <1>1, <1>2, <1>3, <2>1 DEF Results
<1>6. Between'
  BY <1>1, <1>2, <1>3 DEF Between, Calm, OwnTurn
<1>7. ASSUME pending # Nothing PROVE InTurn'
  <2>1. Ours /\ Unread /\ Compacting /\ Answers /\ After /\ Joins /\ Callers
    BY <1>3, <1>7 DEF InTurn
  <2>2. (Ours /\ Unread /\ Compacting)'
    BY <1>1, <1>2, <2>1 DEF Ours, Unread, Compacting, Calm, OwnTurn
  <2>3. Answers'
    BY <1>1, <1>2, <2>1 DEF Answers, Runs
  <2>4. (After /\ Joins /\ Callers)'
    BY <1>1, <1>2, <2>1 DEF After, Joins, Callers
  <2> QED BY <2>2, <2>3, <2>4 DEF InTurn
<1> QED BY <1>1, <1>4, <1>5, <1>6, <1>7, PropertiesKept DEF AllKept, InTurn


-----------------------------------------------------------------------------
(* The daemon's calls and timers *)

LEMMA KeptByRefusal ==
    ASSUME WorkerInv, NEW t \in Turns, ~Began(t), TurnRefused(t)
    PROVE  AllKept
<1>1. /\ UNCHANGED <<deadReason, pending, eof, proc, stdin, stdout, cli, told, seen, took, into, joined>>
      /\ outcome' = [outcome EXCEPT ![t] = "failed"] /\ outcome[t] = "none"
  BY DEF TurnRefused, pipes, Began
<1>2. /\ WorkerTypeOK /\ Lines /\ Results /\ Between /\ InTurn
      /\ OwnResult /\ SeenIsAnswered /\ ToldTheTruth
  BY DEF WorkerInv
<1>3. \A s \in Turns : /\ outcome'[s] = IF s = t THEN "failed" ELSE outcome[s]
                       /\ Began(s) => Began(s)'
                       /\ outcome'[s] = "ok" <=> outcome[s] = "ok"
  BY <1>1, <1>2 DEF WorkerTypeOK, Began
<1>4. /\ \A x : Waits(x)' <=> Waits(x)
      /\ \A x : Past(x) => Past(x)'
      /\ Out' = Out /\ \A i \in Out : EndedBefore(i)' <=> EndedBefore(i)
  BY <1>1, <1>3 DEF Waits, Past, Out, EndedBefore, Ended
<1>5. \A n \in Notes : into[n] # t /\ joined[n] # t
  BY <1>1, <1>2 DEF Lines, Began
<1>6. Lines'
  <2>1. pending # Nothing => outcome'[pending.turn] = "waiting"
    BY <1>1, <1>2, <1>3, PendingFields DEF Lines
  <2>2. \A s \in Turns : Waits(s) \/ cli.run = s => outcome'[s] \notin {"none", "ok"}
    BY <1>2, <1>3 DEF Lines
  <2>3. \A n \in Notes, s \in Turns : into[n] = s \/ joined[n] = s => Began(s)'
    BY <1>2, <1>3 DEF Lines
  <2> QED BY <1>1, <1>2, <1>4, <2>1, <2>2, <2>3 DEF Lines
<1>7. Results'
  <2>1. \A i \in Out : \A x : stdout[i].type = "result" /\ stdout[i].line # Nothing =>
          (x = stdout[i].line => Past(x)') /\ Proper(stdout[i])
    BY <1>2, <1>4 DEF Results
  <2> QED BY <1>1, <1>2, <1>4, <2>1 DEF Results
<1>8. Between' /\ InTurn'
  <2>1. Between'
    BY <1>1, <1>2, <1>4 DEF Between, Calm, OwnTurn
  <2>2. (Ours /\ Unread /\ Compacting)' <=> Ours /\ Unread /\ Compacting
    BY <1>1, <1>4 DEF Ours, Unread, Compacting, Calm, OwnTurn
  <2>3. (Answers /\ After)' <=> Answers /\ After
    BY <1>1 DEF Answers, After, Waits, Runs, Finished, Ended, EndedBefore, Out
  <2>4. (Joins /\ Callers)' <=> Joins /\ Callers
    BY <1>1 DEF Joins, Callers, EndedBefore, Ended, Out
  <2> QED BY <1>1, <1>2, <2>1, <2>2, <2>3, <2>4 DEF InTurn
<1>9. OwnResult' /\ SeenIsAnswered' /\ ToldTheTruth'
  <2>1. OwnResult'
    BY <1>1, <1>2, <1>3 DEF OwnResult
  <2>2. SeenIsAnswered'
    BY <1>1, <1>2, <1>3 DEF SeenIsAnswered
  <2>3. \A n \in Notes : into[n] # Nothing => into[n] \in Turns
    BY <1>2 DEF WorkerTypeOK
  <2>4. ToldTheTruth'
    BY <1>1, <1>2, <1>3, <2>3 DEF ToldTheTruth
  <2> QED BY <2>1, <2>2, <2>4
<1> QED BY <1>6, <1>7, <1>8, <1>9 DEF AllKept

LEMMA KeptByStart ==
    ASSUME WorkerInv, NEW t \in Turns, ~Began(t), TurnStarts(t)
    PROVE  AllKept
<1>1. /\ UNCHANGED <<deadReason, eof, proc, stdout, cli, told, seen, took, into, joined>>
      /\ ~deadReason /\ pending = Nothing
      /\ outcome' = [outcome EXCEPT ![t] = "waiting"] /\ outcome[t] = "none"
      /\ pending' = [turn |-> t, wrote |-> proc # "gone" /\ ~eof, echoed |-> FALSE,
                     tools |-> FALSE, injected |-> {}, joined |-> {}, waiters |-> {}]
      /\ stdin' = IF proc = "gone" \/ eof THEN stdin ELSE Append(stdin, t)
  BY DEF TurnStarts, Write, Began
<1>2. /\ WorkerTypeOK /\ Lines /\ Results /\ Between
      /\ OwnResult /\ SeenIsAnswered /\ ToldTheTruth
  BY DEF WorkerInv
<1>3. stdin = <<>> /\ cli.run = Nothing /\ ~cli.tool /\ \A i \in Out : Calm(stdout[i])
  BY <1>1, <1>2 DEF Between, Lines
<1>4. /\ pending'.turn = t /\ (pending'.wrote <=> proc # "gone" /\ ~eof)
      /\ ~pending'.echoed /\ ~pending'.tools
      /\ pending'.injected = {} /\ pending'.joined = {} /\ pending'.waiters = {}
      /\ pending' # Nothing
  <2>1. pending' \in Pending
    BY <1>1 DEF Pending
  <2> QED BY <1>1, <2>1, PendingAssumption
<1>5. stdin' = IF pending'.wrote THEN <<t>> ELSE <<>>
  BY <1>1, <1>3, <1>4
<1>6. /\ \A x : Waits(x)' <=> pending'.wrote /\ x = t
      /\ \A i, j \in 1..Len(stdin') : stdin'[i] = stdin'[j] => i = j
  BY <1>5 DEF Waits
<1>7. \A s \in Turns : /\ outcome'[s] = IF s = t THEN "waiting" ELSE outcome[s]
                       /\ Began(s) => Began(s)'
                       /\ outcome'[s] = "ok" <=> outcome[s] = "ok"
  BY <1>1, <1>2 DEF WorkerTypeOK, Began
<1>8. \A n \in Notes : into[n] # t /\ joined[n] # t
  BY <1>1, <1>2 DEF Lines, Began
<1>9. \A i \in Out : /\ stdout[i].type \in {"changed", "result"}
                     /\ stdout[i].type = "result" => stdout[i].line = Nothing
  BY <1>3 DEF Calm, OwnTurn
<1>10. Lines'
  <2>1. \A n \in Notes : ~Waits(n)' /\ cli.run # n
    BY <1>3, <1>6, LineKinds
  <2>2. \A s \in Turns : Waits(s)' \/ cli.run = s => outcome'[s] \notin {"none", "ok"}
    BY <1>2, <1>6, <1>7 DEF Lines
  <2>3. \A n \in Notes, s \in Turns : into[n] = s \/ joined[n] = s => Began(s)'
    BY <1>2, <1>7 DEF Lines
  <2>4. outcome'[pending'.turn] = "waiting"
    BY <1>4, <1>7
  <2> QED BY <1>1, <1>2, <1>3, <1>6, <2>1, <2>2, <2>3, <2>4 DEF Lines
<1>11. Results'
  BY <1>1, <1>2, <1>4, <1>9 DEF Results, OwnTurn, Out
<1>12. Between'
  BY <1>4 DEF Between
<1>13. (Ours /\ Unread /\ Compacting)'
  BY <1>1, <1>3, <1>4, <1>5, <1>6, <1>9 DEF Ours, Unread, Compacting, Calm, OwnTurn, Out
<1>14. (Answers /\ After)'
  <2>1. \A i \in Out : ~EndedBefore(i)'
    <3>1. Len(stdout) \in Nat
      BY <1>2 DEF WorkerTypeOK
    <3>2. \A i \in Out : \A j \in 1..(i - 1) : j \in Out
      BY <3>1 DEF Out
    <3> QED BY <1>1, <1>4, <1>9, <3>2, LineKinds DEF EndedBefore, Ended, ResultOf
  <2> QED BY <1>1, <1>4, <1>6, <1>9, <2>1 DEF Answers, After, Out
<1>15. (Joins /\ Callers)'
  BY <1>1, <1>4, <1>8, <1>9 DEF Joins, Callers, EchoOf, Out
<1>16. OwnResult' /\ SeenIsAnswered' /\ ToldTheTruth'
  <2>1. OwnResult'
    BY <1>1, <1>2, <1>7 DEF OwnResult
  <2>2. SeenIsAnswered'
    BY <1>1, <1>2, <1>7 DEF SeenIsAnswered
  <2>3. \A n \in Notes : into[n] # Nothing => into[n] \in Turns
    BY <1>2 DEF WorkerTypeOK
  <2>4. ToldTheTruth'
    BY <1>1, <1>2, <1>7, <2>3 DEF ToldTheTruth
  <2> QED BY <2>1, <2>2, <2>4
<1> QED BY <1>10, <1>11, <1>12, <1>13, <1>14, <1>15, <1>16 DEF AllKept, InTurn


LEMMA KeptByInject ==
    ASSUME WorkerInv, NEW n \in Notes, Inject(n)
    PROVE  AllKept
<1>1. /\ UNCHANGED <<deadReason, eof, proc, stdout, cli, outcome, seen, took, joined>>
      /\ told[n] = "none"
  BY DEF Inject
<1>2. /\ WorkerTypeOK /\ Lines /\ Results /\ Between /\ InTurn
      /\ OwnResult /\ SeenIsAnswered /\ ToldTheTruth
  BY DEF WorkerInv
<1>3. /\ ~Waits(n) /\ cli.run # n /\ joined[n] = Nothing /\ into[n] = Nothing
      /\ n \in Line /\ n \notin Turns /\ n # Nothing
  BY <1>1, <1>2, LineKinds DEF Lines
<1>4. Out' = Out /\ \A x : Began(x)' <=> Began(x)
  BY <1>1 DEF Out, Began
<1>5. OwnResult' /\ SeenIsAnswered'
  BY <1>1, <1>2 DEF OwnResult, SeenIsAnswered
<1>6. ASSUME told' = [told EXCEPT ![n] = "no"], UNCHANGED <<pending, stdin, into>>
      PROVE  AllKept
  <2>1. \A m \in Notes : told'[m] = IF m = n THEN "no" ELSE told[m]
    BY <1>2, <1>6 DEF WorkerTypeOK
  <2>2. /\ \A x : Waits(x)' <=> Waits(x)
        /\ \A x : Past(x) => Past(x)'
        /\ \A i \in Out : EndedBefore(i)' <=> EndedBefore(i)
    BY <1>1, <1>6, <2>1 DEF Waits, Past, EndedBefore, Ended, Began
  <2>3. Lines'
    BY <1>1, <1>2, <1>4, <1>6, <2>1, <2>2 DEF Lines
  <2>4. Results'
    <3>1. \A i \in Out : \A x : stdout[i].type = "result" /\ stdout[i].line # Nothing =>
            (x = stdout[i].line => Past(x)') /\ Proper(stdout[i])
      BY <1>2, <2>2 DEF Results
    <3> QED BY <1>1, <1>2, <1>4, <1>6, <3>1 DEF Results
  <2>5. Between'
    BY <1>1, <1>2, <1>4, <1>6 DEF Between, Calm, OwnTurn
  <2>6. InTurn'
    <3>1. (Ours /\ Unread /\ Compacting)' <=> Ours /\ Unread /\ Compacting
      BY <1>1, <1>4, <1>6, <2>2 DEF Ours, Unread, Compacting, Calm, OwnTurn
    <3>2. (Answers /\ After)' <=> Answers /\ After
      BY <1>1, <1>4, <1>6 DEF Answers, After, Waits, Runs, Finished, Ended, EndedBefore
    <3>3. Joins' <=> Joins
      BY <1>1, <1>4, <1>6, <2>2 DEF Joins
    <3>4. Callers => Callers'
      BY <1>1, <1>6, <2>1 DEF Callers
    <3> QED BY <1>2, <1>6, <3>1, <3>2, <3>3, <3>4 DEF InTurn
  <2>7. ToldTheTruth'
    BY <1>1, <1>2, <1>3, <1>6, <2>1 DEF ToldTheTruth
  <2> QED BY <1>5, <2>3, <2>4, <2>5, <2>6, <2>7 DEF AllKept
<1>7. ASSUME pending # Nothing, pending.tools, Write(n),
             told' = [told EXCEPT ![n] = "waiting"], into' = [into EXCEPT ![n] = pending.turn],
             pending' = [pending EXCEPT !.injected = @ \cup {n}, !.waiters = @ \cup {n}]
      PROVE  AllKept
  <2> DEFINE t == pending.turn
  <2>1. /\ Ours /\ Unread /\ Compacting /\ Answers /\ After /\ Joins /\ Callers
        /\ t \in Turns /\ t # n /\ pending.injected \subseteq Notes
    BY <1>2, <1>3, <1>7, PendingFields DEF InTurn
  <2>2. /\ pending' # Nothing /\ pending'.turn = t /\ pending'.wrote = pending.wrote
        /\ pending'.echoed = pending.echoed /\ pending'.joined = pending.joined
        /\ pending'.injected = pending.injected \cup {n}
        /\ pending'.waiters = pending.waiters \cup {n}
    <3>1. pending' \in Pending
      BY <1>2, <1>7, PendingFields DEF Pending
    <3> QED BY <1>2, <1>7, <3>1, PendingFields, PendingAssumption DEF Pending
  <2>3. \A m \in Notes : /\ told'[m] = IF m = n THEN "waiting" ELSE told[m]
                         /\ into'[m] = IF m = n THEN t ELSE into[m]
    BY <1>2, <1>7 DEF WorkerTypeOK
  <2>4. pending.wrote /\ ~Waits(t) /\ t \notin Compacts
    BY <1>7, <2>1 DEF Unread, Compacting
  <2>5. /\ \A x : Waits(x) => Waits(x)'
        /\ \A x : Waits(x)' => Waits(x) \/ x = n
        /\ \A i, j \in 1..Len(stdin') : stdin'[i] = stdin'[j] => i = j
    <3>1. stdin \in Seq(Line) /\ Len(stdin) \in Nat
      BY <1>2 DEF WorkerTypeOK
    <3>2. CASE stdin' = stdin
      BY <1>2, <3>2 DEF Waits, Lines
    <3>3. CASE stdin' = Append(stdin, n)
      <4>1. /\ Len(stdin') = Len(stdin) + 1 /\ stdin'[Len(stdin) + 1] = n
            /\ \A i \in 1..Len(stdin) : i \in 1..Len(stdin') /\ stdin'[i] = stdin[i]
            /\ \A i \in 1..Len(stdin') : i \in 1..Len(stdin) \/ i = Len(stdin) + 1
        BY <1>3, <3>1, <3>3
      <4>2. \A i \in 1..Len(stdin) : stdin[i] # n
        BY <1>3 DEF Waits
      <4> QED BY <1>2, <4>1, <4>2 DEF Waits, Lines
    <3> QED BY <1>7, <3>2, <3>3 DEF Write
  <2>6. \A x : Past(x) => Past(x)'
    BY <1>1, <1>4, <2>3, <2>5 DEF Past
  <2>7. \A i \in Out : EndedBefore(i)' <=> EndedBefore(i)
    BY <1>1, <2>2 DEF EndedBefore, Ended
  <2> HIDE DEF t
  <2>8. Lines'
    <3>1. cli.run # Nothing => ~Waits(cli.run)'
      BY <1>1, <1>2, <1>3, <2>5 DEF Lines
    <3>2. \A m \in Notes : Waits(m)' \/ cli.run = m => joined[m] = Nothing /\ told'[m] # "none"
      BY <1>2, <1>3, <2>3, <2>5 DEF Lines
    <3>3. \A m \in Notes : told'[m] = "none" => into'[m] = Nothing /\ joined[m] = Nothing
      BY <1>2, <2>3 DEF Lines
    <3>4. \A s \in Turns : Waits(s)' \/ cli.run = s => outcome[s] \notin {"none", "ok"}
      BY <1>2, <1>3, <2>5 DEF Lines
    <3>5. outcome[t] = "waiting"
      BY <1>2, <1>7 DEF Lines, t
    <3>6. \A m \in Notes, s \in Turns : into'[m] = s \/ joined[m] = s => Began(s)
      BY <1>2, <2>3, <3>5 DEF Lines, Began
    <3> QED BY <1>1, <1>2, <1>4, <2>2, <2>5, <3>1, <3>2, <3>3, <3>4, <3>5, <3>6 DEF Lines
  <2>9. Results'
    <3>1. \A i \in Out : \A x : stdout[i].type = "result" /\ stdout[i].line # Nothing =>
            (x = stdout[i].line => Past(x)') /\ Proper(stdout[i])
      BY <1>2, <2>6 DEF Results
    <3> QED BY <1>1, <1>2, <1>4, <1>7, <2>2, <3>1 DEF Results
  <2>10. Between'
    BY <2>2 DEF Between
  <2>11. (Ours /\ Unread /\ Compacting)'
    <3>1. Ours'
      BY <1>1, <2>1, <2>2, <2>5 DEF Ours, t
    <3>2. Unread'
      BY <2>1, <2>2, <2>4, <2>5 DEF Unread, t
    <3>3. Compacting'
      BY <2>2, <2>4 DEF Compacting, t
    <3> QED BY <3>1, <3>2, <3>3
  <2>12. (Answers /\ After)'
    <3>1. Finished => Finished'
      BY <1>1, <1>4, <2>2 DEF Finished, Ended, t
    <3>2. Answers'
      BY <1>1, <1>4, <2>1, <2>2, <2>4, <2>7, <3>1 DEF Answers, Runs, t
    <3>3. After'
      BY <1>1, <1>4, <2>1, <2>2, <2>7 DEF After, t
    <3> QED BY <3>2, <3>3
  <2>13. Joins'
    BY <1>1, <1>4, <2>1, <2>2, <2>7 DEF Joins, t
  <2>14. Callers'
    <3>1. n \notin pending.joined
      BY <1>3, <2>1, LineKinds DEF Joins, t
    <3> QED BY <2>1, <2>2, <2>3, <3>1 DEF Callers, t
  <2>15. ToldTheTruth'
    BY <1>1, <1>2, <2>3 DEF ToldTheTruth
  <2> QED BY <1>5, <2>8, <2>9, <2>10, <2>11, <2>12, <2>13, <2>14, <2>15 DEF AllKept, InTurn
<1> QED BY <1>6, <1>7 DEF Inject


\* The results stay those of lines that were read, when output is handled.
LEMMA ResultsKept ==
    ASSUME WorkerInv, UNCHANGED <<stdin, cli>>,
           stdout' = stdout \/ (stdout # <<>> /\ stdout' = Tail(stdout)),
           \A t \in Turns : Began(t) => Began(t)',
           \A n \in Notes : told[n] # "none" => told'[n] # "none",
           \/ pending' = Nothing
           \/ stdout # <<>> /\ stdout' = Tail(stdout) /\ Head(stdout).type # "changed"
    PROVE  Results'
<1>1. WorkerTypeOK /\ Results
  BY DEF WorkerInv
<1>2. \A x : Past(x) => Past(x)'
  BY DEF Past, Waits
<1>3. CASE stdout' = stdout /\ pending' = Nothing
  <2>1. Out' = Out
    BY <1>3 DEF Out
  <2>2. \A i \in Out : \A x : stdout[i].type = "result" /\ stdout[i].line # Nothing =>
          (x = stdout[i].line => Past(x)') /\ Proper(stdout[i])
    BY <1>1, <1>2 DEF Results
  <2> QED BY <1>1, <1>3, <2>1, <2>2 DEF Results
<1>4. CASE stdout # <<>> /\ stdout' = Tail(stdout)
  <2>1. /\ 1 \in Out /\ Head(stdout) = stdout[1]
        /\ \A i \in Out' : i + 1 \in Out /\ stdout'[i] = stdout[i + 1]
    BY <1>1, <1>4, Shifts
  <2>2. \A i \in Out' : 1 \in 1..((i + 1) - 1) /\ \A j \in 1..(i - 1) :
           j + 1 \in 1..((i + 1) - 1) /\ j \in Out'
    <3>1. stdout' \in Seq(Event)
      BY <1>1, <1>4, Shifts
    <3>2. Len(stdout') \in Nat
      BY <3>1
    <3> QED BY <3>2 DEF Out
  <2>3. \A i \in Out' : \A x : stdout'[i].type = "result" /\ stdout'[i].line # Nothing =>
          (x = stdout'[i].line => Past(x)') /\ Proper(stdout'[i])
    BY <1>1, <1>2, <2>1 DEF Results
  <2>4. \A i \in Out' : OwnTurn(stdout'[i]) =>
          /\ ~stdout'[i].worked /\ stdout'[i].says # "error"
          /\ \A j \in 1..(i - 1) : stdout'[j].type = "changed"
    <3>1. SUFFICES ASSUME NEW i \in Out', OwnTurn(stdout[i + 1])
          PROVE  /\ ~stdout[i + 1].worked /\ stdout[i + 1].says # "error"
                 /\ \A j \in 1..(i - 1) : stdout'[j].type = "changed"
      BY <2>1
    <3>2. /\ ~stdout[i + 1].worked /\ stdout[i + 1].says # "error"
          /\ \A j \in 1..((i + 1) - 1) : stdout[j].type = "changed"
      BY <1>1, <2>1, <3>1 DEF Results
    <3> QED BY <2>1, <2>2, <3>2
  <2>5. stdout[1].type # "changed" => ~cli.fresh /\ \A i \in Out' : ~OwnTurn(stdout'[i])
    <3>1. stdout[1].type # "changed" => ~cli.fresh
      BY <1>1, <2>1 DEF Results
    <3>2. ASSUME NEW i \in Out', OwnTurn(stdout[i + 1]) PROVE stdout[1].type = "changed"
      BY <1>1, <2>1, <2>2, <3>2 DEF Results
    <3> QED BY <2>1, <3>1, <3>2
  <2>6. \A i \in Out' : OwnTurn(stdout'[i]) => (pending' # Nothing => ~pending'.echoed)
    BY <2>1, <2>5
  <2>7. cli.fresh => /\ cli.run = Nothing /\ \A i \in Out' : stdout'[i].type = "changed"
                     /\ pending' # Nothing => ~pending'.echoed
    BY <1>1, <2>1, <2>5 DEF Results
  <2> QED BY <2>3, <2>4, <2>6, <2>7 DEF Results
<1> QED BY <1>3, <1>4

\* A turn that is settled otherwise than well, if there is one, leaves
\* everything else in order.
LEMMA KeptByEnd ==
    ASSUME WorkerInv, UNCHANGED <<stdin, cli, seen, took, into, joined>>,
           stdout' = stdout \/ (stdout # <<>> /\ stdout' = Tail(stdout)),
           pending' = Nothing, outcome' = Settled("failed"), told' \in {told, SettleJoinWaiters}
    PROVE  Lines' /\ Results' /\ InTurn' /\ OwnResult' /\ SeenIsAnswered' /\ ToldTheTruth'
<1>1. /\ WorkerTypeOK /\ Lines /\ Results /\ InTurn
      /\ OwnResult /\ SeenIsAnswered /\ ToldTheTruth
  BY DEF WorkerInv
<1>2. pending # Nothing => /\ pending.turn \in Turns /\ outcome[pending.turn] = "waiting"
                           /\ pending.waiters \subseteq pending.injected /\ Callers
  BY <1>1, PendingFields DEF InTurn, Callers, Lines
<1>3. \A t \in Turns : /\ outcome'[t] = "none" <=> outcome[t] = "none"
                       /\ outcome'[t] = "ok" <=> outcome[t] = "ok"
                       /\ Began(t)' <=> Began(t)
                       /\ pending # Nothing /\ t = pending.turn => outcome'[t] = "failed"
  BY <1>2 DEF Settled, Began
<1>4. \A n \in Notes : /\ told'[n] = "none" <=> told[n] = "none"
                       /\ told'[n] = "yes" => told[n] = "yes"
                       /\ told'[n] = "no" => told[n] = "no" \/
                            (pending # Nothing /\ into[n] = pending.turn)
  <2>1. CASE told' = told
    BY <2>1
  <2>2. CASE told' = SettleJoinWaiters
    <3>1. \A n \in Notes : told'[n] = IF pending # Nothing /\ n \in pending.waiters
                                      THEN "no" ELSE told[n]
      BY <2>2 DEF SettleJoinWaiters
    <3>2. \A n \in Notes : pending # Nothing /\ n \in pending.waiters =>
             told[n] \in {"waiting", "yes"} /\ into[n] = pending.turn
      BY <1>2 DEF Callers
    <3> QED BY <3>1, <3>2
  <2> QED BY <2>1, <2>2
<1>5. \A x : Waits(x)' <=> Waits(x)
  BY DEF Waits
<1>6. Lines'
  BY <1>1, <1>3, <1>4, <1>5 DEF Lines
<1>7. Results'
  BY <1>3, <1>4, ResultsKept
<1>8. InTurn'
  BY DEF InTurn
<1>9. OwnResult'
  BY <1>1, <1>3 DEF OwnResult
<1>10. SeenIsAnswered'
  BY <1>1, <1>3 DEF SeenIsAnswered
<1>11. ToldTheTruth'
  <2>1. \A n \in Notes : into[n] # Nothing => into[n] \in Turns
    BY <1>1 DEF WorkerTypeOK
  <2> QED BY <1>1, <1>3, <1>4, <2>1 DEF ToldTheTruth
<1> QED BY <1>6, <1>7, <1>8, <1>9, <1>10, <1>11

\* The timers, the abort, the exit and the failed write end the turn.
LEMMA KeptByTimers ==
    ASSUME WorkerInv, WriteFails \/ IdleTimeout \/ Abort \/ ExitSeen
    PROVE  AllKept
<1>1. /\ UNCHANGED <<stdin, stdout, cli, seen, took, into, joined>>
      /\ pending' = Nothing /\ outcome' = Settled("failed") /\ told' \in {told, SettleJoinWaiters}
  BY DEF WriteFails, IdleTimeout, Abort, ExitSeen, Die, pipes
<1>2. Lines' /\ Results' /\ InTurn' /\ OwnResult' /\ SeenIsAnswered' /\ ToldTheTruth'
  BY <1>1, KeptByEnd
<1>3. CASE WriteFails
  <2>1. Unread /\ pending # Nothing /\ ~pending.wrote
    BY <1>3 DEF WriteFails, WorkerInv, InTurn
  <2>2. stdin = <<>> /\ cli.run = Nothing /\ \A i \in Out : Calm(stdout[i])
    BY <2>1 DEF Unread
  <2>3. Out' = Out
    BY <1>1 DEF Out
  <2>4. Between'
    BY <1>1, <2>2, <2>3 DEF Between, Calm, OwnTurn
  <2> QED BY <1>2, <2>4 DEF AllKept
<1>4. CASE IdleTimeout \/ Abort \/ ExitSeen
  <2>1. deadReason' = TRUE
    BY <1>4 DEF IdleTimeout, Abort, ExitSeen, Die
  <2> QED BY <1>2, <2>1 DEF AllKept, Between
<1> QED BY <1>3, <1>4

\* Shutting down, and doing nothing, touch none of it.
LEMMA KeptByShutdown ==
    ASSUME WorkerInv, Shutdown \/ ShutdownTerm \/ UNCHANGED workerVars
    PROVE  AllKept
<1>1. /\ UNCHANGED <<deadReason, pending, stdin, stdout, cli, outcome, told, seen, took, into, joined>>
      /\ Runs' <=> Runs
  BY DEF Shutdown, ShutdownTerm, workerVars, pipes, answer, Runs
<1>2. /\ Out' = Out /\ (\A x : Waits(x)' <=> Waits(x)) /\ (\A x : Past(x)' <=> Past(x))
      /\ (\A t \in Turns : Began(t)' <=> Began(t))
      /\ \A i \in Out : EndedBefore(i)' <=> EndedBefore(i)
      /\ Finished' <=> Finished
  BY <1>1 DEF Out, Waits, Past, Began, EndedBefore, Finished, Ended
<1>3. /\ WorkerTypeOK /\ Lines /\ Results /\ Between /\ InTurn
  BY DEF WorkerInv
<1>4. Lines'
  BY <1>1, <1>2, <1>3 DEF Lines
<1>5. Results'
  <2>1. \A i \in Out : \A x : stdout[i].type = "result" /\ stdout[i].line # Nothing =>
          (x = stdout[i].line => Past(x)') /\ Proper(stdout[i])
    BY <1>2, <1>3 DEF Results
  <2> QED BY <1>1, <1>2, <1>3, <2>1 DEF Results
<1>6. Between'
  BY <1>1, <1>2, <1>3 DEF Between, Calm, OwnTurn
<1>7. InTurn'
  <2>1. (Ours /\ Unread /\ Compacting)' <=> Ours /\ Unread /\ Compacting
    BY <1>1, <1>2 DEF Ours, Unread, Compacting, Calm, OwnTurn
  <2>2. (Answers /\ After)' <=> Answers /\ After
    BY <1>1, <1>2 DEF Answers, After
  <2>3. (Joins /\ Callers)' <=> Joins /\ Callers
    BY <1>1, <1>2 DEF Joins, Callers
  <2> QED BY <1>1, <1>3, <2>1, <2>2, <2>3 DEF InTurn
<1> QED BY <1>1, <1>4, <1>5, <1>6, <1>7, PropertiesKept DEF AllKept


-----------------------------------------------------------------------------
(* The output, handled *)

\* The output that follows its head.
LEMMA Handled ==
    ASSUME WorkerInv, stdout # <<>>, stdout' = Tail(stdout), UNCHANGED <<stdin, cli, proc>>
    PROVE  /\ 1 \in Out /\ stdout[1] \in Event /\ Head(stdout) = stdout[1]
           /\ \A i \in Out' : i + 1 \in Out /\ stdout'[i] = stdout[i + 1]
           /\ \A i \in Out : i = 1 \/ \E j \in Out' : i = j + 1
           /\ (\A x : Waits(x)' <=> Waits(x)) /\ (Runs' <=> Runs)
           /\ pending # Nothing /\ pending' # Nothing /\ pending'.turn = pending.turn =>
                 /\ \A i \in Out' : EndedBefore(i)' => EndedBefore(i + 1)
                 /\ \A i \in Out' : EndedBefore(i + 1) => EndedBefore(i)' \/ Ended(1)
                 /\ Finished => Finished' \/ Ended(1)
           /\ pending # Nothing => ~EndedBefore(1)
<1>1. WorkerTypeOK
  BY DEF WorkerInv
<1>2. /\ 1 \in Out /\ Head(stdout) = stdout[1] /\ Head(stdout) \in Event
      /\ \A i \in Out' : i + 1 \in Out /\ stdout'[i] = stdout[i + 1]
      /\ \A i \in Out : i = 1 \/ \E j \in Out' : i = j + 1
  BY <1>1, Shifts
<1>3. (\A x : Waits(x)' <=> Waits(x)) /\ (Runs' <=> Runs)
  BY DEF Waits, Runs
<1>4. pending # Nothing /\ pending' # Nothing /\ pending'.turn = pending.turn =>
         /\ \A i \in Out' : EndedBefore(i)' => EndedBefore(i + 1)
         /\ \A i \in Out' : EndedBefore(i + 1) => EndedBefore(i)' \/ Ended(1)
         /\ Finished => Finished' \/ Ended(1)
  BY <1>1, ShiftsEnded
<1>5. ~EndedBefore(1)
  BY DEF EndedBefore
<1> QED BY <1>2, <1>3, <1>4, <1>5

LEMMA KeptByIgnore ==
    ASSUME WorkerInv, HandleEvent, Ignore(Head(stdout))
    PROVE  AllKept
<1>1. /\ UNCHANGED <<stdin, cli, into, joined, deadReason, pending, proc, outcome, told, seen, took>>
      /\ stdout # <<>> /\ stdout' = Tail(stdout) /\ pending = Nothing
  BY DEF HandleEvent, Ignore, answer
<1>2. WorkerTypeOK /\ Between
  BY DEF WorkerInv
<1>3. outcome' = Settled("failed")
  BY <1>1, <1>2 DEF Settled, WorkerTypeOK
<1>4. Lines' /\ Results' /\ InTurn' /\ OwnResult' /\ SeenIsAnswered' /\ ToldTheTruth'
  BY <1>1, <1>3, KeptByEnd
<1>5. Between'
  <2>1. \A i \in Out' : i + 1 \in Out /\ stdout'[i] = stdout[i + 1]
    BY <1>1, Handled
  <2> QED BY <1>1, <1>2, <2>1 DEF Between, Calm, OwnTurn
<1> QED BY <1>4, <1>5 DEF AllKept

LEMMA KeptByChanged ==
    ASSUME WorkerInv, HandleEvent, Changed(Head(stdout))
    PROVE  AllKept
<1>1. /\ UNCHANGED <<stdin, cli, into, joined, seen, took>>
      /\ stdout # <<>> /\ stdout' = Tail(stdout) /\ pending' = Nothing /\ deadReason' = TRUE
      /\ outcome' = Settled("failed") /\ told' = SettleJoinWaiters
  BY DEF HandleEvent, Changed, Die
<1>2. Lines' /\ Results' /\ InTurn' /\ OwnResult' /\ SeenIsAnswered' /\ ToldTheTruth'
  BY <1>1, KeptByEnd
<1> QED BY <1>1, <1>2 DEF AllKept, Between

LEMMA KeptByEcho ==
    ASSUME WorkerInv, HandleEvent, TakeEcho(Head(stdout))
    PROVE  AllKept
<1> DEFINE x == stdout[1].line
           t == pending.turn
<1>1. /\ UNCHANGED <<stdin, cli, into, joined, deadReason, proc, outcome, seen, took>>
      /\ stdout # <<>> /\ stdout' = Tail(stdout) /\ pending # Nothing
  BY DEF HandleEvent, TakeEcho, Mine
<1>2. /\ 1 \in Out /\ stdout[1] \in Event /\ Head(stdout) = stdout[1]
      /\ \A i \in Out' : i + 1 \in Out /\ stdout'[i] = stdout[i + 1]
      /\ \A i \in Out : i = 1 \/ \E j \in Out' : i = j + 1
      /\ (\A y : Waits(y)' <=> Waits(y)) /\ (Runs' <=> Runs)
      /\ ~EndedBefore(1)
  BY <1>1, Handled
<1>3. /\ stdout[1].type = "echo" /\ EchoOf(stdout[1], x) /\ ~Calm(stdout[1]) /\ ~Ended(1)
      /\ told' = [n \in Notes |-> IF n = x /\ n \in pending.waiters THEN "yes" ELSE told[n]]
      /\ pending' = [pending EXCEPT
                        !.echoed = @ \/ x = pending.turn,
                        !.joined = @ \cup (IF x \in pending.injected THEN {x} ELSE {}),
                        !.waiters = @ \ {x}]
  BY <1>2 DEF TakeEcho, EchoOf, Calm, OwnTurn, Ended, ResultOf
<1>4. /\ WorkerTypeOK /\ Lines /\ Results /\ OwnResult /\ SeenIsAnswered /\ ToldTheTruth
      /\ Ours /\ Unread /\ Compacting /\ Answers /\ After /\ Joins /\ Callers
  BY <1>1 DEF WorkerInv, InTurn
<1>5. /\ pending' # Nothing /\ pending'.turn = t /\ pending'.wrote = pending.wrote
      /\ pending'.tools = pending.tools /\ pending'.injected = pending.injected
      /\ pending'.joined = pending.joined \cup (IF x \in pending.injected THEN {x} ELSE {})
      /\ pending'.waiters = pending.waiters \ {x}
      /\ pending.injected \subseteq Notes
  <2>1. pending' \in Pending
    BY <1>1, <1>3, <1>4, PendingFields DEF Pending
  <2> QED BY <1>1, <1>3, <1>4, <2>1, PendingFields, PendingAssumption DEF Pending
<1>6. /\ \A i \in Out' : EndedBefore(i)' <=> EndedBefore(i + 1)
      /\ Finished => Finished'
  BY <1>1, <1>3, <1>5, Handled
<1>7. x \in pending.injected => x \in Notes /\ joined[x] = t /\ into[x] = t /\ told[x] # "none"
  BY <1>2, <1>3, <1>4, <1>5 DEF Joins, Callers
<1>8. \A n \in Notes : /\ told'[n] = told[n] \/ (told'[n] = "yes" /\ n = x /\ n \in pending.waiters)
                       /\ told'[n] = "none" <=> told[n] = "none"
  BY <1>3, <1>4, <1>7 DEF Callers
<1> HIDE DEF x
<1>9. Lines'
  BY <1>1, <1>2, <1>4, <1>5, <1>8 DEF Lines, Began, t
<1>10. Results'
  <2>1. \A s \in Turns : Began(s) => Began(s)'
    BY <1>1 DEF Began
  <2> QED BY <1>1, <1>2, <1>3, <1>8, <2>1, ResultsKept
<1>11. Between'
  BY <1>5 DEF Between
<1>12. (Ours /\ Unread /\ Compacting)'
  <2>1. Ours'
    BY <1>1, <1>2, <1>4, <1>5 DEF Ours
  <2>2. Unread'
    BY <1>2, <1>3, <1>4, <1>5 DEF Unread
  <2>3. Compacting'
    BY <1>2, <1>4, <1>5 DEF Compacting
  <2> QED BY <2>1, <2>2, <2>3
<1>13. Answers'
  <2>1. \A i \in Out' : stdout'[i].type = "result" /\ stdout'[i].line # Nothing =>
          stdout'[i].line = t \/ EndedBefore(i)'
    BY <1>2, <1>4, <1>6 DEF Answers
  <2> QED BY <1>1, <1>2, <1>4, <1>5, <1>6, <2>1 DEF Answers
<1>14. After'
  BY <1>1, <1>2, <1>4, <1>5, <1>6 DEF After
<1>15. Joins'
  <2>1. ASSUME NEW n \in Notes, joined[n] = t
        PROVE  /\ n \in pending.injected
               /\ n \in pending'.joined \/ \E i \in Out' : EchoOf(stdout'[i], n) /\ ~EndedBefore(i)'
    <3>1. n \in pending.injected
      BY <1>4, <2>1 DEF Joins
    <3>2. CASE n \in pending.joined
      BY <1>5, <3>1, <3>2
    <3>3. ASSUME NEW i \in Out, EchoOf(stdout[i], n), ~EndedBefore(i)
          PROVE  n \in pending'.joined \/ \E j \in Out' : EchoOf(stdout'[j], n) /\ ~EndedBefore(j)'
      <4>1. CASE i = 1
        BY <1>5, <3>1, <3>3, <4>1 DEF EchoOf, x
      <4>2. ASSUME NEW j \in Out', i = j + 1 PROVE EchoOf(stdout'[j], n) /\ ~EndedBefore(j)'
        BY <1>2, <1>6, <3>3, <4>2
      <4> QED BY <1>2, <4>1, <4>2
    <3> QED BY <1>4, <2>1, <3>1, <3>2, <3>3 DEF Joins
  <2>2. \A n \in pending'.joined : joined[n] = t
    BY <1>4, <1>5, <1>7 DEF Joins
  <2>3. \A i \in Out', n \in Notes : EchoOf(stdout'[i], n) /\ ~EndedBefore(i)' => joined[n] = t
    BY <1>2, <1>4, <1>6 DEF Joins
  <2> QED BY <1>1, <1>5, <2>1, <2>2, <2>3 DEF Joins
<1>16. Callers'
  BY <1>1, <1>4, <1>5, <1>8 DEF Callers
<1>17. OwnResult' /\ SeenIsAnswered'
  BY <1>1, <1>4 DEF OwnResult, SeenIsAnswered
<1>18. ToldTheTruth'
  <2>1. \A n \in Notes : n = x /\ n \in pending.waiters => into[n] # Nothing /\ joined[n] = into[n]
    BY <1>1, <1>4, <1>7, PendingFields DEF Callers
  <2> QED BY <1>1, <1>4, <1>8, <2>1 DEF ToldTheTruth
<1> QED BY <1>9, <1>10, <1>11, <1>12, <1>13, <1>14, <1>15, <1>16, <1>17, <1>18 DEF AllKept, InTurn


LEMMA KeptByTakeTool ==
    ASSUME WorkerInv, HandleEvent, TakeTool(Head(stdout))
    PROVE  AllKept
<1> DEFINE t == pending.turn
<1>1. /\ UNCHANGED <<stdin, cli, into, joined, deadReason, proc, outcome, told, seen, took>>
      /\ stdout # <<>> /\ stdout' = Tail(stdout) /\ pending # Nothing
  BY DEF HandleEvent, TakeTool, Mine, answer
<1>2. /\ 1 \in Out /\ stdout[1] \in Event /\ Head(stdout) = stdout[1]
      /\ \A i \in Out' : i + 1 \in Out /\ stdout'[i] = stdout[i + 1]
      /\ \A i \in Out : i = 1 \/ \E j \in Out' : i = j + 1
      /\ (\A y : Waits(y)' <=> Waits(y)) /\ (Runs' <=> Runs)
      /\ ~EndedBefore(1)
  BY <1>1, Handled
<1>3. /\ stdout[1].type \in {"tool", "back"} /\ ~Calm(stdout[1]) /\ ~Ended(1)
      /\ \A n : ~EchoOf(stdout[1], n)
      /\ pending' = [pending EXCEPT !.tools = (stdout[1].type = "tool")]
  BY <1>2 DEF TakeTool, EchoOf, Calm, OwnTurn, Ended, ResultOf
<1>4. /\ WorkerTypeOK /\ Lines /\ Results
      /\ Ours /\ Unread /\ Compacting /\ Answers /\ After /\ Joins /\ Callers
  BY <1>1 DEF WorkerInv, InTurn
<1>5. /\ pending' # Nothing /\ pending'.turn = t /\ pending'.wrote = pending.wrote
      /\ pending'.tools <=> stdout[1].type = "tool"
      /\ pending'.injected = pending.injected /\ pending'.joined = pending.joined
      /\ pending'.waiters = pending.waiters
  <2>1. pending' \in Pending
    BY <1>1, <1>3, <1>4, PendingFields DEF Pending
  <2> QED BY <1>1, <1>3, <1>4, <2>1, PendingFields, PendingAssumption DEF Pending
<1>6. /\ \A i \in Out' : EndedBefore(i)' <=> EndedBefore(i + 1)
      /\ Finished => Finished'
  BY <1>1, <1>3, <1>5, Handled
<1>7. Lines'
  BY <1>1, <1>2, <1>4, <1>5 DEF Lines, Began
<1>8. Results'
  <2>1. \A s \in Turns : Began(s) => Began(s)'
    BY <1>1 DEF Began
  <2> QED BY <1>1, <1>2, <1>3, <2>1, ResultsKept
<1>9. Between'
  BY <1>5 DEF Between
<1>10. (Ours /\ Unread /\ Compacting)'
  <2>1. Ours'
    BY <1>1, <1>2, <1>4, <1>5 DEF Ours
  <2>2. Unread'
    BY <1>2, <1>3, <1>4, <1>5 DEF Unread
  <2>3. Compacting'
    BY <1>2, <1>4, <1>5 DEF Compacting
  <2> QED BY <2>1, <2>2, <2>3
<1>11. Answers'
  <2>1. \A i \in Out' : stdout'[i].type = "result" /\ stdout'[i].line # Nothing =>
          stdout'[i].line = t \/ EndedBefore(i)'
    BY <1>2, <1>4, <1>6 DEF Answers
  <2> QED BY <1>1, <1>2, <1>4, <1>5, <1>6, <2>1 DEF Answers
<1>12. After'
  BY <1>1, <1>2, <1>4, <1>5, <1>6 DEF After
<1>13. Joins'
  <2>1. \A n : (\E i \in Out : EchoOf(stdout[i], n) /\ ~EndedBefore(i)) =>
               \E i \in Out' : EchoOf(stdout'[i], n) /\ ~EndedBefore(i)'
    BY <1>2, <1>3, <1>6
  <2>2. \A i \in Out', n \in Notes : EchoOf(stdout'[i], n) /\ ~EndedBefore(i)' => joined[n] = t
    BY <1>2, <1>4, <1>6 DEF Joins
  <2> QED BY <1>1, <1>4, <1>5, <2>1, <2>2 DEF Joins
<1>14. Callers'
  BY <1>1, <1>4, <1>5 DEF Callers
<1> QED BY <1>1, <1>7, <1>8, <1>9, <1>10, <1>11, <1>12, <1>13, <1>14, PropertiesKept DEF AllKept, InTurn

\* A result is the CLI's own or that of the turn in flight, which is past then.
LEMMA HeadResult ==
    ASSUME WorkerInv, pending # Nothing, stdout # <<>>, Head(stdout).type = "result"
    PROVE  \/ OwnTurn(Head(stdout)) /\ ~Ended(1)
              /\ ~Head(stdout).worked /\ Head(stdout).says # "error" /\ ~pending.echoed
           \/ /\ Ended(1) /\ Head(stdout).line = pending.turn /\ Proper(Head(stdout))
              /\ pending.wrote /\ ~Waits(pending.turn) /\ cli.run # pending.turn
              /\ \A i \in Out : i # 1 => EndedBefore(i)
<1>1. WorkerTypeOK /\ Results /\ Unread /\ Answers
  BY DEF WorkerInv, InTurn
<1>2. 1 \in Out /\ Head(stdout) = stdout[1] /\ Len(stdout) \in Nat
  <2>1. stdout \in Seq(Event) /\ Len(stdout) \in Nat /\ Len(stdout) > 0
    BY <1>1 DEF WorkerTypeOK
  <2> QED BY <2>1 DEF Out
<1>3. pending.turn # Nothing
  BY <1>1, PendingFields
<1>4. CASE stdout[1].line = Nothing
  BY <1>1, <1>2, <1>3, <1>4 DEF OwnTurn, Results, Ended, ResultOf
<1>5. CASE stdout[1].line # Nothing
  <2>1. ~EndedBefore(1)
    BY DEF EndedBefore
  <2>2. stdout[1].line = pending.turn
    BY <1>1, <1>2, <1>5, <2>1 DEF Answers
  <2>3. Ended(1)
    BY <1>2, <2>2 DEF Ended, ResultOf
  <2>4. Past(pending.turn) /\ Proper(stdout[1])
    BY <1>1, <1>2, <1>5, <2>2 DEF Results
  <2>5. ~Calm(stdout[1])
    BY <1>2, <1>5 DEF Calm, OwnTurn
  <2>6. pending.wrote
    BY <1>1, <1>2, <2>5 DEF Unread
  <2>7. \A i \in Out : i # 1 => 1 \in 1..(i - 1)
    BY <1>2 DEF Out
  <2>8. \A i \in Out : i # 1 => EndedBefore(i)
    BY <2>3, <2>7 DEF EndedBefore
  <2> QED BY <1>2, <2>2, <2>3, <2>4, <2>6, <2>8 DEF Past
<1> QED BY <1>4, <1>5

LEMMA KeptBySkip ==
    ASSUME WorkerInv, HandleEvent, SkipResult(Head(stdout))
    PROVE  AllKept
<1> DEFINE t == pending.turn
<1>1. /\ UNCHANGED <<stdin, cli, into, joined, deadReason, pending, proc, outcome, told, seen, took>>
      /\ stdout # <<>> /\ stdout' = Tail(stdout) /\ pending # Nothing
      /\ Head(stdout).type = "result" /\ ~Head(stdout).worked
  BY DEF HandleEvent, SkipResult, Mine, Unsolicited, answer
<1>2. /\ 1 \in Out /\ stdout[1] \in Event /\ Head(stdout) = stdout[1]
      /\ \A i \in Out' : i + 1 \in Out /\ stdout'[i] = stdout[i + 1]
      /\ \A i \in Out : i = 1 \/ \E j \in Out' : i = j + 1
      /\ (\A y : Waits(y)' <=> Waits(y)) /\ (Runs' <=> Runs)
      /\ \A i \in Out' : EndedBefore(i)' => EndedBefore(i + 1)
      /\ \A i \in Out' : EndedBefore(i + 1) => EndedBefore(i)' \/ Ended(1)
      /\ Finished => Finished' \/ Ended(1)
  BY <1>1, Handled
<1>3. /\ WorkerTypeOK /\ Lines /\ Results
      /\ Ours /\ Unread /\ Compacting /\ Answers /\ After /\ Joins /\ Callers
      /\ pending.joined \subseteq pending.injected
  BY <1>1, PendingFields DEF WorkerInv, InTurn
<1>4. Lines'
  BY <1>1, <1>2, <1>3 DEF Lines, Began
<1>5. Results'
  <2>1. \A s \in Turns : Began(s) => Began(s)'
    BY <1>1 DEF Began
  <2> QED BY <1>1, <2>1, ResultsKept
<1>6. Between'
  BY <1>1 DEF Between
<1>7. (Ours /\ Compacting /\ Callers)'
  BY <1>1, <1>2, <1>3 DEF Ours, Compacting, Callers
<1>8. (Unread /\ Answers /\ After /\ Joins)'
  <2>1. CASE OwnTurn(stdout[1]) /\ ~Ended(1)
    <3>1. Unread'
      BY <1>1, <1>2, <1>3 DEF Unread, Calm, OwnTurn
    <3>2. Answers'
      <4>1. \A i \in Out' : stdout'[i].type = "result" /\ stdout'[i].line # Nothing =>
              stdout'[i].line = t \/ EndedBefore(i)'
        BY <1>2, <1>3, <2>1 DEF Answers
      <4> QED BY <1>1, <1>2, <1>3, <2>1, <4>1 DEF Answers
    <3>3. After'
      BY <1>1, <1>2, <1>3 DEF After
    <3>4. Joins'
      <4>1. \A n : ~EchoOf(stdout[1], n)
        BY <1>1, <1>2 DEF EchoOf
      <4>2. \A n : (\E i \in Out : EchoOf(stdout[i], n) /\ ~EndedBefore(i)) =>
                   \E i \in Out' : EchoOf(stdout'[i], n) /\ ~EndedBefore(i)'
        BY <1>2, <4>1
      <4>3. \A i \in Out', n \in Notes : EchoOf(stdout'[i], n) /\ ~EndedBefore(i)' => joined[n] = t
        BY <1>2, <1>3, <2>1 DEF Joins
      <4> QED BY <1>1, <1>3, <4>2, <4>3 DEF Joins
    <3> QED BY <3>1, <3>2, <3>3, <3>4
  <2>2. ASSUME Ended(1), stdout[1].line = t, Proper(stdout[1]), pending.wrote, ~Waits(t),
               \A i \in Out : i # 1 => EndedBefore(i)
        PROVE  (Unread /\ Answers /\ After /\ Joins)'
    <3>1. t \in Compacts /\ pending.injected = {} /\ pending.joined = {}
      BY <1>1, <1>2, <1>3, <2>2 DEF Proper, Compacting
    <3>2. \A i \in Out' : stdout'[i].type = "changed"
      <4>1. SUFFICES ASSUME NEW i \in Out' PROVE stdout[i + 1].type = "changed"
        BY <1>2
      <4>2. i + 1 # 1
        BY <1>3, <4>1 DEF Out
      <4> QED BY <1>2, <1>3, <2>2, <3>1, <4>2 DEF After
    <3>3. Unread'
      BY <1>1, <1>2, <2>2 DEF Unread
    <3>4. Answers'
      BY <1>1, <3>1, <3>2 DEF Answers
    <3>5. After'
      BY <3>2 DEF After
    <3>6. Joins'
      BY <1>1, <1>3, <3>1, <3>2 DEF Joins, EchoOf
    <3> QED BY <3>3, <3>4, <3>5, <3>6
  <2> QED BY <1>1, <1>2, <2>1, <2>2, HeadResult
<1> QED BY <1>1, <1>4, <1>5, <1>6, <1>7, <1>8, PropertiesKept DEF AllKept, InTurn

LEMMA KeptByTakeResult ==
    ASSUME WorkerInv, HandleEvent, TakeResult(Head(stdout))
    PROVE  AllKept
<1> DEFINE e == Head(stdout)
           t == pending.turn
<1>1. /\ UNCHANGED <<stdin, cli, into, joined>>
      /\ stdout # <<>> /\ stdout' = Tail(stdout) /\ pending # Nothing /\ pending' = Nothing
      /\ e.type = "result" /\ ~Unsolicited(e) /\ told' = SettleJoinWaiters
      /\ outcome' = Settled(IF e.says = "reply" THEN "ok" ELSE "failed")
      /\ took' = [took EXCEPT ![t] = e]
      /\ seen' = IF e.says = "error" THEN seen ELSE seen \cup pending.joined
      /\ deadReason' = (deadReason \/ Missed)
  BY DEF HandleEvent, TakeResult, Mine
<1>2. /\ WorkerTypeOK /\ Lines /\ Results /\ OwnResult /\ SeenIsAnswered /\ ToldTheTruth
      /\ Ours /\ Compacting /\ After /\ Joins /\ Callers
      /\ t \in Turns /\ t # Nothing /\ t \notin Notes
      /\ pending.joined \subseteq pending.injected /\ pending.injected \subseteq Notes
  BY <1>1, PendingFields DEF WorkerInv, InTurn
<1>3. /\ e.line = t /\ Proper(e) /\ ~Waits(t) /\ cli.run # t
      /\ \A i \in Out : i # 1 => EndedBefore(i)
  BY <1>1, HeadResult DEF Unsolicited
<1>4. /\ 1 \in Out /\ Head(stdout) = stdout[1]
      /\ \A i \in Out' : i + 1 \in Out /\ stdout'[i] = stdout[i + 1]
  BY <1>1, <1>2, Shifts
<1>5. outcome[t] = "waiting"
  BY <1>1, <1>2 DEF Lines
<1>6. \A s \in Turns :
        outcome'[s] = IF s = t THEN IF e.says = "reply" THEN "ok" ELSE "failed" ELSE outcome[s]
  BY <1>1 DEF Settled
<1>7. \A n \in Notes : /\ told'[n] = IF n \in pending.waiters THEN "no" ELSE told[n]
                       /\ told'[n] = "none" <=> told[n] = "none"
                       /\ into[n] = t <=> n \in pending.injected
                       /\ n \in pending.injected => told[n] \in {"waiting", "yes"}
                       /\ n \in pending.waiters => n \in pending.injected /\ n \notin pending.joined
  BY <1>1, <1>2 DEF SettleJoinWaiters, Callers
<1>8. \A n \in Notes : joined[n] = t <=> n \in pending.joined
  <2>1. \A n : ~EchoOf(stdout[1], n)
    BY <1>1, <1>4 DEF EchoOf
  <2> QED BY <1>2, <1>3, <2>1 DEF Joins
<1>9. \A x : Waits(x)' <=> Waits(x)
  BY <1>1 DEF Waits
<1> HIDE DEF e, t
<1>10. Lines'
  <2>1. \A s \in Turns : Waits(s) \/ cli.run = s => outcome'[s] \notin {"none", "ok"}
    BY <1>2, <1>3, <1>6 DEF Lines
  <2>2. \A n \in Notes, s \in Turns : into[n] = s \/ joined[n] = s => outcome'[s] # "none"
    BY <1>2, <1>6 DEF Lines, Began
  <2> QED BY <1>1, <1>2, <1>7, <1>9, <2>1, <2>2 DEF Lines, Began
<1>11. Results'
  <2>1. \A s \in Turns : Began(s) => Began(s)'
    BY <1>6 DEF Began
  <2> QED BY <1>1, <1>7, <2>1, ResultsKept
<1>12. ASSUME ~deadReason' PROVE stdin' = <<>> /\ cli'.run = Nothing /\ \A i \in Out' : Calm(stdout'[i])
  <2>1. \A n \in pending.injected : joined[n] = t /\ n \in Line
    BY <1>1, <1>2, <1>8, <1>12, LineKinds DEF Missed
  <2>2. \A n \in pending.injected : ~Waits(n) /\ cli.run # n
    BY <1>2, <2>1, LineKinds DEF Lines
  <2>3. \A l \in Line : ~Waits(l)
    BY <1>2, <1>3, <2>2 DEF Ours, t
  <2>4. stdin = <<>>
    <3>1. stdin \in Seq(Line) /\ Len(stdin) \in Nat
      BY <1>2 DEF WorkerTypeOK
    <3>2. stdin # <<>> => 1 \in 1..Len(stdin) /\ stdin[1] \in Line
      BY <3>1
    <3> QED BY <2>3, <3>2 DEF Waits
  <2>5. cli.run = Nothing
    BY <1>2, <1>3, <2>2 DEF Ours, t
  <2>6. ASSUME NEW i \in Out' PROVE stdout'[i].type = "changed"
    <3>1. i + 1 # 1
      BY <1>2, <2>6 DEF Out
    <3>2. EndedBefore(i + 1) /\ stdout'[i] = stdout[i + 1] /\ i + 1 \in Out
      BY <1>3, <1>4, <3>1
    <3> QED BY <1>2, <2>1, <3>2 DEF After, t
  <2> QED BY <1>1, <2>4, <2>5, <2>6 DEF Calm
<1>13. Between'
  BY <1>12 DEF Between, Calm, OwnTurn
<1>14. InTurn'
  BY <1>1 DEF InTurn
<1>15. OwnResult'
  <2>1. \A s \in Turns : took'[s] = IF s = t THEN e ELSE took[s]
    BY <1>1, <1>2 DEF WorkerTypeOK, t
  <2> QED BY <1>2, <1>3, <1>6, <2>1 DEF OwnResult
<1>16. SeenIsAnswered'
  <2>1. e.says = "refused" => pending.joined = {}
    BY <1>2, <1>3 DEF Proper, Compacting, t
  <2>2. e.says \in {"reply", "refused", "error"}
    <3>1. Head(stdout) \in Event
      BY <1>1, <1>2, Shifts
    <3> QED BY <1>1, <3>1 DEF Event, e
  <2>3. \A n \in Notes : n \in seen' <=> n \in seen \/ (e.says = "reply" /\ n \in pending.joined)
    BY <1>1, <2>1, <2>2 DEF e
  <2>4. \A n \in Notes : joined[n] \in Turns /\ outcome'[joined[n]] = "ok" <=>
           (joined[n] \in Turns /\ outcome[joined[n]] = "ok") \/ (e.says = "reply" /\ joined[n] = t)
    BY <1>2, <1>5, <1>6
  <2> QED BY <1>1, <1>2, <1>8, <2>3, <2>4 DEF SeenIsAnswered
<1>17. ToldTheTruth'
  <2>1. ASSUME NEW n \in Notes, told'[n] = "yes" PROVE into[n] # Nothing /\ joined[n] = into[n]
    BY <1>2, <1>7, <2>1 DEF ToldTheTruth
  <2>2. ASSUME NEW n \in Notes, told'[n] = "no", into[n] # Nothing, outcome'[into[n]] = "ok"
        PROVE  joined[n] # into[n]
    <3>1. into[n] \in Turns
      BY <1>2, <2>2 DEF WorkerTypeOK
    <3>2. CASE into[n] = t
      BY <1>7, <1>8, <2>2, <3>2
    <3>3. CASE into[n] # t
      BY <1>2, <1>6, <1>7, <2>2, <3>1, <3>3 DEF ToldTheTruth
    <3> QED BY <3>2, <3>3
  <2> QED BY <1>1, <2>1, <2>2 DEF ToldTheTruth
<1> QED BY <1>10, <1>11, <1>13, <1>14, <1>15, <1>16, <1>17 DEF AllKept


-----------------------------------------------------------------------------
(* The invariant *)

LEMMA WorkerStart == WorkerInit => WorkerInv
<1> SUFFICES ASSUME WorkerInit PROVE WorkerInv
  OBVIOUS
<1>1. WorkerTypeOK
  BY InitTypes
<1>2. /\ deadReason = FALSE /\ pending = Nothing /\ stdin = <<>> /\ stdout = <<>>
      /\ outcome = [t \in Turns |-> "none"] /\ told = [n \in Notes |-> "none"] /\ seen = {}
      /\ into = [n \in Notes |-> Nothing] /\ joined = [n \in Notes |-> Nothing]
  BY DEF WorkerInit
<1>3. cli.run = Nothing /\ ~cli.tool
  <2>1. PICK resumed \in BOOLEAN : cli = [Resting EXCEPT !.fresh = resumed]
    BY DEF WorkerInit
  <2> QED BY <2>1 DEF Resting
<1>4. Out = {} /\ \A x : ~Waits(x)
  BY <1>2 DEF Out, Waits
<1>5. Lines
  BY <1>2, <1>3, <1>4, LineKinds DEF Lines
<1>6. Results
  BY <1>2, <1>3, <1>4 DEF Results
<1>7. Between /\ InTurn
  BY <1>2, <1>3, <1>4 DEF Between, InTurn
<1>8. OwnResult /\ SeenIsAnswered /\ ToldTheTruth
  BY <1>2, LineKinds DEF OwnResult, SeenIsAnswered, ToldTheTruth
<1> QED BY <1>1, <1>5, <1>6, <1>7, <1>8 DEF WorkerInv

LEMMA WorkerStep == WorkerInv /\ [WorkerNext]_workerVars => WorkerInv'
<1> SUFFICES ASSUME WorkerInv, [WorkerNext]_workerVars PROVE WorkerInv'
  OBVIOUS
<1>1. WorkerTypeOK'
  <2>1. WorkerTypeOK
    BY DEF WorkerInv
  <2>2. UNCHANGED workerVars => WorkerTypeOK'
    BY <2>1 DEF workerVars, WorkerTypeOK
  <2> QED BY <2>1, <2>2, CliTypes, CallTypes, EventStepTypes DEF WorkerNext
<1>2. AllKept
  <2>1. CASE Cli \/ CliChangesSession \/ CliExits
    BY <2>1, KeptByOwnTurn, KeptByReads, KeptByTool, KeptByToolBack, KeptByResult, KeptByChange,
       KeptByExits DEF Cli
  <2>2. ASSUME NEW t \in Turns, Turn(t) PROVE AllKept
    BY <2>2, KeptByRefusal, KeptByStart DEF Turn
  <2>3. ASSUME NEW n \in Notes, Inject(n) PROVE AllKept
    BY <2>3, KeptByInject
  <2>4. CASE HandleEvent
    <3>1. \/ Ignore(Head(stdout)) \/ Changed(Head(stdout)) \/ TakeEcho(Head(stdout))
          \/ TakeTool(Head(stdout)) \/ SkipResult(Head(stdout)) \/ TakeResult(Head(stdout))
      BY <2>4 DEF HandleEvent
    <3> QED BY <2>4, <3>1, KeptByIgnore, KeptByChanged, KeptByEcho, KeptByTakeTool, KeptBySkip,
               KeptByTakeResult
  <2>5. CASE WriteFails \/ IdleTimeout \/ Abort \/ ExitSeen
    BY <2>5, KeptByTimers
  <2>6. CASE Shutdown \/ ShutdownTerm \/ UNCHANGED workerVars
    BY <2>6, KeptByShutdown
  <2> QED BY <2>1, <2>2, <2>3, <2>4, <2>5, <2>6 DEF WorkerNext
<1> QED BY <1>1, <1>2 DEF AllKept, WorkerInv

LEMMA WorkerInvariant == WorkerSpec => []WorkerInv
  BY WorkerStart, WorkerStep, PTL DEF WorkerSpec

\* Every variable of a worker keeps its type.
THEOREM WorkerTyping == WorkerSpec => []WorkerTypeOK
<1>1. WorkerInv => WorkerTypeOK
  BY DEF WorkerInv
<1> QED BY <1>1, WorkerInvariant, PTL

\* A turn reported to have worked was ended by the CLI's own result for it:
\* never by a turn of the CLI's own, by the answer to a message that missed
\* the turn before, or by a refused compaction.
THEOREM TurnsEndByTheirResult == WorkerSpec => []OwnResult
<1>1. WorkerInv => OwnResult
  BY DEF WorkerInv
<1> QED BY <1>1, WorkerInvariant, PTL

\* What is dropped as seen mid-turn is what joined a turn that ended well.
THEOREM SeenNotesAreAnswered == WorkerSpec => []SeenIsAnswered
<1>1. WorkerInv => SeenIsAnswered
  BY DEF WorkerInv
<1> QED BY <1>1, WorkerInvariant, PTL

\* inject's caller learns the truth about its message.
THEOREM CallersAreToldTheTruth == WorkerSpec => []ToldTheTruth
<1>1. WorkerInv => ToldTheTruth
  BY DEF WorkerInv
<1> QED BY <1>1, WorkerInvariant, PTL
-----------------------------------------------------------------------------
(* Who waits for what *)

\* A turn that was not answered is the one in flight, whose timer is armed; a
\* caller of inject waits for that turn too, unless its turn failed under the
\* caller's feet; and a dead worker was signalled.
WaitsInHand ==
    /\ \A t \in Turns : outcome[t] = "waiting" <=> (pending # Nothing /\ pending.turn = t)
    /\ \A n \in Notes : told[n] = "waiting" =>
           /\ into[n] \in Turns
           /\ \/ pending # Nothing /\ pending.turn = into[n] /\ n \in pending.waiters
              \/ outcome[into[n]] = "failed"
    /\ deadReason => proc # "up"

\* The end of a turn leaves nobody waiting for it, if it tells the callers, or
\* leaves those who wait for a note with a failed turn.
LEMMA EndKeepsWaits ==
    ASSUME WorkerTypeOK, WaitsInHand, pending' = Nothing, UNCHANGED into,
           NEW how \in {"ok", "failed"}, outcome' = Settled(how),
           told' = SettleJoinWaiters \/ (told' = told /\ how = "failed"),
           deadReason' => proc' # "up"
    PROVE  WaitsInHand'
<1>1. \A t \in Turns : outcome'[t] # "waiting"
  BY DEF Settled, WorkerTypeOK, WaitsInHand
<1>2. ASSUME NEW n \in Notes, told'[n] = "waiting"
      PROVE  into'[n] \in Turns /\ outcome'[into'[n]] = "failed"
  <2>1. told[n] = "waiting" /\ into[n] \in Turns
    BY <1>2 DEF SettleJoinWaiters, WaitsInHand
  <2>2. CASE outcome[into[n]] = "failed"
    <3>1. ~(pending # Nothing /\ pending.turn = into[n])
      BY <2>1, <2>2 DEF WaitsInHand
    <3> QED BY <2>1, <2>2, <3>1 DEF Settled
  <2>3. CASE pending # Nothing /\ pending.turn = into[n] /\ n \in pending.waiters
    <3>1. told' = told /\ how = "failed"
      BY <1>2, <2>3 DEF SettleJoinWaiters
    <3> QED BY <2>1, <2>3, <3>1 DEF Settled
  <2> QED BY <2>1, <2>2, <2>3 DEF WaitsInHand
<1> QED BY <1>1, <1>2 DEF WaitsInHand

\* The process moves on without them.
LEMMA ProcessKeepsWaits ==
    ASSUME WaitsInHand, UNCHANGED <<deadReason, pending, outcome, told, into>>,
           proc = "up" \/ proc' # "up"
    PROVE  WaitsInHand'
  BY DEF WaitsInHand

\* What the worker is asked.
LEMMA CallKeepsWaits ==
    ASSUME WorkerTypeOK, WaitsInHand,
           (\E t \in Turns : Turn(t)) \/ (\E n \in Notes : Inject(n))
    PROVE  WaitsInHand'
<1>1. ASSUME NEW t \in Turns, ~Began(t), TurnRefused(t) PROVE WaitsInHand'
  <2>1. /\ UNCHANGED <<deadReason, pending, proc, told, into>>
        /\ outcome' = [outcome EXCEPT ![t] = "failed"] /\ outcome[t] = "none"
    BY <1>1 DEF TurnRefused, Began
  <2> QED BY <2>1 DEF WorkerTypeOK, WaitsInHand
<1>2. ASSUME NEW t \in Turns, ~Began(t), TurnStarts(t) PROVE WaitsInHand'
  <2>1. /\ UNCHANGED <<deadReason, proc, told, into>> /\ pending = Nothing
        /\ outcome' = [outcome EXCEPT ![t] = "waiting"] /\ outcome[t] = "none"
        /\ pending' # Nothing /\ pending'.turn = t
    <3>1. pending' = [turn |-> t, wrote |-> proc # "gone" /\ ~eof, echoed |-> FALSE,
                      tools |-> FALSE, injected |-> {}, joined |-> {}, waiters |-> {}]
      BY <1>2 DEF TurnStarts
    <3>2. pending' \in Pending
      BY <3>1 DEF Pending
    <3>3. pending' # Nothing
      BY <3>2, PendingAssumption
    <3>4. pending'.turn = t
      BY <3>1
    <3>5. outcome[t] = "none"
      BY <1>2 DEF Began
    <3>6. /\ UNCHANGED <<deadReason, proc, told, into>> /\ pending = Nothing
          /\ outcome' = [outcome EXCEPT ![t] = "waiting"]
      BY <1>2 DEF TurnStarts
    <3> QED BY <3>3, <3>4, <3>5, <3>6
  <2> QED BY <2>1 DEF WorkerTypeOK, WaitsInHand
<1>3. ASSUME NEW n \in Notes, Inject(n) PROVE WaitsInHand'
  <2>0. told[n] = "none" /\ UNCHANGED <<deadReason, proc, outcome>>
    BY <1>3 DEF Inject
  <2>1. CASE told' = [told EXCEPT ![n] = "no"] /\ UNCHANGED <<pending, into>>
    BY <2>0, <2>1 DEF WorkerTypeOK, WaitsInHand
  <2>2. CASE /\ pending # Nothing /\ told' = [told EXCEPT ![n] = "waiting"]
             /\ pending' = [pending EXCEPT !.injected = @ \cup {n}, !.waiters = @ \cup {n}]
             /\ into' = [into EXCEPT ![n] = pending.turn]
    <3>1. /\ pending' # Nothing /\ pending'.turn = pending.turn /\ pending.turn \in Turns
          /\ pending'.waiters = pending.waiters \cup {n}
      <4>1. pending' \in Pending
        BY <2>2, PendingFields DEF Pending
      <4> QED BY <2>2, <4>1, PendingFields, PendingAssumption DEF Pending
    <3> QED BY <2>0, <2>2, <3>1 DEF WorkerTypeOK, WaitsInHand
  <2> QED BY <1>3, <2>1, <2>2 DEF Inject
<1> QED BY <1>1, <1>2, <1>3 DEF Turn

\* The output it handles.
LEMMA EventKeepsWaits ==
    ASSUME WorkerTypeOK, WaitsInHand, HandleEvent
    PROVE  WaitsInHand'
<1>1. UNCHANGED into
  BY DEF HandleEvent
<1>2. PICK e : \/ Ignore(e) \/ Changed(e) \/ TakeEcho(e)
               \/ TakeTool(e) \/ SkipResult(e) \/ TakeResult(e)
  BY DEF HandleEvent
<1>3. CASE Ignore(e) \/ SkipResult(e)
  BY <1>1, <1>3, ProcessKeepsWaits DEF Ignore, SkipResult, answer
<1>4. CASE Changed(e)
  <2>1. proc' # "up"
    BY <1>4 DEF Changed, Die, Signal, WaitsInHand
  <2> QED BY <1>1, <1>4, <2>1, EndKeepsWaits DEF Changed, Die
<1>5. CASE TakeEcho(e)
  <2>1. /\ UNCHANGED <<deadReason, proc, outcome>> /\ pending # Nothing
        /\ told' = [n \in Notes |-> IF n = e.line /\ n \in pending.waiters THEN "yes" ELSE told[n]]
    BY <1>5 DEF TakeEcho, Mine
  <2>2. pending' # Nothing /\ pending'.turn = pending.turn /\ pending'.waiters = pending.waiters \ {e.line}
    <3>1. pending' = [pending EXCEPT
                          !.echoed = @ \/ e.line = pending.turn,
                          !.joined = @ \cup (IF e.line \in pending.injected THEN {e.line} ELSE {}),
                          !.waiters = @ \ {e.line}]
      BY <1>5 DEF TakeEcho
    <3>2. pending' \in Pending
      BY <2>1, <3>1, PendingFields DEF Pending
    <3> QED BY <2>1, <3>1, <3>2, PendingFields, PendingAssumption DEF Pending
  <2> QED BY <1>1, <2>1, <2>2 DEF WaitsInHand
<1>6. CASE TakeTool(e)
  <2>1. UNCHANGED <<deadReason, proc, outcome, told>> /\ pending # Nothing
    BY <1>6 DEF TakeTool, Mine, answer
  <2>2. pending' # Nothing /\ pending'.turn = pending.turn /\ pending'.waiters = pending.waiters
    <3>1. pending' = [pending EXCEPT !.tools = (e.type = "tool")]
      BY <1>6 DEF TakeTool
    <3>2. pending' \in Pending
      BY <2>1, <3>1, PendingFields DEF Pending
    <3> QED BY <2>1, <3>1, <3>2, PendingFields, PendingAssumption DEF Pending
  <2> QED BY <1>1, <2>1, <2>2 DEF WaitsInHand
<1>7. CASE TakeResult(e)
  <2>1. deadReason' => proc' # "up"
    BY <1>7 DEF TakeResult, Signal, WaitsInHand
  <2>2. /\ pending' = Nothing /\ told' = SettleJoinWaiters
        /\ outcome' \in {Settled("ok"), Settled("failed")}
    BY <1>7 DEF TakeResult
  <2> QED BY <1>1, <2>1, <2>2, EndKeepsWaits
<1> QED BY <1>2, <1>3, <1>4, <1>5, <1>6, <1>7

LEMMA WaitsStep == WorkerTypeOK /\ WaitsInHand /\ [WorkerNext]_workerVars => WaitsInHand'
<1> SUFFICES ASSUME WorkerTypeOK, WaitsInHand, [WorkerNext]_workerVars PROVE WaitsInHand'
  OBVIOUS
<1>1. CASE Cli \/ CliChangesSession \/ CliExits
  <2>1. UNCHANGED <<deadReason, pending, outcome, told, into>> /\ (proc' = proc \/ proc' = "gone")
    BY <1>1 DEF Cli, CliOwnTurn, CliReads, CliTool, CliToolBack, CliResult, CliChangesSession,
                CliExits, answer
  <2> QED BY <2>1, ProcessKeepsWaits
<1>2. CASE (\E t \in Turns : Turn(t)) \/ (\E n \in Notes : Inject(n))
  BY <1>2, CallKeepsWaits
<1>3. CASE HandleEvent
  BY <1>3, EventKeepsWaits
<1>4. CASE WriteFails
  <2>1. deadReason' => proc' # "up"
    BY <1>4 DEF WriteFails, WaitsInHand
  <2> QED BY <1>4, <2>1, EndKeepsWaits DEF WriteFails
<1>5. CASE IdleTimeout
  BY <1>5, EndKeepsWaits DEF IdleTimeout, Signal
<1>6. CASE Abort \/ ExitSeen
  <2>1. Die /\ UNCHANGED into
    BY <1>6 DEF Abort, ExitSeen
  <2>2. proc' # "up"
    BY <2>1 DEF Die, Signal, WaitsInHand
  <2> QED BY <2>1, <2>2, EndKeepsWaits DEF Die
<1>7. CASE Shutdown \/ ShutdownTerm \/ UNCHANGED workerVars
  <2>1. /\ UNCHANGED <<deadReason, pending, outcome, told, into>>
        /\ proc' = proc \/ proc' = "termed"
    BY <1>7 DEF Shutdown, ShutdownTerm, workerVars, answer
  <2> QED BY <2>1, ProcessKeepsWaits
<1> QED BY <1>1, <1>2, <1>3, <1>4, <1>5, <1>6, <1>7 DEF WorkerNext

\* Nobody waits for a worker that has nothing to do with him: whoever calls
\* turn() and has no answer has the turn in flight, whoever calls inject waits
\* for that same turn, unless it failed by the idle timer or the write, which
\* tell no caller; and a worker given up for dead is not left running
\* unsignalled (turn, inject, settleJoinWaiters, die).
THEOREM WaitersHaveTheirTurn == WorkerSpec => []WaitsInHand
<1>1. WorkerInit => WaitsInHand
  BY DEF WorkerInit, WaitsInHand
<1>2. WorkerSpec => []WorkerTypeOK
  BY WorkerTyping
<1> QED BY <1>1, <1>2, WaitsStep, PTL DEF WorkerSpec
=============================================================================
