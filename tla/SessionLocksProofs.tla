------------------------- MODULE SessionLocksProofs -------------------------
(***************************************************************************)
(* Safety of SessionLocks for any set of keys, calls and any lease.        *)
(*                                                                         *)
(* LeaseExclusion is not inductive: it rests on the chain of promises      *)
(* being a total order per key whose tail is the entry of `tails`.  The    *)
(* order is stated with a rank: a function f on the calls that grows along *)
(* the chain, with no call ranked between a waiting call and its prev.     *)
(*                                                                         *)
(* The last part shows that the chain implements FifoLease: the line of    *)
(* SessionLocksQueue lists the chained calls of a key in the order of      *)
(* their promises, so the one that is granted is at its head.              *)
(* That call starts, leaves or has its timer armed (SomeoneMoves): what    *)
(* NoWedge rests on.                                                       *)
(***************************************************************************)
EXTENDS SessionLocksQueue, TLAPS

SameKey(c, d) == KeyOf[c] = KeyOf[d]

\* f ranks the chained calls of each key from the granted one to the tail.
Ranks(f) ==
    /\ \A c, d \in Calls : Chained(c) /\ Chained(d) /\ SameKey(c, d) /\ c # d => f[c] # f[d]
    /\ \A c \in Calls : Chained(c) =>
           /\ tails[KeyOf[c]] # None
           /\ f[c] <= f[tails[KeyOf[c]]]
    /\ \A c, d \in Calls : Chained(c) /\ Granted(c) /\ Chained(d) /\ SameKey(c, d)
           => f[c] <= f[d]
    /\ \A c \in Calls : Chained(c) /\ ~Granted(c) =>
           /\ Chained(prev[c])
           /\ SameKey(c, prev[c])
           /\ f[prev[c]] < f[c]
           /\ \A d \in Calls : Chained(d) /\ SameKey(c, d) /\ f[prev[c]] < f[d] => f[c] <= f[d]

ChainInv ==
    /\ \A k \in Keys : tails[k] # None => KeyOf[tails[k]] = k /\ Chained(tails[k])
    /\ \E f \in [Calls -> Nat] : Ranks(f)

HoldInv ==
    /\ RegistryTracksHold
    /\ \A c \in Calls : phase[c] \in {"held", "leaving"} => Granted(c)
    /\ \A c \in Calls : work[c] = "running" /\ ~timedOut[c] => phase[c] = "held"
    /\ \A c \in Calls : phase[c] \in {"idle", "queued"} => timer[c] = Off

IInv == TypeOK /\ ChainInv /\ HoldInv

-----------------------------------------------------------------------------

\* Every step of the lock keeps the types of its variables.
LEMMA TypeStep == TypeOK /\ [Next]_vars => TypeOK'
  <1> USE KeyOfAssumption, LeaseAssumption DEF TypeOK, Phases, Works, Off
  <1> SUFFICES ASSUME TypeOK, [Next]_vars
               PROVE  TypeOK'
    OBVIOUS
  <1>1. ASSUME NEW c \in Calls, WithLock(c) PROVE TypeOK'
    BY <1>1 DEF WithLock
  <1>2. ASSUME NEW c \in Calls, Start(c) PROVE TypeOK'
    BY <1>2 DEF Start
  <1>3. ASSUME NEW c \in Calls, Touch(c) PROVE TypeOK'
    BY <1>3 DEF Touch
  <1>4. ASSUME NEW c \in Calls, WorkSettles(c) PROVE TypeOK'
    BY <1>4 DEF WorkSettles
  <1>5. ASSUME NEW c \in Calls, Expire(c) PROVE TypeOK'
    BY <1>5 DEF Expire, ClearActive
  <1>6. ASSUME NEW c \in Calls, Leave(c) PROVE TypeOK'
    BY <1>6 DEF Leave, ClearActive
  <1>7. CASE Tick
    BY <1>7 DEF Tick
  <1>8. CASE UNCHANGED vars
    BY <1>8 DEF vars
  <1>9. QED
    BY <1>1, <1>2, <1>3, <1>4, <1>5, <1>6, <1>7, <1>8 DEF Next

\* Every variable keeps its type, for any number of sessions and calls.
THEOREM Typing == Spec => []TypeOK
  <1>1. Init => TypeOK
    BY KeyOfAssumption, LeaseAssumption
       DEF Init, TypeOK, Phases, Works, Off
  <1>2. QED
    BY <1>1, TypeStep, PTL DEF Spec

\* A step that leaves the chain alone keeps ChainInv.
LEMMA ChainStable ==
    ASSUME ChainInv, TypeOK,
           UNCHANGED <<tails, prev>>,
           \A c \in Calls : Chained(c) <=> Chained(c)',
           \A c \in Calls : phase[c] = "released" <=> phase'[c] = "released"
    PROVE  ChainInv'
  <1>1. \A c \in Calls : Granted(c) <=> Granted(c)'
    BY DEF Granted, TypeOK
  <1>2. PICK f \in [Calls -> Nat] : Ranks(f)
    BY DEF ChainInv
  <1>3. \A c \in Calls : prev[c] # None => prev[c] \in Calls
    BY DEF TypeOK
  <1>4. Ranks(f)'
    BY <1>2, <1>3 DEF Ranks, SameKey, Chained, Granted
  <1>5. (\A k \in Keys : tails[k] # None => KeyOf[tails[k]] = k /\ Chained(tails[k]))'
    BY DEF ChainInv, TypeOK, Chained
  <1>6. QED
    BY <1>4, <1>5 DEF ChainInv

\* Two granted calls in one chain are the same call.
LEMMA OneGranted ==
    ASSUME ChainInv,
           NEW c \in Calls, NEW d \in Calls, SameKey(c, d),
           Chained(c), Granted(c), Chained(d), Granted(d)
    PROVE  c = d
  <1>1. PICK f \in [Calls -> Nat] : Ranks(f)
    BY DEF ChainInv
  <1>2. f[c] <= f[d] /\ f[d] <= f[c]
    BY <1>1 DEF Ranks, SameKey
  <1>3. f[c] \in Nat /\ f[d] \in Nat
    OBVIOUS
  <1>4. f[c] = f[d]
    BY <1>2, <1>3
  <1>5. QED
    BY <1>1, <1>4 DEF Ranks

\* A new call joins behind the tail, with a rank above it.
LEMMA ChainJoin ==
    ASSUME ChainInv, TypeOK, NEW c \in Calls, WithLock(c)
    PROVE  ChainInv'
  <1> USE KeyOfAssumption, NoneAssumption DEF TypeOK, Chained, Granted, SameKey
  <1>1. PICK f \in [Calls -> Nat] : Ranks(f)
    BY DEF ChainInv
  <1>2. KeyOf[c] \in Keys /\ ~Chained(c)
    BY DEF WithLock
  <1>t. tails[KeyOf[c]] # None =>
          /\ tails[KeyOf[c]] \in Calls
          /\ KeyOf[tails[KeyOf[c]]] = KeyOf[c]
          /\ Chained(tails[KeyOf[c]])
    BY <1>2 DEF ChainInv
  <1>3. PICK r \in Nat : r = IF tails[KeyOf[c]] = None THEN 0 ELSE f[tails[KeyOf[c]]] + 1
    BY <1>t
  <1>4. PICK g \in [Calls -> Nat] : g[c] = r /\ \A d \in Calls : d # c => g[d] = f[d]
    <2>1. [f EXCEPT ![c] = r] \in [Calls -> Nat]
      OBVIOUS
    <2>2. QED
      BY <2>1
  <1>5. \A d \in Calls : Chained(d) /\ SameKey(c, d) => tails[KeyOf[c]] # None /\ f[d] < r
    BY <1>1, <1>3, <1>t DEF Ranks
  <1>6. \A d \in Calls : Chained(d)' <=> (Chained(d) \/ d = c)
    BY DEF WithLock
  <1>7. \A d \in Calls : d # c => prev'[d] = prev[d]
    BY DEF WithLock
  <1>8. prev'[c] = tails[KeyOf[c]] /\ tails'[KeyOf[c]] = c
    BY <1>2 DEF WithLock
  <1>9. \A d \in Calls : Chained(d) => (Granted(d)' <=> Granted(d))
    BY <1>1, <1>7 DEF WithLock, Ranks
  <1>10. Granted(c)' <=> tails[KeyOf[c]] = None
    BY <1>8, <1>t, <1>2 DEF WithLock
  <1>11. Ranks(g)'
    <2>1. (\A d, e \in Calls : Chained(d) /\ Chained(e) /\ SameKey(d, e) /\ d # e => g[d] # g[e])'
      <3> SUFFICES ASSUME NEW d \in Calls, NEW e \in Calls,
                          Chained(d)', Chained(e)', SameKey(d, e), d # e
                   PROVE  g[d] # g[e]
        OBVIOUS
      <3>1. CASE d = c
        BY <3>1, <1>3, <1>4, <1>5, <1>6
      <3>2. CASE e = c
        BY <3>2, <1>3, <1>4, <1>5, <1>6
      <3>3. CASE d # c /\ e # c
        BY <3>3, <1>1, <1>4, <1>6 DEF Ranks
      <3>4. QED
        BY <3>1, <3>2, <3>3
    <2>2. (\A d \in Calls : Chained(d) => /\ tails[KeyOf[d]] # None
                                          /\ g[d] <= g[tails[KeyOf[d]]])'
      <3> SUFFICES ASSUME NEW d \in Calls, Chained(d)'
                   PROVE  tails'[KeyOf[d]] # None /\ g[d] <= g[tails'[KeyOf[d]]]
        OBVIOUS
      <3>1. CASE KeyOf[d] = KeyOf[c]
        BY <3>1, <1>3, <1>4, <1>5, <1>6, <1>8
      <3>2. CASE KeyOf[d] # KeyOf[c]
        <4>1. Chained(d) /\ d # c
          BY <3>2, <1>6
        <4>2. KeyOf[d] \in Keys /\ tails'[KeyOf[d]] = tails[KeyOf[d]]
          BY <3>2 DEF WithLock
        <4>3. tails[KeyOf[d]] # None /\ f[d] <= f[tails[KeyOf[d]]]
          BY <4>1, <1>1 DEF Ranks
        <4>4. tails[KeyOf[d]] \in Calls /\ tails[KeyOf[d]] # c
          BY <4>2, <4>3, <1>2 DEF ChainInv
        <4>5. QED
          BY <4>1, <4>2, <4>3, <4>4, <1>4
      <3>3. QED
        BY <3>1, <3>2
    <2>3. (\A d, e \in Calls : Chained(d) /\ Granted(d) /\ Chained(e) /\ SameKey(d, e)
              => g[d] <= g[e])'
      <3> SUFFICES ASSUME NEW d \in Calls, NEW e \in Calls,
                          Chained(d)', Granted(d)', Chained(e)', SameKey(d, e)
                   PROVE  g[d] <= g[e]
        OBVIOUS
      <3>1. CASE d = c
        BY <3>1, <1>10, <1>5, <1>6, <1>4, <1>3
      <3>2. CASE d # c /\ e = c
        BY <3>2, <1>5, <1>6, <1>4, <1>3
      <3>3. CASE d # c /\ e # c
        BY <3>3, <1>1, <1>4, <1>6, <1>9 DEF Ranks
      <3>4. QED
        BY <3>1, <3>2, <3>3
    <2>4. (\A d \in Calls : Chained(d) /\ ~Granted(d) =>
              /\ Chained(prev[d])
              /\ SameKey(d, prev[d])
              /\ g[prev[d]] < g[d]
              /\ \A e \in Calls : Chained(e) /\ SameKey(d, e) /\ g[prev[d]] < g[e] => g[d] <= g[e])'
      <3> SUFFICES ASSUME NEW d \in Calls, Chained(d)', ~Granted(d)'
                   PROVE  /\ Chained(prev[d])'
                          /\ SameKey(d, prev'[d])
                          /\ g[prev'[d]] < g[d]
                          /\ \A e \in Calls : Chained(e)' /\ SameKey(d, e) /\ g[prev'[d]] < g[e]
                                 => g[d] <= g[e]
        OBVIOUS
      <3>1. CASE d = c
        <4>1. tails[KeyOf[c]] # None /\ prev'[d] = tails[KeyOf[c]]
          BY <3>1, <1>10, <1>8
        <4>2. Chained(prev[d])' /\ SameKey(d, prev'[d]) /\ prev'[d] # c /\ prev'[d] \in Calls
          BY <3>1, <4>1, <1>t, <1>2 DEF WithLock
        <4>3. g[prev'[d]] = f[tails[KeyOf[c]]] /\ g[d] = f[tails[KeyOf[c]]] + 1
          BY <3>1, <4>1, <4>2, <1>3, <1>4
        <4>4. \A e \in Calls : Chained(e)' /\ SameKey(d, e) /\ g[prev'[d]] < g[e] => g[d] <= g[e]
          BY <4>3, <1>4, <1>3, <4>2
        <4>5. QED
          BY <4>1, <4>2, <4>3, <4>4, <1>4
      <3>2. CASE d # c
        <4>1. Chained(d) /\ ~Granted(d) /\ prev'[d] = prev[d] /\ prev[d] \in Calls
          BY <3>2, <1>6, <1>7, <1>9
        <4>2. /\ Chained(prev[d])
              /\ SameKey(d, prev[d])
              /\ f[prev[d]] < f[d]
              /\ \A e \in Calls : Chained(e) /\ SameKey(d, e) /\ f[prev[d]] < f[e] => f[d] <= f[e]
          BY <4>1, <1>1 DEF Ranks
        <4>3. prev[d] # c /\ Chained(prev[d])'
          BY <4>1, <4>2, <1>2, <1>6 DEF WithLock
        <4>4. g[prev[d]] = f[prev[d]] /\ g[d] = f[d]
          BY <3>2, <4>1, <4>3, <1>4
        <4>5. \A e \in Calls : Chained(e)' /\ SameKey(d, e) /\ g[prev[d]] < g[e] => g[d] <= g[e]
          BY <4>2, <4>4, <3>2, <1>3, <1>4, <1>5, <1>6, <4>1
        <4>6. QED
          BY <4>1, <4>2, <4>3, <4>4, <4>5
      <3>3. QED
        BY <3>1, <3>2
    <2>5. QED
      BY <2>1, <2>2, <2>3, <2>4 DEF Ranks
  <1>12. (\A k \in Keys : tails[k] # None => KeyOf[tails[k]] = k /\ Chained(tails[k]))'
    <2> SUFFICES ASSUME NEW k \in Keys, tails'[k] # None
                 PROVE  KeyOf[tails'[k]] = k /\ Chained(tails[k])'
      OBVIOUS
    <2>1. CASE k = KeyOf[c]
      BY <2>1, <1>6, <1>8 DEF WithLock
    <2>2. CASE k # KeyOf[c]
      <3>1. tails'[k] = tails[k] /\ tails[k] \in Calls
        BY <2>2 DEF WithLock
      <3>2. KeyOf[tails[k]] = k /\ Chained(tails[k])
        BY <3>1 DEF ChainInv
      <3>3. QED
        BY <3>1, <3>2, <2>2, <1>2 DEF WithLock
    <2>3. QED
      BY <2>1, <2>2
  <1>13. QED
    BY <1>4, <1>11, <1>12 DEF ChainInv

\* The granted call leaves: the only call that awaited it is granted, and the
\* tail entry goes away exactly when nobody is left.
LEMMA ChainLeave ==
    ASSUME ChainInv, TypeOK, NEW c \in Calls, Leave(c), Granted(c)
    PROVE  ChainInv'
  <1> USE KeyOfAssumption, NoneAssumption DEF TypeOK, Chained, Granted, SameKey
  <1>1. PICK f \in [Calls -> Nat] : Ranks(f)
    BY DEF ChainInv
  <1>2. KeyOf[c] \in Keys /\ Chained(c)
    BY DEF Leave
  <1>3. \A d \in Calls : Chained(d)' <=> (Chained(d) /\ d # c)
    BY DEF Leave
  <1>4. prev' = prev
    BY DEF Leave
  <1>5. \A d \in Calls : Chained(d)' => (Granted(d)' <=> Granted(d) \/ prev[d] = c)
    BY <1>4 DEF Leave
  <1>6. \A d \in Calls : Chained(d)' /\ SameKey(c, d) => f[c] < f[d]
    <2> SUFFICES ASSUME NEW d \in Calls, Chained(d)', SameKey(c, d)
                 PROVE  f[c] < f[d]
      OBVIOUS
    <2>1. f[c] <= f[d] /\ f[c] # f[d]
      BY <1>1, <1>2, <1>3 DEF Ranks
    <2>2. QED
      BY <2>1
  <1>7. \A d \in Calls : Chained(d)' => /\ tails'[KeyOf[d]] = tails[KeyOf[d]]
                                        /\ tails[KeyOf[d]] # None
                                        /\ tails[KeyOf[d]] # c
    <2> SUFFICES ASSUME NEW d \in Calls, Chained(d)'
                 PROVE  /\ tails'[KeyOf[d]] = tails[KeyOf[d]]
                        /\ tails[KeyOf[d]] # None
                        /\ tails[KeyOf[d]] # c
      OBVIOUS
    <2>1. tails[KeyOf[d]] # None /\ f[d] <= f[tails[KeyOf[d]]]
      BY <1>1, <1>3 DEF Ranks
    <2>2. tails[KeyOf[d]] # c
      <3> SUFFICES ASSUME tails[KeyOf[d]] = c
                   PROVE  FALSE
        OBVIOUS
      <3>1. KeyOf[d] \in Keys
        OBVIOUS
      <3>2. SameKey(c, d)
        BY <2>1, <3>1 DEF ChainInv
      <3>3. QED
        BY <1>6, <2>1, <3>2
    <2>3. QED
      BY <2>1, <2>2, <1>2 DEF Leave
  <1>8. Ranks(f)'
    <2>1. (\A d, e \in Calls : Chained(d) /\ Chained(e) /\ SameKey(d, e) /\ d # e => f[d] # f[e])'
      BY <1>1, <1>3 DEF Ranks
    <2>2. (\A d \in Calls : Chained(d) => /\ tails[KeyOf[d]] # None
                                          /\ f[d] <= f[tails[KeyOf[d]]])'
      BY <1>1, <1>3, <1>7 DEF Ranks
    <2>3. (\A d, e \in Calls : Chained(d) /\ Granted(d) /\ Chained(e) /\ SameKey(d, e)
              => f[d] <= f[e])'
      <3> SUFFICES ASSUME NEW d \in Calls, NEW e \in Calls,
                          Chained(d)', Granted(d)', Chained(e)', SameKey(d, e)
                   PROVE  f[d] <= f[e]
        OBVIOUS
      <3>1. CASE Granted(d)
        BY <3>1, <1>1, <1>3 DEF Ranks
      <3>2. CASE ~Granted(d) /\ prev[d] = c
        <4>1. SameKey(d, c) /\ f[c] < f[d]
              /\ \A x \in Calls : Chained(x) /\ SameKey(d, x) /\ f[c] < f[x] => f[d] <= f[x]
          BY <3>2, <1>1, <1>3 DEF Ranks
        <4>2. f[c] < f[e] /\ Chained(e)
          BY <4>1, <1>3, <1>6
        <4>3. QED
          BY <4>1, <4>2
      <3>3. QED
        BY <3>1, <3>2, <1>5
    <2>4. (\A d \in Calls : Chained(d) /\ ~Granted(d) =>
              /\ Chained(prev[d])
              /\ SameKey(d, prev[d])
              /\ f[prev[d]] < f[d]
              /\ \A e \in Calls : Chained(e) /\ SameKey(d, e) /\ f[prev[d]] < f[e] => f[d] <= f[e])'
      <3> SUFFICES ASSUME NEW d \in Calls, Chained(d)', ~Granted(d)'
                   PROVE  /\ Chained(prev[d])'
                          /\ SameKey(d, prev[d])
                          /\ f[prev[d]] < f[d]
                          /\ \A e \in Calls : Chained(e)' /\ SameKey(d, e) /\ f[prev[d]] < f[e]
                                 => f[d] <= f[e]
        BY <1>4
      <3>1. Chained(d) /\ ~Granted(d) /\ prev[d] # c /\ prev[d] \in Calls
        BY <1>3, <1>4, <1>5
      <3>2. /\ Chained(prev[d])
            /\ SameKey(d, prev[d])
            /\ f[prev[d]] < f[d]
            /\ \A e \in Calls : Chained(e) /\ SameKey(d, e) /\ f[prev[d]] < f[e] => f[d] <= f[e]
        BY <3>1, <1>1 DEF Ranks
      <3>3. Chained(prev[d])'
        BY <3>1, <3>2, <1>3, <1>4
      <3>4. QED
        BY <3>2, <3>3, <1>3
    <2>5. QED
      BY <2>1, <2>2, <2>3, <2>4 DEF Ranks
  <1>9. (\A k \in Keys : tails[k] # None => KeyOf[tails[k]] = k /\ Chained(tails[k]))'
    <2> SUFFICES ASSUME NEW k \in Keys, tails'[k] # None
                 PROVE  KeyOf[tails'[k]] = k /\ Chained(tails[k])'
      OBVIOUS
    <2>1. tails'[k] = tails[k] /\ tails[k] # c /\ tails[k] \in Calls
      BY <1>2 DEF Leave, ChainInv
    <2>2. QED
      BY <2>1, <1>3 DEF ChainInv
  <1>10. QED
    BY <1>8, <1>9 DEF ChainInv

-----------------------------------------------------------------------------

\* Every step of withLock, touch and the expiry timer keeps the chain a total
\* order per key and the registry equal to the granted hold.
LEMMA Inductive == IInv /\ [Next]_vars => IInv'
  <1> SUFFICES ASSUME IInv, [Next]_vars
               PROVE  ChainInv' /\ HoldInv'
    BY TypeStep DEF IInv
  <1> USE KeyOfAssumption, NoneAssumption, LeaseAssumption
      DEF IInv, HoldInv, RegistryTracksHold, TypeOK, Off
  <1>1. ASSUME NEW c \in Calls, WithLock(c) PROVE ChainInv' /\ HoldInv'
    <2>1. ChainInv'
      BY <1>1, ChainJoin
    <2>2. \A d \in Calls : phase[d] \in {"held", "leaving"} => prev'[d] = prev[d]
      BY <1>1 DEF WithLock
    <2>3. QED
      BY <1>1, <2>1, <2>2 DEF WithLock, Granted
  <1>2. ASSUME NEW c \in Calls, Start(c) PROVE ChainInv' /\ HoldInv'
    <2>1. ChainInv'
      BY <1>2, ChainStable DEF Start, Chained
    <2>2. \A d \in Calls : phase[d] \in {"held", "leaving"} => KeyOf[d] # KeyOf[c]
      BY <1>2, OneGranted DEF Start, Chained, SameKey
    <2>3. (\A d \in Calls : phase[d] \in {"held", "leaving"} => Granted(d))'
      BY <1>2 DEF Start, Granted
    <2>4. RegistryTracksHold'
      BY <1>2, <2>2 DEF Start
    <2>5. QED
      BY <1>2, <2>1, <2>3, <2>4 DEF Start
  <1>3. ASSUME NEW c \in Calls, Touch(c) PROVE ChainInv' /\ HoldInv'
    <2>1. ChainInv'
      BY <1>3, ChainStable DEF Touch, Chained
    <2>2. QED
      BY <1>3, <2>1 DEF Touch, Granted
  <1>4. ASSUME NEW c \in Calls, WorkSettles(c) PROVE ChainInv' /\ HoldInv'
    <2>1. ChainInv'
      BY <1>4, ChainStable DEF WorkSettles, Chained
    <2>2. QED
      BY <1>4, <2>1 DEF WorkSettles, Granted
  <1>5. ASSUME NEW c \in Calls, Expire(c) PROVE ChainInv' /\ HoldInv'
    <2>1. ChainInv'
      BY <1>5, ChainStable DEF Expire, Chained
    <2>2. QED
      BY <1>5, <2>1 DEF Expire, Granted, ClearActive
  <1>6. ASSUME NEW c \in Calls, Leave(c) PROVE ChainInv' /\ HoldInv'
    <2>1. ChainInv'
      BY <1>6, ChainLeave DEF Leave
    <2>2. QED
      BY <1>6, <2>1 DEF Leave, Granted, ClearActive
  <1>7. CASE Tick
    <2>1. ChainInv'
      BY <1>7, ChainStable DEF Tick, Chained
    <2>2. QED
      BY <1>7, <2>1 DEF Tick, Granted
  <1>8. CASE UNCHANGED vars
    <2>1. ChainInv'
      BY <1>8, ChainStable DEF vars, Chained
    <2>2. QED
      BY <1>8, <2>1 DEF vars, Granted
  <1>9. QED
    BY <1>1, <1>2, <1>3, <1>4, <1>5, <1>6, <1>7, <1>8 DEF Next

\* An empty lock has the invariant: any ranking ranks no call.
LEMMA Initial == Init => IInv
  <1> SUFFICES ASSUME Init
               PROVE  IInv
    OBVIOUS
  <1>1. TypeOK
    BY KeyOfAssumption, LeaseAssumption
       DEF Init, TypeOK, Phases, Works, Off
  <1>2. PICK f \in [Calls -> Nat] : TRUE
    <2>1. [c \in Calls |-> 0] \in [Calls -> Nat]
      OBVIOUS
    <2>2. QED
      BY <2>1
  <1>3. Ranks(f)
    BY DEF Init, Ranks, Chained
  <1>4. QED
    BY <1>1, <1>2, <1>3 DEF Init, IInv, ChainInv, HoldInv, RegistryTracksHold

\* The invariant holds in every state of the lock.
LEMMA InductiveInvariant == Spec => []IInv
  BY Initial, Inductive, PTL DEF Spec

\* Two pieces of work on one session overlap only when one of them went silent
\* past its lease: the guarantee withLock gives every model run (locks.ts).
THEOREM Exclusion == Spec => []LeaseExclusion
  <1>1. IInv => LeaseExclusion
    BY KeyOfAssumption, NoneAssumption DEF IInv, HoldInv, RegistryTracksHold, LeaseExclusion
  <1>2. QED
    BY <1>1, InductiveInvariant, PTL

\* touch(key) reaches exactly the hold the chain granted, and never one that
\* was released.
THEOREM Registry == Spec => []RegistryTracksHold
  <1>1. IInv => RegistryTracksHold
    BY DEF IInv, HoldInv
  <1>2. QED
    BY <1>1, InductiveInvariant, PTL

\* The tails map holds no entry for a session nobody uses or waits for.
THEOREM TailsBounded == Spec => []NoTailLeak
  <1>1. IInv => NoTailLeak
    <2> SUFFICES ASSUME IInv, NEW k \in Keys
                 PROVE  tails[k] # None <=> \E c \in Calls : KeyOf[c] = k /\ Chained(c)
      BY DEF NoTailLeak
    <2>1. tails[k] # None => tails[k] \in Calls
      BY DEF IInv, TypeOK
    <2>2. tails[k] # None => KeyOf[tails[k]] = k /\ Chained(tails[k])
      BY DEF IInv, ChainInv
    <2>3. \A c \in Calls : Chained(c) => tails[KeyOf[c]] # None
      <3>1. PICK f \in [Calls -> Nat] : Ranks(f)
        BY DEF IInv, ChainInv
      <3>2. QED
        BY <3>1 DEF Ranks
    <2>4. QED
      BY <2>1, <2>2, <2>3
  <1>2. QED
    BY <1>1, InductiveInvariant, PTL

-----------------------------------------------------------------------------
(***************************************************************************)
(* The chain of promises is the queue of FifoLease.                        *)
(***************************************************************************)

Places(k) == 1..Len(queue[k])

\* The line of a key holds its chained calls, each once and each behind the
\* one it awaits; its head alone was granted, and its end is the tail entry.
InLine ==
    /\ queue \in [Keys -> Seq(Calls)]
    /\ \A k \in Keys : \A i \in Places(k) :
           /\ KeyOf[queue[k][i]] = k /\ Chained(queue[k][i])
           /\ i = 1 => Granted(queue[k][i])
           /\ i # 1 => prev[queue[k][i]] = queue[k][i - 1] /\ phase[queue[k][i]] = "queued"
    /\ \A k \in Keys : \A i, j \in Places(k) : queue[k][i] = queue[k][j] => i = j
    /\ \A c \in Calls : Chained(c) => \E i \in Places(KeyOf[c]) : queue[KeyOf[c]][i] = c

Tails ==
    \A k \in Keys :
        IF Len(queue[k]) = 0 THEN tails[k] = None ELSE tails[k] = queue[k][Len(queue[k])]

\* A call's work starts when it leaves "queued".
Started == \A c \in Calls : work[c] = "none" <=> phase[c] \in {"idle", "queued"}

LineInv == IInv /\ InLine /\ Tails /\ Started

\* A call whose promise resolved, and one that is held or leaves, is the head.
LEMMA GrantedIsHead ==
    ASSUME LineInv, NEW c \in Calls, Chained(c),
           Granted(c) \/ phase[c] # "queued"
    PROVE  /\ Len(queue[KeyOf[c]]) \in Nat \ {0}
           /\ queue[KeyOf[c]][1] = c /\ Head(queue[KeyOf[c]]) = c /\ queue[KeyOf[c]] # <<>>
  <1>1. KeyOf[c] \in Keys /\ queue[KeyOf[c]] \in Seq(Calls)
    BY KeyOfAssumption DEF LineInv, IInv, InLine
  <1>2. PICK i \in Places(KeyOf[c]) : queue[KeyOf[c]][i] = c
    BY DEF LineInv, InLine
  <1>3. i = 1
    <2>1. SUFFICES ASSUME i # 1 PROVE FALSE
      OBVIOUS
    <2>2. prev[c] = queue[KeyOf[c]][i - 1] /\ phase[c] = "queued"
      BY <1>1, <1>2, <2>1 DEF LineInv, InLine
    <2>3. i - 1 \in Places(KeyOf[c])
      BY <1>1, <1>2, <2>1 DEF Places
    <2>4. Chained(prev[c]) /\ prev[c] \in Calls
      BY <1>1, <2>2, <2>3 DEF LineInv, InLine, Places
    <2> QED BY <2>2, <2>4, NoneAssumption DEF Granted, Chained
  <1> QED BY <1>1, <1>2, <1>3 DEF Places

\* A call goes to the end of its key's line.
LEMMA LineArrives ==
    ASSUME LineInv, NEW c \in Calls, Arrives(c)
    PROVE  InLine' /\ Tails' /\ Started'
  <1> DEFINE k0 == KeyOf[c]
             q  == queue[k0]
  <1>1. /\ phase[c] = "idle" /\ phase' = [phase EXCEPT ![c] = "queued"]
        /\ prev' = [prev EXCEPT ![c] = tails[k0]] /\ tails' = [tails EXCEPT ![k0] = c]
        /\ work' = work /\ queue' = [queue EXCEPT ![k0] = Append(@, c)]
    BY DEF Arrives, WithLock
  <1>2. /\ TypeOK /\ InLine /\ Tails /\ Started /\ k0 \in Keys
        /\ q \in Seq(Calls) /\ Len(q) \in Nat
    BY KeyOfAssumption DEF LineInv, IInv, InLine
  <1>3. /\ queue'[k0] = Append(q, c) /\ Len(queue'[k0]) = Len(q) + 1
        /\ queue'[k0][Len(q) + 1] = c
        /\ \A i \in 1..Len(q) : queue'[k0][i] = q[i]
        /\ \A k \in Keys : k # k0 => queue'[k] = queue[k]
    BY <1>1, <1>2 DEF InLine
  <1>4. queue' \in [Keys -> Seq(Calls)]
    BY <1>1, <1>2 DEF InLine
  <1>5. \A d \in Calls : /\ phase'[d] = IF d = c THEN "queued" ELSE phase[d]
                         /\ prev'[d] = IF d = c THEN tails[k0] ELSE prev[d]
    BY <1>1, <1>2 DEF TypeOK
  <1>6. /\ \A k \in Keys : \A i \in Places(k) : queue[k][i] \in Calls /\ queue[k][i] # c
        /\ \A k \in Keys : Places(k) \subseteq Places(k)'
        /\ \A k \in Keys : \A i \in Places(k) : queue'[k][i] = queue[k][i]
        /\ \A k \in Keys : \A i \in Places(k)' : i \in Places(k) \/ (k = k0 /\ i = Len(q) + 1)
        /\ Len(q) + 1 \in Places(k0)'
    <2>1. \A k \in Keys : \A i \in Places(k) : queue[k][i] \in Calls /\ Chained(queue[k][i])
      <3>1. \A k \in Keys : queue[k] \in Seq(Calls)
        BY <1>2 DEF InLine
      <3> QED BY <1>2, <3>1 DEF InLine, Places
    <2>2. ~Chained(c)
      BY <1>1 DEF Chained
    <2>3. \A k \in Keys : k = k0 => Places(k)' = 1..(Len(q) + 1) /\ Places(k) = 1..Len(q)
      BY <1>3 DEF Places
    <2>4. \A k \in Keys : k # k0 => Places(k)' = Places(k)
      BY <1>3 DEF Places
    <2> QED BY <1>2, <1>3, <2>1, <2>2, <2>3, <2>4
  <1>7. \A d \in Calls : d # c /\ Chained(d) /\ Granted(d) => Granted(d)'
    BY <1>1, <1>2, <1>5 DEF Granted, TypeOK
  <1>8. \A d \in Calls : Chained(d)' <=> Chained(d) \/ d = c
    BY <1>5 DEF Chained
  <1> HIDE DEF k0, q
  <1>9. InLine'
    <2>1. ASSUME NEW k \in Keys, NEW i \in Places(k)'
          PROVE  /\ KeyOf[queue'[k][i]] = k /\ Chained(queue[k][i])'
                 /\ i = 1 => Granted(queue[k][i])'
                 /\ i # 1 => prev'[queue'[k][i]] = queue'[k][i - 1] /\ phase'[queue'[k][i]] = "queued"
      <3>1. CASE i \in Places(k)
        <4>0. PICK d \in Calls : d = queue[k][i]
          BY <1>6, <3>1
        <4>1. /\ d # c /\ queue'[k][i] = d /\ KeyOf[d] = k /\ Chained(d)
              /\ i = 1 => Granted(d)
              /\ i # 1 => prev[d] = queue[k][i - 1] /\ phase[d] = "queued"
          BY <1>2, <1>6, <3>1, <4>0 DEF InLine
        <4>2. i # 1 => queue'[k][i - 1] = queue[k][i - 1]
          <5>1. i # 1 => i - 1 \in Places(k)
            <6>1. queue[k] \in Seq(Calls)
              BY <1>2 DEF InLine
            <6> QED BY <3>1, <6>1 DEF Places
          <5> QED BY <1>6, <5>1
        <4>3. KeyOf[d] = k /\ Chained(d)' /\ (i = 1 => Granted(d)')
          BY <1>7, <1>8, <4>1
        <4> QED BY <1>5, <4>1, <4>2, <4>3
      <3>2. CASE k = k0 /\ i = Len(q) + 1
        <4>1. queue'[k][i] = c /\ KeyOf[c] = k /\ Chained(c)' /\ phase'[c] = "queued"
          BY <1>3, <1>5, <1>8, <3>2 DEF k0
        <4>2. i = 1 => Granted(c)'
          <5>1. i = 1 => tails[k0] = None
            BY <1>2, <3>2 DEF Tails, q
          <5> QED BY <1>5, <5>1 DEF Granted
        <4>3. i # 1 => prev'[c] = queue'[k][i - 1]
          <5>1. i # 1 => tails[k0] = q[Len(q)] /\ Len(q) \in 1..Len(q) /\ i - 1 = Len(q)
            BY <1>2, <3>2 DEF Tails, q
          <5> QED BY <1>3, <1>5, <3>2, <5>1
        <4> QED BY <4>1, <4>2, <4>3
      <3> QED BY <1>6, <3>1, <3>2
    <2>2. ASSUME NEW k \in Keys, NEW i \in Places(k)', NEW j \in Places(k)',
                 queue'[k][i] = queue'[k][j]
          PROVE  i = j
      <3>1. CASE i \in Places(k) /\ j \in Places(k)
        BY <1>2, <1>6, <2>2, <3>1 DEF InLine
      <3>2. CASE i \notin Places(k) /\ j \in Places(k)
        BY <1>3, <1>6, <2>2, <3>2
      <3>3. CASE i \in Places(k) /\ j \notin Places(k)
        BY <1>3, <1>6, <2>2, <3>3
      <3>4. CASE i \notin Places(k) /\ j \notin Places(k)
        BY <1>6, <3>4
      <3> QED BY <3>1, <3>2, <3>3, <3>4
    <2>3. ASSUME NEW d \in Calls, Chained(d)'
          PROVE  \E i \in Places(KeyOf[d])' : queue'[KeyOf[d]][i] = d
      <3>1. CASE d = c
        BY <1>3, <1>6, <3>1 DEF k0
      <3>2. CASE Chained(d)
        <4>1. PICK i \in Places(KeyOf[d]) : queue[KeyOf[d]][i] = d
          BY <1>2, <3>2 DEF InLine
        <4> QED BY <1>6, <4>1, KeyOfAssumption
      <3> QED BY <1>8, <2>3, <3>1, <3>2
    <2> QED BY <1>4, <2>1, <2>2, <2>3 DEF InLine
  <1>10. Tails'
    <2> SUFFICES ASSUME NEW k \in Keys
        PROVE IF Len(queue'[k]) = 0 THEN tails'[k] = None ELSE tails'[k] = queue'[k][Len(queue'[k])]
      BY DEF Tails
    <2>1. tails'[k] = IF k = k0 THEN c ELSE tails[k]
      BY <1>1, <1>2 DEF TypeOK
    <2> QED BY <1>2, <1>3, <2>1 DEF Tails
  <1>11. Started'
    BY <1>1, <1>2, <1>5 DEF Started
  <1> QED BY <1>9, <1>10, <1>11

\* The head leaves its line, and the next in it is granted.
LEMMA LineDeparts ==
    ASSUME LineInv, NEW c \in Calls, Departs(c)
    PROVE  InLine' /\ Tails' /\ Started'
  <1> DEFINE k0 == KeyOf[c]
             q  == queue[k0]
  <1>1. /\ phase[c] = "leaving" /\ phase' = [phase EXCEPT ![c] = "released"]
        /\ prev' = prev /\ work' = work /\ queue' = [queue EXCEPT ![k0] = Tail(@)]
        /\ tails' = IF tails[k0] = c THEN [tails EXCEPT ![k0] = None] ELSE tails
    BY DEF Departs, Leave
  <1>2. /\ TypeOK /\ InLine /\ Tails /\ Started /\ k0 \in Keys
        /\ q \in Seq(Calls) /\ Len(q) \in Nat \ {0} /\ q # <<>> /\ q[1] = c
    <2>1. Chained(c) /\ phase[c] # "queued"
      BY <1>1 DEF Chained
    <2> QED BY <2>1, GrantedIsHead, KeyOfAssumption DEF LineInv, IInv, InLine
  <1>3. /\ queue'[k0] = Tail(q) /\ Len(queue'[k0]) = Len(q) - 1
        /\ \A i \in 1..(Len(q) - 1) : queue'[k0][i] = q[i + 1]
        /\ \A k \in Keys : k # k0 => queue'[k] = queue[k]
    BY <1>1, <1>2 DEF InLine
  <1>4. queue' \in [Keys -> Seq(Calls)]
    <2>1. Tail(q) \in Seq(Calls)
      BY <1>2
    <2> QED BY <1>1, <1>2, <2>1 DEF InLine
  <1>5. \A d \in Calls : phase'[d] = IF d = c THEN "released" ELSE phase[d]
    BY <1>1, <1>2 DEF TypeOK
  <1>6. /\ \A d \in Calls : Chained(d)' <=> Chained(d) /\ d # c
        /\ \A d \in Calls : Granted(d) => Granted(d)'
        /\ \A d \in Calls : prev[d] = c => Granted(d)'
    <2>1. \A d \in Calls : prev[d] # None => prev[d] \in Calls
      BY <1>2 DEF TypeOK
    <2> QED BY <1>1, <1>5, <2>1 DEF Chained, Granted
  <1>7. /\ \A i \in Places(k0)' : i \in Nat \ {0} /\ i \in 1..(Len(q) - 1) /\ i + 1 \in Places(k0)
        /\ \A i \in Places(k0) : i # 1 => i - 1 \in Places(k0)' /\ (i - 1) + 1 = i
        /\ \A i \in Places(k0)' : i # 1 => i - 1 \in 1..(Len(q) - 1) /\ (i - 1) + 1 = i
        /\ 1 \in Places(k0)
        /\ \A k \in Keys : k # k0 => Places(k)' = Places(k)
    BY <1>2, <1>3 DEF Places
  <1>8. \A k \in Keys : \A i \in Places(k) : queue[k][i] \in Calls
    <2>1. \A k \in Keys : queue[k] \in Seq(Calls)
      BY <1>2 DEF InLine
    <2> QED BY <2>1 DEF Places
  <1> HIDE DEF k0
  <1>9. InLine'
    <2>1. ASSUME NEW k \in Keys, NEW i \in Places(k)'
          PROVE  /\ KeyOf[queue'[k][i]] = k /\ Chained(queue[k][i])'
                 /\ i = 1 => Granted(queue[k][i])'
                 /\ i # 1 => prev'[queue'[k][i]] = queue'[k][i - 1] /\ phase'[queue'[k][i]] = "queued"
      <3>1. CASE k # k0
        <4>1. PICK d \in Calls : d = queue[k][i]
          BY <1>7, <1>8, <3>1
        <4>2. /\ queue'[k] = queue[k] /\ KeyOf[d] = k /\ Chained(d) /\ d # c
              /\ i = 1 => Granted(d)
              /\ i # 1 => prev[d] = queue[k][i - 1] /\ phase[d] = "queued"
          BY <1>2, <1>3, <1>7, <3>1, <4>1 DEF InLine, k0
        <4>3. Chained(d)' /\ (i = 1 => Granted(d)')
          BY <1>6, <4>2
        <4> QED BY <1>1, <1>5, <4>1, <4>2, <4>3
      <3>2. CASE k = k0
        <4>1. PICK d \in Calls : d = q[i + 1]
          BY <1>7, <1>8, <3>2
        <4>2. /\ queue'[k][i] = d /\ KeyOf[d] = k /\ Chained(d) /\ i + 1 # 1
              /\ prev[d] = q[(i + 1) - 1] /\ phase[d] = "queued"
          <5>1. i + 1 # 1 /\ i + 1 \in Places(k0)
            BY <1>7, <3>2
          <5> QED BY <1>2, <1>3, <1>7, <3>2, <4>1, <5>1 DEF InLine
        <4>3. d # c /\ (i + 1) - 1 = i
          <5>1. d = c => i + 1 = 1
            <6>1. 1 \in Places(k0) /\ i + 1 \in Places(k0)
              BY <1>7, <3>2
            <6>2. q[i + 1] = q[1] => i + 1 = 1
              <7>1. \A x, y \in Places(k0) : queue[k0][x] = queue[k0][y] => x = y
                BY <1>2 DEF InLine
              <7> QED BY <6>1, <7>1
            <6> QED BY <1>2, <4>1, <6>2
          <5> QED BY <1>7, <3>2, <4>2, <5>1
        <4>4. i # 1 => queue'[k][i - 1] = q[i]
          BY <1>3, <1>7, <3>2
        <4>5. Chained(d)' /\ (i = 1 => Granted(d)')
          BY <1>2, <1>6, <4>2, <4>3
        <4> QED BY <1>1, <1>5, <4>1, <4>2, <4>3, <4>4, <4>5
      <3> QED BY <3>1, <3>2
    <2>2. ASSUME NEW k \in Keys, NEW i \in Places(k)', NEW j \in Places(k)',
                 queue'[k][i] = queue'[k][j]
          PROVE  i = j
      <3>1. CASE k # k0
        BY <1>2, <1>3, <1>7, <2>2, <3>1 DEF InLine
      <3>2. CASE k = k0
        <4>1. q[i + 1] = q[j + 1]
          BY <1>3, <1>7, <2>2, <3>2
        <4>2. i + 1 = j + 1
          BY <1>2, <1>7, <3>2, <4>1 DEF InLine
        <4> QED BY <1>7, <3>2, <4>2
      <3> QED BY <3>1, <3>2
    <2>3. ASSUME NEW d \in Calls, Chained(d)'
          PROVE  \E i \in Places(KeyOf[d])' : queue'[KeyOf[d]][i] = d
      <3>1. d # c /\ Chained(d) /\ KeyOf[d] \in Keys
        BY <1>6, <2>3, KeyOfAssumption
      <3>2. PICK i \in Places(KeyOf[d]) : queue[KeyOf[d]][i] = d
        BY <1>2, <3>1 DEF InLine
      <3>3. CASE KeyOf[d] # k0
        BY <1>3, <1>7, <3>1, <3>2, <3>3
      <3>4. CASE KeyOf[d] = k0
        <4>1. i # 1
          BY <1>2, <3>1, <3>2, <3>4
        <4>2. /\ i - 1 \in Places(k0)' /\ i - 1 \in 1..(Len(q) - 1) /\ (i - 1) + 1 = i
          BY <1>7, <3>2, <3>4, <4>1
        <4>3. queue'[k0][i - 1] = d
          BY <1>3, <3>2, <3>4, <4>2
        <4> QED BY <3>4, <4>2, <4>3
      <3> QED BY <3>3, <3>4
    <2> QED BY <1>4, <2>1, <2>2, <2>3 DEF InLine
  <1>10. Tails'
    <2> SUFFICES ASSUME NEW k \in Keys
        PROVE IF Len(queue'[k]) = 0 THEN tails'[k] = None ELSE tails'[k] = queue'[k][Len(queue'[k])]
      BY DEF Tails
    <2>1. tails'[k] = IF k = k0 /\ tails[k] = c THEN None ELSE tails[k]
      BY <1>1, <1>2 DEF TypeOK
    <2>2. CASE k # k0
      BY <1>2, <1>3, <2>1, <2>2 DEF Tails
    <2>3. CASE k = k0
      <3>1. tails[k0] = q[Len(q)]
        BY <1>2 DEF Tails
      <3>2. PICK n \in Nat \ {0} : n = Len(q)
        BY <1>2
      <3>3. n \in Places(k0)
        BY <3>2 DEF Places
      <3>4. q[n] = c <=> n = 1
        BY <1>2, <1>7, <3>2, <3>3 DEF InLine
      <3>5. n # 1 => n - 1 \in 1..(n - 1) /\ (n - 1) + 1 = n /\ n - 1 # 0
        OBVIOUS
      <3>6. CASE n = 1
        <4>1. Len(queue'[k0]) = 0
          BY <1>3, <3>2, <3>6
        <4>2. tails[k0] = c
          BY <3>1, <3>2, <3>4, <3>6
        <4> QED BY <2>1, <2>3, <4>1, <4>2
      <3>7. CASE n # 1
        <4>1. queue'[k0][n - 1] = q[n] /\ Len(queue'[k0]) = n - 1
          BY <1>3, <3>2, <3>5, <3>7
        <4> QED BY <2>1, <2>3, <3>1, <3>2, <3>4, <3>5, <3>7, <4>1
      <3> QED BY <3>6, <3>7
    <2> QED BY <2>2, <2>3
  <1>11. Started'
    BY <1>1, <1>2, <1>5 DEF Started
  <1> QED BY <1>9, <1>10, <1>11

\* A step between, which may start or end the work of a granted call.
LEMMA LineStays ==
    ASSUME LineInv, UNCHANGED <<queue, tails, prev>>,
           \A d \in Calls : /\ Chained(d)' <=> Chained(d)
                            /\ phase[d] = "released" => phase'[d] = "released"
                            /\ phase[d] = "queued" /\ ~Granted(d) => phase'[d] = "queued"
    PROVE  InLine' /\ Tails'
  <1>1. TypeOK /\ InLine /\ Tails /\ \A k \in Keys : Places(k)' = Places(k)
    BY DEF LineInv, IInv, Places
  <1>2. \A d \in Calls : Granted(d) => Granted(d)'
    <2>1. \A d \in Calls : prev[d] # None => prev[d] \in Calls
      BY <1>1 DEF TypeOK
    <2> QED BY <2>1 DEF Granted
  <1>3. ASSUME NEW k \in Keys, NEW i \in Places(k)
        PROVE  /\ KeyOf[queue[k][i]] = k /\ Chained(queue[k][i])'
               /\ i = 1 => Granted(queue[k][i])'
               /\ i # 1 => prev[queue[k][i]] = queue[k][i - 1] /\ phase'[queue[k][i]] = "queued"
    <2>1. queue[k] \in Seq(Calls) /\ (i # 1 => i - 1 \in Places(k))
      <3>1. queue[k] \in Seq(Calls)
        BY <1>1 DEF InLine
      <3> QED BY <1>3, <3>1 DEF Places
    <2>2. PICK d \in Calls : d = queue[k][i]
      BY <1>3, <2>1 DEF Places
    <2>3. /\ KeyOf[d] = k /\ Chained(d) /\ (i = 1 => Granted(d))
          /\ i # 1 => prev[d] = queue[k][i - 1] /\ phase[d] = "queued"
      BY <1>1, <1>3, <2>2 DEF InLine
    <2>4. i # 1 => ~Granted(d)
      <3>1. i # 1 => queue[k][i - 1] \in Calls /\ Chained(queue[k][i - 1])
        BY <1>1, <2>1 DEF InLine, Places
      <3> QED BY <2>3, <3>1, NoneAssumption DEF Granted, Chained
    <2>5. Chained(d)' /\ (i = 1 => Granted(d)') /\ (i # 1 => phase'[d] = "queued")
      BY <1>2, <2>3, <2>4
    <2> QED BY <2>2, <2>3, <2>5
  <1>4. InLine'
    BY <1>1, <1>3, KeyOfAssumption DEF InLine
  <1>5. Tails'
    BY <1>1 DEF Tails
  <1> QED BY <1>4, <1>5

LEMMA LineInductive == LineInv /\ [QueueNext]_<<vars, queue>> => LineInv'
  <1> SUFFICES ASSUME LineInv, [QueueNext]_<<vars, queue>>
               PROVE  LineInv'
    OBVIOUS
  <1>1. IInv'
    <2>1. IInv /\ [Next]_vars
      BY DEF LineInv, QueueNext, Arrives, Departs, Stays, Next
    <2> QED BY <2>1, Inductive
  <1>2. InLine' /\ Tails' /\ Started'
    <2> USE DEF LineInv, IInv
    <2>1. ASSUME NEW c \in Calls, Arrives(c) PROVE InLine' /\ Tails' /\ Started'
      BY <2>1, LineArrives
    <2>2. ASSUME NEW c \in Calls, Departs(c) PROVE InLine' /\ Tails' /\ Started'
      BY <2>2, LineDeparts
    <2>3. ASSUME NEW c \in Calls, Start(c), UNCHANGED queue PROVE InLine' /\ Tails' /\ Started'
      <3>1. /\ phase[c] = "queued" /\ Granted(c) /\ UNCHANGED <<queue, tails, prev>>
            /\ \A d \in Calls : /\ phase'[d] = IF d = c THEN "held" ELSE phase[d]
                                /\ work'[d] = IF d = c THEN "running" ELSE work[d]
        BY <2>3 DEF Start, TypeOK
      <3>2. InLine' /\ Tails'
        BY <3>1, LineStays DEF Chained
      <3> QED BY <3>1, <3>2 DEF Started
    <2>4. ASSUME NEW c \in Calls, Touch(c), UNCHANGED queue PROVE InLine' /\ Tails' /\ Started'
      <3>1. UNCHANGED <<queue, tails, prev, phase, work>>
        BY <2>4 DEF Touch
      <3>2. InLine' /\ Tails'
        BY <3>1, LineStays DEF Chained
      <3> QED BY <3>1, <3>2 DEF Started
    <2>5. ASSUME NEW c \in Calls, WorkSettles(c), UNCHANGED queue PROVE InLine' /\ Tails' /\ Started'
      <3>1. /\ work[c] = "running" /\ UNCHANGED <<queue, tails, prev>>
            /\ \A d \in Calls : /\ phase'[d] \in {phase[d], IF d = c /\ ~timedOut[c] THEN "leaving" ELSE phase[d]}
                                /\ work'[d] = IF d = c THEN "settled" ELSE work[d]
        BY <2>5 DEF WorkSettles, TypeOK
      <3>2. phase[c] \notin {"idle", "queued"}
        BY <3>1 DEF Started
      <3>3. timedOut[c] \/ phase[c] = "held"
        BY <2>5 DEF WorkSettles, HoldInv
      <3>4. InLine' /\ Tails'
        BY <3>1, <3>2, <3>3, LineStays DEF Chained
      <3> QED BY <3>1, <3>2, <3>4 DEF Started
    <2>6. ASSUME NEW c \in Calls, Expire(c), UNCHANGED queue PROVE InLine' /\ Tails' /\ Started'
      <3>1. /\ UNCHANGED <<queue, tails, prev, work>>
            /\ \A d \in Calls : phase'[d] = IF d = c /\ phase[c] = "held" THEN "leaving" ELSE phase[d]
        BY <2>6 DEF Expire, TypeOK
      <3>2. InLine' /\ Tails'
        BY <3>1, LineStays DEF Chained
      <3> QED BY <3>1, <3>2 DEF Started
    <2>7. CASE UNCHANGED <<tails, prev, phase, work, queue>>
      <3>1. InLine' /\ Tails'
        BY <2>7, LineStays DEF Chained
      <3> QED BY <2>7, <3>1 DEF Started
    <2>8. Tick /\ UNCHANGED queue => UNCHANGED <<tails, prev, phase, work, queue>>
      BY DEF Tick
    <2>9. UNCHANGED <<vars, queue>> => UNCHANGED <<tails, prev, phase, work, queue>>
      BY DEF vars
    <2> QED BY <2>1, <2>2, <2>3, <2>4, <2>5, <2>6, <2>7, <2>8, <2>9 DEF QueueNext, Stays
  <1> QED BY <1>1, <1>2 DEF LineInv

\* The line is a history: what holds of the lock holds of the lock with it.
LEMMA QueueIsLock == QueueSpec => Spec
  <1>1. QueueInit => Init
    BY DEF QueueInit
  <1>2. [QueueNext]_<<vars, queue>> => [Next]_vars
    BY DEF QueueNext, Arrives, Departs, Stays, Next
  <1> QED BY <1>1, <1>2, PTL DEF QueueSpec, Spec

LEMMA LineInitial == QueueInit => LineInv
  <1> SUFFICES ASSUME QueueInit PROVE LineInv
    OBVIOUS
  <1>1. IInv
    BY Initial DEF QueueInit
  <1>2. /\ \A k \in Keys : queue[k] = <<>> /\ Len(queue[k]) = 0 /\ Places(k) = {}
        /\ queue \in [Keys -> Seq(Calls)]
    BY DEF QueueInit, Places
  <1>3. \A c \in Calls : phase[c] = "idle" /\ work[c] = "none"
    BY DEF QueueInit, Init
  <1>4. \A k \in Keys : tails[k] = None
    BY DEF QueueInit, Init
  <1> QED BY <1>1, <1>2, <1>3, <1>4 DEF LineInv, InLine, Tails, Started, Chained

\* Every step of the lock is a step of the queue, or none.
LEMMA StepsAsQueue ==
    ASSUME LineInv, [QueueNext]_<<vars, queue>>
    PROVE  [Line!AbsNext]_(Line!absVars)
  <1> DEFINE granted == {c \in Calls : work[c] # "none"}
  <1> USE DEF LineInv, IInv
  <1>1. ASSUME NEW c \in Calls, Arrives(c) PROVE Line!Join(c)
    <2>1. /\ phase[c] = "idle" /\ work' = work
          /\ queue' = [queue EXCEPT ![KeyOf[c]] = Append(@, c)]
      BY <1>1 DEF Arrives, WithLock
    <2>2. c \notin granted
      BY <2>1 DEF Started
    <2>3. \A i \in 1..Len(queue[KeyOf[c]]) : queue[KeyOf[c]][i] # c
      BY <2>1, KeyOfAssumption DEF InLine, Places, Chained
    <2> QED BY <2>1, <2>2, <2>3 DEF Line!Join, Line!InQueue
  <1>2. ASSUME NEW c \in Calls, Departs(c) PROVE Line!Drop(c)
    <2>1. /\ phase[c] = "leaving" /\ work' = work
          /\ queue' = [queue EXCEPT ![KeyOf[c]] = Tail(@)]
      BY <1>2 DEF Departs, Leave
    <2>2. Head(queue[KeyOf[c]]) = c /\ queue[KeyOf[c]] # <<>>
      BY <2>1, GrantedIsHead DEF Chained
    <2>3. c \in granted
      BY <2>1 DEF Started
    <2> QED BY <2>1, <2>2, <2>3 DEF Line!Drop, Line!IsHead
  <1>3. ASSUME NEW c \in Calls, Start(c), UNCHANGED queue PROVE Line!Grant(c)
    <2>1. /\ phase[c] = "queued" /\ Granted(c) /\ work' = [work EXCEPT ![c] = "running"]
      BY <1>3 DEF Start
    <2>2. Head(queue[KeyOf[c]]) = c /\ queue[KeyOf[c]] # <<>>
      BY <2>1, GrantedIsHead DEF Chained
    <2>3. c \notin granted
      BY <2>1 DEF Started
    <2>4. granted' = granted \cup {c}
      BY <2>1 DEF TypeOK
    <2> QED BY <1>3, <2>2, <2>3, <2>4 DEF Line!Grant, Line!IsHead
  <1>4. ASSUME NEW c \in Calls, Touch(c) \/ WorkSettles(c) \/ Expire(c), UNCHANGED queue
        PROVE  UNCHANGED <<queue, granted>>
    <2>1. UNCHANGED work \/ (work[c] = "running" /\ work' = [work EXCEPT ![c] = "settled"])
      BY <1>4 DEF Touch, WorkSettles, Expire
    <2> QED BY <1>4, <2>1 DEF TypeOK
  <1>5. (Tick /\ UNCHANGED queue) \/ UNCHANGED <<vars, queue>> => UNCHANGED <<queue, granted>>
    BY DEF Tick, vars
  <1> QED BY <1>1, <1>2, <1>3, <1>4, <1>5
          DEF QueueNext, Stays, Line!AbsNext, Line!absVars

\* The chain of promises is a FIFO queue per key: calls are given a session in
\* the order in which they asked for it, one at a time, and a lease that
\* expired lets the next one in and no other (withLock).
THEOREM ImplementsFifo == QueueSpec => FifoGrant
  <1>1. QueueInit => Line!AbsInit
    BY DEF QueueInit, Init, Line!AbsInit
  <1> QED BY <1>1, LineInitial, LineInductive, StepsAsQueue, PTL
          DEF QueueSpec, FifoGrant, Line!AbsSpec
-----------------------------------------------------------------------------
(* A waiting call is never left with a chain that nobody moves. *)

\* The lease of a hold runs, and only a hold that was rejected has timed out.
Leased ==
    /\ \A c \in Calls : phase[c] = "held" => timer[c] # Off
    /\ \A c \in Calls : timedOut[c] => phase[c] \in {"leaving", "released"}

\* What becomes of h is up to the event loop, whatever its work does.
Moves(h) ==
    \/ phase[h] = "queued" /\ Granted(h)
    \/ phase[h] = "leaving"
    \/ phase[h] = "held" /\ timer[h] # Off

SomeoneMoves ==
    \A c \in Calls : phase[c] = "queued" => \E h \in Calls : KeyOf[h] = KeyOf[c] /\ Moves(h)

\* Every step keeps the lease of a hold running: a heartbeat arms it again, and
\* what stops it ends the hold.
LEMMA LeasedStep == IInv /\ Leased /\ [Next]_vars => Leased'
  <1> SUFFICES ASSUME IInv, Leased, [Next]_vars
               PROVE  Leased'
    OBVIOUS
  <1> USE LeaseAssumption DEF IInv, HoldInv, TypeOK, Leased, Off
  <1>1. ASSUME NEW c \in Calls, WithLock(c) \/ Start(c) \/ Leave(c) PROVE Leased'
    BY <1>1 DEF WithLock, Start, Leave
  <1>2. ASSUME NEW c \in Calls, Touch(c) PROVE Leased'
    BY <1>2 DEF Touch
  <1>3. ASSUME NEW c \in Calls, WorkSettles(c) PROVE Leased'
    BY <1>3 DEF WorkSettles
  <1>4. ASSUME NEW c \in Calls, Expire(c) PROVE Leased'
    <2>1. phase[c] \notin {"idle", "queued"} /\ phase[c] \in Phases
      BY <1>4 DEF Expire
    <2> QED BY <1>4, <2>1 DEF Expire, Phases
  <1>5. CASE Tick
    <2>1. \A c \in Calls : timer[c] # Off => timer'[c] \in 0..Lease
      BY <1>5 DEF Tick
    <2> QED BY <1>5, <2>1 DEF Tick
  <1>6. CASE UNCHANGED vars
    BY <1>6 DEF vars
  <1> QED BY <1>1, <1>2, <1>3, <1>4, <1>5, <1>6 DEF Next

\* Whenever a call waits for its key, some call of the key starts, leaves, or
\* holds it under a lease that runs: a hold is never parked without its timer, and
\* the chain never ends in a call that nobody resolves.  What is left to the
\* event loop is NoWedge.
THEOREM NobodyIsWedged == QueueSpec => []SomeoneMoves
  <1>1. Init => Leased
    BY DEF Init, Leased
  <1>2. Spec => []Leased
    BY <1>1, InductiveInvariant, LeasedStep, PTL DEF Spec
  <1>3. LineInv /\ Leased => SomeoneMoves
    <2> SUFFICES ASSUME LineInv, Leased, NEW c \in Calls, phase[c] = "queued"
                 PROVE  \E h \in Calls : KeyOf[h] = KeyOf[c] /\ Moves(h)
      BY DEF SomeoneMoves
    <2> DEFINE k == KeyOf[c]
    <2>1. k \in Keys /\ queue[k] \in Seq(Calls)
      BY KeyOfAssumption DEF LineInv, InLine
    <2>2. PICK i \in Places(k) : queue[k][i] = c
      BY DEF LineInv, InLine, Chained
    <2>3. 1 \in Places(k)
      BY <2>1, <2>2 DEF Places
    <2>4. PICK h \in Calls : h = queue[k][1]
      BY <2>1, <2>3 DEF Places
    <2>5. KeyOf[h] = k /\ Chained(h) /\ Granted(h)
      BY <2>1, <2>3, <2>4 DEF LineInv, InLine
    <2> QED BY <2>5 DEF Chained, Moves, Leased
  <1>4. QueueSpec => []LineInv
    BY LineInitial, LineInductive, PTL DEF QueueSpec
  <1> QED BY <1>2, <1>3, <1>4, QueueIsLock, PTL
=============================================================================
