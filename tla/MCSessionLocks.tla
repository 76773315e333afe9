--------------------------- MODULE MCSessionLocks ---------------------------
(***************************************************************************)
(* TLC instance of SessionLocks and its waiting line: three calls contend  *)
(* for one session and a fourth uses another.                              *)
(***************************************************************************)
EXTENDS SessionLocksQueue, TLC

CONSTANTS c1, c2, c3, c4, s1, s2

MCKeys  == {s1, s2}
MCCalls == {c1, c2, c3, c4}
MCKeyOf == (c1 :> s1) @@ (c2 :> s1) @@ (c3 :> s1) @@ (c4 :> s2)
=============================================================================
