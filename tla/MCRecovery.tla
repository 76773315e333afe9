----------------------------- MODULE MCRecovery -----------------------------
(***************************************************************************)
(* TLC instance of Recovery: two sweeps and two drains of one session.     *)
(***************************************************************************)
EXTENDS Recovery, TLC

CONSTANTS p1, p2, d1, d2

MCPasses == {p1, p2}
MCDrains == {d1, d2}
=============================================================================
