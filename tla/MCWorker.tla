------------------------------ MODULE MCWorker ------------------------------
(***************************************************************************)
(* TLC instances of Worker.                                                *)
(***************************************************************************)
EXTENDS Worker, TLC

CONSTANTS n1, n2

TwoNotes  == {n1, n2}
SecondIsCompact == {2}
=============================================================================
