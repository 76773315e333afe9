---------------------------- MODULE MCWorkerPool ----------------------------
(***************************************************************************)
(* TLC instances of WorkerPool: a session with two turns that want         *)
(* different loadouts and a compact, and another session, under a cap of   *)
(* one.                                                                    *)
(***************************************************************************)
EXTENDS WorkerPool

CONSTANTS dm, group, plain, browser, t1, t2, t3, k

MCSession   == {dm, group}
MCCalls     == {t1, t2, t3, k}
MCSessionOf == [c \in MCCalls |-> IF c = t3 THEN group ELSE dm]
MCBindOf    == [c \in MCCalls |-> IF c = t2 THEN browser ELSE plain]
MCCompacts  == {k}
MCSlots     == 1..3
=============================================================================
