-------------------------- MODULE MCSessionPipeline --------------------------
(***************************************************************************)
(* TLC instance of SessionPipeline: one message with a short window (text) *)
(* and two with a long one (bare attachment), which the cap cuts short.    *)
(***************************************************************************)
EXTENDS SessionPipeline, TLC

CONSTANTS m1, m2, m3, f1, f2, f3, c1, c2, o1

MCMsgs     == {m1, m2, m3}
MCWindowOf == (m1 :> 1) @@ (m2 :> 2) @@ (m3 :> 2)
MCFlushes  == {f1, f2, f3}
MCCompacts == {c1, c2}
MCOthers   == {o1}
=============================================================================
