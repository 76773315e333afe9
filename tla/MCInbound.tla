------------------------------ MODULE MCInbound ------------------------------
(***************************************************************************)
(* TLC instances of Inbound: one session, and every row routes to it.      *)
(***************************************************************************)
EXTENDS Inbound, TLC

CONSTANTS dm, s1, s2

MCKeys   == {dm}
MCKeyOf  == [r \in Rows |-> dm]
OneSlot  == {s1}
TwoSlots == {s1, s2}

\* What the instances let happen.
Ordinary  == {"barge", "drop", "regate", "fail"}
NoExpiry  == Events \ {"expire"}
Anything  == Events
=============================================================================
