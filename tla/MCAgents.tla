------------------------------ MODULE MCAgents ------------------------------
(***************************************************************************)
(* TLC instance of Agents: a research team of two with a synthesizer as    *)
(* its follow-on, and an agent spawned alone.                              *)
(***************************************************************************)
EXTENDS Agents, TLC

CONSTANTS alone, research, scout, reader, synth

MCMembers  == [t \in Teams |-> <<scout, reader>>]
MCFollowOn == [t \in Teams |-> synth]
=============================================================================
