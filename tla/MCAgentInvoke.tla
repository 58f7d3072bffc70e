---------------------------- MODULE MCAgentInvoke ----------------------------
(* AgentInvoke on small instances. *)
EXTENDS AgentInvoke, TLC

CONSTANTS i1, i2, i3
MCItems  == {i1, i2, i3}
Symmetry == Permutations(MCItems)
=============================================================================
