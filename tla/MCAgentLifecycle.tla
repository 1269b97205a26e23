-------------------------- MODULE MCAgentLifecycle --------------------------
(* AgentLifecycle for TLC: one subject owns every agent.                   *)
EXTENDS AgentLifecycle, TLC

CONSTANT user

MCSubjectOf == [a \in Agents |-> user]
RequestSymmetry == Permutations(Requests)
=============================================================================
