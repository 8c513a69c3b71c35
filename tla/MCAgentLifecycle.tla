-------------------------- MODULE MCAgentLifecycle --------------------------
(* AgentLifecycle with interchangeable identities.                         *)
EXTENDS AgentLifecycle, TLC

IdSymmetry == Permutations(Ids)
=============================================================================
