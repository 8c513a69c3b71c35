-------------------------- MODULE MCAgentServices --------------------------
(* AgentServices with two collectors, of which one hangs.                  *)
EXTENDS AgentServices

CONSTANTS cpu, gpu
MCDefaults == <<cpu, gpu>>
=============================================================================
