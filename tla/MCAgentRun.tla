----------------------------- MODULE MCAgentRun -----------------------------
(* Runs and documents. *)
EXTENDS AgentRun

CONSTANTS r1, a, b

=============================================================================
