---------------------------- MODULE MCAgentCalls ----------------------------
(* Calls with and without retry, with the results of MCRetryOrchestrator.  *)
EXTENDS AgentCalls, MCRetryOrchestrator
=============================================================================
