--------------------------- MODULE MCAgentService ---------------------------
(* Two slots; the threads and request ids come from the configuration.     *)
EXTENDS AgentService
=============================================================================
