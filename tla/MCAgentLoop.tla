----------------------------- MODULE MCAgentLoop -----------------------------
(* Instances of AgentLoop: the configurations give the constants of the    *)
(* source, and runs long enough for the history to be compressed twice.    *)
EXTENDS AgentLoop
=============================================================================
