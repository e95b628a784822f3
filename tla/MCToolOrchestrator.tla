------------------------- MODULE MCToolOrchestrator -------------------------
(* The bounded instance of ToolOrchestrator: its configuration gives N, so *)
(* that every turn of three tool_use blocks is checked in every session.   *)
EXTENDS ToolOrchestrator
=============================================================================
