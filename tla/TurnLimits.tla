----------------------------- MODULE TurnLimits -----------------------------
(* What bounds a turn, seen from the agent loop and from its provider. *)
CONSTANT MaxToolTurns  \* limits.max_tool_turns
=============================================================================
