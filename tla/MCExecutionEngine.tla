------------------------- MODULE MCExecutionEngine -------------------------
(* Values for TLC that a .cfg cannot write down.                            *)
EXTENDS ExecutionEngine

CONSTANTS a1, a2, a3

\* a1 falls back to a2; the agent a user may pick falls back to a1.
MCFallbacks == [a \in Agent |-> CASE a = a1 -> <<a2>> [] a = a2 -> <<>> [] OTHER -> <<a1>>]

AllOutcomes == [status : {"completed", "failed"}, complete : BOOLEAN]
=============================================================================
