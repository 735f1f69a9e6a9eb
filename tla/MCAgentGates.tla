---------------------------- MODULE MCAgentGates ----------------------------
(* Instances of AgentGates for TLC: a lint gate before a unit gate, and a    *)
(* tree the unit gate fails on.                                             *)
EXTENDS AgentGates

CONSTANTS clean, broken, lane

MCGates == <<"lint", "unit">>
MCPasses == [g \in {"lint", "unit"} |-> IF g = "lint" THEN {clean, broken} ELSE {clean}]
=============================================================================
