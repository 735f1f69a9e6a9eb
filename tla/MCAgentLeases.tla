--------------------------- MODULE MCAgentLeases ---------------------------
(* Instances of AgentLeases for TLC. *)
EXTENDS AgentLeases

CONSTANTS t1, h1, h2, lane
=============================================================================
