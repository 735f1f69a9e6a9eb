-------------------------- MODULE MCResourcePools --------------------------
(* An instance of ResourcePools for TLC: a lane pool that grows and a        *)
(* host-scoped pool other runs compete for.                                  *)
EXTENDS ResourcePools

CONSTANTS h1, h2, h3, lane, gpu

MCHostNeeds == {{lane}, {lane, gpu}}
OneEach == [p \in Pool |-> 1]
=============================================================================
