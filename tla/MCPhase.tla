------------------------------- MODULE MCPhase -------------------------------
(* A phase with and without a budget. *)
EXTENDS Phase

CONSTANT MaxFixRounds

MCLimits == {MaxFixRounds, Unlimited}
=============================================================================
