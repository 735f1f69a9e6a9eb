--------------------------- MODULE MCScheduler ---------------------------
\* Small graphs for Scheduler.
EXTENDS Scheduler

CONSTANTS a, b, c

ChainNode == {a, b, c}

\* c after both a and b.
JoinDeps == [n \in ChainNode |-> IF n = c THEN {a, b} ELSE {}]
=============================================================================
