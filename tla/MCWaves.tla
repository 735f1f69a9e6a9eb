------------------------------ MODULE MCWaves ------------------------------
EXTENDS Waves, TLC

CONSTANTS a, b, c, d, e

\* Two phases side by side, one on each of the waves above, and one an amendment
\* adds to the second wave.
MCWave == a :> 1 @@ b :> 1 @@ c :> 2 @@ d :> 3 @@ e :> 2
MCDeps == a :> {} @@ b :> {} @@ c :> {a} @@ d :> {b, c} @@ e :> {a}
MCBudget == [events |-> 1, faults |-> 1]
=============================================================================
