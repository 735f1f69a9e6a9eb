--------------------------- MODULE MCIntegration ---------------------------
EXTENDS Integration, TLC

CONSTANTS a, b, base, integ, wave

\* The base of a phase that depends on a and b, and the wave both are in.
MCUnder == (integ :> a) @@ (wave :> base)
MCRest == (integ :> <<b>>) @@ (wave :> <<a, b>>)
MCBudget == [turns |-> 2, events |-> 1]
=============================================================================
