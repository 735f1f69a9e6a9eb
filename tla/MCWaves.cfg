\* Three waves over two roots, and a phase added to the second.
SPECIFICATION FairSpec
CONSTANTS
    a = a
    b = b
    c = c
    d = d
    e = e
    None = None
    Nodes = {a, b, c, d, e}
    Late = {e}
    Wave <- MCWave
    Deps <- MCDeps
    Budget <- MCBudget
INVARIANTS
    DoneIsBuilt
    OnlyArrived
PROPERTIES
    BuiltOnPassing
    TurnComes
CHECK_DEADLOCK FALSE
