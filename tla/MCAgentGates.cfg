\* Two turns of a node that fails its unit gate first, one other lane, one kill or
\* one edit while a gate is in flight (others as it pleases).
CONSTANTS
    clean = clean
    broken = broken
    lane = lane
    Tree = {clean, broken}
    Start = broken
    Gates <- MCGates
    Passes <- MCPasses
    Other = {lane}
    MaxTurn = 2
    MaxMishaps = 1
SPECIFICATION FairSpec
INVARIANTS GreenIsTrue QueuedIsWanted
PROPERTIES StallIsTrue StepsConclude
CHECK_DEADLOCK FALSE
