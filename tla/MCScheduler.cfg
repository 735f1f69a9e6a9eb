\* Two nodes contend for one lane and one gate; the third is deferred behind both.
SPECIFICATION FairSpec
CONSTANTS
    a = a
    b = b
    c = c
    Node <- ChainNode
    Deps <- JoinDeps
    Deferred = {c}
    Lanes = 1
    Gates = 1
    OnFailure = "retry"
    Retries = 1
    MaxOps = 2
    MaxFalls = 1
INVARIANTS
    LeasesFollowBodies
    BlockedHasCause
    SleepMissesNothing
    NoBodyLeftOver
    QuestionKeepsTimer
CHECK_DEADLOCK FALSE
PROPERTIES
    HaltDrains
