\* Three nodes at a ceiling of two, one of them asking for the smaller model;
\* refusals at spawn and mid-turn, logins lapsing, restarts at any moment.
CONSTANTS
    a = a
    b = b
    c = c
    big = big
    small = small
    Node = {a, b, c}
    Priority <- Heights
    Model = {big, small}
    NoModel = NoModel
    Want <- Wants
    Fallback <- Chained
    Configured = 2
    IncreaseAfter = 1
    SerialStart = TRUE
    Kinds = {"concurrency", "quota"}
    CanCrash = TRUE
SPECIFICATION FairSpec
INVARIANTS SlotsAccounted WaitIsDurable
PROPERTIES CriticalPathFirst NoStaleSpawn SleepersWake
