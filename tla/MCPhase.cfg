\* One chore of each timing, a fix budget of one or none, two attempts, two acts.
SPECIFICATION FairSpec
CONSTANTS
    Unlimited = Unlimited
    MaxFixRounds = 1
    Limits <- MCLimits
    Reviews = 1
    Polish = 1
    AfterPr = 1
    Fatal = {"polish"}
    StepTo = {"fix", "review", "integrate"}
    MaxAttempts = 2
    MaxOps = 2
    MaxFalls = 1
    MaxAsks = 1
INVARIANTS
    MergedAsApproved
    OneWayOut
    CutTurnsRunAgain
PROPERTIES
    UnattendedEnds
