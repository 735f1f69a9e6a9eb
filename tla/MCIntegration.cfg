\* Two turns on two branches, with everything that does not queue around them.
SPECIFICATION FairSpec
CONSTANTS
    a = a
    b = b
    base = base
    integ = integ
    wave = wave
    None = None
    Phases = {a, b}
    Base = base
    Branches = {integ, wave}
    Under <- MCUnder
    Rest <- MCRest
    MaxFixRounds = 1
    Budget <- MCBudget
INVARIANTS
    HandedOutWhole
    CommittedIsJudged
    StandsOnlyWhenToldSo
PROPERTIES
    TakenDownIsKept
    TurnEnds
CHECK_DEADLOCK FALSE
