\* A phase recorded as integrated is there, as a comment of the source has it.
SPECIFICATION Spec
CONSTANTS
    a = a
    b = b
    base = base
    integ = integ
    wave = wave
    None = None
    Phases = {a, b}
    Base = base
    Branches = {integ, wave}
    Under <- MCUnder
    Rest <- MCRest
    MaxFixRounds = 1
    Budget <- MCBudget
PROPERTIES
    IntegratedIsThere
CHECK_DEADLOCK FALSE
