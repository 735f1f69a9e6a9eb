\* Two wakes for a phase with three events, a gate that costs, and a logged error.
SPECIFICATION WakeFairSpec
CONSTANTS
    WakeBudget = 2
    MaxLog = 3
    MaxCost = 1
    MaxErrors = 1
    MaxActs = 2
INVARIANTS
    ToldOnce
    WithinBudget
PROPERTIES
    TroubleIsTold
