\* Three runs, one of which declares two slots, with every interleaving.
CONSTANTS
    a = a
    b = b
    c = c
    NoProc = NoProc
    Proc = {a, b, c}
    Slots = {0, 1}
    Capacity <- MixedCapacity
    MaxHold = 2
    Me = b
SPECIFICATION HSFairSpec
INVARIANTS FilesAreLeases
PROPERTY DeadSlotsComeBack
