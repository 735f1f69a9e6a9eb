\* Three runs and one slot, with every interleaving of their system calls.
CONSTANTS
    a = a
    b = b
    c = c
    NoProc = NoProc
    Proc = {a, b}
    Slots = {0}
    Capacity <- SingleSlot
    MaxHold = 2
    Me = a
SPECIFICATION HSSpec
INVARIANTS OneHolder
