\* One session whose clients retry a request that is not answered yet.
CONSTANTS
    t1 = t1
    h1 = h1
    h2 = h2
    lane = lane
    Turn = {t1}
    Hop = {h1, h2}
    MaxWait = 4
    Other = {lane}
    Capacity = 1
SPECIFICATION FairSpec
INVARIANTS NoOrphanedCapacity
PROPERTIES ImplementsAtomicLeases EveryPlaceSettles
