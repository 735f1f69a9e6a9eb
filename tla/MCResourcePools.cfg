\* Three holders, a lane pool that grows by one, and a host-scoped pool whose
\* machine slot other runs take and give back.
CONSTANTS
    h1 = h1
    h2 = h2
    h3 = h3
    lane = lane
    gpu = gpu
    Pool = {lane, gpu}
    Holder = {h1, h2, h3}
    NeedSets <- MCHostNeeds
    InitCapacity <- OneEach
    Growable = {lane}
    MaxCapacity = 2
    HostPool = {gpu}
    Aging = 1
SPECIFICATION FairSpec
INVARIANTS WalkIsTheLoop
PROPERTIES ImplementsAtomicLeases AgedNotPassed EveryWaitEnds
