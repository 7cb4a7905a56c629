SPECIFICATION FairSpec
CONSTANTS
    Devices = {kuka}
    System = system
    Limit = 2
    SeedLimit = 1
    Skew = 1
    MaxRows = 3
    MaxTick = 2
    MaxDrops = 1
INVARIANTS
    NoGap
PROPERTIES
    NeverBackwards
    CatchesUp
    DeadLineFound
