SPECIFICATION FairSpec
CONSTANTS
    Nodes = {n1, n2}
    Values = 2
    QueueSize = 2
    MaxMisses = 2
    MaxChanges = 2
    MaxOutages = 1
INVARIANTS
    RecordShowsSnapshot
    SnapshotOfSession
PROPERTIES
    Converges
    MuteSessionEnds
CHECK_DEADLOCK FALSE
