\* The store with every kind of failure, each within its bound.
SPECIFICATION FairSpec
CONSTANTS
    MaxRecords = 3
    QueueMax   = 2
    BatchSize  = 2
    DrainMax   = 1
    Poison     = {}
    MaxOutages = 1
    MaxStops   = 1
    MaxFaults  = 1
INVARIANTS PipelineOrder BoundedDuplication
PROPERTIES NoLossWhileUp KeepsPromise QueueDrains SpoolDrains
