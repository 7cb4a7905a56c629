\* One record the table rejects, and a database that works.
SPECIFICATION FairSpec
CONSTANTS
    MaxRecords = 3
    QueueMax   = 2
    BatchSize  = 2
    DrainMax   = 2
    Poison     = {1}
    MaxOutages = 0
    MaxStops   = 0
    MaxFaults  = 0
PROPERTY HealthyRowsDrain
