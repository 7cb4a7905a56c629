SPECIFICATION FairSpec
CONSTANTS
    Writers = {w1}
    A = A
    B = B
    Programs <- MCPrograms
    NoProgram = none
    Snapshots <- MCSnapshots
    Dedup = 1
    MaxEvents = 4
INVARIANTS
    OneOpenJob
    PointsUnderTheirProgram
    PointsCounted
    BoundedCopies
PROPERTIES
    NoPointAfterComplete
    Recorded
CHECK_DEADLOCK FALSE
