SPECIFICATION FairPageSpec
CONSTANTS
    MaxJobs = 2
    MaxPoints = 2
    Slots = 2
    FullLimit = 1
    LiveLimit = 1
    MaxEvents = 2
    MaxTrouble = 1
INVARIANTS
    ShowsJob
PROPERTIES
    FollowsLive
CHECK_DEADLOCK FALSE
