SPECIFICATION FairSpec
CONSTANTS
    Sdks <- BothSdks
    MaxErrors = 3
    Pool = 3
    MaxFrames = 5
INVARIANTS
    BuffersReturned
    NotPulledAway
PROPERTIES
    Freshest
    Released
CHECK_DEADLOCK FALSE
