SPECIFICATION FairSpec
CONSTANTS
    Clients = {c1, c2}
    MaxErrors = 2
    ShapeFits = TRUE
    MaxFrames = 2
    MaxTrouble = 2
PROPERTIES
    ClientCatchesUp
    FramesInferred
    WorkersEnd
CHECK_DEADLOCK FALSE
