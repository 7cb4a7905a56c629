SPECIFICATION FairSpec
CONSTANTS
    Clients = {c1, c2}
    MaxDepth = 2
    MaxFrames = 5
INVARIANTS
    StreamInOrder
    SameStream
PROPERTIES
    ShowsLast
