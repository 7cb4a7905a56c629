SPECIFICATION FairSpec
CONSTANTS
    Pollers = {p1, p2}
    Writers = {w1}
    Nodes <- KrlNodes
    Attempts = 2
    MaxTrouble = 2
INVARIANTS
    OneSession
    ErrorMeansTrouble
    WriteReachesOneNode
PROPERTIES
    WritesRecover
    CellConverges
