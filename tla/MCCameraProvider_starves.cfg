SPECIFICATION Spec
CONSTANTS
    Sdks <- OnlyAravis
    MaxErrors = 3
    Pool = 3
    MaxFrames = 5
INVARIANT PipelineFilled
CHECK_DEADLOCK FALSE
