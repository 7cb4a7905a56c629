\* The process ends after a signal.
CHECK_DEADLOCK FALSE
SPECIFICATION FairSpec
CONSTANTS
    Collectors = {esp32, schneider}
    Modbus = {schneider}
    Blocks <- ConfiguredBlocks
    esp32 = esp32
    schneider = schneider
    data = data
    hr = hr
    coil = coil
    MaxChanges = 1
    MaxTrouble = 1
INVARIANTS
    NothingLeftOpen
PROPERTIES
    RecordsResume
    SignalEnds
