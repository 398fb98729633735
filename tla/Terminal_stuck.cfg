SPECIFICATION FairSpec
CONSTANTS
    Capacity = 2
    MaxChunks = 3
    MaxEchoes = 0
    Programs = FALSE
PROPERTIES
    ShutdownEnds
CHECK_DEADLOCK FALSE
