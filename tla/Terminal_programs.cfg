SPECIFICATION FairSpec
CONSTANTS
    Capacity = 1
    MaxChunks = 2
    MaxEchoes = 1
    Programs = TRUE
INVARIANTS
    TypeOK
    OutputInOrder
    TakenIsShown
PROPERTIES
    ExitIsNoticed
    ShutdownEndsOrIsStuck
CHECK_DEADLOCK FALSE
