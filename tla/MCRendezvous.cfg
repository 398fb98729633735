SPECIFICATION FairSpec
CONSTANTS
    v1 = v1
    v2 = v2
    Viewers = {v1, v2}
    None = None
    Attempts <- MCAttempts
    MaxBreaks = 1
INVARIANTS TypeOK OneStream
PROPERTIES AttemptSucceeds NothingLeftOnHost
CHECK_DEADLOCK FALSE
