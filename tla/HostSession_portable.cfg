SPECIFICATION FairSpec
CONSTANTS
    Conns = {c1}
    MaxLoginAttempts = 5
    MaxTwoFaAttempts = 5
    Service = FALSE
INVARIANTS
    TypeOK
    StrayAnnouncementOnlyAfterApproval
PROPERTIES
    LoginTerminates
    RefusalEndsSession
    RefusalIsFinal
    GateSpec
CHECK_DEADLOCK FALSE
