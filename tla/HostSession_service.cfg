SPECIFICATION FairSpec
CONSTANTS
    Conns = {c1}
    MaxLoginAttempts = 5
    MaxTwoFaAttempts = 5
    Service = TRUE
INVARIANTS
    ConsentBeforeSession
PROPERTIES
    OneDialogPerConnection
    DialogCloses
CHECK_DEADLOCK FALSE
