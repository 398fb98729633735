SPECIFICATION Spec
CONSTANTS
    Threads = {t1}
    Perms = {a}
    NoPerm = NoPerm
    MaxFailures = 2
    MaxPasswords = 3
    Window = TRUE
    FilesFail = FALSE
CHECK_DEADLOCK FALSE
INVARIANTS
    SessionPasswordDies
