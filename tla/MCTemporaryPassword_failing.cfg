SPECIFICATION Spec
CONSTANTS
    Threads = {t1, t2}
    Perms = {a}
    NoPerm = NoPerm
    MaxFailures = 2
    MaxPasswords = 4
    Window = FALSE
    FilesFail = TRUE
CHECK_DEADLOCK FALSE
SYMMETRY Symmetry
INVARIANTS
    MadeUpIsNeverSaved
