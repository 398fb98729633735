SPECIFICATION Spec
CONSTANTS
    Threads = {t1, t2}
    Perms = {a}
    NoPerm = NoPerm
    MaxFailures = 2
    MaxPasswords = 4
    Window = FALSE
    FilesFail = FALSE
CHECK_DEADLOCK FALSE
SYMMETRY Symmetry
INVARIANTS
    TypeOK
    GuessesAreLimited
    SessionPasswordDies
