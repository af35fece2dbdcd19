\* Two requests at a time, two sessions of two users.  The check of an expired
\* session waits for itself, so the system may stop.
SPECIFICATION SessionsSpec
CONSTANTS
    Procs = {g1, g2}
    Keys = {k1, k2}
    Users = {1, 2}
    DebugMode = FALSE
    NilKey = NilKey
    NoProc = NoProc
    NoKey = NoKey
    Nobody = Nobody
SYMMETRY ProcKeySymmetry
INVARIANTS
    TypeOK
    AnswerIsOwnerOrNone
    NoAnswerWhenLate
    LockExact
    OnlyExpiryDeadlocks
    SessionsTypeOK
PROPERTIES
    ImplementsSessionLife
    EndedIsRefused
    ServedAsOwner
    GoodIsServed
CHECK_DEADLOCK FALSE
