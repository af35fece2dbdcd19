SPECIFICATION FairSessionsSpec
CONSTANTS
    Procs = {g1, g2}
    Keys = {k1}
    Users = {1}
    DebugMode = FALSE
    NilKey = NilKey
    NoProc = NoProc
    NoKey = NoKey
    Nobody = Nobody
PROPERTY RequestsAnswered
CHECK_DEADLOCK FALSE
