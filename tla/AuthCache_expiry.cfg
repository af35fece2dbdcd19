\* One goroutine and one session.
SPECIFICATION FairSpec
CONSTANTS
    Procs = {g1}
    NoProc = NoProc
    Keys = {k1}
    NoKey = NoKey
    Users = {1}
    Nobody = Nobody
PROPERTY CheckReturns
CHECK_DEADLOCK FALSE
