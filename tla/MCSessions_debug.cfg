\* One request at a time, in debug mode.
SPECIFICATION SessionsSpec
CONSTANTS
    Procs = {g1}
    Keys = {nil, k1}
    Users = {1}
    DebugMode = TRUE
    NilKey = nil
    NoProc = NoProc
    NoKey = NoKey
    Nobody = Nobody
INVARIANT DebugServes
