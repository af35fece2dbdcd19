\* One request at a time over one connection.
SPECIFICATION Spec
CONSTANTS
    Procs = {g1}
    Conn = {c1}
    NoConn = NoConn
    Users = {1}
    Bodies <- MCBodies
    Lists <- MCLists
    MaxInt4 = 1
    MaxOrders = 1
    MaxProducts = 2
INVARIANT CreatedMeansCommitted
