\* Two requests at a time over two connections, two orders in all.
SPECIFICATION Spec
CONSTANTS
    Procs = {g1, g2}
    Conn = {c1, c2}
    NoConn = NoConn
    Users = {1}
    Bodies <- MCBodies
    Lists <- MCLists
    MaxInt4 = 1
    MaxOrders = 2
    MaxProducts = 2
SYMMETRY ProcConnSymmetry
INVARIANTS
    TypeOK
    AllOrNothing
    RefusedMeansAbsent
    TxHasOwner
    LostOrderMeansLostConnection
    OpenRowsAreClosed
PROPERTIES
    ImplementsOrderBook
