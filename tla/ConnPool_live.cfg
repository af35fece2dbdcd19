\* Three handlers over a pool of two.
SPECIFICATION FairSpec
CONSTANTS
    Handlers = {h1, h2, h3}
    Main = m
    MaxConns = 2
INVARIANTS
    TypeOK
    OneHolder
    NoConnLost
    InUseExact
    OpenedWithinHandlers
    ParkedReleaseMeansExcess
    WaiterHasProvider
PROPERTIES
    GetDBConnReturns
    ReleaseReturnsWithoutExcess
    ImplementsLease
