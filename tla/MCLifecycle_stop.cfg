\* Two requests at a time, over every database.
SPECIFICATION FairSpec
CONSTANTS
    Requests = {r1, r2}
    Databases <- PreparedDatabases
INVARIANTS
    TypeOK
    ServesWholeSchema
    CutMeansTimedOut
PROPERTIES
    SchemaChangesWhole
    SignalEndsProcess
