\* The first start on a new database.
SPECIFICATION Spec
CONSTANTS
    Requests = {r1}
    Databases <- EmptyDatabase
INVARIANT SchemaComesUp
