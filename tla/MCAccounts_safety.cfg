\* Two database sessions, two users, two emails.
SPECIFICATION Spec
CONSTANTS
    Clients = {c1, c2}
    root = root
    alice = alice
    Emails = {root, alice}
    RootEmail = root
    Blank = Blank
    Null = Null
    NoRow = NoRow
    MaxUsers = 2
    Columns <- MCColumns
SYMMETRY ClientSymmetry
INVARIANTS
    TypeOK
    OneAccountPerEmail
PROPERTIES
    AdminsGrowByAdmins
    EditsAreByRight
    FetchesAreByRight
    ImplementsAccountBook
