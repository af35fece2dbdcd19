\* One login at a time.
SPECIFICATION Spec
CONSTANTS
    Clients = {c1}
    root = root
    alice = alice
    Emails = {root, alice}
    RootEmail = root
    Blank = Blank
    Null = Null
    NoRow = NoRow
    MaxUsers = 2
    Columns <- MCColumns
INVARIANT CheckAnswers
