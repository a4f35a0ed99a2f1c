SPECIFICATION Spec
CONSTANTS
    Keys = {"k1", "k2"}
    BadKeys = {"short"}
    Targets = {"t1", "t2"}
    Queries = {"alice", "bob"}
    Entries = {"x", "y"}
    Secretive = {"x"}
    Page <- MCPage
    Plain = "plain"
    Null = "null"
    NoKey = "nokey"
INVARIANTS
    TypeOK
    StoredIsRecoverable
    AnsweredIsShown
PROPERTIES
    NoTextAdded
