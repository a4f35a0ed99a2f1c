SPECIFICATION Spec
CONSTANTS
    Keys = {"k1"}
    BadKeys = {"short"}
    Targets = {"t1"}
    Queries = {"alice"}
    Entries = {"x", "y"}
    Secretive = {"x"}
    Page <- MCPage
    Plain = "plain"
    Null = "null"
    NoKey = "nokey"
INVARIANTS
    StoredRowsReadable
