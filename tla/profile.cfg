SPECIFICATION Spec
CONSTANTS
    w1 = w1
    w2 = w2
    w3 = w3
    Writers = {w1, w2, w3}
    Entries <- MCEntries
    MaxRows = 3
    AuditLimit = 2
SYMMETRY MCSymmetry
INVARIANTS
    TypeOK
    ProfileTellsExposures
    GraphIsStar
PROPERTIES
    EvidenceGrows
    ListsOnlyExtend
    AuditOnlyMovesDown
