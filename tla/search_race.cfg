SPECIFICATION Spec
CONSTANTS
    r1 = r1
    r2 = r2
    r3 = r3
    Requests = {r1, r2, r3}
    TargetIds = {"t1", "t2"}
    Targets = {"t1", "t2"}
    Queries = {"alice", "ALICE"}
    Disallowed = {}
    CacheKey <- MCCacheKey
    Contents = {"x", "y"}
    Wide = {}
    Matches <- MCMatchesLean
    PageSize = 2
    Totals = {1}
    InitBalance = 3
    MaxBalance = 0
    Threshold = 0
    Surfaces = {"v1", "ui"}
    Faults = {}
    MaxInFlight = 3
    NoSearch = NoSearch
SYMMETRY MCSymmetry
INVARIANTS
    AnsweredComplete
    ViewConsistent
