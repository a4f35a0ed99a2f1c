SPECIFICATION Spec
CONSTANTS
    r1 = r1
    r2 = r2
    r3 = r3
    Requests = {r1, r2, r3}
    TargetIds = {"t1", "t2", "t3"}
    Targets = {"t1", "t2", "t3"}
    Queries = {"alice"}
    Disallowed = {}
    CacheKey <- MCCacheKey
    Contents = {"x", "y"}
    Wide = {}
    Matches <- MCMatchesOne
    PageSize = 1
    Totals = {0}
    InitBalance = 4
    MaxBalance = 4
    Threshold = 0
    Surfaces = {"v1"}
    Faults = {}
    MaxInFlight = 1
    NoSearch = NoSearch
SYMMETRY MCSymmetry
INVARIANTS
    NoDuplicateRows
