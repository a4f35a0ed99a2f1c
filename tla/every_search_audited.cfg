SPECIFICATION Spec
CONSTANTS
    r1 = r1
    r2 = r2
    r3 = r3
    Requests = {r1, r2}
    TargetIds = {"t1", "t2"}
    Targets = {"t1", "t2"}
    Queries = {"alice"}
    Disallowed = {}
    CacheKey <- MCCacheKey
    Contents = {"x", "y"}
    Wide = {}
    Matches <- MCMatchesOne
    PageSize = 1
    Totals = {0}
    InitBalance = 2
    MaxBalance = 2
    Threshold = 1
    Surfaces = {"v1"}
    Faults = {}
    MaxInFlight = 2
    NoSearch = NoSearch
SYMMETRY MCSymmetry
INVARIANTS
    EverySearchAudited
