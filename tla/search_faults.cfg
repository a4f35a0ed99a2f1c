SPECIFICATION Spec
CONSTANTS
    r1 = r1
    r2 = r2
    r3 = r3
    Requests = {r1, r2}
    TargetIds = {"t1", "t2", "gone"}
    Targets = {"t1", "t2"}
    Queries = {"alice", "ALICE", "toolong", "badfield"}
    Disallowed = {"badfield"}
    CacheKey <- MCCacheKey
    Contents = {"x", "y", "wide"}
    Wide = {"toolong", "wide"}
    Matches <- MCMatchesRich
    PageSize = 2
    Totals = {0, 3}
    InitBalance = 2
    MaxBalance = 3
    Threshold = 1
    Surfaces = {"v1", "ui"}
    Faults = {"auth", "rate", "api", "raw", "nobalance", "db", "crash"}
    MaxInFlight = 2
    NoSearch = NoSearch
SYMMETRY MCSymmetry
INVARIANTS
    TypeOK
    SearchWholeOrAbsent
    RepeatIsFree
    EveryRowAsked
    RefusedLeaveNoTrace
PROPERTIES
    LedgerSpec
    UpstreamSpec
