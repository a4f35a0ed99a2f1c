SPECIFICATION PooledSpec
CONSTANTS
    r1 = r1
    r2 = r2
    r3 = r3
    Requests = {r1, r2, r3}
    TargetIds = {"t1", "t2"}
    Targets = {"t1", "t2"}
    Queries = {"alice"}
    Disallowed = {}
    CacheKey <- MCCacheKey
    Contents = {"x", "y"}
    Wide = {}
    Matches <- MCMatches
    PageSize = 2
    Totals = {2}
    InitBalance = 2
    MaxBalance = 2
    Threshold = 0
    Surfaces = {"ui"}
    Faults = {"db", "crash"}
    MaxInFlight = 3
    NoSearch = NoSearch
    PoolLimit = 2
INVARIANTS
    SearchesPerKeyBounded
    FilersBounded
    ConnectionsReturn
    TransactionsBounded
PROPERTIES
    UnpooledSpec
    EveryRequestAnswered
