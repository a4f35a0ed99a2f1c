SPECIFICATION FairSpec
CONSTANTS
    c1 = c1
    c2 = c2
    c3 = c3
    Calls = {c1, c2, c3}
    MaxRetries = 2
    InitBalance = 2
    MaxBalance = 2
INVARIANTS
    TypeOK
    ChargedAtMostOnce
    RateAfterAllRetries
PROPERTIES
    ContractSpec
    EveryCallEnds
