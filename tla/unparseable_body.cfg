SPECIFICATION Spec
CONSTANTS
    c1 = c1
    c2 = c2
    c3 = c3
    Calls = {c1}
    MaxRetries = 2
    InitBalance = 1
    MaxBalance = 1
INVARIANT
    UnparseableIsDomainError
