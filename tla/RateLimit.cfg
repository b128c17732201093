CONSTANTS
    a1 = a1
    a2 = a2
    Calls = {a1, a2}
    Capacity = 1
    Cost = 1
    Refill = 1
    Margin = 1
    MaxTime = 3
    MaxBack = 1
SPECIFICATION FairSpec
INVARIANTS
    MemoryRate
    RedisRate
PROPERTIES
    ReportIsTrue
