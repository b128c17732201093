CONSTANTS
    d1 = d1
    d2 = d2
    d3 = d3
    w1 = w1
    c1 = c1
    c2 = c2
    c3 = c3
    q1 = q1
    NotCached = NotCached
    Uploads = {d1, d2, d3}
    WorkerDocs = {}
    ContentOf <- SameContent
    Wordless = {d3}
    Queries = {q1}
    Threads = 1
    AdminDeletes = {}
    FaultPoints = {"embed", "upsert", "delete"}
    MaxFaults = 1
    MaxCrashes = 1
SPECIFICATION Spec
INVARIANTS
    OneDocumentPerContent
    CachesAreFresh
    HitsHaveContext
PROPERTIES
    MeetsContract
CHECK_DEADLOCK FALSE
