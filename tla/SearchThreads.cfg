CONSTANTS
    d1 = d1
    d2 = d2
    d3 = d3
    w1 = w1
    c1 = c1
    c2 = c2
    c3 = c3
    q1 = q1
    NotCached = NotCached
    Uploads = {d1}
    WorkerDocs = {w1}
    ContentOf <- OwnContent
    Wordless = {w1}
    Queries = {q1}
    Threads = 3
    AdminDeletes = {d1}
    FaultPoints = {"embed", "upsert", "delete"}
    MaxFaults = 1
    MaxCrashes = 1
SPECIFICATION Spec
INVARIANTS
    CompletedUploadIsFound
    ReadyHasVectors
PROPERTIES
    PromisedIsSearchable
CHECK_DEADLOCK FALSE
