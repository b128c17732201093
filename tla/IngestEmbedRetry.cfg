CONSTANTS
    j1 = j1
    j2 = j2
    k1 = k1
    Jobs = {j1}
    Kbs = {k1}
    KbOf <- OneKb
    EmptyDocs = {}
    MaxAttempts = 5
    FaultPoints <- EmbedderCall
    MaxFaults = 1
    CrashPoints = {}
    MaxCrashes = 0
    MaxRequeues = 0
    DeletedBy = {}
SPECIFICATION FairSpec
PROPERTIES
    TransientFailureRecovers
CHECK_DEADLOCK FALSE
