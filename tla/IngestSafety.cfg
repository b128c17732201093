CONSTANTS
    j1 = j1
    j2 = j2
    k1 = k1
    Jobs = {j1}
    Kbs = {k1}
    KbOf <- OneKb
    EmptyDocs = {}
    MaxAttempts = 5
    FaultPoints <- StageCalls
    MaxFaults = 2
    CrashPoints <- AnyProcess
    MaxCrashes = 1
    MaxRequeues = 1
    DeletedBy = {"api", "admin", "kb"}
SPECIFICATION FairSpec
INVARIANTS
    TypeOK
    ReadyMeansIndexed
    ArtifactsBackStage
    EndIsRecorded
    NoRowsWithoutDocument
PROPERTIES
    ChainEnds
CHECK_DEADLOCK FALSE
