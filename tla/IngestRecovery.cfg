CONSTANTS
    j1 = j1
    j2 = j2
    k1 = k1
    Jobs = {j1, j2}
    Kbs = {k1}
    KbOf <- OneKb
    EmptyDocs = {j2}
    MaxAttempts = 2
    FaultPoints <- RepairableCalls
    MaxFaults = 1
    CrashPoints <- ResumableCrashes
    MaxCrashes = 1
    MaxRequeues = 1
    DeletedBy = {}
SPECIFICATION AttendedSpec
PROPERTIES
    TransientFailureRecovers
    RequeueRecovers
CHECK_DEADLOCK FALSE
