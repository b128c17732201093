CONSTANTS
    Total <- MCTotal
    Batch <- MCBatch
    MaxSkips = 1
    MaxFaults = 3
SPECIFICATION FairSpec
INVARIANTS
    CompleteMeansAll
    ServersAreStopped
PROPERTIES
    ResumesToTheEnd
CHECK_DEADLOCK FALSE
