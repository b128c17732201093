CONSTANTS
    q1 = q1
    q2 = q2
    Threads = {q1, q2}
    MaxKbs = 2
    MaxDocs = 1
    MaxAnns = 1
    PageSize = 1
SYMMETRY Symmetry
SPECIFICATION Spec
INVARIANTS
    DeletionIsRecorded
    OneDeletionSucceeds
    QuietDeletionIsComplete
    RestsOnAPage
PROPERTIES
    DeletedStaysDeleted
