CONSTANTS
    r1 = r1
    k1 = k1
    n1 = n1
    Star = Star
    Requests = {r1}
    Keys = {k1}
    MaxKbs = 2
    Name <- SameName
SPECIFICATION Spec
INVARIANTS
    AnswersWithinAcl
    LateKeyIsRefused
    UseIsRecorded
PROPERTIES
    RevokedStaysRevoked
