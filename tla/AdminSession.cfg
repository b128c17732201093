CONSTANTS
    t1 = t1
    t2 = t2
    b1 = b1
    c1 = c1
    Tabs = {t1, t2}
    Browsers = {b1}
    BrowserOf <- OneBrowser
    Chosen = {c1}
    MaxLogins = 2
    MaxChanges = 1
    MaxStarts = 2
    MaxExpired = 1
    CrashPoints = {"up"}
SYMMETRY Symmetry
SPECIFICATION Spec
INVARIANTS
    OldSessionsAreRevoked
    LateSessionIsRefused
    InitialFileIsValid
    FreshTabIsAccepted
