CONSTANTS
    site = site
    down = down
    c1 = c1
    private = private
    public = public
    a = a
    b = b
    Hosts = {site, private}
    Addresses = {public, private}
    Is <- MCIs
    Allowlist = {}
    Dotless = {}
    Above <- MCAbove
    Unreachable = {}
    Pages = {a, b}
    MaxRedirects = 1
    Url <- MCUrl
    Directory <- MCDirectory
    Crawls = {c1}
    MaxOthers = 1
    MaxFaults = 1
SPECIFICATION FairSpec
INVARIANTS
    ContactsAreChecked
    FetchedHasComeIn
    SecondOnlyByRace
    ReportHolds
PROPERTIES
    AdminDecides
    DueIsVisited
CHECK_DEADLOCK FALSE
