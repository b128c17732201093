CONSTANTS
    site = site
    down = down
    c1 = c1
    private = private
    public = public
    a = a
    b = b
    Hosts = {site, down}
    Addresses = {public, private}
    Is <- MCIs
    Allowlist = {}
    Dotless = {}
    Above <- MCAbove
    Unreachable = {down}
    Pages = {a, b}
    MaxRedirects = 1
    Url <- MCDownUrl
    Directory <- MCDirectory
    Crawls = {c1}
    MaxOthers = 0
    MaxFaults = 0
SPECIFICATION FairSpec
PROPERTIES
    DueIsVisited
CHECK_DEADLOCK FALSE
