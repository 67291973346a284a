\* Two commands on one database and a browser with overlapping requests.
CONSTANTS
    Processes = {p1, p2}
    Emails = {a1, a2}
    Slugs = {o1, o2}
    NumMigrations = 2
    Refusals <- SecondOrNone
    None = None
    Browsers = {b1}
    Requests <- OrderedRequests
    TTL = 1
    MaxClock = 1
SYMMETRY Symmetric
CONSTRAINT Bounds
SPECIFICATION Spec
INVARIANTS
    TypeOK
    OneWholeInstallation
    RepliesAreTrue
    SchemaFirst
    CookiesAreBacked
    SequentialBrowsersAreNotForbidden
PROPERTIES
    LoggedOutStaysOut
    NotServedAfterExpiry
    SessionsEndForAReason
