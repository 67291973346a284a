\* Three transactions that share keys and events, with failures and a click.
CONSTANTS
    e1 = e1  e2 = e2  e3 = e3  k1 = k1  k2 = k2
    IssueIds = {i1, i2, i3}
    EventIds = {e1, e2}
    GroupingKeys = {k1, k2}
    Requests = {r1, r2, r3}
    Items <- Retries
    Clicks = {c1}
    MaxClock = 1
    None = None
SYMMETRY Symmetric
SPECIFICATION Spec
INVARIANTS
    TypeOK
    OneIssuePerGroupingKey
    SeenColumnsAreEvents
    CountsAreBounded
    RecordedOrKnown
    OneCreatorPerKey
    SomeCallRuns
PROPERTIES
    ImplementsLedger
