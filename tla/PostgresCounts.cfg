\* Three events of one grouping key: EventCountIsEventRows fails.
CONSTANTS
    e1 = e1  e2 = e2  e3 = e3  k1 = k1  k2 = k2
    IssueIds = {i1, i2, i3}
    EventIds = {e1, e2, e3}
    GroupingKeys = {k1}
    Requests = {r1, r2, r3}
    Items <- SameKey
    Clicks = {}
    MaxClock = 0
    None = None
SPECIFICATION Spec
INVARIANTS
    EventCountIsEventRows
