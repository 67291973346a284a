\* One event, one click and one open tab: StatusChangesReachOpenPages fails.
CONSTANTS
    e1 = e1  e2 = e2  g1 = g1  k1 = k1  k2 = k2  rel1 = rel1  n1 = n1
    h1 = h1  h2 = h2  h3 = h3
    IssueIds = {i1}
    EventIds = {e1}
    GroupingKeys = {k1}
    Releases = {}
    Names = {}
    Streams = {s1}
    Handlers = {h1}
    Envelopes <- OneEnvelope
    GeneratedIds = {}
    NumNotifiers = 0
    MaxClock = 0
    None = None
    Triages = {t1}
    MaxCrashes = 0
SPECIFICATION FairSpec
PROPERTIES
    StatusChangesReachOpenPages
