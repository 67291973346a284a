\* Retries, duplicates, crashes and triage around two events of one issue, or
\* every kind of item, in every order that matters.
CONSTANTS
    e1 = e1  e2 = e2  g1 = g1  k1 = k1  k2 = k2  rel1 = rel1  n1 = n1
    h1 = h1  h2 = h2  h3 = h3
    IssueIds = {i1, i2}
    EventIds = {e1, e2, g1}
    GroupingKeys = {k1, k2}
    Releases = {rel1}
    Names = {n1}
    Streams = {}
    Handlers = {h1, h2, h3}
    Envelopes <- RequestEnvelopes
    GeneratedIds = {g1}
    NumNotifiers = 1
    MaxClock = 1
    None = None
    Triages = {t1}
    MaxCrashes = 1
SYMMETRY Symmetric
CONSTRAINT OneSubject
SPECIFICATION Spec
INVARIANTS
    TypeOK
    OneIssuePerGroupingKey
    EventCountIsEventRows
    SeenColumnsAreEvents
    AcknowledgedEventsAreStored
    AlertedAtMostOnce
    AttachmentsHaveEvents
    FiledUnderPrecedingEvent
PROPERTIES
    OnlyNewEventsReopen
    ImplementsLedger
