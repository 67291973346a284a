\* Two connections at a time, two tokens in a minute of two seconds.
CONSTANTS
    PerMinute = 2
    Minute = 2
    MaxClock = 3
    MaxBody = 10
    NUL = NUL
    Texts <- SomeTexts
    Slots = {s1, s2}
    ProjectKeys = {"right"}
    OtherKeys = {"wrong"}
    MaxRestarts = 1
    Envelopes <- SomeEnvelopes
    Events <- SomeEvents
SYMMETRY Symmetric
SPECIFICATION Spec
INVARIANTS
    TypeOK
    WithinBudget
    OnlyKnownKeysSpend
    EnvelopesArriveWholeOrCut
    EventsAreGroupedByIdentity
PROPERTY
    NeverLimitedWithoutReason
CHECK_DEADLOCK FALSE
