\* Three issues on pages of one, with one or two events more.
CONSTANTS
    IssueIds = {i1, i2, i3}
    EventIds = {e1, e2, e3, e4}
    GroupingKeys = {i1, i2, i3}
    Releases = {}
    Names = {}
    PageSize = 1
    DetailSize = 2
    MaxClock = 3
    MaxClicks = 1
    None = None
SYMMETRY Symmetric
CONSTRAINT NamedByKey
SPECIFICATION Spec
INVARIANTS
    TypeOK
    RepeatsMeanTimeWentBack
    QuietIssuesAreShown
    DetailAgreesWithItself
CHECK_DEADLOCK FALSE
