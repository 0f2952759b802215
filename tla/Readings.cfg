SPECIFICATION MCSpec
CONSTANTS
    None = None
    MaxCommits = 3
    MaxWrites = 6
    MaxCalls = 3
    N = 5
    Kind <- MCKind
    Scope <- MCScope
    Echo <- MCEcho
    Statuses <- MCStatuses
    Provenanced = {1}
    Budgets <- MCBudgets
    MaxSteps = 3
    Texts = {"s", "t"}
    MaxNodes = 2
    MaxVersions = 4
    Modes = {"posix", "fallback", "copy"}
    Shapes = {"file", "flat", "nested", "absent"}
    MaxEdits = 2
    MaxEntries = 3
INVARIANTS
    CurrentMeansCurrent
    PacketIsClean
    AnswersAreOneMoment
    SnapshotsExact
PROPERTIES
    PacketsComplete
CHECK_DEADLOCK FALSE
