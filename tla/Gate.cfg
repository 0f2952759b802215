SPECIFICATION MCSpec
CONSTANTS
    d1 = d1
    d2 = d2
    c1 = c1
    p1 = p1
    p2 = p2
    p3 = p3
    t1 = t1
    t2 = t2
    Attesters = {p3}
    Tasks = {t1, t2}
    Defs = {d1, d2, c1}
    Own = {}
    Contents = {1, 2}
    Passes <- MCPasses
    Policies <- ThreePolicies
    Claims <- Alone
    Grades = {0, 1}
    Reverts = FALSE
    Others = {"config"}
    None = None
    MaxWrites = 3
    MaxConfigs = 2
    MaxRows = 1
INVARIANTS
    RecordedIsTested
    FailureAnsweredBySameCheck
PROPERTIES
    NoFalseCompletion
    EvidenceWrittenOnce
    NoSealAgainstDowngrade
SYMMETRY Symmetry
CHECK_DEADLOCK FALSE
