SPECIFICATION MCSpec
CONSTANTS
    None = None
    A = A
    K = K
    N = N
    R = R
    c1 = c1
    c2 = c2
    o1 = o1
    o2 = o2
    Openers = {o1, o2}
    Tenants = {"t1", "t2"}
    Events = {"e1", "e2"}
    Tasks = {"k1", "k2", "k3"}
    Proofs = {"q1"}
    Files <- MCFiles
    Scenarios <- MCScenarios
    KindOf <- MCKind
    Opposites <- MCOpposites
    Refs = {"main", "rel"}
    Apps = {"ci"}
    Settings <- MCSettings
    MaxCommits = 2
    MaxPushes = 3
    MaxRevisions = 3
    Losable = {"push"}
    Connections = {c1, c2}
    Boundaries = {"x", "y"}
    Splits = {"development", "withheld"}
    MaxFailures = 3
    MaxReplays = 1
    MaxSkills = 1
INVARIANTS
    OpensSafely
    AuthorityExact
    FrontierExact
    LearnedExactly
PROPERTIES
    AuthorityNeverRevives
SYMMETRY Symmetry
CHECK_DEADLOCK FALSE
