SPECIFICATION MCSpec
CONSTANTS
    p1 = p1
    p2 = p2
    body1 = body1
    body2 = body2
    s1 = s1
    s2 = s2
    Procs = {p1, p2}
    Scopes = {s1, s2}
    Keys = {k1}
    Contents = {body1, body2}
    Capture <- MCCapture
    Blobs = {b1}
    Metas = {m1, m2}
    NoProc = NoProc
    Absent = Absent
    MaxEvents = 2
    MaxAudit = 2
    MaxDepth = 1
    MaxAnchors = 1
INVARIANTS
    TypeOK
    LogWellFormed
    ChainsIntact
    AnchorsHold
    RepliesTruthful
    DeletionsAudited
PROPERTIES
    AppendOnly
    ImplementsCanonicalLog
SYMMETRY Symmetry
