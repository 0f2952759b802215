SPECIFICATION MCSpec
CONSTANTS
    as1 = as1
    as2 = as2
    tk = tk
    uk = uk
    i1 = i1
    i2 = i2
    i3 = i3
    Nodes = {as1, as2, tk}
    Assumptions = {as1, as2}
    Critical = {as2}
    Impact <- MCImpact
    Invs = {i1, i2, i3}
    Gates = {TRUE, FALSE}
    Suspects = {tk}
    None = None
    RowNodes = {n1, n2}
    Direct = {w1}
    RowCalls <- MCRowCalls
    MaxVersions = 3
    MaxTime = 5
    RadiusNodes <- MCNodes
    Root = r
    RadiusPairs <- MCPairs
    Weights = {6, 10}
    Unit = 10
    MaxDepth = 2
    RadiusCalls <- MCRadiusCalls
    r = r
    m1 = m1
    m2 = m2
    m3 = m3
    n1 = n1
    n2 = n2
    s1 = s1
    s2 = s2
    w1 = w1
    Absent = Absent
    Nothing = Nothing
INVARIANTS
    HoldsExact
    RadiusExact
    VersionsExact
    WalksExact
PROPERTIES
    SupersededIsFinal
SYMMETRY Symmetry
CHECK_DEADLOCK FALSE
