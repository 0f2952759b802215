SPECIFICATION Spec
CONSTANTS
    as1 = as1
    as2 = as2
    tk = tk
    uk = uk
    i1 = i1
    i2 = i2
    i3 = i3
    Nodes = {as1, as2, tk}
    Assumptions = {as1, as2}
    Critical = {}
    Impact <- MCImpact
    Invs = {i1, i2}
    Gates = {TRUE, FALSE}
    Suspects = {}
    None = None
INVARIANT
    NothingStranded
CHECK_DEADLOCK FALSE
