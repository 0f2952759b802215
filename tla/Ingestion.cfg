SPECIFICATION Spec
CONSTANTS
    p1 = p1
    p2 = p2
    e1 = e1
    e2 = e2
    e3 = e3
    e4 = e4
    Procs = {p1, p2}
    Events = {e1, e2, e3, e4}
    ProjectOf <- MCProjectOf
    KindOf <- MCKindOf
    NoEvent = NoEvent
INVARIANTS
    TypeOK
    MarkerWitnessesGraph
    NoHoleJumped
    ProjectedInLogOrder
    ReplayMatchesLive
PROPERTIES
    SuccessIsFinal
SYMMETRY Symmetry
