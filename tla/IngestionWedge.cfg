SPECIFICATION FairSpec
CONSTANTS
    p1 = p1
    p2 = p2
    e1 = e1
    e2 = e2
    e3 = e3
    e4 = e4
    Procs = {p1, p2}
    Events = {e2, e3}
    ProjectOf <- MCProjectOf
    KindOf <- MCPoisonedKindOf
    NoEvent = NoEvent
PROPERTY
    SoundEventsSettle
