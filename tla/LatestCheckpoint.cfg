SPECIFICATION Spec
CONSTANTS
    Texts = {"s"}
    MaxNodes = 2
    MaxWrites = 4
    None = None
INVARIANT LatestSafeCheckpoint
CHECK_DEADLOCK FALSE
