SPECIFICATION MCSpec
CONSTANTS
    None = None
    Assumptions = {"a"}
    Invalidations = {"i"}
    Verifiers = {"v"}
    Importers = {"x", "y"}
    Keys = {"k", "l"}
    MaxWrites = 2
    MaxCapsules = 1
    MaxImports = 2
    MaxDamage = 1
    Checks = {"c", "d"}
    Files = {"f", "g"}
    MaxEdits = 1
    Facts <- MCFacts
    MaxEntries = 3
    MaxIssued = 1
INVARIANTS
    GradesAreEarned
    ReceiptsExact
    CapsulesDescend
    VerdictsSound
PROPERTIES
    ImportsChallenged
CHECK_DEADLOCK FALSE
