SPECIFICATION MCSpec
CONSTANTS
    Lines <- MCLines
    Cells <- MCCells
    LineOf <- MCLineOf
    Objects = {}
    NoObject = "none"
    Inputs <- MCInputs
    BodyLen = 5
    ReplayLen = 4
    BUDGET = 3
    FloatExact = 1048576
    Rounded <- MCRounded
INVARIANTS
    CacheExact
    TestedAsPlanned
    PlansFit
    CrashPointsExact
    ChecksExact
    VerdictsExact
PROPERTIES
    ImplementsPersistentMemory
    ImagesPossible
CHECK_DEADLOCK FALSE
