CONSTANTS
    SLNODES = 3
    DELETED_LIFE = 2
    MaxNodes = 4
    MaxLeaves = 5
    Starts = {{3, 8}}
    Keys = {4, 6}
    Questions = {7}
    Lookups = {"find_le"}
    MaxInserts = 2
    MaxRemoves = 0
SPECIFICATION Spec
CHECK_DEADLOCK FALSE
INVARIANTS
    FindLeCurrent
