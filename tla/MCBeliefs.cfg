SPECIFICATION MCSpec
CONSTANTS
    Parts = {"objects", "beliefs"}
    MaxAddr = 6
    MaxObjects = 4
    Ppdgs <- MCPpdgs
    Objects = {"x", "y", "z"}
    NoObject = "none"
    NumLines = 3
INVARIANTS
    ObjectsExact
    BeliefsExact
PROPERTY LoopsEnd
