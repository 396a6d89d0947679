SPECIFICATION Spec
CONSTANTS
    Lines <- MCLines
    Cells <- MCCells
    LineOf <- MCLineOf
    Objects <- MCObjects
    NoObject = "none"
    Traces <- MCTraces
    Beliefs <- MCBeliefs
    MaxBody = 6
    MaxTxLen = 7
    CrashMax = 6
INVARIANTS
    CandidatesExact
    NotBothFenced
    TestedExact
    IInv
PROPERTIES
    ImplementsPersistentMemory
    Termination
CHECK_DEADLOCK FALSE
