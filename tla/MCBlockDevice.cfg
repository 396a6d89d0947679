CONSTANTS
    nfree = 2  nlba = 2  EntriesPerLock = 1
    Values = {v, w}
    Zero = Zero  Error = Error  NoCall = NoCall  NoData = NoData  Torn = Torn
    Calls <- MCCalls
    MaxCalls = 5  MaxCrashes = 1  MaxFaults = 1
    Parts = {"calls", "calls mixed", "calls fail", "calls wait", "layout", "layout fails"}
SPECIFICATION MCSpec
INVARIANTS BlocksOwned LayoutExact
PROPERTIES ImplementsAtomicBlocks CallsReturn
CHECK_DEADLOCK FALSE
