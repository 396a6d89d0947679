CONSTANTS
    nfree = 2  nlba = 2  EntriesPerLock = 1
    Values = {v, w}
    Zero = Zero  Error = Error  NoCall = NoCall  NoData = NoData  Torn = Torn
    Calls <- MCCalls
    MaxCalls = 5  MaxCrashes = 1  MaxFaults = 1
    Parts = {"calls wait"}
SPECIFICATION MCSpec
INVARIANT WaitsForReaders
CHECK_DEADLOCK FALSE
