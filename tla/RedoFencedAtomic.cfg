CONSTANTS
    u1 = u1  u2 = u2  u3 = u3  w1 = w1  w2 = w2  NoEntry = NoEntry  NoCall = NoCall
    Parts = {"redo fenced"}
SPECIFICATION Spec
CHECK_DEADLOCK FALSE
INVARIANT RedoFencedAtomic
