CONSTANTS
    u1 = u1  u2 = u2  u3 = u3  w1 = w1  w2 = w2  NoEntry = NoEntry  NoCall = NoCall
    Parts = {"redo twice", "redo again", "redo fenced", "undo again", "undo fenced", "undo user",
             "ranges flushed", "ranges fail", "ranges unsaved", "ranges adjacent",
             "lists alone", "lists shared", "lists fail", "critnib reuse", "critnib overtaken"}
SYMMETRY Symmetry
SPECIFICATION Spec
CHECK_DEADLOCK FALSE
INVARIANTS
    RedoAtomic
    UndoAtomic
    LogsAccounted
    SavedOnce
    EndsComplete
    ListsIntact
    ListsNotStuck
    LookupsCurrent
PROPERTIES
    ImplementsAtomicLists
