SPECIFICATION Spec
CONSTANTS
    Workers = {w1, w2, w3}
    Tasks = {t1, t2, t3}
    None = None
    Nothing = Nothing
INVARIANTS
    EpilogueComplete
    PoolConsistent
PROPERTIES
    ImplementsTaskPool
    SleeperWoken
    QuitEnds
CHECK_DEADLOCK FALSE
