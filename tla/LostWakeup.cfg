SPECIFICATION Spec
CONSTANTS
    Workers = {w1, w2}
    Tasks = {t1}
    None = None
    Nothing = Nothing
PROPERTY
    RunPrintsResult
CHECK_DEADLOCK FALSE
