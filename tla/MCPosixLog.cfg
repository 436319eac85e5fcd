SPECIFICATION Spec
CONSTANTS
    Number = {n1, n2}
    PIPE_CAP = 2
    MaxNumbers = 4
    MaxRuns = 3
INVARIANTS StopsOnlyOnPipe
PROPERTIES LostForever RecordsInOrder
CHECK_DEADLOCK FALSE
