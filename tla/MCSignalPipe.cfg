SPECIFICATION Spec
CONSTANTS
    Number = {n1, n2}
    PIPE_CAP = 2
    MaxNumbers = 4
INVARIANTS StopsOnlyOnLostWakeup
PROPERTIES RecordsInOrder
CHECK_DEADLOCK FALSE
