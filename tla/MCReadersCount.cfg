SPECIFICATION FairSpec
CONSTANTS
    Number = {n1, n2}
    PIPE_CAP = 2
    MaxNumbers = 4
    MaxRuns = 2
INVARIANTS MutualExclusion StopsOnlyOnFullPipe
PROPERTIES EventuallyRecorded RecordsInOrder
CHECK_DEADLOCK FALSE
