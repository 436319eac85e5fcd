SPECIFICATION FairSpec
CONSTANTS
    Reader = {r1, r2, r3}
    Number = {n1, n2}
    PIPE_CAP = 2
    MaxNumbers = 4
INVARIANTS MutualExclusion PollNeverSpins StopsOnlyOnPipe
PROPERTIES RecordsInOrder SectionEnds
CHECK_DEADLOCK FALSE
