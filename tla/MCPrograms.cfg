SPECIFICATION FairSpec
CONSTANTS
    Mask <- Masks
    Opener = {p1, p2}
    MSG_LEN = 2
    MaxOpens = 3
    Count = {2, 3}
    Number = {0, 1}
    Char <- Characters
    Person <- People
    PEOPLE = 3
    MAX_LENGHT_STRUCT = 2
    WIDTH = 6
    MaxJoins = 2
    MaxRuns = 2
    Word <- Words
    Byte <- Bytes
    Pad <- Pads
    MaxWords = 4
INVARIANTS CleanUnload SessionIntact ReportRight TurnTaking Verifies
PROPERTIES StartsFromSaved LinesHeard
CHECK_DEADLOCK FALSE
