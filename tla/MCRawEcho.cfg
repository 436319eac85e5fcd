SPECIFICATION Spec
CONSTANTS
    Client = {c1}
    Foreign = {f1, f2}
    MAX_CLIENTS = 2
    RCVBUF = 2
    MaxPackets = 4
SYMMETRY Symmetry
INVARIANTS UniqueEntries
PROPERTIES EntriesIsolated ReplyIsLate
CHECK_DEADLOCK FALSE
