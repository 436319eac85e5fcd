SPECIFICATION FairSpec
CONSTANTS
    Client = {c1, c2}
    Foreign = {}
    MAX_CLIENTS = 1
    RCVBUF = 3
    MaxPackets = 2
PROPERTIES EntryFreed
CHECK_DEADLOCK FALSE
