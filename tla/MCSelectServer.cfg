SPECIFICATION FairSelectSpec
CONSTANTS
    Client = {c1, c2, c3}
    BACKLOG = 1
    INBUF = 1
    NOFILE = {5, 7}
    FD_SETSIZE = 6
INVARIANTS WatchesAll NeverBlocks
PROPERTIES StopsOnlyOnFaultOrLimit Served
CHECK_DEADLOCK FALSE
