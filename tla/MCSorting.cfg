CONSTANTS
    Node = {11, 12, 13, 14}
    NULL = NULL
    Values <- MCValues
    ListId = {1, 2}
    LIST = 1
    CLIENT_NODES = 3
    CLIENT_VALUES = {1, 2}
SPECIFICATION FairSpec
INVARIANTS WellLinked SortedOutput
PROPERTIES CallsKeepOrder SortEnds
\* main ends, and a crashed process stops.
CHECK_DEADLOCK FALSE
