CONSTANTS
    N = 5
    STACK_SIZE = 9
    MAX_LENGTH = 25
    Mazes <- MCMazes
    STARTS <- MCSomeStarts
    FINISHES <- MCInside
    BORDERS <- MCWallBorder
    WALL = WALL
    FLOOR = FLOOR
    PATH = PATH
    VISITED = VISITED
    TO_VISIT = TO_VISIT
    UNINIT = UNINIT
    GARBAGE <- MCGarbage
SPECIFICATION FairSpec
INVARIANTS BacktrackCounts LengthIsPath LengthIsShortest NotFoundIsRight
PROPERTY Terminates
\* A finished solve stops.
CHECK_DEADLOCK FALSE
