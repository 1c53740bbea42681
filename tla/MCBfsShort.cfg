CONSTANTS
    N = 5
    STACK_SIZE = 3
    MAX_LENGTH = 25
    Mazes <- MCMazes
    STARTS <- MCSomeStarts
    FINISHES <- MCInside
    BORDERS <- MCWallBorder
    WALL = WALL
    FLOOR = FLOOR
    PATH = PATH
    VISITED = VISITED
    TO_VISIT = TO_VISIT
    UNINIT = UNINIT
    GARBAGE <- MCGarbage
SPECIFICATION Spec
INVARIANT LengthIsShortest
\* A finished solve stops.
CHECK_DEADLOCK FALSE
