\* A queue of 2: the four neighbours of a position do not fit.
CONSTANTS
    N = 5
    STACK_SIZE = 2
    MAX_LENGTH = 9
    Mazes <- MCAllMazes
    STARTS <- MCAnyStarts
    FINISHES <- MCAnyFinishes
    BORDERS <- MCBorders
    WALL = WALL
    FLOOR = FLOOR
    PATH = PATH
    VISITED = VISITED
    TO_VISIT = TO_VISIT
    UNINIT = UNINIT
    GARBAGE <- MCGarbage
SPECIFICATION Spec
INVARIANTS VisitTree NoAssertion
\* A finished solve stops.
CHECK_DEADLOCK FALSE
