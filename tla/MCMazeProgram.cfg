CONSTANTS
    N = 5
    STACK_SIZE = 4
    MAX_LENGTH = 25
    Mazes <- MCNoMazes
    Texts <- MCTexts
    STARTS <- MCStarts
    FINISHES <- MCInside
    BORDERS <- MCBorders
    WALL_CHAR = WALL_CHAR
    START = START
    DEST = DEST
    SPACE = SPACE
    WALL = WALL
    FLOOR = FLOOR
    PATH = PATH
    VISITED = VISITED
    TO_VISIT = TO_VISIT
    UNINIT = UNINIT
    GARBAGE <- MCGarbage
SPECIFICATION ProgramSpec
INVARIANTS ReadRight ProgramFrees NothingForgotten NotFoundIsRight
PROPERTY ProgramEnds
\* The program stops when it returns.
CHECK_DEADLOCK FALSE
