CONSTANTS
    Operand <- MCOperand
    INT_VALUES = 32
    MAX_NODES = 6
SPECIFICATION Spec
INVARIANTS NodesAccounted HeightsLagByOne InsertsBalance ExitFreesAll
PROPERTIES CrashesOnlyTurbo ImplementsSet
\* The process ends.
CHECK_DEADLOCK FALSE
