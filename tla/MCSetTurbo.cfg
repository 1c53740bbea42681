CONSTANTS
    Operand <- MCOperand
    INT_VALUES = 32
    MAX_NODES = 6
SPECIFICATION Spec
INVARIANT OperationsReturn
\* The process ends.
CHECK_DEADLOCK FALSE
