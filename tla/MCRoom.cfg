CONSTANTS
    Element <- MCPatient
    NOTHING = NOTHING
    Comparisons <- MCComparisons
    ARRSIZE = 2
    NAMES = {1, 2}
    AGES = {0, 7}
    INT_VALUES = 16
    ITERATIONS = 3
    MAX_PATIENTS = 6
SPECIFICATION FairSpec
INVARIANTS HeapOrder PatientsAccounted
PROPERTIES ImplementsPriorityQueue DrainEnds
\* The program ends.
CHECK_DEADLOCK FALSE
