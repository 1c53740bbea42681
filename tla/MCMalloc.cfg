CONSTANTS
    MAX_CALLS = 4
SPECIFICATION LoopFairSpec
INVARIANT VerdictExact
PROPERTY TestEnds
\* A test that has its verdict stops.
CHECK_DEADLOCK FALSE
