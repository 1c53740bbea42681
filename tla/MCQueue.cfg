\* Counters that wrap at 2^3, capacities that divide 2^3; no bound on pushes.
CONSTANTS
    Item <- MCItem
    Capacities = {0, 1, 2, 4}
    WORD = 8
    MAX_PUSHES = 8
    JUNK = JUNK
SPECIFICATION QueueSpec
INVARIANT HeapMatchesHandle
PROPERTY ImplementsFifo
