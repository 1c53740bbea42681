CONSTANTS
    Key = {1, 2, 3}
    HASH <- MCHASH
    HASHES = {2}
    Value = {1, 2}
    Capacities = {0, 2}
    MAX_LOADS <- MCLoads
    ARRAY_START = 1
    MAX_VALUES = 2
    TABLE_START_SIZE = 1
    MAX_LOAD_FACTOR <- MCOne
    start_sizes <- MCStartSizes
    max_loads <- MCMaxLoads
    hash_funcs <- MChash_funcs
    HASH_FUNCTION = 2
    WIDTH = 16
    ULONG_MAX = 6
    NO_WORD = NO_WORD
    MAX_LINES = 2
    MAX_WORDS = 2
SPECIFICATION Spec
INVARIANTS IndexSound SizesAgree LoadBounded PrintsOccurrences MainFreesAll
PROPERTIES ImplementsDictionary LookupsEnd
\* main ends, and an aborted process stops.
CHECK_DEADLOCK FALSE
