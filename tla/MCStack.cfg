CONSTANTS
    Item <- MCItem
    Capacities = {0, 1, 2}
    WIDTH = 2
    MAX_PUSHES = 7
    JUNK = JUNK
SPECIFICATION Spec
INVARIANTS HeldIsOwned RoomWhileMemoryLasts
PROPERTY ImplementsLifo

\* An aborted process stops.
CHECK_DEADLOCK FALSE
