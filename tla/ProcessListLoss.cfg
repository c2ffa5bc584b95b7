SPECIFICATION Spec
CONSTANTS
    MaxEntries = 2
INVARIANTS
    EveryMessageProcessed
CHECK_DEADLOCK FALSE
