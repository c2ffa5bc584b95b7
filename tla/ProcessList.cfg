SPECIFICATION FairSpec
CONSTANTS
    MaxEntries = 5
INVARIANTS
    ListInv
PROPERTIES
    ListImplementsQueue
    HandledUnlessRaced
CHECK_DEADLOCK FALSE
