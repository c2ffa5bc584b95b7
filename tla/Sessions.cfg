SPECIFICATION Spec
CONSTANTS
    Conns = {c1, c2, c3}
    MaxConnection = 1
    Senders = {main, game}
    Null = Null
    Absent = Absent
INVARIANTS
    RegistryInv
    FaultNeedsOverlap
    BroadcastReaches
PROPERTIES
    ImplementsSlotTable
SYMMETRY Symmetry
CHECK_DEADLOCK FALSE
