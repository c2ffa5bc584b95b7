SPECIFICATION FairSpec
CONSTANTS
    MaxTenants = 2
    MaxInputs = 2
    MaxFlight = 2
INVARIANTS
    InOrder
    Contiguous
    PredictionExact
    AppliedIsPrefix
PROPERTIES
    ImplementsInputLog
    InputsAcknowledged
CHECK_DEADLOCK FALSE
