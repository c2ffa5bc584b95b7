SPECIFICATION StartupSpec
CONSTANTS
    Clients = {a, b}
    MaxConnection = 1
    MaxPlayers = 1
    None = None
INVARIANTS
    StartupInv
PROPERTIES
    ConnectedIsAnswered
    EnteredLeaverForgotten
CHECK_DEADLOCK FALSE
