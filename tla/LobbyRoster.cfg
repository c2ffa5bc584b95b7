SPECIFICATION Spec
CONSTANTS
    Clients = {a, b}
    MaxConnection = 1
    MaxPlayers = 2
    None = None
INVARIANTS
    PlayersKnowEachOther
