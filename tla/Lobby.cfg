SPECIFICATION Spec
CONSTANTS
    Clients = {a, b, c}
    MaxConnection = 2
    MaxPlayers = 1
    None = None
INVARIANTS
    AdmittedBound
    LobbyInv
    RosterTold
SYMMETRY Symmetry
