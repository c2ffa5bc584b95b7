SPECIFICATION FairSpec
CONSTANTS
    MaxSlot = 1
    MaxMissiles = 2
    MaxJoins = 2
    MaxPending = 1
    MaxHp = 40
    Damage = 20
    RespawnFrames = 2
INVARIANTS
    NeverWithoutHp
PROPERTIES
    Respawns
