SPECIFICATION Spec
CONSTANTS
    MaxSlot = 1
    MaxMissiles = 2
    MaxJoins = 3
    MaxPending = 1
    MaxHp = 20
    Damage = 20
    RespawnFrames = 1
INVARIANTS
    CombatInv
    DeathsRewarded
    MenuInactive
PROPERTIES
    EndIsShown
