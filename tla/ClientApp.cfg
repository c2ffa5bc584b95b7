SPECIFICATION FairSpec
CONSTANTS
    MaxInputs = 2
    MaxMissiles = 2
    MaxStarts = 1
    MaxFlight = 0
    Cooldown = 4
    SendAfter = 1
    MaxFrame = 2
INVARIANTS
    ClientInv
    EndOnItsWay
    ShownWereFired
PROPERTIES
    AimIsNewest
    ShotsFire
