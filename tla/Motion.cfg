CONSTANTS
    Width = 2
    Size = 2
    Moves <- MCMoves
    Speed = 2
    Reach = 1
    Second = 1
    FrameTime = 0
    TickRate = 1
    Reads <- MCReads
    TimeDeltas <- MCTimeDeltas
    Blending = 3
    MaxFlight = 1
    MaxInputs = 2
    Beyond = 4
SPECIFICATION FairSpec
INVARIANT MotionInv
INVARIANT HitUnlessSkipped
PROPERTY MovesByShare
PROPERTY CatchesUp
PROPERTY TicksRecur
