SPECIFICATION Spec
CONSTANTS
    disconnect = disconnect
    other = other
    Kinds = {disconnect, other}
    WireLength <- MCWireLength
    TableLength <- MCTableLength
    HeaderLength = 2
    RecvBufSize = 7
    Senders = {main, game}
    MaxPackets = 3
    MaxParts = 1
INVARIANTS
    StreamInv
    LossConfined
    PacketsAgree
PROPERTIES
    StreamImplementsQueue
SYMMETRY Symmetry
CHECK_DEADLOCK FALSE
