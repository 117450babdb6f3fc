SPECIFICATION FairSpec
CONSTANTS
    Token = {a, b}
    a = a
    b = b
    Client = {k1, k2}
    MarketSet <- Rotations
    MaxMessages = 4
    NoBook = NoBook
    NoClient = NoClient
INVARIANTS ProvenDepth
PROPERTIES PublishedIsActive RotationEnds SilentSocketReplaced
CHECK_DEADLOCK FALSE
