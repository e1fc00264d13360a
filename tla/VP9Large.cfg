SPECIFICATION Spec
CONSTANTS
    Mtu = 60000
    Word = 65536
    WrapId = 2
    FrameSizes <- MCLarge
    InitialIds = {}
    MaxFrames = 1
INVARIANTS NoEmptyFragment
CHECK_DEADLOCK FALSE
