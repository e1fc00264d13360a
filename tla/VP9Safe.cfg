SPECIFICATION Spec
CONSTANTS
    Mtu = 7
    Word = 16
    WrapId = 3
    FrameSizes <- MCSizes
    InitialIds = {4}
    MaxFrames = 3
INVARIANTS TypeOK IdsCountCalls NeverMixed LossIsLocal
CHECK_DEADLOCK FALSE
