SPECIFICATION Spec
CONSTANTS
    Mtu = 5
    Word = 65536
    FirstNumber = 65534
    NarrowId = 2
    WrapId = 3
    FrameSizes <- MCSizes
    MaxFrames = 4
INVARIANTS TypeOK IdsCountFrames LossIsLocal
CHECK_DEADLOCK FALSE
