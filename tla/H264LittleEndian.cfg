SPECIFICATION Spec
CONSTANTS
    Mtu = 10
    SwapLength = TRUE
    Frames <- MCFrames
    MaxNalus = 3
INVARIANTS NeverThrows
CHECK_DEADLOCK FALSE
