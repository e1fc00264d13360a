SPECIFICATION Spec
CONSTANTS
    Mtu = 11
    LebBase = 4
    Frames <- MCFrames
    MaxObus = 4
INVARIANTS TypeOK CutsRight KeptInOrder SequenceStarts BeginsWithHeader LossIsLocal
CHECK_DEADLOCK FALSE
