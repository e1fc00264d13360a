SPECIFICATION Spec
CONSTANTS
    Frames <- MCFrames
INVARIANTS IndInv SplitsAgree
CHECK_DEADLOCK FALSE
