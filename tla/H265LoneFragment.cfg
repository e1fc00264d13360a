SPECIFICATION Spec
CONSTANTS
    Mtus = {20}
    Frames <- MCExact
    MaxNalus = 2
    DonlValues = {FALSE}
INVARIANTS NoCorruption
CHECK_DEADLOCK FALSE
