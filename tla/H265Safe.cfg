SPECIFICATION LiveSpec
CONSTANTS
    Mtus = {5, 20}
    Frames <- MCFrames
    MaxNalus = 4
    DonlValues = {FALSE, TRUE}
INVARIANTS IndInv SizesRight KeptInOrder DamageIsLocal MarkerCompletes
PROPERTIES StreamSpec EveryHandedOut
CHECK_DEADLOCK FALSE
