SPECIFICATION LiveSpec
CONSTANTS
    Mtu = 10
    SwapLength = FALSE
    Frames <- MCFrames
    MaxNalus = 4
INVARIANTS IndInv PayloadsFit SentOnceInOrder FreshParameterSets DamageIsLocal MarkerCompletes
PROPERTIES StreamSpec EverySentDelivered
CHECK_DEADLOCK FALSE
