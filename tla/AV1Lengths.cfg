SPECIFICATION Spec
CONSTANTS
    Mtu = 11
    LebBase = 4
    Frames <- MCPair
    MaxObus = 2
INVARIANTS LengthsAgree
CHECK_DEADLOCK FALSE
