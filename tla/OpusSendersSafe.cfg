SPECIFICATION LiveSpec
CONSTANTS
    t1 = t1
    t2 = t2
    Free = Free
    Threads = {t1, t2}
    SeqModulus = 4
    FrameSizes <- MCFrameSizes
    Mtu = 100
    MaxCalls = 5
INVARIANTS TypeOK OwnNumber Accounted IndexRight
PROPERTIES CounterSpec CallsReturn
CHECK_DEADLOCK FALSE
