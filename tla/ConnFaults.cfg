CONSTANTS
    SeqSpace = 16
    RcvWindow = 2
    Byte = {1, 2, 3, 4, 5, 6}
    ReadSizes = {1, 2}
    MaxReads = 1
    ClientBytes = 2
    ServerBytes = 1
    MaxWrite = 2
    Isns = {0}
    UninitMss = {1}
    MyMss = 2
    Faults = {"lose", "duplicate", "swap"}
    MaxFaults = 2
SPECIFICATION Spec
CHECK_DEADLOCK FALSE
INVARIANTS
    WindowsAgree
    NoReceiveOverflow
    ServerAfterClient
    DuplicatesHarmless
