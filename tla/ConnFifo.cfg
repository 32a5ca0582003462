CONSTANTS
    SeqSpace = 16
    RcvWindow = 2
    Byte = {1, 2, 3, 4, 5, 6}
    ReadSizes = {1, 2}
    MaxReads = 1
    ClientBytes = 3
    ServerBytes = 1
    MaxWrite = 2
    Isns = {0, 3}
    UninitMss = {0, 1}
    MyMss = 2
    Faults = {}
    MaxFaults = 0
SPECIFICATION Spec
CHECK_DEADLOCK FALSE
INVARIANTS
    TypeOK
    StreamIntact
