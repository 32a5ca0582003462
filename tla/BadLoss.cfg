CONSTANTS
    SeqSpace = 16
    RcvWindow = 4
    Byte = {1, 2, 3, 4, 5, 6}
    ReadSizes = {2}
    MaxReads = 1
    ClientBytes = 2
    ServerBytes = 0
    MaxWrite = 1
    Isns = {0}
    UninitMss = {2}
    MyMss = 2
    Faults = {"lose"}
    MaxFaults = 1
SPECIFICATION Spec
CHECK_DEADLOCK FALSE
INVARIANTS
    ReceivedInOrder
