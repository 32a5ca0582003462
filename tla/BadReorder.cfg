CONSTANTS
    SeqSpace = 16
    RcvWindow = 4
    Byte = {1, 2, 3, 4, 5, 6}
    ReadSizes = {2}
    MaxReads = 1
    ClientBytes = 3
    ServerBytes = 1
    MaxWrite = 2
    Isns = {0}
    UninitMss = {2}
    MyMss = 2
    Faults = {"swap"}
    MaxFaults = 1
SPECIFICATION Spec
CHECK_DEADLOCK FALSE
INVARIANTS
    NothingForgotten
