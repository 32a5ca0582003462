CONSTANTS
    SeqSpace = 16
    RcvWindow = 4
    Byte = {1, 2, 3, 4, 5, 6}
    ReadSizes = {2}
    MaxReads = 1
    ClientBytes = 1
    ServerBytes = 1
    MaxWrite = 1
    Isns = {0}
    UninitMss = {2}
    MyMss = 2
    Faults = {}
    MaxFaults = 0
SPECIFICATION FairSpec
CHECK_DEADLOCK FALSE
PROPERTIES
    Acknowledged
