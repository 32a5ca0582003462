CONSTANTS
    SeqSpace = 16
    RcvWindow = 4
    Byte = {1, 2, 3, 4, 5, 6}
    ReadSizes = {1}
    MaxReads = 1
    ClientBytes = 2
    ServerBytes = 1
    MaxWrite = 2
    Isns = {3}
    UninitMss = {1}
    MyMss = 2
    Faults = {}
    MaxFaults = 0
SPECIFICATION FairSpec
CHECK_DEADLOCK FALSE
PROPERTIES
    Connects
    Delivered
    ReaderAcknowledges
