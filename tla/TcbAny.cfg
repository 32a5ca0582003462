CONSTANTS
    SeqSpace = 8
    RcvWindow = 3
    Byte = {0}
    ReadSizes = {1, 2}
    MaxReads = 1
    Segments <- AnySegment
    Bufs <- SmallBufs
    Isns = {0}
    UninitMss = {0, 2}
    MyMss = 2
    MaxPosted = 1
    MaxSeq = 5
    MaxAck = 4
    MaxData = 2
SPECIFICATION Spec
CHECK_DEADLOCK FALSE
INVARIANTS
    TypeOK
    Lifecycle
    NotifiedOnce
    WaitingReadMeansNoData
    InFlightBounded
PROPERTIES
    NothingAfterFin
    ImplementsTcbLife
