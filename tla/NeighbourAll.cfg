CONSTANTS
    Me = "me"
    MyMac = "m0"
    Hop <- TwoHops
    MacOf <- Macs
    NoMac = {"zero", "broadcast"}
    Dst = {"d1", "d2"}
    NoHop = "none"
    Tables <- Routes
    ArpFrames <- SomeArp
    MaxPackets = 2
    MaxArp = 2
SPECIFICATION Spec
CHECK_DEADLOCK FALSE
INVARIANTS
    TypeOK
    HandlersMatchQueues
    EachPacketOnce
    RightAddress
PROPERTIES
    ImplementsChannel
    OnlyStrandedAreOvertaken
    Written
