CONSTANTS
    Ends = {"e1", "e2"}
    Interceptor = {"i", "j"}
    Matches <- Overlapping
    MaxEvents = 5
SPECIFICATION Spec
CHECK_DEADLOCK FALSE
INVARIANTS
    TypeOK
    ReadsPaired
    PacketInOnePlace
    WritesInOrder
PROPERTIES
    OnlyPostedAreOvertaken
    ReadsComplete
