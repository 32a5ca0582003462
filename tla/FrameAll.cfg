CONSTANTS
    RxBuffer = 79
    Pads = {0, 2}
    Mac <- MCMac
    Ip <- MCIp
    Headers <- MCHeaders
    Payloads <- MCPayloads
    Options <- MCOptions
    Idents <- MCIdents
SPECIFICATION Spec
CHECK_DEADLOCK FALSE
INVARIANTS TypeOK BufferSafe WireInitialised ReceiverAccepts TcpUnderstood Answered
