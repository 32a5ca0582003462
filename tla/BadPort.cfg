CONSTANTS
    Remote = {r1, r2}
    Port = {1, 2}
    Ephemeral = {1, 2}
    Acceptor <- TwoAcceptors
    Socket = {s1, s2, s3}
SPECIFICATION Spec
CHECK_DEADLOCK FALSE
INVARIANT
    EveryTcbHasACallback
