CONSTANTS
    Parts = {"udp"}
    Setups <- MCSetups
    Cap = 2
    BufSize = 2
    Width = 5
    MinHeader = 2
    ReplyLen = 1
    Descriptors = {0, 1, 2, 3}
    Workers = {w1, w2}
    MaxIdle = 2
    Requests = {0, 1}
    Ports = {1}
    Sizes = {1, 4}
    MaxCalls = 2
    MaxAnswers = 2
    MaxSent = 4
    Fds = {0, 1, 2}
    MaxConns = 2
    MaxBytes = 2
    SndBuf = 1
    Clients = {c1, c2}
    Blocks = {1, 2, 3, 4, 5}
    Null = Null
    ReadLen = 2
    MaxRead = 3
    MaxReply = 2
    MaxClients = 0
    MaxMid = 1
    MaxLost = 1
SPECIFICATION MCSpec
INVARIANT SequenceOrder
CHECK_DEADLOCK FALSE
