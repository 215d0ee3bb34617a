\* A connection holds two bytes, as many as a buffer; five values of a byte;
\* two bytes of a request are enough for the server.  Four descriptors for two
\* workers and the factory.
\* Two calls with the same or another number from one port, answers of one or
\* three datagrams.  Two connections to the echo server, two bytes each.
\* Two clients of redis-realloc, whose buffers fill the heap of four blocks
\* before a reply is lost.
CONSTANTS
    Parts = {"relay", "pool", "realloc", "udp", "echo"}
    Setups <- MCSetups
    Cap = 2
    BufSize = 2
    Width = 5
    MinHeader = 2
    ReplyLen = 1
    Descriptors = {0, 1, 2, 3}
    Workers = {w1, w2}
    MaxIdle = 2
    Requests = {0, 1}
    Ports = {1}
    Sizes = {1, 3}
    MaxCalls = 2
    MaxAnswers = 2
    MaxSent = 3
    Fds = {0, 1, 2}
    MaxConns = 2
    MaxBytes = 2
    SndBuf = 1
    Clients = {c1, c2}
    Blocks = {1, 2, 3, 4}
    Null = Null
    ReadLen = 2
    MaxRead = 3
    MaxReply = 2
    MaxClients = 0
    MaxMid = 1
    MaxLost = 1
SPECIFICATION MCSpec
INVARIANTS Transparent OneOwner HeapAccounts ReplyExplained EchoSound
PROPERTIES Delivers
CHECK_DEADLOCK FALSE
