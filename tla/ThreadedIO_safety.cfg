\* Four clients of which three may connect, three I/O threads, a two-byte pipe, and an event mechanism
\* that may refuse a registration.
CONSTANTS
    Clients = {c1, c2, c3, c4}
    Threads = {t1, t2, t3}
    Main = Main
    NoOne = NoOne
    MaxReply = 2
    PipeCap = 2
    MaxClientsConf = 3
    EpollMayFail = TRUE
SPECIFICATION Spec
SYMMETRY Symmetry
INVARIANTS SingleOwner MutualExclusion PipeAccounts WorkConserving JobBuffers
PROPERTY ImplementsService
CHECK_DEADLOCK FALSE
