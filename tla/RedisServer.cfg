CONSTANTS
    NFds = 3
    SetSize = 2
    Procs = {p, q}
    Sec = 3
    MaxNow = 5
    MaxId = 3
    Periods = {1, 2, 4}
    Clients = {c1, c2}
    Threads = {t1, t2}
    Main = Main
    NoOne = NoOne
    MaxThreads = 1
    UIntMod = 4
    Nodes = {1, 2, 3}
    Values = {1, 2}
    NULL = NULL
    Idle = Idle
    MaxBulks = 2
    Callers = {u1, u2}
    Descriptors = {0, 1, 2}
    Asked = 1
    MaxStray = 1
SPECIFICATION MCSpec
SYMMETRY Symmetry
CONSTRAINT QueueBound
INVARIANTS InterestMatches MaxFdCorrect WalkInList PassComplete SleepExact PipeAccounts SocketsAccounted
    ListSound FramingExact
CHECK_DEADLOCK FALSE
