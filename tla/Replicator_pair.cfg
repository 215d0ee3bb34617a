CONSTANTS
    Parts = {"binlog"}
    None = None
    Absent = Absent
    Nowhere = Nowhere
    NULL = NULL
    s1 = s1
    s2 = s2
    s3 = s3
    Servers = {s1, s2, s3}
    Conns = {c1, c2}
    Mid <- MCMid
    SidSpan = 2
    MidSpan = 2
    TimeSpan = 4
    Epoch = 1
    MaxClock = 2
    MaxBoot = 2
    MaxIssued = 3
    BufLen = 3
    MaxReply = 2
    MaxClients = 1
    NoName = NoName
    Histories <- MCHistories
    Options <- MCOptions
    FileIds = {1, 2}
    Versions = 2
    MaxRuns = 3
    Callers = {a, b, c}
    LockTime = 1
    Expire = 1
    Tries = 1
    MaxUpdate = 2
    Threads = {t1, t2}
    Handles = {h1, h2, h3}
    MaxRestarts = 2
    MaxLeaked = 1
    MaxStarts = 2
    MaxPos = 4
    MaxOpen = 3
    MaxImages = 2
    QueueSize = 1
    Members = {1, 2, 3, 4, 8}
    Scores = {0, 2, 5, 8}
    Width = 3
    MaxObjs = 3
    MaxRank = 2
SPECIFICATION MCSpec
INVARIANT NameMatchesPosition
CHECK_DEADLOCK FALSE
