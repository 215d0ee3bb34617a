\* The server: two clients, two threads, and a pipe of one byte, smaller than
\* the number of threads.  The extension: three jobs, the second larger than
\* the send buffer.
CONSTANTS
    Clients = {c1, c2}
    Threads = {t1, t2}
    Main = Main
    NoOne = NoOne
    MaxReply = 1
    PipeCap = 1
    MaxClientsConf = 0
    EpollMayFail = FALSE
    NumJobs = 3
    Inline = {}
    Large = {2}
    TimeOut = 2
SPECIFICATION MCSpec
INVARIANTS ReplyMatchesJob CleanConnection ExecutionBounds
PROPERTIES EveryJobEnds EveryJobCompletes
