CONSTANTS
    NumJobs = 2
    Inline = {1}
    Large = {}
    TimeOut = 1
SPECIFICATION Spec
INVARIANT ReplyMatchesJob
CHECK_DEADLOCK FALSE
