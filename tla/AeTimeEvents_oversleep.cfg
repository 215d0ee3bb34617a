CONSTANTS
    Sec = 3
    MaxNow = 5
    MaxId = 3
    Periods = {1, 2, 4}
SPECIFICATION timersSpec
INVARIANT SleepEndsInTime
CHECK_DEADLOCK FALSE
