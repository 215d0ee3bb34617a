CONSTANTS
    NFds = 2
    SetSize = 2
    Procs = {p, q}
SPECIFICATION Spec
PROPERTY EventStillValid
CHECK_DEADLOCK FALSE
