CONSTANTS
    Clients = {c1, c2}
    Threads = {t1, t2}
    Main = Main
    NoOne = NoOne
    MaxThreads = 1
    UIntMod = 4
SPECIFICATION ioSpec
SYMMETRY Symmetry
CONSTRAINT QueueBound
INVARIANT NoUseAfterFree
CHECK_DEADLOCK FALSE
