SPECIFICATION Spec
CONSTANTS
    t1 = t1
    w1 = w1
    Threads = {t1}
    Workers = {w1}
    MaxId = 1
    RemoteIds = {11}
    WaitSlices = 2
    Infinite = 99
    May = {}
    NoThread = NoThread
PROPERTIES SilenceIsReported
CHECK_DEADLOCK FALSE
