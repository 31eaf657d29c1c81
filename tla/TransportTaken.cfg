SPECIFICATION Spec
CONSTANTS
    t1 = t1
    w1 = w1
    Threads = {t1}
    Workers = {w1}
    MaxId = 1
    RemoteIds = {1}
    WaitSlices = 1
    Infinite = 99
    May = {}
    NoThread = NoThread
PROPERTIES InsertedIdsAreNew
CHECK_DEADLOCK FALSE
