SPECIFICATION Spec
CONSTANTS
    t1 = t1
    t2 = t2
    w1 = w1
    w2 = w2
    Threads = {t1, t2}
    Workers = {w1, w2}
    MaxId = 2
    RemoteIds = {2, 11}
    WaitSlices = 2
    Infinite = 99
    May = {"drop", "disconnect", "return"}
    NoThread = NoThread
INVARIANTS TypeOK ListenerKnowsLink ConnectedOnce
PROPERTIES OperationsEnd
CHECK_DEADLOCK FALSE
