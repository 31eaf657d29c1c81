SPECIFICATION Spec
CONSTANTS
    t1 = t1
    t2 = t2
    Threads = {t1, t2}
    w1 = w1
    Workers = {w1}
    MaxLives = 2
    MaxId = 1
    NoCall = NoCall
    Timedout = Timedout
    Request = Request
    Nothing = Nothing
INVARIANTS TypeOK PointersAgree SafeUnlessOverlap OwnAnswer NobodyForgotten
PROPERTIES SleepersWake
CHECK_DEADLOCK FALSE
