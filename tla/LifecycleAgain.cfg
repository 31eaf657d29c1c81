SPECIFICATION SafeSpec
CONSTANTS
    t1 = t1
    Threads = {t1}
    w1 = w1
    Workers = {w1}
    MaxLives = 2
    MaxId = 1
    NoCall = NoCall
    Timedout = Timedout
    Request = Request
    Nothing = Nothing
INVARIANTS AsyncIsThere
CHECK_DEADLOCK FALSE
