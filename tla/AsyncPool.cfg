CONSTANTS
    Methods = {m}
    UserCbs = {u1, u2}
    Threads = {t1, t2}
    Workers = {w1, w2}
    MaxJobs = 3
    QueueSize = 1
    NoKey = NoKey
    Deleter = Deleter
    Nobody = Nobody
SPECIFICATION Spec
INVARIANTS TypeOK AbortedStaysSilent ResultsAreReported OnlyFailuresStay NothingOutlivesAsync OnlyOverlapWaits
PROPERTIES StuckForGood JobsEnd
CHECK_DEADLOCK FALSE
