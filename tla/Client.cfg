SPECIFICATION Spec
CONSTANTS
    Threads = {t1, t2}
    Workers = {w1, w2}
    Results = {r1}
    Errors = {e1}
    MaxId = 2
    MaxAnswers = 1
    Threshold = 0
    MaxClock = 2
    Word = 16
INVARIANTS TypeOK OwnAnswer NoLostWakeup NoLockCycle NoStaleEntry
PROPERTIES LateAnswerIgnored TimeoutsAreDue QueueDrains ImplementsRpc
CHECK_DEADLOCK FALSE
