SPECIFICATION Spec
CONSTANTS
    Helpers = {h1}
    Events = {e1, e2}
    Workers = {w1, w2}
    MaxId = 2
    MaxSent = 3
    MaxNotes = 1
    MayDecline = FALSE
    NoEvent = NoEvent
    NoHelper = NoHelper
INVARIANTS SubscribersAreServed
PROPERTIES OperationsEnd
CHECK_DEADLOCK FALSE
