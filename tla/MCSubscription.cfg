SPECIFICATION SafeSpec
CONSTANTS
    Helpers = {h1, h2}
    Events = {e1, e2}
    Workers = {w1}
    MaxId = 1
    MaxSent = 2
    MaxNotes = 1
    MayDecline = TRUE
    NoEvent = NoEvent
    NoHelper = NoHelper
SYMMETRY Symmetry
INVARIANTS TypeOK NoDanglingCallback NoSubscriptionLost
CHECK_DEADLOCK FALSE
