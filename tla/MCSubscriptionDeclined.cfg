SPECIFICATION SafeSpec
CONSTANTS
    Helpers = {h1}
    Events = {e1}
    Workers = {w1}
    MaxId = 0
    MaxSent = 1
    MaxNotes = 1
    MayDecline = TRUE
    NoEvent = NoEvent
    NoHelper = NoHelper
INVARIANTS SubscribersAreServed
CHECK_DEADLOCK FALSE
