SPECIFICATION Spec
CONSTANTS
    Interfaces = {i1}
    Bases = {b1, b2}
    UserCbs = {u1, u2}
    Workers = {w1, w2}
    Requests = {r1, r2}
    Nothing = Nothing
INVARIANTS TypeOK SilentAfterUnregister RegistrationsAreKept
PROPERTIES FirstServes RequestsEnd
CHECK_DEADLOCK FALSE
