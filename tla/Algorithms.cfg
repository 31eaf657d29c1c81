SPECIFICATION Spec
CONSTANTS
    n1 = n1
    n2 = n2
    Names = {n1, n2}
    v1 = v1
    v2 = v2
    Values = {v1, v2}
    Default = Default
    Garbage = Garbage
    NoValue = NoValue
    CoreNone = 0
    CoreGeneral = 1
    CoreUnavailable = 2
    CoreAsyncFailed = 3
    CoreTimedout = 11
    MaxLetters = 4
    MaxAdditions = 3
    NoInput = NoInput
INVARIANTS NamesAgree CallsAreFaithful
CHECK_DEADLOCK FALSE
