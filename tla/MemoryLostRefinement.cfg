SPECIFICATION Spec
CONSTANTS
    f = f
    h = h
    g = g
    NoMemory = NoMemory
    Memories = {m1, m2}
    Facts <- MCFacts
    Contents <- MCContents
    Unreadable <- MCUnreadable
    MaxAttempts = 2
    Limit = 2
    Calls = {w1, w2}
    MaxVersion = 2
    MaxRequests = 3
    MaxCrashes = 0
PROPERTIES
    RefinementsSurvive
CHECK_DEADLOCK FALSE
