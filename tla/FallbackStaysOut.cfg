\* One ingestion of one document whose classification raises an exception.
SPECIFICATION Spec
CONSTANTS
    s1 = s1  w1 = w1
    Document = {1}
    Slot = {s1}
    WebTask = {w1}
    Excerpts = 1
    MaxRuns = 1
    MaxRequests = 0
    MaxPlans = 1
    MaxTroubles = 0
    MaxUnanswered = 1
CHECK_DEADLOCK FALSE
INVARIANTS FallbackStaysOut
