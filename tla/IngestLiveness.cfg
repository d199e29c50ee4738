\* Fair scheduling: one document, one task in each process, three runs, one request,
\* one trouble.
SPECIFICATION FairSpec
CONSTANTS
    s1 = s1  w1 = w1
    Document = {1}
    Slot = {s1}
    WebTask = {w1}
    Excerpts = 1
    MaxRuns = 3
    MaxRequests = 1
    MaxPlans = 0
    MaxTroubles = 1
    MaxUnanswered = 0
\* A document at rest and every bound used up is a legal end.
CHECK_DEADLOCK FALSE
PROPERTIES PendingSettles
