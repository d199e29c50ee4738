\* One document and an assessment that takes it into its scope; one ingestion slot of
\* the worker and one task of the web process, two runs, one request beside them, one
\* trouble (death, exception or age) and one stage in which the model fails to answer.
SPECIFICATION Spec
CONSTANTS
    s1 = s1  w1 = w1
    Document = {1}
    Slot = {s1}
    WebTask = {w1}
    Excerpts = 2
    MaxRuns = 2
    MaxRequests = 1
    MaxPlans = 1
    MaxTroubles = 1
    MaxUnanswered = 1
\* A document at rest and every bound used up is a legal end.
CHECK_DEADLOCK FALSE
INVARIANTS CompleteIsWhole IndexedHasCompleteRun ProcessingHasTask ScopeHeld
           DegradedStaysOut
