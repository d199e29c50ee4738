\* Edits, approvals and finalization over every kind of finding, beside a retry job,
\* under fair scheduling: one crash, one fault.
SPECIFICATION FairSpec
CONSTANTS
    c1 = c1  c2 = c2  u1 = u1  u2 = u2  q1 = q1  q2 = q2
    Control = {c1}
    User = {u1, u2}
    Officer = {u1, u2}
    Client = {q1}
    Initial <- AnyRow
    MaxEdits = 2
    MaxApprovals = 2
    MaxJobs = 1
    MaxCrashes = 1
    MaxFaults = 1
\* A state with nothing in flight and every bound used up is a legal end.
CHECK_DEADLOCK FALSE
INVARIANTS SealedIsReady RollupHidesNone FinalizedByTwo IndependentSecond
PROPERTIES QuietRecordStays JobsSettle
