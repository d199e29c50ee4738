\* A retry claimed before finalization ends after it.
SPECIFICATION Spec
CONSTANTS
    c1 = c1  c2 = c2  u1 = u1  u2 = u2  q1 = q1  q2 = q2
    Control = {c1}
    User = {u1, u2}
    Officer = {u1, u2}
    Client = {q1}
    Initial <- FailedRow
    MaxEdits = 2
    MaxApprovals = 2
    MaxJobs = 1
    MaxCrashes = 0
    MaxFaults = 0
\* A state with nothing in flight and every bound used up is a legal end.
CHECK_DEADLOCK FALSE
PROPERTIES FinalizedImmutable
