\* Two slots, two API requests that race, and a row from before approved plans.
SPECIFICATION Spec
CONSTANTS
    c1 = c1  c2 = c2  c3 = c3  s1 = s1  s2 = s2  q1 = q1  q2 = q2
    Assessment = {1, 2}
    Legacy = {2}
    Control = {c1, c2}
    SystemNA = {}
    Slot = {s1, s2}
    Client = {q1, q2}
    BatchSize = 2
    MaxCrashes = 1
    MaxFaults = 1
    MaxPauses = 1
\* A state with nothing left to run and nothing asked is a legal end.
CHECK_DEADLOCK FALSE
SYMMETRY Symmetry
INVARIANTS FindingsExactUnlessOverlapped
