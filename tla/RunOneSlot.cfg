\* The shipped configuration, scheduled fairly: one slot, batches of two of the
\* three controls, and a second assessment that waits for the slot.
SPECIFICATION FairSpec
CONSTANTS
    c1 = c1  c2 = c2  c3 = c3  s1 = s1  s2 = s2  q1 = q1  q2 = q2
    Assessment = {1, 2}
    Legacy = {}
    Control = {c1, c2, c3}
    SystemNA = {c3}
    Slot = {s1}
    Client = {q1}
    BatchSize = 2
    MaxCrashes = 1
    MaxFaults = 1
    MaxPauses = 2
\* A state with nothing left to run and nothing asked is a legal end.
CHECK_DEADLOCK FALSE
INVARIANTS CompleteCoversBaseline OneSlotNoDuplicates RunningHasTask
PROPERTIES PauseHolds LedgerSpec QueuedSettles
