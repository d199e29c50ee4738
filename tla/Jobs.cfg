\* Test packages, artifact reports and guides, each demand by itself, under fair
\* scheduling: the shipped slots, one cancel request and one trouble.
SPECIFICATION FairSpec
CONSTANTS
    Job = {1, 2, 3}
    Item = {1, 2}
    Demands <- Several
    DatasetSlots = 1
    ReportSlots = 1
    Workers = 2
    Interval = 1
\* A system that nobody asks anything is at rest.
CHECK_DEADLOCK FALSE
INVARIANTS PackageClean CompleteIsAccounted StopsSoon ProofHasProver
PROPERTIES JobsRest
