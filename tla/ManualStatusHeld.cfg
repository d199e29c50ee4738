\* A compliant finding is carried forward although a manual status was set since.
SPECIFICATION DecisionsSpec
SYMMETRY Symmetry
CONSTANTS
    Attempt = {1, 2}
    Objective = {1, 2}
    Stranger = 9
    Packet <- Documents
    Rules <- Policies
    World <- Worlds
    Policy = {1, 2, 3}
    Officer = {o1, o2, o3}
    MaxRequests = {0, 3, 6}
    Run = {1, 2, 3}
    f1 = f1  f2 = f2
    Fingerprint = {f1, f2}
    Assessor = {a1, a2}
    Verdicts = {"compliant", "not_applicable", "not_reviewed"}
    Kept = {"applicable", "not_applicable"}
    Manual = {"non_compliant"}
    Budgets <- Several
\* An assessed control stays assessed, and policies nobody asks about stay.
CHECK_DEADLOCK FALSE
INVARIANTS ManualStatusHeld
