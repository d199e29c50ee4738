\* Signatures, decisions and generations, alone and together, with failed saves,
\* dead requests and two sessions whose artifacts replace each other.
SPECIFICATION FairSpec
CONSTANTS
    s1 = s1  s2 = s2  f1 = f1  f2 = f2  q1 = q1  q2 = q2
    Session = {s1, s2}
    File = {f1, f2}
    Demands <- Mixed
    Doc = {1, 2, 3, 4}
    Staffed <- Signers
    Client = {q1, q2}
\* A system that nobody asks anything is at rest.
CHECK_DEADLOCK FALSE
INVARIANTS EvidenceFullySigned DecisionsAgree ApprovalsListed
PROPERTIES GenerationEnds
