-------------------------- MODULE MCAssessmentRun --------------------------
\* Model-checking instances of AssessmentRun.
EXTENDS AssessmentRun, TLC

CONSTANTS c1, c2, c3, s1, s2, q1, q2

\* Controls that the system profile does not exclude are interchangeable, and
\* so are slots and clients.
Symmetry == Permutations(Control \ SystemNA) \cup Permutations(Slot) \cup Permutations(Client)
=============================================================================
