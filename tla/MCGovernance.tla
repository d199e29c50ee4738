---------------------------- MODULE MCGovernance ----------------------------
\* Model-checking instances of Governance.
EXTENDS Governance, TLC

CONSTANTS c1, c2, u1, u2, q1, q2

Row(s, p, d) == [status |-> s, review |-> "none", activity |-> "performed",
                 dissent |-> d, tailoring |-> "none", poam |-> p]
Reviewed(r) == [r EXCEPT !.review = "accepted", !.activity = "completed"]

\* What a completed run leaves of a control whose answer could not be parsed.
FailedRow == {Row("not_reviewed", "none", "none")}

\* Beside it, a compliant finding as the run leaves it; a deficient one with a dissent,
\* and one excluded by the system profile, that reviewers are nearly done with.
AnyRow == FailedRow \cup
    {Row("compliant", "none", "none"),
     Reviewed(Row("non_compliant", "complete", "open")),
     [Reviewed(Row("not_applicable", "none", "none")) EXCEPT !.tailoring = "proposed"]}
=============================================================================
