-------------------------- MODULE MCClosureWorkflow --------------------------
\* Model-checking instance of ClosureWorkflow.
EXTENDS ClosureWorkflow

CONSTANTS s1, s2, f1, f2, q1, q2

Signers == {"reviewer", "system_admin"}

Demand(in, by, whats, gens, decs, deaths) ==
    [sessions |-> in, clients |-> by, plans |-> whats, generations |-> gens,
     decisions |-> decs, faults |-> deaths]

\* One client signs, rejects and decides, generates anew, from another plan too, and
\* meets a failure; two clients sign and decide about one document, or generate for one session
\* while a signature or a decision is under way; two sessions replace each other's
\* documents.
Mixed ==
    {Demand({s1}, {q1}, {<<f1>>}, 2, 4, 1),
     Demand({s1}, {q1}, {<<f1>>, <<f1, f2>>}, 2, 2, 1),
     Demand({s1}, {q1, q2}, {<<f1>>}, 1, 4, 0),
     Demand({s1}, {q1, q2}, {<<f1>>, <<f2>>}, 2, 1, 0),
     Demand({s1, s2}, {q1, q2}, {<<f1, f2>>}, 2, 0, 0)}
=============================================================================
