----------------------------- MODULE MCDecisions -----------------------------
(* How a control gets its determination, and what people and later         *)
(* assessments make of it: Adjudication and StandingDecisions side by      *)
(* side, with their constants, for model checking.                         *)
EXTENDS Adjudication, StandingDecisions, TLC

CONSTANTS f1, f2

(* One control judged: the documents, coverages and answers.               *)

Evid(strength, artifact, source, intent, role, relevance, score) ==
    [strength |-> strength, artifact |-> artifact, source |-> source, intent |-> intent, role |-> role,
     relevance |-> relevance, score |-> score, satisfied |-> score >= 6200]
Documents ==
    [config  |-> Evid("strong", "technical_config", "project", "implements", "supporting", 12000, 5000),
     record  |-> Evid("moderate", "test_evidence", "project", "implements", "supporting", 9000, 8000),
     policy  |-> Evid("weak", "policy", "policy", "implements", "partial", 6000, 2000),
     roadmap |-> Evid("moderate", "procedure", "project", "plans", "partial", 12000, 6000),
     audit   |-> Evid("strong", "audit_artifact", "project", "evaluates", "contradictory", 12000, 4000)]

\* The texts together cover at least what one of them covers.
Coverage == {<<5000, FALSE>>, <<6000, FALSE>>, <<7500, FALSE>>, <<9000, TRUE>>}
Together(S, c) == \A p \in S : Documents[p].score <= c[1] /\ (Documents[p].satisfied => c[2])
About(S, c) == [packets |-> S, score |-> c[1], satisfied |-> c[2]]
Plain == About({"config"}, <<5000, FALSE>>)

Answer(id, met, cite) == [id |-> id, met |-> met, cite |-> cite]
AnyOf(o) == [id : {o}, met : {"yes", "partial", "no"}, cite : DOMAIN Documents \cup {"invented", Uncited}]
Misnamed(o) == {Answer(NoId, "yes", "config"), Answer(9, "yes", "config"), Answer(3 - o, "no", "policy")}
Text(first, second) == [o \in {1, 2, 9} |-> IF o = 2 THEN second ELSE first]

\* The seeded policy; one that was edited until little is asked for, with two buckets
\* left; and one whose only bucket names no objective here.
Edited == [technical_enforcement |-> [weight |->   0, critical |-> TRUE,  min |-> 3000, penalty |->    0, cap |-> 2500],
           procedure_execution   |-> [weight |-> 300, critical |-> FALSE, min |-> 4000, penalty |-> 1000, cap |-> 6000]]
Policies ==
    [default |-> [buckets |-> DefaultBuckets, compliant |-> 8500, partial |-> 4500, quality |-> 6500, blocks |-> TRUE,
                  contradiction |-> 1500, review_contradiction |-> 2000, review_weak |-> 3500],
     edited  |-> [buckets |-> Edited, compliant |-> 5000, partial |-> 2000, quality |-> 3000, blocks |-> FALSE,
                  contradiction |-> 6000, review_contradiction |-> 6000, review_weak |-> 1000],
     sparse  |-> [buckets |-> [k \in {"monitoring_audit"} |-> DefaultBuckets[k]], compliant |-> 8500, partial |-> 4500,
                  quality |-> 6500, blocks |-> TRUE, contradiction |-> 1500, review_contradiction |-> 3400,
                  review_weak |-> 3500]]

\* What an attempt finds: a policy, and a decision or none.
On(p) == [policy |-> p, settle |-> Undecided, applicable |-> FALSE, manual |-> Undecided]
Terms2 == {<<On("default"), On("sparse")>>,
           <<On("edited"), [On("default") EXCEPT !.settle = "not_applicable"]>>,
           <<[On("default") EXCEPT !.manual = "non_compliant"], [On("sparse") EXCEPT !.applicable = TRUE]>>}

\* Any evidence and any answer for the first objective, beside an easy second one; two
\* attempts on a control with few answers, and on a control without evidence.
Wide(S, c, k, p) == [evidence |-> <<About(S, c), Plain>>, bucket |-> Text(k, "policy_governance"),
                     answers |-> <<AnyOf(1), {Answer(2, "yes", "config")}>>, terms |-> <<On(p), On(p)>>,
                     attempts |-> 1, crashes |-> 0]
Deep(S, terms) == [evidence |-> <<Plain, About(S, <<6000, FALSE>>)>>,
                   bucket |-> Text("identity_and_access_enforcement", "procedure_execution"),
                   answers |-> <<{Answer(1, "yes", "config")} \cup Misnamed(1),
                                 {Answer(2, "yes", "config"), Answer(2, "no", Uncited)} \cup Misnamed(2)>>,
                   terms |-> terms, attempts |-> 2, crashes |-> 1]
Bare(terms) == [evidence |-> <<About({}, <<0, FALSE>>), About({}, <<0, FALSE>>)>>,
                bucket |-> Text("policy_governance", "policy_governance"),
                answers |-> <<{}, {}>>, terms |-> terms, attempts |-> 2, crashes |-> 1]

Buckets2 == {<<"policy_governance", "default">>, <<"technical_enforcement", "default">>,
             <<"identity_and_access_enforcement", "default">>,
             <<"technical_enforcement", "edited">>, <<"identity_and_access_enforcement", "edited">>}
Given == {<<S, c, k>> \in (SUBSET DOMAIN Documents \ {{}}) \X Coverage \X Buckets2 : Together(S, c)}
Worlds == [w \in ({"wide"} \X Given) \cup ({"deep"} \X {{"config"}, {"roadmap", "audit"}} \X Terms2)
                 \cup ({"bare"} \X Terms2) \cup {<<"rest">>} |->
           CASE w[1] = "wide" -> Wide(w[2][1], w[2][2], w[2][3][1], w[2][3][2])
             [] w[1] = "deep" -> Deep(w[2], w[3])
             [] w[1] = "bare" -> Bare(w[2])
             [] OTHER -> Bare(<<On("default"), On("default")>>)]

----------------------------------------------------------------------------
(* Decisions that stand, and the policies: numbers of requests about       *)
(* policies, of decisions, of changes, of failures, and the assessments.   *)

Bound(policies, decisions, changes, faults, runs) ==
    [requests |-> policies, decisions |-> decisions, changes |-> changes, faults |-> faults, runs |-> runs]
Several == {Bound(0, 0, 0, 0, {}), Bound(6, 0, 0, 0, {}), Bound(0, 3, 0, 0, {1}), Bound(0, 2, 0, 0, {1, 2}),
            Bound(0, 1, 1, 1, {1, 2}), Bound(0, 0, 1, 0, {1, 2, 3}), Bound(3, 0, 0, 0, {1, 2})}

Symmetry == Permutations(Officer) \cup Permutations(Assessor) \cup Permutations(Fingerprint)

(* One of the two is at work, the other at rest.                           *)
Judging == world[1] # "rest"
DecisionsInit == Init /\ StandingInit /\ Judging = (budget = Bound(0, 0, 0, 0, {}))
DecisionsNext == \/ Judging /\ Next /\ UNCHANGED standingVars
                 \/ StandingNext /\ UNCHANGED vars
DecisionsSpec == DecisionsInit /\ [][DecisionsNext]_<<vars, standingVars>>
=============================================================================
