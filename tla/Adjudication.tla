----------------------------- MODULE Adjudication -----------------------------
(***************************************************************************)
(* How one control of an assessment gets its determination: the model      *)
(* answers for every objective from the evidence, the policy turns the     *)
(* answers into objective rows and a control status, and every stage is    *)
(* committed on its own (services/assessment_pipeline.py), first for the   *)
(* run (services/assessment_engine.py) and again for a retry of a finding  *)
(* that could not be read (services/retry_engine.py).  A run looks first   *)
(* whether a decision settles the control without all this, and lets a     *)
(* decision overrule what comes of it; a retry asks no decision.           *)
(*                                                                         *)
(* Scores are in units of 10^-4, weights of 10^-2.  A packet is a document *)
(* of its own, and the prompt holds every packet considered.  The flags    *)
(* for inherited and compensating context and the confidence are left out. *)
(***************************************************************************)
EXTENDS Integers, FiniteSets, FiniteSetsExt, Folds

CONSTANTS
    Attempt,    \* attempts on the control, numbered as they begin
    Objective,  \* the objectives of the control, numbered in their order
    Packet,     \* the evidence packets: what an objective's map says of each, by name
    Rules,      \* the policies, by name: active buckets and thresholds
    World,      \* what the pipeline is given, by name: evidence of each objective, the
                \* bucket of its text, the answers the model may give, the policy and the
                \* decisions that each attempt finds, and two bounds: attempts on the
                \* control and deaths of the worker
    Stranger    \* an objective id of the model's own making

DefaultBuckets ==
    [policy_governance                  |-> [weight |->  80, critical |-> FALSE, min |-> 5000, penalty |-> 1500, cap |-> 4000],
     procedure_execution                |-> [weight |-> 100, critical |-> FALSE, min |-> 5500, penalty |-> 2000, cap |-> 4000],
     technical_enforcement              |-> [weight |-> 130, critical |-> FALSE, min |-> 7000, penalty |-> 2500, cap |-> 2500],
     monitoring_audit                   |-> [weight |-> 110, critical |-> FALSE, min |-> 6500, penalty |-> 2500, cap |-> 3000],
     crypto_and_key_management          |-> [weight |-> 140, critical |-> TRUE,  min |-> 7500, penalty |-> 3000, cap |-> 2000],
     identity_and_access_enforcement    |-> [weight |-> 140, critical |-> TRUE,  min |-> 7500, penalty |-> 3000, cap |-> 2000],
     vulnerability_and_flaw_remediation |-> [weight |-> 115, critical |-> FALSE, min |-> 6500, penalty |-> 2500, cap |-> 3000],
     inherited_control_support          |-> [weight |->  95, critical |-> FALSE, min |-> 7000, penalty |-> 2000, cap |-> 2000],
     compensating_control_support       |-> [weight |->  90, critical |-> FALSE, min |-> 7500, penalty |-> 2000, cap |-> 2000],
     negative_evidence                  |-> [weight |-> 120, critical |-> FALSE, min |-> 6000, penalty |-> 3000, cap |-> 1000]]
BucketKey == DOMAIN DefaultBuckets
Bucketing == [weight : Int, critical : BOOLEAN, min : Int, penalty : Int, cap : Int]
IsPolicy(p) ==
    /\ DOMAIN p.buckets \subseteq BucketKey /\ \A k \in DOMAIN p.buckets : p.buckets[k] \in Bucketing
    /\ {p.compliant, p.partial, p.quality, p.contradiction, p.review_contradiction, p.review_weak} \subseteq Int
    /\ p.blocks \in BOOLEAN

Strength == [strong |-> 10000, moderate |-> 7800, weak |-> 5000, insufficient |-> 2000]
ArtifactQuality == [technical_config |-> 1600, implementation_statement |-> 1000, test_evidence |-> 1400,
                    procedure |-> 800, policy |-> 400, audit_artifact |-> -1000, other |-> 0]
SourceQuality == [project |-> 800, common_control |-> 800, policy |-> 200, procedure |-> 300]

Packets == [strength : DOMAIN Strength, artifact : DOMAIN ArtifactQuality, source : DOMAIN SourceQuality,
            intent : {"implements", "plans", "documents_gaps", "evaluates", "other"},
            role : {"supporting", "contradictory", "partial", "irrelevant"},
            relevance : 0 .. 20000, score : 0 .. 10000, satisfied : BOOLEAN]
Ids == Objective \cup {Stranger}
NoId == 0
Uncited == "none"
Answers == [id : Ids \cup {NoId}, met : {"yes", "partial", "no"}, cite : DOMAIN Packet \cup {"invented", Uncited}]

Evidences == [packets : SUBSET DOMAIN Packet, score : 0 .. 10000, satisfied : BOOLEAN]
Statuses == {"compliant", "partially_compliant", "non_compliant"}
Determined == Statuses \cup {"not_applicable"}
Undecided == "none"
\* The policy of an attempt; the status by which a decision or an earlier finding settles
\* the control, "applicable", and the manual status.
Circumstances == [policy : DOMAIN Rules, settle : Determined \cup {Undecided},
                  applicable : BOOLEAN, manual : Determined \cup {Undecided}]
Inputs == [evidence : [Objective -> Evidences],
           bucket : [Ids -> BucketKey \ {"negative_evidence"}], answers : [Objective -> SUBSET Answers],
           terms : [Attempt -> Circumstances], attempts : Nat, crashes : Nat]

ASSUME AttemptAssumption == Attempt \subseteq Nat \ {0}
ASSUME PacketAssumption == IsFiniteSet(DOMAIN Packet) /\ \A p \in DOMAIN Packet : Packet[p] \in Packets
ASSUME ObjectiveAssumption == /\ Objective \subseteq Nat \ {0} /\ IsFiniteSet(Objective) /\ Objective # {}
                              /\ Stranger \in Nat \ (Objective \cup {0})
ASSUME RulesAssumption == \A name \in DOMAIN Rules : IsPolicy(Rules[name])
ASSUME WorldAssumption == \A w \in DOMAIN World : World[w] \in Inputs

VARIABLES
    world,     \* the member of World that the control lives in
    rows,      \* objective_determinations of the control
    det,       \* its control_determinations row
    challenge, \* its assessment_challenges row: the attempt that wrote it
    finding,   \* its control_findings row
    attempt,   \* the coroutines that assess the control, with their local variables
    crashes,   \* bound: deaths of the worker so far
    overlapped \* history: two attempts were under way together

vars == <<world, rows, det, challenge, finding, attempt, crashes, overlapped>>

Nobody == 0
NoRow == [by |-> Nobody, status |-> "none", met |-> "none", packet |-> Uncited]
NoVerdict == [rows |-> [o \in Ids |-> NoRow], status |-> "none", manual |-> FALSE]
NoDet == [by |-> Nobody, status |-> "none", manual |-> FALSE]
NoFinding == [by |-> Nobody, kind |-> "none", status |-> "none", manual |-> FALSE]
NoAttempt == [pc |-> "unused", run |-> FALSE, verdict |-> NoVerdict]

Init ==
    /\ world \in DOMAIN World
    /\ rows = [o \in Ids |-> NoRow]
    /\ det = NoDet /\ challenge = Nobody /\ finding = NoFinding
    /\ attempt = [t \in Attempt |-> NoAttempt]
    /\ crashes = 0
    /\ overlapped = FALSE

----------------------------------------------------------------------------
(* The evidence of an objective.                                           *)

NoEvidence == [packets |-> {}, score |-> 0, satisfied |-> FALSE]
Evidence(o) == IF o \in Objective THEN World[world].evidence[o] ELSE NoEvidence
AllPackets == UNION {Evidence(o).packets : o \in Objective}

\* contradiction_ratio of _build_objective_evidence_maps.
Ratio(o) ==
    LET against == {p \in Evidence(o).packets : Packet[p].role = "contradictory"}
    IN (10000 * Cardinality(against)) \div Max({1, Cardinality(Evidence(o).packets)})

\* _best_objective_packet.
Better(p, q) ==
    LET one == Packet[p]  other == Packet[q]
    IN \/ Strength[one.strength] > Strength[other.strength]
       \/ /\ Strength[one.strength] = Strength[other.strength]
          /\ \/ one.score > other.score
             \/ one.score = other.score /\ one.relevance >= other.relevance
Best(o) ==
    LET eligible == {p \in Evidence(o).packets : /\ Packet[p].role # "contradictory"
                                                 /\ Packet[p].intent \notin {"plans", "documents_gaps"}}
    IN IF eligible = {} THEN Uncited ELSE CHOOSE p \in eligible : \A q \in eligible : Better(p, q)

\* _deterministic_fallback_packet.
Fallback(o, a) ==
    LET best == Best(o)
        own == Packet[best].score
        all == Evidence(o).score
    IN IF \/ Ratio(o) >= 1500
          \/ best = Uncited
          \/ a.met = "no" /\ (Max({own, all}) < 5500 \/ (own < 5800 /\ all < 6500))
       THEN Uncited ELSE best

\* The packet an answer rests on: cited from the objective's own evidence, from another
\* objective's, or else the fallback.
Resolved(o, a) == IF a.cite \in Evidence(o).packets \cup AllPackets THEN a.cite ELSE Fallback(o, a)

----------------------------------------------------------------------------
(* The policy.                                                             *)

AtLeast(x, y) == Max({x, y})
AtMost(x, y) == Min({x, y})
Or(x, default) == IF x = 0 THEN default ELSE x

\* build_policy_runtime: a policy without an active bucket has the default ones.  The
\* bucket of an objective is the one its text names, or else the one for procedures, and
\* what is zero or missing in it counts as a default.
Buckets(p) == IF DOMAIN p.buckets = {} THEN DefaultBuckets ELSE p.buckets
Unbucketed == [weight |-> 0, critical |-> FALSE, min |-> 0, penalty |-> 0, cap |-> 0]
Named(p, key) == IF key \in DOMAIN Buckets(p) THEN Buckets(p)[key]
                 ELSE IF "procedure_execution" \in DOMAIN Buckets(p) THEN Buckets(p)["procedure_execution"]
                 ELSE Unbucketed
Filled(b) == [b EXCEPT !.weight = Or(@, 100), !.min = Or(@, 5000), !.cap = Or(@, 4000)]
Bucket(p, o) == Filled(Named(p, World[world].bucket[o]))

\* _objective_evidence_quality.
QualityUncapped(b, a, packet) ==   \* (seeded fault: a plan is worth what current evidence is)
    IF packet = Uncited THEN IF a.met = "no" THEN 1800 ELSE 2800
    ELSE LET k == Packet[packet]
         IN AtMost(10000, Strength[k.strength] + ArtifactQuality[k.artifact] + SourceQuality[k.source]
                          + AtMost(1600, (18 * k.score) \div 100))
Quality(b, a, packet) ==
    IF packet = Uncited THEN IF a.met = "no" THEN 1800 ELSE 2800
    ELSE LET k == Packet[packet]
             raw == Strength[k.strength] + ArtifactQuality[k.artifact] + SourceQuality[k.source]
                    + (IF a.cite # Uncited THEN 500 ELSE 0)
                    + AtMost(1600, (18 * k.score) \div 100)
                    + (IF k.satisfied THEN 800 ELSE 0)
             bent == IF k.intent = "plans" THEN AtMost(raw, b.cap)
                     ELSE IF k.intent \in {"documents_gaps", "evaluates"} THEN AtLeast(1000, raw - 2000)
                     ELSE raw
         IN AtLeast(500, AtMost(10000, bent))

\* _deterministic_objective_support.
Closure(o, b, packet, q) ==
    LET k == Packet[packet]
        e == Evidence(o)
        current == /\ k.source \in {"project", "common_control"}
                   /\ k.strength \in {"strong", "moderate"}
                   /\ k.intent = "implements"
                   /\ k.artifact \notin {"audit_artifact", "other"}
        specific == k.relevance >= 11500 \/ k.score >= 5800 \/ e.score >= 5800
    IN IF packet = Uncited THEN "none"
       ELSE IF \/ k.role = "contradictory"
               \/ k.intent \in {"plans", "documents_gaps"}
               \/ Ratio(o) >= 2000 THEN "none"
       ELSE IF (k.satisfied \/ e.satisfied) /\ q >= AtLeast(5000, (70 * b.min) \div 100) THEN "met"
       ELSE IF current /\ specific /\ q >= AtLeast(5800, (82 * b.min) \div 100) THEN "met"
       ELSE IF current /\ specific /\ q >= 4500 THEN "partial"
       ELSE "none"

\* One round of the loop of _policy_based_verdict: an answer is read in the light of the
\* closure contract, its support blended from three sources and bent by the evidence's
\* quality and by what speaks against it.
Effective(a, closure) == IF closure = "met" THEN "yes"
                         ELSE IF closure = "partial" /\ a.met = "no" THEN "partial" ELSE a.met
Against(o, effective) == IF effective = "no" THEN 0 ELSE Ratio(o)
Said(a) == IF a.met = "yes" THEN 10000 ELSE IF a.met = "partial" THEN 5000 ELSE 0
Covered(o) ==
    LET e == Evidence(o)
    IN IF e.satisfied THEN 10000
       ELSE IF e.score >= 7000 THEN 8500 ELSE IF e.score >= 5800 THEN 6500 ELSE 0
Contracted(a, closure) ==
    IF closure = "met" THEN 10000 ELSE IF closure = "partial" /\ a.met = "no" THEN 5000 ELSE 0
Base(o, a, closure) == AtLeast(Said(a), AtLeast(Covered(o), Contracted(a, closure)))
Factored(b, base, q) == IF q >= b.min THEN base ELSE AtLeast(base \div 5, (base * q) \div AtLeast(b.min, 100))
Floor(o, contra) ==
    LET e == Evidence(o)
    IN IF e.satisfied /\ contra < 1500 THEN 9200
       ELSE IF e.score >= 7000 /\ contra < 1500 THEN 8200
       ELSE IF e.score >= 5800 /\ contra < 2000 THEN 6000 ELSE 0
Supported(o, b, factored, contra) ==
    AtLeast(0, AtLeast(factored - (contra * b.penalty) \div 10000, Floor(o, contra)))
Scored(b, effective, support, q) ==
    IF effective = "no" \/ support < 2000 THEN "not_met"
    ELSE IF support >= 8500 /\ q >= b.min THEN "met"
    ELSE IF support >= 3500 THEN "partially_met" ELSE "not_met"
Settled(o, b, closure, scored, contra, q) ==
    LET e == Evidence(o)
    IN IF closure = "met" /\ contra < 1500 THEN "met"
       ELSE IF e.satisfied /\ contra < 1500 /\ q >= AtLeast(4500, (80 * b.min) \div 100) THEN "met"
       ELSE IF scored = "not_met" /\ e.score >= 5800 /\ contra < 2000 THEN "partially_met"
       ELSE scored
Judged(p, o, b, a, packet, q, closure, contra, support, status) ==
    [id |-> o, met |-> a.met, packet |-> packet, status |-> status,
     weight |-> b.weight, support |-> support, quality |-> q, contra |-> contra,
     fails |-> b.critical /\ status = "not_met",
     manual |-> \/ q < p.review_weak /\ Effective(a, closure) # "no"
                \/ contra >= p.review_contradiction
                \/ Evidence(o).score < 4500 /\ Effective(a, closure) # "no" /\ closure # "met"]
Weighed(p, o, b, a, packet, q, closure, contra, support) ==
    Judged(p, o, b, a, packet, q, closure, contra, support,
           Settled(o, b, closure, Scored(b, Effective(a, closure), support, q), contra, q))
Read(p, o, b, a, packet, q, closure, contra) ==
    Weighed(p, o, b, a, packet, q, closure, contra,
            Supported(o, b, Factored(b, Base(o, a, closure), q), contra))
Closed(p, o, b, a, packet, q, closure) ==
    Read(p, o, b, a, packet, q, closure, Against(o, Effective(a, closure)))
Rated(p, o, b, a, packet, q) == Closed(p, o, b, a, packet, q, Closure(o, b, packet, q))
Found(p, o, b, a, packet) == Rated(p, o, b, a, packet, Quality(b, a, packet))
Adjudged(p, o, a) == Found(p, o, Bucket(p, o), a, Resolved(o, a))

\* _dedupe_gap_analysis: of the answers with one id the best one, the first of equals.
Rank(a) == (CASE a.met = "yes" -> 9 [] a.met = "partial" -> 6 [] OTHER -> 3)
           + (IF a.cite = Uncited THEN 0 ELSE 1)
Deduped(given) ==   \* the objectives whose answer counts
    {o \in Objective :
        /\ given[o].id # NoId
        /\ \A n \in Objective \ {o} : given[n].id = given[o].id =>
               \/ Rank(given[o]) > Rank(given[n])
               \/ Rank(given[o]) = Rank(given[n]) /\ o < n}

\* The end of _policy_based_verdict: the control's status out of its objectives.  A
\* weighted mean is compared with a threshold; without any weight it is zero.
Total(judged, f(_)) == MapThenSumSet(LAMBDA j : f(j) * j.weight, judged)
Reaches(total, possible, threshold) == IF possible > 0 THEN total >= threshold * possible
                                       ELSE IF possible < 0 THEN total <= threshold * possible
                                       ELSE 0 >= threshold
Mean(judged, f(_), threshold) == Reaches(Total(judged, f), Total(judged, LAMBDA j : 1), threshold)
CompliantOnScores(p, judged) ==   \* (seeded fault: unresolved objectives do not count)
    /\ ~(p.blocks /\ \E j \in judged : j.fails)
    /\ Mean(judged, LAMBDA j : j.support, p.compliant)
Compliant(p, judged) ==
    /\ \A j \in judged : j.status = "met"
    /\ ~(p.blocks /\ \E j \in judged : j.fails)
    /\ Mean(judged, LAMBDA j : j.support, p.compliant)
    /\ Mean(judged, LAMBDA j : j.quality, p.quality)
    /\ Mean(judged, LAMBDA j : -j.contra, -p.contradiction)
Verdict(t, p, judged) ==
    LET status == IF Compliant(p, judged) THEN "compliant"
                  ELSE IF \/ Mean(judged, LAMBDA j : j.support, p.partial)
                          \/ \E j \in judged : j.status # "not_met"
                  THEN "partially_compliant" ELSE "non_compliant"
    IN [rows |-> [o \in Ids |-> IF \E j \in judged : j.id = o
                                THEN LET j == CHOOSE k \in judged : k.id = o
                                     IN [by |-> t, status |-> j.status, met |-> j.met, packet |-> j.packet]
                                ELSE NoRow],
        status |-> status,
        manual |-> \E j \in judged : j.manual]

----------------------------------------------------------------------------
(* An attempt on the control.                                              *)

Terms(t) == World[world].terms[t]
RulesOf(t) == Rules[Terms(t).policy]

Move(t, pc) == attempt' = [attempt EXCEPT ![t].pc = pc]
End(t) == attempt' = [attempt EXCEPT ![t] = [NoAttempt EXCEPT !.pc = "ended"]]
UnderWay == {t \in Attempt : attempt[t].pc \notin {"unused", "ended"}}
Evidenced == AllPackets # {}

\* _reset_control_stage_rows.
ResetRows ==   \* (seeded fault: the reset forgets the control's determination)
    rows' = [o \in Ids |-> NoRow] /\ challenge' = Nobody /\ UNCHANGED det
Reset == rows' = [o \in Ids |-> NoRow] /\ det' = NoDet /\ challenge' = Nobody

\* A run assesses the controls it has no finding of, a retry those with a finding that
\* could not be read.  What settles a control settles it for a run only.  Without
\* evidence the reset waits for the commit of the finding.
Open(t, pc) ==
    attempt' = [attempt EXCEPT ![t] = [NoAttempt EXCEPT !.pc = pc, !.run = (finding = NoFinding)]]
Begin(t) ==
    /\ attempt[t] = NoAttempt /\ t <= World[world].attempts
    /\ \A u \in Attempt : u < t => attempt[u].pc # "unused"
    /\ finding.status \in {"none", "not_reviewed"}
    /\ IF finding = NoFinding /\ Terms(t).settle # Undecided
       THEN Open(t, "settle") /\ UNCHANGED <<rows, det, challenge>>
       ELSE IF Evidenced THEN Open(t, "review") /\ Reset
       ELSE Open(t, "bare") /\ UNCHANGED <<rows, det, challenge>>
    /\ overlapped' = (overlapped \/ UnderWay # {})
    /\ UNCHANGED <<world, finding, crashes>>

\* The finding: a run inserts it, a retry overwrites the one there is.
Write(t, found) == finding' = IF attempt[t].run \/ finding # NoFinding THEN found ELSE finding

\* A finding carried forward, a control the system profile or an assessor excludes, and a
\* satisfied control: the finding is inserted as it is, and no stage begins.
RecordDecision(t) ==
    /\ attempt[t].pc = "settle"
    /\ Write(t, [by |-> t, kind |-> "settled", status |-> Terms(t).settle, manual |-> FALSE])
    /\ End(t)
    /\ UNCHANGED <<world, rows, det, challenge, crashes, overlapped>>

\* The model answers for every objective; the rows of the answers replace those of the
\* same ids.
Review(t) ==
    /\ attempt[t].pc = "review"
    /\ \E given \in [Objective -> UNION {World[world].answers[o] : o \in Objective}] :
          /\ \A o \in Objective : given[o] \in World[world].answers[o]
          /\ \E verdict \in {Verdict(t, RulesOf(t),
                                     {Adjudged(RulesOf(t), given[o].id, given[o]) : o \in Deduped(given)})} :
                IF Deduped(given) = {}
                THEN Move(t, "legacy") /\ UNCHANGED rows
                ELSE /\ attempt' = [attempt EXCEPT ![t].pc = "determine", ![t].verdict = verdict]
                     /\ rows' = [o \in Ids |-> IF verdict.rows[o] = NoRow THEN rows[o] ELSE verdict.rows[o]]
    /\ UNCHANGED <<world, det, challenge, finding, crashes, overlapped>>

Determine(t) ==
    /\ attempt[t].pc = "determine"
    /\ det' = [by |-> t, status |-> attempt[t].verdict.status, manual |-> attempt[t].verdict.manual]
    /\ Move(t, "challenge")
    /\ UNCHANGED <<world, rows, challenge, finding, crashes, overlapped>>

Challenge(t) ==
    /\ attempt[t].pc = "challenge"
    /\ challenge' = t
    /\ Move(t, "write")
    /\ UNCHANGED <<world, rows, det, finding, crashes, overlapped>>

\* What an assessor has decided overrules the answer, in a run.
Overruled(t) == attempt[t].run /\ Terms(t).manual # Undecided
AsDecided(t, answer) ==
    IF Overruled(t) THEN Terms(t).manual
    ELSE IF attempt[t].run /\ Terms(t).applicable /\ answer = "not_applicable" THEN "partially_compliant"
    ELSE answer

\* A retry takes the flag of manual review away.
Finish(t) ==
    /\ attempt[t].pc = "write"
    /\ Write(t, [by |-> t, kind |-> IF Overruled(t) THEN "overruled" ELSE "adjudicated",
                 status |-> AsDecided(t, attempt[t].verdict.status),
                 manual |-> attempt[t].verdict.manual /\ attempt[t].run])
    /\ End(t)
    /\ UNCHANGED <<world, rows, det, challenge, crashes, overlapped>>

\* No evidence or no usable answer: one call of the model decides, or fails to.
Legacy(t) ==
    /\ attempt[t].pc \in {"bare", "legacy"}
    /\ \E answer \in Determined \cup {"not_reviewed"} :
          Write(t, IF answer = "not_reviewed" /\ ~attempt[t].run
                   THEN [finding EXCEPT !.manual = TRUE]
                   ELSE [by |-> t, kind |-> "legacy", status |-> AsDecided(t, answer), manual |-> FALSE])
    /\ IF attempt[t].pc = "bare" THEN Reset ELSE UNCHANGED <<rows, det, challenge>>
    /\ End(t)
    /\ UNCHANGED <<world, crashes, overlapped>>

\* An exception, and the death of the worker: what was committed stays.
Raise(t) ==
    /\ attempt[t].pc \notin {"unused", "ended"}
    /\ End(t)
    /\ UNCHANGED <<world, rows, det, challenge, finding, crashes, overlapped>>

Crash ==
    /\ UnderWay # {}
    /\ crashes < World[world].crashes /\ crashes' = crashes + 1
    /\ attempt' = [t \in Attempt |-> IF t \in UnderWay THEN [NoAttempt EXCEPT !.pc = "ended"]
                                     ELSE attempt[t]]
    /\ UNCHANGED <<world, rows, det, challenge, finding, overlapped>>

Next == \/ \E t \in Attempt : \/ Begin(t) \/ RecordDecision(t) \/ Review(t) \/ Determine(t) \/ Challenge(t)
                              \/ Finish(t) \/ Legacy(t) \/ Raise(t)
        \/ Crash

Spec == Init /\ [][Next]_vars

----------------------------------------------------------------------------
(* Properties.                                                             *)

Row == [by : Attempt, status : {"met", "partially_met", "not_met"}, met : {"yes", "partial", "no"},
        packet : DOMAIN Packet \cup {Uncited}]
Attempts == [pc : {"unused", "settle", "bare", "review", "legacy", "determine", "challenge", "write", "ended"},
             run : BOOLEAN,
             verdict : [rows : [Ids -> Row \cup {NoRow}], status : Statuses \cup {"none"}, manual : BOOLEAN]]
Findings == [by : Attempt, kind : {"adjudicated", "overruled", "settled"}, status : Determined, manual : BOOLEAN]
            \cup [by : Attempt, kind : {"legacy"}, status : Determined \cup {"not_reviewed"}, manual : BOOLEAN]

\* Every variable stays in its type.
TypeOK ==
    /\ world \in DOMAIN World
    /\ rows \in [Ids -> Row \cup {NoRow}]
    /\ det \in {NoDet} \cup [by : Attempt, status : Statuses, manual : BOOLEAN]
    /\ challenge \in Attempt \cup {Nobody}
    /\ finding \in {NoFinding} \cup Findings
    /\ attempt \in [Attempt -> Attempts]
    /\ crashes \in Nat /\ overlapped \in BOOLEAN

\* The records of a control are of one attempt, whatever was interrupted before: the
\* determination agrees with the objective rows beneath it, and the finding with both,
\* or with the manual status that overruled them, unless two attempts were under way
\* together.  A finding that a decision settled stands beside whatever an interrupted
\* attempt left.
Present == {o \in Ids : rows[o] # NoRow}
RecordsAgree ==
    ~overlapped =>
       /\ det # NoDet =>
             /\ Present # {} /\ \A o \in Present : rows[o].by = det.by
             /\ det.status = "compliant" => \A o \in Present : rows[o].status = "met"
             /\ det.status = "non_compliant" => \A o \in Present : rows[o].status = "not_met"
       /\ finding.kind \in {"adjudicated", "overruled"} =>
             /\ {finding.by} = {det.by, challenge}
             /\ finding.status = IF finding.kind = "overruled" THEN Terms(det.by).manual ELSE det.status
       /\ finding.kind = "legacy" /\ UnderWay = {} /\ finding.status # "not_reviewed" => det = NoDet

\* Whatever the model answers, an objective is met neither by a plan nor by nothing at
\* all; and where the model did not say it is, the code says so only on strong evidence of
\* how the system is now, or where the closure contract is satisfied, by that document or
\* by all together - for an answer of "partial" also where it is covered by seven tenths.
\* A policy may give this up: it has to ask for more than nothing and a plan are worth.
Strict(b) == b.min > 2800 /\ b.cap < b.min /\ b.cap < 4500 /\ b.penalty >= 0
Current(k) == /\ k.role # "contradictory" /\ k.intent = "implements"
              /\ k.source \in {"project", "common_control"} /\ k.strength \in {"strong", "moderate"}
MostlyCovered(o) == Evidence(o).score >= 7000
Grounded(o, met, packet) ==
    /\ packet # Uncited
    /\ Packet[packet].intent # "plans"
    /\ \/ met = "yes"
       \/ Evidence(o).satisfied \/ Packet[packet].satisfied
       \/ met = "partial" /\ MostlyCovered(o)
       \/ Current(Packet[packet])
MetByCurrentEvidence ==
    \A o \in Present : rows[o].status = "met" /\ Strict(Bucket(RulesOf(rows[o].by), o)) =>
                          Grounded(o, rows[o].met, rows[o].packet)

\* Whatever the policy asks for, a control determined as compliant has every objective met, and if
\* it asks for no review no objective with as large a share of its documents against it
\* as the policy reviews, except where the model misnamed an objective (its row is
\* missing) or an explicit "no" was overruled (the evidence against is then not counted).
CompliantIsEarned ==
    det.status = "compliant" /\ ~overlapped =>
        \A o \in Objective \cap Present :
            /\ rows[o].status = "met"
            /\ Ratio(o) >= RulesOf(det.by).review_contradiction /\ ~det.manual => rows[o].met = "no"
----------------------------------------------------------------------------
(* Inductive invariants, for the proofs.                                   *)

\* What the policy made of an attempt's answers.
RowsOf(v) == {o \in Ids : v.rows[o] # NoRow}
Sound(t, v) ==
    /\ v \in [rows : [Ids -> Row \cup {NoRow}], status : Statuses, manual : BOOLEAN]
    /\ RowsOf(v) # {}
    /\ \A o \in RowsOf(v) :
          /\ v.rows[o].by = t
          /\ v.rows[o].status = "met" /\ Strict(Bucket(RulesOf(t), o)) =>
                Grounded(o, v.rows[o].met, v.rows[o].packet)
          /\ v.status = "compliant" => v.rows[o].status = "met"
          /\ v.status = "non_compliant" => v.rows[o].status = "not_met"
          /\ Ratio(o) >= RulesOf(t).review_contradiction /\ ~v.manual => v.rows[o].met = "no"
Holding(t) == attempt[t].pc \in {"determine", "challenge", "write"}

\* The records as an attempt that is alone leaves them, stage by stage ...
DetOf(t) == [by |-> t, status |-> attempt[t].verdict.status, manual |-> attempt[t].verdict.manual]
Recorded(t) ==
    /\ finding.status \in {"none", "not_reviewed"}
    /\ attempt[t].pc = "review" => \A o \in Ids : rows[o] = NoRow
    /\ attempt[t].pc \in {"review", "legacy", "determine"} => det = NoDet
    /\ Holding(t) => rows = attempt[t].verdict.rows
    /\ attempt[t].pc \in {"challenge", "write"} => det = DetOf(t)
    /\ attempt[t].pc = "write" => challenge = t

HeldSound ==
    /\ \A t \in Attempt : Holding(t) => \A v \in {attempt[t].verdict} : Sound(t, v)
    /\ \A t \in Attempt : attempt[t].pc = "settle" => Terms(t).settle # Undecided
DetSound ==
    det # NoDet =>
        \A t \in {det.by}, v \in {[rows |-> rows, status |-> det.status, manual |-> det.manual]} : Sound(t, v)
FindingSound ==
    /\ finding.kind \in {"adjudicated", "overruled"} =>
          /\ {finding.by} = {det.by, challenge}
          /\ finding.status = IF finding.kind = "overruled" THEN Terms(det.by).manual ELSE det.status
    /\ finding.kind = "legacy" /\ finding.status # "not_reviewed" => det = NoDet
AloneInv ==
    /\ \A t, u \in UnderWay : t = u
    /\ \A t \in UnderWay : Recorded(t)
    /\ DetSound
    /\ FindingSound

\* ... and the strengthening of RecordsAgree, MetByCurrentEvidence and CompliantIsEarned.
RecordsInv ==
    /\ HeldSound
    /\ MetByCurrentEvidence
    /\ ~overlapped => AloneInv
=============================================================================
