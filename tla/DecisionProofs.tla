---------------------------- MODULE DecisionProofs ----------------------------
(***************************************************************************)
(* Proofs about what an assessment concludes and what stands behind it:    *)
(* the records of one control (Adjudication), the assessment policies      *)
(* (PolicyRegister), and the decisions about a control that outlive an     *)
(* assessment (StandingDecisions).                                         *)
(***************************************************************************)
EXTENDS Adjudication, StandingDecisions, FiniteSetTheorems, TLAPS

\* A finite set that is not empty has an element that nothing of the set exceeds, in
\* whatever order.
LEMMA Greatest ==
  ASSUME NEW S, IsFiniteSet(S), S # {}, NEW R,
         \A x \in S : <<x, x>> \notin R,
         \A x, y, z \in S : <<x, y>> \in R /\ <<y, z>> \in R => <<x, z>> \in R
  PROVE  \E x \in S : \A y \in S : <<x, y>> \notin R
<1> DEFINE Over(x) == {y \in S : <<x, y>> \in R}
           Overs == {Over(x) : x \in S}
<1>1. Overs \subseteq FiniteSubsetsOf(S) /\ Overs # {}
  <2>1. FiniteSubsetsOf(S) = SUBSET S
    BY FS_FiniteSubsetsOfFinite, Zenon
  <2>2. \A x \in S : Over(x) \in SUBSET S
    OBVIOUS
  <2>3. Overs \subseteq SUBSET S
    BY <2>2, ZenonT(60)
  <2>4. Overs # {}
    <3>1. PICK x \in S : TRUE
      OBVIOUS
    <3>2. Over(x) \in Overs
      OBVIOUS
    <3> QED BY <3>2
  <2> QED BY <2>1, <2>3, <2>4
<1>2. PICK T \in Overs : \A U \in Overs : ~(<<U, T>> \in StrictSubsetOrdering(S))
  BY <1>1, FS_StrictSubsetOrderingWellFounded, WFMin, Zenon
<1>3. PICK x \in S : T = Over(x)
  BY <1>2
<1>4. ASSUME NEW y \in Over(x) PROVE FALSE
  <2>1. Over(y) \subseteq Over(x) /\ y \notin Over(y) /\ y \in S
    BY <1>4
  <2>2. <<Over(y), Over(x)>> \in StrictSubsetOrdering(S)
    BY <1>4, <2>1 DEF StrictSubsetOrdering
  <2> QED BY <1>2, <1>3, <2>1, <2>2
<1> QED BY <1>4

----------------------------------------------------------------------------
(* The policy of an assessment: numbers, evidence and answers.             *)

\* The larger and the smaller of two numbers, and the largest of three.
LEMMA OfTwo ==
  ASSUME NEW x \in Int, NEW y \in Int
  PROVE  /\ Max({x, y}) = IF x >= y THEN x ELSE y
         /\ Min({x, y}) = IF x <= y THEN x ELSE y
<1>1. \E m \in {x, y} : \A n \in {x, y} : m >= n
  OBVIOUS
<1>2. \E m \in {x, y} : \A n \in {x, y} : m =< n
  OBVIOUS
<1>3. Max({x, y}) \in {x, y} /\ \A n \in {x, y} : Max({x, y}) >= n
  BY <1>1 DEF Max
<1>4. Min({x, y}) \in {x, y} /\ \A n \in {x, y} : Min({x, y}) =< n
  BY <1>2 DEF Min
<1> QED BY <1>3, <1>4

\* The bounds of the policy, as AtLeast and AtMost write them.
LEMMA Bounded ==
  ASSUME NEW x \in Int, NEW y \in Int
  PROVE  /\ AtLeast(x, y) = IF x >= y THEN x ELSE y
         /\ AtMost(x, y) = IF x <= y THEN x ELSE y
BY OfTwo, Zenon DEF AtLeast, AtMost

\* The default buckets hold numbers, and every one of them is strict.
LEMMA DefaultsType ==
  \A k \in BucketKey : DefaultBuckets[k] \in Bucketing /\ Strict(DefaultBuckets[k])
<1>1. BucketKey = {"policy_governance", "procedure_execution", "technical_enforcement", "monitoring_audit",
                   "crypto_and_key_management", "identity_and_access_enforcement",
                   "vulnerability_and_flaw_remediation", "inherited_control_support",
                   "compensating_control_support", "negative_evidence"}
  BY DEF BucketKey, DefaultBuckets
<1> DEFINE Fine(k) == DefaultBuckets[k] \in Bucketing /\ Strict(DefaultBuckets[k])
<1>2. Fine("policy_governance")
  <2>1. DefaultBuckets["policy_governance"] =
          [weight |->  80, critical |-> FALSE, min |-> 5000, penalty |-> 1500, cap |-> 4000]
    BY DEF DefaultBuckets
  <2> QED BY <2>1 DEF Bucketing, Strict
<1>3. Fine("procedure_execution")
  <2>1. DefaultBuckets["procedure_execution"] =
          [weight |-> 100, critical |-> FALSE, min |-> 5500, penalty |-> 2000, cap |-> 4000]
    BY DEF DefaultBuckets
  <2> QED BY <2>1 DEF Bucketing, Strict
<1>4. Fine("technical_enforcement")
  <2>1. DefaultBuckets["technical_enforcement"] =
          [weight |-> 130, critical |-> FALSE, min |-> 7000, penalty |-> 2500, cap |-> 2500]
    BY DEF DefaultBuckets
  <2> QED BY <2>1 DEF Bucketing, Strict
<1>5. Fine("monitoring_audit")
  <2>1. DefaultBuckets["monitoring_audit"] =
          [weight |-> 110, critical |-> FALSE, min |-> 6500, penalty |-> 2500, cap |-> 3000]
    BY DEF DefaultBuckets
  <2> QED BY <2>1 DEF Bucketing, Strict
<1>6. Fine("crypto_and_key_management")
  <2>1. DefaultBuckets["crypto_and_key_management"] =
          [weight |-> 140, critical |-> TRUE,  min |-> 7500, penalty |-> 3000, cap |-> 2000]
    BY DEF DefaultBuckets
  <2> QED BY <2>1 DEF Bucketing, Strict
<1>7. Fine("identity_and_access_enforcement")
  <2>1. DefaultBuckets["identity_and_access_enforcement"] =
          [weight |-> 140, critical |-> TRUE,  min |-> 7500, penalty |-> 3000, cap |-> 2000]
    BY DEF DefaultBuckets
  <2> QED BY <2>1 DEF Bucketing, Strict
<1>8. Fine("vulnerability_and_flaw_remediation")
  <2>1. DefaultBuckets["vulnerability_and_flaw_remediation"] =
          [weight |-> 115, critical |-> FALSE, min |-> 6500, penalty |-> 2500, cap |-> 3000]
    BY DEF DefaultBuckets
  <2> QED BY <2>1 DEF Bucketing, Strict
<1>9. Fine("inherited_control_support")
  <2>1. DefaultBuckets["inherited_control_support"] =
          [weight |->  95, critical |-> FALSE, min |-> 7000, penalty |-> 2000, cap |-> 2000]
    BY DEF DefaultBuckets
  <2> QED BY <2>1 DEF Bucketing, Strict
<1>10. Fine("compensating_control_support")
  <2>1. DefaultBuckets["compensating_control_support"] =
          [weight |->  90, critical |-> FALSE, min |-> 7500, penalty |-> 2000, cap |-> 2000]
    BY DEF DefaultBuckets
  <2> QED BY <2>1 DEF Bucketing, Strict
<1>11. Fine("negative_evidence")
  <2>1. DefaultBuckets["negative_evidence"] =
          [weight |-> 120, critical |-> FALSE, min |-> 6000, penalty |-> 3000, cap |-> 1000]
    BY DEF DefaultBuckets
  <2> QED BY <2>1 DEF Bucketing, Strict
<1> HIDE DEF Fine
<1>12. \A k \in BucketKey : Fine(k)
  BY <1>1, <1>2, <1>3, <1>4, <1>5, <1>6, <1>7, <1>8, <1>9, <1>10, <1>11
<1> QED BY <1>12 DEF Fine

\* The policy of an attempt.
LEMMA TermsType ==
  ASSUME world \in DOMAIN World, NEW t \in Attempt
  PROVE  Terms(t) \in Circumstances /\ IsPolicy(RulesOf(t))
<1>1. World[world].terms \in [Attempt -> Circumstances]
  BY WorldAssumption DEF Inputs
<1>2. Terms(t) \in Circumstances
  BY <1>1 DEF Terms
<1>3. Terms(t).policy \in DOMAIN Rules
  BY <1>2 DEF Circumstances
<1> QED BY <1>2, <1>3, RulesAssumption DEF RulesOf

\* The bucket of an objective holds numbers, whatever the policy says.
LEMMA BucketType ==
  ASSUME NEW p, IsPolicy(p), NEW o
  PROVE  Bucket(p, o) \in Bucketing
<1> DEFINE key == World[world].bucket[o]
           b == Named(p, key)
<1>1. \A k \in DOMAIN Buckets(p) : Buckets(p)[k] \in Bucketing
  BY DefaultsType DEF Buckets, IsPolicy, BucketKey
<1>2. b \in Bucketing
  BY <1>1 DEF Named, Unbucketed, Bucketing
<1> HIDE DEF b
<1> DEFINE w == Or(b.weight, 100)  m == Or(b.min, 5000)  c == Or(b.cap, 4000)
<1>3. w \in Int /\ m \in Int /\ c \in Int
  BY <1>2 DEF Or, Bucketing
<1> HIDE DEF w, m, c
<1>4. Filled(b) = [b EXCEPT !.weight = w, !.min = m, !.cap = c]
  BY DEF Filled, w, m, c
<1>5. Filled(b) \in Bucketing
  BY <1>2, <1>3, <1>4 DEF Bucketing
<1> QED BY <1>5 DEF Bucket, b

\* The points for what kind of document a packet is from.
LEMMA PointsType ==
  /\ \A s \in DOMAIN Strength : Strength[s] \in Nat
  /\ \A a \in DOMAIN ArtifactQuality : ArtifactQuality[a] \in Int
  /\ \A s \in DOMAIN SourceQuality : SourceQuality[s] \in Nat
<1>1. DOMAIN Strength = {"strong", "moderate", "weak", "insufficient"}
  BY DEF Strength
<1>2. DOMAIN ArtifactQuality = {"technical_config", "implementation_statement", "test_evidence",
                                "procedure", "policy", "audit_artifact", "other"}
  BY DEF ArtifactQuality
<1>3. DOMAIN SourceQuality = {"project", "common_control", "policy", "procedure"}
  BY DEF SourceQuality
<1>4. \A s \in DOMAIN Strength : Strength[s] \in Nat
  BY <1>1 DEF Strength
<1>5. \A a \in DOMAIN ArtifactQuality : ArtifactQuality[a] \in Int
  BY <1>2 DEF ArtifactQuality
<1>6. \A s \in DOMAIN SourceQuality : SourceQuality[s] \in Nat
  BY <1>3 DEF SourceQuality
<1> QED BY <1>4, <1>5, <1>6

\* The evidence of an objective, also of one that the model made up.
LEMMA EvidenceType ==
  ASSUME world \in DOMAIN World, NEW o \in Ids
  PROVE  /\ Evidence(o).packets \subseteq DOMAIN Packet /\ IsFiniteSet(Evidence(o).packets)
         /\ Evidence(o).score \in 0 .. 10000
<1>1. Evidence(o).packets \subseteq DOMAIN Packet /\ Evidence(o).score \in 0 .. 10000
  <2>1. CASE o \in Objective
    <3>1. World[world].evidence[o] \in Evidences
      <4>1. World[world].evidence \in [Objective -> Evidences]
        BY WorldAssumption DEF Inputs
      <4> QED BY <2>1, <4>1
    <3>2. Evidence(o) \in Evidences
      BY <2>1, <3>1, Zenon DEF Evidence
    <3> QED BY <3>2 DEF Evidences
  <2>2. CASE o \notin Objective
    BY <2>2 DEF Evidence, NoEvidence
  <2> QED BY <2>1, <2>2
<1>2. IsFiniteSet(Evidence(o).packets)
  <2>1. IsFiniteSet(DOMAIN Packet) /\ Evidence(o).packets \in SUBSET (DOMAIN Packet)
    BY <1>1, PacketAssumption
  <2> QED BY <2>1, FS_Subset, Zenon
<1> QED BY <1>1, <1>2

\* The share of the documents that speak against an objective.
LEMMA RatioType ==
  ASSUME world \in DOMAIN World, NEW o \in Ids
  PROVE  Ratio(o) \in Nat
<1> DEFINE against == {p \in Evidence(o).packets : Packet[p].role = "contradictory"}
           n == Cardinality(Evidence(o).packets)
           c == Cardinality(against)
<1>1. c \in Nat /\ n \in Nat
  <2>1. against \subseteq Evidence(o).packets /\ IsFiniteSet(Evidence(o).packets)
    BY EvidenceType
  <2> QED BY <2>1, FS_Subset, FS_CardinalityType, Zenon
<1> HIDE DEF c, n
<1>2. Max({1, n}) \in Nat \ {0}
  BY <1>1, OfTwo
<1>3. (10000 * c) \div Max({1, n}) \in Nat
  <2> DEFINE m == Max({1, n})
             x == 10000 * c
  <2>1. m \in Nat \ {0} /\ x \in Nat
    BY <1>1, <1>2
  <2> HIDE DEF m, x
  <2>2. x \div m \in Nat
    BY <2>1
  <2> QED BY <2>2 DEF x, m
<1> QED BY <1>3 DEF Ratio, c, n

\* What is known of a packet.
LEMMA PacketType ==
  ASSUME NEW p \in DOMAIN Packet
  PROVE  /\ Packet[p].score \in Int /\ Packet[p].relevance \in Int
         /\ Strength[Packet[p].strength] \in Int /\ ArtifactQuality[Packet[p].artifact] \in Int
         /\ SourceQuality[Packet[p].source] \in Int
<1> DEFINE k == Packet[p]
<1>1. k \in Packets
  BY PacketAssumption
<1> HIDE DEF k
<1> DEFINE score == k.score  relevance == k.relevance
<1>2. score \in 0 .. 10000 /\ relevance \in 0 .. 20000
  BY <1>1 DEF Packets
<1>3. k.strength \in DOMAIN Strength /\ k.artifact \in DOMAIN ArtifactQuality /\ k.source \in DOMAIN SourceQuality
  BY <1>1 DEF Packets
<1> HIDE DEF score, relevance
<1>4. score \in Int /\ relevance \in Int
  BY <1>2
<1> DEFINE x == Strength[k.strength]  y == ArtifactQuality[k.artifact]  z == SourceQuality[k.source]
<1>5. x \in Nat /\ y \in Int /\ z \in Nat
  BY <1>3, PointsType, Zenon
<1> HIDE DEF x, y, z
<1>6. x \in Int /\ z \in Int
  BY <1>5
<1> QED BY <1>4, <1>5, <1>6, Zenon DEF k, score, relevance, x, y, z

\* Of the packets that a fallback may take one is the best.
LEMMA BestType ==
  ASSUME world \in DOMAIN World, NEW o \in Ids
  PROVE  Best(o) \in DOMAIN Packet \cup {Uncited}
<1> DEFINE eligible == {p \in Evidence(o).packets : /\ Packet[p].role # "contradictory"
                                                    /\ Packet[p].intent \notin {"plans", "documents_gaps"}}
           R == {pair \in eligible \X eligible : ~Better(pair[1], pair[2])}
<1>1. eligible \subseteq DOMAIN Packet /\ IsFiniteSet(eligible)
  <2>1. eligible \subseteq Evidence(o).packets
    OBVIOUS
  <2>2. Evidence(o).packets \subseteq DOMAIN Packet /\ IsFiniteSet(Evidence(o).packets)
    BY EvidenceType
  <2>3. eligible \subseteq DOMAIN Packet
    BY <2>1, <2>2, Zenon
  <2>4. IsFiniteSet(eligible)
    BY <2>1, <2>2, FS_Subset, Zenon
  <2> QED BY <2>3, <2>4
<1>2. \A p \in eligible : /\ Packet[p].score \in Int /\ Packet[p].relevance \in Int
                          /\ Strength[Packet[p].strength] \in Int
  BY <1>1, PacketType
<1>3. \A p, q \in eligible : <<p, q>> \in R <=> ~Better(p, q)
  OBVIOUS
<1> HIDE DEF eligible, R
<1>4. \A p \in eligible : Better(p, p)
  BY <1>2 DEF Better
<1>5. \A p, q, r \in eligible : ~Better(p, q) /\ ~Better(q, r) => ~Better(p, r)
  BY <1>2 DEF Better
<1>6. CASE eligible = {}
  BY <1>6 DEF Best, eligible
<1>7. CASE eligible # {}
  <2>1. PICK p \in eligible : \A q \in eligible : <<p, q>> \notin R
    BY <1>1, <1>3, <1>4, <1>5, <1>7, Greatest
  <2>2. \A q \in eligible : Better(p, q)
    BY <1>3, <2>1
  <2> DEFINE c == CHOOSE x \in eligible : \A q \in eligible : Better(x, q)
  <2>3. c \in eligible
    BY <2>2
  <2> HIDE DEF c
  <2>4. Best(o) = c
    BY <1>7, Zenon DEF Best, c, eligible
  <2> QED BY <1>1, <2>3, <2>4
<1> QED BY <1>6, <1>7

\* Whatever an answer cites, it rests on a packet there is or on none.
LEMMA ResolvedType ==
  ASSUME world \in DOMAIN World, NEW o \in Ids, NEW a
  PROVE  Resolved(o, a) \in DOMAIN Packet \cup {Uncited}
<1>1. AllPackets \subseteq DOMAIN Packet
  BY EvidenceType DEF AllPackets, Ids
<1>2. Fallback(o, a) \in {Best(o), Uncited}
  BY DEF Fallback
<1> QED BY <1>1, <1>2, BestType, EvidenceType DEF Resolved

\* Nothing, and a plan, are never of the quality that a strict bucket asks for.
LEMMA QualityBound ==
  ASSUME NEW b \in Bucketing, NEW a, NEW packet \in DOMAIN Packet \cup {Uncited}
  PROVE  /\ Quality(b, a, packet) \in Int
         /\ Strict(b) /\ Quality(b, a, packet) >= 4500 => packet # Uncited /\ Packet[packet].intent # "plans"
         /\ Strict(b) /\ Quality(b, a, packet) >= b.min => packet # Uncited /\ Packet[packet].intent # "plans"
<1> DEFINE min == b.min  cap == b.cap
<1>0. min \in Int /\ cap \in Int /\ (Strict(b) => min > 2800 /\ cap < min /\ cap < 4500)
  BY DEF Bucketing, Strict
<1>1. CASE packet = Uncited
  <2>1. Quality(b, a, packet) = IF a.met = "no" THEN 1800 ELSE 2800
    BY <1>1 DEF Quality
  <2> HIDE DEF min
  <2>2. Quality(b, a, packet) \in Int /\ ~(Quality(b, a, packet) >= 4500)
        /\ (Strict(b) => ~(Quality(b, a, packet) >= min))
    BY <1>0, <2>1
  <2> QED BY <2>2 DEF min
<1>2. CASE packet # Uncited
  <2> DEFINE k == Packet[packet]
             part == (18 * k.score) \div 100
             raw == Strength[k.strength] + ArtifactQuality[k.artifact] + SourceQuality[k.source]
                      + (IF a.cite # Uncited THEN 500 ELSE 0)
                      + AtMost(1600, part)
                      + (IF k.satisfied THEN 800 ELSE 0)
             bent == IF k.intent = "plans" THEN AtMost(raw, cap)
                     ELSE IF k.intent \in {"documents_gaps", "evaluates"} THEN AtLeast(1000, raw - 2000)
                     ELSE raw
  <2>2. /\ Strength[k.strength] \in Int /\ ArtifactQuality[k.artifact] \in Int /\ SourceQuality[k.source] \in Int
        /\ k.score \in Int
    BY <1>2, PacketType, Zenon
  <2>3. Quality(b, a, packet) = AtLeast(500, AtMost(10000, bent))
    BY <1>2 DEF Quality
  <2> HIDE DEF k
  <2>4. part \in Int
    BY <2>2
  <2> HIDE DEF part
  <2>5. AtMost(1600, part) \in Int
    BY <2>4, Bounded
  <2>6. raw \in Int
    BY <2>2, <2>5
  <2> HIDE DEF raw, cap, min
  <2>8. bent \in Int /\ (k.intent = "plans" => bent <= cap)
    <3>1. CASE k.intent = "plans"
      <4>1. bent = AtMost(raw, cap)
        BY <3>1
      <4>2. AtMost(raw, cap) = IF raw <= cap THEN raw ELSE cap
        BY <1>0, <2>6, Bounded
      <4> QED BY <1>0, <2>6, <4>1, <4>2
    <3>2. CASE k.intent # "plans"
      <4>1. AtLeast(1000, raw - 2000) \in Int
        BY <2>6, Bounded
      <4> QED BY <2>6, <3>2, <4>1
    <3> QED BY <3>1, <3>2
  <2> HIDE DEF bent
  <2>9. AtMost(10000, bent) = (IF 10000 <= bent THEN 10000 ELSE bent) /\ AtMost(10000, bent) \in Int
    BY <2>8, Bounded
  <2>10. AtLeast(500, AtMost(10000, bent)) = IF 500 >= AtMost(10000, bent) THEN 500 ELSE AtMost(10000, bent)
    BY <2>9, Bounded
  <2> DEFINE q == Quality(b, a, packet)
  <2>11. q \in Int /\ (k.intent = "plans" => q <= 500 \/ q <= cap)
    BY <1>0, <2>3, <2>8, <2>9, <2>10
  <2> HIDE DEF q
  <2>12. Strict(b) /\ k.intent = "plans" => ~(q >= 4500) /\ ~(q >= min)
    BY <1>0, <2>11
  <2> QED BY <1>2, <2>11, <2>12 DEF k, q, min
<1> QED BY <1>1, <1>2

\* What the closure contract accepts is current evidence, or the contract is satisfied.
LEMMA ClosureMeans ==
  ASSUME NEW o, NEW b, NEW p, NEW q
  PROVE  /\ Closure(o, b, p, q) \in {"met", "partial", "none"}
         /\ Closure(o, b, p, q) # "none" => p # Uncited /\ Packet[p].intent # "plans"
         /\ Closure(o, b, p, q) = "met" => Packet[p].satisfied \/ Evidence(o).satisfied \/ Current(Packet[p])
         /\ Closure(o, b, p, q) = "partial" => Current(Packet[p])
BY DEF Closure, Current

\* How far an objective is supported by an answer of "partial", where the closure contract
\* gives nothing and the evidence covers less than seven tenths.
LEMMA PartialSupport ==
  ASSUME NEW o, NEW b \in Bucketing, b.penalty >= 0, NEW a, a.met = "partial", NEW closure, closure # "met",
         ~Evidence(o).satisfied, ~(Evidence(o).score >= 7000), NEW q \in Int, q >= b.min, NEW contra \in Nat
  PROVE  ~(Supported(o, b, Factored(b, Base(o, a, closure), q), contra) >= 8500)
<1> DEFINE es == Evidence(o).score
           base == Base(o, a, closure)
           loss == (contra * b.penalty) \div 10000
           floor == Floor(o, contra)
<1>1. Said(a) \in Int /\ Said(a) <= 6500
  BY DEF Said
<1>2. Covered(o) \in Int /\ Covered(o) <= 6500
  <2>1. Covered(o) = IF es >= 5800 THEN 6500 ELSE 0
    BY DEF Covered
  <2> QED BY <2>1
<1>3. Contracted(a, closure) = 0
  BY DEF Contracted
<1>4. base \in Int /\ base <= 6500
  <2> DEFINE x == Said(a)  y == Covered(o)  z == Contracted(a, closure)
             m == AtLeast(y, z)
  <2>1. base = AtLeast(x, m)
    BY DEF Base
  <2>2. x \in Int /\ x <= 6500 /\ y \in Int /\ y <= 6500 /\ z \in Int /\ z <= 6500
    BY <1>1, <1>2, <1>3
  <2> HIDE DEF x, y, z
  <2>3. m \in Int /\ m <= 6500
    BY <2>2, Bounded
  <2> HIDE DEF base, m
  <2>4. AtLeast(x, m) \in Int /\ AtLeast(x, m) <= 6500
    BY <2>2, <2>3, Bounded
  <2> QED BY <2>1, <2>4
<1>5. Factored(b, Base(o, a, closure), q) = base
  BY DEF Factored
<1>6. loss \in Nat
  <2> DEFINE penalty == b.penalty
             m == contra * penalty
  <2>1. penalty \in Nat
    BY DEF Bucketing
  <2> HIDE DEF penalty
  <2>2. m \in Nat
    BY <2>1
  <2> HIDE DEF m
  <2>3. m \div 10000 \in Nat
    BY <2>2
  <2> QED BY <2>3 DEF m, penalty
<1>7. floor \in Int /\ floor <= 6000
  <2>1. floor = IF es >= 5800 /\ contra < 2000 THEN 6000 ELSE 0
    BY DEF Floor
  <2> QED BY <2>1
<1> HIDE DEF base
<1>8. Supported(o, b, base, contra) = AtLeast(0, AtLeast(base - loss, floor))
  BY DEF Supported
<1> HIDE DEF loss, floor
<1> DEFINE rest == base - loss
           m == AtLeast(rest, floor)
<1>9. rest \in Int /\ rest <= 6500
  BY <1>4, <1>6
<1> HIDE DEF rest
<1>10. m \in Int /\ m <= 6500
  BY <1>7, <1>9, Bounded
<1> HIDE DEF m
<1>11. ~(AtLeast(0, m) >= 8500)
  BY <1>10, Bounded
<1>12. Supported(o, b, base, contra) = AtLeast(0, m)
  BY <1>8 DEF m, rest
<1> QED BY <1>5, <1>11, <1>12

\* An answer, judged: the row is the objective's and keeps the answer; under a strict
\* bucket it is met only on what Grounded says; and what speaks against it leads to a
\* review from the policy's share on, unless the answer is a plain "no".
LEMMA AdjudgedMeans ==
  ASSUME world \in DOMAIN World, NEW r, IsPolicy(r), NEW o \in Ids, NEW a, a.met \in {"yes", "partial", "no"}
  PROVE  /\ Adjudged(r, o, a).id = o /\ Adjudged(r, o, a).met = a.met
         /\ Adjudged(r, o, a).packet \in DOMAIN Packet \cup {Uncited}
         /\ Adjudged(r, o, a).status \in {"met", "partially_met", "not_met"}
         /\ Adjudged(r, o, a).manual \in BOOLEAN
         /\ Adjudged(r, o, a).status = "met" /\ Strict(Bucket(r, o)) => Grounded(o, a.met, Adjudged(r, o, a).packet)
         /\ Ratio(o) >= r.review_contradiction /\ ~Adjudged(r, o, a).manual => a.met = "no"
<1> DEFINE b == Bucket(r, o)
           p == Resolved(o, a)
           q == Quality(b, a, p)
           closure == Closure(o, b, p, q)
           effective == Effective(a, closure)
           contra == Against(o, effective)
           support == Supported(o, b, Factored(b, Base(o, a, closure), q), contra)
           scored == Scored(b, effective, support, q)
           status == Settled(o, b, closure, scored, contra, q)
<1>1. Adjudged(r, o, a) = Judged(r, o, b, a, p, q, closure, contra, support, status)
  BY DEF Adjudged, Found, Rated, Closed, Read, Weighed
<1>b. b \in Bucketing
  BY BucketType
<1> HIDE DEF b
<1>2. p \in DOMAIN Packet \cup {Uncited}
  BY ResolvedType
<1> HIDE DEF p
<1>3. /\ q \in Int
      /\ Strict(b) /\ q >= 4500 => p # Uncited /\ Packet[p].intent # "plans"
      /\ Strict(b) /\ q >= b.min => p # Uncited /\ Packet[p].intent # "plans"
  BY <1>b, <1>2, QualityBound
<1> HIDE DEF q
<1>4. /\ closure \in {"met", "partial", "none"}
      /\ closure # "none" => p # Uncited /\ Packet[p].intent # "plans"
      /\ closure = "met" => Packet[p].satisfied \/ Evidence(o).satisfied \/ Current(Packet[p])
      /\ closure = "partial" => Current(Packet[p])
  BY ClosureMeans
<1> HIDE DEF closure
<1>5. effective = "no" => a.met = "no"
  BY DEF Effective
<1>6. closure \notin {"met", "partial"} => effective = a.met
  BY DEF Effective
<1> HIDE DEF effective
<1>7. contra \in Nat /\ (effective # "no" => contra = Ratio(o))
  BY RatioType DEF Against
<1> HIDE DEF contra
<1>8. a.met = "partial" /\ closure # "met" /\ ~Evidence(o).satisfied /\ ~(Evidence(o).score >= 7000)
        /\ Strict(b) /\ q >= b.min => ~(support >= 8500)
  <2>1. Strict(b) => b.penalty >= 0
    BY DEF Strict
  <2> QED BY <1>3, <1>7, <1>b, <2>1, PartialSupport
<1> HIDE DEF support
<1>9. /\ scored \in {"met", "partially_met", "not_met"}
      /\ scored = "met" => effective # "no" /\ support >= 8500 /\ q >= b.min
  BY DEF Scored
<1> HIDE DEF scored
<1>10. /\ status \in {"met", "partially_met", "not_met"}
       /\ status = "met" => \/ closure = "met"
                            \/ Evidence(o).satisfied /\ q >= AtLeast(4500, (80 * b.min) \div 100)
                            \/ scored = "met"
  BY <1>9 DEF Settled
<1> HIDE DEF status
<1>11. ASSUME status = "met", Strict(b) PROVE Grounded(o, a.met, p)
  <2>1. CASE closure = "met"
    BY <1>4, <2>1 DEF Grounded
  <2>2. CASE Evidence(o).satisfied /\ q >= AtLeast(4500, (80 * b.min) \div 100)
    <3> DEFINE most == (80 * b.min) \div 100
    <3>1. most \in Int
      <4> DEFINE min == b.min
      <4>1. min \in Int
        BY <1>b DEF Bucketing
      <4> HIDE DEF min
      <4>2. (80 * min) \div 100 \in Int
        BY <4>1
      <4> QED BY <4>2 DEF min
    <3> HIDE DEF most
    <3>2. AtLeast(4500, most) >= 4500 /\ AtLeast(4500, most) \in Int
      BY <3>1, Bounded
    <3>3. q >= AtLeast(4500, most)
      BY <2>2 DEF most
    <3>4. q >= 4500
      BY <1>3, <3>2, <3>3
    <3>5. p # Uncited /\ Packet[p].intent # "plans" /\ Evidence(o).satisfied
      BY <1>3, <1>11, <2>2, <3>4
    <3>6. Evidence(o).satisfied \/ Packet[p].satisfied
      BY <3>5
    <3> QED BY <3>5, <3>6 DEF Grounded
  <2>3. CASE scored = "met" /\ closure # "met"
    <3>1. effective # "no" /\ support >= 8500 /\ q >= b.min
      BY <1>9, <2>3
    <3>2. p # Uncited /\ Packet[p].intent # "plans"
      BY <1>3, <1>11, <3>1
    <3>3. CASE a.met = "yes"
      BY <3>2, <3>3 DEF Grounded
    <3>4. CASE a.met = "no"
      BY <1>4, <1>6, <2>3, <3>1, <3>2, <3>4 DEF Grounded
    <3>5. CASE a.met = "partial"
      <4>1. Evidence(o).satisfied \/ Evidence(o).score >= 7000 \/ ~(support >= 8500)
        BY <1>8, <1>11, <2>3, <3>1, <3>5
      <4>2. CASE Evidence(o).satisfied \/ Evidence(o).score >= 7000
        BY <3>2, <3>5, <4>2 DEF Grounded, MostlyCovered
      <4>3. CASE ~(support >= 8500)
        BY <3>1, <4>3
      <4> QED BY <4>1, <4>2, <4>3
    <3> QED BY <3>3, <3>4, <3>5
  <2> QED BY <1>10, <1>11, <2>1, <2>2, <2>3
<1> DEFINE j == Judged(r, o, b, a, p, q, closure, contra, support, status)
<1>12. /\ j.id = o /\ j.met = a.met /\ j.packet = p /\ j.status = status
       /\ j.manual = (\/ q < r.review_weak /\ Effective(a, closure) # "no"
                      \/ contra >= r.review_contradiction
                      \/ Evidence(o).score < 4500 /\ Effective(a, closure) # "no" /\ closure # "met")
  BY DEF Judged
<1>13. j.manual \in BOOLEAN
  BY <1>12
<1>14. Ratio(o) >= r.review_contradiction /\ ~j.manual => a.met = "no"
  <2> SUFFICES ASSUME Ratio(o) >= r.review_contradiction, ~j.manual PROVE a.met = "no"
    OBVIOUS
  <2>1. ~(contra >= r.review_contradiction)
    BY <1>12
  <2> QED BY <1>5, <1>7, <2>1
<1> HIDE DEF j
<1>15. b = Bucket(r, o)
  BY DEF b
<1> QED BY <1>1, <1>2, <1>10, <1>11, <1>12, <1>13, <1>14, <1>15 DEF j

\* What the policy makes of the answers of one attempt is sound.
LEMMA VerdictSound ==
  ASSUME world \in DOMAIN World, NEW t \in Attempt, NEW given,
         \A o \in Objective : given[o] \in Answers,
         Deduped(given) # {}
  PROVE  Sound(t, Verdict(t, RulesOf(t), {Adjudged(RulesOf(t), given[o].id, given[o]) : o \in Deduped(given)}))
<1> DEFINE r == RulesOf(t)
           J == {Adjudged(r, given[o].id, given[o]) : o \in Deduped(given)}
           v == Verdict(t, r, J)
           Judges(j) == /\ j.id \in Ids /\ j.met \in {"yes", "partial", "no"}
                        /\ j.packet \in DOMAIN Packet \cup {Uncited}
                        /\ j.status \in {"met", "partially_met", "not_met"} /\ j.manual \in BOOLEAN
                        /\ j.status = "met" /\ Strict(Bucket(r, j.id)) => Grounded(j.id, j.met, j.packet)
                        /\ Ratio(j.id) >= r.review_contradiction /\ ~j.manual => j.met = "no"
<1>0. IsPolicy(r)
  BY TermsType
<1> HIDE DEF r
<1>1. \A j \in J : Judges(j)
  <2> SUFFICES ASSUME NEW o \in Deduped(given) PROVE Judges(Adjudged(r, given[o].id, given[o]))
    OBVIOUS
  <2>1. given[o].id \in Ids /\ given[o].met \in {"yes", "partial", "no"}
    BY DEF Deduped, Answers
  <2> DEFINE j == Adjudged(r, given[o].id, given[o])
  <2>2. /\ j.id = given[o].id /\ j.met = given[o].met
        /\ j.packet \in DOMAIN Packet \cup {Uncited}
        /\ j.status \in {"met", "partially_met", "not_met"}
        /\ j.manual \in BOOLEAN
        /\ j.status = "met" /\ Strict(Bucket(r, given[o].id)) => Grounded(given[o].id, given[o].met, j.packet)
        /\ Ratio(given[o].id) >= r.review_contradiction /\ ~j.manual => given[o].met = "no"
    BY <1>0, <2>1, AdjudgedMeans
  <2> HIDE DEF j
  <2>3. Judges(j)
    BY <2>1, <2>2
  <2> QED BY <2>3 DEF j
<1>2. J # {}
  OBVIOUS
<1> HIDE DEF J
<1>3. v.rows = [o \in Ids |-> IF \E j \in J : j.id = o
                              THEN LET j == CHOOSE k \in J : k.id = o
                                   IN [by |-> t, status |-> j.status, met |-> j.met, packet |-> j.packet]
                              ELSE NoRow]
  BY DEF Verdict
<1>4. /\ v.status \in Statuses
      /\ v.status = "compliant" => \A j \in J : j.status = "met"
      /\ v.status = "non_compliant" => \A j \in J : j.status = "not_met"
  <2>1. Compliant(r, J) => \A j \in J : j.status = "met"
    BY DEF Compliant
  <2>2. v.status = IF Compliant(r, J) THEN "compliant"
                   ELSE IF \/ Mean(J, LAMBDA j : j.support, r.partial)
                           \/ \E j \in J : j.status # "not_met"
                   THEN "partially_compliant" ELSE "non_compliant"
    BY DEF Verdict
  <2> QED BY <2>1, <2>2 DEF Statuses
<1>5. v.manual = \E j \in J : j.manual
  BY DEF Verdict
<1>v. v = [rows |-> v.rows, status |-> v.status, manual |-> v.manual]
  BY DEF Verdict
<1> HIDE DEF v
<1>6. ASSUME NEW o \in Ids
      PROVE  \/ v.rows[o] = NoRow /\ ~\E j \in J : j.id = o
             \/ \E j \in J : /\ j.id = o
                             /\ v.rows[o] = [by |-> t, status |-> j.status, met |-> j.met, packet |-> j.packet]
  <2>1. CASE \E j \in J : j.id = o
    <3> DEFINE c == CHOOSE k \in J : k.id = o
    <3>1. c \in J /\ c.id = o
      BY <2>1
    <3>2. v.rows[o] = [by |-> t, status |-> c.status, met |-> c.met, packet |-> c.packet]
      BY <1>3, <2>1
    <3> HIDE DEF c
    <3> QED BY <3>1, <3>2
  <2>2. CASE ~\E j \in J : j.id = o
    BY <1>3, <2>2
  <2> QED BY <2>1, <2>2
<1>7. \A o \in RowsOf(v) : \E j \in J :
         j.id = o /\ v.rows[o] = [by |-> t, status |-> j.status, met |-> j.met, packet |-> j.packet]
  BY <1>6 DEF RowsOf
<1>8. v.rows \in [Ids -> Row \cup {NoRow}]
  <2>1. \A j \in J : [by |-> t, status |-> j.status, met |-> j.met, packet |-> j.packet] \in Row
    BY <1>1 DEF Row
  <2>2. \A o \in Ids : v.rows[o] \in Row \cup {NoRow}
    BY <1>6, <2>1
  <2>3. v.rows = [o \in Ids |-> v.rows[o]]
    BY <1>3
  <2> QED BY <2>2, <2>3
<1>9. RowsOf(v) # {}
  <2>1. PICK j \in J : TRUE
    BY <1>2
  <2>2. j.id \in Ids
    BY <1>1
  <2>3. PICK k \in J : v.rows[j.id] = [by |-> t, status |-> k.status, met |-> k.met, packet |-> k.packet]
    BY <1>6, <2>2
  <2>4. v.rows[j.id].by # Nobody
    BY <2>3, AttemptAssumption DEF Nobody
  <2>5. v.rows[j.id] # NoRow
    BY <2>4 DEF NoRow
  <2> QED BY <2>2, <2>5 DEF RowsOf
<1>10. ASSUME NEW o \in RowsOf(v)
       PROVE  /\ v.rows[o].by = t
              /\ v.rows[o].status = "met" /\ Strict(Bucket(r, o)) => Grounded(o, v.rows[o].met, v.rows[o].packet)
              /\ v.status = "compliant" => v.rows[o].status = "met"
              /\ v.status = "non_compliant" => v.rows[o].status = "not_met"
              /\ Ratio(o) >= r.review_contradiction /\ ~v.manual => v.rows[o].met = "no"
  <2>1. PICK j \in J : j.id = o /\ v.rows[o] = [by |-> t, status |-> j.status, met |-> j.met, packet |-> j.packet]
    BY <1>7
  <2>2. Judges(j)
    BY <1>1
  <2>3. ~v.manual => ~j.manual
    BY <1>5
  <2> HIDE DEF Judges
  <2>4. v.rows[o].by = t /\ v.rows[o].status = j.status /\ v.rows[o].met = j.met /\ v.rows[o].packet = j.packet
    BY <2>1
  <2>5. v.rows[o].status = "met" /\ Strict(Bucket(r, o)) => Grounded(o, v.rows[o].met, v.rows[o].packet)
    BY <2>1, <2>2, <2>4 DEF Judges
  <2>6. /\ v.status = "compliant" => v.rows[o].status = "met"
        /\ v.status = "non_compliant" => v.rows[o].status = "not_met"
    BY <1>4, <2>4
  <2>7. Ratio(o) >= r.review_contradiction /\ ~v.manual => v.rows[o].met = "no"
    BY <2>1, <2>2, <2>3, <2>4 DEF Judges
  <2> QED BY <2>4, <2>5, <2>6, <2>7
<1>11. v.manual \in BOOLEAN
  BY <1>5
<1>13. v \in [rows : [Ids -> Row \cup {NoRow}], status : Statuses, manual : BOOLEAN]
  BY <1>v, <1>4, <1>8, <1>11
<1>12. Sound(t, v)
  BY <1>4, <1>13, <1>9, <1>10, <1>11 DEF Sound, r
<1> QED BY <1>12 DEF v, J, r

----------------------------------------------------------------------------
(* The records of a control.                                               *)

\* The evidence of a control never changes, and so what it means.
LEMMA WorldFixed ==
  ASSUME world' = world
  PROVE  /\ \A o, met, packet : Grounded(o, met, packet)' <=> Grounded(o, met, packet)
         /\ \A o : Ratio(o)' = Ratio(o)
         /\ \A t : Terms(t)' = Terms(t) /\ RulesOf(t)' = RulesOf(t)
         /\ \A t, o : Strict(Bucket(RulesOf(t), o))' <=> Strict(Bucket(RulesOf(t), o))
BY DEF Grounded, MostlyCovered, Ratio, Evidence, Terms, RulesOf, Bucket

\* A verdict stays sound, in whatever hands it is.
LEMMA SoundStill ==
  ASSUME world' = world, NEW t, NEW v, Sound(t, v)
  PROVE  Sound(t, v)'
BY WorldFixed DEF Sound, RowsOf

\* The verdicts that attempts hold stay sound when none is added but a sound one.
LEMMA HeldStill ==
  ASSUME world' = world, HeldSound,
         \A t \in Attempt : Holding(t)' => \/ Holding(t) /\ attempt'[t].verdict = attempt[t].verdict
                                         \/ Sound(t, attempt'[t].verdict),
         \A t \in Attempt : attempt'[t].pc = "settle" => attempt[t].pc = "settle" \/ Terms(t).settle # Undecided
  PROVE  HeldSound'
<1>1. ASSUME NEW t \in Attempt, Holding(t)', NEW v \in {attempt'[t].verdict}
      PROVE  Sound(t, v)'
  <2>1. Sound(t, v)
    BY <1>1 DEF HeldSound
  <2> QED BY <2>1, SoundStill
<1>2. ASSUME NEW t \in Attempt, attempt'[t].pc = "settle"
      PROVE  Terms(t)'.settle # Undecided
  BY <1>2 DEF HeldSound, Terms
<1> QED BY <1>1, <1>2 DEF HeldSound

\* A determination that records a sound verdict, with the rows of that verdict, is sound.
LEMMA DetSoundFrom ==
  ASSUME world' = world, NEW t, NEW v, Sound(t, v),
         rows' = v.rows, det'.by = t, det'.status = v.status, det'.manual = v.manual
  PROVE  DetSound'
<1> DEFINE w == [rows |-> v.rows, status |-> v.status, manual |-> v.manual]
<1>1. Sound(t, w)
  BY DEF Sound, RowsOf
<1> HIDE DEF w
<1>2. Sound(t, w)'
  BY <1>1, SoundStill
<1> SUFFICES ASSUME NEW u \in {det'.by}, NEW x \in {[rows |-> rows', status |-> det'.status, manual |-> det'.manual]}
             PROVE  Sound(u, x)'
  BY DEF DetSound
<1>3. u = t /\ x = w
  BY DEF w
<1> QED BY <1>2, <1>3

\* The rows of the objectives are grounded, row by row.
LEMMA RowsFine ==
  ASSUME world' = world,
         \A o \in Ids : rows'[o] # NoRow /\ rows'[o].status = "met" /\ Strict(Bucket(RulesOf(rows'[o].by), o)) =>
                           Grounded(o, rows'[o].met, rows'[o].packet)
  PROVE  MetByCurrentEvidence'
BY DEF MetByCurrentEvidence, Present, Bucket, RulesOf, Terms, Grounded, MostlyCovered, Evidence

\* The rows of the objectives stay grounded: they stay, go, or come from a sound verdict.
LEMMA RowsGrounded ==
  ASSUME world' = world, MetByCurrentEvidence, NEW t, NEW v, Sound(t, v),
         \A o \in Ids : rows'[o] \in {NoRow, rows[o], v.rows[o]}
  PROVE  MetByCurrentEvidence'
<1> DEFINE Fine(o, x) == x # NoRow /\ x.status = "met" /\ Strict(Bucket(RulesOf(x.by), o)) =>
                           Grounded(o, x.met, x.packet)
<1>1. \A o \in Ids : Fine(o, rows[o])
  BY DEF MetByCurrentEvidence, Present
<1>2. \A o \in Ids : Fine(o, v.rows[o])
  BY DEF Sound, RowsOf
<1>3. \A o \in Ids : Fine(o, NoRow)
  OBVIOUS
<1>4. \A o \in Ids : Fine(o, rows'[o])
  <2> HIDE DEF Fine
  <2> QED BY <1>1, <1>2, <1>3
<1> QED BY <1>4, RowsFine

\* The rows of the objectives stay grounded when they only stay or go.
LEMMA RowsStay ==
  ASSUME world' = world, MetByCurrentEvidence, \A o \in Ids : rows'[o] \in {NoRow, rows[o]}
  PROVE  MetByCurrentEvidence'
<1> DEFINE Fine(o, x) == x # NoRow /\ x.status = "met" /\ Strict(Bucket(RulesOf(x.by), o)) =>
                           Grounded(o, x.met, x.packet)
<1>1. \A o \in Ids : Fine(o, rows[o])
  BY DEF MetByCurrentEvidence, Present
<1>2. \A o \in Ids : Fine(o, NoRow)
  OBVIOUS
<1>3. \A o \in Ids : Fine(o, rows'[o])
  <2> HIDE DEF Fine
  <2> QED BY <1>1, <1>2
<1> QED BY <1>3, RowsFine

\* An attempt goes on to another stage with the verdict it holds, or ends.
LEMMA Moved ==
  ASSUME attempt \in [Attempt -> Attempts], NEW t \in Attempt, NEW pc, Move(t, pc),
         pc \in {"legacy", "challenge", "write"}
  PROVE  /\ attempt' \in [Attempt -> Attempts]
         /\ attempt'[t].pc = pc /\ attempt'[t].verdict = attempt[t].verdict
         /\ \A u \in Attempt \ {t} : attempt'[u] = attempt[u]
<1> DEFINE a == attempt[t]  b == [a EXCEPT !.pc = pc]
<1>1. a \in Attempts
  OBVIOUS
<1>2. attempt' = [attempt EXCEPT ![t] = b]
  BY DEF Move
<1> HIDE DEF a
<1>3. b \in Attempts /\ b.pc = pc /\ b.verdict = a.verdict
  BY <1>1 DEF Attempts
<1> HIDE DEF b
<1> QED BY <1>2, <1>3 DEF a

\* The verdict of nobody, and an attempt without one.
LEMMA NoAttemptType ==
  ASSUME NEW pc \in {"unused", "settle", "bare", "review", "ended"}, NEW isRun \in BOOLEAN
  PROVE  /\ NoAttempt \in Attempts
         /\ [NoAttempt EXCEPT !.pc = pc] \in Attempts
         /\ [NoAttempt EXCEPT !.pc = pc, !.run = isRun] \in Attempts
<1>1. NoVerdict \in [rows : [Ids -> Row \cup {NoRow}], status : Statuses \cup {"none"}, manual : BOOLEAN]
  BY DEF NoVerdict
<1>2. NoAttempt \in Attempts
  BY <1>1 DEF NoAttempt, Attempts
<1>3. [NoAttempt EXCEPT !.pc = pc] \in Attempts
  BY <1>2 DEF Attempts
<1>4. [NoAttempt EXCEPT !.pc = pc, !.run = isRun] \in Attempts
  BY <1>2 DEF Attempts
<1> QED BY <1>2, <1>3, <1>4

\* An attempt begins without a verdict ...
LEMMA Opened ==
  ASSUME attempt \in [Attempt -> Attempts], NEW t \in Attempt,
         NEW pc \in {"settle", "bare", "review"}, Open(t, pc)
  PROVE  /\ attempt' \in [Attempt -> Attempts]
         /\ attempt'[t].pc = pc
         /\ \A u \in Attempt \ {t} : attempt'[u] = attempt[u]
<1> DEFINE isRun == (finding = NoFinding)
           b == [NoAttempt EXCEPT !.pc = pc, !.run = isRun]
<1>1. isRun \in BOOLEAN
  OBVIOUS
<1>2. attempt' = [attempt EXCEPT ![t] = b]
  BY DEF Open
<1> HIDE DEF isRun
<1>3. b \in Attempts
  BY <1>1, NoAttemptType
<1>4. b.pc = pc
  BY DEF NoAttempt
<1> HIDE DEF b
<1> QED BY <1>2, <1>3, <1>4

\* ... and it ends without one.
LEMMA Ended ==
  ASSUME attempt \in [Attempt -> Attempts], NEW t \in Attempt, End(t)
  PROVE  /\ attempt' \in [Attempt -> Attempts]
         /\ attempt'[t].pc = "ended"
         /\ \A u \in Attempt \ {t} : attempt'[u] = attempt[u]
<1> DEFINE b == [NoAttempt EXCEPT !.pc = "ended"]
<1>2. b \in Attempts
  BY NoAttemptType
<1>3. b.pc = "ended"
  BY DEF NoAttempt
<1>4. attempt' = [attempt EXCEPT ![t] = b]
  BY DEF End
<1> HIDE DEF b
<1> QED BY <1>2, <1>3, <1>4

\* The finding that is written is the one given, or nothing changes.
LEMMA Written ==
  ASSUME NEW t, NEW found, Write(t, found)
  PROVE  finding' = found \/ finding' = finding
BY DEF Write

\* The verdict of a review, and what the attempt holds then.
LEMMA Reviewed ==
  ASSUME TypeOK, NEW t \in Attempt, Review(t)
  PROVE  \/ Move(t, "legacy") /\ rows' = rows
         \/ \E v : /\ Sound(t, v)
                   /\ attempt' = [attempt EXCEPT ![t].pc = "determine", ![t].verdict = v]
                   /\ rows' = [o \in Ids |-> IF v.rows[o] = NoRow THEN rows[o] ELSE v.rows[o]]
<1>1. world \in DOMAIN World
  BY DEF TypeOK
<1>2. PICK given \in [Objective -> UNION {World[world].answers[o] : o \in Objective}] :
        /\ \A o \in Objective : given[o] \in World[world].answers[o]
        /\ \E verdict \in {Verdict(t, RulesOf(t),
                                  {Adjudged(RulesOf(t), given[o].id, given[o]) : o \in Deduped(given)})} :
             IF Deduped(given) = {}
             THEN Move(t, "legacy") /\ UNCHANGED rows
             ELSE /\ attempt' = [attempt EXCEPT ![t].pc = "determine", ![t].verdict = verdict]
                  /\ rows' = [o \in Ids |-> IF verdict.rows[o] = NoRow THEN rows[o] ELSE verdict.rows[o]]
  BY Zenon DEF Review
<1>3. \A o \in Objective : given[o] \in Answers
  <2>1. World[world].answers \in [Objective -> SUBSET Answers]
    BY <1>1, WorldAssumption DEF Inputs
  <2> QED BY <1>2, <2>1
<1> DEFINE v == Verdict(t, RulesOf(t), {Adjudged(RulesOf(t), given[o].id, given[o]) : o \in Deduped(given)})
<1>4. Deduped(given) # {} => Sound(t, v)
  BY <1>1, <1>3, VerdictSound
<1>5. IF Deduped(given) = {}
      THEN Move(t, "legacy") /\ UNCHANGED rows
      ELSE /\ attempt' = [attempt EXCEPT ![t].pc = "determine", ![t].verdict = v]
           /\ rows' = [o \in Ids |-> IF v.rows[o] = NoRow THEN rows[o] ELSE v.rows[o]]
  BY <1>2, Zenon
<1> HIDE DEF v
<1> QED BY <1>4, <1>5, Zenon

\* An attempt takes the verdict of its review along.
LEMMA Judging ==
  ASSUME attempt \in [Attempt -> Attempts], NEW t \in Attempt, NEW v, Sound(t, v),
         attempt' = [attempt EXCEPT ![t].pc = "determine", ![t].verdict = v]
  PROVE  /\ attempt' \in [Attempt -> Attempts]
         /\ attempt'[t].pc = "determine" /\ attempt'[t].verdict = v
         /\ \A u \in Attempt \ {t} : attempt'[u] = attempt[u]
<1> DEFINE a == attempt[t]  b == [a EXCEPT !.pc = "determine", !.verdict = v]
<1>1. v \in [rows : [Ids -> Row \cup {NoRow}], status : Statuses \cup {"none"}, manual : BOOLEAN]
  BY DEF Sound
<1>2. a \in Attempts
  OBVIOUS
<1>3. attempt' = [attempt EXCEPT ![t] = b]
  OBVIOUS
<1> HIDE DEF a
<1>4. b \in Attempts /\ b.pc = "determine" /\ b.verdict = v
  BY <1>1, <1>2 DEF Attempts
<1> HIDE DEF b
<1> QED BY <1>3, <1>4

\* Every step keeps the types, while the verdicts that attempts hold are sound.
LEMMA AdjudicationTyped == TypeOK /\ HeldSound /\ [Next]_vars => TypeOK'
<1> SUFFICES ASSUME TypeOK, HeldSound, [Next]_vars PROVE TypeOK'
  OBVIOUS
<1> USE DEF TypeOK, Reset
<1> DEFINE NoRows == [o \in Ids |-> NoRow]
<1>0. NoRows \in [Ids -> Row \cup {NoRow}]
  OBVIOUS
<1>h. ASSUME NEW t \in Attempt, Holding(t)
      PROVE  attempt[t].verdict.status \in Statuses /\ attempt[t].verdict.manual \in BOOLEAN
  BY <1>h DEF HeldSound, Sound
<1>w. world \in DOMAIN World
  OBVIOUS
<1>1. ASSUME NEW t \in Attempt, Begin(t) PROVE TypeOK'
  <2>1. overlapped' \in BOOLEAN
    BY <1>1 DEF Begin
  <2>2. CASE Open(t, "review") /\ Reset
    BY <1>0, <1>1, <2>1, <2>2, Opened DEF Begin
  <2>3. ASSUME NEW pc \in {"settle", "bare"}, Open(t, pc), UNCHANGED <<rows, det, challenge>> PROVE TypeOK'
    BY <1>1, <2>1, <2>3, Opened DEF Begin
  <2>4. \/ Open(t, "review") /\ Reset
        \/ \E pc \in {"settle", "bare"} : Open(t, pc) /\ UNCHANGED <<rows, det, challenge>>
    BY <1>1, Zenon DEF Begin
  <2> QED BY <2>2, <2>3, <2>4
<1>10. ASSUME NEW t \in Attempt, RecordDecision(t) PROVE TypeOK'
  <2>0. Terms(t).settle \in Determined
    <3>1. Terms(t).settle \in Determined \cup {Undecided}
      BY <1>w, TermsType DEF Circumstances
    <3>2. Terms(t).settle # Undecided
      BY <1>10 DEF HeldSound, RecordDecision
    <3> QED BY <3>1, <3>2
  <2> DEFINE found == [by |-> t, kind |-> "settled", status |-> Terms(t).settle, manual |-> FALSE]
  <2>1. attempt' \in [Attempt -> Attempts]
    BY <1>10, Ended DEF RecordDecision
  <2>2. found \in Findings
    BY <2>0 DEF Findings
  <2>3. Write(t, found)
    BY <1>10 DEF RecordDecision
  <2> HIDE DEF found
  <2>4. finding' \in {NoFinding} \cup Findings
    BY <2>2, <2>3, Written
  <2> QED BY <1>10, <2>1, <2>4 DEF RecordDecision
<1>2. ASSUME NEW t \in Attempt, Review(t) PROVE TypeOK'
  <2>0. UNCHANGED <<world, det, challenge, finding, crashes, overlapped>>
    BY <1>2, Zenon DEF Review
  <2>1. CASE Move(t, "legacy") /\ rows' = rows
    BY <2>0, <2>1, Moved
  <2>2. ASSUME NEW v, Sound(t, v),
               attempt' = [attempt EXCEPT ![t].pc = "determine", ![t].verdict = v],
               rows' = [o \in Ids |-> IF v.rows[o] = NoRow THEN rows[o] ELSE v.rows[o]]
        PROVE  TypeOK'
    <3>1. attempt' \in [Attempt -> Attempts]
      BY <2>2, Judging
    <3>2. v.rows \in [Ids -> Row \cup {NoRow}]
      BY <2>2 DEF Sound
    <3>3. rows' \in [Ids -> Row \cup {NoRow}]
      BY <2>2, <3>2
    <3> QED BY <2>0, <3>1, <3>3
  <2> QED BY <1>2, <2>1, <2>2, Reviewed
<1>3. ASSUME NEW t \in Attempt, Determine(t) PROVE TypeOK'
  <2>1. attempt' \in [Attempt -> Attempts]
    BY <1>3, Moved DEF Determine
  <2>2. det' \in [by : Attempt, status : Statuses, manual : BOOLEAN]
    BY <1>h, <1>3 DEF Determine, Holding
  <2> QED BY <1>3, <2>1, <2>2 DEF Determine
<1>4. ASSUME NEW t \in Attempt, Challenge(t) PROVE TypeOK'
  BY <1>4, Moved DEF Challenge
<1>d. ASSUME NEW t \in Attempt, NEW S, Determined \subseteq S, NEW answer \in S
      PROVE  AsDecided(t, answer) \in S
  <2>1. Terms(t).manual \in Determined \cup {Undecided}
    BY <1>w, TermsType DEF Circumstances
  <2> QED BY <1>d, <2>1 DEF AsDecided, Overruled, Determined, Statuses
<1>5. ASSUME NEW t \in Attempt, Finish(t) PROVE TypeOK'
  <2>1. attempt' \in [Attempt -> Attempts]
    BY <1>5, Ended DEF Finish
  <2>2. attempt[t].verdict.status \in Statuses /\ attempt[t].verdict.manual \in BOOLEAN
    BY <1>h, <1>5 DEF Finish, Holding
  <2> DEFINE m == attempt[t].verdict.manual /\ attempt[t].run
             k == IF Overruled(t) THEN "overruled" ELSE "adjudicated"
             x == AsDecided(t, attempt[t].verdict.status)
             found == [by |-> t, kind |-> k, status |-> x, manual |-> m]
  <2>3. m \in BOOLEAN
    OBVIOUS
  <2>4. x \in Determined
    BY <1>d, <2>2 DEF Determined
  <2>5. k \in {"adjudicated", "overruled"}
    OBVIOUS
  <2>6. Write(t, found)
    BY <1>5 DEF Finish
  <2> HIDE DEF m, k, x
  <2>7. found \in Findings
    BY <2>3, <2>4, <2>5 DEF Findings
  <2> HIDE DEF found
  <2>8. finding' \in {NoFinding} \cup Findings
    BY <2>6, <2>7, Written
  <2> QED BY <1>5, <2>1, <2>8 DEF Finish
<1>6. ASSUME NEW t \in Attempt, Legacy(t) PROVE TypeOK'
  <2>0. world' = world /\ crashes' = crashes /\ overlapped' = overlapped /\ End(t)
    BY <1>6 DEF Legacy
  <2>1. attempt' \in [Attempt -> Attempts]
    BY <2>0, Ended
  <2>2. rows' \in [Ids -> Row \cup {NoRow}] /\ det' \in {NoDet, det} /\ challenge' \in {Nobody, challenge}
    <3>1. CASE attempt[t].pc = "bare"
      BY <1>0, <1>6, <3>1 DEF Legacy
    <3>2. CASE attempt[t].pc # "bare"
      BY <1>6, <3>2 DEF Legacy
    <3> QED BY <3>1, <3>2
  <2>3. finding' \in {NoFinding} \cup Findings
    <3>1. PICK answer \in Determined \cup {"not_reviewed"} :
            Write(t, IF answer = "not_reviewed" /\ ~attempt[t].run
                     THEN [finding EXCEPT !.manual = TRUE]
                     ELSE [by |-> t, kind |-> "legacy", status |-> AsDecided(t, answer), manual |-> FALSE])
      BY <1>6 DEF Legacy
    <3>2. CASE answer = "not_reviewed" /\ ~attempt[t].run
      <4>1. finding' = finding \/ (finding # NoFinding /\ finding' = [finding EXCEPT !.manual = TRUE])
        BY <3>1, <3>2 DEF Write
      <4>2. finding # NoFinding => [finding EXCEPT !.manual = TRUE] \in Findings
        BY DEF Findings
      <4> QED BY <4>1, <4>2
    <3>3. CASE ~(answer = "not_reviewed" /\ ~attempt[t].run)
      <4> DEFINE x == AsDecided(t, answer)
                 found == [by |-> t, kind |-> "legacy", status |-> x, manual |-> FALSE]
      <4>1. x \in Determined \cup {"not_reviewed"}
        BY <1>d
      <4>2. Write(t, found)
        BY <3>1, <3>3
      <4> HIDE DEF x
      <4>3. found \in Findings
        BY <4>1 DEF Findings
      <4> HIDE DEF found
      <4> QED BY <4>2, <4>3, Written
    <3> QED BY <3>2, <3>3
  <2> QED BY <2>0, <2>1, <2>2, <2>3
<1>7. ASSUME NEW t \in Attempt, Raise(t) PROVE TypeOK'
  BY <1>7, Ended DEF Raise
<1>8. CASE Crash
  <2> DEFINE b == [NoAttempt EXCEPT !.pc = "ended"]
  <2>3. b \in Attempts
    BY NoAttemptType
  <2> HIDE DEF b
  <2>4. attempt' = [t \in Attempt |-> IF t \in UnderWay THEN b ELSE attempt[t]]
    BY <1>8 DEF Crash, b
  <2>5. attempt' \in [Attempt -> Attempts]
    BY <2>3, <2>4
  <2>6. crashes' \in Nat
    BY <1>8 DEF Crash
  <2> QED BY <1>8, <2>5, <2>6 DEF Crash
<1>9. CASE UNCHANGED vars
  BY <1>9 DEF vars
<1> QED BY <1>1, <1>2, <1>3, <1>4, <1>5, <1>6, <1>7, <1>8, <1>9, <1>10, Zenon DEF Next

\* Every step keeps the verdicts that attempts hold sound: only a review makes one.
LEMMA HeldKept == TypeOK /\ HeldSound /\ [Next]_vars => HeldSound'
<1> SUFFICES ASSUME TypeOK, HeldSound, [Next]_vars PROVE HeldSound'
  OBVIOUS
<1>a. attempt \in [Attempt -> Attempts]
  BY DEF TypeOK
<1> DEFINE Still == \A u \in Attempt : Holding(u)' => \/ Holding(u) /\ attempt'[u].verdict = attempt[u].verdict
                                                      \/ Sound(u, attempt'[u].verdict)
           Apart == \A u \in Attempt : attempt'[u].pc = "settle" =>
                       attempt[u].pc = "settle" \/ Terms(u).settle # Undecided
<1>0. world' = world
  BY Zenon DEF Next, Begin, RecordDecision, Review, Determine, Challenge, Finish, Legacy, Raise, Crash, vars
<1>1. ASSUME NEW t \in Attempt, Begin(t) PROVE Still /\ Apart
  <2>1. ASSUME NEW pc \in {"review", "bare"}, Open(t, pc) PROVE Still /\ Apart
    BY <1>a, <2>1, Opened DEF Holding
  <2>2. ASSUME Open(t, "settle"), Terms(t).settle # Undecided PROVE Still /\ Apart
    BY <1>a, <2>2, Opened DEF Holding
  <2>3. \/ \E pc \in {"review", "bare"} : Open(t, pc)
        \/ Open(t, "settle") /\ Terms(t).settle # Undecided
    BY <1>1, Zenon DEF Begin
  <2> HIDE DEF Still, Apart
  <2> QED BY <2>1, <2>2, <2>3
<1>2. ASSUME NEW t \in Attempt, Review(t) PROVE Still /\ Apart
  <2>1. ASSUME Move(t, "legacy") PROVE Still /\ Apart
    BY <1>a, <2>1, Moved DEF Holding
  <2>2. ASSUME NEW v, Sound(t, v), attempt' = [attempt EXCEPT ![t].pc = "determine", ![t].verdict = v]
        PROVE  Still /\ Apart
    BY <1>a, <2>2, Judging DEF Holding
  <2> QED BY <1>2, <2>1, <2>2, Reviewed, Zenon
<1>3. ASSUME NEW t \in Attempt, Determine(t) PROVE Still /\ Apart
  BY <1>a, <1>3, Moved DEF Determine, Holding
<1>4. ASSUME NEW t \in Attempt, Challenge(t) PROVE Still /\ Apart
  BY <1>a, <1>4, Moved DEF Challenge, Holding
<1>5. ASSUME NEW t \in Attempt, End(t) PROVE Still /\ Apart
  BY <1>a, <1>5, Ended DEF Holding
<1>6. ASSUME Crash PROVE Still /\ Apart
  <2>1. \A u \in Attempt : u \in UnderWay => attempt'[u].pc = "ended"
    BY <1>6 DEF Crash, NoAttempt
  <2>2. \A u \in Attempt : u \notin UnderWay => attempt'[u] = attempt[u]
    BY <1>6 DEF Crash
  <2> QED BY <2>1, <2>2 DEF Holding
<1>7. ASSUME UNCHANGED vars PROVE Still /\ Apart
  BY <1>7 DEF vars, Holding
<1> HIDE DEF Still, Apart
<1>8. Still /\ Apart
  BY <1>1, <1>2, <1>3, <1>4, <1>5, <1>6, <1>7, Zenon DEF Next, RecordDecision, Finish, Legacy, Raise
<1> QED BY <1>0, <1>8, HeldStill DEF Still, Apart

\* Every step keeps the objectives that are met grounded.
LEMMA MetKept == TypeOK /\ MetByCurrentEvidence /\ [Next]_vars => MetByCurrentEvidence'
<1> SUFFICES ASSUME TypeOK, MetByCurrentEvidence, [Next]_vars PROVE MetByCurrentEvidence'
  OBVIOUS
<1>0. world' = world
  BY Zenon DEF Next, Begin, RecordDecision, Review, Determine, Challenge, Finish, Legacy, Raise, Crash, vars
<1> DEFINE Stay == \A o \in Ids : rows'[o] \in {NoRow, rows[o]}
<1>1. ASSUME Reset PROVE Stay
  BY <1>1 DEF Reset
<1>2. ASSUME rows' = rows PROVE Stay
  BY <1>2
<1> HIDE DEF Stay
<1>3. ASSUME NEW t \in Attempt, Review(t) PROVE MetByCurrentEvidence'
  <2>1. CASE rows' = rows
    BY <1>0, <1>2, <2>1, RowsStay DEF Stay
  <2>2. ASSUME NEW v, Sound(t, v),
               rows' = [o \in Ids |-> IF v.rows[o] = NoRow THEN rows[o] ELSE v.rows[o]]
        PROVE  MetByCurrentEvidence'
    BY <1>0, <2>2, RowsGrounded
  <2> QED BY <1>3, <2>1, <2>2, Reviewed, Zenon
<1>4. Stay \/ \E t \in Attempt : Review(t)
  BY <1>1, <1>2, Zenon DEF Next, Begin, RecordDecision, Determine, Challenge, Finish, Legacy, Raise, Crash, vars
<1> QED BY <1>0, <1>3, <1>4, RowsStay DEF Stay

\* A control whose finding lets an attempt begin has no finding that rests on a
\* determination.
LEMMA Unsettled ==
  ASSUME TypeOK, finding.status \in {"none", "not_reviewed"}
  PROVE  /\ finding.kind \notin {"adjudicated", "overruled"}
         /\ finding.kind = "legacy" => finding.status = "not_reviewed"
<1>1. CASE finding = NoFinding
  BY <1>1 DEF NoFinding
<1>2. CASE finding \in Findings
  BY <1>2 DEF Findings, Determined, Statuses
<1> QED BY <1>1, <1>2 DEF TypeOK

\* A determination stays sound while nothing is written.
LEMMA DetStill ==
  ASSUME DetSound, world' = world, rows' = rows, det' = det
  PROVE  DetSound'
<1> SUFFICES ASSUME det' # NoDet, NEW t \in {det'.by},
                    NEW v \in {[rows |-> rows', status |-> det'.status, manual |-> det'.manual]}
             PROVE  Sound(t, v)'
  BY DEF DetSound
<1>1. Sound(t, v)
  BY DEF DetSound
<1> QED BY <1>1, SoundStill

\* While no two attempts overlap, the records stay those of one attempt: when an attempt
\* begins on a control without a settled finding ...
LEMMA BeginAlone ==
  ASSUME TypeOK, AloneInv, NEW t \in Attempt, Begin(t), ~overlapped'
  PROVE  AloneInv'
<1>a. attempt \in [Attempt -> Attempts]
  BY DEF TypeOK
<1>1. UnderWay = {} /\ finding' = finding /\ finding.status \in {"none", "not_reviewed"} /\ world' = world
  BY DEF Begin
<1>0. \/ Open(t, "review") /\ Reset
      \/ \E pc \in {"settle", "bare"} : Open(t, pc) /\ UNCHANGED <<rows, det, challenge>>
  BY Zenon DEF Begin
<1>2. \A u \in Attempt \ {t} : attempt'[u] = attempt[u]
  BY <1>0, <1>a, Opened
<1>3. \A u \in UnderWay' : u = t
  BY <1>1, <1>2 DEF UnderWay
<1>4. /\ finding.kind \notin {"adjudicated", "overruled"}
      /\ finding.kind = "legacy" => finding.status = "not_reviewed"
  BY <1>1, Unsettled
<1>5. Recorded(t)' /\ DetSound'
  <2>1. CASE Open(t, "review") /\ Reset
    <3>1. attempt'[t].pc = "review"
      BY <1>a, <2>1, Opened
    <3>2. rows' = [o \in Ids |-> NoRow] /\ det' = NoDet
      BY <2>1 DEF Reset
    <3>3. Recorded(t)'
      BY <1>1, <3>1, <3>2 DEF Recorded, Holding
    <3>4. DetSound'
      BY <3>2 DEF DetSound
    <3> QED BY <3>3, <3>4
  <2>2. ASSUME NEW pc \in {"settle", "bare"}, Open(t, pc), UNCHANGED <<rows, det, challenge>>
        PROVE  Recorded(t)' /\ DetSound'
    <3>1. attempt'[t].pc \in {"settle", "bare"}
      BY <1>a, <2>2, Opened
    <3>2. Recorded(t)'
      BY <1>1, <3>1 DEF Recorded, Holding
    <3>3. DetSound'
      BY <1>1, <2>2, DetStill DEF AloneInv
    <3> QED BY <3>2, <3>3
  <2> QED BY <1>0, <2>1, <2>2
<1> QED BY <1>1, <1>3, <1>4, <1>5 DEF AloneInv, FindingSound

\* ... while it goes on ...
LEMMA StageAlone ==
  ASSUME TypeOK, HeldSound, AloneInv, NEW t \in Attempt,
         Review(t) \/ Determine(t) \/ Challenge(t)
  PROVE  AloneInv'
<1>a. attempt \in [Attempt -> Attempts]
  BY DEF TypeOK
<1>1. t \in UnderWay /\ finding' = finding /\ world' = world
  BY Zenon DEF Review, Determine, Challenge, UnderWay
<1>2. Recorded(t)
  BY <1>1 DEF AloneInv
<1>3. finding.status \in {"none", "not_reviewed"}
  BY <1>2 DEF Recorded
<1>4. /\ finding.kind \notin {"adjudicated", "overruled"}
      /\ finding.kind = "legacy" => finding.status = "not_reviewed"
  BY <1>3, Unsettled
<1>5. ASSUME \A u \in Attempt \ {t} : attempt'[u] = attempt[u], Recorded(t)', DetSound'
      PROVE  AloneInv'
  <2>1. \A u \in UnderWay' : u = t
    BY <1>1, <1>5 DEF UnderWay, AloneInv
  <2> QED BY <1>1, <1>4, <1>5, <2>1 DEF AloneInv, FindingSound
<1>6. CASE Review(t)
  <2>1. attempt[t].pc = "review" /\ det' = det
    BY <1>6, Zenon DEF Review
  <2>2. det = NoDet /\ \A o \in Ids : rows[o] = NoRow
    BY <1>2, <2>1 DEF Recorded
  <2>3. DetSound'
    BY <2>1, <2>2 DEF DetSound
  <2>4. CASE Move(t, "legacy")
    <3>1. attempt'[t].pc = "legacy" /\ \A u \in Attempt \ {t} : attempt'[u] = attempt[u]
      BY <1>a, <2>4, Moved
    <3>2. Recorded(t)'
      BY <1>1, <1>3, <2>1, <2>2, <3>1 DEF Recorded, Holding
    <3> QED BY <1>5, <2>3, <3>1, <3>2
  <2>5. ASSUME NEW v, Sound(t, v),
               attempt' = [attempt EXCEPT ![t].pc = "determine", ![t].verdict = v],
               rows' = [o \in Ids |-> IF v.rows[o] = NoRow THEN rows[o] ELSE v.rows[o]]
        PROVE  AloneInv'
    <3>1. /\ attempt'[t].pc = "determine" /\ attempt'[t].verdict = v
          /\ \A u \in Attempt \ {t} : attempt'[u] = attempt[u]
      BY <1>a, <2>5, Judging
    <3>2. v.rows \in [Ids -> Row \cup {NoRow}]
      BY <2>5 DEF Sound
    <3>3. rows' = v.rows
      BY <2>2, <2>5, <3>2
    <3>4. Recorded(t)'
      BY <1>1, <1>3, <2>1, <2>2, <3>1, <3>3 DEF Recorded, Holding
    <3> QED BY <1>5, <2>3, <3>1, <3>4
  <2> QED BY <1>6, <2>4, <2>5, Reviewed, Zenon
<1>7. CASE Determine(t)
  <2>1. attempt[t].pc = "determine" /\ Holding(t) /\ rows' = rows
    BY <1>7 DEF Determine, Holding
  <2>2. rows = attempt[t].verdict.rows /\ Sound(t, attempt[t].verdict)
    BY <1>2, <2>1 DEF Recorded, HeldSound
  <2>3. /\ attempt'[t].pc = "challenge" /\ attempt'[t].verdict = attempt[t].verdict
        /\ \A u \in Attempt \ {t} : attempt'[u] = attempt[u]
    BY <1>a, <1>7, Moved DEF Determine
  <2>4. det' = DetOf(t)
    BY <1>7 DEF Determine, DetOf
  <2>5. Recorded(t)'
    BY <1>1, <1>3, <2>1, <2>2, <2>3, <2>4 DEF Recorded, Holding, DetOf
  <2> DEFINE v == attempt[t].verdict
  <2>6. det'.by = t /\ det'.status = v.status /\ det'.manual = v.manual /\ rows' = v.rows /\ Sound(t, v)
    BY <2>1, <2>2, <2>4 DEF DetOf
  <2> HIDE DEF v
  <2>7. DetSound'
    BY <1>1, <2>6, DetSoundFrom
  <2> QED BY <1>5, <2>3, <2>5, <2>7
<1>8. CASE Challenge(t)
  <2>1. attempt[t].pc = "challenge" /\ rows' = rows /\ det' = det /\ challenge' = t
    BY <1>8 DEF Challenge
  <2>2. /\ attempt'[t].pc = "write" /\ attempt'[t].verdict = attempt[t].verdict
        /\ \A u \in Attempt \ {t} : attempt'[u] = attempt[u]
    BY <1>a, <1>8, Moved DEF Challenge
  <2>3. Recorded(t)'
    BY <1>1, <1>2, <1>3, <2>1, <2>2 DEF Recorded, Holding, DetOf
  <2>4. DetSound'
    BY <1>1, <2>1, DetStill DEF AloneInv
  <2> QED BY <1>5, <2>2, <2>3, <2>4
<1> QED BY <1>6, <1>7, <1>8

\* ... when it writes its finding ...
LEMMA FindingAlone ==
  ASSUME TypeOK, AloneInv, NEW t \in Attempt, RecordDecision(t) \/ Finish(t) \/ Legacy(t)
  PROVE  AloneInv'
<1>a. attempt \in [Attempt -> Attempts]
  BY DEF TypeOK
<1>1. t \in UnderWay /\ End(t) /\ world' = world
  BY DEF RecordDecision, Finish, Legacy, UnderWay
<1>2. Recorded(t)
  BY <1>1 DEF AloneInv
<1>3. finding.status \in {"none", "not_reviewed"}
  BY <1>2 DEF Recorded
<1>4. /\ finding.kind \notin {"adjudicated", "overruled"}
      /\ finding.kind = "legacy" => finding.status = "not_reviewed"
  BY <1>3, Unsettled
<1>5. UnderWay' = {}
  <2>1. attempt'[t].pc = "ended" /\ \A u \in Attempt \ {t} : attempt'[u] = attempt[u]
    BY <1>a, <1>1, Ended
  <2> QED BY <1>1, <2>1 DEF UnderWay, AloneInv
<1>6. CASE Finish(t)
  <2>1. attempt[t].pc = "write" /\ rows' = rows /\ det' = det /\ challenge' = challenge
    BY <1>6 DEF Finish
  <2>2. det = DetOf(t) /\ challenge = t /\ det.by = t /\ det.status = attempt[t].verdict.status
    BY <1>2, <2>1 DEF Recorded, DetOf
  <2>3. attempt[t].verdict.status # "not_applicable"
    BY <2>1, <2>2 DEF TypeOK, Statuses, NoDet
  <2> DEFINE m == attempt[t].verdict.manual /\ attempt[t].run
             k == IF Overruled(t) THEN "overruled" ELSE "adjudicated"
             x == AsDecided(t, attempt[t].verdict.status)
             found == [by |-> t, kind |-> k, status |-> x, manual |-> m]
  <2>4. finding' = found \/ finding' = finding
    BY <1>6, Written DEF Finish
  <2>5. /\ k \in {"adjudicated", "overruled"}
        /\ x = IF k = "overruled" THEN Terms(t).manual ELSE attempt[t].verdict.status
    BY <2>3 DEF AsDecided
  <2> HIDE DEF m, k, x
  <2>6. FindingSound'
    <3>1. CASE finding' = found
      <4>1. finding'.by = t /\ finding'.kind = k /\ finding'.status = x
        BY <3>1
      <4>2. Terms(det.by)' = Terms(t)
        BY <1>1, <2>1, <2>2, WorldFixed DEF Terms
      <4> QED BY <2>1, <2>2, <2>5, <4>1, <4>2 DEF FindingSound
    <3>2. CASE finding' = finding
      BY <1>4, <3>2 DEF FindingSound
    <3> QED BY <2>4, <3>1, <3>2
  <2>7. DetSound'
    BY <1>1, <2>1, DetStill DEF AloneInv
  <2> QED BY <1>5, <2>6, <2>7 DEF AloneInv
<1>7. CASE Legacy(t)
  <2>1. det' = NoDet
    <3>1. CASE attempt[t].pc = "bare"
      BY <1>7, <3>1 DEF Legacy, Reset
    <3>2. CASE attempt[t].pc = "legacy"
      BY <1>2, <1>7, <3>2 DEF Legacy, Recorded
    <3> QED BY <1>7, <3>1, <3>2 DEF Legacy
  <2>2. DetSound'
    BY <2>1 DEF DetSound
  <2>3. finding'.kind \notin {"adjudicated", "overruled"}
    <3>1. PICK answer \in Determined \cup {"not_reviewed"} :
            Write(t, IF answer = "not_reviewed" /\ ~attempt[t].run
                     THEN [finding EXCEPT !.manual = TRUE]
                     ELSE [by |-> t, kind |-> "legacy", status |-> AsDecided(t, answer), manual |-> FALSE])
      BY <1>7 DEF Legacy
    <3>2. CASE answer = "not_reviewed" /\ ~attempt[t].run
      <4>1. finding' = finding \/ (finding # NoFinding /\ finding' = [finding EXCEPT !.manual = TRUE])
        BY <3>1, <3>2 DEF Write
      <4>2. finding # NoFinding => finding \in Findings
        BY DEF TypeOK
      <4>3. finding'.kind = finding.kind
        BY <4>1, <4>2 DEF Findings
      <4> QED BY <1>4, <4>3
    <3>3. CASE ~(answer = "not_reviewed" /\ ~attempt[t].run)
      <4> DEFINE found == [by |-> t, kind |-> "legacy", status |-> AsDecided(t, answer), manual |-> FALSE]
      <4>1. Write(t, found)
        BY <3>1, <3>3
      <4>2. found.kind = "legacy"
        OBVIOUS
      <4> HIDE DEF found
      <4>3. finding' = found \/ finding' = finding
        BY <4>1, Written
      <4> QED BY <1>4, <4>2, <4>3
    <3> QED BY <3>2, <3>3
  <2> QED BY <1>5, <2>1, <2>2, <2>3 DEF AloneInv, FindingSound
<1>8. CASE RecordDecision(t)
  <2>1. rows' = rows /\ det' = det /\ challenge' = challenge
    BY <1>8 DEF RecordDecision
  <2> DEFINE found == [by |-> t, kind |-> "settled", status |-> Terms(t).settle, manual |-> FALSE]
  <2>2. Write(t, found)
    BY <1>8 DEF RecordDecision
  <2>3. found.kind = "settled"
    OBVIOUS
  <2> HIDE DEF found
  <2>4. finding' = found \/ finding' = finding
    BY <2>2, Written
  <2>5. FindingSound'
    BY <1>4, <2>3, <2>4 DEF FindingSound
  <2>6. DetSound'
    BY <1>1, <2>1, DetStill DEF AloneInv
  <2> QED BY <1>5, <2>5, <2>6 DEF AloneInv
<1> QED BY <1>6, <1>7, <1>8

\* ... and when attempts end without a finding, or nothing happens.
LEMMA QuietAlone ==
  ASSUME AloneInv, UNCHANGED <<world, rows, det, challenge, finding>>,
         \A u \in UnderWay' : u \in UnderWay /\ attempt'[u] = attempt[u]
  PROVE  AloneInv'
<1>1. DetSound'
  BY DetStill DEF AloneInv
<1>2. ASSUME NEW u \in UnderWay' PROVE Recorded(u)'
  <2>1. Recorded(u) /\ attempt'[u] = attempt[u]
    BY <1>2 DEF AloneInv
  <2> QED BY <2>1 DEF Recorded, Holding, DetOf
<1>3. FindingSound'
  BY DEF AloneInv, FindingSound, Terms
<1> QED BY <1>1, <1>2, <1>3 DEF AloneInv

\* TypeOK and RecordsInv are inductive.
THEOREM RecordsInvariant == Spec => [](TypeOK /\ RecordsInv)
<1>1. Init => TypeOK /\ RecordsInv
  <2> SUFFICES ASSUME Init PROVE TypeOK /\ RecordsInv
    OBVIOUS
  <2>1. NoAttempt \in Attempts
    BY NoAttemptType
  <2>2. NoAttempt \in Attempts /\ NoAttempt.pc = "unused"
    BY <2>1 DEF NoAttempt
  <2>3. TypeOK
    BY <2>2 DEF Init, TypeOK
  <2>4. \A t \in Attempt : attempt[t].pc = "unused"
    BY <2>2 DEF Init
  <2>5. HeldSound /\ UnderWay = {}
    BY <2>4 DEF HeldSound, Holding, UnderWay
  <2>6. MetByCurrentEvidence
    BY DEF Init, MetByCurrentEvidence, Present
  <2>7. finding.kind = "none" /\ DetSound
    BY DEF Init, NoFinding, DetSound
  <2> QED BY <2>3, <2>5, <2>6, <2>7 DEF RecordsInv, AloneInv, FindingSound
<1>2. TypeOK /\ RecordsInv /\ [Next]_vars => (TypeOK /\ RecordsInv)'
  <2> SUFFICES ASSUME TypeOK, RecordsInv, [Next]_vars PROVE TypeOK' /\ RecordsInv'
    OBVIOUS
  <2>1. TypeOK' /\ HeldSound' /\ MetByCurrentEvidence'
    BY AdjudicationTyped, HeldKept, MetKept DEF RecordsInv
  <2>2. ASSUME ~overlapped' PROVE AloneInv'
    <3>1. overlapped' = overlapped \/ overlapped' = (overlapped \/ UnderWay # {})
      BY Zenon DEF Next, Begin, RecordDecision, Review, Determine, Challenge, Finish, Legacy, Raise, Crash, vars
    <3>2. ~overlapped
      BY <2>2, <3>1 DEF TypeOK
    <3>3. HeldSound /\ AloneInv
      BY <3>2 DEF RecordsInv
    <3>4. attempt \in [Attempt -> Attempts]
      BY DEF TypeOK
    <3>5. ASSUME NEW t \in Attempt, Begin(t) PROVE AloneInv'
      BY <2>2, <3>3, <3>5, BeginAlone
    <3>6. ASSUME NEW t \in Attempt, Review(t) \/ Determine(t) \/ Challenge(t) PROVE AloneInv'
      BY <3>3, <3>6, StageAlone
    <3>7. ASSUME NEW t \in Attempt, RecordDecision(t) \/ Finish(t) \/ Legacy(t) PROVE AloneInv'
      BY <3>3, <3>7, FindingAlone
    <3>8. ASSUME NEW t \in Attempt, Raise(t) PROVE AloneInv'
      <4>1. attempt'[t].pc = "ended" /\ \A u \in Attempt \ {t} : attempt'[u] = attempt[u]
        BY <3>4, <3>8, Ended DEF Raise
      <4>2. \A u \in UnderWay' : u \in UnderWay /\ attempt'[u] = attempt[u]
        BY <4>1 DEF UnderWay
      <4> QED BY <3>3, <3>8, <4>2, QuietAlone DEF Raise
    <3>9. CASE Crash
      <4>1. \A u \in Attempt : attempt'[u] = IF u \in UnderWay THEN [NoAttempt EXCEPT !.pc = "ended"] ELSE attempt[u]
        BY <3>9 DEF Crash
      <4>2. \A u \in UnderWay' : u \in UnderWay /\ attempt'[u] = attempt[u]
        BY <4>1 DEF UnderWay, NoAttempt
      <4> QED BY <3>3, <3>9, <4>2, QuietAlone DEF Crash
    <3>10. CASE UNCHANGED vars
      <4>1. \A u \in UnderWay' : u \in UnderWay /\ attempt'[u] = attempt[u]
        BY <3>10 DEF UnderWay, vars
      <4> QED BY <3>3, <3>10, <4>1, QuietAlone DEF vars
    <3> QED BY <3>5, <3>6, <3>7, <3>8, <3>9, <3>10, Zenon DEF Next
  <2> QED BY <2>1, <2>2 DEF RecordsInv
<1> QED BY <1>1, <1>2, PTL DEF Spec

\* Every variable stays in its type.
THEOREM RecordsAreTyped == Spec => []TypeOK
BY RecordsInvariant, PTL

\* RecordsAgree: the determination, the objective rows, the challenge and the finding of a
\* control are of one attempt unless two were under way together, and the finding says
\* what the determination says or what the manual status says that overruled it.
THEOREM RecordsOfOneAttempt == Spec => []RecordsAgree
<1>1. TypeOK /\ RecordsInv => RecordsAgree
  <2> SUFFICES ASSUME RecordsInv, ~overlapped, AloneInv PROVE RecordsAgree
    BY DEF RecordsInv, RecordsAgree
  <2>1. ASSUME det # NoDet
        PROVE  /\ Present # {} /\ \A o \in Present : rows[o].by = det.by
               /\ det.status = "compliant" => \A o \in Present : rows[o].status = "met"
               /\ det.status = "non_compliant" => \A o \in Present : rows[o].status = "not_met"
    <3>1. Sound(det.by, [rows |-> rows, status |-> det.status, manual |-> det.manual])
      BY <2>1 DEF AloneInv, DetSound
    <3> QED BY <3>1 DEF Sound, RowsOf, Present
  <2> QED BY <2>1 DEF AloneInv, FindingSound, RecordsAgree
<1> QED BY <1>1, RecordsInvariant, PTL

\* MetByCurrentEvidence: under every policy no objective of a strict bucket is met by a
\* plan or by nothing, whatever the model answers, and without its word only on current
\* evidence or a satisfied contract.
THEOREM MetIsGrounded == Spec => []MetByCurrentEvidence
<1>1. TypeOK /\ RecordsInv => MetByCurrentEvidence
  BY DEF RecordsInv
<1> QED BY <1>1, RecordsInvariant, PTL

\* CompliantIsEarned: under every policy a control found compliant has every objective of
\* its rows met, and evidence against one of them, from the share on that this policy
\* reviews, asks for review unless the answer was a plain "no".
THEOREM CompliantControlsEarnIt == Spec => []CompliantIsEarned
<1>1. TypeOK /\ RecordsInv => CompliantIsEarned
  <2> SUFFICES ASSUME RecordsInv, det.status = "compliant", ~overlapped, NEW o \in Objective \cap Present
               PROVE  /\ rows[o].status = "met"
                      /\ Ratio(o) >= RulesOf(det.by).review_contradiction /\ ~det.manual => rows[o].met = "no"
    BY DEF CompliantIsEarned
  <2>1. det # NoDet
    BY DEF NoDet
  <2>2. Sound(det.by, [rows |-> rows, status |-> det.status, manual |-> det.manual])
    BY <2>1 DEF RecordsInv, AloneInv, DetSound
  <2> QED BY <2>2 DEF Sound, RowsOf, Present
<1> QED BY <1>1, RecordsInvariant, PTL

----------------------------------------------------------------------------
(* The policies.                                                           *)

USE PolicyAssumption DEF NoPolicy, policyVars

\* Of active policies one is in force.
LEMMA InForceType ==
  ASSUME PolicyTypeOK
  PROVE  /\ InForce \in Policy \cup {NoPolicy}
         /\ Active # {} => InForce \in Active /\ IsInForce(InForce)
<1>1. CASE Active = {}
  BY <1>1 DEF InForce
<1>2. CASE Active # {}
  <2> DEFINE R == {pair \in Active \X Active : Sooner(pair[1], pair[2])}
  <2>1. \A p, q \in Active : <<p, q>> \in R <=> Sooner(p, q)
    OBVIOUS
  <2>a. \A p \in Active : p \in Policy /\ p \in Nat /\ policy[p].at \in Nat
    BY DEF Active, PolicyTypeOK, PolicyRows
  <2>2. \A p \in Active : ~Sooner(p, p)
    BY <2>a DEF Sooner
  <2>3. \A p, q, r \in Active : Sooner(p, q) /\ Sooner(q, r) => Sooner(p, r)
    BY <2>a DEF Sooner
  <2>4. IsFiniteSet(Active)
    BY FS_Subset, Zenon DEF Active
  <2> HIDE DEF R
  <2>5. PICK p \in Active : \A q \in Active : <<p, q>> \notin R
    BY <1>2, <2>1, <2>2, <2>3, <2>4, Greatest
  <2>6. ASSUME NEW q \in Active \ {p} PROVE Sooner(q, p)
    <3>1. ~Sooner(p, q)
      BY <2>1, <2>5
    <3>2. policy[p].at \in Nat /\ policy[q].at \in Nat /\ p \in Nat /\ q \in Nat /\ p # q
      BY <2>a
    <3> QED BY <3>1, <3>2 DEF Sooner
  <2>7. IsInForce(p)
    BY <2>6 DEF IsInForce
  <2> QED BY <1>2, <2>7, <2>a DEF InForce
<1> QED BY <1>1, <1>2

\* An active policy later than every other one is the policy in force.
LEMMA LatestInForce ==
  ASSUME PolicyTypeOK, NEW l \in Active, \A p \in Active \ {l} : policy[p].at < policy[l].at
  PROVE  InForce = l
<1>a. \A p \in Active : p \in Policy /\ p \in Nat /\ policy[p].at \in Nat
  BY DEF Active, PolicyTypeOK, PolicyRows
<1>1. InForce \in Active /\ IsInForce(InForce)
  BY InForceType
<1>2. ASSUME InForce # l PROVE FALSE
  <2>1. Sooner(l, InForce) /\ policy[InForce].at < policy[l].at
    BY <1>1, <1>2 DEF IsInForce
  <2> QED BY <1>a, <1>1, <2>1 DEF Sooner
<1> QED BY <1>2


\* A request that is answered is at rest.
LEMMA RestType == AtRest \in PolicyRequests /\ Absent \in PolicyRows
BY DEF AtRest, PolicyRequests, Absent, PolicyRows, NoStatus

\* Each operation on policies keeps every variable in its type.
LEMMA RegisterType ==
  ASSUME PolicyTypeOK, NEW o \in Officer, RegisterStep(o)
  PROVE  PolicyTypeOK'
<1>0. /\ office[o] \in PolicyRequests /\ clock + 1 \in Nat
      /\ \A p \in Policy : policy[p] \in PolicyRows
  BY DEF PolicyTypeOK
<1>a. ASSUME NEW state \in PolicyRequests, Admit(o, state) PROVE PolicyTypeOK'
  BY <1>a DEF Admit, PolicyTypeOK
<1>r. Replied(o) => office' \in [Officer -> PolicyRequests]
  BY RestType DEF Replied, PolicyTypeOK
<1>1. ASSUME NEW p \in Policy, NEW kind \in {"edit", "activate", "delete"}, OpenDraft(o, kind, p)
      PROVE  PolicyTypeOK'
  <2>1. [AtRest EXCEPT !.pc = IF kind = "activate" THEN "load" ELSE "ready", !.kind = kind, !.row = p]
          \in PolicyRequests
    BY DEF AtRest, PolicyRequests
  <2> QED BY <1>1, <1>a, <2>1 DEF OpenDraft
<1>2. ASSUME NEW p \in Policy, OpenClone(o, p) PROVE PolicyTypeOK'
  <2>1. PICK v \in {policy[q].version : q \in Registered} :
          Admit(o, [AtRest EXCEPT !.pc = "ready", !.kind = "clone", !.content = policy[p].content, !.version = v + 1])
    BY <1>2 DEF OpenClone
  <2>2. v + 1 \in Nat /\ policy[p].content \in Nat
    BY <1>0, <2>1 DEF Registered, PolicyRows
  <2>3. [AtRest EXCEPT !.pc = "ready", !.kind = "clone", !.content = policy[p].content, !.version = v + 1]
          \in PolicyRequests
    BY <2>2 DEF AtRest, PolicyRequests
  <2> QED BY <1>a, <2>1, <2>3
<1>3. CASE StartProcess(o)
  <2>1. PICK p \in Policy \cup {NoPolicy} :
          /\ p \in IF Registered # {} THEN Registered ELSE {NoPolicy}
          /\ office' = [office EXCEPT ![o] = [AtRest EXCEPT !.pc = "ready", !.kind = "seed", !.row = p,
                                                            !.at = clock + 1,
                                                            !.seen = IF p = NoPolicy THEN 0 ELSE policy[p].at]]
    BY <1>3 DEF StartProcess, Registered
  <2>2. (IF p = NoPolicy THEN 0 ELSE policy[p].at) \in Nat
    BY <1>0, <2>1 DEF PolicyRows
  <2>3. [AtRest EXCEPT !.pc = "ready", !.kind = "seed", !.row = p, !.at = clock + 1,
                       !.seen = IF p = NoPolicy THEN 0 ELSE policy[p].at] \in PolicyRequests
    BY <1>0, <2>2 DEF AtRest, PolicyRequests
  <2> QED BY <1>3, <2>1, <2>3 DEF StartProcess, PolicyTypeOK
<1>4. CASE ReadActive(o)
  <2>1. [office[o] EXCEPT !.pc = "ready", !.active = InForce, !.at = clock + 1] \in PolicyRequests
    BY <1>0, InForceType DEF PolicyRequests
  <2> QED BY <1>4, <2>1 DEF ReadActive, PolicyTypeOK
<1>5. CASE CommitEdit(o)
  <2>1. \A p \in Policy : [policy[p] EXCEPT !.content = clock + 1] \in PolicyRows
    BY <1>0 DEF PolicyRows
  <2> QED BY <1>5, <1>r, <2>1 DEF CommitEdit, PolicyTypeOK, Registered
<1>6. CASE CommitClone(o)
  <2>1. [status |-> "draft", at |-> 0, version |-> office[o].version, content |-> office[o].content] \in PolicyRows
    BY <1>0 DEF PolicyRows, PolicyRequests, PolicyStatuses
  <2> QED BY <1>6, <1>r, <2>1 DEF CommitClone, PolicyTypeOK, Unborn
<1>7. CASE CommitActivate(o)
  <2>1. \A p \in Policy : /\ [policy[p] EXCEPT !.status = "active", !.at = office[o].at] \in PolicyRows
                          /\ [policy[p] EXCEPT !.status = "retired"] \in PolicyRows
    BY <1>0 DEF PolicyRows, PolicyRequests, PolicyStatuses
  <2>2. policy' \in [Policy -> PolicyRows]
    <3>1. CASE policy' = policy
      BY <3>1 DEF PolicyTypeOK
    <3>2. CASE policy' # policy
      <4>1. policy' = [q \in Policy |->
                         IF q = office[o].row THEN [policy[q] EXCEPT !.status = "active", !.at = office[o].at]
                         ELSE IF q \in Retiring(o) THEN [policy[q] EXCEPT !.status = "retired"]
                         ELSE policy[q]]
        BY <1>7, <3>2 DEF CommitActivate
      <4> QED BY <1>0, <2>1, <4>1
    <3> QED BY <3>1, <3>2
  <2>3. office[o].row \in Registered \/ UNCHANGED <<latest, disturbed>>
    BY <1>7 DEF CommitActivate
  <2>4. latest' \in [policy : Policy \cup {NoPolicy}, at : Nat] /\ disturbed' \in BOOLEAN
    <3>1. CASE UNCHANGED <<latest, disturbed>>
      BY <3>1 DEF PolicyTypeOK
    <3>2. CASE ~UNCHANGED <<latest, disturbed>>
      <4>1. Noted(office[o].row, office[o].at) /\ office[o].row \in Policy /\ office[o].at \in Nat
        BY <1>0, <1>7, <2>3, <3>2 DEF CommitActivate, PolicyRequests, Registered
      <4> QED BY <4>1 DEF Noted, PolicyTypeOK
    <3> QED BY <3>1, <3>2
  <2> QED BY <1>7, <1>r, <2>2, <2>4 DEF CommitActivate, PolicyTypeOK
<1>8. CASE CommitDelete(o)
  <2>1. \A p \in Policy : [policy[p] EXCEPT !.status = "deleted"] \in PolicyRows
    BY <1>0 DEF PolicyRows
  <2> QED BY <1>8, <1>r, <2>1 DEF CommitDelete, PolicyTypeOK, Registered
<1>9. CASE CommitSeed(o)
  <2>1. office[o].at \in Nat /\ office[o].row \in Policy \cup {NoPolicy}
    BY <1>0 DEF PolicyRequests
  <2>2. CASE office[o].row = NoPolicy
    <3>1. PICK q \in Policy :
            /\ policy' = [policy EXCEPT ![q] = [status |-> "active", at |-> office[o].at, version |-> 1, content |-> 0]]
            /\ Noted(q, office[o].at)
      BY <1>9, <2>2 DEF CommitSeed, Unborn
    <3>2. [status |-> "active", at |-> office[o].at, version |-> 1, content |-> 0] \in PolicyRows
      BY <2>1 DEF PolicyRows, PolicyStatuses
    <3>3. latest' \in [policy : Policy \cup {NoPolicy}, at : Nat] /\ disturbed' \in BOOLEAN
      BY <2>1, <3>1 DEF Noted, PolicyTypeOK
    <3> QED BY <1>9, <1>r, <3>1, <3>2, <3>3 DEF CommitSeed, PolicyTypeOK
  <2>3. CASE office[o].row \in Registered
    <3> DEFINE p == office[o].row
    <3>1. p \in Policy /\ p # NoPolicy
      BY <2>3 DEF Registered
    <3>2. /\ policy' = [policy EXCEPT ![p].status = "active",
                                      ![p].at = IF office[o].seen = 0 THEN office[o].at ELSE @]
          /\ Noted(p, office[o].at)
      BY <1>9, <2>3, <3>1 DEF CommitSeed
    <3>3. policy' \in [Policy -> PolicyRows]
      BY <1>0, <2>1, <3>1, <3>2 DEF PolicyTypeOK, PolicyRows, PolicyStatuses
    <3>4. latest' \in [policy : Policy \cup {NoPolicy}, at : Nat] /\ disturbed' \in BOOLEAN
      BY <2>1, <3>1, <3>2 DEF Noted, PolicyTypeOK
    <3> QED BY <1>9, <1>r, <3>3, <3>4 DEF CommitSeed, PolicyTypeOK
  <2>4. CASE office[o].row # NoPolicy /\ office[o].row \notin Registered
    BY <1>9, <1>r, <2>4 DEF CommitSeed, PolicyTypeOK
  <2> QED BY <2>2, <2>3, <2>4
<1> QED BY <1>1, <1>2, <1>3, <1>4, <1>5, <1>6, <1>7, <1>8, <1>9 DEF RegisterStep

\* Before the first request the table is empty.
LEMMA RegisterStart == RegisterInit => PolicyTypeOK /\ NewestInv
<1> SUFFICES ASSUME RegisterInit PROVE PolicyTypeOK /\ NewestInv
  OBVIOUS
<1>1. PolicyTypeOK
  BY RestType, RequestAssumption DEF RegisterInit, PolicyTypeOK
<1>2. \A o \in Officer : office[o] = AtRest /\ ~Timed(o)
  BY DEF RegisterInit, Timed, AtRest
<1>3. \A p \in Policy : policy[p].at = 0 /\ policy[p].status = "none"
  BY DEF RegisterInit, Absent, NoStatus
<1>4. TimesRead
  BY <1>2, <1>3 DEF TimesRead, AtRest, RegisterInit
<1>5. Active = {}
  BY <1>3 DEF Active
<1> QED BY <1>1, <1>4, <1>5 DEF NewestInv, RegisterInit

\* What a request may come to hold by a step that makes no policy active: no later time
\* than now, and as the time to activate something none but now; policies that were
\* activated.
Harmless(state) ==
  /\ state.at <= clock'
  /\ state.pc = "ready" /\ state.kind \in {"activate", "seed"} => state.at = clock + 1 /\ clock' = clock + 1
  /\ state.seen > 0 => state.row \in Policy /\ policy[state.row].at > 0
  /\ state.active # NoPolicy => policy[state.active].at > 0

\* A step that makes no policy active and none inactive keeps the invariant.
LEMMA QuietKeeps ==
  ASSUME PolicyTypeOK, NewestInv, NEW o \in Officer, NEW state \in PolicyRequests, Harmless(state),
         office' = [office EXCEPT ![o] = state], clock' \in {clock, clock + 1},
         latest' = latest, disturbed' = disturbed,
         \A p \in Policy : policy'[p].at = policy[p].at /\ (policy'[p].status = "active" <=> policy[p].status = "active")
  PROVE  NewestInv'
<1>0. /\ clock \in Nat /\ clock' \in Nat /\ clock <= clock' /\ latest.at \in Nat /\ latest.policy \in Policy \cup {NoPolicy}
      /\ \A p \in Policy : policy[p].at \in Nat /\ p # NoPolicy
      /\ \A m \in Officer : /\ office[m].at \in Nat /\ office[m].seen \in Nat
                            /\ {office[m].row, office[m].active} \subseteq Policy \cup {NoPolicy}
      /\ state.at \in Nat /\ state.seen \in Nat /\ {state.row, state.active} \subseteq Policy \cup {NoPolicy}
  BY DEF PolicyTypeOK, PolicyRows, PolicyRequests
<1>1. office'[o] = state /\ \A m \in Officer \ {o} : office'[m] = office[m]
  BY DEF PolicyTypeOK
<1>2. Timed(o)' => state.at = clock + 1 /\ clock' = clock + 1
  BY <1>1 DEF Timed, Harmless
<1>3. \A m \in Officer \ {o} : Timed(m)' <=> Timed(m)
  BY <1>1 DEF Timed
<1>4. TimesRead'
  <2>1. /\ (\A p \in Policy : policy[p].at <= clock)'
        /\ (\A p \in Policy : policy[p].status = "active" => policy[p].at > 0)'
    BY <1>0 DEF NewestInv, TimesRead
  <2>2. (\A m \in Officer : office[m].at <= clock)'
    BY <1>0, <1>1 DEF NewestInv, TimesRead, Harmless
  <2>3. (\A m \in Officer : Timed(m) => office[m].at > 0 /\ \A p \in Policy : policy[p].at # office[m].at)'
    BY <1>0, <1>1, <1>2, <1>3 DEF NewestInv, TimesRead
  <2>4. (\A m, n \in Officer : Timed(m) /\ Timed(n) /\ office[m].at = office[n].at => m = n)'
    <3> SUFFICES ASSUME NEW m \in Officer, NEW n \in Officer, Timed(m)', Timed(n)', (office[m].at = office[n].at)', m # n
                 PROVE FALSE
      OBVIOUS
    <3>1. CASE m = o
      BY <1>0, <1>1, <1>2, <1>3, <3>1 DEF NewestInv, TimesRead
    <3>2. CASE n = o
      BY <1>0, <1>1, <1>2, <1>3, <3>2 DEF NewestInv, TimesRead
    <3>3. CASE m # o /\ n # o
      BY <1>1, <1>3, <3>3 DEF NewestInv, TimesRead
    <3> QED BY <3>1, <3>2, <3>3
  <2>5. (\A m \in Officer : office[m].seen > 0 => office[m].row # NoPolicy /\ policy[office[m].row].at > 0)'
    <3> SUFFICES ASSUME NEW m \in Officer, office'[m].seen > 0
                 PROVE  office'[m].row # NoPolicy /\ policy'[office'[m].row].at > 0
      OBVIOUS
    <3>1. CASE m = o
      <4>1. office'[m] = state
        BY <1>1, <3>1
      <4>2. state.row \in Policy /\ policy[state.row].at > 0
        BY <4>1 DEF Harmless
      <4>3. state.row # NoPolicy /\ policy'[state.row].at > 0
        BY <1>0, <4>2
      <4> QED BY <4>1, <4>3
    <3>2. CASE m # o
      <4>1. office[m].row \in Policy /\ policy[office[m].row].at > 0
        BY <1>0, <1>1, <3>2 DEF NewestInv, TimesRead
      <4> QED BY <1>0, <1>1, <3>2, <4>1
    <3> QED BY <3>1, <3>2
  <2>6. (~disturbed => \A m \in Officer : Timed(m) /\ office[m].active # NoPolicy =>
            policy[office[m].active].at \in 1 .. office[m].at - 1)'
    <3> SUFFICES ASSUME ~disturbed, NEW m \in Officer, Timed(m)', office'[m].active # NoPolicy
                 PROVE  policy'[office'[m].active].at \in 1 .. office'[m].at - 1
      OBVIOUS
    <3>1. CASE m = o
      <4>1. state.active \in Policy /\ policy[state.active].at > 0 /\ policy[state.active].at <= clock
        BY <1>0, <1>1, <3>1 DEF Harmless, NewestInv, TimesRead
      <4>2. office'[m] = state /\ state.at - 1 = clock
        BY <1>0, <1>1, <1>2, <3>1
      <4>3. policy'[state.active].at = policy[state.active].at /\ policy[state.active].at \in Nat
        BY <1>0, <4>1
      <4>4. policy[state.active].at \in 1 .. state.at - 1
        BY <1>0, <4>1, <4>2, <4>3
      <4>5. policy'[state.active].at \in 1 .. state.at - 1
        BY <4>3, <4>4
      <4> QED BY <4>2, <4>5
    <3>2. CASE m # o
      <4>1. office'[m] = office[m] /\ Timed(m) /\ office[m].active \in Policy
        BY <1>0, <1>1, <1>3, <3>2
      <4>2. policy[office[m].active].at \in 1 .. office[m].at - 1
        BY <4>1 DEF NewestInv, TimesRead
      <4> QED BY <4>1, <4>2
    <3> QED BY <3>1, <3>2
  <2> QED BY <2>1, <2>2, <2>3, <2>4, <2>5, <2>6 DEF TimesRead
<1>5. Active' = Active
  BY DEF Active
<1>6. latest.policy # NoPolicy => latest.policy \in Policy
  BY <1>0
<1>7. (~disturbed =>
          IF latest.policy = NoPolicy THEN Active = {}
          ELSE /\ latest.policy \in Active /\ policy[latest.policy].at = latest.at
               /\ \A p \in Active \ {latest.policy} : policy[p].at < latest.at)'
  BY <1>5, <1>6 DEF NewestInv, Active
<1> QED BY <1>4, <1>7 DEF NewestInv

\* A policy that becomes active for the first time at a time that was read before becomes
\* the latest, or leaves the latest as it was: the policy that is retired with it was
\* activated before it.
LEMMA ActivationKeeps ==
  ASSUME PolicyTypeOK, NewestInv, NEW o \in Officer, Timed(o), NEW q \in Policy, NEW Old, Replied(o),
         \A p \in Old : p = office[o].active /\ p # q /\ p # NoPolicy,
         Noted(q, office[o].at), clock' = clock,
         policy'[q].status = "active", policy'[q].at = office[o].at,
         \A p \in Policy \ {q} : policy'[p].at = policy[p].at,
         \A p \in Policy \ (Old \cup {q}) : policy'[p].status = policy[p].status,
         \A p \in Policy \cap Old : policy'[p].status = "retired"
  PROVE  NewestInv'
<1> DEFINE t == office[o].at
<1>0. /\ clock \in Nat /\ latest.at \in Nat /\ latest.policy \in Policy \cup {NoPolicy}
      /\ \A p \in Policy : policy[p].at \in Nat /\ p # NoPolicy
      /\ \A m \in Officer : /\ office[m].at \in Nat /\ office[m].seen \in Nat
                            /\ {office[m].row, office[m].active} \subseteq Policy \cup {NoPolicy}
      /\ t \in Nat
  BY DEF PolicyTypeOK, PolicyRows, PolicyRequests
<1>1. office'[o] = AtRest /\ \A m \in Officer \ {o} : office'[m] = office[m]
  BY DEF PolicyTypeOK, Replied
<1>2. ~Timed(o)' /\ \A m \in Officer \ {o} : Timed(m)' <=> Timed(m)
  BY <1>1 DEF Timed, AtRest
<1>3. t > 0 /\ t <= clock /\ \A p \in Policy : policy[p].at # t
  BY DEF NewestInv, TimesRead
<1>4. TimesRead'
  <2>1. (\A p \in Policy : policy[p].at <= clock)'
    BY <1>0, <1>3 DEF NewestInv, TimesRead
  <2>2. (\A m \in Officer : office[m].at <= clock)'
    BY <1>0, <1>1 DEF NewestInv, TimesRead, AtRest
  <2>3. (\A m \in Officer : Timed(m) => office[m].at > 0 /\ \A p \in Policy : policy[p].at # office[m].at)'
    <3> SUFFICES ASSUME NEW m \in Officer, Timed(m)'
                 PROVE  office'[m].at > 0 /\ \A p \in Policy : policy'[p].at # office'[m].at
      OBVIOUS
    <3>1. m # o /\ Timed(m) /\ office'[m] = office[m]
      BY <1>1, <1>2
    <3>2. office[m].at > 0 /\ office[m].at # t /\ \A p \in Policy : policy[p].at # office[m].at
      BY <3>1 DEF NewestInv, TimesRead
    <3> QED BY <3>1, <3>2
  <2>4. (\A m, n \in Officer : Timed(m) /\ Timed(n) /\ office[m].at = office[n].at => m = n)'
    BY <1>1, <1>2 DEF NewestInv, TimesRead
  <2>5. (\A p \in Policy : policy[p].status = "active" => policy[p].at > 0)'
    BY <1>0, <1>3 DEF NewestInv, TimesRead
  <2>6. (\A m \in Officer : office[m].seen > 0 => office[m].row # NoPolicy /\ policy[office[m].row].at > 0)'
    <3> SUFFICES ASSUME NEW m \in Officer, office'[m].seen > 0
                 PROVE  office'[m].row # NoPolicy /\ policy'[office'[m].row].at > 0
      OBVIOUS
    <3>1. m # o /\ office'[m] = office[m]
      BY <1>1 DEF AtRest
    <3>2. office[m].row \in Policy /\ policy[office[m].row].at > 0
      BY <1>0, <3>1 DEF NewestInv, TimesRead
    <3> QED BY <1>0, <1>3, <3>1, <3>2
  <2>7. (~disturbed => \A m \in Officer : Timed(m) /\ office[m].active # NoPolicy =>
            policy[office[m].active].at \in 1 .. office[m].at - 1)'
    <3> SUFFICES ASSUME ~disturbed', NEW m \in Officer, Timed(m)', office'[m].active # NoPolicy
                 PROVE  policy'[office'[m].active].at \in 1 .. office'[m].at - 1
      OBVIOUS
    <3>1. m # o /\ Timed(m) /\ office'[m] = office[m]
      BY <1>1, <1>2
    <3>2. ~disturbed /\ policy[q].at = 0
      BY DEF Noted
    <3>3. office[m].active \in Policy /\ policy[office[m].active].at \in 1 .. office[m].at - 1
      BY <1>0, <3>1, <3>2 DEF NewestInv, TimesRead
    <3>4. office[m].active # q
      BY <1>0, <3>2, <3>3
    <3> QED BY <3>1, <3>3, <3>4
  <2> QED BY <2>1, <2>2, <2>3, <2>4, <2>5, <2>6, <2>7 DEF TimesRead
<1>5. \/ latest' = [policy |-> q, at |-> t] /\ t > latest.at
      \/ latest' = latest /\ ~(t > latest.at)
  BY DEF Noted
<1>6. ((latest.policy = NoPolicy) <=> (latest.at = 0))'
  BY <1>0, <1>3, <1>5 DEF NewestInv
<1>7. ASSUME ~disturbed'
      PROVE  /\ latest'.policy # NoPolicy
             /\ latest'.policy \in Active' /\ policy'[latest'.policy].at = latest'.at
             /\ \A p \in Active' \ {latest'.policy} : policy'[p].at < latest'.at
  <2>1. ~disturbed /\ policy[q].at = 0
    BY <1>7 DEF Noted
  <2>2. q \in Active' /\ \A p \in Active' \ {q} : p \in Active /\ policy'[p].at = policy[p].at
    BY DEF Active
  <2>3. \A p \in Active : policy[p].at \in Nat /\ p # NoPolicy
    BY <1>0 DEF Active
  <2>4. CASE t > latest.at
    <3>1. latest'.policy = q /\ latest'.at = t
      BY <1>5, <2>4, <1>0
    <3>2. \A p \in Active : policy[p].at <= latest.at
      <4>1. CASE latest.policy = NoPolicy
        BY <2>1, <4>1 DEF NewestInv
      <4>2. CASE latest.policy # NoPolicy
        <5>1. /\ policy[latest.policy].at = latest.at
              /\ \A p \in Active \ {latest.policy} : policy[p].at < latest.at
          BY <2>1, <4>2 DEF NewestInv
        <5> QED BY <1>0, <2>3, <5>1
      <4> QED BY <4>1, <4>2
    <3>3. \A p \in Active' \ {q} : policy'[p].at < t
      BY <1>0, <2>2, <2>3, <2>4, <3>2
    <3> QED BY <1>0, <2>2, <3>1, <3>3
  <2>5. CASE ~(t > latest.at)
    <3> DEFINE l == latest.policy
    <3>1. latest' = latest /\ l # NoPolicy
      BY <1>0, <1>3, <1>5, <2>5 DEF NewestInv
    <3>2. /\ l \in Active /\ policy[l].at = latest.at
          /\ \A p \in Active \ {l} : policy[p].at < latest.at
      BY <2>1, <3>1 DEF NewestInv
    <3>3. t < latest.at
      <4> DEFINE n == latest.at
      <4>1. t \in Int /\ n \in Int
        BY <1>0
      <4>2. l \in Policy /\ policy[l].at = n
        BY <3>2 DEF Active
      <4>3. n # t
        BY <1>3, <4>2, Zenon
      <4>4. ~(t > n)
        BY <2>5
      <4> HIDE DEF n, t
      <4>5. t < n
        BY <4>1, <4>3, <4>4
      <4> QED BY <4>5 DEF n
    <3>4. l # q
      BY <1>0, <2>1, <3>2, <3>3
    <3>5. l \notin Old
      <4> SUFFICES ASSUME l \in Old PROVE FALSE
        OBVIOUS
      <4>1. l = office[o].active /\ l # NoPolicy
        OBVIOUS
      <4>2. policy[l].at \in 1 .. t - 1
        BY <2>1, <4>1 DEF NewestInv, TimesRead
      <4> QED BY <1>0, <3>2, <3>3, <4>2
    <3>6. l \in Active' /\ policy'[l].at = latest.at
      BY <3>2, <3>4, <3>5 DEF Active
    <3>7. \A p \in Active' \ {l} : policy'[p].at < latest.at
      BY <2>2, <3>2, <3>3
    <3> QED BY <3>1, <3>6, <3>7
  <2> QED BY <2>4, <2>5
<1> QED BY <1>4, <1>6, <1>7 DEF NewestInv

\* A step that activates a policy again at its old time, or deletes an active one, is
\* noted; the times stay as they were read.
LEMMA DisturbanceKeeps ==
  ASSUME PolicyTypeOK, NewestInv, NEW o \in Officer, Replied(o), clock' = clock, disturbed',
         \A p \in Policy : /\ policy'[p].at = policy[p].at
                           /\ policy'[p].status = "active" => policy[p].at > 0,
         \/ latest' = latest
         \/ latest'.policy # NoPolicy /\ latest'.at # 0
  PROVE  NewestInv'
<1>0. /\ \A p \in Policy : policy[p].at \in Nat
      /\ \A m \in Officer : {office[m].row, office[m].active} \subseteq Policy \cup {NoPolicy}
      /\ clock \in Nat
  BY DEF PolicyTypeOK, PolicyRows, PolicyRequests
<1>1. office'[o] = AtRest /\ \A m \in Officer \ {o} : office'[m] = office[m]
  BY DEF PolicyTypeOK, Replied
<1>2. ~Timed(o)' /\ \A m \in Officer \ {o} : Timed(m)' <=> Timed(m)
  BY <1>1 DEF Timed, AtRest
<1>3. (\A p \in Policy : policy[p].at <= clock)' /\ (\A m \in Officer : office[m].at <= clock)'
  BY <1>0, <1>1 DEF NewestInv, TimesRead, AtRest
<1>4. (\A m \in Officer : Timed(m) => office[m].at > 0 /\ \A p \in Policy : policy[p].at # office[m].at)'
  BY <1>1, <1>2 DEF NewestInv, TimesRead
<1>5. (\A m, n \in Officer : Timed(m) /\ Timed(n) /\ office[m].at = office[n].at => m = n)'
  BY <1>1, <1>2 DEF NewestInv, TimesRead
<1>6. (\A p \in Policy : policy[p].status = "active" => policy[p].at > 0)'
  OBVIOUS
<1>7. (\A m \in Officer : office[m].seen > 0 => office[m].row # NoPolicy /\ policy[office[m].row].at > 0)'
  <2> SUFFICES ASSUME NEW m \in Officer, office'[m].seen > 0
               PROVE  office'[m].row # NoPolicy /\ policy'[office'[m].row].at > 0
    OBVIOUS
  <2>1. m # o /\ office'[m] = office[m]
    BY <1>1 DEF AtRest
  <2>2. office[m].row \in Policy /\ policy[office[m].row].at > 0
    BY <1>0, <2>1 DEF NewestInv, TimesRead
  <2> QED BY <1>0, <2>1, <2>2
<1>8. TimesRead'
  BY <1>3, <1>4, <1>5, <1>6, <1>7 DEF TimesRead
<1> QED BY <1>8 DEF NewestInv

\* Each operation on policies keeps the active policy that was activated last the latest.
LEMMA RegisterNewest ==
  ASSUME PolicyTypeOK, NewestInv, NEW o \in Officer, RegisterStep(o)
  PROVE  NewestInv'
<1>0. /\ office[o] \in PolicyRequests /\ clock \in Nat
      /\ \A p \in Policy : policy[p] \in PolicyRows /\ p # NoPolicy
      /\ PolicyTypeOK'
  BY RegisterType DEF PolicyTypeOK
<1>a. ASSUME NEW state, Admit(o, state), state.active = NoPolicy, state.at = 0, state.seen = 0,
             ~(state.pc = "ready" /\ state.kind \in {"activate", "seed"})
      PROVE  NewestInv'
  <2>1. office'[o] = state /\ state \in PolicyRequests
    BY <1>0, <1>a DEF Admit, PolicyTypeOK
  <2>2. clock' = clock /\ UNCHANGED <<policy, latest, disturbed>> /\ office' = [office EXCEPT ![o] = state]
    BY <1>a DEF Admit
  <2>3. Harmless(state)
    BY <1>0, <1>a, <2>2 DEF Harmless
  <2> QED BY <1>0, <2>1, <2>2, <2>3, QuietKeeps
<1>r. ASSUME Replied(o), latest' = latest, disturbed' = disturbed, clock' \in {clock, clock + 1},
             \A p \in Policy : /\ policy'[p].at = policy[p].at
                               /\ policy'[p].status = "active" <=> policy[p].status = "active"
      PROVE  NewestInv'
  <2>1. Harmless(AtRest)
    BY <1>0, <1>r DEF Harmless, AtRest
  <2> QED BY <1>r, <2>1, RestType, QuietKeeps DEF Replied
<1>b. ASSUME NEW q \in Policy, Timed(o), Replied(o), Noted(q, office[o].at), clock' = clock,
             policy'[q].status = "active", policy'[q].at = office[o].at,
             \A p \in Policy \ {q} : policy'[p] = policy[p]
      PROVE  NewestInv'
  <2> DEFINE Old == {}
  <2>1. /\ \A p \in Old : p = office[o].active /\ p # q /\ p # NoPolicy
        /\ \A p \in Policy \ {q} : policy'[p].at = policy[p].at
        /\ \A p \in Policy \ (Old \cup {q}) : policy'[p].status = policy[p].status
        /\ \A p \in Policy \cap Old : policy'[p].status = "retired"
    BY <1>b
  <2> HIDE DEF Old
  <2> QED BY <1>b, <2>1, ActivationKeeps
<1>1. ASSUME NEW p \in Policy, NEW kind \in {"edit", "activate", "delete"}, OpenDraft(o, kind, p)
      PROVE  NewestInv'
  <2> DEFINE state == [AtRest EXCEPT !.pc = IF kind = "activate" THEN "load" ELSE "ready", !.kind = kind, !.row = p]
  <2>2. /\ state.active = NoPolicy /\ state.at = 0 /\ state.seen = 0
        /\ ~(state.pc = "ready" /\ state.kind \in {"activate", "seed"})
    BY DEF AtRest
  <2>3. Admit(o, state)
    BY <1>1 DEF OpenDraft
  <2> HIDE DEF state
  <2> QED BY <1>a, <2>2, <2>3
<1>2. ASSUME NEW p \in Policy, OpenClone(o, p) PROVE NewestInv'
  <2>1. PICK v \in {policy[q].version : q \in Registered} :
          Admit(o, [AtRest EXCEPT !.pc = "ready", !.kind = "clone", !.content = policy[p].content, !.version = v + 1])
    BY <1>2 DEF OpenClone
  <2> DEFINE state == [AtRest EXCEPT !.pc = "ready", !.kind = "clone", !.content = policy[p].content, !.version = v + 1]
  <2>2. /\ state.active = NoPolicy /\ state.at = 0 /\ state.seen = 0
        /\ ~(state.pc = "ready" /\ state.kind \in {"activate", "seed"})
    BY DEF AtRest
  <2> HIDE DEF state
  <2> QED BY <1>a, <2>1, <2>2 DEF state
<1>3. CASE StartProcess(o)
  <2>1. PICK p \in Policy \cup {NoPolicy} :
          office' = [office EXCEPT ![o] = [AtRest EXCEPT !.pc = "ready", !.kind = "seed", !.row = p, !.at = clock + 1,
                                                         !.seen = IF p = NoPolicy THEN 0 ELSE policy[p].at]]
    BY <1>3 DEF StartProcess, Registered
  <2> DEFINE state == [AtRest EXCEPT !.pc = "ready", !.kind = "seed", !.row = p, !.at = clock + 1,
                                     !.seen = IF p = NoPolicy THEN 0 ELSE policy[p].at]
  <2>2. /\ state.active = NoPolicy /\ state.at = clock + 1 /\ state.row = p
        /\ state.seen = IF p = NoPolicy THEN 0 ELSE policy[p].at
    BY DEF AtRest
  <2> HIDE DEF state
  <2>3. office' = [office EXCEPT ![o] = state] /\ clock' = clock + 1 /\ UNCHANGED <<policy, latest, disturbed>>
    BY <1>3, <2>1 DEF state, StartProcess
  <2>4. state \in PolicyRequests
    BY <1>0, <2>3 DEF PolicyTypeOK
  <2>5. Harmless(state)
    BY <1>0, <2>2, <2>3 DEF Harmless
  <2> QED BY <2>3, <2>4, <2>5, QuietKeeps
<1>4. CASE ReadActive(o)
  <2> DEFINE state == [office[o] EXCEPT !.pc = "ready", !.active = InForce, !.at = clock + 1]
  <2>1. state.active = InForce /\ state.at = clock + 1 /\ state.row = office[o].row /\ state.seen = office[o].seen
    BY <1>0 DEF PolicyRequests
  <2>2. office' = [office EXCEPT ![o] = state] /\ clock' = clock + 1 /\ UNCHANGED <<policy, latest, disturbed>>
    BY <1>4 DEF ReadActive
  <2> HIDE DEF state
  <2>3. state \in PolicyRequests
    BY <1>0, <2>2 DEF PolicyTypeOK
  <2>4. InForce # NoPolicy => InForce \in Policy /\ policy[InForce].status = "active"
    BY InForceType DEF Active, InForce
  <2>5. state.active # NoPolicy => policy[state.active].at > 0
    BY <2>1, <2>4 DEF NewestInv, TimesRead
  <2>6. state.seen > 0 => state.row \in Policy /\ policy[state.row].at > 0
    BY <1>0, <2>1 DEF NewestInv, TimesRead, PolicyRequests
  <2>7. Harmless(state)
    BY <1>0, <2>1, <2>2, <2>5, <2>6 DEF Harmless
  <2> QED BY <2>2, <2>3, <2>7, QuietKeeps
<1>5. CASE CommitEdit(o)
  <2>1. \A p \in Policy : policy'[p].at = policy[p].at /\ policy'[p].status = policy[p].status
    BY <1>0, <1>5 DEF CommitEdit, PolicyTypeOK, Registered, PolicyRows
  <2> QED BY <1>5, <1>r, <2>1 DEF CommitEdit
<1>6. CASE CommitClone(o)
  <2>1. PICK p \in Unborn :
          policy' = [policy EXCEPT ![p] = [status |-> "draft", at |-> 0, version |-> office[o].version,
                                           content |-> office[o].content]]
    BY <1>6 DEF CommitClone
  <2>2. p \in Policy /\ policy[p] = Absent
    BY <2>1 DEF Unborn
  <2>3. \A q \in Policy : /\ policy'[q].at = policy[q].at
                          /\ policy'[q].status = "active" <=> policy[q].status = "active"
    BY <2>1, <2>2 DEF PolicyTypeOK, Absent, NoStatus
  <2> QED BY <1>6, <1>r, <2>3 DEF CommitClone
<1>7. CASE CommitActivate(o)
  <2>1. CASE {office[o].row} \cup Retiring(o) \subseteq Registered
    <3> DEFINE q == office[o].row
    <3>1. q \in Policy /\ Timed(o)
      BY <1>7, <2>1 DEF CommitActivate, Registered, Timed
    <3>2. policy' = [p \in Policy |->
                       IF p = q THEN [policy[p] EXCEPT !.status = "active", !.at = office[o].at]
                       ELSE IF p \in Retiring(o) THEN [policy[p] EXCEPT !.status = "retired"]
                       ELSE policy[p]]
      BY <1>7, <2>1 DEF CommitActivate
    <3>3. /\ policy'[q].status = "active" /\ policy'[q].at = office[o].at
          /\ \A p \in Policy \ {q} : policy'[p].at = policy[p].at
          /\ \A p \in Policy \ (Retiring(o) \cup {q}) : policy'[p].status = policy[p].status
          /\ \A p \in Policy \cap Retiring(o) : policy'[p].status = "retired"
      BY <1>0, <3>1, <3>2 DEF PolicyRows, Retiring
    <3>4. Noted(q, office[o].at) /\ Replied(o) /\ clock' = clock
      BY <1>7, <2>1 DEF CommitActivate
    <3>5. \A p \in Retiring(o) : p = office[o].active /\ p # q /\ p # NoPolicy
      BY DEF Retiring
    <3> HIDE DEF q
    <3> QED BY <3>1, <3>3, <3>4, <3>5, ActivationKeeps
  <2>2. CASE ~({office[o].row} \cup Retiring(o) \subseteq Registered)
    BY <1>7, <1>r, <2>2 DEF CommitActivate
  <2> QED BY <2>1, <2>2
<1>8. CASE CommitDelete(o)
  <2>1. \A p \in Policy : /\ policy'[p].at = policy[p].at
                          /\ policy'[p].status = "active" => policy[p].status = "active"
                          /\ p # office[o].row => policy'[p].status = policy[p].status
    BY <1>0, <1>8 DEF CommitDelete, PolicyTypeOK, Registered, PolicyRows
  <2>2. CASE policy[office[o].row].status = "active"
    <3>1. \A p \in Policy : policy'[p].status = "active" => policy[p].at > 0
      BY <2>1 DEF NewestInv, TimesRead
    <3> QED BY <1>8, <2>1, <2>2, <3>1, DisturbanceKeeps DEF CommitDelete
  <2>3. CASE policy[office[o].row].status # "active"
    <3>1. \A p \in Policy : policy'[p].status = "active" <=> policy[p].status = "active"
      BY <2>1, <2>3
    <3>2. disturbed' = disturbed
      BY <1>8, <2>3 DEF CommitDelete, PolicyTypeOK
    <3> QED BY <1>8, <1>r, <2>1, <3>1, <3>2 DEF CommitDelete
  <2> QED BY <2>2, <2>3
<1>9. CASE CommitSeed(o)
  <2>0. Timed(o)
    BY <1>9 DEF CommitSeed, Timed
  <2>1. CASE office[o].row = NoPolicy
    <3>1. PICK q \in Policy :
            /\ policy' = [policy EXCEPT ![q] = [status |-> "active", at |-> office[o].at, version |-> 1, content |-> 0]]
            /\ Noted(q, office[o].at)
      BY <1>9, <2>1 DEF CommitSeed, Unborn
    <3>2. /\ policy'[q].status = "active" /\ policy'[q].at = office[o].at
          /\ \A p \in Policy \ {q} : policy'[p] = policy[p]
      BY <3>1 DEF PolicyTypeOK
    <3>3. Replied(o) /\ clock' = clock
      BY <1>9 DEF CommitSeed
    <3> QED BY <1>b, <2>0, <3>1, <3>2, <3>3
  <2>2. CASE office[o].row \in Registered
    <3> DEFINE q == office[o].row
    <3>1. q \in Policy /\ q # NoPolicy
      BY <2>2 DEF Registered
    <3>2. /\ policy' = [policy EXCEPT ![q].status = "active",
                                      ![q].at = IF office[o].seen = 0 THEN office[o].at ELSE @]
          /\ Noted(q, office[o].at) /\ Replied(o) /\ clock' = clock
      BY <1>9, <2>2, <3>1 DEF CommitSeed
    <3>3. /\ policy'[q].status = "active"
          /\ policy'[q].at = IF office[o].seen = 0 THEN office[o].at ELSE policy[q].at
          /\ \A p \in Policy \ {q} : policy'[p] = policy[p]
      BY <1>0, <3>1, <3>2 DEF PolicyTypeOK, PolicyRows
    <3> HIDE DEF q
    <3>4. CASE office[o].seen = 0
      BY <1>b, <2>0, <3>1, <3>2, <3>3, <3>4
    <3>5. CASE office[o].seen # 0
      <4>1. office[o].seen > 0
        BY <1>0, <3>5 DEF PolicyRequests
      <4>2. policy[q].at > 0 /\ policy[q].at \in Nat
        BY <1>0, <3>1, <4>1 DEF NewestInv, TimesRead, q, PolicyRows
      <4>3. /\ disturbed' = (disturbed \/ policy[q].at # 0)
            /\ latest' = latest \/ latest' = [policy |-> q, at |-> office[o].at]
        BY <3>2 DEF Noted
      <4>7. disturbed'
        <5>1. policy[q].at # 0
          BY <4>2
        <5>2. CASE disturbed = TRUE
          BY <4>3, <5>1, <5>2
        <5>3. CASE disturbed = FALSE
          BY <4>3, <5>1, <5>3
        <5> QED BY <5>2, <5>3 DEF PolicyTypeOK
      <4>4. office[o].at # 0
        BY <2>0 DEF NewestInv, TimesRead
      <4>5. \A p \in Policy : /\ policy'[p].at = policy[p].at
                              /\ policy'[p].status = "active" => policy[p].at > 0
        BY <3>3, <3>5, <4>2 DEF NewestInv, TimesRead
      <4>6. \/ latest' = latest
            \/ latest'.policy # NoPolicy /\ latest'.at # 0
        BY <3>1, <4>3, <4>4
      <4> QED BY <3>2, <4>5, <4>6, <4>7, DisturbanceKeeps
    <3> QED BY <3>4, <3>5
  <2>3. CASE office[o].row # NoPolicy /\ office[o].row \notin Registered
    BY <1>9, <1>r, <2>3 DEF CommitSeed
  <2> QED BY <2>1, <2>2, <2>3
<1> QED BY <1>1, <1>2, <1>3, <1>4, <1>5, <1>6, <1>7, <1>8, <1>9 DEF RegisterStep

\* The invariant says what is in force.
LEMMA NewestImplies ==
  ASSUME PolicyTypeOK, NewestInv
  PROVE  InForceIsNewest
<1> SUFFICES ASSUME ~disturbed PROVE InForce = latest.policy
  BY DEF InForceIsNewest
<1>1. CASE latest.policy = NoPolicy
  BY <1>1 DEF NewestInv, InForce
<1>2. CASE latest.policy # NoPolicy
  BY <1>2, LatestInForce DEF NewestInv
<1> QED BY <1>1, <1>2

\* The parts of the register that nothing but a request about policies changes.
LEMMA RegisterStutter ==
  ASSUME PolicyTypeOK, NewestInv, UNCHANGED policyVars
  PROVE  PolicyTypeOK' /\ NewestInv'
<1>1. PolicyTypeOK'
  BY DEF PolicyTypeOK
<1>2. Active' = Active /\ TimesRead'
  BY DEF Active, TimesRead, Timed, NewestInv
<1> QED BY <1>1, <1>2 DEF NewestInv

\* The type of the policies and the latest activation, in every step of the register.
LEMMA RegisterKeeps ==
  ASSUME PolicyTypeOK, NewestInv, [RegisterNext]_policyVars
  PROVE  PolicyTypeOK' /\ NewestInv'
<1>1. CASE RegisterNext
  BY <1>1, RegisterType, RegisterNewest DEF RegisterNext
<1>2. CASE UNCHANGED policyVars
  BY <1>2, RegisterStutter
<1> QED BY <1>1, <1>2

\* Every variable of the register is of its type.
THEOREM PoliciesAreTyped == RegisterSpec => []PolicyTypeOK
<1>1. RegisterInit => PolicyTypeOK /\ NewestInv
  BY RegisterStart
<1>2. PolicyTypeOK /\ NewestInv /\ [RegisterNext]_policyVars => (PolicyTypeOK /\ NewestInv)'
  BY RegisterKeeps
<1> QED BY <1>1, <1>2, PTL DEF RegisterSpec

\* Whatever requests about policies race, the policy in force is the one activated last.
THEOREM NewestIsInForce == RegisterSpec => []InForceIsNewest
<1>1. RegisterInit => PolicyTypeOK /\ NewestInv
  BY RegisterStart
<1>2. PolicyTypeOK /\ NewestInv /\ [RegisterNext]_policyVars => (PolicyTypeOK /\ NewestInv)'
  BY RegisterKeeps
<1>3. PolicyTypeOK /\ NewestInv => InForceIsNewest
  BY NewestImplies
<1> QED BY <1>1, <1>2, <1>3, PTL DEF RegisterSpec

----------------------------------------------------------------------------
(* The decisions and the assessments.                                      *)

\* Beside the requests about policies nothing touches the register.
LEMMA StandingRegister ==
  ASSUME [StandingNext]_standingVars
  PROVE  [RegisterNext]_policyVars
<1>1. CASE \E o \in Officer : PolicyStep(o)
  BY <1>1 DEF PolicyStep, RegisterNext
<1>2. CASE \E a \in Assessor : OpenUpsert(a) \/ OpenDelete(a) \/ CommitDecision(a)
  BY <1>2, Zenon DEF OpenUpsert, OpenDelete, CommitDecision, Decide
<1>3. CASE ChangeScope
  BY <1>3 DEF ChangeScope
<1>4. CASE \E r \in Run : \/ \E carry \in BOOLEAN : Start(r, carry)
                          \/ Load(r)
                          \/ \E verdict \in Verdicts : Retry(r, verdict)
  BY <1>4, Zenon DEF Start, Load, Retry
<1>5. CASE CarryForward \/ InsertNA \/ ReuseSatisfied \/ ApplyExclusion
  BY <1>5, Zenon DEF CarryForward, InsertNA, ReuseSatisfied, ApplyExclusion, Executing
<1>6. CASE \E verdict \in Verdicts : AssessAnew(verdict)
  BY <1>6, Zenon DEF AssessAnew, Executing
<1>7. CASE Conclude \/ Interrupt
  BY <1>7, Zenon DEF Conclude, Interrupt, Executing
<1>8. CASE UNCHANGED standingVars
  BY <1>8 DEF standingVars
<1> QED BY <1>1, <1>2, <1>3, <1>4, <1>5, <1>6, <1>7, <1>8 DEF StandingNext

\* The policy that assessments pin is the one activated last.
THEOREM PinnedIsNewest == StandingSpec => []InForceIsNewest
<1>1. StandingInit => PolicyTypeOK /\ NewestInv
  BY RegisterStart DEF StandingInit
<1>2. PolicyTypeOK /\ NewestInv /\ [StandingNext]_standingVars => (PolicyTypeOK /\ NewestInv)'
  BY StandingRegister, RegisterKeeps
<1>3. PolicyTypeOK /\ NewestInv => InForceIsNewest
  BY NewestImplies
<1> QED BY <1>1, <1>2, <1>3, PTL DEF StandingSpec

----------------------------------------------------------------------------
(* The decisions about a control.                                          *)

USE RunAssumption DEF NoRun

\* What there is before anything happened is of its type.
LEMMA FirstTypes ==
  /\ NoResult \in Results /\ NoSnapshot \in Snapshots /\ NoOverride \in Overrides
  /\ NotRun \in Runs /\ Idle \in Editors /\ NoExec \in Executions
<1>1. NoFingerprint \in Bases
  BY DEF Bases
<1>2. NoResult \in Results /\ NoSnapshot \in Snapshots
  BY <1>1 DEF NoResult, Results, NoSnapshot, Snapshots
<1>3. NoOverride \in Overrides
  BY <1>2 DEF NoOverride, Overrides
<1>4. NotRun \in Runs
  BY <1>1, <1>2, <1>3 DEF NotRun, Runs
<1>5. Idle \in Editors /\ NoExec \in Executions
  BY <1>2, <1>3 DEF Idle, Editors, NoExec, Executions
<1> QED BY <1>2, <1>3, <1>4, <1>5

\* The latest finding that says something can be named.
LEMMA SnapshotFrom ==
  ASSUME DecisionTypeOK
  PROVE  \/ Snapshot = NoSnapshot
         \/ \E r \in Run : Snapshot = [status |-> run[r].finding.status, scope |-> run[r].scope,
                                       basis |-> run[r].finding.basis]
<1>1. CASE Telling = {}
  BY <1>1 DEF Snapshot
<1>2. CASE Telling # {}
  <2> DEFINE R == {pair \in Telling \X Telling : run[pair[2]].tested > run[pair[1]].tested}
  <2>1. \A r, s \in Telling : <<r, s>> \in R <=> run[s].tested > run[r].tested
    OBVIOUS
  <2>2. \A r \in Telling : r \in Run /\ run[r].tested \in Nat
    BY DEF Telling, DecisionTypeOK, Runs
  <2>3. /\ \A r \in Telling : <<r, r>> \notin R
        /\ \A r, s, t \in Telling : <<r, s>> \in R /\ <<s, t>> \in R => <<r, t>> \in R
    BY <2>1, <2>2
  <2>4. IsFiniteSet(Telling)
    BY FS_Subset, Zenon DEF Telling
  <2> HIDE DEF R
  <2>5. PICK r \in Telling : \A s \in Telling : <<r, s>> \notin R
    BY <1>2, <2>3, <2>4, Greatest
  <2>6. \A s \in Telling : run[s].tested <= run[r].tested
    <3> SUFFICES ASSUME NEW s \in Telling PROVE run[s].tested <= run[r].tested
      OBVIOUS
    <3>1. ~(run[s].tested > run[r].tested)
      BY <2>1, <2>5
    <3>2. run[s].tested \in Nat /\ run[r].tested \in Nat
      BY <2>2
    <3> QED BY <3>1, <3>2
  <2> DEFINE c == CHOOSE q \in Telling : \A s \in Telling : run[s].tested <= run[q].tested
  <2>7. c \in Telling
    BY <2>6
  <2> HIDE DEF c
  <2>8. Snapshot = [status |-> run[c].finding.status, scope |-> run[c].scope, basis |-> run[c].finding.basis]
    BY <1>2 DEF Snapshot, c
  <2> QED BY <2>2, <2>7, <2>8
<1> QED BY <1>1, <1>2

\* The times at which findings are made can be compared, so that a next one exists.
LEMMA TestedType ==
  ASSUME DecisionTypeOK, Run # {}
  PROVE  Tested \in Nat
<1> DEFINE S == {run[r].tested : r \in Run}
           R == {pair \in Run \X Run : run[pair[2]].tested > run[pair[1]].tested}
<1>1. \A r \in Run : run[r].tested \in Nat
  BY DEF DecisionTypeOK, Runs
<1>2. \A r, s \in Run : <<r, s>> \in R <=> run[s].tested > run[r].tested
  OBVIOUS
<1>3. /\ \A r \in Run : <<r, r>> \notin R
      /\ \A r, s, t \in Run : <<r, s>> \in R /\ <<s, t>> \in R => <<r, t>> \in R
  BY <1>1, <1>2
<1> HIDE DEF R
<1>4. PICK r \in Run : \A s \in Run : <<r, s>> \notin R
  BY <1>3, Greatest
<1>5. run[r].tested \in S /\ \A x \in S : run[r].tested >= x
  <2>1. ASSUME NEW s \in Run PROVE run[r].tested >= run[s].tested
    <3>1. ~(run[s].tested > run[r].tested)
      BY <1>2, <1>4
    <3>2. run[s].tested \in Nat /\ run[r].tested \in Nat
      BY <1>1
    <3> QED BY <3>1, <3>2
  <2> QED BY <2>1
<1>6. \A x \in S : x \in Nat
  BY <1>1
<1> HIDE DEF S
<1>7. Max(S) \in Nat
  BY <1>5, <1>6 DEF Max
<1> QED BY <1>7 DEF Tested, S

\* The completed assessments can be counted.
LEMMA CompleteCounted == Cardinality(Complete) \in Nat
BY FS_Subset, FS_CardinalityType, Zenon DEF Complete

\* What a request decides on a row is a row.
LEMMA DecisionsType ==
  ASSUME DecisionTypeOK, NEW old \in Overrides, NEW new \in Decisions(old)
  PROVE  /\ new \in Overrides
         /\ new.snap = old.snap \/ new.snap = Snapshot
<1>1. Snapshot \in Snapshots
  <2>1. \A r \in Run : /\ run[r].finding.status \in ResultStatuses \cup {"none"}
                       /\ run[r].scope \in Bases /\ run[r].finding.basis \in Bases
    BY DEF DecisionTypeOK, Runs, Results
  <2>2. CASE Snapshot = NoSnapshot
    BY <2>2, FirstTypes
  <2>3. ASSUME NEW r \in Run,
               Snapshot = [status |-> run[r].finding.status, scope |-> run[r].scope, basis |-> run[r].finding.basis]
        PROVE  Snapshot \in Snapshots
    BY <2>1, <2>3 DEF Snapshots
  <2> QED BY <2>2, <2>3, SnapshotFrom
<1>2. CASE new \in {[old EXCEPT !.app = v] : v \in Kept \cup {"none"}}
  BY <1>2 DEF Overrides
<1>3. CASE new = [old EXCEPT !.sat = TRUE, !.snap = IF old.sat THEN @ ELSE Snapshot]
  BY <1>1, <1>3 DEF Overrides
<1>4. CASE new = [old EXCEPT !.sat = FALSE]
  BY <1>4 DEF Overrides
<1>5. CASE new \in {[old EXCEPT !.manual = v] : v \in Manual \cup {"none"}}
  BY <1>5 DEF Overrides
<1>6. \/ new \in {[old EXCEPT !.app = v] : v \in Kept \cup {"none"}}
      \/ new = [old EXCEPT !.sat = TRUE, !.snap = IF old.sat THEN @ ELSE Snapshot]
      \/ new = [old EXCEPT !.sat = FALSE]
      \/ new \in {[old EXCEPT !.manual = v] : v \in Manual \cup {"none"}}
  BY DEF Decisions
<1> QED BY <1>2, <1>3, <1>4, <1>5, <1>6

\* Every variable is of its type at the start.
LEMMA StandingStart == StandingInit => DecisionTypeOK /\ GroundedInv /\ HonouredInv
<1> SUFFICES ASSUME StandingInit PROVE DecisionTypeOK /\ GroundedInv /\ HonouredInv
  OBVIOUS
<1>1. budget \in Remaining
  BY BudgetAssumption, RequestAssumption DEF StandingInit, Remaining
<1>2. DecisionTypeOK
  BY <1>1, FirstTypes DEF StandingInit, DecisionTypeOK, NoExec
<1>3. /\ \A r \in Run : run[r].finding = NoResult
      /\ override.snap = NoSnapshot /\ exec.row.snap = NoSnapshot /\ exec.pc = "free"
      /\ \A a \in Assessor : editor[a].row.snap = NoSnapshot
  BY DEF StandingInit, NotRun, NoOverride, NoExec, Idle
<1>4. GroundedInv
  BY <1>3 DEF GroundedInv, SnapGrounded, NoSnapshot, NoResult
<1>5. HonouredInv
  BY <1>3 DEF HonouredInv, ApplicabilityHonoured, NoResult
<1> QED BY <1>2, <1>4, <1>5

\* A stage of the execution that makes the finding of its assessment.
LEMMA FindType ==
  ASSUME DecisionTypeOK, exec.pc # "free", NEW found \in Results, Find(exec.run, found), Stage("finish"), Executing
  PROVE  DecisionTypeOK'
<1>1. exec.run \in Run /\ exec.row \in Overrides /\ exec' \in Executions /\ exec'.run = exec.run
  BY DEF DecisionTypeOK, Executions, Stage
<1>2. Tested \in Nat
  BY <1>1, TestedType
<1>3. [run[exec.run] EXCEPT !.finding = found, !.tested = Tested, !.saw = exec.row] \in Runs
  BY <1>1, <1>2 DEF DecisionTypeOK, Runs
<1>4. run' \in [Run -> Runs]
  BY <1>1, <1>3 DEF DecisionTypeOK, Find
<1> QED BY <1>1, <1>4 DEF DecisionTypeOK, Executing

\* Each operation on decisions and assessments keeps every variable in its type.
LEMMA StandingTypes ==
  ASSUME StandingTypeOK, [StandingNext]_standingVars
  PROVE  DecisionTypeOK'
<1>0. /\ override \in Overrides /\ exec \in Executions /\ evidence \in Fingerprint
      /\ \A a \in Assessor : editor[a] \in Editors
      /\ \A r \in Run : run[r] \in Runs
      /\ budget \in Remaining
      /\ Fingerprint \subseteq Bases /\ NoFingerprint \in Bases
  BY DEF StandingTypeOK, DecisionTypeOK, Bases
<1>d. ASSUME NEW a \in Assessor, NEW state \in Editors, Decide(a, state) PROVE DecisionTypeOK'
  <2>1. budget' \in Remaining
    BY <1>0, <1>d DEF Decide, Remaining
  <2>2. editor' \in [Assessor -> Editors]
    BY <1>d DEF Decide, StandingTypeOK, DecisionTypeOK
  <2> QED BY <1>d, <2>1, <2>2 DEF Decide, StandingTypeOK, DecisionTypeOK
<1>1. ASSUME NEW a \in Assessor, OpenUpsert(a) PROVE DecisionTypeOK'
  <2> DEFINE old == IF override = NoOverride THEN [NoOverride EXCEPT !.id = budget.decisions] ELSE override
  <2>1. old \in Overrides
    BY <1>0, FirstTypes DEF NoOverride, Overrides, Remaining
  <2>2. PICK new \in Decisions(old) : Decide(a, [kind |-> "upsert", loaded |-> override, row |-> new])
    BY <1>1 DEF OpenUpsert
  <2> HIDE DEF old
  <2>3. new \in Overrides
    BY <2>1, <2>2, DecisionsType DEF StandingTypeOK
  <2>4. [kind |-> "upsert", loaded |-> override, row |-> new] \in Editors
    BY <1>0, <2>3 DEF Editors
  <2> QED BY <1>d, <2>2, <2>4
<1>2. ASSUME NEW a \in Assessor, OpenDelete(a) PROVE DecisionTypeOK'
  <2>1. [kind |-> "delete", loaded |-> override, row |-> NoOverride] \in Editors
    BY <1>0, FirstTypes DEF Editors
  <2> QED BY <1>2, <1>d, <2>1 DEF OpenDelete
<1>3. ASSUME NEW a \in Assessor, CommitDecision(a) PROVE DecisionTypeOK'
  <2>1. editor[a].row \in Overrides
    BY <1>0 DEF Editors
  <2>2. Flush(editor[a].loaded, editor[a].row) \in Overrides
    BY <1>0, <2>1 DEF Flush, Overrides
  <2>3. override' \in Overrides
    BY <1>0, <1>3, <2>2, FirstTypes DEF CommitDecision
  <2>4. editor' \in [Assessor -> Editors]
    BY <1>3, FirstTypes DEF CommitDecision, StandingTypeOK, DecisionTypeOK
  <2> QED BY <1>3, <2>3, <2>4 DEF CommitDecision, StandingTypeOK, DecisionTypeOK
<1>4. CASE ChangeScope
  <2>1. budget' \in Remaining
    BY <1>0, <1>4 DEF ChangeScope, Remaining
  <2>2. evidence' \in Fingerprint /\ profile' \in BOOLEAN
    BY <1>4 DEF ChangeScope, StandingTypeOK, DecisionTypeOK
  <2> QED BY <1>4, <2>1, <2>2 DEF ChangeScope, StandingTypeOK, DecisionTypeOK
<1>5. ASSUME NEW r \in Run, NEW carry \in BOOLEAN, Start(r, carry) PROVE DecisionTypeOK'
  <2>1. InForce \in Policy \cup {NoPolicy} /\ (InForce # NoPolicy => policy[InForce].version \in Nat)
    BY InForceType DEF StandingTypeOK, PolicyTypeOK, PolicyRows
  <2> DEFINE v == IF InForce = NoPolicy THEN 0 ELSE policy[InForce].version
             start == [NotRun EXCEPT !.state = "pending", !.scope = evidence, !.carry = carry,
                                     !.policy = InForce, !.version = v]
  <2>2. v \in Nat
    BY <2>1
  <2> HIDE DEF v
  <2>3. start \in Runs
    BY <1>0, <2>1, <2>2, FirstTypes DEF Runs, NotRun
  <2>4. run' = [run EXCEPT ![r] = start]
    BY <1>5 DEF Start, v
  <2> HIDE DEF start
  <2>5. run' \in [Run -> Runs]
    BY <2>3, <2>4 DEF StandingTypeOK, DecisionTypeOK
  <2> QED BY <1>5, <2>5 DEF Start, StandingTypeOK, DecisionTypeOK
<1>6. ASSUME NEW r \in Run, Load(r) PROVE DecisionTypeOK'
  <2>1. PICK reuse \in {NoResult} \cup {run[s].finding : s \in {t \in LatestComplete(r) : Carriable(r, t)}} :
          exec' = [pc |-> IF run[r].finding # NoResult THEN "finish"
                          ELSE IF reuse # NoResult THEN "carry"
                          ELSE IF profile THEN "profile" ELSE "assess",
                   run |-> r, row |-> override, reuse |-> reuse]
    BY <1>6 DEF Load
  <2>2. reuse \in Results
    BY <1>0, <2>1, FirstTypes DEF LatestComplete, Complete, Runs
  <2>3. exec' \in Executions /\ exec'.run \in Run
    BY <1>0, <2>1, <2>2 DEF Executions
  <2>4. [run[r] EXCEPT !.state = "running"] \in Runs
    BY <1>0 DEF Runs
  <2>5. run' \in [Run -> Runs]
    BY <1>6, <2>4 DEF Load, StandingTypeOK, DecisionTypeOK
  <2> QED BY <1>6, <2>3, <2>5 DEF Load, StandingTypeOK, DecisionTypeOK
<1>7. CASE CarryForward
  <2>1. [exec.reuse EXCEPT !.how = "carried"] \in Results
    BY <1>0 DEF Executions, Results
  <2> QED BY <1>7, <2>1, FindType DEF CarryForward, StandingTypeOK
<1>8. CASE InsertNA
  <2>1. [status |-> "not_applicable", how |-> "profile", basis |-> NoFingerprint] \in Results
    BY <1>0 DEF Results, ResultStatuses
  <2> QED BY <1>8, <2>1, FindType DEF InsertNA, StandingTypeOK
<1>9. CASE ReuseSatisfied
  <2>1. exec.row.snap \in Snapshots
    BY <1>0 DEF Executions, Overrides
  <2>2. [status |-> exec.row.snap.status, how |-> "satisfied", basis |-> exec.row.snap.basis] \in Results
    BY <2>1 DEF Results, Snapshots
  <2> QED BY <1>9, <2>2, FindType DEF ReuseSatisfied, StandingTypeOK
<1>10. CASE ApplyExclusion
  <2>1. [status |-> "not_applicable", how |-> "excluded", basis |-> NoFingerprint] \in Results
    BY <1>0 DEF Results, ResultStatuses
  <2> QED BY <1>10, <2>1, FindType DEF ApplyExclusion, StandingTypeOK
<1>11. ASSUME NEW verdict \in Verdicts, AssessAnew(verdict) PROVE DecisionTypeOK'
  <2>1. exec.run \in Run /\ exec.row.manual \in ResultStatuses \cup {"none"}
    BY <1>0, <1>11, DecisionAssumption DEF AssessAnew, StandingTypeOK, DecisionTypeOK, Executions, Overrides
  <2>2. Adjusted(exec.row, verdict) \in ResultStatuses
    BY <2>1, VerdictAssumption DEF Adjusted, ResultStatuses
  <2>3. run[exec.run].scope \in Bases
    BY <1>0, <2>1 DEF Runs
  <2> DEFINE found == [status |-> Adjusted(exec.row, verdict),
                       how |-> IF exec.row.manual # "none" THEN "manual" ELSE "model", basis |-> run[exec.run].scope]
  <2>4. found \in Results
    BY <2>2, <2>3 DEF Results
  <2>5. Find(exec.run, found) /\ Stage("finish") /\ Executing /\ exec.pc # "free"
    BY <1>11 DEF AssessAnew
  <2> HIDE DEF found
  <2> QED BY <2>4, <2>5, FindType DEF StandingTypeOK
<1>12. CASE Conclude
  <2> DEFINE c == 1 + Cardinality(Complete)
  <2>1. exec.run \in Run /\ c \in Nat
    BY <1>12, CompleteCounted DEF Conclude, StandingTypeOK, DecisionTypeOK
  <2>2. run' = [run EXCEPT ![exec.run].state = "complete", ![exec.run].done = c]
    BY <1>12 DEF Conclude
  <2> HIDE DEF c
  <2>3. [run[exec.run] EXCEPT !.state = "complete", !.done = c] \in Runs
    BY <1>0, <2>1 DEF Runs
  <2>4. run' \in [Run -> Runs]
    BY <2>1, <2>2, <2>3 DEF StandingTypeOK, DecisionTypeOK
  <2> QED BY <1>12, <2>4, FirstTypes DEF Conclude, Executing, NoExec, StandingTypeOK, DecisionTypeOK
<1>13. CASE Interrupt
  <2>1. budget' \in Remaining
    BY <1>0, <1>13 DEF Interrupt, Remaining
  <2>2. exec.run \in Run /\ [run[exec.run] EXCEPT !.state = "pending"] \in Runs
    BY <1>0, <1>13 DEF Interrupt, StandingTypeOK, DecisionTypeOK, Runs
  <2>3. run' \in [Run -> Runs]
    BY <1>13, <2>2 DEF Interrupt, StandingTypeOK, DecisionTypeOK
  <2> QED BY <1>13, <2>1, <2>3, FirstTypes DEF Interrupt, NoExec, StandingTypeOK, DecisionTypeOK
<1>14. ASSUME NEW r \in Run, NEW verdict \in Verdicts, Retry(r, verdict) PROVE DecisionTypeOK'
  <2>1. Tested \in Nat
    BY TestedType DEF StandingTypeOK
  <2>2. [status |-> verdict, how |-> "retry", basis |-> run[r].scope] \in Results
    BY <1>0, VerdictAssumption DEF Results, Runs
  <2>3. [run[r] EXCEPT !.finding = [status |-> verdict, how |-> "retry", basis |-> run[r].scope],
                       !.tested = Tested] \in Runs
    BY <1>0, <2>1, <2>2 DEF Runs
  <2>4. run' \in [Run -> Runs]
    BY <1>14, <2>3 DEF Retry, StandingTypeOK, DecisionTypeOK
  <2> QED BY <1>14, <2>4 DEF Retry, StandingTypeOK, DecisionTypeOK
<1>15. ASSUME NEW o \in Officer, PolicyStep(o) PROVE DecisionTypeOK'
  <2>1. \A r \in Run : Unpinned(r) \in Runs
    BY <1>0 DEF Unpinned, Runs
  <2>2. run' \in [Run -> Runs]
    BY <1>15, <2>1 DEF PolicyStep
  <2> QED BY <1>15, <2>2 DEF PolicyStep, StandingTypeOK, DecisionTypeOK
<1>16. CASE UNCHANGED standingVars
  BY <1>16 DEF standingVars, decisionVars, StandingTypeOK, DecisionTypeOK
<1> QED
  BY <1>1, <1>2, <1>3, <1>4, <1>5, <1>6, <1>7, <1>8, <1>9, <1>10, <1>11, <1>12, <1>13, <1>14, <1>15, <1>16
  DEF StandingNext

\* A finding that the execution makes leaves every other assessment as it was, and the
\* scope of its own.
LEMMA FindOne ==
  ASSUME DecisionTypeOK, exec.pc # "free", NEW found, Find(exec.run, found), Stage("finish"), Executing
  PROVE  /\ exec.run \in Run
         /\ \A r \in Run : run'[r].scope = run[r].scope /\ run'[r].state = run[r].state
         /\ \A r \in Run \ {exec.run} : run'[r] = run[r]
         /\ run'[exec.run].finding = found /\ run'[exec.run].saw = exec.row
         /\ exec'.pc = "finish" /\ exec'.run = exec.run /\ exec'.row = exec.row
BY DEF DecisionTypeOK, Executions, Find, Stage, Runs

\* A grounded finding keeps every finding grounded.
LEMMA FindGrounded ==
  ASSUME DecisionTypeOK, GroundedInv, exec.pc # "free", NEW found, Find(exec.run, found), Stage("finish"), Executing,
         found.basis \in {run[exec.run].scope, NoFingerprint}
  PROVE  GroundedInv'
<1>1. \A r \in Run : run'[r].finding.basis \in {run'[r].scope, NoFingerprint}
  BY FindOne DEF GroundedInv
<1>2. SnapGrounded(override.snap)' /\ SnapGrounded(exec.row.snap)'
  BY FindOne DEF GroundedInv, SnapGrounded, Executing
<1>3. (\A a \in Assessor : SnapGrounded(editor[a].row.snap))'
  BY DEF GroundedInv, SnapGrounded, Executing
<1>4. run'[exec'.run].state = "running" /\ exec'.pc # "carry"
  BY FindOne DEF GroundedInv
<1> QED BY <1>1, <1>2, <1>3, <1>4 DEF GroundedInv

\* A step that leaves what the assessments found on which evidence, and what they run on,
\* keeps every finding grounded if it keeps the snapshots so.
LEMMA SnapsGrounded ==
  ASSUME GroundedInv, DecisionTypeOK, exec' = exec,
         \A r \in Run : run'[r].finding = run[r].finding /\ run'[r].scope = run[r].scope /\ run'[r].state = run[r].state,
         SnapGrounded(override.snap)', \A a \in Assessor : SnapGrounded(editor[a].row.snap)'
  PROVE  GroundedInv'
BY DEF GroundedInv, SnapGrounded, DecisionTypeOK

\* The operations keep every finding and every snapshot grounded.
LEMMA GroundedKept ==
  ASSUME StandingTypeOK, GroundedInv, [StandingNext]_standingVars
  PROVE  GroundedInv'
<1>0. /\ DecisionTypeOK /\ exec \in Executions
      /\ \A r \in Run : run[r] \in Runs
      /\ exec.pc # "free" => exec.run \in Run
  BY DEF StandingTypeOK, DecisionTypeOK
<1>s. SnapGrounded(Snapshot) /\ SnapGrounded(NoSnapshot)
  <2>1. SnapGrounded(NoSnapshot)
    BY DEF SnapGrounded, NoSnapshot
  <2>2. CASE Snapshot = NoSnapshot
    BY <2>1, <2>2
  <2>3. ASSUME NEW r \in Run,
               Snapshot = [status |-> run[r].finding.status, scope |-> run[r].scope, basis |-> run[r].finding.basis]
        PROVE  SnapGrounded(Snapshot)
    BY <2>3 DEF SnapGrounded, GroundedInv
  <2> QED BY <1>0, <2>1, <2>2, <2>3, SnapshotFrom
<1>1. ASSUME NEW a \in Assessor, OpenUpsert(a) PROVE GroundedInv'
  <2> DEFINE old == IF override = NoOverride THEN [NoOverride EXCEPT !.id = budget.decisions] ELSE override
  <2>1. old \in Overrides /\ SnapGrounded(old.snap)
    BY <1>s, FirstTypes DEF StandingTypeOK, DecisionTypeOK, NoOverride, Overrides, Remaining, GroundedInv
  <2>2. PICK new \in Decisions(old) : Decide(a, [kind |-> "upsert", loaded |-> override, row |-> new])
    BY <1>1 DEF OpenUpsert
  <2> HIDE DEF old
  <2>3. SnapGrounded(new.snap)
    BY <1>0, <1>s, <2>1, <2>2, DecisionsType
  <2>4. /\ editor'[a].row = new /\ \A b \in Assessor \ {a} : editor'[b] = editor[b]
        /\ UNCHANGED <<override, run, exec>>
    BY <1>0, <2>2 DEF Decide, DecisionTypeOK
  <2>5. ASSUME NEW b \in Assessor PROVE SnapGrounded(editor[b].row.snap)'
    BY <2>3, <2>4 DEF GroundedInv, SnapGrounded
  <2>6. SnapGrounded(override.snap)'
    BY <2>4 DEF GroundedInv, SnapGrounded
  <2> QED BY <1>0, <2>4, <2>5, <2>6, SnapsGrounded
<1>2. ASSUME NEW a \in Assessor, OpenDelete(a) PROVE GroundedInv'
  <2>1. /\ editor'[a].row.snap = NoSnapshot /\ \A b \in Assessor \ {a} : editor'[b] = editor[b]
        /\ UNCHANGED <<override, run, exec>>
    BY <1>0, <1>2 DEF OpenDelete, Decide, DecisionTypeOK, NoOverride
  <2>2. ASSUME NEW b \in Assessor PROVE SnapGrounded(editor[b].row.snap)'
    BY <1>s, <2>1 DEF GroundedInv, SnapGrounded
  <2>3. SnapGrounded(override.snap)'
    BY <2>1 DEF GroundedInv, SnapGrounded
  <2> QED BY <1>0, <2>1, <2>2, <2>3, SnapsGrounded
<1>3. ASSUME NEW a \in Assessor, CommitDecision(a) PROVE GroundedInv'
  <2>1. /\ editor'[a].row.snap = NoSnapshot /\ \A b \in Assessor \ {a} : editor'[b] = editor[b]
        /\ UNCHANGED <<run, exec>>
    BY <1>0, <1>3 DEF CommitDecision, Idle, DecisionTypeOK, NoOverride
  <2>2. ASSUME NEW b \in Assessor PROVE SnapGrounded(editor[b].row.snap)'
    BY <1>s, <2>1 DEF GroundedInv, SnapGrounded
  <2>3. override'.snap \in {override.snap, NoSnapshot, editor[a].row.snap}
    BY <1>3 DEF CommitDecision, Flush, NoOverride
  <2>4. SnapGrounded(override'.snap)
    BY <1>s, <2>3 DEF GroundedInv
  <2>5. SnapGrounded(override.snap)'
    BY <2>4 DEF SnapGrounded
  <2> QED BY <1>0, <2>1, <2>2, <2>5, SnapsGrounded
<1>4. CASE ChangeScope
  BY <1>0, <1>4 DEF ChangeScope, GroundedInv, SnapGrounded
<1>5. ASSUME NEW r \in Run, NEW carry \in BOOLEAN, Start(r, carry) PROVE GroundedInv'
  <2>1. /\ run[r].state = "none" /\ UNCHANGED <<override, editor, exec>>
        /\ run'[r].finding.basis = NoFingerprint
        /\ \A s \in Run \ {r} : run'[s] = run[s]
    BY <1>0, <1>5 DEF Start, DecisionTypeOK, NotRun, NoResult
  <2>2. exec.pc # "free" => exec.run # r
    BY <2>1 DEF GroundedInv
  <2>3. \A s \in Run : run'[s].finding.basis \in {run'[s].scope, NoFingerprint}
    BY <2>1 DEF GroundedInv
  <2>4. exec'.pc # "free" => run'[exec'.run].state = "running"
    BY <1>0, <2>1, <2>2 DEF GroundedInv
  <2>5. exec'.pc = "carry" => exec'.reuse.basis \in {run'[exec'.run].scope, NoFingerprint}
    BY <1>0, <2>1, <2>2 DEF GroundedInv
  <2> QED BY <2>1, <2>3, <2>4, <2>5 DEF GroundedInv, SnapGrounded
<1>6. ASSUME NEW r \in Run, Load(r) PROVE GroundedInv'
  <2>1. PICK reuse \in {NoResult} \cup {run[s].finding : s \in {t \in LatestComplete(r) : Carriable(r, t)}} :
          exec' = [pc |-> IF run[r].finding # NoResult THEN "finish"
                          ELSE IF reuse # NoResult THEN "carry"
                          ELSE IF profile THEN "profile" ELSE "assess",
                   run |-> r, row |-> override, reuse |-> reuse]
    BY <1>6 DEF Load
  <2>2. reuse.basis \in {run[r].scope, NoFingerprint}
    <3>1. CASE reuse = NoResult
      BY <3>1 DEF NoResult
    <3>2. ASSUME NEW s \in LatestComplete(r), Carriable(r, s), reuse = run[s].finding
          PROVE  reuse.basis \in {run[r].scope, NoFingerprint}
      <4>1. s \in Run /\ run[s].scope = run[r].scope
        BY <3>2 DEF LatestComplete, Complete, Carriable, Compatible
      <4> QED BY <3>2, <4>1 DEF GroundedInv
    <3> QED BY <2>1, <3>1, <3>2
  <2>3. /\ exec'.run = r /\ exec'.row = override /\ exec'.reuse = reuse
        /\ UNCHANGED <<override, editor>> /\ run'[r].state = "running"
        /\ \A s \in Run : run'[s].finding = run[s].finding /\ run'[s].scope = run[s].scope
    BY <1>0, <1>6, <2>1 DEF Load, DecisionTypeOK, Runs
  <2> QED BY <2>2, <2>3 DEF GroundedInv, SnapGrounded
<1>7. CASE CarryForward
  <2> DEFINE found == [exec.reuse EXCEPT !.how = "carried"]
  <2>1. found.basis \in {run[exec.run].scope, NoFingerprint}
    BY <1>0, <1>7 DEF CarryForward, Executions, Results, GroundedInv
  <2>2. Find(exec.run, found) /\ Stage("finish") /\ Executing /\ exec.pc # "free"
    BY <1>7 DEF CarryForward
  <2> HIDE DEF found
  <2> QED BY <1>0, <2>1, <2>2, FindGrounded
<1>8. CASE InsertNA
  BY <1>0, <1>8, FindGrounded DEF InsertNA
<1>9. CASE ReuseSatisfied
  <2>1. exec.row.snap.basis \in {run[exec.run].scope, NoFingerprint}
    BY <1>9 DEF ReuseSatisfied, Reusable, GroundedInv, SnapGrounded
  <2> QED BY <1>0, <1>9, <2>1, FindGrounded DEF ReuseSatisfied
<1>10. CASE ApplyExclusion
  BY <1>0, <1>10, FindGrounded DEF ApplyExclusion
<1>11. ASSUME NEW verdict \in Verdicts, AssessAnew(verdict) PROVE GroundedInv'
  BY <1>0, <1>11, FindGrounded DEF AssessAnew
<1>12. CASE Conclude \/ Interrupt
  <2>1. /\ exec' = NoExec /\ UNCHANGED <<override, editor>>
        /\ \A r \in Run : run'[r].finding = run[r].finding /\ run'[r].scope = run[r].scope
    BY <1>0, <1>12 DEF Conclude, Interrupt, Executing, DecisionTypeOK, Runs
  <2>2. exec'.pc = "free" /\ exec'.row.snap = NoSnapshot
    BY <2>1 DEF NoExec, NoOverride
  <2> QED BY <1>s, <2>1, <2>2 DEF GroundedInv, SnapGrounded
<1>13. ASSUME NEW r \in Run, NEW verdict \in Verdicts, Retry(r, verdict) PROVE GroundedInv'
  <2>1. /\ run'[r].finding.basis = run'[r].scope
        /\ \A s \in Run \ {r} : run'[s] = run[s]
        /\ \A s \in Run : run'[s].state = run[s].state /\ run'[s].scope = run[s].scope
        /\ UNCHANGED <<override, editor, exec>>
    BY <1>0, <1>13 DEF Retry, DecisionTypeOK, Runs
  <2>2. \A s \in Run : run'[s].finding.basis \in {run'[s].scope, NoFingerprint}
    BY <2>1 DEF GroundedInv
  <2> QED BY <1>0, <2>1, <2>2 DEF GroundedInv, SnapGrounded
<1>14. ASSUME NEW o \in Officer, PolicyStep(o) PROVE GroundedInv'
  <2>1. \A r \in Run : run'[r].finding = run[r].finding /\ run'[r].scope = run[r].scope /\ run'[r].state = run[r].state
    BY <1>0, <1>14 DEF PolicyStep, Unpinned, Runs
  <2>2. UNCHANGED <<override, editor, exec>>
    BY <1>14 DEF PolicyStep
  <2> QED BY <1>0, <2>1, <2>2 DEF GroundedInv, SnapGrounded
<1>15. CASE UNCHANGED standingVars
  BY <1>15 DEF standingVars, decisionVars, GroundedInv, SnapGrounded
<1> QED
  BY <1>1, <1>2, <1>3, <1>4, <1>5, <1>6, <1>7, <1>8, <1>9, <1>10, <1>11, <1>12, <1>13, <1>14, <1>15
  DEF StandingNext

\* What HonouredInv says of one assessment.
Honours(found, saw) ==
  found.how \notin {"none", "retry"} =>
    /\ saw.app \in {"not_applicable", "inherited"} =>
          found.status = "not_applicable" \/ found.how = "satisfied"
    /\ saw.sat => found.how # "carried"
    /\ saw.app = "applicable" /\ found.status = "not_applicable" =>
          found.how \in {"profile", "satisfied", "manual"}

\* The property, assessment by assessment.
LEMMA HonoursEach == ApplicabilityHonoured <=> \A r \in Run : Honours(run[r].finding, run[r].saw)
BY DEF ApplicabilityHonoured, Honours

\* A stage whose finding honours what the execution read keeps the invariant.
LEMMA FindHonoured ==
  ASSUME DecisionTypeOK, HonouredInv, exec.pc # "free", NEW found, Find(exec.run, found), Stage("finish"), Executing,
         Honours(found, exec.row)
  PROVE  HonouredInv'
<1>1. /\ \A r \in Run \ {exec.run} : run'[r] = run[r]
      /\ run'[exec.run].finding = found /\ run'[exec.run].saw = exec.row /\ exec'.pc = "finish"
  BY FindOne
<1>2. \A r \in Run : Honours(run[r].finding, run[r].saw)
  BY HonoursEach DEF HonouredInv
<1>3. \A r \in Run : Honours(run'[r].finding, run'[r].saw)
  BY <1>1, <1>2
<1>4. ApplicabilityHonoured'
  BY <1>3 DEF ApplicabilityHonoured, Honours
<1> QED BY <1>1, <1>4 DEF HonouredInv

\* The operations keep every finding true to the decisions its execution read.
LEMMA HonouredKept ==
  ASSUME StandingTypeOK, HonouredInv, [StandingNext]_standingVars
  PROVE  HonouredInv'
<1>0. /\ DecisionTypeOK /\ exec \in Executions
      /\ \A r \in Run : run[r] \in Runs
      /\ \A r \in Run : Honours(run[r].finding, run[r].saw)
  BY HonoursEach DEF StandingTypeOK, DecisionTypeOK, HonouredInv
<1>u. ASSUME exec' = exec \/ exec'.pc # "carry",
             \A r \in Run : \/ run'[r].finding = run[r].finding /\ run'[r].saw = run[r].saw
                            \/ run'[r].finding.how \in {"none", "retry"}
      PROVE  HonouredInv'
  <2>1. \A r \in Run : Honours(run'[r].finding, run'[r].saw)
    <3> SUFFICES ASSUME NEW r \in Run PROVE Honours(run'[r].finding, run'[r].saw)
      OBVIOUS
    <3>1. CASE run'[r].finding = run[r].finding /\ run'[r].saw = run[r].saw
      BY <1>0, <3>1
    <3>2. CASE run'[r].finding.how \in {"none", "retry"}
      BY <3>2 DEF Honours
    <3> QED BY <1>u, <3>1, <3>2
  <2>2. ApplicabilityHonoured'
    BY <2>1 DEF ApplicabilityHonoured, Honours
  <2> QED BY <1>u, <2>2 DEF HonouredInv
<1>1. CASE \E a \in Assessor : OpenUpsert(a) \/ OpenDelete(a) \/ CommitDecision(a)
  <2>1. UNCHANGED <<run, exec>>
    BY <1>1, Zenon DEF OpenUpsert, OpenDelete, CommitDecision, Decide
  <2> QED BY <1>u, <2>1
<1>2. CASE ChangeScope
  BY <1>u, <1>2 DEF ChangeScope
<1>3. ASSUME NEW r \in Run, NEW carry \in BOOLEAN, Start(r, carry) PROVE HonouredInv'
  <2>1. /\ exec' = exec /\ run'[r].finding.how = "none"
        /\ \A s \in Run \ {r} : run'[s] = run[s]
    BY <1>0, <1>3 DEF Start, DecisionTypeOK, NotRun, NoResult
  <2> QED BY <1>u, <2>1
<1>4. ASSUME NEW r \in Run, Load(r) PROVE HonouredInv'
  <2>1. PICK reuse \in {NoResult} \cup {run[s].finding : s \in {t \in LatestComplete(r) : Carriable(r, t)}} :
          exec' = [pc |-> IF run[r].finding # NoResult THEN "finish"
                          ELSE IF reuse # NoResult THEN "carry"
                          ELSE IF profile THEN "profile" ELSE "assess",
                   run |-> r, row |-> override, reuse |-> reuse]
    BY <1>4 DEF Load
  <2>2. \A s \in Run : run'[s].finding = run[s].finding /\ run'[s].saw = run[s].saw
    BY <1>0, <1>4 DEF Load, DecisionTypeOK, Runs
  <2>3. ApplicabilityHonoured'
    BY <1>0, <2>2 DEF ApplicabilityHonoured, Honours
  <2>4. ASSUME exec'.pc = "carry"
        PROVE  /\ exec'.reuse.status = "compliant" /\ ~exec'.row.sat
               /\ exec'.row.app \notin {"not_applicable", "inherited"}
    <3>1. reuse # NoResult
      BY <2>1, <2>4
    <3>2. PICK s \in LatestComplete(r) : Carriable(r, s) /\ reuse = run[s].finding
      BY <2>1, <3>1
    <3>3. exec'.reuse = reuse /\ exec'.row = override
      BY <2>1
    <3> QED BY <3>2, <3>3 DEF Carriable
  <2> QED BY <2>3, <2>4 DEF HonouredInv
<1>5. CASE CarryForward
  <2> DEFINE found == [exec.reuse EXCEPT !.how = "carried"]
  <2>1. found.status = "compliant" /\ found.how = "carried"
    BY <1>0, <1>5 DEF CarryForward, Executions, Results, HonouredInv
  <2>2. Find(exec.run, found) /\ Stage("finish") /\ Executing /\ exec.pc = "carry"
    BY <1>5 DEF CarryForward
  <2> HIDE DEF found
  <2>3. Honours(found, exec.row)
    BY <2>1, <2>2 DEF Honours, HonouredInv
  <2> QED BY <1>0, <2>2, <2>3, FindHonoured
<1>6. CASE InsertNA
  <2>1. Honours([status |-> "not_applicable", how |-> "profile", basis |-> NoFingerprint], exec.row)
    BY DEF Honours
  <2> QED BY <1>0, <1>6, <2>1, FindHonoured DEF InsertNA
<1>7. CASE ReuseSatisfied
  <2> DEFINE found == [status |-> exec.row.snap.status, how |-> "satisfied", basis |-> exec.row.snap.basis]
  <2>1. Honours(found, exec.row)
    BY DEF Honours
  <2>2. Find(exec.run, found) /\ Stage("finish") /\ Executing /\ exec.pc # "free"
    BY <1>7 DEF ReuseSatisfied
  <2> HIDE DEF found
  <2> QED BY <1>0, <2>1, <2>2, FindHonoured
<1>8. CASE ApplyExclusion
  <2>1. Honours([status |-> "not_applicable", how |-> "excluded", basis |-> NoFingerprint], exec.row)
    BY <1>8 DEF Honours, ApplyExclusion, Excluded
  <2> QED BY <1>0, <1>8, <2>1, FindHonoured DEF ApplyExclusion
<1>9. ASSUME NEW verdict \in Verdicts, AssessAnew(verdict) PROVE HonouredInv'
  <2> DEFINE found == [status |-> Adjusted(exec.row, verdict),
                       how |-> IF exec.row.manual # "none" THEN "manual" ELSE "model", basis |-> run[exec.run].scope]
  <2>1. exec.row.manual = "none" /\ exec.row.app = "applicable" => Adjusted(exec.row, verdict) # "not_applicable"
    BY DEF Adjusted
  <2>2. exec.row.app \notin {"not_applicable", "inherited"}
    BY <1>9 DEF AssessAnew, Excluded
  <2>3. Honours(found, exec.row)
    BY <2>1, <2>2 DEF Honours
  <2>4. Find(exec.run, found) /\ Stage("finish") /\ Executing /\ exec.pc # "free"
    BY <1>9 DEF AssessAnew
  <2> HIDE DEF found
  <2> QED BY <1>0, <2>3, <2>4, FindHonoured
<1>10. CASE Conclude \/ Interrupt
  <2>1. /\ exec' = NoExec
        /\ \A r \in Run : run'[r].finding = run[r].finding /\ run'[r].saw = run[r].saw
    BY <1>0, <1>10 DEF Conclude, Interrupt, Executing, DecisionTypeOK, Runs
  <2> QED BY <1>u, <2>1 DEF NoExec
<1>11. ASSUME NEW r \in Run, NEW verdict \in Verdicts, Retry(r, verdict) PROVE HonouredInv'
  <2>1. /\ exec' = exec /\ run'[r].finding.how = "retry"
        /\ \A s \in Run \ {r} : run'[s] = run[s]
    BY <1>0, <1>11 DEF Retry, DecisionTypeOK, Runs
  <2> QED BY <1>u, <2>1
<1>12. ASSUME NEW o \in Officer, PolicyStep(o) PROVE HonouredInv'
  <2>1. \A r \in Run : run'[r].finding = run[r].finding /\ run'[r].saw = run[r].saw
    BY <1>0, <1>12 DEF PolicyStep, Unpinned, Runs
  <2> QED BY <1>u, <1>12, <2>1 DEF PolicyStep
<1>13. CASE UNCHANGED standingVars
  BY <1>u, <1>13 DEF standingVars, decisionVars
<1> QED
  BY <1>1, <1>2, <1>3, <1>4, <1>5, <1>6, <1>7, <1>8, <1>9, <1>10, <1>11, <1>12, <1>13 DEF StandingNext

\* The type and both strengthenings, in every step.
LEMMA StandingKeeps ==
  ASSUME StandingTypeOK, NewestInv, [StandingNext]_standingVars
  PROVE  StandingTypeOK' /\ NewestInv'
BY StandingRegister, RegisterKeeps, StandingTypes DEF StandingTypeOK

\* The first state.
LEMMA StandingFirst == StandingInit => StandingTypeOK /\ NewestInv
BY RegisterStart, StandingStart DEF StandingInit, StandingTypeOK

\* Every variable of the decisions and the assessments is of its type.
THEOREM StandingIsTyped == StandingSpec => []StandingTypeOK
BY StandingFirst, StandingKeeps, PTL DEF StandingSpec

\* Whatever is kept or carried forward, through however many assessments, rests on the
\* evidence of the assessment it is in.
THEOREM CarriedRestsOnEvidence == StandingSpec => []CarriedIsGrounded
<1>1. StandingInit => GroundedInv
  BY StandingStart
<1>2. StandingTypeOK /\ GroundedInv /\ [StandingNext]_standingVars => GroundedInv'
  BY GroundedKept
<1>3. GroundedInv => CarriedIsGrounded
  BY DEF GroundedInv, CarriedIsGrounded
<1> QED BY <1>1, <1>2, <1>3, StandingIsTyped, PTL DEF StandingSpec

\* ApplicabilityHonoured: no stage of an execution makes a finding that what it read of
\* applicability and "satisfied" forbids.
THEOREM ApplicabilityIsHonoured == StandingSpec => []ApplicabilityHonoured
<1>1. StandingInit => HonouredInv
  BY StandingStart
<1>2. StandingTypeOK /\ HonouredInv /\ [StandingNext]_standingVars => HonouredInv'
  BY HonouredKept
<1>3. HonouredInv => ApplicabilityHonoured
  BY DEF HonouredInv
<1> QED BY <1>1, <1>2, <1>3, StandingIsTyped, PTL DEF StandingSpec

\* A commit leaves alone what its request did not decide, whoever decided it meanwhile.
THEOREM DecisionsStayApart == StandingSpec => DecisionsApart
<1> DEFINE Apart == \A a \in Assessor : CommitDecision(a) /\ editor[a].kind = "upsert" =>
                      \A f \in {"app", "sat", "manual"} :
                          editor[a].row[f] = editor[a].loaded[f] => override'[f] = override[f]
<1>1. Apart
  <2> SUFFICES ASSUME NEW a \in Assessor, CommitDecision(a), editor[a].kind = "upsert"
               PROVE  /\ editor[a].row.app = editor[a].loaded.app => override'.app = override.app
                      /\ editor[a].row.sat = editor[a].loaded.sat => override'.sat = override.sat
                      /\ editor[a].row.manual = editor[a].loaded.manual => override'.manual = override.manual
    OBVIOUS
  <2>1. override' = override \/ override' = Flush(editor[a].loaded, editor[a].row)
    BY DEF CommitDecision
  <2> QED BY <2>1 DEF Flush
<1>2. StandingSpec => [][Apart]_standingVars
  BY <1>1, PTL
<1> QED BY <1>2 DEF DecisionsApart
=============================================================================
