---------------------------- MODULE PolicyRegister ----------------------------
(***************************************************************************)
(* The assessment policies: drafts that are cloned, edited, activated and  *)
(* deleted by requests beside each other, the seeding of a policy at every *)
(* start of a process, and the policy in force that a new assessment pins  *)
(* (services/assessment_policy.py, api/assessment_policy.py, main.py).     *)
(*                                                                         *)
(* A request loads a policy, decides on what it loaded and commits later;  *)
(* rows have no version column and no lock.  What a policy says - name,    *)
(* thresholds, buckets - is one value, a stamp of the edit that wrote it.  *)
(***************************************************************************)
EXTENDS Naturals, FiniteSets

CONSTANTS
    Policy,      \* ids of rows, in order of creation
    Officer,     \* requests in flight and processes that start
    MaxRequests  \* bound: how many requests and starts there may be, a set of numbers

ASSUME PolicyAssumption == Policy \subseteq Nat \ {0} /\ IsFiniteSet(Policy)
ASSUME RequestAssumption == MaxRequests \subseteq Nat

VARIABLES
    policy,      \* assessment_policies
    office,      \* a request or a start: what it has loaded
    clock,       \* the time
    requests,    \* bound: requests and starts to come
    latest,      \* history: of all activations, the one with the latest time
    disturbed    \* history: one policy was activated twice, or an active one deleted

policyVars == <<policy, office, clock, requests, latest, disturbed>>

NoPolicy == 0
NoStatus == "none"
Absent == [status |-> NoStatus, at |-> 0, version |-> 0, content |-> 0]
AtRest == [pc |-> "rest", kind |-> "none", row |-> NoPolicy, active |-> NoPolicy, at |-> 0,
           seen |-> 0, version |-> 0, content |-> 0]
PolicyStatuses == {"draft", "active", "retired"}

Registered == {p \in Policy : policy[p].status \in PolicyStatuses}
Unborn == {p \in Policy : policy[p] = Absent /\ \A q \in Registered : q < p}

SoonerById(p, q) == p < q   \* (seeded fault: the id alone decides)
\* The order of get_active_assessment_policy: effective_at, then id.
Sooner(p, q) == \/ policy[p].at < policy[q].at
                \/ policy[p].at = policy[q].at /\ p < q
Active == {p \in Policy : policy[p].status = "active"}
IsInForce(p) == p \in Active /\ \A q \in Active \ {p} : Sooner(q, p)
InForce == IF Active = {} THEN NoPolicy ELSE CHOOSE p \in Active : IsInForce(p)

RegisterInit ==
    /\ policy = [p \in Policy |-> Absent]
    /\ office = [o \in Officer |-> AtRest]
    /\ clock = 0
    /\ requests \in MaxRequests
    /\ latest = [policy |-> NoPolicy, at |-> 0]
    /\ disturbed = FALSE

----------------------------------------------------------------------------
(* Requests.                                                               *)

Admit(o, state) ==
    /\ office[o] = AtRest
    /\ requests > 0
    /\ requests' = requests - 1
    /\ office' = [office EXCEPT ![o] = state]
    /\ UNCHANGED <<policy, clock, latest, disturbed>>
Replied(o) == office' = [office EXCEPT ![o] = AtRest]

\* get_policy_by_id, and the check of the handler on what it loaded.
OpenDraft(o, kind, p) ==
    /\ kind \in {"edit", "activate", "delete"}
    /\ policy[p].status = "draft"
    /\ Admit(o, [AtRest EXCEPT !.pc = IF kind = "activate" THEN "load" ELSE "ready",
                               !.kind = kind, !.row = p])

\* update_policy_metadata, update_policy_bucket: columns of the row and of its buckets.
CommitEdit(o) ==
    LET p == office[o].row
    IN /\ office[o].pc = "ready" /\ office[o].kind = "edit"
       /\ clock' = clock + 1
       /\ policy' = IF p \in Registered THEN [policy EXCEPT ![p].content = clock + 1] ELSE policy
       /\ Replied(o)
       /\ UNCHANGED <<requests, latest, disturbed>>

\* clone_policy_to_draft: the copy of what was loaded and the highest version so far ...
OpenClone(o, p) ==
    /\ p \in Registered
    /\ \E v \in {policy[q].version : q \in Registered} :
          /\ \A q \in Registered : policy[q].version <= v
          /\ Admit(o, [AtRest EXCEPT !.pc = "ready", !.kind = "clone", !.content = policy[p].content,
                                     !.version = v + 1])

\* ... and the row and its buckets, in one commit.
CommitClone(o) ==
    /\ office[o].pc = "ready" /\ office[o].kind = "clone"
    /\ \E p \in Unborn :
          /\ \A q \in Unborn : p <= q
          /\ policy' = [policy EXCEPT ![p] = [status |-> "draft", at |-> 0,
                                              version |-> office[o].version,
                                              content |-> office[o].content]]
    /\ Replied(o)
    /\ UNCHANGED <<clock, requests, latest, disturbed>>

\* activate_policy: the policy in force is read, and only then the time ...
ReadActive(o) ==
    /\ office[o].pc = "load"
    /\ clock' = clock + 1
    /\ office' = [office EXCEPT ![o] = [@ EXCEPT !.pc = "ready", !.active = InForce, !.at = clock + 1]]
    /\ UNCHANGED <<policy, requests, latest, disturbed>>
\* ... and both rows are written; a row that is gone fails the whole commit.
Retiring(o) == {office[o].active} \ {office[o].row, NoPolicy}
Noted(p, at) ==
    /\ latest' = IF at > latest.at THEN [policy |-> p, at |-> at] ELSE latest
    /\ disturbed' = (disturbed \/ policy[p].at # 0)
CommitActivate(o) ==
    LET p == office[o].row
    IN /\ office[o].pc = "ready" /\ office[o].kind = "activate"
       /\ IF {p} \cup Retiring(o) \subseteq Registered
          THEN /\ policy' = [q \in Policy |->
                                IF q = p THEN [policy[q] EXCEPT !.status = "active", !.at = office[o].at]
                                ELSE IF q \in Retiring(o) THEN [policy[q] EXCEPT !.status = "retired"]
                                ELSE policy[q]]
               /\ Noted(p, office[o].at)
          ELSE UNCHANGED <<policy, latest, disturbed>>
       /\ Replied(o)
       /\ UNCHANGED <<clock, requests>>

\* delete_policy_draft: the row goes whatever it has become.
CommitDelete(o) ==
    LET p == office[o].row
    IN /\ office[o].pc = "ready" /\ office[o].kind = "delete"
       /\ policy' = IF p \in Registered THEN [policy EXCEPT ![p].status = "deleted"] ELSE policy
       /\ disturbed' = (disturbed \/ policy[p].status = "active")
       /\ Replied(o)
       /\ UNCHANGED <<clock, requests, latest>>

----------------------------------------------------------------------------
(* The start of a process: seed_default_assessment_policy in the lifespan. *)

\* Nothing to do; or any policy there is, activated now unless it once was; or the
\* default policy.
StartProcess(o) ==
    /\ Active = {}
    /\ \E p \in IF Registered # {} THEN Registered ELSE {NoPolicy} :
          /\ office[o] = AtRest
          /\ requests > 0
          /\ requests' = requests - 1
          /\ office' = [office EXCEPT ![o] = [AtRest EXCEPT !.pc = "ready", !.kind = "seed", !.row = p,
                                                            !.at = clock + 1,
                                                            !.seen = IF p = NoPolicy THEN 0 ELSE policy[p].at]]
    /\ clock' = clock + 1
    /\ UNCHANGED <<policy, latest, disturbed>>

CommitSeed(o) ==
    LET p == office[o].row
    IN /\ office[o].pc = "ready" /\ office[o].kind = "seed"
       /\ IF p = NoPolicy
          THEN \E q \in Unborn :
                  /\ \A r \in Unborn : q <= r
                  /\ policy' = [policy EXCEPT ![q] = [status |-> "active", at |-> office[o].at,
                                                      version |-> 1, content |-> 0]]
                  /\ Noted(q, office[o].at)
          ELSE IF p \in Registered
          THEN /\ policy' = [policy EXCEPT ![p].status = "active",
                                           ![p].at = IF office[o].seen = 0 THEN office[o].at ELSE @]
               /\ Noted(p, office[o].at)
          ELSE UNCHANGED <<policy, latest, disturbed>>
       /\ Replied(o)
       /\ UNCHANGED <<clock, requests>>

RegisterStep(o) ==
    \/ \E p \in Policy : \/ \E kind \in {"edit", "activate", "delete"} : OpenDraft(o, kind, p)
                         \/ OpenClone(o, p)
    \/ StartProcess(o)
    \/ ReadActive(o)
    \/ CommitEdit(o) \/ CommitClone(o) \/ CommitActivate(o) \/ CommitDelete(o) \/ CommitSeed(o)

RegisterNext == \E o \in Officer : RegisterStep(o)
RegisterSpec == RegisterInit /\ [][RegisterNext]_policyVars

----------------------------------------------------------------------------
(* Properties.                                                             *)

PolicyRows == [status : PolicyStatuses \cup {NoStatus, "deleted"}, at : Nat, version : Nat, content : Nat]
PolicyRequests == [pc : {"rest", "load", "ready"},
                   kind : {"none", "edit", "activate", "delete", "clone", "seed"},
                   row : Policy \cup {NoPolicy}, active : Policy \cup {NoPolicy}, at : Nat,
                   seen : Nat, version : Nat, content : Nat]
PolicyTypeOK ==
    /\ policy \in [Policy -> PolicyRows]
    /\ office \in [Officer -> PolicyRequests]
    /\ clock \in Nat /\ requests \in Nat
    /\ latest \in [policy : Policy \cup {NoPolicy}, at : Nat]
    /\ disturbed \in BOOLEAN

\* Whatever activations race, the policy in force is the one activated last, and once
\* there was one there is one - until a policy is activated twice, or a request that saw
\* a draft deletes what has become the active policy.
InForceIsNewest == ~disturbed => InForce = latest.policy
----------------------------------------------------------------------------
(* Inductive invariants, for the proofs.                                   *)

\* A request that has read the time at which it will make a policy active.
Timed(o) == office[o].pc = "ready" /\ office[o].kind \in {"activate", "seed"}

\* Every time is past, and each is read once; what an activation will retire and what a
\* start has seen activated was activated before.
TimesRead ==
    /\ \A p \in Policy : policy[p].at <= clock
    /\ \A o \in Officer : office[o].at <= clock
    /\ \A o \in Officer : Timed(o) => office[o].at > 0 /\ \A p \in Policy : policy[p].at # office[o].at
    /\ \A o, m \in Officer : Timed(o) /\ Timed(m) /\ office[o].at = office[m].at => o = m
    /\ \A p \in Policy : policy[p].status = "active" => policy[p].at > 0
    /\ \A o \in Officer : office[o].seen > 0 => office[o].row # NoPolicy /\ policy[office[o].row].at > 0
    /\ ~disturbed => \A o \in Officer : Timed(o) /\ office[o].active # NoPolicy =>
          policy[office[o].active].at \in 1 .. office[o].at - 1

\* The strengthening of InForceIsNewest: of the active policies, the one activated last
\* has the latest time, strictly.
NewestInv ==
    /\ TimesRead
    /\ (latest.policy = NoPolicy) <=> (latest.at = 0)
    /\ ~disturbed =>
          IF latest.policy = NoPolicy THEN Active = {}
          ELSE /\ latest.policy \in Active /\ policy[latest.policy].at = latest.at
               /\ \A p \in Active \ {latest.policy} : policy[p].at < latest.at
=============================================================================
