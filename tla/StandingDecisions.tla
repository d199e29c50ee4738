-------------------------- MODULE StandingDecisions --------------------------
(***************************************************************************)
(* What assessors decide about one control of a project once and for all   *)
(* later assessments - applicability, "satisfied", a manual status - and   *)
(* what the project's assessments, one after the other, make of it         *)
(* (api/overrides.py, services/assessment_engine.py,                       *)
(* services/system_profile.py, services/retry_engine.py).                  *)
(*                                                                         *)
(* An assessment is pinned to a policy and to a fingerprint of its         *)
(* evidence when it is started.  The model, provider and other settings of *)
(* an execution do not change.  A finding is its status, how it was made   *)
(* and, as history, the evidence on which the model once determined it.    *)
(* Accepted risk, rationales and logs are left out.                        *)
(***************************************************************************)
EXTENDS PolicyRegister, FiniteSetsExt

CONSTANTS
    Run,          \* assessments, in order of creation
    Fingerprint,     \* fingerprints of the project's evidence
    Assessor,     \* requests about the control
    Verdicts,     \* what the model may say of the control
    Kept,         \* what assessors may say of it: applicability, and manual statuses
    Manual,
    Budgets       \* bounds: requests about policies, requests about the control, changes of
                  \* the evidence or the profile, executions that fail, and assessments

ASSUME RunAssumption == Run \subseteq Nat \ {0} /\ IsFiniteSet(Run)
ASSUME BudgetAssumption ==
    Budgets \subseteq [requests : MaxRequests, decisions : Nat, changes : Nat, faults : Nat, runs : SUBSET Run]
ResultStatuses == {"compliant", "partially_compliant", "non_compliant", "not_applicable", "not_reviewed"}
ASSUME VerdictAssumption == Verdicts \subseteq ResultStatuses
ASSUME DecisionAssumption == /\ Kept \subseteq {"applicable", "not_applicable", "inherited"}
                             /\ Manual \subseteq ResultStatuses \ {"not_reviewed"}

VARIABLES
    override,    \* the row of control_overrides for the control
    editor,      \* a request about the control: what it has loaded and will write
    run,         \* the assessments with their finding for the control
    exec,        \* the execution under way, with its local variables
    evidence,    \* the fingerprint of the evidence now
    profile,     \* the system profile makes the control not applicable
    budget       \* bound: what is left of a member of Budgets

decisionVars == <<override, editor, run, exec, evidence, profile, budget>>
standingVars == <<policyVars, decisionVars>>

NoRun == 0
NoFingerprint == "none"
NoResult == [status |-> "none", how |-> "none", basis |-> NoFingerprint]
NoSnapshot == [status |-> "none", scope |-> NoFingerprint, basis |-> NoFingerprint]
NoOverride == [id |-> 0, app |-> "none", sat |-> FALSE, snap |-> NoSnapshot, manual |-> "none"]
Idle == [kind |-> "idle", loaded |-> NoOverride, row |-> NoOverride]
NotRun == [state |-> "none", scope |-> NoFingerprint, policy |-> NoPolicy, version |-> 0,
           carry |-> FALSE, finding |-> NoResult, tested |-> 0, done |-> 0, saw |-> NoOverride]
NoExec == [pc |-> "free", run |-> NoRun, row |-> NoOverride, reuse |-> NoResult]

StandingInit ==
    /\ RegisterInit
    /\ override = NoOverride
    /\ editor = [a \in Assessor |-> Idle]
    /\ run = [r \in Run |-> NotRun]
    /\ exec = NoExec
    /\ evidence \in Fingerprint
    /\ profile = FALSE
    /\ budget \in Budgets /\ requests = budget.requests

----------------------------------------------------------------------------
(* Decisions.                                                              *)

\* The latest finding that says something, of any of the project's assessments.
Telling == {r \in Run : run[r].finding.status \notin {"none", "not_reviewed"}}
Snapshot ==
    IF Telling = {} THEN NoSnapshot
    ELSE LET r == CHOOSE r \in Telling : \A s \in Telling : run[s].tested <= run[r].tested
         IN  [status |-> run[r].finding.status, scope |-> run[r].scope, basis |-> run[r].finding.basis]

\* What a request decides, given the row it has loaded or created.
Decisions(row) ==
    {[row EXCEPT !.app = v] : v \in Kept \cup {"none"}}
    \cup {[row EXCEPT !.sat = TRUE, !.snap = IF row.sat THEN @ ELSE Snapshot], [row EXCEPT !.sat = FALSE]}
    \cup {[row EXCEPT !.manual = v] : v \in Manual}
    \cup (IF row.manual = "none" THEN {} ELSE {[row EXCEPT !.manual = "none"]})

Decide(a, state) ==
    /\ editor[a] = Idle
    /\ budget.decisions > 0
    /\ budget' = [budget EXCEPT !.decisions = @ - 1]
    /\ editor' = [editor EXCEPT ![a] = state]
    /\ UNCHANGED <<policyVars, override, run, exec, evidence, profile>>

\* upsert_override, delete_override: the row is loaded and the decision made on it ...
OpenUpsert(a) ==
    \E row \in Decisions(IF override = NoOverride THEN [NoOverride EXCEPT !.id = budget.decisions] ELSE override) :
        Decide(a, [kind |-> "upsert", loaded |-> override, row |-> row])
OpenDelete(a) == override # NoOverride /\ Decide(a, [kind |-> "delete", loaded |-> override, row |-> NoOverride])

\* ... and at the commit a column is written only where it differs from what was loaded.
\* A second insert for the control, and an update of a row that is gone, fail; the
\* deletion of a row that is gone does nothing.
FlushAll(loaded, row) == row   \* (seeded fault: the row is written as it was loaded)
Flush(loaded, row) ==
    [id |-> row.id,
     app |-> IF row.app # loaded.app THEN row.app ELSE override.app,
     sat |-> IF row.sat # loaded.sat THEN row.sat ELSE override.sat,
     snap |-> IF row.snap # loaded.snap THEN row.snap ELSE override.snap,
     manual |-> IF row.manual # loaded.manual THEN row.manual ELSE override.manual]
CommitDecision(a) ==
    /\ editor[a].kind # "idle"
    /\ override' = IF editor[a].loaded.id # override.id THEN override
                   ELSE IF editor[a].kind = "delete" THEN NoOverride
                   ELSE Flush(editor[a].loaded, editor[a].row)
    /\ editor' = [editor EXCEPT ![a] = Idle]
    /\ UNCHANGED <<policyVars, run, exec, evidence, profile, budget>>

\* Documents come and go; the system profile is edited.
ChangeScope ==
    /\ budget.changes > 0
    /\ budget' = [budget EXCEPT !.changes = @ - 1]
    /\ \/ evidence' \in Fingerprint \ {evidence} /\ UNCHANGED profile
       \/ profile' = ~profile /\ UNCHANGED evidence
    /\ UNCHANGED <<policyVars, override, editor, run, exec>>

----------------------------------------------------------------------------
(* Assessments.                                                            *)

\* start_assessment: the policy in force and the evidence are pinned.
Start(r, carry) ==
    /\ r \in budget.runs /\ run[r].state = "none"
    /\ \A s \in Run : s < r => run[s].state # "none"
    /\ run' = [run EXCEPT ![r] = [NotRun EXCEPT !.state = "pending", !.scope = evidence, !.carry = carry,
                                                !.policy = InForce,
                                                !.version = IF InForce = NoPolicy THEN 0
                                                            ELSE policy[InForce].version]]
    /\ UNCHANGED <<policyVars, override, editor, exec, evidence, profile, budget>>

\* The finding of the latest complete assessment is carried forward if it is compliant,
\* nothing that it rests on has changed and no decision is to be applied instead.
CompatibleByPolicy(r, s) ==   \* (seeded fault: the evidence is not compared)
    run[s].policy = run[r].policy /\ run[s].version = run[r].version

Compatible(r, s) ==   \* _is_carry_forward_compatible
    run[s].scope = run[r].scope /\ run[s].policy = run[r].policy /\ run[s].version = run[r].version

CarriableIfUnsatisfied(r, s) ==   \* (seeded fault: an exclusion does not stop it)
    /\ run[r].carry /\ Compatible(r, s)
    /\ run[s].finding.status = "compliant"
    /\ ~profile /\ ~override.sat

Carriable(r, s) ==
    /\ run[r].carry /\ Compatible(r, s)
    /\ run[s].finding.status = "compliant"
    /\ ~profile /\ ~override.sat /\ override.app \notin {"not_applicable", "inherited"}

\* _run: the decisions, the latest complete assessment and the profile are read; a
\* resumed execution skips a control that has its finding.  What could be carried forward
\* is not where a document tagged to the control is newer than that assessment.
Complete == {r \in Run : run[r].state = "complete"}
LatestComplete(r) == {s \in Complete \ {r} : \A t \in Complete \ {r} : run[t].done <= run[s].done}
Load(r) ==
    /\ exec = NoExec
    /\ run[r].state = "pending"
    /\ \E reuse \in {NoResult} \cup {run[s].finding : s \in {t \in LatestComplete(r) : Carriable(r, t)}} :
          exec' = [pc |-> IF run[r].finding # NoResult THEN "finish"
                          ELSE IF reuse # NoResult THEN "carry"
                          ELSE IF profile THEN "profile" ELSE "assess",
                   run |-> r, row |-> override, reuse |-> reuse]
    /\ run' = [run EXCEPT ![r].state = "running"]
    /\ UNCHANGED <<policyVars, override, editor, evidence, profile, budget>>

Tested == 1 + Max({run[r].tested : r \in Run})
Find(r, found) ==
    run' = [run EXCEPT ![r].finding = found, ![r].tested = Tested, ![r].saw = exec.row]
Stage(pc) == exec' = [exec EXCEPT !.pc = pc]
Executing == UNCHANGED <<policyVars, override, editor, evidence, profile, budget>>

CarryForward ==
    /\ exec.pc = "carry"
    /\ Find(exec.run, [exec.reuse EXCEPT !.how = "carried"])
    /\ Stage("finish") /\ Executing

\* The system profile, which asks no override.
InsertNA ==
    /\ exec.pc = "profile"
    /\ Find(exec.run, [status |-> "not_applicable", how |-> "profile", basis |-> NoFingerprint])
    /\ Stage("finish") /\ Executing

\* _assess_control: a satisfied control keeps the finding of its snapshot, on the same
\* evidence; a control that does not apply gets no assessment.
Reusable(x) ==
    x.row.sat /\ x.row.snap # NoSnapshot /\ x.row.snap.scope = run[x.run].scope
ReuseSatisfied ==
    /\ exec.pc = "assess" /\ Reusable(exec)
    /\ Find(exec.run, [status |-> exec.row.snap.status, how |-> "satisfied", basis |-> exec.row.snap.basis])
    /\ Stage("finish") /\ Executing
Excluded == exec.row.app \in {"not_applicable", "inherited"}
ApplyExclusion ==
    /\ exec.pc = "assess" /\ ~Reusable(exec) /\ Excluded
    /\ Find(exec.run, [status |-> "not_applicable", how |-> "excluded", basis |-> NoFingerprint])
    /\ Stage("finish") /\ Executing

\* The model's verdict, as the decisions let it stand.
Adjusted(row, verdict) ==
    IF row.manual # "none" THEN row.manual
    ELSE IF row.app = "applicable" /\ verdict = "not_applicable" THEN "partially_compliant"
    ELSE verdict
AssessAnew(verdict) ==
    /\ exec.pc = "assess" /\ ~Reusable(exec) /\ ~Excluded
    /\ Find(exec.run, [status |-> Adjusted(exec.row, verdict),
                       how |-> IF exec.row.manual # "none" THEN "manual" ELSE "model",
                       basis |-> run[exec.run].scope])
    /\ Stage("finish") /\ Executing

Conclude ==
    /\ exec.pc = "finish"
    /\ run' = [run EXCEPT ![exec.run].state = "complete", ![exec.run].done = 1 + Cardinality(Complete)]
    /\ exec' = NoExec
    /\ Executing

\* An exception, or the death of the worker; somebody resumes the assessment.
Interrupt ==
    /\ exec.pc # "free" /\ budget.faults > 0
    /\ budget' = [budget EXCEPT !.faults = @ - 1]
    /\ run' = [run EXCEPT ![exec.run].state = "pending"]
    /\ exec' = NoExec
    /\ UNCHANGED <<policyVars, override, editor, evidence, profile>>

\* retry_one: the model's verdict replaces a finding that could not be read, without
\* asking any decision.
Retry(r, verdict) ==
    /\ run[r].state = "complete" /\ run[r].finding.status = "not_reviewed"
    /\ verdict # "not_reviewed"
    /\ run' = [run EXCEPT ![r].finding = [status |-> verdict, how |-> "retry", basis |-> run[r].scope],
                          ![r].tested = Tested]
    /\ UNCHANGED <<policyVars, override, editor, exec, evidence, profile, budget>>

\* A policy that is deleted is no longer pinned.
Unpinned(r) ==
    IF run[r].policy # NoPolicy /\ policy'[run[r].policy].status = "deleted"
    THEN [run[r] EXCEPT !.policy = NoPolicy] ELSE run[r]
PolicyStep(o) ==
    /\ RegisterStep(o)
    /\ run' = [r \in Run |-> Unpinned(r)]
    /\ UNCHANGED <<override, editor, exec, evidence, profile, budget>>

StandingNext ==
    \/ \E o \in Officer : PolicyStep(o)
    \/ \E a \in Assessor : OpenUpsert(a) \/ OpenDelete(a) \/ CommitDecision(a)
    \/ ChangeScope
    \/ \E r \in Run : \/ \E carry \in BOOLEAN : Start(r, carry)
                      \/ Load(r)
                      \/ \E verdict \in Verdicts : Retry(r, verdict)
    \/ CarryForward \/ InsertNA \/ ReuseSatisfied \/ ApplyExclusion
    \/ \E verdict \in Verdicts : AssessAnew(verdict)
    \/ Conclude \/ Interrupt

StandingSpec == StandingInit /\ [][StandingNext]_standingVars

----------------------------------------------------------------------------
(* Properties.                                                             *)

\* A finding that was not made anew - carried forward, or kept by "satisfied", through
\* whatever chain of assessments - was determined on the very evidence of its
\* assessment, if it was determined at all.
CarriedIsGrounded ==
    \A r \in Run : run[r].finding.how \in {"carried", "satisfied"} =>
                    run[r].finding.basis \in {run[r].scope, NoFingerprint}

\* An execution honours what it read of applicability and "satisfied", in every stage that
\* may make the finding: a control that was excluded is recorded as not applicable or
\* keeps the finding it was satisfied with, a satisfied control is not carried forward,
\* and the model cannot make a control that was said to apply not applicable.  The manual
\* status is not honoured so (ManualStatusHeld).
ApplicabilityHonoured ==
    \A r \in Run : run[r].finding.how \notin {"none", "retry"} =>
        LET saw == run[r].saw  found == run[r].finding
        IN  /\ saw.app \in {"not_applicable", "inherited"} =>
                  found.status = "not_applicable" \/ found.how = "satisfied"
            /\ saw.sat => found.how # "carried"
            /\ saw.app = "applicable" /\ found.status = "not_applicable" =>
                  found.how \in {"profile", "satisfied", "manual"}

\* Requests that decide different things about the control do not undo one another.
DecisionsApart ==
    [][\A a \in Assessor : CommitDecision(a) /\ editor[a].kind = "upsert" =>
          \A f \in {"app", "sat", "manual"} :
              editor[a].row[f] = editor[a].loaded[f] => override'[f] = override[f]]_standingVars

\* The manual status of a control cannot be changed by the model once it is set: where an
\* execution read one, no verdict of the model, of now or of an earlier assessment, is the
\* status of its finding instead.
ManualStatusHeld ==
    \A r \in Run : run[r].finding.how \in {"carried", "model", "manual"} /\ run[r].saw.manual # "none" =>
                    run[r].finding.status = run[r].saw.manual
----------------------------------------------------------------------------
(* Inductive invariants, for the proofs.                                   *)

Bases == Fingerprint \cup {NoFingerprint}
Snapshots == [status : ResultStatuses \cup {"none"}, scope : Bases, basis : Bases]
Overrides == [id : Nat, app : Kept \cup {"none"}, sat : BOOLEAN, snap : Snapshots, manual : Manual \cup {"none"}]
Results == [status : ResultStatuses \cup {"none"},
            how : {"none", "carried", "profile", "satisfied", "excluded", "manual", "model", "retry"}, basis : Bases]
Runs == [state : {"none", "pending", "running", "complete"}, scope : Bases, policy : Policy \cup {NoPolicy},
         version : Nat, carry : BOOLEAN, finding : Results, tested : Nat, done : Nat, saw : Overrides]
Editors == [kind : {"idle", "upsert", "delete"}, loaded : Overrides, row : Overrides]
Executions == [pc : {"free", "finish", "carry", "profile", "assess"}, run : Run \cup {NoRun},
               row : Overrides, reuse : Results]
Remaining == [requests : Nat, decisions : Nat, changes : Nat, faults : Nat, runs : SUBSET Run]
DecisionTypeOK ==
    /\ override \in Overrides
    /\ editor \in [Assessor -> Editors]
    /\ run \in [Run -> Runs]
    /\ exec \in Executions /\ (exec.pc # "free" => exec.run \in Run)
    /\ evidence \in Fingerprint /\ profile \in BOOLEAN
    /\ budget \in Remaining
StandingTypeOK == PolicyTypeOK /\ DecisionTypeOK

\* What was determined was determined on the evidence it is kept with.
SnapGrounded(snap) == snap.basis \in {snap.scope, NoFingerprint}

\* The strengthening of CarriedIsGrounded: every finding, every snapshot in the table or
\* on its way there, and what the execution is about to carry forward.
GroundedInv ==
    /\ \A r \in Run : run[r].finding.basis \in {run[r].scope, NoFingerprint}
    /\ SnapGrounded(override.snap) /\ SnapGrounded(exec.row.snap)
    /\ \A a \in Assessor : SnapGrounded(editor[a].row.snap)
    /\ exec.pc # "free" => run[exec.run].state = "running"
    /\ exec.pc = "carry" => exec.reuse.basis \in {run[exec.run].scope, NoFingerprint}

\* The strengthening of ApplicabilityHonoured: what is carried forward was chosen under the
\* decisions that the execution read.
HonouredInv ==
    /\ ApplicabilityHonoured
    /\ exec.pc = "carry" => /\ exec.reuse.status = "compliant" /\ ~exec.row.sat
                            /\ exec.row.app \notin {"not_applicable", "inherited"}
=============================================================================
