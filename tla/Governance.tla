----------------------------- MODULE Governance -----------------------------
(***************************************************************************)
(* What happens to an assessment whose execution is complete: people       *)
(* review its findings, activities, dissents, tailoring decisions and      *)
(* POA&M rows, approve its content and finalize it (api/assessments.py,    *)
(* api/assessment_governance.py, api/security/poam.py, services/           *)
(* assessment_governance.py), while the worker may retry its failed        *)
(* findings (services/retry_engine.py, services/job_worker.py).            *)
(*                                                                         *)
(* Every handler loads rows in its own session and commits later, so it    *)
(* takes one action to check and one to commit.  The approval snapshot is  *)
(* a hash of all the content, timestamps included: two snapshots are equal *)
(* exactly when no content was written in between, so a version number     *)
(* stands for it.                                                          *)
(***************************************************************************)
EXTENDS Naturals, Sequences, FiniteSets

CONSTANTS
    Control,     \* the controls of the assessment's plan
    User,        \* accounts with the assessor role or a higher one
    Officer,     \* those that are security_officer or system_admin
    Client,      \* API requests that may be in flight together
    Initial,     \* the records that a completed run may leave for a control
    MaxEdits,    \* bound: content edits that people make
    MaxApprovals,\* bound: approvals that people record
    MaxJobs,     \* bound: retry jobs that people queue
    MaxCrashes,  \* bound: how often the worker process dies
    MaxFaults    \* bound: how many exceptions strike the retry

ASSUME UserAssumption == Officer \subseteq User
ASSUME ControlAssumption == IsFiniteSet(Control)
ASSUME BoundsAssumption ==
    /\ MaxEdits \in Nat /\ MaxApprovals \in Nat /\ MaxJobs \in Nat
    /\ MaxCrashes \in Nat /\ MaxFaults \in Nat

VARIABLES
    record,        \* what the tables say of each control, see Records
    version,       \* the content's version: what the snapshot hash tells apart
    approvals,     \* assessment_approvals, in the order of their ids
    finalization,  \* Assessment.finalization_status
    sealed,        \* history: the version that the finalizing request found ready
    rollup,        \* the controls that the stored rollup counts as not_reviewed
    jobs,          \* assessment_retry_jobs: their status, in the order of their ids
    retry,         \* the retry pool's only slot
    tasks,         \* retry_one tasks alive: of the gather, or left by a failed one
    worker,        \* the worker process: "up" or "down"
    request,       \* the API request each client has checked and not yet committed
    lost,          \* history: jobs whose end could not be stored since the worker started
    edits, crashes, faults

content == <<record, version>>
gate == <<approvals, finalization, sealed>>
retrying == <<rollup, jobs, retry, tasks, worker, lost, crashes, faults>>
vars == <<content, gate, retrying, request, edits>>

\* ControlFinding.status and reviewer_status, the EXAMINE activity, the AI
\* dissent, the tailoring decision and the POA&M row of a control.
Statuses == {"not_reviewed", "compliant", "non_compliant", "not_applicable"}
Records == [status    : Statuses,
            review    : {"none", "accepted", "override", "revision_requested"},
            activity  : {"planned", "performed", "completed"},
            dissent   : {"none", "open", "settled"},
            tailoring : {"none", "proposed", "approved", "rejected"},
            poam      : {"none", "open", "complete"}]
ASSUME InitialAssumption == Initial \subseteq Records

NoRequest == [op |-> "none"]
NoRetry == [pc |-> "idle", job |-> 0, loaded |-> {}]
NotReviewed == {c \in Control : record[c].status = "not_reviewed"}

Init ==
    /\ record \in [Control -> Initial]
    /\ version = 0
    /\ approvals = <<>>
    /\ finalization = "not_ready"
    /\ sealed = 0
    /\ rollup = NotReviewed
    /\ jobs = <<>>
    /\ retry = NoRetry
    /\ tasks = {}
    /\ worker = "up"
    /\ request = [q \in Client |-> NoRequest]
    /\ lost = {}
    /\ edits = 0 /\ crashes = 0 /\ faults = 0

----------------------------------------------------------------------------
(* People: edits of the content.                                           *)

Mutable == finalization # "finalized"   \* _require_mutable_assessment

Asks(q, r) == request[q] = NoRequest /\ request' = [request EXCEPT ![q] = r]
Answered(q) == request' = [request EXCEPT ![q] = NoRequest]

\* The records an edit of record r may produce, by handler: review_finding,
\* manual_resolve_finding, complete_activity, create_tailoring,
\* review_tailoring, resolve_dissent, create_poam and update_poam.
Edited(op, r) ==
    CASE op = "review"   -> {[r EXCEPT !.review = v] :
                               v \in {"accepted", "override", "revision_requested"}}
      [] op = "resolve"  -> {[r EXCEPT !.status = s, !.review = "override"] :
                               s \in Statuses \ {"not_reviewed"}}
      [] op = "activity" -> {[r EXCEPT !.activity = "completed"]}
      [] op = "propose"  -> {[r EXCEPT !.tailoring = "proposed"]}
      [] op = "tailor"   -> {[r EXCEPT !.tailoring = v] : v \in {"approved", "rejected"}}
      [] op = "dissent"  -> {[r EXCEPT !.dissent = "settled"]}
      [] op = "poam"     -> {[r EXCEPT !.poam = v] : v \in {"open", "complete"}}

EditOps == {"review", "resolve", "activity", "propose", "tailor", "dissent", "poam"}

EditCheck(q, op, c) ==
    /\ Mutable
    /\ edits < MaxEdits
    /\ op = "tailor"  => record[c].tailoring # "none"
    /\ op = "dissent" => record[c].dissent # "none"
    /\ \E new \in Edited(op, record[c]) :
         Asks(q, [op |-> op, ctl |-> c, old |-> record[c], new |-> new])
    /\ edits' = edits + 1
    /\ UNCHANGED <<content, gate, retrying>>

\* The session's UPDATE sets the columns whose value differs from the loaded one.
Flush(now, old, new) ==
    LET Column(x, y, z) == IF z # y THEN z ELSE x
    IN [status    |-> Column(now.status, old.status, new.status),
        review    |-> Column(now.review, old.review, new.review),
        activity  |-> Column(now.activity, old.activity, new.activity),
        dissent   |-> Column(now.dissent, old.dissent, new.dissent),
        tailoring |-> Column(now.tailoring, old.tailoring, new.tailoring),
        poam      |-> Column(now.poam, old.poam, new.poam)]

Write(c, r) ==
    /\ record' = [record EXCEPT ![c] = r]
    /\ version' = version + 1

EditCommit(q) ==
    /\ request[q].op \in EditOps
    /\ LET e == request[q] IN Write(e.ctl, Flush(record[e.ctl], e.old, e.new))
    /\ Answered(q)
    /\ UNCHANGED <<gate, retrying, edits>>

----------------------------------------------------------------------------
(* People: approvals and finalization.                                     *)

\* build_finalization_readiness, without the approvals.
Ready(r) ==
    /\ r.review \in {"accepted", "override"}
    /\ r.dissent # "open"
    /\ r.activity = "completed"
    /\ r.tailoring \in {"none", "approved"}
    /\ r.status = "not_applicable" => r.tailoring = "approved"
    /\ r.status = "non_compliant" => r.poam = "complete"
ContentReady == \A c \in Control : Ready(record[c])

Of(type) == {i \in DOMAIN approvals : approvals[i].type = type}
Latest(type) == {i \in Of(type) : \A j \in Of(type) : j <= i}

\* create_approval: the role, then the readiness of the content.
ApproveCheck(q, u, type) ==
    /\ Mutable
    /\ Len(approvals) < MaxApprovals
    /\ type = "independent_reviewer" => u \in Officer
    /\ ContentReady
    /\ Asks(q, [op |-> "approve", type |-> type, user |-> u])
    /\ UNCHANGED <<content, gate, retrying, edits>>

\* (seeded fault: the same person may approve in both roles)
ApproveReadAnyone(q) ==
    /\ request[q].op = "approve"
    /\ LET a == request[q]
           allowed == a.type = "independent_reviewer" => Of("assessor") # {}
       IN request' = [request EXCEPT ![q] =
            IF allowed THEN [op |-> "insert", type |-> a.type, user |-> a.user, snap |-> version]
            ELSE NoRequest]
    /\ UNCHANGED <<content, gate, retrying, edits>>

\* create_approval reads the assessor's approval, then hashes what is there now.
ApproveRead(q) ==
    /\ request[q].op = "approve"
    /\ LET a == request[q]
           allowed == a.type = "independent_reviewer" =>
                        \E i \in Latest("assessor") : approvals[i].user # a.user
       IN request' = [request EXCEPT ![q] =
            IF allowed THEN [op |-> "insert", type |-> a.type, user |-> a.user, snap |-> version]
            ELSE NoRequest]
    /\ UNCHANGED <<content, gate, retrying, edits>>

ApproveCommit(q) ==
    /\ request[q].op = "insert"
    /\ approvals' = Append(approvals, [type |-> request[q].type, user |-> request[q].user,
                                       snap |-> request[q].snap])
    /\ Answered(q)
    /\ UNCHANGED <<content, finalization, sealed, retrying, edits>>

\* (seeded fault: approvals of older content are accepted)
ApprovedStale ==
    \E i \in Latest("assessor"), j \in Latest("independent_reviewer") :
        approvals[i].user # approvals[j].user

\* build_finalization_readiness, the approvals' part.
Approved ==
    \E i \in Latest("assessor"), j \in Latest("independent_reviewer") :
        /\ approvals[i].user # approvals[j].user
        /\ approvals[i].snap = version /\ approvals[j].snap = version

FinalizeCheck(q, u) ==
    /\ Mutable
    /\ u \in Officer
    /\ ContentReady
    /\ Approved
    /\ Asks(q, [op |-> "finalize", found |-> version])
    /\ UNCHANGED <<content, gate, retrying, edits>>

FinalizeCommit(q) ==
    /\ request[q].op = "finalize"
    /\ finalization' = "finalized"
    /\ sealed' = request[q].found
    /\ Answered(q)
    /\ UNCHANGED <<content, approvals, retrying, edits>>

----------------------------------------------------------------------------
(* Retry of failed findings: the request, the worker and the retry engine. *)

Active == \E j \in DOMAIN jobs : jobs[j] \in {"pending", "running"}

\* api retry-failed: nothing is queued when nothing failed.
RetryCheck(q) ==
    /\ Mutable
    /\ Len(jobs) < MaxJobs
    /\ NotReviewed # {}
    /\ ~Active
    /\ Asks(q, [op |-> "retry"])
    /\ UNCHANGED <<content, gate, retrying, edits>>

RetryCommit(q) ==
    /\ request[q].op = "retry"
    /\ jobs' = Append(jobs, "pending")
    /\ Answered(q)
    /\ UNCHANGED <<content, gate, rollup, retry, tasks, worker, lost, crashes, faults, edits>>

AtRetry(pc) == retry.pc = pc
Bystanders == <<gate, request, edits, crashes, lost>>

\* (seeded fault: a running job is not queued again)
RecoverForgets ==
    /\ worker = "down"
    /\ worker' = "up"
    /\ lost' = {}
    /\ UNCHANGED <<content, gate, rollup, jobs, retry, tasks, faults, request, edits, crashes>>

\* _recover_interrupted_work.
Recover ==
    /\ worker = "down"
    /\ worker' = "up"
    /\ jobs' = [j \in DOMAIN jobs |-> IF jobs[j] = "running" THEN "pending" ELSE jobs[j]]
    /\ lost' = {}
    /\ UNCHANGED <<content, gate, rollup, retry, tasks, faults, request, edits, crashes>>

Crash ==
    /\ worker = "up" /\ crashes < MaxCrashes
    /\ crashes' = crashes + 1
    /\ worker' = "down"
    /\ retry' = NoRetry
    /\ tasks' = {}
    /\ UNCHANGED <<content, gate, rollup, jobs, lost, faults, request, edits>>

\* _claim_pending_retry: the oldest pending job.
Claim(j) ==
    /\ worker = "up" /\ AtRetry("idle")
    /\ jobs[j] = "pending"
    /\ \A k \in 1..(j - 1) : jobs[k] # "pending"
    /\ jobs' = [jobs EXCEPT ![j] = "running"]
    /\ retry' = [NoRetry EXCEPT !.pc = "claimed", !.job = j]
    /\ UNCHANGED <<content, rollup, tasks, worker, faults, Bystanders>>

\* (seeded fault: a finalized assessment is retried)
LoadUnguarded ==
    /\ AtRetry("claimed")
    /\ retry' = IF NotReviewed = {} THEN [retry EXCEPT !.pc = "done"]
                ELSE [retry EXCEPT !.pc = "reset", !.loaded = NotReviewed]
    /\ UNCHANGED <<content, rollup, jobs, tasks, worker, faults, Bystanders>>

\* retry_failed_findings loads the failed findings and keeps them to its end.
Load ==
    /\ AtRetry("claimed")
    /\ retry' = CASE ~Mutable -> [retry EXCEPT !.pc = "failing"]
                  [] Mutable /\ NotReviewed = {} -> [retry EXCEPT !.pc = "done"]
                  [] OTHER -> [retry EXCEPT !.pc = "reset", !.loaded = NotReviewed]
    /\ UNCHANGED <<content, rollup, jobs, tasks, worker, faults, Bystanders>>

\* (seeded fault: the snapshot does not cover activities)
ResetUnhashed ==
    /\ AtRetry("reset")
    /\ record' = [c \in Control |-> IF c \in retry.loaded
                                      THEN [record[c] EXCEPT !.activity = "planned"] ELSE record[c]]
    /\ tasks' = tasks \cup [job : {retry.job}, ctl : retry.loaded, stage : {"start"}]
    /\ retry' = [retry EXCEPT !.pc = "gather"]
    /\ UNCHANGED <<version, rollup, jobs, worker, faults, Bystanders>>

\* The EXAMINE activities go back to planned; then the gather starts its tasks.
Reset ==
    /\ AtRetry("reset")
    /\ record' = [c \in Control |-> IF c \in retry.loaded
                                      THEN [record[c] EXCEPT !.activity = "planned"] ELSE record[c]]
    /\ version' = version + 1
    /\ tasks' = tasks \cup [job : {retry.job}, ctl : retry.loaded, stage : {"start"}]
    /\ retry' = [retry EXCEPT !.pc = "gather"]
    /\ UNCHANGED <<rollup, jobs, worker, faults, Bystanders>>

Becomes(t, stage) == tasks' = (tasks \ {t}) \cup {[t EXCEPT !.stage = stage]}
TaskFrame == <<rollup, jobs, retry, worker, lost, faults, gate, edits, crashes>>

\* The pipeline deletes what it stored for the control; an edit of the dissent
\* that is in flight finds its row gone and fails.
Lose(c) == request' = [q \in Client |-> IF request[q].op = "dissent" /\ request[q].ctl = c
                                          THEN NoRequest ELSE request[q]]
ClearStage(t) ==
    /\ t \in tasks /\ t.stage = "start"
    /\ Write(t.ctl, [record[t.ctl] EXCEPT !.dissent = "none"])
    /\ Lose(t.ctl)
    /\ Becomes(t, "cleared")
    /\ UNCHANGED TaskFrame

\* The challenge pass stores concurrence or a dissent.
Challenge(t) ==
    /\ t \in tasks /\ t.stage = "cleared"
    /\ \E d \in {"none", "open"} : Write(t.ctl, [record[t.ctl] EXCEPT !.dissent = d])
    /\ Becomes(t, "challenged")
    /\ UNCHANGED <<TaskFrame, request>>

\* _retry_finding, after the model's answer: the finding is loaded again, its
\* review is cleared and, unless the answer could not be parsed, its status is
\* replaced, whatever either says by now.  A POA&M row is made where none is.
Answers == {"unparsed"} \cup (Statuses \ {"not_reviewed"})
Rewritten(r, s) ==
    [r EXCEPT !.review = "none",
              !.status = IF s = "unparsed" THEN @ ELSE s,
              !.poam = IF s = "non_compliant" /\ @ = "none" THEN "open" ELSE @]

WriteFinding(t) ==
    /\ t \in tasks /\ t.stage = "challenged"
    /\ \E s \in Answers \ {"unparsed"} : Write(t.ctl, Rewritten(record[t.ctl], s))
    /\ tasks' = tasks \ {t}
    /\ UNCHANGED <<TaskFrame, request>>

\* Without objectives, evidence packets or a usable gap analysis the pipeline
\* gives up, before or after it deleted what it had stored, and the plain prompt
\* answers.
WriteFallback(t) ==
    /\ t \in tasks /\ t.stage \in {"start", "cleared"}
    /\ \E s \in Answers :
         LET r == Rewritten(record[t.ctl], s)
         IN \/ Write(t.ctl, r) /\ UNCHANGED request
            \/ t.stage = "start" /\ Write(t.ctl, [r EXCEPT !.dissent = "none"]) /\ Lose(t.ctl)
    /\ tasks' = tasks \ {t}
    /\ UNCHANGED TaskFrame

Own == {t \in tasks : t.job = retry.job}

\* (seeded fault: whatever was retried is counted as assessed)
BuildRollupHopeful ==
    /\ AtRetry("gather") /\ Own = {}
    /\ rollup' = NotReviewed \ retry.loaded
    /\ retry' = [retry EXCEPT !.pc = "record"]
    /\ UNCHANGED <<content, jobs, tasks, worker, faults, Bystanders>>

\* The rollup is built in the session that holds the findings as first loaded:
\* those count as not_reviewed, whatever the tasks' own sessions wrote.
BuildRollup ==
    /\ AtRetry("gather") /\ Own = {}
    /\ rollup' = NotReviewed \cup retry.loaded
    /\ retry' = [retry EXCEPT !.pc = "record"]
    /\ UNCHANGED <<content, jobs, tasks, worker, faults, Bystanders>>

RecordExamine ==
    /\ AtRetry("record")
    /\ record' = [c \in Control |-> IF record[c].activity = "planned"
                                      THEN [record[c] EXCEPT !.activity = "performed"] ELSE record[c]]
    /\ version' = version + 1
    /\ retry' = [retry EXCEPT !.pc = "done"]
    /\ UNCHANGED <<rollup, jobs, tasks, worker, faults, Bystanders>>

\* _run_retry_job stores how the job ended.
End ==
    /\ retry.pc \in {"done", "failing"}
    /\ jobs' = [jobs EXCEPT ![retry.job] = IF retry.pc = "done" THEN "complete" ELSE "failed"]
    /\ retry' = NoRetry
    /\ UNCHANGED <<content, rollup, tasks, worker, faults, Bystanders>>

\* That commit is guarded by nothing: when it fails, the row goes on saying
\* "running" with no task behind it until the worker is started again.
EndLost ==
    /\ faults < MaxFaults
    /\ retry.pc \in {"done", "failing"}
    /\ faults' = faults + 1
    /\ lost' = lost \cup {retry.job}
    /\ retry' = NoRetry
    /\ UNCHANGED <<content, gate, rollup, jobs, tasks, worker, request, edits, crashes>>

\* A task raises, and so does the gather; the other tasks live on with sessions
\* of their own.
TaskRaises(t) ==
    /\ faults < MaxFaults
    /\ t \in tasks
    /\ faults' = faults + 1
    /\ tasks' = tasks \ {t}
    /\ retry' = IF t \in Own /\ AtRetry("gather") THEN [retry EXCEPT !.pc = "failing"] ELSE retry
    /\ UNCHANGED <<content, rollup, jobs, worker, Bystanders>>

\* Anything outside the tasks raises: missing scope, provider, database.
JobRaises ==
    /\ faults < MaxFaults
    /\ retry.pc \in {"claimed", "reset", "record"} \/ (AtRetry("gather") /\ Own = {})
    /\ faults' = faults + 1
    /\ retry' = [retry EXCEPT !.pc = "failing"]
    /\ UNCHANGED <<content, rollup, jobs, tasks, worker, Bystanders>>

----------------------------------------------------------------------------

Edit == \E q \in Client, op \in EditOps, c \in Control : EditCheck(q, op, c)
Approve == \E q \in Client, u \in User, type \in {"assessor", "independent_reviewer"} :
             ApproveCheck(q, u, type)
Answer(q) == \/ EditCommit(q) \/ ApproveRead(q) \/ ApproveCommit(q)
             \/ FinalizeCommit(q) \/ RetryCommit(q)
TaskStep == \E t \in tasks : ClearStage(t) \/ Challenge(t) \/ WriteFinding(t) \/ WriteFallback(t)
JobStep == Load \/ Reset \/ BuildRollup \/ RecordExamine \/ End

Next ==
    \/ Edit
    \/ Approve
    \/ \E q \in Client, u \in User : FinalizeCheck(q, u)
    \/ \E q \in Client : RetryCheck(q)
    \/ \E q \in Client : Answer(q)
    \/ Recover
    \/ Crash
    \/ \E j \in DOMAIN jobs : Claim(j)
    \/ JobStep
    \/ TaskStep
    \/ \E t \in tasks : TaskRaises(t)
    \/ JobRaises
    \/ EndLost

Spec == Init /\ [][Next]_vars

\* The event loops run what they started, the pool keeps polling and Docker
\* restarts the worker; nobody is obliged to ask for anything.
Fairness ==
    /\ WF_vars(Recover)
    /\ WF_vars(\E j \in DOMAIN jobs : Claim(j))
    /\ WF_vars(JobStep)
    /\ WF_vars(TaskStep)

FairSpec == Spec /\ Fairness
----------------------------------------------------------------------------
(* Properties.                                                             *)

Edits == [op : EditOps, ctl : Control, old : Records, new : Records]
Approval == [type : {"assessor", "independent_reviewer"}, user : User, snap : Nat]
Requests == Edits \cup [op : {"approve"}, type : {"assessor", "independent_reviewer"}, user : User]
                  \cup [op : {"insert"}, type : {"assessor", "independent_reviewer"}, user : User,
                        snap : Nat]
                  \cup [op : {"finalize"}, found : Nat]
                  \cup [op : {"retry"}]
Tasks == [job : Nat, ctl : Control, stage : {"start", "cleared", "challenged"}]

\* Every variable has its type: each column holds one of the values that the
\* handlers and the retry engine write, and the pool's slot is either empty or
\* works for a job that is in the table.
TypeOK ==
    /\ record \in [Control -> Records]
    /\ version \in Nat
    /\ approvals \in Seq(Approval)
    /\ finalization \in {"not_ready", "finalized"}
    /\ sealed \in Nat
    /\ rollup \subseteq Control
    /\ jobs \in Seq({"pending", "running", "complete", "failed"})
    /\ retry \in {NoRetry} \cup
                 [pc : {"claimed", "reset", "gather", "record", "done", "failing"},
                  job : DOMAIN jobs, loaded : SUBSET Control]
    /\ tasks \subseteq Tasks
    /\ worker \in {"up", "down"}
    /\ request \in [Client -> {NoRequest} \cup Requests]
    /\ lost \subseteq DOMAIN jobs
    /\ edits \in Nat /\ crashes \in Nat /\ faults \in Nat

\* Approvals by two people of the same content are in the table.
TwoApproved ==
    \E i, j \in DOMAIN approvals :
        /\ approvals[i].type = "assessor" /\ approvals[j].type = "independent_reviewer"
        /\ approvals[i].user # approvals[j].user
        /\ approvals[i].snap = approvals[j].snap

\* A finalized assessment carries an assessor's and an independent reviewer's
\* approval by two people, of one and the same content, whatever edits, retries
\* and further approvals came between the checks and the commits.
FinalizedByTwo == finalization = "finalized" => TwoApproved

\* "Assessor approval must be recorded first": every independent approval comes
\* after an assessor's approval by somebody else (create_approval), although the
\* check and the insert are two transactions.
IndependentSecond ==
    \A i \in DOMAIN approvals : approvals[i].type = "independent_reviewer" =>
        \E j \in 1..(i - 1) : approvals[j].type = "assessor" /\ approvals[j].user # approvals[i].user

\* What finalization certified was ready and approved: while the content is the
\* one that the finalizing request hashed, no blocker of the gate applies, so
\* the hash covers whatever the gate reads.
SealedIsReady ==
    finalization = "finalized" /\ version = sealed => ContentReady

\* The stored rollup may lag behind the findings, which people resolve and retries
\* answer without building it anew or from a session that holds old rows, but only
\* in one direction: every finding that has no answer is counted as not reviewed.
RollupHidesNone == NotReviewed \subseteq rollup

\* A finalized assessment with nothing in flight stays as it is for good: no
\* handler starts an edit or an approval, and a retry job still queued fails at
\* its first look.
Quiet ==
    /\ finalization = "finalized"
    /\ \A q \in Client : request[q].op \notin EditOps \cup {"approve", "insert"}
    /\ tasks = {}
    /\ retry.pc \in {"idle", "claimed", "done", "failing"}
QuietRecordStays ==
    [][Quiet => Quiet' /\ UNCHANGED <<content, approvals, finalization>>]_vars

\* Every retry job that is queued ends: complete or failed, through restarts of
\* the worker and exceptions of its tasks, unless storing its end failed and the
\* worker was not started again since.
JobsSettle ==
    \A j \in 1..(MaxJobs + Cardinality(Client)) :
        (j \in DOMAIN jobs /\ jobs[j] \in {"pending", "running"} /\ j \notin lost)
            ~> (j \in DOMAIN jobs /\ (jobs[j] \in {"complete", "failed"} \/ j \in lost))

\* "The finalized assessment record is immutable." (api/assessments.py:68)
FinalizedImmutable == [][finalization = "finalized" => UNCHANGED content]_vars
----------------------------------------------------------------------------
(* Inductive invariants, for the proofs.                                   *)

\* The strengthening of IndependentSecond and FinalizedByTwo: what a request
\* found when it checked stays true until it commits, because approvals are
\* only ever appended.
SignedInv ==
    /\ IndependentSecond
    /\ \A q \in Client :
         request[q].op = "insert" /\ request[q].type = "independent_reviewer" =>
             \E i \in DOMAIN approvals :
                 approvals[i].type = "assessor" /\ approvals[i].user # request[q].user
    /\ \A q \in Client : request[q].op = "finalize" => TwoApproved
    /\ finalization = "finalized" => TwoApproved

\* The strengthening of SealedIsReady: versions only grow, so a request or a
\* finalization that saw the content as it is now saw it ready.
SealedInv ==
    /\ SealedIsReady
    /\ sealed <= version
    /\ \A q \in Client : request[q].op = "finalize" =>
         /\ request[q].found <= version
         /\ request[q].found = version => ContentReady

\* The strengthening of RollupHidesNone: no edit that is under way takes an answer
\* away from a finding.
RollupInv ==
    /\ RollupHidesNone
    /\ \A q \in Client : request[q].op \in EditOps =>
         (request[q].new.status = "not_reviewed" => request[q].old.status = "not_reviewed")
=============================================================================
