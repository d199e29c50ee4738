--------------------------- MODULE AssessmentRun ---------------------------
(***************************************************************************)
(* Execution of assessments: the assessments table with its findings, the  *)
(* API handlers that start, pause, resume and delete an assessment, and    *)
(* the worker process whose pool claims pending assessments and runs them  *)
(* control by control (services/job_worker.py, services/assessment_engine  *)
(* .py, api/assessments.py).                                               *)
(*                                                                         *)
(* An action is one database transaction, or one read whose result the     *)
(* code keeps across an await.  Every handler of the API is check-then-    *)
(* commit in a READ COMMITTED session, so it takes two actions.            *)
(***************************************************************************)
EXTENDS Naturals, FiniteSets

CONSTANTS
    Assessment,   \* ids of assessments rows; the worker claims the lowest first
    Legacy,       \* rows written before approved plans existed
    Control,      \* the controls of the project's baseline
    SystemNA,     \* controls the system profile excludes (get_na_map)
    Slot,         \* settings.worker_assessment_slots
    Client,       \* API requests that may be in flight together
    BatchSize,    \* concurrency * 2 in _run
    MaxCrashes,   \* bound: how often the worker process dies
    MaxFaults,    \* bound: how many exceptions strike a run
    MaxPauses     \* bound: how many pause requests the users make

ASSUME AssessmentAssumption == Assessment \subseteq Nat \ {0} /\ Legacy \subseteq Assessment
ASSUME ControlAssumption == IsFiniteSet(Control) /\ SystemNA \subseteq Control
ASSUME BoundsAssumption ==
    /\ BatchSize \in Nat \ {0}
    /\ MaxCrashes \in Nat /\ MaxFaults \in Nat /\ MaxPauses \in Nat

VARIABLES
    status,      \* Assessment.status; "none" before the INSERT, "deleted" after the DELETE
    findings,    \* the controls that have a ControlFinding row
    surplus,     \* how many rows there are beyond one per control
    examined,    \* the controls whose EXAMINE activity is performed
    rollup,      \* AssessmentRollup.summary_json.counts.total_controls
    worker,      \* the worker process: "up" or "down"
    run,         \* what each slot of the assessment pool executes
    orphan,      \* assess_one tasks that outlive the gather that awaited them
    request,     \* the API request each client has checked and not yet committed
    crashes, faults, pauses,
    overlapped,  \* history: assessments claimed while an earlier task of theirs lived
    lost         \* history: assessments whose failure could not be recorded

table == <<status, findings, surplus, examined, rollup>>
history == <<overlapped, lost>>
bounds == <<crashes, faults, pauses>>
vars == <<table, worker, run, orphan, request, bounds, history>>

Statuses == {"none", "pending", "running", "paused", "complete", "failed", "deleted"}

NoAssessment == 0
NoSlotWork == [pc |-> "idle", asm |-> NoAssessment, seen |-> "none", carry |-> {},
               na |-> {}, todo |-> {}, batch |-> {}]
NoRequest == [op |-> "none", asm |-> NoAssessment]

Rows(a) == Cardinality(findings[a]) + surplus[a]

\* Some task of the worker still works for the assessment.
Busy(a) == \/ \E s \in Slot : run[s].asm = a
           \/ \E c \in Control : orphan[a][c] > 0

Init ==
    /\ status \in [Assessment -> Statuses]
    /\ \A a \in Assessment :
         status[a] \in IF a \in Legacy THEN {"pending", "running", "paused"} ELSE {"none"}
    /\ findings = [a \in Assessment |-> {}]
    /\ surplus = [a \in Assessment |-> 0]
    /\ examined = [a \in Assessment |-> {}]
    /\ rollup = [a \in Assessment |-> 0]
    /\ worker = "down"
    /\ run = [s \in Slot |-> NoSlotWork]
    /\ orphan = [a \in Assessment |-> [c \in Control |-> 0]]
    /\ request = [q \in Client |-> NoRequest]
    /\ crashes = 0 /\ faults = 0 /\ pauses = 0
    /\ overlapped = {}
    /\ lost = {}

----------------------------------------------------------------------------
(* The API process.                                                        *)

\* start_assessment: the row and its approved plan are one commit.
Start(a) ==
    /\ status[a] = "none"
    /\ status' = [status EXCEPT ![a] = "pending"]
    /\ UNCHANGED <<findings, surplus, examined, rollup, worker, run, orphan,
                   request, bounds, history>>

Ask(q, op, a) ==
    /\ request[q] = NoRequest
    /\ request' = [request EXCEPT ![q] = [op |-> op, asm |-> a]]
    /\ UNCHANGED <<table, worker, run, orphan, crashes, faults, history>>

PauseCheck(q, a) ==
    /\ status[a] = "running"
    /\ pauses < MaxPauses
    /\ pauses' = pauses + 1
    /\ Ask(q, "pause", a)

ResumeCheck(q, a) ==
    /\ status[a] = "paused"
    /\ Ask(q, "resume", a)
    /\ UNCHANGED pauses

DeleteCheck(q, a) ==
    /\ status[a] \notin {"none", "running", "deleted"}
    /\ Ask(q, "delete", a)
    /\ UNCHANGED pauses

\* The UPDATE and the DELETE select the row by id alone: what the handler
\* checked may no longer hold.  On a deleted row they fail and change nothing.
Written(op) == CASE op = "pause"  -> "paused"
                 [] op = "resume" -> "pending"
                 [] op = "delete" -> "deleted"

Commit(q) ==
    /\ request[q] # NoRequest
    /\ request' = [request EXCEPT ![q] = NoRequest]
    /\ LET a == request[q].asm
           op == request[q].op
           gone == op = "delete" /\ status[a] # "deleted"
           Drop(f, empty) == IF gone THEN [f EXCEPT ![a] = empty] ELSE f
       IN /\ status' = IF status[a] = "deleted" THEN status
                       ELSE [status EXCEPT ![a] = Written(op)]
          /\ findings' = Drop(findings, {})
          /\ surplus' = Drop(surplus, 0)
          /\ examined' = Drop(examined, {})
          /\ rollup' = Drop(rollup, 0)
    /\ UNCHANGED <<worker, run, orphan, bounds, history>>

----------------------------------------------------------------------------
(* The worker process: start-up recovery and claims.                       *)

At(s, pc) == run[s].pc = pc
Become(s, work) == run' = [run EXCEPT ![s] = work]
Goto(s, pc) == Become(s, [run[s] EXCEPT !.pc = pc])
Release(s) == Become(s, NoSlotWork)
Present(s) == status[run[s].asm] # "deleted"
Beside == <<worker, request, bounds, history>>

\* (seeded fault: running assessments are not queued again)
RecoverForgets ==
    /\ worker = "down"
    /\ worker' = "up"
    /\ UNCHANGED <<table, run, orphan, request, bounds, history>>

\* _recover_interrupted_work, one commit before the pools start.
Recover ==
    /\ worker = "down"
    /\ worker' = "up"
    /\ status' = [a \in Assessment |->
                    CASE status[a] \in {"pending", "running"} /\ a \in Legacy -> "failed"
                      [] status[a] = "running" /\ a \notin Legacy -> "pending"
                      [] OTHER -> status[a]]
    /\ UNCHANGED <<findings, surplus, examined, rollup, run, orphan, request,
                   bounds, history>>

\* The process dies: its tasks are gone, what they committed stays.
Crash ==
    /\ worker = "up"
    /\ crashes < MaxCrashes
    /\ crashes' = crashes + 1
    /\ worker' = "down"
    /\ run' = [s \in Slot |-> NoSlotWork]
    /\ orphan' = [a \in Assessment |-> [c \in Control |-> 0]]
    /\ UNCHANGED <<table, request, faults, pauses, history>>

Claimable(a) == status[a] = "pending" /\ a \notin Legacy

\* _claim_pending_assessment: FOR UPDATE SKIP LOCKED, lowest id first.
Claim(s, a) ==
    /\ worker = "up"
    /\ run[s].pc = "idle"
    /\ Claimable(a)
    /\ \A b \in Assessment : Claimable(b) => a <= b
    /\ status' = [status EXCEPT ![a] = "running"]
    /\ Become(s, [NoSlotWork EXCEPT !.pc = "claimed", !.asm = a])
    /\ overlapped' = IF Busy(a) THEN overlapped \cup {a} ELSE overlapped
    /\ UNCHANGED <<findings, surplus, examined, rollup, worker, orphan, request,
                   bounds, lost>>

----------------------------------------------------------------------------
(* A run: run_assessment and _run.                                         *)

\* New ControlFinding rows, for the controls of C.  The display counter
\* controls_complete is left out: runs and reads alike write it, nothing decides on it.
Insert(a, C) ==
    /\ findings' = [findings EXCEPT ![a] = @ \cup C]
    /\ surplus' = [surplus EXCEPT ![a] = @ + Cardinality(C \cap findings[a])]

\* run_assessment loads the row: it may have been paused or deleted meanwhile.
Load(s) ==
    /\ At(s, "claimed")
    /\ IF Present(s)
         THEN Become(s, [run[s] EXCEPT !.pc = "loaded", !.seen = status[run[s].asm]])
         ELSE Release(s)
    /\ UNCHANGED <<table, orphan, Beside>>

\* (seeded fault: a run starts over and removes what earlier runs stored)
BeginAfresh(s) ==
    /\ At(s, "loaded") /\ Present(s)
    /\ status' = [status EXCEPT ![run[s].asm] = "running"]
    /\ findings' = [findings EXCEPT ![run[s].asm] = {}]
    /\ surplus' = [surplus EXCEPT ![run[s].asm] = 0]
    /\ Goto(s, "prepare")
    /\ UNCHANGED <<examined, rollup, orphan, Beside>>

\* assessment.status = "running": the session issues an UPDATE only for a
\* value that differs from the one it loaded.
Begin(s) ==
    /\ At(s, "loaded") /\ Present(s)
    /\ status' = IF run[s].seen = "running" THEN status
                 ELSE [status EXCEPT ![run[s].asm] = "running"]
    /\ Goto(s, "prepare")
    /\ UNCHANGED <<findings, surplus, examined, rollup, orphan, Beside>>

\* The sets of findings that can be carried forward: some findings of another
\* complete assessment, or none.  The option, the compatibility of the plans,
\* the finding's status and the age of its evidence decide which.
Carriable(a) ==
    {{}} \cup UNION {SUBSET (findings[p] \ (findings[a] \cup SystemNA)) :
                       p \in {p \in Assessment : p # a /\ status[p] = "complete"}}

\* (seeded fault: no resume support, every control is assessed again)
ReadNothing(s) ==
    /\ At(s, "prepare") /\ Present(s)
    /\ Become(s, [run[s] EXCEPT !.pc = "carry", !.na = SystemNA, !.todo = Control \ SystemNA])
    /\ UNCHANGED <<table, orphan, Beside>>

\* completed_ids, carry_forward_ids and controls_to_run are computed from the
\* rows there are now and kept for the rest of the run.
ReadFindings(s) ==
    /\ At(s, "prepare") /\ Present(s)
    /\ LET a == run[s].asm
           done == findings[a]
       IN \E carry \in Carriable(a) :
            Become(s, [run[s] EXCEPT !.pc = "carry",
                                     !.carry = carry,
                                     !.na = SystemNA \ done,
                                     !.todo = Control \ (done \cup carry \cup SystemNA)])
    /\ UNCHANGED <<table, orphan, Beside>>

\* All carried findings are one commit.
CarryForward(s) ==
    /\ At(s, "carry") /\ Present(s)
    /\ Insert(run[s].asm, run[s].carry)
    /\ Become(s, [run[s] EXCEPT !.pc = "na", !.carry = {}])
    /\ UNCHANGED <<status, examined, rollup, orphan, Beside>>

\* One commit per control that the system profile excludes.
InsertNA(s, c) ==
    /\ At(s, "na") /\ Present(s)
    /\ c \in run[s].na
    /\ Insert(run[s].asm, {c})
    /\ Become(s, [run[s] EXCEPT !.na = @ \ {c}])
    /\ UNCHANGED <<status, examined, rollup, orphan, Beside>>

\* The excluded controls are stored, and the batches begin.
BeginBatches(s) ==
    /\ At(s, "na") /\ Present(s)
    /\ run[s].na = {}
    /\ Goto(s, "batch")
    /\ UNCHANGED <<table, orphan, Beside>>

IsBatch(B, todo) ==
    \/ Cardinality(todo) <= BatchSize /\ B = todo
    \/ Cardinality(todo) > BatchSize /\ Cardinality(B) = BatchSize

\* (seeded fault: the loop goes on when the assessment is paused)
NextBatchUnchecked(s) ==
    /\ At(s, "batch") /\ Present(s)
    /\ run[s].batch = {} /\ run[s].todo # {}
    /\ \E B \in SUBSET run[s].todo :
         /\ IsBatch(B, run[s].todo)
         /\ Become(s, [run[s] EXCEPT !.batch = B, !.todo = @ \ B])
    /\ UNCHANGED <<table, orphan, Beside>>

\* (seeded fault: a pause breaks out of the loop instead of returning)
NextBatchBreaks(s) ==
    /\ At(s, "batch") /\ Present(s)
    /\ run[s].batch = {} /\ run[s].todo # {}
    /\ IF status[run[s].asm] = "paused"
         THEN Become(s, [run[s] EXCEPT !.todo = {}])
         ELSE \E B \in SUBSET run[s].todo :
                /\ IsBatch(B, run[s].todo)
                /\ Become(s, [run[s] EXCEPT !.batch = B, !.todo = @ \ B])
    /\ UNCHANGED <<table, orphan, Beside>>

\* Between two batches the row is refreshed, and a pause stops the run.
NextBatch(s) ==
    /\ At(s, "batch") /\ Present(s)
    /\ run[s].batch = {} /\ run[s].todo # {}
    /\ IF status[run[s].asm] = "paused"
         THEN Release(s)
         ELSE \E B \in SUBSET run[s].todo :
                /\ IsBatch(B, run[s].todo)
                /\ Become(s, [run[s] EXCEPT !.batch = B, !.todo = @ \ B])
    /\ UNCHANGED <<table, orphan, Beside>>

\* _assess_control: one finding, whichever branch (override, manual status,
\* model) decided what it says.
AssessControl(s, c) ==
    /\ At(s, "batch") /\ Present(s)
    /\ c \in run[s].batch
    /\ Insert(run[s].asm, {c})
    /\ Become(s, [run[s] EXCEPT !.batch = @ \ {c}])
    /\ UNCHANGED <<status, examined, rollup, orphan, Beside>>

\* After the last batch the row is refreshed; paused and failed stop the run.
FinalCheck(s) ==
    /\ At(s, "batch") /\ Present(s)
    /\ run[s].batch = {} /\ run[s].todo = {}
    /\ IF status[run[s].asm] \in {"paused", "failed"}
         THEN Release(s)
         ELSE Become(s, [run[s] EXCEPT !.pc = "rollup", !.seen = status[run[s].asm]])
    /\ UNCHANGED <<table, orphan, Beside>>

\* build_assessment_rollup commits by itself.
Rollup(s) ==
    /\ At(s, "rollup") /\ Present(s)
    /\ rollup' = [rollup EXCEPT ![run[s].asm] = Rows(run[s].asm)]
    /\ Goto(s, "finish")
    /\ UNCHANGED <<status, findings, surplus, examined, orphan, Beside>>

\* The performed activities and the status "complete" are one commit.
Finish(s) ==
    /\ At(s, "finish") /\ Present(s)
    /\ LET a == run[s].asm
       IN /\ examined' = [examined EXCEPT ![a] = @ \cup findings[a]]
          /\ status' = IF run[s].seen = "complete" THEN status
                       ELSE [status EXCEPT ![a] = "complete"]
    /\ Release(s)
    /\ UNCHANGED <<findings, surplus, rollup, orphan, Beside>>

----------------------------------------------------------------------------
(* Failures of a run.                                                      *)

InRun == {"prepare", "carry", "na", "batch", "rollup", "finish"}

\* The gather raises the first exception and does not cancel the siblings.
\* The rollback that follows expires the session's objects, so only a sibling
\* already writing its finding (the set kept) still gets to its commit.
Abort(s, kept) ==
    /\ Become(s, [NoSlotWork EXCEPT !.pc = "error", !.asm = run[s].asm])
    /\ orphan' = [orphan EXCEPT ![run[s].asm] =
                    [c \in Control |-> @[c] + (IF c \in kept THEN 1 ELSE 0)]]

\* An exception inside _run: invalid frozen scope, provider, database.
RunFails(s) ==
    /\ run[s].pc \in InRun /\ Present(s)
    /\ faults < MaxFaults
    /\ faults' = faults + 1
    /\ IF run[s].batch = {}
         THEN Abort(s, {})
         ELSE \E c \in run[s].batch : \E kept \in SUBSET (run[s].batch \ {c}) : Abort(s, kept)
    /\ UNCHANGED <<table, worker, request, crashes, pauses, history>>

\* The row is gone: the next write of the run or the next refresh raises.
RowVanished(s) ==
    /\ run[s].pc \in InRun \cup {"loaded"} /\ ~Present(s)
    /\ Abort(s, {})
    /\ UNCHANGED <<table, Beside>>

\* The handler reads the status in a fresh session.
ErrorRead(s) ==
    /\ At(s, "error")
    /\ IF status[run[s].asm] \in {"paused", "deleted"}
         THEN Release(s)
         ELSE Become(s, [run[s] EXCEPT !.pc = "failing", !.seen = status[run[s].asm]])
    /\ UNCHANGED <<table, orphan, Beside>>

\* (seeded fault: the failure is rolled back with the run's session)
ErrorForgotten(s) ==
    /\ At(s, "failing")
    /\ Release(s)
    /\ UNCHANGED <<table, orphan, Beside>>

ErrorWrite(s) ==
    /\ At(s, "failing")
    /\ LET a == run[s].asm
       IN status' = IF status[a] = "deleted" \/ run[s].seen = "failed" THEN status
                    ELSE [status EXCEPT ![a] = "failed"]
    /\ Release(s)
    /\ UNCHANGED <<findings, surplus, examined, rollup, orphan, Beside>>

\* A database error before the try block, or in the handler itself, where
\* "except Exception: pass" swallows it: the task ends and the row stays as it is.
FailureLost(s) ==
    /\ run[s].pc \in {"claimed", "loaded", "error", "failing"}
    /\ faults < MaxFaults
    /\ faults' = faults + 1
    /\ lost' = lost \cup {run[s].asm}
    /\ Release(s)
    /\ UNCHANGED <<table, worker, orphan, request, crashes, pauses, overlapped>>

\* An orphaned task commits its finding, or dies with nobody awaiting it.
OrphanCommit(a, c) ==
    /\ orphan[a][c] > 0 /\ status[a] # "deleted"
    /\ orphan' = [orphan EXCEPT ![a][c] = @ - 1]
    /\ Insert(a, {c})
    /\ UNCHANGED <<status, examined, rollup, run, Beside>>

OrphanDies(a, c) ==
    /\ orphan[a][c] > 0
    /\ orphan' = [orphan EXCEPT ![a][c] = @ - 1]
    /\ UNCHANGED <<table, run, Beside>>

----------------------------------------------------------------------------

RunStep(s) ==
    \/ Load(s) \/ Begin(s) \/ ReadFindings(s) \/ CarryForward(s)
    \/ \E c \in Control : InsertNA(s, c)
    \/ BeginBatches(s) \/ NextBatch(s)
    \/ \E c \in Control : AssessControl(s, c)
    \/ FinalCheck(s) \/ Rollup(s) \/ Finish(s)
    \/ RowVanished(s) \/ ErrorRead(s) \/ ErrorWrite(s)

Next ==
    \/ \E a \in Assessment : Start(a)
    \/ \E q \in Client, a \in Assessment :
         PauseCheck(q, a) \/ ResumeCheck(q, a) \/ DeleteCheck(q, a)
    \/ \E q \in Client : Commit(q)
    \/ Recover
    \/ Crash
    \/ \E s \in Slot, a \in Assessment : Claim(s, a)
    \/ \E s \in Slot : RunStep(s)
    \/ \E s \in Slot : RunFails(s) \/ FailureLost(s)
    \/ \E a \in Assessment, c \in Control : OrphanCommit(a, c) \/ OrphanDies(a, c)

Spec == Init /\ [][Next]_vars

\* The event loop runs every task, the pool keeps polling, requests are
\* answered and Docker restarts the worker (restart: unless-stopped); nobody
\* is obliged to start, pause, resume or delete, and nothing has to fail.
Fairness ==
    /\ WF_vars(Recover)
    /\ \A q \in Client : WF_vars(Commit(q))
    /\ \A s \in Slot : WF_vars(RunStep(s))
    /\ WF_vars(\E s \in Slot, a \in Assessment : Claim(s, a))

FairSpec == Spec /\ Fairness

----------------------------------------------------------------------------
(* Properties.                                                             *)

SlotWork == [pc : {"claimed", "loaded", "error", "failing"} \cup InRun, asm : Assessment,
             seen : Statuses, carry : SUBSET Control, na : SUBSET Control,
             todo : SUBSET Control, batch : SUBSET Control]
Requests == [op : {"pause", "resume", "delete"}, asm : Assessment]

\* Every variable has its type: the status column holds one of the values the
\* handlers write, and a slot that is not idle works for one assessment on
\* controls of the baseline.
TypeOK ==
    /\ status \in [Assessment -> Statuses]
    /\ findings \in [Assessment -> SUBSET Control]
    /\ surplus \in [Assessment -> Nat]
    /\ examined \in [Assessment -> SUBSET Control]
    /\ rollup \in [Assessment -> Nat]
    /\ worker \in {"up", "down"}
    /\ run \in [Slot -> {NoSlotWork} \cup SlotWork]
    /\ orphan \in [Assessment -> [Control -> Nat]]
    /\ request \in [Client -> {NoRequest} \cup Requests]
    /\ crashes \in Nat /\ faults \in Nat /\ pauses \in Nat
    /\ overlapped \subseteq Assessment
    /\ lost \subseteq Assessment

\* An assessment that shows "complete" has a finding for every control of the
\* baseline and every document examination recorded, whatever pauses, resumes,
\* crashes, carried findings, excluded controls, failures and second runs led
\* there: completed_ids makes a resumed run skip only what is really stored.
CompleteCoversBaseline ==
    \A a \in Assessment :
        status[a] = "complete" => findings[a] = Control /\ examined[a] = Control

\* "Every selected control must have one persisted finding": an assessment that
\* was never claimed while an earlier task of it was alive has no control with
\* two rows, and a completed one has a rollup over exactly its findings.
FindingsExactUnlessOverlapped ==
    \A a \in Assessment \ overlapped :
        /\ surplus[a] = 0
        /\ status[a] = "complete" => rollup[a] = Rows(a)

\* As shipped (one slot), and as long as no exception struck a run, no control
\* ever gets a second row, through any pauses, resumes and worker restarts
\* ("A worker restart should resume durable jobs rather than silently changing
\* scope or creating duplicate findings", docs/ARCHITECTURE.md:47).
OneSlotNoDuplicates ==
    (\A s, t \in Slot : s = t) /\ faults = 0 => \A a \in Assessment : surplus[a] = 0

\* While the worker is up, an assessment shown as running has a task that works
\* for it, unless the failure of its task could not be recorded: neither start-
\* up recovery nor a lost race leaves a row that shows progress nobody makes.
RunningHasTask ==
    worker = "up" =>
        \A a \in Assessment \ lost :
            status[a] = "running" => \E s \in Slot : run[s].asm = a

\* Outside a run's first two steps and its last two, a pause holds: if every
\* task of a paused assessment is in the batch loop, the next step leaves it
\* paused unless a user resumes or deletes it, and no further control is
\* started ("so we can check for pause between each batch").
PauseHolds ==
    [][\A a \in Assessment :
          (status[a] = "paused" /\ \A s \in Slot : run[s].asm = a => At(s, "batch"))
          => /\ status'[a] \in {"paused", "pending", "deleted"}
             /\ status'[a] = "paused" =>
                   \A s \in Slot : run[s].asm = a /\ run'[s].asm = a
                                   => run'[s].batch \subseteq run[s].batch]_vars

\* A queued or running assessment with an approved plan comes to rest: it
\* completes, fails, is paused or is deleted, unless its failure went unrecorded.
Settled(a) == status[a] \in {"paused", "complete", "failed", "deleted"} \/ a \in lost
QueuedSettles ==
    \A a \in Assessment \ Legacy : (status[a] \in {"pending", "running"}) ~> Settled(a)

\* What every other part reads from an assessment - whether it is complete and
\* which controls have findings - is a ledger that only grows and is published
\* only when it covers the baseline.
Shown(st) == CASE st = "complete" -> "complete"
               [] st = "deleted"  -> "gone"
               [] OTHER           -> "open"
Ledger == INSTANCE FindingLedger WITH
            shown <- [a \in Assessment |-> Shown(status[a])],
            held <- findings
LedgerSpec == Ledger!Spec
----------------------------------------------------------------------------
(* Inductive invariants, for the proofs.                                   *)

\* What a run still has to store.
Left(r) == r.carry \cup r.na \cup r.todo \cup r.batch

\* The stages of a run empty its sets in order.
Staged(r) ==
    /\ r.pc \in {"idle", "claimed", "loaded", "prepare", "error", "failing"} => Left(r) = {}
    /\ r.pc \in {"na", "batch", "rollup", "finish"} => r.carry = {}
    /\ r.pc \in {"batch", "rollup", "finish"} => r.na = {}
    /\ r.pc \in {"rollup", "finish"} => Left(r) = {}

\* Once a run has read the findings, what is stored and what it still has to
\* store make up the baseline.
Covers(r) ==
    r.pc \in InRun \ {"prepare"} /\ status[r.asm] # "deleted"
    => Control \subseteq findings[r.asm] \cup Left(r)

\* The strengthening of CompleteCoversBaseline that every step preserves: no
\* control falls between what a run skips as already stored and what it will
\* store itself, wherever pauses, crashes and deletions interrupt it.
CoverInv ==
    /\ CompleteCoversBaseline
    /\ \A s \in Slot : Staged(run[s]) /\ Covers(run[s])

\* The assessment's only task holds disjoint sets of controls without a finding.
ExactRun(r, a) ==
    /\ r.pc \in {"claimed", "loaded"} \cup InRun => \A c \in Control : orphan[a][c] = 0
    /\ Left(r) \cap findings[a] = {}
    /\ r.carry \cap (r.na \cup r.todo \cup r.batch) = {}
    /\ r.na \cap (r.todo \cup r.batch) = {}
    /\ r.todo \cap r.batch = {}
    /\ r.pc = "finish" /\ status[a] # "deleted" => rollup[a] = Rows(a)

\* What the assessment shows is exact: one row per control, and a rollup of them.
Counted(a) ==
    /\ surplus[a] = 0
    /\ status[a] = "complete" => rollup[a] = Rows(a)

\* It has one task at most, and an orphan only for a control without a finding.
Tasks(a) ==
    /\ \A s, t \in Slot : run[s].asm = a /\ run[t].asm = a => s = t
    /\ \A c \in Control : orphan[a][c] \in {0, 1} /\ (orphan[a][c] = 1 => c \notin findings[a])
    /\ \A s \in Slot : run[s].asm = a => ExactRun(run[s], a)

\* The strengthening of FindingsExactUnlessOverlapped: without an overlap there
\* is one task per assessment, no orphan beside a live run, and nobody is about
\* to store a control that is stored.
ExactInv == \A a \in Assessment \ overlapped : Counted(a) /\ Tasks(a)

\* With one slot, only an exception in a batch lets two tasks meet.
OneSlotInv ==
    faults = 0 =>
        /\ \A a \in Assessment, c \in Control : orphan[a][c] = 0
        /\ (\A s, t \in Slot : s = t) => overlapped = {}

\* A task that will not leave the assessment running when it ends: what it read
\* is not what it is about to write.
WillRest(r) ==
    /\ r.pc \in {"rollup", "finish"} => r.seen # "complete"
    /\ r.pc = "failing" => r.seen # "failed"

\* The strengthening of RunningHasTask: of the tasks of a running assessment, the one
\* that marked it last is among those that will not leave it so.
RunningInv ==
    worker = "up" =>
        \A a \in Assessment \ lost :
            status[a] = "running" => \E s \in Slot : run[s].asm = a /\ WillRest(run[s])
============================================================================
