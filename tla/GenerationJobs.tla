--------------------------- MODULE GenerationJobs ---------------------------
(***************************************************************************)
(* Jobs that write documents: the test-dataset jobs of a project and the   *)
(* remediation reports of an assessment, the requests that queue, cancel   *)
(* and delete them, the two pools of the worker that run them, and the     *)
(* documents they leave in the library (services/test_dataset_generator.py,*)
(* services/remediation_service.py, services/job_worker.py,                *)
(* api/test_dataset.py, api/remediation.py).                               *)
(*                                                                         *)
(* A generated document has a file name made from what it is about, and a  *)
(* save removes the document that had the name: so a name has one document *)
(* and the model keeps whose it is.  A control has one document where the  *)
(* code writes up to four.  An action is one transaction.                  *)
(***************************************************************************)
EXTENDS Naturals, FiniteSets

CONSTANTS
    Job,           \* ids of rows, in order of creation: of both tables
    Item,          \* bundles of a test package, controls with gaps, families of a guide
    Demands,       \* bounds: what may happen: jobs, plans of each kind, cancel requests and
                   \* troubles (deaths of the worker, exceptions, saves that fail)
    DatasetSlots,  \* settings.worker_test_dataset_slots
    ReportSlots,   \* settings.worker_report_slots
    Workers,       \* settings.remediation_parallel_controls
    Interval       \* PARTIAL_SAVE_EVERY_BUNDLES

ASSUME JobAssumption ==
    /\ Job \subseteq Nat \ {0} /\ IsFiniteSet(Job)
    /\ Item \subseteq Nat /\ IsFiniteSet(Item)
Kinds == {"dataset", "guide", "artifacts", "test_dataset"}
Asks == [jobs : SUBSET Job, cancels : Nat, troubles : Nat,
         plans : [Kinds -> SUBSET SUBSET Item]]
ASSUME DemandAssumption == Demands \subseteq Asks
ASSUME SizeAssumption == {DatasetSlots, ReportSlots, Workers, Interval} \subseteq Nat \ {0}

VARIABLES
    demand,    \* bound: what is left of a member of Demands
    job,       \* the rows of test_dataset_jobs and remediation_reports
    docs,      \* the generated documents of the library: whose the document of a name is
    proof,     \* the assessments that artifact reports create to prove a control
    task,      \* the coroutine that runs a job, with its local variables
    control,   \* the coroutine of each control of an artifacts report
    worker,    \* the worker process: "up" or "down"
    inserts,   \* requests that have superseded the other jobs and not yet inserted their own
    cancelling,\* jobs whose cancel request has read the row and not yet written it
    late,      \* history: documents a job stored while it was not asked to run
    broken,    \* history: jobs with an exception since the worker started
    stopped    \* history: jobs ever cancelled, superseded, deleted or ended by an exception

requests == <<inserts, cancelling>>
history == <<late, broken, stopped>>
vars == <<demand, job, docs, proof, task, control, worker, requests, history>>

NoJob == 0
Files == {1, 2}     \* of a guide: the Word document and the action tracker
Name == ({"dataset", "artifacts"} \X Item) \cup ({"guide"} \X Files)

NoRow == [kind |-> "none", status |-> "none", plan |-> {}, listed |-> {}, entries |-> {},
          errors |-> {}]
NoTask == [pc |-> "free", prev |-> NoJob, clear |-> {}, listed |-> {}, entries |-> {},
           errors |-> {}, tried |-> {}, since |-> 0, repair |-> FALSE]
NoControl == [step |-> "none", attempt |-> 1, stored |-> FALSE, proven |-> FALSE]

Asked(j) == job[j].status \in {"pending", "running"}
Ended(j) == job[j].status \in {"complete", "failed", "cancelled"}
Exists(j) == job[j].status # "gone"
Dataset(j) == job[j].kind = "dataset"

Init ==
    /\ demand \in Demands
    /\ job = [j \in Job |-> NoRow]
    /\ docs = [n \in Name |-> NoJob]
    /\ proof = [j \in Job |-> [i \in Item |-> "none"]]
    /\ task = [j \in Job |-> NoTask]
    /\ control = [j \in Job |-> [i \in Item |-> NoControl]]
    /\ worker = "down"
    /\ inserts = 0 /\ cancelling = {}
    /\ late = [j \in Job |-> 0]
    /\ broken = {} /\ stopped = {}

running == <<proof, task, control, worker>>

----------------------------------------------------------------------------
(* Requests.                                                               *)

Unused == {j \in demand.jobs : job[j].status = "none"}
Insert(kind, plan) ==
    \E j \in Unused :
        /\ \A k \in Unused : j <= k
        /\ job' = [job EXCEPT ![j] = [NoRow EXCEPT !.kind = kind, !.status = "pending",
                                                  !.plan = plan]]

\* start_guide, start_artifacts, start_test_dataset.
StartReport(kind, plan) ==
    /\ Cardinality(Unused) > inserts
    /\ Insert(kind, plan)
    /\ UNCHANGED <<docs, running, requests, demand, history>>

\* start_generation: one transaction cancels what is queued or running ...
Supersede ==
    LET old == {j \in Job : Dataset(j) /\ Asked(j)}
    IN /\ demand.plans["dataset"] # {}
       /\ Cardinality(Unused) > inserts
       /\ inserts' = inserts + 1
       /\ job' = [j \in Job |-> IF j \in old THEN [job[j] EXCEPT !.status = "cancelled"] ELSE job[j]]
       /\ stopped' = stopped \cup old
       /\ UNCHANGED <<docs, running, cancelling, demand, late, broken>>

\* ... and the next one inserts the new job.
InsertDataset(plan) ==
    /\ inserts > 0
    /\ inserts' = inserts - 1
    /\ Insert("dataset", plan)
    /\ UNCHANGED <<docs, running, cancelling, demand, history>>

\* cancel_job, cancel_report: the status is read, then written without a condition.
CancelCheck(j) ==
    /\ demand.cancels > 0
    /\ demand' = [demand EXCEPT !.cancels = @ - 1]
    /\ Asked(j)
    /\ cancelling' = cancelling \cup {j}
    /\ UNCHANGED <<job, docs, running, inserts, history>>

CancelCommit(j) ==
    /\ j \in cancelling
    /\ cancelling' = cancelling \ {j}
    /\ job' = IF Exists(j)
              THEN [job EXCEPT ![j].status = IF Dataset(j) THEN "cancelled" ELSE "failed"]
              ELSE job
    /\ stopped' = stopped \cup {j}
    /\ UNCHANGED <<docs, running, inserts, demand, late, broken>>

\* The documents in a list, as far as they are still those that were listed.
Remove(j, names) ==
    docs' = [n \in Name |-> IF docs[n] = j /\ n \in names THEN NoJob ELSE docs[n]]

\* delete_job takes the listed documents with it; reset_report deletes only the row.
\* The plan stays: a coroutine that still runs has it in a local variable.
Delete(j) ==
    /\ Ended(j)
    /\ IF Dataset(j) THEN Remove(j, job[j].listed) ELSE UNCHANGED docs
    /\ job' = [job EXCEPT ![j] = [NoRow EXCEPT !.kind = job[j].kind, !.plan = job[j].plan,
                                              !.status = "gone"]]
    /\ stopped' = stopped \cup {j}
    /\ UNCHANGED <<running, requests, demand, late, broken>>

\* delete_all_autogenerated_docs of the assessment.
DeleteDocs ==
    /\ docs' = [n \in Name |-> IF n[1] = "dataset" THEN docs[n] ELSE NoJob]
    /\ docs' # docs
    /\ UNCHANGED <<job, running, requests, demand, history>>

----------------------------------------------------------------------------
(* The worker.                                                             *)

\* (seeded fault: the recovery queues the jobs and leaves the assessments)
RecoverJobsOnly ==
    /\ worker = "down"
    /\ worker' = "up"
    /\ job' = [j \in Job |-> IF job[j].status = "running" THEN [job[j] EXCEPT !.status = "pending"]
                             ELSE job[j]]
    /\ broken' = {}
    /\ UNCHANGED <<docs, proof, task, control, requests, demand, late, stopped>>

\* (seeded fault: the recovery forgets the table of test-dataset jobs)
RecoverReports ==
    /\ worker = "down"
    /\ worker' = "up"
    /\ job' = [j \in Job |-> IF job[j].status = "running" /\ ~Dataset(j)
                             THEN [job[j] EXCEPT !.status = "pending"] ELSE job[j]]
    /\ proof' = [j \in Job |-> [i \in Item |-> IF proof[j][i] = "running" THEN "failed"
                                               ELSE proof[j][i]]]
    /\ broken' = {}
    /\ UNCHANGED <<docs, task, control, requests, demand, late, stopped>>

\* _recover_interrupted_work: jobs are queued again, and an assessment that runs
\* without an approved plan - the one that proves a control - fails.
Recover ==
    /\ worker = "down"
    /\ worker' = "up"
    /\ job' = [j \in Job |-> IF job[j].status = "running" THEN [job[j] EXCEPT !.status = "pending"]
                             ELSE job[j]]
    /\ proof' = [j \in Job |-> [i \in Item |-> IF proof[j][i] = "running" THEN "failed"
                                               ELSE proof[j][i]]]
    /\ broken' = {}
    /\ UNCHANGED <<docs, task, control, requests, demand, late, stopped>>

Trouble == demand.troubles > 0 /\ demand' = [demand EXCEPT !.troubles = @ - 1]

Crash ==
    /\ worker = "up"
    /\ Trouble
    /\ worker' = "down"
    /\ task' = [j \in Job |-> NoTask]
    /\ control' = [j \in Job |-> [i \in Item |-> NoControl]]
    /\ UNCHANGED <<job, docs, proof, requests, history>>

\* _claim_pending_report, _claim_pending_test_dataset, and the pools that call them.
SamePool(j) == {k \in Job : Dataset(k) = Dataset(j)}
Live(j) == {k \in SamePool(j) : task[k].pc # "free"}
Claim(j) ==
    /\ worker = "up"
    /\ Cardinality(Live(j)) < IF Dataset(j) THEN DatasetSlots ELSE ReportSlots
    /\ job[j].status = "pending"
    /\ \A k \in SamePool(j) : job[k].status = "pending" => j <= k
    /\ job' = [job EXCEPT ![j].status = "running"]
    /\ task' = [task EXCEPT ![j].pc = "start"]
    /\ UNCHANGED <<docs, proof, control, worker, requests, demand, history>>

At(j, pc) == task[j].pc = pc
End(j) == task' = [task EXCEPT ![j] = NoTask]
Goto(j, pc) == task' = [task EXCEPT ![j].pc = pc]

\* An UPDATE by id writes to the row if it is there, whatever its status.
Update(j, row) == job' = IF Exists(j) THEN [job EXCEPT ![j] = row] ELSE job

\* The document of a name is replaced.
Store(j, n) ==
    /\ docs' = [docs EXCEPT ![n] = j]
    /\ late' = [late EXCEPT ![j] = @ + IF Asked(j) THEN 0 ELSE 1]

----------------------------------------------------------------------------
(* A test-dataset job: generate_test_dataset.                              *)

\* (seeded fault: the first run that came to an end is taken for the last one)
PreviousOldest(j) ==
    LET ended == {k \in Job \ {j} : Dataset(k) /\ Ended(k)}
    IN {k \in ended : \A l \in ended : k <= l}

\* The newest other job that has come to an end, whether or not it stored anything.
Previous(j) ==
    LET ended == {k \in Job \ {j} : Dataset(k) /\ Ended(k)}
    IN {k \in ended : \A l \in ended : l <= k}

\* (seeded fault: a resumed job starts with an empty list of documents)
StartWithoutDocs(j) ==
    /\ At(j, "start") /\ Dataset(j)
    /\ IF ~Exists(j) THEN End(j) /\ UNCHANGED job
       ELSE /\ job' = [job EXCEPT ![j].status = "running"]
            /\ task' = [task EXCEPT ![j] =
                 [NoTask EXCEPT !.pc = "clear", !.entries = job[j].entries,
                                !.errors = job[j].errors]]
    /\ UNCHANGED <<docs, proof, control, worker, requests, demand, history>>

StartDataset(j) ==
    /\ At(j, "start") /\ Dataset(j)
    /\ IF ~Exists(j) THEN End(j) /\ UNCHANGED job
       ELSE /\ job' = [job EXCEPT ![j].status = "running"]
            /\ task' = [task EXCEPT ![j] =
                 [NoTask EXCEPT !.pc = "clear", !.listed = job[j].listed,
                                !.entries = job[j].entries, !.errors = job[j].errors,
                                !.prev = IF Previous(j) = {} THEN NoJob
                                         ELSE CHOOSE k \in Previous(j) : TRUE,
                                !.clear = UNION {job[k].listed : k \in Previous(j)}]]
    /\ UNCHANGED <<docs, proof, control, worker, requests, demand, history>>

\* The documents of the previous run are deleted.
Clear(j) ==
    /\ At(j, "clear")
    /\ IF task[j].prev = NoJob THEN UNCHANGED docs ELSE Remove(task[j].prev, task[j].clear)
    /\ task' = [task EXCEPT ![j].pc = "loop", ![j].prev = NoJob, ![j].clear = {}]
    /\ UNCHANGED <<job, proof, control, worker, requests, demand, history>>

\* The loop over the bundles: the status is looked at before each, and those that an
\* earlier run of this job stored are passed over.  After the last one nothing looks.
ToWrite(j) == job[j].plan \ task[j].tried
First(j, i) == i \in ToWrite(j) /\ \A k \in ToWrite(j) : i <= k
PassOrWrite(j) ==
    \E i \in ToWrite(j) :
        /\ First(j, i)
        /\ IF i \in task[j].entries THEN task' = [task EXCEPT ![j].tried = @ \cup {i}]
           ELSE Goto(j, "save")

\* (seeded fault: the status is not looked at between two bundles)
LookAway(j) ==
    /\ At(j, "loop") /\ Dataset(j)
    /\ \/ ToWrite(j) = {} /\ Goto(j, "finish")
       \/ PassOrWrite(j)
    /\ UNCHANGED <<job, docs, proof, control, worker, requests, demand, history>>

Look(j) ==
    /\ At(j, "loop") /\ Dataset(j)
    /\ \/ ToWrite(j) = {} /\ Goto(j, "finish")
       \/ ToWrite(j) # {} /\ ~Asked(j) /\ End(j)
       \/ Asked(j) /\ PassOrWrite(j)
    /\ UNCHANGED <<job, docs, proof, control, worker, requests, demand, history>>

\* The document, or the entry that says why there is none; every few of them a
\* checkpoint is due.
SaveBundle(j, i) ==
    LET n == <<"dataset", i>>
        due == task[j].since + 1 = Interval
        written == [task[j] EXCEPT !.tried = @ \cup {i}, !.pc = IF due THEN "checkpoint" ELSE "loop",
                                   !.since = IF due THEN 0 ELSE @ + 1]
    IN /\ At(j, "save") /\ Dataset(j)
       /\ First(j, i)
       /\ \/ /\ Store(j, n)
             /\ task' = [task EXCEPT ![j] = [written EXCEPT !.listed = @ \cup {n},
                                                            !.entries = @ \cup {i}]]
             /\ UNCHANGED demand
          \/ /\ Trouble
             /\ task' = [task EXCEPT ![j] = [written EXCEPT !.errors = @ \cup {i}]]
             /\ UNCHANGED <<docs, late>>
       /\ UNCHANGED <<job, proof, control, worker, requests, broken, stopped>>

Checkpoint(j) ==
    /\ At(j, "checkpoint")
    /\ Update(j, [job[j] EXCEPT !.listed = task[j].listed, !.entries = task[j].entries,
                                !.errors = task[j].errors])
    /\ Goto(j, "loop")
    /\ UNCHANGED <<docs, proof, control, worker, requests, demand, history>>

\* The last write, after validation and knowledge extraction.
FinishDataset(j) ==
    /\ At(j, "finish") /\ Dataset(j)
    /\ Update(j, [job[j] EXCEPT !.status = "complete", !.listed = task[j].listed,
                                !.entries = task[j].entries, !.errors = task[j].errors])
    /\ End(j)
    /\ UNCHANGED <<docs, proof, control, worker, requests, demand, history>>

----------------------------------------------------------------------------
(* A remediation report: run_remediation_report.                           *)

StartReportRun(j) ==
    /\ At(j, "start") /\ ~Dataset(j)
    /\ IF ~Exists(j) THEN End(j) /\ UNCHANGED <<job, control>>
       ELSE /\ job' = [job EXCEPT ![j].status = "running"]
            /\ Goto(j, CASE job[j].kind = "guide" -> "loop"
                         [] job[j].kind = "artifacts" -> "controls"
                         [] job[j].kind \notin {"guide", "artifacts"} -> "raised")
            /\ control' = [control EXCEPT ![j] =
                 [i \in Item |-> IF job[j].kind = "artifacts" /\ i \in job[j].plan
                                 THEN [NoControl EXCEPT !.step = "todo"] ELSE NoControl]]
    /\ UNCHANGED <<docs, proof, worker, requests, demand, history>>

\* The handler around everything else; "Unknown report_type" comes here too.
FailReport(j) ==
    /\ At(j, "raised")
    /\ Update(j, [job[j] EXCEPT !.status = "failed"])
    /\ Goto(j, "free")
    /\ UNCHANGED <<docs, proof, control, worker, requests, demand, history>>

\* _generate_guide: a look at the status before each family, then the two files.
Family(j) ==
    LET todo == job[j].plan \ task[j].tried
    IN /\ At(j, "loop") /\ ~Dataset(j)
       /\ \/ /\ todo # {}
             /\ IF ~Asked(j) THEN End(j)
                ELSE \E i \in todo : /\ \A k \in todo : i <= k
                                     /\ task' = [task EXCEPT ![j].tried = @ \cup {i}]
          \/ todo = {} /\ Goto(j, "file 1")
       /\ UNCHANGED <<job, docs, proof, control, worker, requests, demand, history>>

\* A file refers to the report: without its row it cannot be stored.
SaveFile(j, f) ==
    LET next == IF f = 1 THEN "file 2" ELSE "finish"
        n == <<"guide", f>>
    IN /\ At(j, IF f = 1 THEN "file 1" ELSE "file 2")
       /\ \/ /\ Exists(j)
             /\ Store(j, n)
             /\ task' = [task EXCEPT ![j].pc = next, ![j].listed = @ \cup {n}]
             /\ UNCHANGED demand
          \/ /\ IF Exists(j) THEN Trouble ELSE UNCHANGED demand
             /\ Goto(j, next)
             /\ UNCHANGED <<docs, late>>
       /\ UNCHANGED <<job, proof, control, worker, requests, broken, stopped>>

\* A report that is written to its end is complete, whatever happened to its row.
FinishReport(j) ==
    /\ At(j, "finish") /\ ~Dataset(j)
    /\ Update(j, [job[j] EXCEPT !.status = "complete", !.listed = task[j].listed])
    /\ End(j)
    /\ UNCHANGED <<docs, proof, control, worker, requests, demand, history>>

----------------------------------------------------------------------------
(* _generate_artifacts_v2.  The controls are worked on by Workers at a time;*)
(* those that were not proven are done again, one after the other, by a    *)
(* repair pass.  An exception ends the gather, not the other coroutines.   *)

Steps == {"look", "write", "prove", "assess", "remove", "record"}
Busy(j) == {i \in Item : control[j][i].step \in Steps}
Left(j) == {i \in Item : control[j][i].step = "todo"}
Move(j, i, step) == control' = [control EXCEPT ![j][i].step = step]

\* The semaphore, or the turn in the repair pass; then the look at the status, before
\* the control and again before its first attempt.
Take(j, i) ==
    /\ control[j][i].step = "todo"
    /\ IF task[j].repair THEN At(j, "controls") /\ Busy(j) = {}
       ELSE Cardinality(Busy(j)) < Workers
    /\ Move(j, i, IF Asked(j) THEN "write" ELSE "failed")
    /\ UNCHANGED <<job, docs, proof, task, worker, requests, demand, history>>

\* The look at the status before the second attempt.
LookControl(j, i) ==
    /\ control[j][i].step = "look"
    /\ Move(j, i, IF Asked(j) THEN "write" ELSE "failed")
    /\ UNCHANGED <<job, docs, proof, task, worker, requests, demand, history>>

\* The document of a control, under a name made from the control; it refers to the
\* report, and without its row it cannot be stored.
WriteControl(j, i) ==
    /\ control[j][i].step = "write" /\ Exists(j)
    /\ Store(j, <<"artifacts", i>>)
    /\ control' = [control EXCEPT ![j][i].step = "prove", ![j][i].stored = TRUE]
    /\ UNCHANGED <<job, proof, task, worker, requests, demand, broken, stopped>>

\* _prove_control: an assessment row that runs, that is complete, that is deleted.
OpenProof(j, i) ==
    /\ control[j][i].step = "prove"
    /\ proof' = [proof EXCEPT ![j][i] = "running"]
    /\ Move(j, i, "assess")
    /\ UNCHANGED <<job, docs, task, worker, requests, demand, history>>

CompleteProof(j, i) ==
    /\ control[j][i].step = "assess"
    /\ proof' = [proof EXCEPT ![j][i] = "complete"]
    /\ Move(j, i, "remove")
    /\ UNCHANGED <<job, docs, task, worker, requests, demand, history>>

\* Not proven at the first attempt: a second one.
RemoveProof(j, i) ==
    /\ control[j][i].step = "remove"
    /\ proof' = [proof EXCEPT ![j][i] = "none"]
    /\ \/ \E proven \in BOOLEAN :
            /\ proven \/ control[j][i].attempt = 2
            /\ control' = [control EXCEPT ![j][i].step = "record", ![j][i].proven = proven]
       \/ /\ control[j][i].attempt = 1
          /\ control' = [control EXCEPT ![j][i].step = "look", ![j][i].attempt = 2]
    /\ UNCHANGED <<job, docs, task, worker, requests, demand, history>>

\* Under the lock: the documents that are still there, and the progress on the row.
Record(j, i) ==
    LET mine == IF control[j][i].stored THEN {<<"artifacts", i>>} ELSE {}
        there == {n \in task[j].listed \cup mine : docs[n] = j}
    IN /\ control[j][i].step = "record"
       /\ Update(j, [job[j] EXCEPT !.listed = there])
       /\ task' = [task EXCEPT ![j].listed = there]
       /\ Move(j, i, IF control[j][i].proven THEN "passed" ELSE "failed")
       /\ UNCHANGED <<docs, proof, worker, requests, demand, history>>

\* After the gather: the repair pass, unless the job was cancelled, or the end.
Repair(j) ==
    LET again == {i \in Item : control[j][i].step = "failed"}
        repair == ~task[j].repair /\ again # {} /\ Asked(j)
    IN /\ At(j, "controls")
       /\ Busy(j) = {} /\ Left(j) = {}
       /\ task' = [task EXCEPT ![j].repair = repair, ![j].pc = IF repair THEN @ ELSE "finish"]
       /\ control' = [control EXCEPT ![j] =
            [i \in Item |-> IF repair /\ i \in again THEN [NoControl EXCEPT !.step = "todo"]
                            ELSE IF repair THEN @[i] ELSE NoControl]]
       /\ UNCHANGED <<job, docs, proof, worker, requests, demand, history>>

\* An exception in the coroutine of a control: in the gather it reaches the handler
\* of the report, and the controls that are under way go on; in the repair pass
\* there is nothing else.
RaiseControl(j, i) ==
    /\ control[j][i].step \in Steps
    /\ IF control[j][i].step = "write" /\ ~Exists(j) THEN UNCHANGED demand ELSE Trouble
    /\ Move(j, i, "raised")
    /\ IF At(j, "controls") THEN Goto(j, "raised") ELSE UNCHANGED task
    /\ broken' = broken \cup {j}
    /\ UNCHANGED <<job, docs, proof, worker, requests, late, stopped>>

\* An exception elsewhere.  A test-dataset job has no handler, and that of a report
\* begins after its first transaction and can fail itself when it stores the failure:
\* the coroutine is gone then and the row stays "running".
Raise(j) ==
    /\ ~At(j, "free")
    /\ At(j, "controls") => Busy(j) \cup Left(j) = {}
    /\ Trouble
    /\ IF Dataset(j) THEN End(j)
       ELSE Goto(j, IF task[j].pc \in {"start", "raised"} THEN "free" ELSE "raised")
    /\ broken' = broken \cup {j}
    /\ stopped' = stopped \cup {j}
    /\ UNCHANGED <<job, docs, proof, control, worker, requests, late>>

----------------------------------------------------------------------------
Progress(j) ==
    \/ StartDataset(j) \/ Clear(j) \/ Look(j) \/ Checkpoint(j) \/ FinishDataset(j)
    \/ StartReportRun(j) \/ FailReport(j) \/ Family(j) \/ Repair(j) \/ FinishReport(j)
    \/ \E f \in Files : SaveFile(j, f)
    \/ \E i \in Item : SaveBundle(j, i)

ControlStep(j, i) ==
    \/ Take(j, i) \/ LookControl(j, i) \/ WriteControl(j, i) \/ OpenProof(j, i)
    \/ CompleteProof(j, i) \/ RemoveProof(j, i) \/ Record(j, i)
    \/ RaiseControl(j, i)

Next ==
    \/ \E kind \in Kinds \ {"dataset"} : \E plan \in demand.plans[kind] : StartReport(kind, plan)
    \/ Supersede
    \/ \E plan \in demand.plans["dataset"] : InsertDataset(plan)
    \/ DeleteDocs \/ Recover \/ Crash
    \/ \E j \in Job :
         \/ CancelCheck(j) \/ CancelCommit(j) \/ Delete(j) \/ Claim(j)
         \/ Progress(j) \/ Raise(j)
         \/ \E i \in Item : ControlStep(j, i)

Spec == Init /\ [][Next]_vars

\* The supervisor restarts the worker, and while one of its pools can claim a job or
\* one of its coroutines can go on, some of them does: the event loop is not stopped
\* and every call of the model and of the database is answered in the end.
WorkerStep == \E j \in Job : Claim(j) \/ Progress(j) \/ \E i \in Item : ControlStep(j, i)

Fairness == WF_vars(Recover) /\ WF_vars(WorkerStep)

FairSpec == Spec /\ Fairness

----------------------------------------------------------------------------
(* Properties.                                                             *)

\* A report, other than a test-dataset job, has no status "cancelled" (orm.py
\* RemediationReport.status).
Statuses(kind) == {"none", "pending", "running", "complete", "failed", "gone"} \cup
                  IF kind = "dataset" THEN {"cancelled"} ELSE {}

Rows == [kind : Kinds \cup {"none"}, status : Statuses("dataset"), plan : SUBSET Item,
         listed : SUBSET Name, entries : SUBSET Item, errors : SUBSET Item]
Places(kind) ==
    {"free"} \cup
    CASE kind = "dataset" -> {"start", "clear", "loop", "save", "checkpoint", "finish"}
      [] kind = "guide" -> {"start", "loop", "file 1", "file 2", "finish", "raised"}
      [] kind = "artifacts" -> {"start", "controls", "finish", "raised"}
      [] kind = "test_dataset" -> {"start", "raised"}
      [] kind = "none" -> {}
Tasks == [pc : UNION {Places(kind) : kind \in Kinds}, prev : Job \cup {NoJob},
          clear : SUBSET Name, listed : SUBSET Name, entries : SUBSET Item,
          errors : SUBSET Item, tried : SUBSET Item, since : Nat, repair : BOOLEAN]
Controls == [step : Steps \cup {"none", "todo", "passed", "failed", "raised"},
             attempt : 1..2, stored : BOOLEAN, proven : BOOLEAN]

\* The values the variables have.
TypeOK ==
    /\ demand \in Asks
    /\ job \in [Job -> Rows]
    /\ \A j \in Job : job[j].status \in Statuses(job[j].kind)
    /\ docs \in [Name -> Job \cup {NoJob}]
    /\ proof \in [Job -> [Item -> {"none", "running", "complete", "failed"}]]
    /\ task \in [Job -> Tasks]
    /\ \A j \in Job : task[j].since < Interval
    /\ control \in [Job -> [Item -> Controls]]
    /\ worker \in {"up", "down"}
    /\ inserts \in Nat
    /\ cancelling \subseteq Job
    /\ late \in [Job -> Nat]
    /\ broken \subseteq Job /\ stopped \subseteq Job

\* As long as nothing stops a test-dataset job and every document can be saved, the
\* package of a complete job holds nothing of an older one: what start_generation
\* promises, "a clean, complete, self-consistent package".
PackageClean ==
    (\A j \in Job : Dataset(j) => j \notin stopped /\ job[j].errors = {}) =>
        \A j \in Job, i \in Item :
            Dataset(j) /\ job[j].status = "complete" =>
                docs[<<"dataset", i>>] = NoJob \/ docs[<<"dataset", i>>] >= j

\* A complete job that nothing stopped accounts for its plan and lists what it stored,
\* however often the worker died on the way: generated_doc_ids is all that delete_job
\* has to find the documents by.
CompleteIsAccounted ==
    \A j \in Job : job[j].status = "complete" /\ j \notin stopped =>
        /\ Dataset(j) => job[j].plan \subseteq job[j].entries \cup job[j].errors
        /\ \A n \in Name : docs[n] = j =>
             n \in job[j].listed \/ n[1] = "guide" \/ n[2] \in job[j].errors

\* After a cancel, a deletion or a failure a job stores no more than what it had under
\* way: one bundle, the files of a guide, one document for each control in work.
StopsSoon ==
    \A j \in Job :
        late[j] <= CASE job[j].kind = "dataset" -> 1
                     [] job[j].kind = "guide" -> Cardinality(Files)
                     [] job[j].kind \notin {"dataset", "guide"} -> Workers

\* A proof assessment that reads "running" is being worked on, unless an exception
\* has struck since the worker started.
ProofHasProver ==
    \A j \in Job, i \in Item :
        proof[j][i] = "running" =>
            control[j][i].step = "assess" \/ worker = "down" \/ j \in broken

\* A job that is queued or running comes to an end, unless an exception that nothing
\* caught takes its coroutine away: then its row waits for the next start of the
\* worker, and from there the same holds again.
Orphaned(j) == j \in broken /\ At(j, "free")
JobsRest ==
    \A j \in Job : Asked(j) ~> ~Asked(j) \/ Orphaned(j)

----------------------------------------------------------------------------
(* Why they hold: invariants that every step keeps.                        *)

Idle(j) == At(j, "free") /\ \A i \in Item : control[j][i].step = "none"

\* Where a job's coroutines and documents are, by its kind and its status.
Owned(j) ==
    \A n \in Name :
        docs[n] = j => n[1] = job[j].kind /\ (n[1] = "guide" \/ n[2] \in job[j].plan)
Placed(j) ==
    /\ job[j].status = "none" <=> job[j].kind = "none"
    /\ job[j].status \in {"none", "pending"} => Idle(j)
    /\ job[j].status = "none" => j \notin cancelling
    /\ task[j].pc \in Places(job[j].kind)
    /\ At(j, "start") => \A i \in Item : control[j][i].step = "none"
    /\ \A i \in Item :
         /\ control[j][i].step # "none" => job[j].kind = "artifacts" /\ i \in job[j].plan
         /\ control[j][i].step \in Steps \cup {"todo"} => At(j, "controls") \/ j \in broken
    /\ Owned(j)
PlaceInv ==
    /\ worker = "down" => \A j \in Job : Idle(j)
    /\ \A j \in Job : Placed(j)

\* A job that has stored something late is not asked to run and will not be; what it
\* may still store and what it has stored stay within the bound.
Writing(j) == {i \in Item : control[j][i].step = "write"}
Overdue(j) ==
    /\ late[j] # 0 => ~Asked(j) /\ job[j].status # "none" /\ ~At(j, "start")
    /\ Dataset(j) =>
         /\ late[j] \in {0, 1}
         /\ late[j] # 0 => task[j].pc \in {"free", "loop", "checkpoint", "finish"}
    /\ job[j].kind = "guide" =>
         /\ late[j] \in {0, 1, 2}
         /\ task[j].pc \in {"loop", "file 1"} => late[j] = 0
         /\ At(j, "file 2") => late[j] \in {0, 1}
AtWork(j) ==
    /\ Cardinality(Busy(j)) <= Workers
    /\ job[j].kind \notin {"dataset", "guide"} =>
         late[j] + Cardinality(Writing(j)) <= Workers
LateInv == \A j \in Job : Overdue(j) /\ AtWork(j)

\* What a coroutine knows of its documents: those that it does not list it has still
\* to write, or has an error for.
Known(j) ==
    /\ task[j].tried \subseteq task[j].entries \cup task[j].errors
    /\ \A i \in task[j].entries : <<"dataset", i>> \in task[j].listed
    /\ job[j].errors \subseteq task[j].errors
    /\ \A i \in Item :
         docs[<<"dataset", i>>] = j /\ i \in task[j].tried =>
             <<"dataset", i>> \in task[j].listed \/ i \in task[j].errors
    /\ At(j, "finish") => job[j].plan \subseteq task[j].tried
Worked(j) ==
    \A i \in Item :
        /\ control[j][i].step = "raised" => ~At(j, "controls")
        /\ control[j][i].step \in Steps \ {"write"} => control[j][i].stored
        /\ At(j, "controls") /\ i \in job[j].plan => control[j][i].step # "none"
        /\ At(j, "finish") => control[j][i].step = "none"
        /\ j \notin stopped /\ docs[<<"artifacts", i>>] = j /\ task[j].pc \in {"controls", "finish"} =>
             <<"artifacts", i>> \in task[j].listed \/ control[j][i].step \in Steps \cup {"todo"}
Accounted(j) ==
    /\ Dataset(j) => job[j].plan \subseteq job[j].entries \cup job[j].errors
    /\ \A n \in Name : docs[n] = j => n \in job[j].listed \/ n[1] = "guide" \/ n[2] \in job[j].errors
Remembered(j) ==
    /\ j \notin stopped /\ ~At(j, "free") => job[j].status = "running"
    /\ Dataset(j) => \A i \in job[j].entries : <<"dataset", i>> \in job[j].listed
    /\ Dataset(j) /\ task[j].pc \notin {"free", "start"} => Known(j)
    /\ job[j].kind = "artifacts" => Worked(j)
    /\ j \notin stopped /\ job[j].status = "complete" => Idle(j) /\ Accounted(j)
ListInv == \A j \in Job : Remembered(j)

\* With one slot and nothing stopped the test-dataset jobs run one after the other,
\* each to its end, and none but the one that runs leaves an older document.
Clean == \A j \in Job : Dataset(j) => j \notin stopped /\ job[j].errors = {}
Started(j) == job[j].status \in {"running", "complete"} \/ \E n \in Name : docs[n] = j
Own(j) == \A i \in Item : docs[<<"dataset", i>>] = NoJob \/ docs[<<"dataset", i>>] >= j
Newest == \A j \in Unused, k \in Job : job[k].status # "none" => k < j
Steady(j) ==
    /\ job[j].status \in {"cancelled", "failed", "gone"} => j \in stopped
    /\ worker = "up" /\ job[j].status = "running" /\ j \notin stopped => ~At(j, "free")
Behind(j) == \A k \in Job : Dataset(k) /\ j < k /\ Started(k) => job[j].status = "complete"
Tidy(j) ==
    /\ job[j].status = "complete" \/ task[j].pc \notin {"free", "start", "clear"} => Own(j)
    /\ At(j, "clear") => \A i \in Item :
         LET n == <<"dataset", i>>
         IN docs[n] = NoJob \/ docs[n] >= j \/ (docs[n] = task[j].prev /\ n \in task[j].clear)
OrderInv ==
    /\ Newest
    /\ \A j \in Job : Dataset(j) => Steady(j) /\ (Clean => Behind(j) /\ Tidy(j))
=============================================================================
