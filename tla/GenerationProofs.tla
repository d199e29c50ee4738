-------------------------- MODULE GenerationProofs --------------------------
(* Proofs about GenerationJobs: what holds for every number of jobs,        *)
(* documents, slots and workers.                                            *)
EXTENDS GenerationJobs, FiniteSetTheorems, WellFoundedInduction, TLAPS

USE DEF requests, history, running

----------------------------------------------------------------------------
(* Types.                                                                  *)

LEMMA RowTyped ==
  ASSUME TypeOK, NEW j \in Job
  PROVE  job[j] \in Rows /\ job[j].status \in Statuses(job[j].kind)
BY DEF TypeOK

LEMMA TaskTyped ==
  ASSUME TypeOK, NEW j \in Job
  PROVE  task[j] \in Tasks /\ task[j].since < Interval
BY DEF TypeOK

LEMMA ControlTyped ==
  ASSUME TypeOK, NEW j \in Job, NEW i \in Item
  PROVE  control[j][i] \in Controls
BY DEF TypeOK

LEMMA Statuses4 ==
  ASSUME NEW kind, NEW s \in {"none", "pending", "running", "complete", "failed", "gone"}
  PROVE  s \in Statuses(kind) /\ s \in Statuses("dataset")
BY DEF Statuses

\* The place of a coroutine is one of these.
LEMMA PlaceNames ==
  UNION {Places(kind) : kind \in Kinds} =
    {"free", "start", "clear", "loop", "save", "checkpoint", "finish", "raised", "controls",
     "file 1", "file 2"}
<1>1. /\ Places("dataset") = {"free", "start", "clear", "loop", "save", "checkpoint", "finish"}
      /\ Places("guide") = {"free", "start", "loop", "file 1", "file 2", "finish", "raised"}
      /\ Places("artifacts") = {"free", "start", "controls", "finish", "raised"}
      /\ Places("test_dataset") = {"free", "start", "raised"}
  BY DEF Places
<1> QED BY <1>1 DEF Kinds

LEMMA RowChange ==
  ASSUME TypeOK, NEW j \in Job, NEW row \in Rows, row.status \in Statuses(row.kind),
         job' = [job EXCEPT ![j] = row]
  PROVE  job' \in [Job -> Rows] /\ \A k \in Job : job'[k].status \in Statuses(job'[k].kind)
BY DEF TypeOK

LEMMA TaskChange ==
  ASSUME TypeOK, NEW j \in Job, NEW t \in Tasks, t.since < Interval,
         task' = [task EXCEPT ![j] = t]
  PROVE  task' \in [Job -> Tasks] /\ \A k \in Job : task'[k].since < Interval
BY DEF TypeOK

LEMMA ControlChange ==
  ASSUME TypeOK, NEW j \in Job, NEW i \in Item, NEW c \in Controls,
         control' = [control EXCEPT ![j][i] = c]
  PROVE  control' \in [Job -> [Item -> Controls]]
BY DEF TypeOK

LEMMA NoneTyped ==
  /\ NoRow \in Rows /\ NoRow.status \in Statuses(NoRow.kind)
  /\ NoTask \in Tasks /\ NoTask.since < Interval
  /\ NoControl \in Controls
<1>1. NoTask \in Tasks
  BY PlaceNames DEF NoTask, Tasks
<1>2. NoTask.since < Interval
  BY SizeAssumption DEF NoTask
<1> QED BY <1>1, <1>2 DEF NoRow, Rows, Statuses, NoControl, Controls

\* Going to another place, and ending.
LEMMA GotoType ==
  ASSUME TypeOK, NEW j \in Job, NEW pc, Goto(j, pc),
         pc \in {"free", "start", "clear", "loop", "save", "checkpoint", "finish", "raised",
                 "controls", "file 1", "file 2"}
  PROVE  task' \in [Job -> Tasks] /\ \A k \in Job : task'[k].since < Interval
<1> DEFINE t == [task[j] EXCEPT !.pc = pc]
<1>1. t \in Tasks /\ t.since < Interval
  BY TaskTyped, PlaceNames DEF Tasks
<1>2. task' = [task EXCEPT ![j] = t]
  BY DEF Goto
<1> HIDE DEF t
<1> QED BY <1>1, <1>2, TaskChange

LEMMA EndType ==
  ASSUME TypeOK, NEW j \in Job, End(j)
  PROVE  task' \in [Job -> Tasks] /\ \A k \in Job : task'[k].since < Interval
BY NoneTyped, TaskChange DEF End

\* A look at the status ends the job, passes over a bundle, or goes on.
LEMMA AfterLook ==
  ASSUME TypeOK, NEW j \in Job, Look(j)
  PROVE  /\ task' \in [Job -> Tasks] /\ \A k \in Job : task'[k].since < Interval
         /\ \A k \in Job \ {j} : task'[k] = task[k]
         /\ \/ task'[j].pc = "free" /\ ~Asked(j)
            \/ /\ task'[j].pc = "finish" /\ task'[j].tried = task[j].tried
               /\ job[j].plan \subseteq task[j].tried
               /\ task'[j].listed = task[j].listed /\ task'[j].entries = task[j].entries
               /\ task'[j].errors = task[j].errors
            \/ /\ task'[j].pc \in {"loop", "save"} /\ Asked(j)
               /\ \E more \in SUBSET task[j].entries : task'[j].tried = task[j].tried \cup more
               /\ task'[j].listed = task[j].listed /\ task'[j].entries = task[j].entries
               /\ task'[j].errors = task[j].errors
<1> USE DEF TypeOK
<1>1. CASE ToWrite(j) = {} /\ Goto(j, "finish")
  <2>1. task' = [task EXCEPT ![j] = [task[j] EXCEPT !.pc = "finish"]]
    BY <1>1 DEF Goto
  <2>2. job[j].plan \subseteq task[j].tried
    BY <1>1 DEF ToWrite
  <2>3. /\ task'[j].pc = "finish" /\ task'[j].tried = task[j].tried
        /\ task'[j].listed = task[j].listed /\ task'[j].entries = task[j].entries
        /\ task'[j].errors = task[j].errors
    BY <2>1, TaskTyped DEF Tasks
  <2>4. \A k \in Job \ {j} : task'[k] = task[k]
    BY <2>1
  <2> QED BY <1>1, <2>2, <2>3, <2>4, GotoType
<1>2. CASE ~Asked(j) /\ End(j)
  <2>1. task'[j].pc = "free" /\ \A k \in Job \ {j} : task'[k] = task[k]
    BY <1>2 DEF End, NoTask
  <2> QED BY <1>2, <2>1, EndType
<1>3. ASSUME Asked(j), NEW i \in ToWrite(j), i \in task[j].entries,
             task' = [task EXCEPT ![j].tried = @ \cup {i}]
      PROVE  /\ task' \in [Job -> Tasks] /\ \A k \in Job : task'[k].since < Interval
             /\ \A k \in Job \ {j} : task'[k] = task[k]
             /\ task'[j].pc = task[j].pc
             /\ \E more \in SUBSET task[j].entries : task'[j].tried = task[j].tried \cup more
             /\ task'[j].listed = task[j].listed /\ task'[j].entries = task[j].entries
             /\ task'[j].errors = task[j].errors
  <2> DEFINE t == [task[j] EXCEPT !.tried = @ \cup {i}]
  <2>1. i \in Item
    BY RowTyped DEF ToWrite, Rows
  <2>2. /\ t \in Tasks /\ t.since < Interval /\ t.pc = task[j].pc
        /\ t.tried = task[j].tried \cup {i} /\ t.listed = task[j].listed
        /\ t.entries = task[j].entries /\ t.errors = task[j].errors
    BY <2>1, TaskTyped DEF Tasks
  <2>3. task' = [task EXCEPT ![j] = t]
    BY <1>3
  <2> HIDE DEF t
  <2>4. task'[j] = t /\ \A k \in Job \ {j} : task'[k] = task[k]
    BY <2>3
  <2>5. {i} \in SUBSET task[j].entries /\ task'[j].tried = task[j].tried \cup {i}
    BY <1>3, <2>2, <2>4
  <2>6. task' \in [Job -> Tasks] /\ \A k \in Job : task'[k].since < Interval
    BY <2>2, <2>3, TaskChange
  <2> QED BY <2>2, <2>4, <2>5, <2>6
<1>4. CASE Asked(j) /\ Goto(j, "save")
  <2>1. task' = [task EXCEPT ![j] = [task[j] EXCEPT !.pc = "save"]]
    BY <1>4 DEF Goto
  <2>2. /\ task'[j].pc = "save" /\ task'[j].tried = task[j].tried
        /\ task'[j].listed = task[j].listed /\ task'[j].entries = task[j].entries
        /\ task'[j].errors = task[j].errors
    BY <2>1, TaskTyped DEF Tasks
  <2>3. {} \in SUBSET task[j].entries /\ task'[j].tried = task[j].tried \cup {}
    BY <2>2
  <2>4. \A k \in Job \ {j} : task'[k] = task[k]
    BY <2>1
  <2> QED BY <1>4, <2>2, <2>3, <2>4, GotoType
<1>5. task[j].pc = "loop"
  BY DEF Look, At
<1>6. \/ ToWrite(j) = {} /\ Goto(j, "finish")
      \/ ~Asked(j) /\ End(j)
      \/ Asked(j) /\ PassOrWrite(j)
  BY DEF Look
<1>7. CASE Asked(j) /\ PassOrWrite(j)
  <2>1. PICK i \in ToWrite(j) :
          IF i \in task[j].entries THEN task' = [task EXCEPT ![j].tried = @ \cup {i}]
          ELSE Goto(j, "save")
    BY <1>7 DEF PassOrWrite
  <2>2. CASE i \in task[j].entries
    BY <1>3, <1>5, <1>7, <2>1, <2>2
  <2>3. CASE i \notin task[j].entries
    BY <1>4, <1>7, <2>1, <2>3
  <2> QED BY <2>2, <2>3
<1> QED BY <1>1, <1>2, <1>6, <1>7

\* A row that only changes its status, or that a job writes its lists to.
LEMMA StatusType ==
  ASSUME TypeOK, NEW j \in Job, NEW s \in Statuses(job[j].kind),
         job' = [job EXCEPT ![j].status = s]
  PROVE  job' \in [Job -> Rows] /\ \A k \in Job : job'[k].status \in Statuses(job'[k].kind)
<1> DEFINE row == [job[j] EXCEPT !.status = s]
<1>1. row \in Rows /\ row.status \in Statuses(row.kind)
  BY RowTyped DEF Rows, Statuses
<1>2. job' = [job EXCEPT ![j] = row]
  OBVIOUS
<1> HIDE DEF row
<1> QED BY <1>1, <1>2, RowChange

LEMMA UpdateType ==
  ASSUME TypeOK, NEW j \in Job, NEW row \in Rows, row.status \in Statuses(row.kind),
         Update(j, row)
  PROVE  job' \in [Job -> Rows] /\ \A k \in Job : job'[k].status \in Statuses(job'[k].kind)
<1>1. CASE Exists(j)
  BY <1>1, RowChange DEF Update
<1>2. CASE ~Exists(j)
  BY <1>2 DEF Update, TypeOK
<1> QED BY <1>1, <1>2

LEMMA InsertType ==
  ASSUME TypeOK, NEW kind \in Kinds, NEW plan \in SUBSET Item, Insert(kind, plan)
  PROVE  job' \in [Job -> Rows] /\ \A k \in Job : job'[k].status \in Statuses(job'[k].kind)
<1> DEFINE row == [NoRow EXCEPT !.kind = kind, !.status = "pending", !.plan = plan]
<1>1. row \in Rows /\ row.status \in Statuses(row.kind)
  BY DEF Rows, Statuses, NoRow, Kinds
<1>2. PICK j \in Unused : job' = [job EXCEPT ![j] = row]
  BY DEF Insert
<1>3. j \in Job
  BY <1>2 DEF Unused, TypeOK, Asks
<1> HIDE DEF row
<1> QED BY <1>1, <1>2, <1>3, RowChange

LEMMA DemandPlans ==
  ASSUME TypeOK, NEW kind \in Kinds, NEW plan \in demand.plans[kind]
  PROVE  plan \in SUBSET Item
BY DEF TypeOK, Asks

LEMMA RemoveType ==
  ASSUME TypeOK, NEW j, NEW names, Remove(j, names)
  PROVE  docs' \in [Name -> Job \cup {NoJob}]
BY DEF TypeOK, Remove

LEMMA StoreType ==
  ASSUME TypeOK, NEW j \in Job, NEW n \in Name, Store(j, n)
  PROVE  docs' \in [Name -> Job \cup {NoJob}] /\ late' \in [Job -> Nat]
<1>1. docs' \in [Name -> Job \cup {NoJob}]
  BY DEF TypeOK, Store
<1>2. \A x \in {0, 1} : late[j] + x \in Nat
  BY DEF TypeOK
<1>3. late' \in [Job -> Nat]
  BY <1>2 DEF TypeOK, Store
<1> QED BY <1>1, <1>3

LEMMA TroubleType ==
  ASSUME TypeOK, Trouble
  PROVE  demand' \in Asks
BY DEF TypeOK, Trouble, Asks

LEMMA NameKinds ==
  /\ \A i \in Item : <<"dataset", i>> \in Name /\ <<"artifacts", i>> \in Name
  /\ \A f \in Files : <<"guide", f>> \in Name
BY DEF Name

LEMMA InitType == Init => TypeOK
BY NoneTyped, DemandAssumption DEF Init, TypeOK

\* Requests change rows, documents and what they have under way.
LEMMA RequestType ==
  ASSUME TypeOK,
         \/ \E kind \in Kinds \ {"dataset"} : \E plan \in demand.plans[kind] : StartReport(kind, plan)
         \/ Supersede
         \/ \E plan \in demand.plans["dataset"] : InsertDataset(plan)
         \/ DeleteDocs
         \/ \E j \in Job : CancelCheck(j) \/ CancelCommit(j) \/ Delete(j)
  PROVE  TypeOK'
<1>1. ASSUME NEW kind \in Kinds \ {"dataset"}, NEW plan \in demand.plans[kind], StartReport(kind, plan)
      PROVE  TypeOK'
  <2>1. plan \in SUBSET Item /\ kind \in Kinds
    BY DemandPlans
  <2>2. job' \in [Job -> Rows] /\ \A k \in Job : job'[k].status \in Statuses(job'[k].kind)
    BY <1>1, <2>1, InsertType DEF StartReport
  <2>3. UNCHANGED <<docs, proof, task, control, worker, inserts, cancelling, demand, late, broken,
                   stopped>>
    BY <1>1 DEF StartReport
  <2> QED BY <2>2, <2>3 DEF TypeOK
<1>2. ASSUME Supersede PROVE TypeOK'
  <2>1. \A j \in Job : Dataset(j) =>
          /\ [job[j] EXCEPT !.status = "cancelled"] \in Rows
          /\ [job[j] EXCEPT !.status = "cancelled"].status \in
               Statuses([job[j] EXCEPT !.status = "cancelled"].kind)
    BY RowTyped DEF Rows, Statuses, Dataset
  <2>2. job' \in [Job -> Rows] /\ \A k \in Job : job'[k].status \in Statuses(job'[k].kind)
    BY <1>2, <2>1, RowTyped DEF Supersede
  <2> QED BY <1>2, <2>2 DEF TypeOK, Supersede
<1>3. ASSUME NEW plan \in demand.plans["dataset"], InsertDataset(plan) PROVE TypeOK'
  <2>1. plan \in SUBSET Item /\ "dataset" \in Kinds
    BY DemandPlans DEF Kinds
  <2>2. job' \in [Job -> Rows] /\ \A k \in Job : job'[k].status \in Statuses(job'[k].kind)
    BY <1>3, <2>1, InsertType DEF InsertDataset
  <2> QED BY <1>3, <2>2 DEF TypeOK, InsertDataset
<1>4. ASSUME DeleteDocs PROVE TypeOK'
  BY <1>4 DEF TypeOK, DeleteDocs
<1>5. ASSUME NEW j \in Job, CancelCheck(j) PROVE TypeOK'
  <2>1. demand' \in Asks
    <3>1. demand \in Asks /\ demand.cancels - 1 \in Nat
      BY <1>5 DEF TypeOK, CancelCheck, Asks
    <3>2. demand' = [demand EXCEPT !.cancels = demand.cancels - 1]
      BY <1>5 DEF CancelCheck
    <3> QED BY <3>1, <3>2 DEF Asks
  <2> QED BY <1>5, <2>1 DEF TypeOK, CancelCheck
<1>6. ASSUME NEW j \in Job, CancelCommit(j) PROVE TypeOK'
  <2> DEFINE s == IF Dataset(j) THEN "cancelled" ELSE "failed"
  <2>1. s \in Statuses(job[j].kind)
    BY DEF Statuses, Dataset
  <2>2. job' = job \/ job' = [job EXCEPT ![j].status = s]
    BY <1>6 DEF CancelCommit
  <2> HIDE DEF s
  <2>3. job' \in [Job -> Rows] /\ \A k \in Job : job'[k].status \in Statuses(job'[k].kind)
    BY <2>1, <2>2, StatusType DEF TypeOK
  <2> QED BY <1>6, <2>3 DEF TypeOK, CancelCommit
<1>7. ASSUME NEW j \in Job, Delete(j) PROVE TypeOK'
  <2> DEFINE row == [NoRow EXCEPT !.kind = job[j].kind, !.plan = job[j].plan, !.status = "gone"]
  <2>1. row \in Rows /\ row.status \in Statuses(row.kind)
    BY RowTyped DEF Rows, Statuses, NoRow
  <2>2. job' = [job EXCEPT ![j] = row]
    BY <1>7 DEF Delete
  <2> HIDE DEF row
  <2>3. job' \in [Job -> Rows] /\ \A k \in Job : job'[k].status \in Statuses(job'[k].kind)
    BY <2>1, <2>2, RowChange
  <2>4. docs' \in [Name -> Job \cup {NoJob}]
    BY <1>7, RemoveType DEF Delete, TypeOK
  <2> QED BY <1>7, <2>3, <2>4 DEF TypeOK, Delete
<1> QED BY <1>1, <1>2, <1>3, <1>4, <1>5, <1>6, <1>7

\* The worker starts, dies and claims.
LEMMA WorkerType ==
  ASSUME TypeOK, Recover \/ Crash \/ \E j \in Job : Claim(j)
  PROVE  TypeOK'
<1>1. ASSUME Recover PROVE TypeOK'
  <2>1. \A j \in Job : /\ [job[j] EXCEPT !.status = "pending"] \in Rows
                       /\ [job[j] EXCEPT !.status = "pending"].status \in
                            Statuses([job[j] EXCEPT !.status = "pending"].kind)
    BY RowTyped DEF Rows, Statuses
  <2>2. job' \in [Job -> Rows] /\ \A k \in Job : job'[k].status \in Statuses(job'[k].kind)
    BY <1>1, <2>1, RowTyped DEF Recover
  <2>3. proof' \in [Job -> [Item -> {"none", "running", "complete", "failed"}]]
    BY <1>1 DEF TypeOK, Recover
  <2> QED BY <1>1, <2>2, <2>3 DEF TypeOK, Recover
<1>2. ASSUME Crash PROVE TypeOK'
  BY <1>2, NoneTyped, TroubleType DEF TypeOK, Crash
<1>3. ASSUME NEW j \in Job, Claim(j) PROVE TypeOK'
  <2>1. Goto(j, "start")
    BY <1>3 DEF Claim, Goto
  <2>2. "running" \in Statuses(job[j].kind)
    BY Statuses4
  <2>3. job' \in [Job -> Rows] /\ \A k \in Job : job'[k].status \in Statuses(job'[k].kind)
    BY <1>3, <2>2, StatusType DEF Claim
  <2> QED BY <1>3, <2>1, <2>3, GotoType DEF TypeOK, Claim
<1> QED BY <1>1, <1>2, <1>3

\* A test-dataset job.
LEMMA DatasetType ==
  ASSUME TypeOK, NEW j \in Job,
         \/ StartDataset(j) \/ Clear(j) \/ Look(j) \/ Checkpoint(j) \/ FinishDataset(j)
         \/ \E i \in Item : SaveBundle(j, i)
  PROVE  TypeOK'
<1>1. ASSUME StartDataset(j) PROVE TypeOK'
  <2>1. CASE ~Exists(j)
    BY <1>1, <2>1, EndType DEF TypeOK, StartDataset
  <2>2. CASE Exists(j)
    <3> DEFINE prev == IF Previous(j) = {} THEN NoJob ELSE CHOOSE k \in Previous(j) : TRUE
               clear == UNION {job[k].listed : k \in Previous(j)}
               t == [NoTask EXCEPT !.pc = "clear", !.listed = job[j].listed,
                                !.entries = job[j].entries, !.errors = job[j].errors,
                                !.prev = prev, !.clear = clear]
    <3>1. clear \in SUBSET Name
      BY RowTyped DEF Rows, Previous
    <3>2. prev \in Job \cup {NoJob}
      BY DEF Previous
    <3>4. task' = [task EXCEPT ![j] = t] /\ job' = [job EXCEPT ![j].status = "running"]
      BY <1>1, <2>2 DEF StartDataset
    <3> HIDE DEF prev, clear
    <3>6. /\ job[j].listed \in SUBSET Name /\ job[j].entries \in SUBSET Item
          /\ job[j].errors \in SUBSET Item
      BY RowTyped DEF Rows
    <3>7. NoTask \in Tasks /\ NoTask.since < Interval
      BY NoneTyped
    <3>8. t \in Tasks
      BY <3>1, <3>2, <3>6, <3>7, PlaceNames DEF Tasks
    <3>9. t.since = NoTask.since
      BY <3>7 DEF Tasks
    <3>3. t \in Tasks /\ t.since < Interval
      BY <3>7, <3>8, <3>9
    <3> HIDE DEF t
    <3>5. "running" \in Statuses(job[j].kind)
      BY Statuses4
    <3> QED BY <1>1, <3>3, <3>4, <3>5, TaskChange, StatusType DEF TypeOK, StartDataset
  <2> QED BY <2>1, <2>2
<1>2. ASSUME Clear(j) PROVE TypeOK'
  <2> DEFINE t == [task[j] EXCEPT !.pc = "loop", !.prev = NoJob, !.clear = {}]
  <2>1. t \in Tasks /\ t.since < Interval
    BY TaskTyped, PlaceNames DEF Tasks
  <2>2. task' = [task EXCEPT ![j] = t]
    BY <1>2 DEF Clear
  <2> HIDE DEF t
  <2>3. docs' \in [Name -> Job \cup {NoJob}]
    BY <1>2, RemoveType DEF Clear, TypeOK
  <2> QED BY <1>2, <2>1, <2>2, <2>3, TaskChange DEF TypeOK, Clear
<1>3. ASSUME Look(j) PROVE TypeOK'
  <2>1. task' \in [Job -> Tasks] /\ \A k \in Job : task'[k].since < Interval
    BY <1>3, AfterLook
  <2> QED BY <1>3, <2>1 DEF TypeOK, Look
<1>4. ASSUME Checkpoint(j) PROVE TypeOK'
  <2> DEFINE row == [job[j] EXCEPT !.listed = task[j].listed, !.entries = task[j].entries,
                                !.errors = task[j].errors]
  <2>1. row \in Rows /\ row.status \in Statuses(row.kind)
    BY RowTyped, TaskTyped DEF Rows, Tasks
  <2>2. Update(j, row) /\ Goto(j, "loop")
    BY <1>4 DEF Checkpoint
  <2> HIDE DEF row
  <2> QED BY <1>4, <2>1, <2>2, UpdateType, GotoType DEF TypeOK, Checkpoint
<1>5. ASSUME FinishDataset(j) PROVE TypeOK'
  <2> DEFINE row == [job[j] EXCEPT !.status = "complete", !.listed = task[j].listed,
                                !.entries = task[j].entries, !.errors = task[j].errors]
  <2>1. row \in Rows /\ row.status \in Statuses(row.kind)
    BY RowTyped, TaskTyped DEF Rows, Tasks, Statuses
  <2>2. Update(j, row) /\ End(j)
    BY <1>5 DEF FinishDataset
  <2> HIDE DEF row
  <2> QED BY <1>5, <2>1, <2>2, UpdateType, EndType DEF TypeOK, FinishDataset
<1>6. ASSUME NEW i \in Item, SaveBundle(j, i) PROVE TypeOK'
  <2> DEFINE n == <<"dataset", i>>
             due == task[j].since + 1 = Interval
             written == [task[j] EXCEPT !.tried = @ \cup {i}, !.pc = IF due THEN "checkpoint" ELSE "loop",
                                   !.since = IF due THEN 0 ELSE @ + 1]
  <2> DEFINE since == IF due THEN 0 ELSE task[j].since + 1
             pc == IF due THEN "checkpoint" ELSE "loop"
  <2>7. task[j].since \in Nat /\ task[j].since < Interval /\ Interval \in Nat
    BY TaskTyped, SizeAssumption DEF Tasks
  <2>8. since \in Nat /\ since < Interval
    BY <2>7
  <2>9. pc \in UNION {Places(kind) : kind \in Kinds}
    BY PlaceNames
  <2>10. written = [task[j] EXCEPT !.tried = @ \cup {i}, !.pc = pc, !.since = since]
    OBVIOUS
  <2> HIDE DEF since, pc
  <2>11. task[j] \in Tasks
    BY TaskTyped
  <2>14. [task[j] EXCEPT !.tried = @ \cup {i}] \in Tasks
    BY <2>11 DEF Tasks
  <2>15. [[task[j] EXCEPT !.tried = @ \cup {i}] EXCEPT !.pc = pc] \in Tasks
    BY <2>9, <2>14 DEF Tasks
  <2>12. [task[j] EXCEPT !.tried = @ \cup {i}, !.pc = pc, !.since = since] \in Tasks
    BY <2>8, <2>15 DEF Tasks
  <2>13. [task[j] EXCEPT !.tried = @ \cup {i}, !.pc = pc, !.since = since].since < Interval
    BY <2>8, <2>11 DEF Tasks
  <2>1. written \in Tasks /\ written.since < Interval
    BY <2>10, <2>12, <2>13
  <2>2. n \in Name
    BY NameKinds
  <2>3. \/ /\ Store(j, n)
           /\ task' = [task EXCEPT ![j] = [written EXCEPT !.listed = @ \cup {n},
                                                            !.entries = @ \cup {i}]]
           /\ UNCHANGED demand
        \/ /\ Trouble
           /\ task' = [task EXCEPT ![j] = [written EXCEPT !.errors = @ \cup {i}]]
           /\ UNCHANGED <<docs, late>>
    BY <1>6 DEF SaveBundle
  <2> HIDE DEF n, written
  <2>4. /\ [written EXCEPT !.listed = @ \cup {n}, !.entries = @ \cup {i}] \in Tasks
        /\ [written EXCEPT !.listed = @ \cup {n}, !.entries = @ \cup {i}].since < Interval
        /\ [written EXCEPT !.errors = @ \cup {i}] \in Tasks
        /\ [written EXCEPT !.errors = @ \cup {i}].since < Interval
    BY <2>1, <2>2 DEF Tasks
  <2>5. task' \in [Job -> Tasks] /\ \A k \in Job : task'[k].since < Interval
    BY <2>3, <2>4, TaskChange
  <2>6. docs' \in [Name -> Job \cup {NoJob}] /\ late' \in [Job -> Nat] /\ demand' \in Asks
    BY <2>2, <2>3, StoreType, TroubleType DEF TypeOK
  <2> QED BY <1>6, <2>5, <2>6 DEF TypeOK, SaveBundle
<1> QED BY <1>1, <1>2, <1>3, <1>4, <1>5, <1>6

\* A report.
LEMMA ReportType ==
  ASSUME TypeOK, NEW j \in Job,
         \/ StartReportRun(j) \/ FailReport(j) \/ Family(j) \/ Repair(j) \/ FinishReport(j)
         \/ Raise(j) \/ \E f \in Files : SaveFile(j, f)
  PROVE  TypeOK'
<1>1. ASSUME StartReportRun(j) PROVE TypeOK'
  <2>1. CASE ~Exists(j)
    BY <1>1, <2>1, EndType DEF TypeOK, StartReportRun
  <2>2. CASE Exists(j)
    <3> DEFINE pc == CASE job[j].kind = "guide" -> "loop"
                       [] job[j].kind = "artifacts" -> "controls"
                       [] job[j].kind \notin {"guide", "artifacts"} -> "raised"
    <3>5. pc \in {"loop", "controls", "raised"}
      <4>1. CASE job[j].kind = "guide"
        BY <4>1
      <4>2. CASE job[j].kind = "artifacts"
        BY <4>2
      <4>3. CASE job[j].kind \notin {"guide", "artifacts"}
        BY <4>3
      <4> QED BY <4>1, <4>2, <4>3
    <3>1. Goto(j, pc) /\ job' = [job EXCEPT ![j].status = "running"]
      BY <1>1, <2>2 DEF StartReportRun
    <3>2. [NoControl EXCEPT !.step = "todo"] \in Controls
      BY NoneTyped DEF Controls
    <3> DEFINE row == [i \in Item |-> IF job[j].kind = "artifacts" /\ i \in job[j].plan
                                      THEN [NoControl EXCEPT !.step = "todo"] ELSE NoControl]
    <3>6. control' = [control EXCEPT ![j] = row]
      BY <1>1, <2>2 DEF StartReportRun
    <3>7. row \in [Item -> Controls]
      BY <3>2, NoneTyped
    <3> HIDE DEF row
    <3>3. control' \in [Job -> [Item -> Controls]]
      BY <3>6, <3>7 DEF TypeOK
    <3>4. "running" \in Statuses(job[j].kind)
      BY Statuses4
    <3> HIDE DEF pc
    <3> QED BY <1>1, <3>1, <3>3, <3>4, <3>5, GotoType, StatusType DEF TypeOK, StartReportRun
  <2> QED BY <2>1, <2>2
<1>2. ASSUME FailReport(j) PROVE TypeOK'
  <2>1. [job[j] EXCEPT !.status = "failed"] \in Rows /\
        [job[j] EXCEPT !.status = "failed"].status \in Statuses([job[j] EXCEPT !.status = "failed"].kind)
    BY RowTyped DEF Rows, Statuses
  <2> QED BY <1>2, <2>1, UpdateType, GotoType DEF TypeOK, FailReport
<1>3. ASSUME Family(j) PROVE TypeOK'
  <2>1. \A i \in Item : [task[j] EXCEPT !.tried = @ \cup {i}] \in Tasks /\
                        [task[j] EXCEPT !.tried = @ \cup {i}].since < Interval
    BY TaskTyped DEF Tasks
  <2>2. (\E i \in Item : task' = [task EXCEPT ![j] = [task[j] EXCEPT !.tried = @ \cup {i}]]) =>
          task' \in [Job -> Tasks] /\ \A k \in Job : task'[k].since < Interval
    BY <2>1, TaskChange
  <2>3. job[j].plan \subseteq Item
    BY RowTyped DEF Rows
  <2>4. \/ \E i \in Item : task' = [task EXCEPT ![j] = [task[j] EXCEPT !.tried = @ \cup {i}]]
        \/ End(j)
        \/ Goto(j, "file 1")
    BY <1>3, <2>3 DEF Family
  <2>5. task' \in [Job -> Tasks] /\ \A k \in Job : task'[k].since < Interval
    BY <2>2, <2>4, EndType, GotoType
  <2> QED BY <1>3, <2>5 DEF TypeOK, Family
<1>4. ASSUME Repair(j) PROVE TypeOK'
  <2> DEFINE again == {i \in Item : control[j][i].step = "failed"}
             repair == ~task[j].repair /\ again # {} /\ Asked(j)
             t == [task[j] EXCEPT !.repair = repair, !.pc = IF repair THEN @ ELSE "finish"]
  <2>1. repair \in BOOLEAN
    BY TaskTyped DEF Tasks, Asked
  <2>2. task' = [task EXCEPT ![j] = t]
    BY <1>4 DEF Repair
  <2>3. [NoControl EXCEPT !.step = "todo"] \in Controls
    BY NoneTyped DEF Controls
  <2>4. control' = [control EXCEPT ![j] =
            [i \in Item |-> IF repair /\ i \in again THEN [NoControl EXCEPT !.step = "todo"]
                            ELSE IF repair THEN control[j][i] ELSE NoControl]]
    BY <1>4 DEF Repair
  <2> HIDE DEF repair, again
  <2>5. control' \in [Job -> [Item -> Controls]]
    BY <2>3, <2>4, NoneTyped DEF TypeOK
  <2>6. t \in Tasks /\ t.since < Interval
    BY <2>1, TaskTyped, PlaceNames DEF Tasks
  <2> HIDE DEF t
  <2> QED BY <1>4, <2>2, <2>5, <2>6, TaskChange DEF TypeOK, Repair
<1>5. ASSUME FinishReport(j) PROVE TypeOK'
  <2> DEFINE row == [job[j] EXCEPT !.status = "complete", !.listed = task[j].listed]
  <2>1. row \in Rows /\ row.status \in Statuses(row.kind)
    BY RowTyped, TaskTyped DEF Rows, Tasks, Statuses
  <2>2. Update(j, row) /\ End(j)
    BY <1>5 DEF FinishReport
  <2> HIDE DEF row
  <2> QED BY <1>5, <2>1, <2>2, UpdateType, EndType DEF TypeOK, FinishReport
<1>6. ASSUME Raise(j) PROVE TypeOK'
  <2>1. task' \in [Job -> Tasks] /\ \A k \in Job : task'[k].since < Interval
    BY <1>6, EndType, GotoType DEF Raise
  <2> QED BY <1>6, <2>1, TroubleType DEF TypeOK, Raise
<1>7. ASSUME NEW f \in Files, SaveFile(j, f) PROVE TypeOK'
  <2> DEFINE next == IF f = 1 THEN "file 2" ELSE "finish"
             n == <<"guide", f>>
             t == [task[j] EXCEPT !.pc = next, !.listed = @ \cup {n}]
  <2>1. n \in Name
    BY NameKinds
  <2>2. \/ Store(j, n) /\ task' = [task EXCEPT ![j] = t] /\ UNCHANGED demand
        \/ (Trouble \/ UNCHANGED demand) /\ Goto(j, next) /\ UNCHANGED <<docs, late>>
    BY <1>7 DEF SaveFile
  <2>3. t \in Tasks /\ t.since < Interval
    BY <2>1, TaskTyped, PlaceNames DEF Tasks
  <2>4. next \in {"file 2", "finish"}
    OBVIOUS
  <2> HIDE DEF n, t, next
  <2>5. task' \in [Job -> Tasks] /\ \A k \in Job : task'[k].since < Interval
    BY <2>2, <2>3, <2>4, TaskChange, GotoType
  <2>6. docs' \in [Name -> Job \cup {NoJob}] /\ late' \in [Job -> Nat] /\ demand' \in Asks
    BY <2>1, <2>2, StoreType, TroubleType DEF TypeOK
  <2> QED BY <1>7, <2>5, <2>6 DEF TypeOK, SaveFile
<1> QED BY <1>1, <1>2, <1>3, <1>4, <1>5, <1>6, <1>7

LEMMA MoveType ==
  ASSUME TypeOK, NEW j \in Job, NEW i \in Item, NEW step, Move(j, i, step),
         step \in Steps \cup {"none", "todo", "passed", "failed", "raised"}
  PROVE  control' \in [Job -> [Item -> Controls]]
<1> DEFINE c == [control[j][i] EXCEPT !.step = step]
<1>1. c \in Controls
  BY ControlTyped DEF Controls
<1>2. control' = [control EXCEPT ![j][i] = c]
  BY DEF Move
<1> HIDE DEF c
<1> QED BY <1>1, <1>2, ControlChange

\* A control of an artifacts report.
LEMMA ControlType ==
  ASSUME TypeOK, NEW j \in Job, NEW i \in Item, ControlStep(j, i)
  PROVE  TypeOK'
<1>1. ASSUME Take(j, i) \/ LookControl(j, i) PROVE TypeOK'
  <2>1. \E step \in {"write", "failed"} : Move(j, i, step)
    BY <1>1 DEF Take, LookControl
  <2>2. control' \in [Job -> [Item -> Controls]]
    BY <2>1, MoveType DEF Steps
  <2> QED BY <1>1, <2>2 DEF TypeOK, Take, LookControl
<1>2. ASSUME WriteControl(j, i) PROVE TypeOK'
  <2> DEFINE c == [control[j][i] EXCEPT !.step = "prove", !.stored = TRUE]
  <2>1. c \in Controls
    BY ControlTyped DEF Controls, Steps
  <2>2. control' = [control EXCEPT ![j][i] = c]
    BY <1>2 DEF WriteControl
  <2>3. Store(j, <<"artifacts", i>>)
    BY <1>2 DEF WriteControl
  <2> HIDE DEF c
  <2>4. control' \in [Job -> [Item -> Controls]]
    BY <2>1, <2>2, ControlChange
  <2>5. docs' \in [Name -> Job \cup {NoJob}] /\ late' \in [Job -> Nat]
    BY <2>3, StoreType, NameKinds
  <2> QED BY <1>2, <2>4, <2>5 DEF TypeOK, WriteControl
<1>3. ASSUME OpenProof(j, i) PROVE TypeOK'
  <2>1. control' \in [Job -> [Item -> Controls]]
    BY <1>3, MoveType DEF OpenProof, Steps
  <2> QED BY <1>3, <2>1 DEF TypeOK, OpenProof
<1>4. ASSUME CompleteProof(j, i) PROVE TypeOK'
  <2>1. control' \in [Job -> [Item -> Controls]]
    BY <1>4, MoveType DEF CompleteProof, Steps
  <2> QED BY <1>4, <2>1 DEF TypeOK, CompleteProof
<1>5. ASSUME RemoveProof(j, i) PROVE TypeOK'
  <2>1. ASSUME NEW proven \in BOOLEAN,
               control' = [control EXCEPT ![j][i].step = "record", ![j][i].proven = proven]
        PROVE  control' \in [Job -> [Item -> Controls]]
    <3> DEFINE c == [control[j][i] EXCEPT !.step = "record", !.proven = proven]
    <3>1. c \in Controls
      BY ControlTyped DEF Controls, Steps
    <3>2. control' = [control EXCEPT ![j][i] = c]
      BY <2>1
    <3> HIDE DEF c
    <3> QED BY <3>1, <3>2, ControlChange
  <2>2. ASSUME control' = [control EXCEPT ![j][i].step = "look", ![j][i].attempt = 2]
        PROVE  control' \in [Job -> [Item -> Controls]]
    <3> DEFINE c == [control[j][i] EXCEPT !.step = "look", !.attempt = 2]
    <3>1. 2 \in 1..2
      OBVIOUS
    <3>2. c \in Controls
      BY <3>1, ControlTyped DEF Controls, Steps
    <3>3. control' = [control EXCEPT ![j][i] = c]
      BY <2>2
    <3> HIDE DEF c
    <3> QED BY <3>2, <3>3, ControlChange
  <2>3. control' \in [Job -> [Item -> Controls]]
    BY <1>5, <2>1, <2>2 DEF RemoveProof
  <2> QED BY <1>5, <2>3 DEF TypeOK, RemoveProof
<1>6. ASSUME Record(j, i) PROVE TypeOK'
  <2> DEFINE mine == IF control[j][i].stored THEN {<<"artifacts", i>>} ELSE {}
             there == {n \in task[j].listed \cup mine : docs[n] = j}
             row == [job[j] EXCEPT !.listed = there]
             t == [task[j] EXCEPT !.listed = there]
  <2>1. there \in SUBSET Name
    BY TaskTyped, NameKinds DEF Tasks
  <2>2. /\ Update(j, row) /\ task' = [task EXCEPT ![j] = t]
        /\ Move(j, i, IF control[j][i].proven THEN "passed" ELSE "failed")
    BY <1>6 DEF Record
  <2> HIDE DEF there
  <2>3. row \in Rows /\ row.status \in Statuses(row.kind) /\ t \in Tasks /\ t.since < Interval
    BY <2>1, RowTyped, TaskTyped DEF Rows, Tasks
  <2> HIDE DEF row, t
  <2>4. control' \in [Job -> [Item -> Controls]]
    BY <2>2, MoveType
  <2> QED BY <1>6, <2>2, <2>3, <2>4, UpdateType, TaskChange DEF TypeOK, Record
<1>7. ASSUME RaiseControl(j, i) PROVE TypeOK'
  <2>1. control' \in [Job -> [Item -> Controls]]
    BY <1>7, MoveType DEF RaiseControl
  <2>2. task' \in [Job -> Tasks] /\ \A k \in Job : task'[k].since < Interval
    BY <1>7, GotoType DEF RaiseControl, TypeOK
  <2>3. demand' \in Asks
    BY <1>7, TroubleType DEF RaiseControl, TypeOK
  <2> QED BY <1>7, <2>1, <2>2, <2>3 DEF TypeOK, RaiseControl
<1> QED BY <1>1, <1>2, <1>3, <1>4, <1>5, <1>6, <1>7 DEF ControlStep

LEMMA TypeStep == TypeOK /\ [Next]_vars => TypeOK'
<1> SUFFICES ASSUME TypeOK, [Next]_vars PROVE TypeOK'
  OBVIOUS
<1>1. CASE UNCHANGED vars
  BY <1>1 DEF TypeOK, vars, Unused
<1>2. CASE Next
  BY <1>2, RequestType, WorkerType, DatasetType, ReportType, ControlType DEF Next, Progress
<1> QED BY <1>1, <1>2

\* Every variable keeps its type.
THEOREM JobsAreTyped == Spec => []TypeOK
BY InitType, TypeStep, PTL DEF Spec

----------------------------------------------------------------------------
(* Where everything is.                                                    *)

\* A step that has nothing to do with job k.
Calm(k) ==
    /\ job'[k] = job[k] /\ task'[k] = task[k] /\ control'[k] = control[k]
    /\ late'[k] = late[k] /\ proof'[k] = proof[k]
    /\ \A n \in Name : docs'[n] = k => docs[n] = k
    /\ k \in cancelling' => k \in cancelling
    /\ k \in broken => k \in broken'
    /\ k \in stopped' <=> k \in stopped

\* The step of one job is nothing to the others.
JobStep(j) ==
    \/ CancelCheck(j) \/ CancelCommit(j) \/ Delete(j) \/ Claim(j)
    \/ Progress(j) \/ Raise(j)
    \/ \E i \in Item : ControlStep(j, i)

LEMMA RemoveOnly ==
  ASSUME TypeOK, NEW j, NEW names, Remove(j, names), NEW k \in Job, NEW n \in Name, docs'[n] = k
  PROVE  docs[n] = k
BY JobAssumption DEF Remove, NoJob

LEMMA StoreOnly ==
  ASSUME TypeOK, NEW j \in Job, NEW m \in Name, Store(j, m), NEW k \in Job
  PROVE  /\ \A n \in Name : docs'[n] = k => docs[n] = k \/ (k = j /\ n = m)
         /\ k # j => late'[k] = late[k]
BY DEF Store, TypeOK

LEMMA MoveOnly ==
  ASSUME TypeOK, NEW j \in Job, NEW i \in Item, NEW step, Move(j, i, step), NEW k \in Job
  PROVE  /\ k # j => control'[k] = control[k]
         /\ control'[j][i] = [control[j][i] EXCEPT !.step = step]
         /\ control'[j][i].step = step
         /\ \A h \in Item : h # i => control'[j][h] = control[j][h]
<1>1. control[j][i] \in Controls
  BY ControlTyped
<1> QED BY <1>1 DEF Move, TypeOK, Controls

LEMMA Others ==
  ASSUME TypeOK, NEW j \in Job, NEW k \in Job, k # j, JobStep(j)
  PROVE  Calm(k)
<1>1. ASSUME CancelCheck(j) PROVE Calm(k)
  BY <1>1 DEF CancelCheck, Calm, TypeOK
<1>2. ASSUME CancelCommit(j) PROVE Calm(k)
  BY <1>2 DEF CancelCommit, Calm, TypeOK
<1>3. ASSUME Delete(j) PROVE Calm(k)
  <2>1. \A n \in Name : docs'[n] = k => docs[n] = k
    BY <1>3, RemoveOnly DEF Delete
  <2> QED BY <1>3, <2>1 DEF Delete, Calm, TypeOK
<1>4. ASSUME Claim(j) PROVE Calm(k)
  BY <1>4 DEF Claim, Calm, TypeOK
<1>5. ASSUME StartDataset(j) PROVE Calm(k)
  BY <1>5 DEF StartDataset, End, Calm, TypeOK
<1>6. ASSUME Clear(j) PROVE Calm(k)
  <2>1. \A n \in Name : docs'[n] = k => docs[n] = k
    BY <1>6, RemoveOnly DEF Clear
  <2> QED BY <1>6, <2>1 DEF Clear, Calm, TypeOK
<1>7. ASSUME Look(j) PROVE Calm(k)
  <2>1. task'[k] = task[k]
    BY <1>7, AfterLook
  <2> QED BY <1>7, <2>1 DEF Look, Calm
<1>8. ASSUME Checkpoint(j) PROVE Calm(k)
  BY <1>8 DEF Checkpoint, Update, Goto, Calm, TypeOK
<1>9. ASSUME FinishDataset(j) PROVE Calm(k)
  BY <1>9 DEF FinishDataset, Update, End, Calm, TypeOK
<1>10. ASSUME NEW i \in Item, SaveBundle(j, i) PROVE Calm(k)
  <2>1. Store(j, <<"dataset", i>>) \/ UNCHANGED <<docs, late>>
    BY <1>10 DEF SaveBundle
  <2>4. <<"dataset", i>> \in Name
    BY NameKinds
  <2>2. /\ \A n \in Name : docs'[n] = k => docs[n] = k
        /\ late'[k] = late[k]
    BY <2>1, <2>4, StoreOnly
  <2>3. task'[k] = task[k]
    BY <1>10 DEF SaveBundle, TypeOK
  <2> QED BY <1>10, <2>2, <2>3 DEF SaveBundle, Calm
<1>11. ASSUME StartReportRun(j) PROVE Calm(k)
  BY <1>11 DEF StartReportRun, Goto, End, Calm, TypeOK
<1>12. ASSUME FailReport(j) PROVE Calm(k)
  BY <1>12 DEF FailReport, Update, Goto, Calm, TypeOK
<1>13. ASSUME Family(j) PROVE Calm(k)
  <2>1. task'[k] = task[k]
    BY <1>13 DEF Family, Goto, End, TypeOK
  <2> QED BY <1>13, <2>1 DEF Family, Calm
<1>14. ASSUME Repair(j) PROVE Calm(k)
  BY <1>14 DEF Repair, Calm, TypeOK
<1>15. ASSUME FinishReport(j) PROVE Calm(k)
  BY <1>15 DEF FinishReport, Update, End, Calm, TypeOK
<1>16. ASSUME NEW f \in Files, SaveFile(j, f) PROVE Calm(k)
  <2>1. Store(j, <<"guide", f>>) \/ UNCHANGED <<docs, late>>
    BY <1>16 DEF SaveFile
  <2>4. <<"guide", f>> \in Name
    BY NameKinds
  <2>2. /\ \A n \in Name : docs'[n] = k => docs[n] = k
        /\ late'[k] = late[k]
    BY <2>1, <2>4, StoreOnly
  <2>3. task'[k] = task[k]
    BY <1>16 DEF SaveFile, Goto, TypeOK
  <2> QED BY <1>16, <2>2, <2>3 DEF SaveFile, Calm
<1>17. ASSUME Raise(j) PROVE Calm(k)
  BY <1>17 DEF Raise, Goto, End, Calm, TypeOK
<1>18. ASSUME NEW i \in Item, ControlStep(j, i) PROVE Calm(k)
  <2>1. ASSUME Take(j, i) \/ LookControl(j, i) PROVE Calm(k)
    BY <2>1 DEF Take, LookControl, Move, Calm, TypeOK
  <2>2. ASSUME WriteControl(j, i) PROVE Calm(k)
    <3>1. /\ \A n \in Name : docs'[n] = k => docs[n] = k
          /\ late'[k] = late[k]
      BY <2>2, StoreOnly, NameKinds, ZenonT(60) DEF WriteControl
    <3> QED BY <2>2, <3>1 DEF WriteControl, Calm, TypeOK
  <2>3. ASSUME OpenProof(j, i) \/ CompleteProof(j, i) PROVE Calm(k)
    BY <2>3 DEF OpenProof, CompleteProof, Move, Calm, TypeOK
  <2>4. ASSUME RemoveProof(j, i) PROVE Calm(k)
    <3>1. control'[k] = control[k]
      BY <2>4 DEF RemoveProof, TypeOK
    <3> QED BY <2>4, <3>1 DEF RemoveProof, Calm, TypeOK
  <2>5. ASSUME Record(j, i) PROVE Calm(k)
    BY <2>5 DEF Record, Update, Move, Calm, TypeOK
  <2>6. ASSUME RaiseControl(j, i) PROVE Calm(k)
    BY <2>6 DEF RaiseControl, Goto, Move, Calm, TypeOK
  <2> QED BY <1>18, <2>1, <2>2, <2>3, <2>4, <2>5, <2>6 DEF ControlStep
<1> QED BY <1>1, <1>2, <1>3, <1>4, <1>5, <1>6, <1>7, <1>8, <1>9, <1>10, <1>11, <1>12, <1>13, <1>14,
           <1>15, <1>16, <1>17, <1>18 DEF JobStep, Progress

\* Starting a job makes a row of an unused id and nothing else.
LEMMA Inserted ==
  ASSUME TypeOK, NEW kind \in Kinds, NEW plan \in SUBSET Item, Insert(kind, plan),
         UNCHANGED <<docs, running, cancelling, history>>
  PROVE  \E j \in Job :
            /\ job[j].status = "none" /\ j \in Unused /\ \A k \in Unused : j <= k
            /\ job'[j] = [NoRow EXCEPT !.kind = kind, !.status = "pending", !.plan = plan]
            /\ \A k \in Job : k # j => Calm(k)
<1>1. PICK j \in Unused :
        /\ \A k \in Unused : j <= k
        /\ job' = [job EXCEPT ![j] = [NoRow EXCEPT !.kind = kind, !.status = "pending",
                                                  !.plan = plan]]
  BY DEF Insert
<1>2. j \in Job /\ job[j].status = "none"
  BY <1>1 DEF Unused, TypeOK, Asks
<1>3. \A k \in Job : k # j => Calm(k)
  BY <1>1 DEF Calm, TypeOK
<1> QED BY <1>1, <1>2, <1>3 DEF TypeOK

LEMMA PlaceSets ==
  /\ Places("none") = {"free"}
  /\ Places("dataset") = {"free", "start", "clear", "loop", "save", "checkpoint", "finish"}
  /\ Places("guide") = {"free", "start", "loop", "file 1", "file 2", "finish", "raised"}
  /\ Places("artifacts") = {"free", "start", "controls", "finish", "raised"}
  /\ Places("test_dataset") = {"free", "start", "raised"}
BY DEF Places

\* What an invariant says of a place, for each kind of job.
LEMMA AtPlace ==
  ASSUME TypeOK, NEW j \in Job, Placed(j)
  PROVE  /\ job[j].kind \in Kinds \cup {"none"}
         /\ task[j].pc \in {"clear", "save", "checkpoint"} => Dataset(j)
         /\ task[j].pc \in {"file 1", "file 2"} => job[j].kind = "guide"
         /\ At(j, "controls") => job[j].kind = "artifacts"
         /\ At(j, "raised") => ~Dataset(j)
         /\ At(j, "loop") => Dataset(j) \/ job[j].kind = "guide"
         /\ At(j, "finish") => Dataset(j) \/ job[j].kind \in {"guide", "artifacts"}
         /\ ~At(j, "free") => job[j].kind \in Kinds /\ job[j].status # "none"
<1>1. job[j].kind \in Kinds \cup {"none"}
  BY RowTyped DEF Rows
<1> QED BY <1>1, PlaceSets DEF Placed, At, Dataset, Kinds

LEMMA InitPlace == Init => PlaceInv
<1> SUFFICES ASSUME Init PROVE PlaceInv
  OBVIOUS
<1>1. ASSUME NEW j \in Job PROVE Idle(j)
  BY DEF Init, Idle, At, NoTask, NoControl
<1>2. ASSUME NEW j \in Job PROVE Placed(j)
  <2>1. job[j].status = "none" /\ job[j].kind = "none" /\ j \notin cancelling
    BY DEF Init, NoRow
  <2>2. \A n \in Name : docs[n] # j
    BY JobAssumption DEF Init, NoJob
  <2>3. task[j].pc \in Places(job[j].kind)
    BY <1>1, <2>1, PlaceSets DEF Idle, At
  <2> QED BY <1>1, <2>1, <2>2, <2>3 DEF Placed, Owned, Idle, Steps
<1> QED BY <1>1, <1>2 DEF PlaceInv

LEMMA CalmPlaced ==
  ASSUME NEW k \in Job, Placed(k), Calm(k)
  PROVE  Placed(k)'
<1>1. Owned(k)'
  BY DEF Placed, Owned, Calm
<1> QED BY <1>1 DEF Placed, Calm, Idle, At

\* A coroutine that is not there does nothing, and only a worker that is up claims.
LEMMA IdleRests ==
  ASSUME TypeOK, NEW j \in Job, Idle(j), JobStep(j)
  PROVE  (worker = "up" /\ Claim(j)) \/ UNCHANGED <<task, control>>
<1>1. ~Progress(j)
  <2>1. ~\E i \in Item : SaveBundle(j, i)
    BY DEF Idle, At, SaveBundle
  <2>2. ~\E f \in Files : SaveFile(j, f)
    BY DEF Idle, At, SaveFile
  <2>3. /\ ~StartDataset(j) /\ ~Clear(j) /\ ~Look(j) /\ ~Checkpoint(j) /\ ~FinishDataset(j)
        /\ ~StartReportRun(j) /\ ~FailReport(j) /\ ~Family(j) /\ ~Repair(j) /\ ~FinishReport(j)
    BY DEF Idle, At, StartDataset, Clear, Look, Checkpoint, FinishDataset, StartReportRun, FailReport,
           Family, Repair, FinishReport
  <2> QED BY <2>1, <2>2, <2>3 DEF Progress
<1>2. ~Raise(j)
  BY DEF Idle, At, Raise
<1>3. ASSUME NEW i \in Item PROVE ~ControlStep(j, i)
  BY DEF Idle, ControlStep, Take, LookControl, WriteControl, OpenProof, CompleteProof, RemoveProof,
         Record, RaiseControl, Steps
<1> QED BY <1>1, <1>2, <1>3 DEF JobStep, CancelCheck, CancelCommit, Delete, Claim

\* What a job stores is under a name of its kind.
LEMMA OwnedStays ==
  ASSUME TypeOK, NEW j \in Job, Owned(j), job'[j].kind = job[j].kind, job'[j].plan = job[j].plan,
         \A n \in Name : docs'[n] = j => docs[n] = j \/
            (n[1] = job[j].kind /\ (n[1] = "guide" \/ n[2] \in job[j].plan))
  PROVE  Owned(j)'
BY DEF Owned

LEMMA PlacedRequest ==
  ASSUME TypeOK, NEW j \in Job, Placed(j), CancelCheck(j) \/ CancelCommit(j) \/ Delete(j) \/ Claim(j)
  PROVE  Placed(j)'
<1>1. ASSUME CancelCheck(j) PROVE Placed(j)'
  BY <1>1 DEF Placed, Owned, Idle, At, CancelCheck, Asked
<1>2. ASSUME CancelCommit(j) PROVE Placed(j)'
  <2>1. job[j].status # "none"
    BY <1>2 DEF CancelCommit, Placed
  <2>2. /\ job'[j].kind = job[j].kind /\ job'[j].plan = job[j].plan
        /\ job'[j].status \in {"cancelled", "failed", "gone"}
    BY <1>2, RowTyped DEF CancelCommit, Exists, TypeOK, Rows
  <2>3. Owned(j)'
    BY <1>2, <2>2, OwnedStays DEF CancelCommit, Placed
  <2> QED BY <1>2, <2>1, <2>2, <2>3 DEF Placed, Idle, At, CancelCommit
<1>3. ASSUME Delete(j) PROVE Placed(j)'
  <2>1. job[j].status # "none"
    BY <1>3 DEF Delete, Ended
  <2>2. /\ job'[j].kind = job[j].kind /\ job'[j].plan = job[j].plan
        /\ job'[j].status = "gone"
    BY <1>3, RowTyped DEF Delete, TypeOK, Rows, NoRow
  <2>4. \A n \in Name : docs'[n] = j => docs[n] = j
    BY <1>3, RemoveOnly DEF Delete
  <2>3. Owned(j)'
    BY <2>2, <2>4, OwnedStays DEF Placed
  <2> QED BY <1>3, <2>1, <2>2, <2>3 DEF Placed, Idle, At, Delete
<1>4. ASSUME Claim(j) PROVE Placed(j)'
  <2>1. job[j].status = "pending" /\ job[j].kind \in Kinds /\ Idle(j)
    BY <1>4, RowTyped DEF Claim, Placed, Rows
  <2>2. /\ job'[j].kind = job[j].kind /\ job'[j].plan = job[j].plan
        /\ job'[j].status = "running"
    BY <1>4, RowTyped DEF Claim, TypeOK, Rows
  <2>3. Owned(j)'
    BY <1>4, <2>2, OwnedStays DEF Claim, Placed
  <2>4. task'[j].pc = "start"
    BY <1>4, TaskTyped DEF Claim, TypeOK, Tasks
  <2>5. "start" \in Places(job[j].kind)
    BY <2>1, PlaceSets DEF Kinds
  <2>6. \A i \in Item : control'[j][i].step = "none"
    BY <1>4, <2>1 DEF Claim, Idle
  <2> QED BY <2>1, <2>2, <2>3, <2>4, <2>5, <2>6 DEF Placed, Idle, At, Steps
<1> QED BY <1>1, <1>2, <1>3, <1>4

\* A coroutine that ends, or goes on, while its row keeps its kind and its plan.
LEMMA PlacedMoves ==
  ASSUME TypeOK, NEW j \in Job, Placed(j), Owned(j)',
         job'[j].kind = job[j].kind, job'[j].plan = job[j].plan, job[j].status # "none",
         job'[j].status \notin {"none", "pending"},
         task'[j].pc \in Places(job[j].kind), task'[j].pc # "start",
         cancelling' = cancelling,
         \A i \in Item : /\ control'[j][i].step # "none" => job[j].kind = "artifacts" /\ i \in job[j].plan
                         /\ control'[j][i].step \in Steps \cup {"todo"} =>
                              task'[j].pc = "controls" \/ j \in broken'
  PROVE  Placed(j)'
BY DEF Placed, Idle, At

LEMMA UpdateRow ==
  ASSUME TypeOK, NEW j \in Job, NEW row \in Rows, Update(j, row)
  PROVE  job'[j] = IF Exists(j) THEN row ELSE job[j]
BY DEF Update, TypeOK

LEMMA AfterGoto ==
  ASSUME TypeOK, NEW j \in Job, NEW pc, Goto(j, pc)
  PROVE  task'[j] = [task[j] EXCEPT !.pc = pc] /\ task'[j].pc = pc
BY TaskTyped DEF Goto, TypeOK, Tasks

LEMMA AfterEnd ==
  ASSUME TypeOK, NEW j \in Job, End(j)
  PROVE  task'[j] = NoTask /\ task'[j].pc = "free"
BY DEF End, TypeOK, NoTask

LEMMA FreeEverywhere ==
  ASSUME NEW kind \in Kinds \cup {"none"}
  PROVE  "free" \in Places(kind)
BY PlaceSets DEF Kinds

\* What the first and the middle steps of a test-dataset job leave in its variables.
LEMMA AfterStart ==
  ASSUME TypeOK, NEW j \in Job, StartDataset(j), Exists(j)
  PROVE  /\ task'[j].pc = "clear" /\ task'[j].listed = job[j].listed
         /\ task'[j].entries = job[j].entries /\ task'[j].errors = job[j].errors
         /\ task'[j].tried = {}
         /\ task'[j].prev = IF Previous(j) = {} THEN NoJob ELSE CHOOSE k \in Previous(j) : TRUE
         /\ task'[j].clear = UNION {job[k].listed : k \in Previous(j)}
         /\ job' = [job EXCEPT ![j].status = "running"]
<1> DEFINE prev == IF Previous(j) = {} THEN NoJob ELSE CHOOSE k \in Previous(j) : TRUE
           clear == UNION {job[k].listed : k \in Previous(j)}
           t == [NoTask EXCEPT !.pc = "clear", !.listed = job[j].listed,
                               !.entries = job[j].entries, !.errors = job[j].errors,
                               !.prev = prev, !.clear = clear]
<1>1. task' = [task EXCEPT ![j] = t] /\ job' = [job EXCEPT ![j].status = "running"]
  BY DEF StartDataset
<1> HIDE DEF prev, clear
<1>2. /\ t.pc = "clear" /\ t.listed = job[j].listed /\ t.entries = job[j].entries
      /\ t.errors = job[j].errors /\ t.tried = {} /\ t.prev = prev /\ t.clear = clear
  BY DEF NoTask
<1> HIDE DEF t
<1>3. task'[j] = t
  BY <1>1 DEF TypeOK
<1> QED BY <1>1, <1>2, <1>3 DEF prev, clear

LEMMA AfterSave ==
  ASSUME TypeOK, NEW j \in Job, NEW i \in Item, SaveBundle(j, i)
  PROVE  /\ task'[j].pc \in {"checkpoint", "loop"} /\ task'[j].tried = task[j].tried \cup {i}
         /\ i \in job[j].plan /\ At(j, "save")
         /\ \/ /\ Store(j, <<"dataset", i>>)
               /\ task'[j].listed = task[j].listed \cup {<<"dataset", i>>}
               /\ task'[j].entries = task[j].entries \cup {i} /\ task'[j].errors = task[j].errors
            \/ /\ UNCHANGED <<docs, late>>
               /\ task'[j].listed = task[j].listed /\ task'[j].entries = task[j].entries
               /\ task'[j].errors = task[j].errors \cup {i}
<1> DEFINE n == <<"dataset", i>>
           due == task[j].since + 1 = Interval
           since == IF due THEN 0 ELSE task[j].since + 1
           pc == IF due THEN "checkpoint" ELSE "loop"
           w == [task[j] EXCEPT !.tried = @ \cup {i}, !.pc = pc, !.since = since]
<1>1. \/ /\ Store(j, n)
         /\ task' = [task EXCEPT ![j] = [w EXCEPT !.listed = @ \cup {n}, !.entries = @ \cup {i}]]
      \/ /\ UNCHANGED <<docs, late>>
         /\ task' = [task EXCEPT ![j] = [w EXCEPT !.errors = @ \cup {i}]]
  BY DEF SaveBundle
<1>2. pc \in {"checkpoint", "loop"}
  OBVIOUS
<1> HIDE DEF n, pc, since
<1>3. /\ w.tried = task[j].tried \cup {i} /\ w.pc = pc /\ w.listed = task[j].listed
      /\ w.entries = task[j].entries /\ w.errors = task[j].errors
      /\ w \in [DOMAIN task[j] -> {w[f] : f \in DOMAIN task[j]}]
      /\ DOMAIN w = DOMAIN task[j]
  BY TaskTyped DEF Tasks
<1>4. DOMAIN w = {"pc", "prev", "clear", "listed", "entries", "errors", "tried", "since", "repair"}
  BY <1>3, TaskTyped DEF Tasks
<1> HIDE DEF w
<1>5. CASE Store(j, n) /\ task' = [task EXCEPT ![j] = [w EXCEPT !.listed = @ \cup {n}, !.entries = @ \cup {i}]]
  <2>1. task'[j] = [w EXCEPT !.listed = @ \cup {n}, !.entries = @ \cup {i}]
    BY <1>5 DEF TypeOK
  <2>2. /\ task'[j].listed = task[j].listed \cup {n} /\ task'[j].entries = task[j].entries \cup {i}
        /\ task'[j].errors = task[j].errors /\ task'[j].tried = task[j].tried \cup {i}
        /\ task'[j].pc = pc
    BY <1>3, <1>4, <2>1
  <2> QED BY <1>2, <1>5, <2>2 DEF n, SaveBundle, First, ToWrite
<1>6. CASE UNCHANGED <<docs, late>> /\ task' = [task EXCEPT ![j] = [w EXCEPT !.errors = @ \cup {i}]]
  <2>1. task'[j] = [w EXCEPT !.errors = @ \cup {i}]
    BY <1>6 DEF TypeOK
  <2>2. /\ task'[j].listed = task[j].listed /\ task'[j].entries = task[j].entries
        /\ task'[j].errors = task[j].errors \cup {i} /\ task'[j].tried = task[j].tried \cup {i}
        /\ task'[j].pc = pc
    BY <1>3, <1>4, <2>1
  <2> QED BY <1>2, <1>6, <2>2 DEF SaveBundle, First, ToWrite
<1> QED BY <1>1, <1>5, <1>6

LEMMA PlacedDataset ==
  ASSUME TypeOK, NEW j \in Job, Placed(j),
         \/ StartDataset(j) \/ Clear(j) \/ Look(j) \/ Checkpoint(j) \/ FinishDataset(j)
         \/ \E i \in Item : SaveBundle(j, i)
  PROVE  Placed(j)'
<1>1. /\ Dataset(j) /\ ~At(j, "free") /\ job[j].status \notin {"none", "pending"}
      /\ UNCHANGED <<control, cancelling, broken>>
  BY AtPlace DEF StartDataset, Clear, Look, Checkpoint, FinishDataset, SaveBundle, Placed, Idle, At
<1>2. \A i \in Item : control[j][i].step = "none"
  BY <1>1 DEF Placed, Dataset
<1>3. /\ job'[j].kind = job[j].kind /\ job'[j].plan = job[j].plan
      /\ job'[j].status \notin {"none", "pending"}
  <2>1. CASE StartDataset(j)
    BY <1>1, <2>1, RowTyped DEF StartDataset, TypeOK, Rows
  <2>2. CASE Checkpoint(j)
    BY <1>1, <2>2, RowTyped DEF Checkpoint, Update, TypeOK, Rows
  <2>3. CASE FinishDataset(j)
    BY <1>1, <2>3, RowTyped DEF FinishDataset, Update, TypeOK, Rows
  <2>4. CASE Clear(j) \/ Look(j) \/ \E i \in Item : SaveBundle(j, i)
    BY <1>1, <2>4 DEF Clear, Look, SaveBundle
  <2> QED BY <2>1, <2>2, <2>3, <2>4
<1>4. task'[j].pc \in {"free", "clear", "loop", "save", "checkpoint", "finish"}
  <2>1. CASE StartDataset(j)
    BY <2>1, AfterEnd, AfterStart DEF StartDataset
  <2>2. CASE Clear(j)
    BY <2>2, TaskTyped DEF Clear, TypeOK, Tasks
  <2>3. CASE Look(j)
    BY <2>3, AfterLook
  <2>4. CASE Checkpoint(j) \/ FinishDataset(j)
    BY <2>4, AfterEnd, AfterGoto DEF Checkpoint, FinishDataset
  <2>5. ASSUME NEW i \in Item, SaveBundle(j, i)
        PROVE  task'[j].pc \in {"checkpoint", "loop"}
    BY <2>5, AfterSave
  <2> QED BY <2>1, <2>2, <2>3, <2>4, <2>5
<1>5. task'[j].pc \in Places(job[j].kind)
  BY <1>1, <1>4, PlaceSets DEF Dataset
<1>6. Owned(j)'
  <2>1. CASE Clear(j)
    <3>1. \A n \in Name : docs'[n] = j => docs[n] = j
      BY <2>1, RemoveOnly DEF Clear
    <3> QED BY <1>3, <3>1, OwnedStays DEF Placed
  <2>2. ASSUME NEW i \in Item, SaveBundle(j, i) PROVE Owned(j)'
    <3>1. i \in job[j].plan
      BY <2>2 DEF SaveBundle, First, ToWrite
    <3>2. Store(j, <<"dataset", i>>) \/ UNCHANGED docs
      BY <2>2 DEF SaveBundle
    <3>6. <<"dataset", i>> \in Name
      BY NameKinds
    <3>3. \A n \in Name : docs'[n] = j => docs[n] = j \/ n = <<"dataset", i>>
      BY <3>2, <3>6, StoreOnly
    <3>4. \A n \in Name : n = <<"dataset", i>> => n[1] = job[j].kind /\ n[2] \in job[j].plan
      BY <1>1, <3>1 DEF Dataset
    <3>5. \A n \in Name : docs'[n] = j => docs[n] = j \/
            (n[1] = job[j].kind /\ (n[1] = "guide" \/ n[2] \in job[j].plan))
      BY <3>3, <3>4
    <3> QED BY <1>3, <3>5, OwnedStays DEF Placed
  <2>3. CASE StartDataset(j) \/ Look(j) \/ Checkpoint(j) \/ FinishDataset(j)
    BY <1>3, <2>3, OwnedStays DEF StartDataset, Look, Checkpoint, FinishDataset, Placed
  <2> QED BY <2>1, <2>2, <2>3
<1> QED BY <1>1, <1>2, <1>3, <1>4, <1>5, <1>6, PlacedMoves DEF Steps

\* What the steps of a report leave in its variables.
LEMMA AfterReportStart ==
  ASSUME TypeOK, NEW j \in Job, StartReportRun(j), Exists(j)
  PROVE  /\ job'[j] = [job[j] EXCEPT !.status = "running"]
         /\ job[j].kind = "guide" => task'[j] = [task[j] EXCEPT !.pc = "loop"]
         /\ job[j].kind = "artifacts" => task'[j] = [task[j] EXCEPT !.pc = "controls"]
         /\ job[j].kind \notin {"guide", "artifacts"} => task'[j] = [task[j] EXCEPT !.pc = "raised"]
         /\ \A i \in Item : control'[j][i] =
              IF job[j].kind = "artifacts" /\ i \in job[j].plan
              THEN [NoControl EXCEPT !.step = "todo"] ELSE NoControl
<1>1. job' = [job EXCEPT ![j].status = "running"]
  BY DEF StartReportRun
<1>2. control' = [control EXCEPT ![j] =
                 [i \in Item |-> IF job[j].kind = "artifacts" /\ i \in job[j].plan
                                 THEN [NoControl EXCEPT !.step = "todo"] ELSE NoControl]]
  BY DEF StartReportRun
<1>3. Goto(j, CASE job[j].kind = "guide" -> "loop"
                [] job[j].kind = "artifacts" -> "controls"
                [] job[j].kind \notin {"guide", "artifacts"} -> "raised")
  BY DEF StartReportRun
<1>4. CASE job[j].kind = "guide"
  BY <1>1, <1>2, <1>3, <1>4 DEF Goto, TypeOK
<1>5. CASE job[j].kind = "artifacts"
  BY <1>1, <1>2, <1>3, <1>5 DEF Goto, TypeOK
<1>6. CASE job[j].kind \notin {"guide", "artifacts"}
  BY <1>1, <1>2, <1>3, <1>6 DEF Goto, TypeOK
<1> QED BY <1>4, <1>5, <1>6

LEMMA AfterRepair ==
  ASSUME TypeOK, NEW j \in Job, Repair(j)
  PROVE  /\ At(j, "controls") /\ Busy(j) = {} /\ Left(j) = {}
         /\ task'[j].listed = task[j].listed
         /\ \/ /\ Asked(j) /\ task'[j].pc = "controls"
               /\ \A i \in Item : control'[j][i] =
                    IF control[j][i].step = "failed" THEN [NoControl EXCEPT !.step = "todo"]
                    ELSE control[j][i]
            \/ /\ task'[j].pc = "finish"
               /\ \A i \in Item : control'[j][i] = NoControl
<1> DEFINE again == {i \in Item : control[j][i].step = "failed"}
           repair == ~task[j].repair /\ again # {} /\ Asked(j)
           t == [task[j] EXCEPT !.repair = repair, !.pc = IF repair THEN @ ELSE "finish"]
<1>1. task'[j] = t
  BY DEF Repair, TypeOK
<1>2. \A i \in Item : control'[j][i] =
         IF repair /\ i \in again THEN [NoControl EXCEPT !.step = "todo"]
                            ELSE IF repair THEN control[j][i] ELSE NoControl
  BY DEF Repair, TypeOK
<1>3. repair => Asked(j)
  OBVIOUS
<1>6. At(j, "controls") /\ Busy(j) = {} /\ Left(j) = {}
  BY DEF Repair
<1> HIDE DEF repair
<1>4. t.listed = task[j].listed /\ t.pc = IF repair THEN task[j].pc ELSE "finish"
  BY TaskTyped DEF Tasks
<1> HIDE DEF t
<1>5. CASE repair
  BY <1>1, <1>2, <1>3, <1>4, <1>5, <1>6 DEF At
<1>7. CASE ~repair
  BY <1>1, <1>2, <1>4, <1>6, <1>7
<1> QED BY <1>5, <1>7

LEMMA AfterFile ==
  ASSUME TypeOK, NEW j \in Job, NEW f \in Files, SaveFile(j, f)
  PROVE  /\ At(j, IF f = 1 THEN "file 1" ELSE "file 2")
         /\ task'[j].pc = IF f = 1 THEN "file 2" ELSE "finish"
         /\ \/ Exists(j) /\ Store(j, <<"guide", f>>)
            \/ UNCHANGED <<docs, late>>
<1> DEFINE next == IF f = 1 THEN "file 2" ELSE "finish"
           n == <<"guide", f>>
<1>1. \/ Exists(j) /\ Store(j, n) /\ task' = [task EXCEPT ![j].pc = next, ![j].listed = @ \cup {n}]
      \/ Goto(j, next) /\ UNCHANGED <<docs, late>>
  BY DEF SaveFile
<1>2. At(j, IF f = 1 THEN "file 1" ELSE "file 2")
  BY DEF SaveFile
<1> HIDE DEF next, n
<1>3. CASE Goto(j, next) /\ UNCHANGED <<docs, late>>
  BY <1>2, <1>3, AfterGoto DEF next
<1>4. CASE Exists(j) /\ Store(j, n) /\ task' = [task EXCEPT ![j].pc = next, ![j].listed = @ \cup {n}]
  <2>1. task'[j] = [task[j] EXCEPT !.pc = next, !.listed = @ \cup {n}]
    BY <1>4 DEF TypeOK
  <2>2. task'[j].pc = next
    BY <2>1, TaskTyped DEF Tasks
  <2> QED BY <1>2, <1>4, <2>2 DEF next, n
<1> QED BY <1>1, <1>3, <1>4

LEMMA PlacedReport ==
  ASSUME TypeOK, NEW j \in Job, Placed(j),
         \/ StartReportRun(j) \/ FailReport(j) \/ Family(j) \/ Repair(j) \/ FinishReport(j)
         \/ Raise(j) \/ \E f \in Files : SaveFile(j, f)
  PROVE  Placed(j)'
<1>1. /\ ~At(j, "free") /\ job[j].kind \in Kinds /\ job[j].status \notin {"none", "pending"}
      /\ UNCHANGED cancelling /\ broken \subseteq broken'
  <2>1. ~At(j, "free")
    BY DEF StartReportRun, FailReport, Family, Repair, FinishReport, Raise, SaveFile, At
  <2>2. UNCHANGED cancelling /\ broken \subseteq broken'
    BY DEF StartReportRun, FailReport, Family, Repair, FinishReport, Raise, SaveFile
  <2> QED BY <2>1, <2>2, AtPlace DEF Placed, Idle
<1>2. "free" \in Places(job[j].kind)
  BY <1>1, FreeEverywhere
<1>3. ASSUME StartReportRun(j) PROVE Placed(j)'
  <2>1. CASE ~Exists(j)
    <3>1. job' = job /\ UNCHANGED <<docs, control>> /\ task'[j].pc = "free" /\ At(j, "start")
      BY <1>3, <2>1, AfterEnd DEF StartReportRun
    <3>2. Owned(j)'
      BY <3>1, OwnedStays DEF Placed
    <3> QED BY <1>1, <1>2, <3>1, <3>2, PlacedMoves DEF Placed, At
  <2>2. CASE Exists(j)
    <3>1. /\ job'[j].kind = job[j].kind /\ job'[j].plan = job[j].plan /\ job'[j].status = "running"
          /\ UNCHANGED docs
      BY <1>3, <2>2, AfterReportStart, RowTyped DEF StartReportRun, Rows
    <3>2. Owned(j)'
      BY <3>1, OwnedStays DEF Placed
    <3>3. /\ job[j].kind = "guide" => task'[j].pc = "loop"
          /\ job[j].kind = "artifacts" => task'[j].pc = "controls"
          /\ job[j].kind \notin {"guide", "artifacts"} => task'[j].pc = "raised"
      BY <1>3, <2>2, AfterReportStart, TaskTyped DEF Tasks
    <3>4. task'[j].pc \in Places(job[j].kind)
      BY <1>1, <1>3, <3>3, PlaceSets DEF Kinds, StartReportRun, Dataset
    <3>5. \A i \in Item : control'[j][i].step # "none" =>
            job[j].kind = "artifacts" /\ i \in job[j].plan
      <4>1. NoControl.step = "none"
        BY DEF NoControl
      <4> QED BY <1>3, <2>2, <4>1, AfterReportStart
    <3> QED BY <1>1, <3>1, <3>2, <3>3, <3>4, <3>5, PlacedMoves DEF Steps
  <2> QED BY <2>1, <2>2
<1>4. ASSUME FailReport(j) PROVE Placed(j)'
  <2>1. /\ job'[j].kind = job[j].kind /\ job'[j].plan = job[j].plan
        /\ job'[j].status \notin {"none", "pending"}
    BY <1>1, <1>4, RowTyped DEF FailReport, Update, TypeOK, Rows
  <2>2. UNCHANGED <<docs, control>> /\ task'[j].pc = "free" /\ At(j, "raised")
    BY <1>4, AfterGoto DEF FailReport
  <2>3. Owned(j)'
    BY <2>1, <2>2, OwnedStays DEF Placed
  <2> QED BY <1>1, <1>2, <2>1, <2>2, <2>3, PlacedMoves DEF Placed, At
<1>5. ASSUME Family(j) PROVE Placed(j)'
  <2>1. UNCHANGED <<job, docs, control>> /\ At(j, "loop") /\ ~Dataset(j)
    BY <1>5 DEF Family
  <2>2. job[j].kind = "guide"
    BY <2>1, AtPlace
  <2>3. task'[j].pc \in {"free", "loop", "file 1"}
    <3>1. \A i : task' = [task EXCEPT ![j].tried = @ \cup {i}] => task'[j].pc = task[j].pc
      BY TaskTyped DEF TypeOK, Tasks
    <3>2. \/ \E i : task' = [task EXCEPT ![j].tried = @ \cup {i}]
          \/ End(j) \/ Goto(j, "file 1")
      BY <1>5 DEF Family
    <3> QED BY <2>1, <3>1, <3>2, AfterEnd, AfterGoto DEF At
  <2>4. task'[j].pc \in Places(job[j].kind)
    BY <2>2, <2>3, PlaceSets
  <2>5. Owned(j)'
    BY <2>1, OwnedStays DEF Placed
  <2>6. \A i \in Item : control'[j][i].step = "none"
    BY <2>1, <2>2 DEF Placed
  <2> QED BY <1>1, <2>1, <2>3, <2>4, <2>5, <2>6, PlacedMoves DEF Steps
<1>6. ASSUME Repair(j) PROVE Placed(j)'
  <2>1. UNCHANGED <<job, docs>> /\ At(j, "controls") /\ Busy(j) = {} /\ Left(j) = {}
    BY <1>6, AfterRepair DEF Repair
  <2>2. job[j].kind = "artifacts"
    BY <2>1, AtPlace
  <2>3. task'[j].pc \in Places(job[j].kind)
    BY <1>6, <2>2, AfterRepair, PlaceSets
  <2>4. \A i \in Item : control'[j][i].step \in Steps \cup {"todo"} => task'[j].pc = "controls"
    <3>1. NoControl.step = "none"
      BY DEF NoControl
    <3> QED BY <1>6, <3>1, AfterRepair DEF Steps
  <2>6. \A i \in Item : control'[j][i].step # "none" => i \in job[j].plan
    <3>1. NoControl.step = "none"
      BY DEF NoControl
    <3> QED BY <1>6, <3>1, AfterRepair DEF Placed
  <2>5. Owned(j)'
    BY <2>1, OwnedStays DEF Placed
  <2>7. task'[j].pc \in {"controls", "finish"}
    BY <1>6, AfterRepair
  <2> QED BY <1>1, <2>1, <2>2, <2>3, <2>4, <2>5, <2>6, <2>7, PlacedMoves
<1>7. ASSUME FinishReport(j) PROVE Placed(j)'
  <2>1. /\ job'[j].kind = job[j].kind /\ job'[j].plan = job[j].plan
        /\ job'[j].status \notin {"none", "pending"}
    BY <1>1, <1>7, RowTyped DEF FinishReport, Update, TypeOK, Rows
  <2>2. UNCHANGED <<docs, control>> /\ task'[j].pc = "free" /\ At(j, "finish")
    BY <1>7, AfterEnd DEF FinishReport
  <2>3. Owned(j)'
    BY <2>1, <2>2, OwnedStays DEF Placed
  <2> QED BY <1>1, <1>2, <2>1, <2>2, <2>3, PlacedMoves DEF Placed, At
<1>8. ASSUME Raise(j) PROVE Placed(j)'
  <2>1. UNCHANGED <<job, docs, control>> /\ j \in broken'
    BY <1>8 DEF Raise
  <2>2. task'[j].pc = "free" \/ (~Dataset(j) /\ task'[j].pc = "raised")
    BY <1>8, AfterEnd, AfterGoto DEF Raise
  <2>3. task'[j].pc \in Places(job[j].kind)
    BY <1>1, <1>2, <2>2, PlaceSets DEF Kinds, Dataset
  <2>4. Owned(j)'
    BY <2>1, OwnedStays DEF Placed
  <2> QED BY <1>1, <2>1, <2>2, <2>3, <2>4, PlacedMoves DEF Placed
<1>9. ASSUME NEW f \in Files, SaveFile(j, f) PROVE Placed(j)'
  <2>1. UNCHANGED <<job, control>>
    BY <1>9 DEF SaveFile
  <2>2. job[j].kind = "guide"
    BY <1>9, AfterFile, AtPlace DEF At
  <2>3. task'[j].pc \in {"file 2", "finish"}
    BY <1>9, AfterFile
  <2>4. task'[j].pc \in Places(job[j].kind)
    BY <2>2, <2>3, PlaceSets
  <2>5. <<"guide", f>> \in Name
    BY NameKinds
  <2>11. Store(j, <<"guide", f>>) \/ UNCHANGED docs
    BY <1>9, AfterFile
  <2>6. \A n \in Name : docs'[n] = j => docs[n] = j \/ n = <<"guide", f>>
    BY <2>5, <2>11, StoreOnly
  <2>7. \A n \in Name : n = <<"guide", f>> => n[1] = "guide"
    OBVIOUS
  <2>8. \A n \in Name : docs'[n] = j => docs[n] = j \/
            (n[1] = job[j].kind /\ (n[1] = "guide" \/ n[2] \in job[j].plan))
    BY <2>2, <2>6, <2>7
  <2>9. Owned(j)'
    BY <2>1, <2>8, OwnedStays DEF Placed
  <2>10. \A i \in Item : control'[j][i].step = "none"
    BY <2>1, <2>2 DEF Placed
  <2> QED BY <1>1, <2>1, <2>3, <2>4, <2>9, <2>10, PlacedMoves DEF Steps
<1> QED BY <1>3, <1>4, <1>5, <1>6, <1>7, <1>8, <1>9

\* What the steps of a control leave in its variables.
LEMMA AfterWrite ==
  ASSUME TypeOK, NEW j \in Job, NEW i \in Item, WriteControl(j, i)
  PROVE  /\ control'[j][i].step = "prove" /\ control'[j][i].stored = TRUE
         /\ \A h \in Item : h # i => control'[j][h] = control[j][h]
<1> DEFINE c == [control[j][i] EXCEPT !.step = "prove", !.stored = TRUE]
<1>1. control' = [control EXCEPT ![j][i] = c]
  BY DEF WriteControl
<1>2. c.step = "prove" /\ c.stored = TRUE
  BY ControlTyped DEF Controls
<1> HIDE DEF c
<1> QED BY <1>1, <1>2 DEF TypeOK

LEMMA AfterRemove ==
  ASSUME TypeOK, NEW j \in Job, NEW i \in Item, RemoveProof(j, i)
  PROVE  /\ control[j][i].step = "remove"
         /\ control'[j][i].step \in {"record", "look"}
         /\ control'[j][i].stored = control[j][i].stored
         /\ \A h \in Item : h # i => control'[j][h] = control[j][h]
<1>1. ASSUME NEW proven \in BOOLEAN,
             control' = [control EXCEPT ![j][i].step = "record", ![j][i].proven = proven]
      PROVE  /\ control'[j][i].step = "record" /\ control'[j][i].stored = control[j][i].stored
             /\ \A h \in Item : h # i => control'[j][h] = control[j][h]
  <2> DEFINE c == [control[j][i] EXCEPT !.step = "record", !.proven = proven]
  <2>1. control' = [control EXCEPT ![j][i] = c]
    BY <1>1
  <2>2. c.step = "record" /\ c.stored = control[j][i].stored
    BY ControlTyped DEF Controls
  <2> HIDE DEF c
  <2> QED BY <2>1, <2>2 DEF TypeOK
<1>2. ASSUME control' = [control EXCEPT ![j][i].step = "look", ![j][i].attempt = 2]
      PROVE  /\ control'[j][i].step = "look" /\ control'[j][i].stored = control[j][i].stored
             /\ \A h \in Item : h # i => control'[j][h] = control[j][h]
  <2> DEFINE c == [control[j][i] EXCEPT !.step = "look", !.attempt = 2]
  <2>1. control' = [control EXCEPT ![j][i] = c]
    BY <1>2
  <2>2. c.step = "look" /\ c.stored = control[j][i].stored
    BY ControlTyped DEF Controls
  <2> HIDE DEF c
  <2> QED BY <2>1, <2>2 DEF TypeOK
<1> QED BY <1>1, <1>2 DEF RemoveProof

\* A step of a control is one at a time, from one step of its work to the next.
LEMMA AfterControl ==
  ASSUME TypeOK, NEW j \in Job, NEW i \in Item, ControlStep(j, i)
  PROVE  /\ control[j][i].step \in Steps \cup {"todo"}
         /\ control'[j][i].step \in Steps \cup {"passed", "failed", "raised"}
         /\ \A h \in Item : h # i => control'[j][h] = control[j][h]
         /\ UNCHANGED <<worker, cancelling>> /\ broken \subseteq broken'
<1>1. ASSUME Take(j, i) \/ LookControl(j, i) \/ OpenProof(j, i) \/ CompleteProof(j, i)
      PROVE  /\ control[j][i].step \in Steps \cup {"todo"}
             /\ \E s \in {"write", "failed", "assess", "remove"} : Move(j, i, s)
  BY <1>1 DEF Take, LookControl, OpenProof, CompleteProof, Steps
<1>2. ASSUME Record(j, i) \/ RaiseControl(j, i)
      PROVE  /\ control[j][i].step \in Steps
             /\ \E s \in {"passed", "failed", "raised"} : Move(j, i, s)
  BY <1>2 DEF Record, RaiseControl, Steps
<1>3. ASSUME WriteControl(j, i) \/ RemoveProof(j, i)
      PROVE  /\ control[j][i].step \in Steps
             /\ control'[j][i].step \in Steps
             /\ \A h \in Item : h # i => control'[j][h] = control[j][h]
  BY <1>3, AfterWrite, AfterRemove DEF WriteControl, RemoveProof, Steps
<1>4. UNCHANGED <<worker, cancelling>> /\ broken \subseteq broken'
  BY DEF ControlStep, Take, LookControl, WriteControl, OpenProof, CompleteProof, RemoveProof, Record,
         RaiseControl
<1>5. \A s : Move(j, i, s) => control'[j][i].step = s /\
              \A h \in Item : h # i => control'[j][h] = control[j][h]
  BY MoveOnly
<1> QED BY <1>1, <1>2, <1>3, <1>4, <1>5 DEF ControlStep, Steps

LEMMA PlacedControl ==
  ASSUME TypeOK, NEW j \in Job, Placed(j), NEW i \in Item, ControlStep(j, i)
  PROVE  Placed(j)'
<1>1. control[j][i].step # "none" /\ control'[j][i].step # "none"
  BY AfterControl DEF Steps
<1>2. job[j].kind = "artifacts" /\ job[j].status \notin {"none", "pending"}
  BY <1>1 DEF Placed, Idle
<1>3. /\ job'[j].kind = job[j].kind /\ job'[j].plan = job[j].plan
      /\ job'[j].status = job[j].status
  <2>1. CASE Record(j, i)
    BY <2>1, RowTyped DEF Record, Update, TypeOK, Rows
  <2>2. CASE ~Record(j, i)
    BY <2>2 DEF ControlStep, Take, LookControl, WriteControl, OpenProof, CompleteProof, RemoveProof,
         RaiseControl
  <2> QED BY <2>1, <2>2
<1>4. task'[j].pc = task[j].pc \/ (j \in broken' /\ task'[j].pc = "raised")
  <2>1. CASE Record(j, i)
    BY <2>1, TaskTyped DEF Record, TypeOK, Tasks
  <2>2. CASE RaiseControl(j, i)
    BY <2>2, AfterGoto DEF RaiseControl
  <2>3. CASE ~Record(j, i) /\ ~RaiseControl(j, i)
    BY <2>3 DEF ControlStep, Take, LookControl, WriteControl, OpenProof, CompleteProof, RemoveProof
  <2> QED BY <2>1, <2>2, <2>3
<1>5. task'[j].pc \in Places(job[j].kind)
  BY <1>2, <1>4, PlaceSets DEF Placed
<1>6. Owned(j)'
  <2>1. CASE WriteControl(j, i)
    <3>1. Store(j, <<"artifacts", i>>) /\ <<"artifacts", i>> \in Name
      BY <2>1, NameKinds DEF WriteControl
    <3>2. \A n \in Name : docs'[n] = j => docs[n] = j \/ n = <<"artifacts", i>>
      BY <3>1, StoreOnly
    <3>3. i \in job[j].plan
      BY <1>1 DEF Placed
    <3> QED BY <1>2, <1>3, <3>2, <3>3, OwnedStays DEF Placed
  <2>2. CASE ~WriteControl(j, i)
    <3>1. docs' = docs
      BY <2>2 DEF ControlStep, Take, LookControl, OpenProof, CompleteProof, RemoveProof, Record,
         RaiseControl
    <3> QED BY <1>3, <3>1, OwnedStays DEF Placed
  <2> QED BY <2>1, <2>2
<1>7. \A h \in Item : /\ control'[j][h].step # "none" => job[j].kind = "artifacts" /\ h \in job[j].plan
                      /\ control'[j][h].step \in Steps \cup {"todo"} =>
                              task'[j].pc = "controls" \/ j \in broken'
  <2>1. ASSUME NEW h \in Item, control'[j][h].step \in Steps \cup {"todo"}
        PROVE  task'[j].pc = "controls" \/ j \in broken'
    <3>1. control[j][h].step \in Steps \cup {"todo"}
      BY <2>1, AfterControl
    <3>2. task[j].pc = "controls" \/ j \in broken
      BY <3>1 DEF Placed, At
    <3> QED BY <1>4, <3>2, AfterControl
  <2>2. ASSUME NEW h \in Item, control'[j][h].step # "none" PROVE h \in job[j].plan
    <3>1. control[j][h].step # "none"
      BY <1>1, <2>2, AfterControl
    <3> QED BY <3>1 DEF Placed
  <2> QED BY <1>2, <2>1, <2>2
<1>8. job[j].status # "none" /\ cancelling' = cancelling
  BY <1>2, AfterControl
<1>9. task'[j].pc # "start"
  BY <1>1, <1>4 DEF Placed, At
<1> QED BY <1>9, <1>2, <1>3, <1>5, <1>6, <1>7, <1>8, PlacedMoves

LEMMA NameFirst ==
  ASSUME NEW n \in Name
  PROVE  n[1] \in {"dataset", "artifacts", "guide"}
BY DEF Name

\* Next, one job or many at a time.
LEMMA StepKinds ==
  ASSUME TypeOK, Next
  PROVE  \/ \E kind \in Kinds, plan \in SUBSET Item : StartReport(kind, plan) \/ InsertDataset(plan)
         \/ Supersede \/ DeleteDocs \/ Recover \/ Crash
         \/ \E j \in Job : JobStep(j)
BY DemandPlans DEF Next, JobStep, Kinds

LEMMA DeleteDocsCalm ==
  ASSUME TypeOK, DeleteDocs, NEW k \in Job
  PROVE  Calm(k)
BY JobAssumption DEF DeleteDocs, Calm, NoJob

LEMMA SupersedeRows ==
  ASSUME TypeOK, Supersede, NEW k \in Job
  PROVE  /\ UNCHANGED <<docs, task, control, late, proof, cancelling, broken, worker>>
         /\ \/ Calm(k) /\ ~(Dataset(k) /\ Asked(k))
            \/ /\ Dataset(k) /\ Asked(k) /\ job'[k] = [job[k] EXCEPT !.status = "cancelled"]
               /\ job'[k].status = "cancelled" /\ job'[k].kind = job[k].kind /\ k \in stopped'
<1>1. UNCHANGED <<docs, task, control, late, proof, cancelling, broken, worker>>
  BY DEF Supersede
<1>2. CASE Dataset(k) /\ Asked(k)
  BY <1>1, <1>2, RowTyped DEF Supersede, Rows
<1>3. CASE ~(Dataset(k) /\ Asked(k))
  BY <1>1, <1>3 DEF Supersede, Calm
<1> QED BY <1>1, <1>2, <1>3

\* No step of a job starts or ends the worker.
LEMMA WorkerStays ==
  ASSUME TypeOK, NEW j \in Job, JobStep(j)
  PROVE  worker' = worker
<1>1. ~Progress(j) \/ worker' = worker
  BY DEF Progress, StartDataset, Clear, Look, Checkpoint, FinishDataset, SaveBundle,
         StartReportRun, FailReport, Family, Repair, FinishReport, SaveFile
<1>2. (CancelCheck(j) \/ CancelCommit(j) \/ Delete(j) \/ Claim(j) \/ Raise(j)) => worker' = worker
  BY DEF CancelCheck, CancelCommit, Delete, Claim, Raise
<1> QED BY <1>1, <1>2, AfterControl DEF JobStep

LEMMA PlaceStep ==
  ASSUME TypeOK, PlaceInv, [Next]_vars
  PROVE  PlaceInv'
<1>1. CASE UNCHANGED vars
  <2>1. \A k \in Job : Calm(k)
    BY <1>1 DEF Calm, vars
  <2>2. \A k \in Job : Placed(k)'
    BY <2>1, CalmPlaced DEF PlaceInv
  <2> QED BY <1>1, <2>2 DEF PlaceInv, vars, Idle, At
<1>2. ASSUME NEW kind \in Kinds, NEW plan \in SUBSET Item, StartReport(kind, plan) \/ InsertDataset(plan)
      PROVE  PlaceInv'
  <2>1. UNCHANGED <<docs, running, cancelling, history>>
    BY <1>2 DEF StartReport, InsertDataset
  <2>5. PICK type \in Kinds : Insert(type, plan)
    BY <1>2 DEF StartReport, InsertDataset, Kinds
  <2>2. PICK j \in Job :
            /\ job[j].status = "none"
            /\ job'[j] = [NoRow EXCEPT !.kind = type, !.status = "pending", !.plan = plan]
            /\ \A k \in Job : k # j => Calm(k)
    BY <2>1, <2>5, Inserted
  <2>3. Placed(j)'
    <3>1. Placed(j) /\ Idle(j) /\ job[j].kind = "none"
      BY <2>2 DEF PlaceInv, Placed
    <3>2. \A n \in Name : docs'[n] # j
      BY <2>1, <3>1, NameFirst DEF Placed, Owned
    <3>3. job'[j].kind \in Kinds /\ job'[j].status = "pending"
      BY <2>2 DEF NoRow
    <3>4. task'[j].pc \in Places(job'[j].kind)
      BY <2>1, <3>1, <3>3, FreeEverywhere DEF Idle, At
    <3> QED BY <2>1, <3>1, <3>2, <3>3, <3>4 DEF Placed, Owned, Idle, At, Kinds, Steps
  <2>4. \A k \in Job : Placed(k)'
    BY <2>2, <2>3, CalmPlaced DEF PlaceInv
  <2> QED BY <2>1, <2>4 DEF PlaceInv, Idle, At
<1>3. ASSUME Supersede PROVE PlaceInv'
  <2>1. ASSUME NEW k \in Job PROVE Placed(k)'
    <3>1. Placed(k)
      BY DEF PlaceInv
    <3>2. CASE Calm(k)
      BY <3>1, <3>2, CalmPlaced
    <3>3. CASE job'[k] = [job[k] EXCEPT !.status = "cancelled"] /\ Dataset(k) /\ Asked(k)
      <4>1. job'[k].kind = job[k].kind /\ job'[k].plan = job[k].plan /\ job'[k].status = "cancelled"
        BY <3>3, RowTyped DEF Rows
      <4>2. Owned(k)'
        BY <1>3, <3>1, <4>1, OwnedStays DEF Supersede, Placed
      <4> QED BY <1>3, <3>1, <3>3, <4>1, <4>2 DEF Supersede, Placed, Dataset, Idle, At
    <3> QED BY <1>3, <3>2, <3>3, SupersedeRows
  <2> QED BY <1>3, <2>1 DEF PlaceInv, Supersede, Idle, At
<1>4. ASSUME DeleteDocs PROVE PlaceInv'
  <2>1. \A k \in Job : Placed(k)'
    BY <1>4, CalmPlaced, DeleteDocsCalm DEF PlaceInv
  <2> QED BY <1>4, <2>1 DEF PlaceInv, DeleteDocs, Idle, At
<1>5. ASSUME Recover PROVE PlaceInv'
  <2>1. ASSUME NEW k \in Job PROVE Placed(k)'
    <3>1. Placed(k) /\ Idle(k)
      BY <1>5 DEF PlaceInv, Recover
    <3>2. /\ job'[k].kind = job[k].kind /\ job'[k].plan = job[k].plan
          /\ job'[k].status = job[k].status \/ (job[k].status = "running" /\ job'[k].status = "pending")
      BY <1>5, RowTyped DEF Recover, Rows
    <3>3. Owned(k)'
      BY <1>5, <3>1, <3>2, OwnedStays DEF Recover, Placed
    <3>4. UNCHANGED <<task, control, cancelling>>
      BY <1>5 DEF Recover
    <3> QED BY <3>1, <3>2, <3>3, <3>4 DEF Placed, Idle, At, Steps
  <2> QED BY <1>5, <2>1 DEF PlaceInv, Recover
<1>6. ASSUME Crash PROVE PlaceInv'
  <2>1. ASSUME NEW k \in Job PROVE Placed(k)' /\ Idle(k)'
    <3>1. Placed(k)
      BY DEF PlaceInv
    <3>2. task'[k].pc = "free" /\ \A i \in Item : control'[k][i].step = "none"
      BY <1>6 DEF Crash, NoTask, NoControl
    <3>3. UNCHANGED <<job, docs, cancelling>>
      BY <1>6 DEF Crash
    <3>4. task'[k].pc \in Places(job[k].kind)
      BY <3>2, FreeEverywhere, RowTyped DEF Rows
    <3> QED BY <3>1, <3>2, <3>3, <3>4 DEF Placed, Owned, Idle, At, Steps
  <2> QED BY <2>1 DEF PlaceInv
<1>7. ASSUME NEW j \in Job, JobStep(j) PROVE PlaceInv'
  <2>1. Placed(j)'
    BY <1>7, PlacedRequest, PlacedDataset, PlacedReport, PlacedControl DEF PlaceInv, JobStep, Progress
  <2>2. \A k \in Job : Placed(k)'
    BY <1>7, <2>1, Others, CalmPlaced DEF PlaceInv
  <2>3. worker' = worker
    BY <1>7, WorkerStays
  <2>4. worker = "down" => \A k \in Job : Idle(k)'
    <3> SUFFICES ASSUME worker = "down" PROVE \A k \in Job : Idle(k)'
      OBVIOUS
    <3>1. UNCHANGED <<task, control>>
      BY <1>7, IdleRests DEF PlaceInv
    <3> QED BY <3>1 DEF PlaceInv, Idle, At
  <2> QED BY <2>2, <2>3, <2>4 DEF PlaceInv
<1> QED BY <1>1, <1>2, <1>3, <1>4, <1>5, <1>6, <1>7, StepKinds

\* Where the coroutines and the documents of a job can be, by the kind and the status of
\* its row: nothing works for a job that is queued, and what a job left is of its plan.
THEOREM PlaceInvariant == Spec => []PlaceInv
<1>1. TypeOK /\ PlaceInv /\ TypeOK' /\ [Next]_vars => PlaceInv'
  BY PlaceStep
<1> QED BY <1>1, JobsAreTyped, InitPlace, PTL DEF Spec

----------------------------------------------------------------------------
(* Proof assessments.                                                      *)

LEMMA ProverStep ==
  ASSUME TypeOK, PlaceInv, PlaceInv', ProofHasProver, [Next]_vars
  PROVE  ProofHasProver'
<1> DEFINE Proven(k) ==
      \A i \in Item : proof[k][i] = "running" =>
            control[k][i].step = "assess" \/ worker = "down" \/ k \in broken
<1>0. \A k \in Job : Proven(k)
  BY DEF ProofHasProver
<1> SUFFICES \A k \in Job : Proven(k)'
  BY DEF ProofHasProver
<1>1. ASSUME NEW k \in Job, Calm(k), worker' = worker PROVE Proven(k)'
  BY <1>0, <1>1 DEF Calm
<1>2. CASE UNCHANGED vars
  BY <1>0, <1>2 DEF vars
<1>3. ASSUME NEW kind \in Kinds, NEW plan \in SUBSET Item, StartReport(kind, plan) \/ InsertDataset(plan)
      PROVE  \A k \in Job : Proven(k)'
  BY <1>0, <1>3 DEF StartReport, InsertDataset
<1>4. ASSUME Supersede \/ DeleteDocs PROVE \A k \in Job : Proven(k)'
  BY <1>0, <1>4 DEF Supersede, DeleteDocs
<1>5. ASSUME Recover PROVE \A k \in Job : Proven(k)'
  BY <1>5 DEF Recover
<1>6. ASSUME Crash PROVE \A k \in Job : Proven(k)'
  BY <1>6 DEF Crash
<1>7. ASSUME NEW j \in Job, JobStep(j) PROVE \A k \in Job : Proven(k)'
  <2>1. CASE worker' = "down"
    BY <2>1
  <2>2. CASE worker' # "down"
    <3>1. worker' = worker
      BY <1>7, WorkerStays
    <3>2. Proven(j)'
      <4>0. Placed(j)
        BY DEF PlaceInv
      <4>1. CASE \/ CancelCheck(j) \/ CancelCommit(j) \/ Delete(j) \/ Claim(j) \/ Raise(j)
        BY <1>0, <3>1, <4>1 DEF CancelCheck, CancelCommit, Delete, Claim, Raise
      <4>2. CASE \/ StartDataset(j) \/ Clear(j) \/ Look(j) \/ Checkpoint(j) \/ FinishDataset(j)
                 \/ FailReport(j) \/ Family(j) \/ FinishReport(j)
                 \/ (\E f \in Files : SaveFile(j, f)) \/ (\E i \in Item : SaveBundle(j, i))
        BY <1>0, <3>1, <4>2 DEF StartDataset, Clear, Look, Checkpoint, FinishDataset, SaveBundle,
               FailReport, Family, FinishReport, SaveFile
      <4>3. CASE StartReportRun(j)
        <5>1. \A i \in Item : control[j][i].step = "assess" => j \in broken
          BY <4>0, <4>3 DEF Placed, StartReportRun, At, Steps
        <5>2. proof' = proof /\ broken' = broken
          BY <4>3 DEF StartReportRun
        <5> QED BY <1>0, <3>1, <5>1, <5>2
      <4>4. CASE Repair(j)
        <5>1. \A i \in Item : control[j][i].step # "assess"
          BY <4>4, AfterRepair DEF Busy, Steps
        <5>2. proof' = proof /\ broken' = broken
          BY <4>4 DEF Repair
        <5> QED BY <1>0, <3>1, <5>1, <5>2
      <4>5. ASSUME NEW i \in Item, ControlStep(j, i), NEW h \in Item, proof'[j][h] = "running"
            PROVE  control'[j][h].step = "assess" \/ worker' = "down" \/ j \in broken'
        <5>1. CASE h # i
          <6>1. proof'[j][h] = proof[j][h]
            <7>1. CASE OpenProof(j, i) \/ CompleteProof(j, i) \/ RemoveProof(j, i)
              BY <5>1, <7>1 DEF OpenProof, CompleteProof, RemoveProof, TypeOK
            <7>2. CASE ~(OpenProof(j, i) \/ CompleteProof(j, i) \/ RemoveProof(j, i))
              BY <4>5, <7>2 DEF ControlStep, Take, LookControl, WriteControl, Record, RaiseControl
            <7> QED BY <7>1, <7>2
          <6> QED BY <1>0, <3>1, <4>5, <5>1, <6>1, AfterControl
        <5>2. CASE h = i
          <6>1. CASE OpenProof(j, i)
            BY <5>2, <6>1, MoveOnly DEF OpenProof
          <6>2. CASE CompleteProof(j, i) \/ RemoveProof(j, i)
            BY <4>5, <5>2, <6>2 DEF CompleteProof, RemoveProof, TypeOK
          <6>3. CASE RaiseControl(j, i)
            BY <6>3 DEF RaiseControl
          <6>4. CASE Take(j, i) \/ LookControl(j, i) \/ WriteControl(j, i) \/ Record(j, i)
            <7>1. proof' = proof /\ control[j][i].step # "assess" /\ broken' = broken
              BY <6>4 DEF Take, LookControl, WriteControl, Record
            <7> QED BY <1>0, <3>1, <4>5, <5>2, <7>1
          <6> QED BY <4>5, <6>1, <6>2, <6>3, <6>4 DEF ControlStep
        <5> QED BY <5>1, <5>2
      <4>6. ASSUME NEW i \in Item, ControlStep(j, i) PROVE Proven(j)'
        BY <4>5, <4>6
      <4> QED BY <1>7, <4>1, <4>2, <4>3, <4>4, <4>6 DEF JobStep, Progress
    <3>3. \A k \in Job : k # j => Proven(k)'
      BY <1>1, <1>7, <3>1, Others
    <3> QED BY <3>2, <3>3
  <2> QED BY <2>1, <2>2
<1> QED BY <1>2, <1>3, <1>4, <1>5, <1>6, <1>7, StepKinds

\* A proof assessment that reads "running" has somebody working on it, unless an
\* exception has struck: the row would otherwise be shown as running for ever.
THEOREM ProofsHaveProvers == Spec => []ProofHasProver
<1>1. Init => ProofHasProver
  BY DEF Init, ProofHasProver
<1>2. TypeOK /\ PlaceInv /\ PlaceInv' /\ ProofHasProver /\ [Next]_vars => ProofHasProver'
  BY ProverStep
<1> QED BY <1>1, <1>2, JobsAreTyped, PlaceInvariant, PTL DEF Spec

----------------------------------------------------------------------------
(* What is stored late.                                                    *)

LEMMA ControlSets ==
  ASSUME NEW j \in Job
  PROVE  /\ IsFiniteSet(Busy(j)) /\ IsFiniteSet(Writing(j)) /\ Writing(j) \subseteq Busy(j)
         /\ Cardinality(Busy(j)) \in Nat /\ Cardinality(Writing(j)) \in Nat
<1>1. Busy(j) \subseteq Item /\ Writing(j) \subseteq Item /\ Writing(j) \subseteq Busy(j)
  BY DEF Busy, Writing, Steps
<1> HIDE DEF Busy, Writing
<1>2. IsFiniteSet(Item)
  BY JobAssumption
<1>3. IsFiniteSet(Busy(j)) /\ IsFiniteSet(Writing(j))
  BY <1>1, <1>2, FS_Subset, Zenon
<1>4. Cardinality(Busy(j)) \in Nat /\ Cardinality(Writing(j)) \in Nat
  BY <1>3, FS_CardinalityType, Zenon
<1> QED BY <1>1, <1>3, <1>4

\* Fewer at work than a bound, or writing than at work.
LEMMA Fewer ==
  ASSUME NEW S, NEW T, IsFiniteSet(T), S \subseteq T
  PROVE  Cardinality(S) <= Cardinality(T) /\ IsFiniteSet(S) /\ Cardinality(S) \in Nat
<1>1. IsFiniteSet(S) /\ Cardinality(S) <= Cardinality(T)
  BY FS_Subset, Zenon
<1>2. Cardinality(S) \in Nat
  BY <1>1, FS_CardinalityType, Zenon
<1> QED BY <1>1, <1>2

\* The coroutines of a job that does no more than before stay within the bounds.
LEMMA SameControls ==
  ASSUME NEW j \in Job,
         \A i \in Item : control'[j][i].step \in Steps =>
                           control[j][i].step \in Steps /\
                           (control'[j][i].step = "write" => control[j][i].step = "write")
  PROVE  /\ Busy(j)' \subseteq Busy(j) /\ Writing(j)' \subseteq Writing(j)
         /\ Cardinality(Busy(j)') <= Cardinality(Busy(j))
         /\ Cardinality(Writing(j)') <= Cardinality(Writing(j))
         /\ Cardinality(Busy(j)') \in Nat /\ Cardinality(Writing(j)') \in Nat
<1>1. Busy(j)' \subseteq Busy(j) /\ Writing(j)' \subseteq Writing(j)
  BY DEF Busy, Writing, Steps
<1>2. IsFiniteSet(Busy(j)) /\ IsFiniteSet(Writing(j))
  BY ControlSets
<1> QED BY <1>1, <1>2, Fewer

LEMMA CardinalityPrimes ==
  ASSUME NEW j \in Job
  PROVE  /\ Cardinality(Busy(j))' = Cardinality(Busy(j)')
         /\ Cardinality(Writing(j))' = Cardinality(Writing(j)')
OBVIOUS

\* A step that stores nothing and puts no control to work.
LEMMA OverdueKept ==
  ASSUME NEW j \in Job, Overdue(j), late'[j] = late[j], job'[j].kind = job[j].kind,
         late[j] # 0 => /\ job'[j].status \notin {"none", "pending", "running"}
                        /\ task'[j].pc \notin {"start", "file 1"}
                        /\ Dataset(j) => task'[j].pc \in {"free", "loop", "checkpoint"}
                        /\ task'[j].pc = "loop" => Dataset(j)
                        /\ task'[j].pc = "file 2" => job[j].kind # "guide" \/ late[j] = 1
  PROVE  Overdue(j)'
BY DEF Overdue, Asked, Dataset, At

LEMMA AtWorkKept ==
  ASSUME TypeOK, NEW j \in Job, AtWork(j), late'[j] = late[j], job'[j].kind = job[j].kind,
         \A i \in Item : control'[j][i].step \in Steps =>
                           control[j][i].step \in Steps /\
                           (control'[j][i].step = "write" => control[j][i].step = "write")
  PROVE  AtWork(j)'
<1>1. late[j] \in Nat /\ Workers \in Nat
  BY SizeAssumption DEF TypeOK
<1> DEFINE b == Cardinality(Busy(j))
           w == Cardinality(Writing(j))
           bb == Cardinality(Busy(j)')
           ww == Cardinality(Writing(j)')
<1>2. b \in Nat /\ w \in Nat
  BY ControlSets
<1>3. bb <= b /\ ww <= w /\ bb \in Nat /\ ww \in Nat
  BY SameControls
<1>4. b <= Workers /\ (job[j].kind \notin {"dataset", "guide"} => late[j] + w <= Workers)
  BY DEF AtWork
<1>5. AtWork(j)' <=>
        (bb <= Workers /\ (job'[j].kind \notin {"dataset", "guide"} => late'[j] + ww <= Workers))
  BY DEF AtWork
<1> HIDE DEF b, w, bb, ww
<1>6. bb <= Workers /\ (job[j].kind \notin {"dataset", "guide"} => late[j] + ww <= Workers)
  BY <1>1, <1>2, <1>3, <1>4
<1> QED BY <1>5, <1>6

LEMMA CalmLate ==
  ASSUME TypeOK, NEW k \in Job, Overdue(k), AtWork(k), Calm(k)
  PROVE  Overdue(k)' /\ AtWork(k)'
<1>1. Overdue(k)'
  BY DEF Overdue, Calm, Asked, Dataset, At
<1>2. AtWork(k)'
  BY AtWorkKept DEF Calm
<1> QED BY <1>1, <1>2

LEMMA InitLate == Init => LateInv
<1> SUFFICES ASSUME Init, NEW j \in Job PROVE Overdue(j) /\ AtWork(j)
  BY DEF LateInv
<1>1. Busy(j) = {} /\ Writing(j) = {}
  BY DEF Init, Busy, Writing, NoControl, Steps
<1>2. Cardinality(Busy(j)) = 0 /\ Cardinality(Writing(j)) = 0
  BY <1>1, FS_EmptySet
<1>3. late[j] = 0
  BY DEF Init
<1>4. Overdue(j)
  BY <1>3 DEF Overdue
<1>5. 0 <= Workers /\ 0 + 0 <= Workers
  BY SizeAssumption
<1>6. AtWork(j)
  BY <1>2, <1>3, <1>5 DEF AtWork
<1> QED BY <1>4, <1>6

LEMMA StoreLate ==
  ASSUME TypeOK, NEW j \in Job, NEW n, Store(j, n)
  PROVE  (Asked(j) /\ late'[j] = late[j]) \/ (~Asked(j) /\ late'[j] = late[j] + 1)
BY DEF Store, TypeOK

LEMMA LateRequest ==
  ASSUME TypeOK, NEW j \in Job, Placed(j), Overdue(j), AtWork(j),
         CancelCheck(j) \/ CancelCommit(j) \/ Delete(j) \/ Claim(j)
  PROVE  Overdue(j)' /\ AtWork(j)'
<1>1. UNCHANGED <<late, control>> /\ job'[j].kind = job[j].kind
  <2>1. UNCHANGED <<late, control>>
    BY DEF CancelCheck, CancelCommit, Delete, Claim
  <2>2. CASE CancelCheck(j)
    BY <2>1, <2>2 DEF CancelCheck
  <2>3. CASE CancelCommit(j)
    BY <2>1, <2>3, RowTyped DEF CancelCommit, TypeOK, Rows
  <2>4. CASE Delete(j)
    BY <2>1, <2>4, RowTyped DEF Delete, TypeOK, Rows, NoRow
  <2>5. CASE Claim(j)
    BY <2>1, <2>5, RowTyped DEF Claim, TypeOK, Rows
  <2> QED BY <2>2, <2>3, <2>4, <2>5
<1>2. AtWork(j)'
  BY <1>1, AtWorkKept
<1>3. CASE CancelCheck(j)
  <2>1. UNCHANGED <<job, task>>
    BY <1>3 DEF CancelCheck
  <2> QED BY <1>1, <1>2, <2>1 DEF Overdue, Asked, Dataset, At
<1>4. CASE CancelCommit(j)
  <2>1. job'[j].status \in {"cancelled", "failed", "gone"} /\ UNCHANGED task
    BY <1>4, RowTyped DEF CancelCommit, Exists, TypeOK, Rows
  <2> QED BY <1>1, <1>2, <2>1 DEF Overdue, Asked, Dataset, At
<1>5. CASE Delete(j)
  <2>1. job'[j].status = "gone" /\ UNCHANGED task
    BY <1>5, RowTyped DEF Delete, TypeOK, Rows, NoRow
  <2> QED BY <1>1, <1>2, <2>1 DEF Overdue, Asked, Dataset, At
<1>6. CASE Claim(j)
  <2>1. late[j] = 0
    BY <1>6 DEF Claim, Overdue, Asked
  <2> QED BY <1>1, <1>2, <2>1, OverdueKept
<1> QED BY <1>3, <1>4, <1>5, <1>6

\* What the writes to a job's row leave in it.
LEMMA AfterCheckpoint ==
  ASSUME TypeOK, NEW j \in Job, Checkpoint(j)
  PROVE  /\ job'[j].kind = job[j].kind /\ job'[j].plan = job[j].plan
         /\ job'[j].status = job[j].status
         /\ Exists(j) => /\ job'[j].listed = task[j].listed
                         /\ job'[j].entries = task[j].entries
                         /\ job'[j].errors = task[j].errors
         /\ ~Exists(j) => job'[j] = job[j]
         /\ task'[j].pc = "loop"
         /\ task'[j].tried = task[j].tried /\ task'[j].listed = task[j].listed
         /\ task'[j].entries = task[j].entries /\ task'[j].errors = task[j].errors
<1> DEFINE row == [job[j] EXCEPT !.listed = task[j].listed, !.entries = task[j].entries,
                                !.errors = task[j].errors]
<1>1. /\ row \in Rows /\ row.kind = job[j].kind /\ row.plan = job[j].plan
      /\ row.status = job[j].status /\ row.listed = task[j].listed
      /\ row.entries = task[j].entries /\ row.errors = task[j].errors
  BY RowTyped, TaskTyped DEF Rows, Tasks
<1>2. Update(j, row) /\ Goto(j, "loop")
  BY DEF Checkpoint
<1> HIDE DEF row
<1>3. job'[j] = IF Exists(j) THEN row ELSE job[j]
  BY <1>1, <1>2, UpdateRow
<1>4. task'[j] = [task[j] EXCEPT !.pc = "loop"] /\ task'[j].pc = "loop"
  BY <1>2, AfterGoto
<1>5. /\ task'[j].tried = task[j].tried /\ task'[j].listed = task[j].listed
      /\ task'[j].entries = task[j].entries /\ task'[j].errors = task[j].errors
  BY <1>4, TaskTyped DEF Tasks
<1> QED BY <1>1, <1>3, <1>4, <1>5

LEMMA AfterDatasetEnd ==
  ASSUME TypeOK, NEW j \in Job, FinishDataset(j)
  PROVE  /\ job'[j].kind = job[j].kind /\ job'[j].plan = job[j].plan
         /\ Exists(j) => /\ job'[j].status = "complete" /\ job'[j].listed = task[j].listed
                         /\ job'[j].entries = task[j].entries
                         /\ job'[j].errors = task[j].errors
         /\ ~Exists(j) => job'[j] = job[j]
         /\ task'[j] = NoTask
<1> DEFINE row == [job[j] EXCEPT !.status = "complete", !.listed = task[j].listed,
                                !.entries = task[j].entries, !.errors = task[j].errors]
<1>1. /\ row \in Rows /\ row.kind = job[j].kind /\ row.plan = job[j].plan
      /\ row.status = "complete" /\ row.listed = task[j].listed
      /\ row.entries = task[j].entries /\ row.errors = task[j].errors
  BY RowTyped, TaskTyped, Statuses4 DEF Rows, Tasks
<1>2. Update(j, row) /\ End(j)
  BY DEF FinishDataset
<1> HIDE DEF row
<1>3. job'[j] = IF Exists(j) THEN row ELSE job[j]
  BY <1>1, <1>2, UpdateRow
<1> QED BY <1>1, <1>2, <1>3, AfterEnd

LEMMA AfterReportEnd ==
  ASSUME TypeOK, NEW j \in Job, FailReport(j) \/ FinishReport(j)
  PROVE  /\ job'[j].kind = job[j].kind /\ job'[j].plan = job[j].plan
         /\ job'[j].status \in {"failed", "complete", "gone"}
         /\ FailReport(j) => job'[j].status # "complete" \/ UNCHANGED job
         /\ FinishReport(j) /\ Exists(j) => job'[j].status = "complete" /\ job'[j].listed = task[j].listed
         /\ ~Exists(j) => job'[j] = job[j]
         /\ task'[j].pc = "free"
<1>1. CASE FailReport(j)
  <2> DEFINE row == [job[j] EXCEPT !.status = "failed"]
  <2>1. row \in Rows /\ row.kind = job[j].kind /\ row.plan = job[j].plan /\ row.status = "failed"
    BY RowTyped, Statuses4 DEF Rows
  <2>2. Update(j, row) /\ Goto(j, "free") /\ ~FinishReport(j)
    BY <1>1 DEF FailReport, FinishReport, At
  <2> HIDE DEF row
  <2>3. job'[j] = IF Exists(j) THEN row ELSE job[j]
    BY <2>1, <2>2, UpdateRow
  <2>4. task'[j].pc = "free"
    BY <2>2, AfterGoto
  <2> QED BY <2>1, <2>2, <2>3, <2>4 DEF Exists
<1>2. CASE FinishReport(j)
  <2> DEFINE row == [job[j] EXCEPT !.status = "complete", !.listed = task[j].listed]
  <2>1. /\ row \in Rows /\ row.kind = job[j].kind /\ row.plan = job[j].plan
        /\ row.status = "complete" /\ row.listed = task[j].listed
    BY RowTyped, TaskTyped, Statuses4 DEF Rows, Tasks
  <2>2. Update(j, row) /\ End(j) /\ ~FailReport(j)
    BY <1>2 DEF FailReport, FinishReport, At
  <2> HIDE DEF row
  <2>3. job'[j] = IF Exists(j) THEN row ELSE job[j]
    BY <2>1, <2>2, UpdateRow
  <2>4. task'[j].pc = "free"
    BY <2>2, AfterEnd
  <2> QED BY <2>1, <2>2, <2>3, <2>4 DEF Exists
<1> QED BY <1>1, <1>2

LEMMA LateDataset ==
  ASSUME TypeOK, NEW j \in Job, Placed(j), Overdue(j), AtWork(j),
         \/ StartDataset(j) \/ Clear(j) \/ Look(j) \/ Checkpoint(j) \/ FinishDataset(j)
         \/ \E i \in Item : SaveBundle(j, i)
  PROVE  Overdue(j)' /\ AtWork(j)'
<1>1. Dataset(j) /\ UNCHANGED control /\ job[j].status # "none"
  BY AtPlace DEF StartDataset, Clear, Look, Checkpoint, FinishDataset, SaveBundle, Placed, At
<1>2. job'[j].kind = job[j].kind
  <2>1. CASE StartDataset(j)
    BY <2>1, RowTyped DEF StartDataset, TypeOK, Rows
  <2>2. CASE Checkpoint(j) \/ FinishDataset(j)
    BY <2>2, AfterCheckpoint, AfterDatasetEnd
  <2>3. CASE Clear(j) \/ Look(j) \/ \E i \in Item : SaveBundle(j, i)
    BY <2>3 DEF Clear, Look, SaveBundle
  <2> QED BY <2>1, <2>2, <2>3
<1>3. CASE ~\E i \in Item : SaveBundle(j, i)
  <2>1. UNCHANGED late
    BY <1>3 DEF StartDataset, Clear, Look, Checkpoint, FinishDataset
  <2>2. AtWork(j)'
    BY <1>1, <1>2, <2>1, AtWorkKept
  <2>3. CASE StartDataset(j) \/ Clear(j)
    <3>1. late[j] = 0
      BY <1>1, <2>3 DEF StartDataset, Clear, Overdue, At
    <3> QED BY <1>2, <2>1, <2>2, <3>1, OverdueKept
  <2>6. CASE FinishDataset(j)
    <3>1. task'[j].pc = "free" /\ (job'[j].status = "complete" \/ job'[j] = job[j])
      BY <2>6, AfterDatasetEnd DEF NoTask
    <3> QED BY <1>1, <1>2, <2>1, <2>2, <3>1 DEF Overdue, Asked, Dataset, At
  <2>4. CASE Look(j)
    <3>1. UNCHANGED job
      BY <2>4 DEF Look
    <3>2. late[j] # 0 => ~Asked(j) /\ task'[j].pc \in {"free", "finish"}
      BY <2>4, AfterLook DEF Overdue
    <3> QED BY <1>1, <2>1, <2>2, <3>1, <3>2 DEF Overdue, Asked, Dataset, At
  <2>5. CASE Checkpoint(j)
    <3>1. task'[j].pc = "loop" /\ job'[j].status = job[j].status
      BY <2>5, AfterCheckpoint
    <3> QED BY <1>1, <1>2, <2>1, <2>2, <3>1 DEF Overdue, Asked, Dataset, At
  <2> QED BY <1>3, <2>3, <2>4, <2>5, <2>6
<1>4. ASSUME NEW i \in Item, SaveBundle(j, i) PROVE Overdue(j)' /\ AtWork(j)'
  <2>1. At(j, "save") /\ UNCHANGED job
    BY <1>4 DEF SaveBundle
  <2>2. late[j] = 0
    BY <1>1, <2>1 DEF Overdue, At
  <2>3. /\ task'[j].pc \in {"checkpoint", "loop"}
        /\ late'[j] = late[j] \/ (~Asked(j) /\ late'[j] = late[j] + 1)
    BY <1>4, AfterSave, StoreLate
  <2>4. late'[j] = 0 \/ (~Asked(j) /\ late'[j] = 1)
    BY <2>2, <2>3
  <2>5. Busy(j)' = Busy(j)
    BY <1>1 DEF Busy
  <2>6. AtWork(j)'
    BY <1>1, <2>1, <2>5 DEF AtWork, Dataset
  <2>7. Overdue(j)'
    BY <1>1, <2>1, <2>3, <2>4 DEF Overdue, Asked, Dataset, At
  <2> QED BY <2>6, <2>7
<1> QED BY <1>3, <1>4

LEMMA LateReport ==
  ASSUME TypeOK, NEW j \in Job, Placed(j), Overdue(j), AtWork(j),
         \/ StartReportRun(j) \/ FailReport(j) \/ Family(j) \/ Repair(j) \/ FinishReport(j)
         \/ Raise(j) \/ \E f \in Files : SaveFile(j, f)
  PROVE  Overdue(j)' /\ AtWork(j)'
<1>1. ~At(j, "free") /\ job[j].status # "none"
  <2>1. ~At(j, "free")
    BY DEF StartReportRun, FailReport, Family, Repair, FinishReport, Raise, SaveFile, At
  <2> QED BY <2>1, AtPlace
<1>2. job'[j].kind = job[j].kind
  <2>1. CASE StartReportRun(j)
    BY <2>1, RowTyped DEF StartReportRun, TypeOK, Rows
  <2>2. CASE FailReport(j) \/ FinishReport(j)
    BY <2>2, AfterReportEnd
  <2>3. CASE Family(j) \/ Repair(j) \/ Raise(j) \/ \E f \in Files : SaveFile(j, f)
    BY <2>3 DEF Family, Repair, Raise, SaveFile
  <2> QED BY <2>1, <2>2, <2>3
<1>3. CASE ~\E f \in Files : SaveFile(j, f)
  <2>1. UNCHANGED late
    BY <1>3 DEF StartReportRun, FailReport, Family, Repair, FinishReport, Raise
  <2>2. \A i \in Item : control'[j][i] = control[j][i] \/ control'[j][i].step \in {"none", "todo"}
    <3>1. NoControl.step = "none" /\ [NoControl EXCEPT !.step = "todo"].step = "todo"
      BY DEF NoControl
    <3>2. CASE StartReportRun(j)
      <4>1. CASE Exists(j)
        BY <3>1, <3>2, <4>1, AfterReportStart
      <4>2. CASE ~Exists(j)
        BY <3>2, <4>2 DEF StartReportRun
      <4> QED BY <4>1, <4>2
    <3>3. CASE Repair(j)
      BY <3>1, <3>3, AfterRepair
    <3>4. CASE FailReport(j) \/ Family(j) \/ FinishReport(j) \/ Raise(j)
      BY <3>4 DEF FailReport, Family, FinishReport, Raise
    <3> QED BY <1>3, <3>2, <3>3, <3>4
  <2>3. \A i \in Item : control'[j][i].step \in Steps =>
                           control[j][i].step \in Steps /\
                           (control'[j][i].step = "write" => control[j][i].step = "write")
    BY <2>2 DEF Steps
  <2>4. AtWork(j)'
    BY <1>2, <2>1, <2>3, AtWorkKept
  <2>5. CASE StartReportRun(j)
    <3>1. late[j] = 0
      BY <2>5 DEF StartReportRun, Overdue
    <3> QED BY <1>2, <2>1, <2>4, <3>1, OverdueKept
  <2>6. CASE Family(j)
    <3>1. job[j].kind = "guide" /\ At(j, "loop")
      BY <2>6, AtPlace DEF Family
    <3>2. late[j] = 0
      BY <3>1 DEF Overdue, At
    <3> QED BY <1>2, <2>1, <2>4, <3>2, OverdueKept
  <2>7. CASE FailReport(j) \/ FinishReport(j)
    <3>1. task'[j].pc = "free" /\ job'[j].status \in {"failed", "complete", "gone"}
      BY <2>7, AfterReportEnd
    <3> QED BY <1>2, <2>1, <2>4, <3>1, OverdueKept
  <2>8. CASE Repair(j)
    <3>1. UNCHANGED job /\ task'[j].pc \in {"controls", "finish"} /\ job[j].kind = "artifacts"
      BY <2>8, AfterRepair, AtPlace DEF Repair
    <3> QED BY <2>1, <2>4, <3>1 DEF Overdue, Asked, Dataset, At
  <2>9. CASE Raise(j)
    <3>1. UNCHANGED job /\ (task'[j].pc = "free" \/ (~Dataset(j) /\ task'[j].pc = "raised"))
      BY <2>9, AfterEnd, AfterGoto DEF Raise
    <3> QED BY <2>1, <2>4, <3>1 DEF Overdue, Asked, Dataset, At
  <2> QED BY <1>3, <2>5, <2>6, <2>7, <2>8, <2>9
<1>4. ASSUME NEW f \in Files, SaveFile(j, f) PROVE Overdue(j)' /\ AtWork(j)'
  <2>1. UNCHANGED <<job, control>>
    BY <1>4 DEF SaveFile
  <2>2. task[j].pc \in {"file 1", "file 2"}
    BY <1>4, AfterFile DEF At
  <2>3. job[j].kind = "guide"
    BY <2>2, AtPlace
  <2>6. late'[j] = late[j] \/ (~Asked(j) /\ late'[j] = late[j] + 1)
    <3>1. <<"guide", f>> \in Name
      BY NameKinds
    <3>2. CASE Store(j, <<"guide", f>>)
      BY <3>1, <3>2, StoreLate
    <3>3. CASE UNCHANGED late
      BY <3>3
    <3> QED BY <1>4, <3>2, <3>3, AfterFile
  <2>4. CASE f = 1
    <3>1. task[j].pc = "file 1" /\ task'[j].pc = "file 2"
      BY <1>4, <2>4, AfterFile DEF At
    <3>2. late[j] = 0
      BY <2>3, <3>1 DEF Overdue
    <3>3. late'[j] = 0 \/ (~Asked(j) /\ late'[j] = 1)
      BY <2>6, <3>2
    <3> QED BY <1>1, <2>1, <2>3, <3>1, <3>3 DEF Overdue, Asked, Dataset, At, AtWork, Busy
  <2>5. CASE f = 2
    <3>0. f # 1
      BY <2>5
    <3>1. task[j].pc = "file 2" /\ task'[j].pc = "finish"
      BY <1>4, <3>0, AfterFile DEF At
    <3>2. late[j] \in {0, 1} /\ (late[j] # 0 => ~Asked(j))
      BY <2>3, <3>1 DEF Overdue, At
    <3>3. late'[j] = late[j] \/ (~Asked(j) /\ late'[j] \in {1, 2})
      BY <3>2, <2>6
    <3>4. late'[j] \in {0, 1, 2} /\ (late'[j] # 0 => ~Asked(j))
      BY <3>2, <3>3
    <3> QED BY <1>1, <2>1, <2>3, <3>1, <3>4 DEF Overdue, Asked, Dataset, At, AtWork, Busy
  <2> QED BY <2>4, <2>5 DEF Files
<1> QED BY <1>3, <1>4

\* The controls of a report: those that are asked to write are counted as long as the job
\* is asked to run; afterwards none is added.
LEMMA LateControl ==
  ASSUME TypeOK, NEW j \in Job, Placed(j), Overdue(j), AtWork(j), NEW i \in Item, ControlStep(j, i)
  PROVE  Overdue(j)' /\ AtWork(j)'
<1>0. late[j] \in Nat /\ Workers \in Nat \ {0}
  BY SizeAssumption DEF TypeOK
<1>1. /\ job[j].kind = "artifacts" /\ control[j][i].step \in Steps \cup {"todo"}
      /\ job[j].status # "none" /\ task[j].pc # "start"
  BY AfterControl DEF Placed, Idle, At, Steps
<1>2. /\ job'[j].kind = job[j].kind /\ job'[j].status = job[j].status
      /\ task'[j].pc = task[j].pc \/ task'[j].pc = "raised"
  <2>1. CASE Record(j, i)
    BY <2>1, RowTyped, TaskTyped DEF Record, Update, TypeOK, Rows, Tasks
  <2>2. CASE RaiseControl(j, i)
    BY <2>2, AfterGoto DEF RaiseControl
  <2>3. CASE ~Record(j, i) /\ ~RaiseControl(j, i)
    BY <2>3 DEF ControlStep, Take, LookControl, WriteControl, OpenProof, CompleteProof, RemoveProof
  <2> QED BY <2>1, <2>2, <2>3
<1>3. /\ Cardinality(Busy(j)) \in Nat /\ Cardinality(Writing(j)) \in Nat
      /\ IsFiniteSet(Busy(j)) /\ IsFiniteSet(Writing(j)) /\ Writing(j) \subseteq Busy(j)
  BY ControlSets
<1>4. \A h \in Item : h # i => control'[j][h] = control[j][h]
  BY AfterControl
<1> DEFINE b == Cardinality(Busy(j))
           w == Cardinality(Writing(j))
           bb == Cardinality(Busy(j)')
           ww == Cardinality(Writing(j)')
<1>11. b <= Workers /\ late[j] + w <= Workers
  BY <1>1 DEF AtWork
<1>12. AtWork(j)' <=> (bb <= Workers /\ late'[j] + ww <= Workers)
  BY <1>1, <1>2 DEF AtWork
<1>13. ASSUME late'[j] = 0 \/ (late'[j] \in Nat /\ ~Asked(j)) PROVE Overdue(j)'
  BY <1>1, <1>2, <1>13 DEF Overdue, Asked, Dataset, At
<1>14. late[j] = 0 \/ ~Asked(j)
  BY DEF Overdue
<1>5. ASSUME late' = late, control'[j][i].step # "write",
             control[j][i].step \in Steps \/ control'[j][i].step \notin Steps
      PROVE  Overdue(j)' /\ AtWork(j)'
  <2>1. AtWork(j)'
    BY <1>2, <1>4, <1>5, AtWorkKept
  <2> QED BY <1>0, <1>5, <1>13, <1>14, <2>1
<1>6. ASSUME Take(j, i) \/ LookControl(j, i), Asked(j) PROVE Overdue(j)' /\ AtWork(j)'
  <2>1. late[j] = 0
    BY <1>6, <1>14
  <2>2. late'[j] = 0
    BY <1>6, <2>1 DEF Take, LookControl
  <2>3. Move(j, i, "write")
    BY <1>6 DEF Take, LookControl
  <2>4. control'[j][i].step = "write"
    BY <2>3, MoveOnly
  <2>5. Busy(j)' = Busy(j) \cup {i} /\ Writing(j)' \subseteq Busy(j)'
    BY <1>4, <2>4 DEF Busy, Writing, Steps
  <2>6. IsFiniteSet(Busy(j)') /\ bb \in Nat /\ bb <= Workers
    <3>1. CASE i \in Busy(j)
      <4>1. Busy(j)' = Busy(j)
        BY <2>5, <3>1
      <4> QED BY <1>3, <1>11, <4>1
    <3>2. CASE i \notin Busy(j)
      <4>1. Cardinality(Busy(j) \cup {i}) = Cardinality(Busy(j)) + 1 /\ IsFiniteSet(Busy(j) \cup {i})
        BY <1>3, <3>2, FS_AddElement, Zenon
      <4>2. Take(j, i)
        BY <1>6, <3>2 DEF LookControl, Busy, Steps
      <4>3. bb = b + 1 /\ IsFiniteSet(Busy(j)')
        BY <2>5, <4>1
      <4>4. b < Workers
        <5>1. CASE task[j].repair
          <6>1. Busy(j) = {}
            BY <4>2, <5>1 DEF Take
          <6>2. b = 0
            BY <6>1, FS_EmptySet
          <6> HIDE DEF b
          <6> QED BY <1>0, <6>2
        <5>2. CASE ~task[j].repair
          BY <4>2, <5>2 DEF Take
        <5> QED BY <5>1, <5>2
      <4>5. b \in Nat
        BY <1>3
      <4> HIDE DEF b, bb
      <4> QED BY <1>0, <4>3, <4>4, <4>5
    <3> QED BY <3>1, <3>2
  <2>7. ww <= bb /\ ww \in Nat
    BY <2>5, <2>6, Fewer
  <2> HIDE DEF bb, ww
  <2>8. bb <= Workers /\ 0 + ww <= Workers
    BY <1>0, <2>6, <2>7
  <2> QED BY <1>12, <1>13, <2>2, <2>8
<1>8. ASSUME WriteControl(j, i) PROVE Overdue(j)' /\ AtWork(j)'
  <2>1. control[j][i].step = "write" /\ control'[j][i].step = "prove"
    BY <1>8, AfterWrite DEF WriteControl
  <2>2. Busy(j)' = Busy(j) /\ Writing(j)' = Writing(j) \ {i} /\ i \in Writing(j)
    BY <1>4, <2>1 DEF Busy, Writing, Steps
  <2>3. Cardinality(Writing(j) \ {i}) = Cardinality(Writing(j)) - 1
    BY <1>3, <2>2, FS_RemoveElement, Zenon
  <2>4. (Asked(j) /\ late'[j] = late[j]) \/ (~Asked(j) /\ late'[j] = late[j] + 1)
    BY <1>8, StoreLate DEF WriteControl
  <2>5. bb = b /\ ww = w - 1 /\ w \in Nat
    BY <1>3, <2>2, <2>3
  <2> HIDE DEF b, bb, w, ww
  <2>6. bb <= Workers /\ late'[j] + ww <= Workers
    BY <1>0, <1>11, <2>4, <2>5
  <2>7. late'[j] = 0 \/ (late'[j] \in Nat /\ ~Asked(j))
    BY <1>0, <1>14, <2>4
  <2> QED BY <1>12, <1>13, <2>6, <2>7
<1>9. ASSUME Take(j, i) \/ LookControl(j, i), ~Asked(j) PROVE Overdue(j)' /\ AtWork(j)'
  <2>1. Move(j, i, "failed") /\ late' = late
    BY <1>9 DEF Take, LookControl
  <2>2. control'[j][i].step = "failed"
    BY <2>1, MoveOnly
  <2> QED BY <1>5, <2>1, <2>2 DEF Steps
<1>10. ASSUME OpenProof(j, i) \/ CompleteProof(j, i) \/ RemoveProof(j, i) \/ Record(j, i) \/ RaiseControl(j, i)
       PROVE  Overdue(j)' /\ AtWork(j)'
  <2>1. control[j][i].step \in Steps
    BY <1>10 DEF OpenProof, CompleteProof, RemoveProof, Record, RaiseControl, Steps
  <2>2. RemoveProof(j, i) \/ \E s \in {"assess", "remove", "passed", "failed", "raised"} : Move(j, i, s)
    BY <1>10 DEF OpenProof, CompleteProof, Record, RaiseControl
  <2>3. control'[j][i].step # "write"
    <3>1. CASE RemoveProof(j, i)
      BY <3>1, AfterRemove
    <3>2. ASSUME NEW s \in {"assess", "remove", "passed", "failed", "raised"}, Move(j, i, s)
          PROVE  control'[j][i].step # "write"
      <4>1. control'[j][i].step = s
        BY <3>2, MoveOnly
      <4> QED BY <4>1
    <3> QED BY <2>2, <3>1, <3>2
  <2>4. late' = late
    BY <1>10 DEF OpenProof, CompleteProof, RemoveProof, Record, RaiseControl
  <2> QED BY <1>5, <2>1, <2>3, <2>4
<1> QED BY <1>6, <1>8, <1>9, <1>10 DEF ControlStep

LEMMA LateStep ==
  ASSUME TypeOK, PlaceInv, LateInv, [Next]_vars
  PROVE  LateInv'
<1> SUFFICES ASSUME NEW k \in Job PROVE Overdue(k)' /\ AtWork(k)'
  BY DEF LateInv
<1>0. Overdue(k) /\ AtWork(k) /\ Placed(k)
  BY DEF LateInv, PlaceInv
<1>1. CASE UNCHANGED vars
  <2>1. Calm(k)
    BY <1>1 DEF Calm, vars
  <2> QED BY <1>0, <2>1, CalmLate
<1>2. ASSUME NEW kind \in Kinds, NEW plan \in SUBSET Item, StartReport(kind, plan) \/ InsertDataset(plan)
      PROVE  Overdue(k)' /\ AtWork(k)'
  <2>1. UNCHANGED <<docs, running, cancelling, history>>
    BY <1>2 DEF StartReport, InsertDataset
  <2>5. PICK type \in Kinds : Insert(type, plan)
    BY <1>2 DEF StartReport, InsertDataset, Kinds
  <2>2. PICK j \in Job :
            /\ job[j].status = "none"
            /\ job'[j] = [NoRow EXCEPT !.kind = type, !.status = "pending", !.plan = plan]
            /\ \A h \in Job : h # j => Calm(h)
    BY <2>1, <2>5, Inserted, ZenonT(60)
  <2>3. CASE k # j
    BY <1>0, <2>2, <2>3, CalmLate
  <2>4. CASE k = j
    <3>1. late'[k] = 0 /\ \A i \in Item : control'[k][i].step = "none"
      BY <1>0, <2>1, <2>2, <2>4 DEF Overdue, Placed, Idle
    <3>2. Busy(k)' = {} /\ Writing(k)' = {}
      BY <3>1 DEF Busy, Writing, Steps
    <3>3. Cardinality(Busy(k)') = 0 /\ Cardinality(Writing(k)') = 0
      BY <3>2, FS_EmptySet
    <3>4. 0 <= Workers /\ 0 + 0 <= Workers
      BY SizeAssumption
    <3> QED BY <3>1, <3>3, <3>4 DEF Overdue, AtWork
  <2> QED BY <2>3, <2>4
<1>3. CASE Supersede
  <2>1. CASE Calm(k)
    BY <1>0, <2>1, CalmLate
  <2>2. CASE job'[k].status = "cancelled" /\ job'[k].kind = job[k].kind
    <3>1. UNCHANGED <<task, control, late>>
      BY <1>3 DEF Supersede
    <3>2. AtWork(k)'
      BY <1>0, <2>2, <3>1, AtWorkKept
    <3> QED BY <1>0, <2>2, <3>1, <3>2 DEF Overdue, Asked, Dataset, At
  <2> QED BY <1>3, <2>1, <2>2, SupersedeRows
<1>4. CASE DeleteDocs
  BY <1>0, <1>4, CalmLate, DeleteDocsCalm
<1>5. CASE Recover
  <2>1. /\ UNCHANGED <<task, control, late>> /\ job'[k].kind = job[k].kind
        /\ job'[k].status = job[k].status \/ job[k].status = "running"
    BY <1>5, RowTyped DEF Recover, Rows
  <2>2. AtWork(k)'
    BY <1>0, <2>1, AtWorkKept
  <2> QED BY <1>0, <2>1, <2>2 DEF Overdue, Asked, Dataset, At
<1>6. CASE Crash
  <2>1. /\ UNCHANGED <<job, late>> /\ task'[k].pc = "free"
        /\ \A i \in Item : control'[k][i].step = "none"
    BY <1>6 DEF Crash, NoTask, NoControl
  <2>2. AtWork(k)'
    BY <1>0, <2>1, AtWorkKept DEF Steps
  <2> QED BY <1>0, <2>1, <2>2 DEF Overdue, Asked, Dataset, At
<1>7. ASSUME NEW j \in Job, JobStep(j) PROVE Overdue(k)' /\ AtWork(k)'
  <2>1. CASE k # j
    BY <1>0, <1>7, <2>1, Others, CalmLate
  <2>2. CASE k = j
    BY <1>0, <1>7, <2>2, LateRequest, LateDataset, LateReport, LateControl DEF JobStep, Progress
  <2> QED BY <2>1, <2>2
<1> QED BY <1>1, <1>2, <1>3, <1>4, <1>5, <1>6, <1>7, StepKinds

LEMMA LateBound == TypeOK /\ LateInv => StopsSoon
<1> SUFFICES ASSUME TypeOK, LateInv, NEW j \in Job
             PROVE  late[j] <= CASE job[j].kind = "dataset" -> 1
                     [] job[j].kind = "guide" -> Cardinality(Files)
                     [] job[j].kind \notin {"dataset", "guide"} -> Workers
  BY DEF StopsSoon
<1>1. Overdue(j) /\ AtWork(j)
  BY DEF LateInv
<1>2. CASE job[j].kind = "dataset"
  <2>1. late[j] \in {0, 1}
    BY <1>1, <1>2 DEF Overdue, Dataset
  <2> QED BY <1>2, <2>1
<1>3. CASE job[j].kind = "guide"
  <2>1. late[j] \in {0, 1, 2}
    BY <1>1, <1>3 DEF Overdue
  <2>2. Cardinality(Files) = 2
    <3>1. IsFiniteSet({}) /\ Cardinality({}) = 0
      BY FS_EmptySet
    <3>2. IsFiniteSet({1}) /\ Cardinality({1}) = 1
      BY FS_Singleton
    <3>3. Cardinality({1} \cup {2}) = 1 + 1
      <4>1. 2 \notin {1}
        OBVIOUS
      <4> QED BY <3>2, <4>1, FS_AddElement, Zenon
    <3>4. Files = {1} \cup {2}
      BY DEF Files
    <3> QED BY <3>3, <3>4
  <2> QED BY <1>3, <2>1, <2>2
<1>4. CASE job[j].kind \notin {"dataset", "guide"}
  <2>1. late[j] + Cardinality(Writing(j)) <= Workers
    BY <1>1, <1>4 DEF AtWork
  <2>2. late[j] \in Nat /\ Workers \in Nat /\ Cardinality(Writing(j)) \in Nat
    BY ControlSets, SizeAssumption DEF TypeOK
  <2>3. late[j] <= Workers
    BY <2>1, <2>2
  <2> QED BY <1>4, <2>3
<1> QED BY <1>2, <1>3, <1>4

\* After a cancel, a deletion or a failure a job stores no more than what it had under way,
\* for any number of controls worked on at a time.
THEOREM JobsStopSoon == Spec => []StopsSoon
<1>1. TypeOK /\ PlaceInv /\ LateInv /\ [Next]_vars => LateInv'
  BY LateStep
<1> QED BY <1>1, JobsAreTyped, PlaceInvariant, InitLate, LateBound, PTL DEF Spec

----------------------------------------------------------------------------
(* What a job knows of its documents.                                      *)

LEMMA KnownKept ==
  ASSUME NEW j \in Job, Known(j),
         job'[j].errors \subseteq task[j].errors, job'[j].plan = job[j].plan,
         task'[j].tried = task[j].tried, task'[j].listed = task[j].listed,
         task'[j].entries = task[j].entries, task'[j].errors = task[j].errors,
         \A n \in Name : docs'[n] = j => docs[n] = j,
         task'[j].pc = "finish" => job[j].plan \subseteq task[j].tried
  PROVE  Known(j)'
<1>1. \A i \in Item : docs'[<<"dataset", i>>] = j => docs[<<"dataset", i>>] = j
  BY NameKinds
<1> QED BY <1>1 DEF Known, At

LEMMA WorkedKept ==
  ASSUME NEW j \in Job, Worked(j),
         control'[j] = control[j], job'[j].plan = job[j].plan,
         \A n \in Name : docs'[n] = j => docs[n] = j,
         task'[j].pc = task[j].pc \/ task'[j].pc \notin {"controls", "finish"},
         task'[j].listed = task[j].listed \/ task'[j].pc \notin {"controls", "finish"},
         j \in stopped => j \in stopped'
  PROVE  Worked(j)'
<1>1. \A i \in Item : docs'[<<"artifacts", i>>] = j => docs[<<"artifacts", i>>] = j
  BY NameKinds
<1>2. \A i \in Item : control'[j][i] = control[j][i]
  OBVIOUS
<1>3. ASSUME NEW i \in Item
      PROVE  /\ control'[j][i].step = "raised" => task'[j].pc # "controls"
             /\ control'[j][i].step \in Steps \ {"write"} => control'[j][i].stored
             /\ task'[j].pc = "controls" /\ i \in job'[j].plan => control'[j][i].step # "none"
             /\ task'[j].pc = "finish" => control'[j][i].step = "none"
  <2> DEFINE c == control[j][i]
  <2>1. control'[j][i] = c
    OBVIOUS
  <2>2. /\ c.step = "raised" => task[j].pc # "controls"
        /\ c.step \in Steps \ {"write"} => c.stored
        /\ task[j].pc = "controls" /\ i \in job[j].plan => c.step # "none"
        /\ task[j].pc = "finish" => c.step = "none"
    BY DEF Worked, At
  <2> HIDE DEF c
  <2> QED BY <2>1, <2>2
<1>4. ASSUME NEW i \in Item, j \notin stopped', docs'[<<"artifacts", i>>] = j,
             task'[j].pc \in {"controls", "finish"}
      PROVE  <<"artifacts", i>> \in task'[j].listed \/ control'[j][i].step \in Steps \cup {"todo"}
  BY <1>1, <1>2, <1>4 DEF Worked
<1> QED BY <1>3, <1>4 DEF Worked, At

LEMMA WorkedIdle ==
  ASSUME NEW j \in Job, \A i \in Item : control'[j][i].step = "none",
         task'[j].pc \notin {"controls", "finish"}
  PROVE  Worked(j)'
BY DEF Worked, At, Steps

LEMMA CalmRemembered ==
  ASSUME NEW k \in Job, Remembered(k), Calm(k)
  PROVE  Remembered(k)'
<1>1. /\ job'[k] = job[k] /\ task'[k] = task[k] /\ control'[k] = control[k]
      /\ \A n \in Name : docs'[n] = k => docs[n] = k
      /\ k \in stopped' <=> k \in stopped
  BY DEF Calm
<1>2. Dataset(k) /\ task[k].pc \notin {"free", "start"} => Known(k)'
  <2> SUFFICES ASSUME Dataset(k), task[k].pc \notin {"free", "start"} PROVE Known(k)'
    OBVIOUS
  <2>1. Known(k)
    BY DEF Remembered
  <2>2. job[k].errors \subseteq task[k].errors /\ (At(k, "finish") => job[k].plan \subseteq task[k].tried)
    BY <2>1 DEF Known
  <2> QED BY <1>1, <2>1, <2>2, KnownKept DEF At
<1>3. job[k].kind = "artifacts" => Worked(k)'
  BY <1>1, WorkedKept DEF Remembered
<1>4. Accounted(k) => Accounted(k)'
  BY <1>1 DEF Accounted, Dataset
<1>5. Idle(k)' = Idle(k) /\ Dataset(k)' = Dataset(k) /\ At(k, "free")' = At(k, "free")
  BY <1>1 DEF Idle, At, Dataset
<1> QED BY <1>1, <1>2, <1>3, <1>4, <1>5 DEF Remembered

LEMMA InitRemembered == Init => ListInv
<1> SUFFICES ASSUME Init, NEW j \in Job PROVE Remembered(j)
  BY DEF ListInv
<1>1. /\ At(j, "free") /\ ~Dataset(j) /\ job[j].kind # "artifacts" /\ job[j].status # "complete"
  BY DEF Init, At, Dataset, NoTask, NoRow
<1> QED BY <1>1 DEF Remembered

\* A job that is complete and was never stopped has no step of its own left but a request's.
LEMMA CompleteRests ==
  ASSUME NEW j \in Job, Remembered(j),
         ~At(j, "free") \/ \E i \in Item : control[j][i].step # "none"
  PROVE  j \notin stopped => job[j].status # "complete"
BY DEF Remembered, Idle

LEMMA RememberedRequest ==
  ASSUME TypeOK, NEW j \in Job, Placed(j), Remembered(j),
         CancelCheck(j) \/ CancelCommit(j) \/ Delete(j) \/ Claim(j)
  PROVE  Remembered(j)'
<1>1. CASE CancelCheck(j)
  <2>1. /\ UNCHANGED <<job, docs, task, control, stopped>>
    BY <1>1 DEF CancelCheck
  <2> QED BY <2>1 DEF Remembered, Known, Worked, Accounted, Idle, At, Dataset
<1>2. ASSUME UNCHANGED <<task, control>>, j \in stopped',
             job'[j].kind = job[j].kind, job'[j].plan = job[j].plan,
             job'[j].errors \in {job[j].errors, {}}, job'[j].listed = job[j].listed \/ job'[j].entries = {},
             job'[j].entries \in {job[j].entries, {}},
             \A n \in Name : docs'[n] = j => docs[n] = j
      PROVE  Remembered(j)'
  <2>1. Dataset(j)' = Dataset(j) /\ At(j, "free")' = At(j, "free")
    BY <1>2 DEF Dataset, At
  <2>2. Dataset(j) => \A i \in job'[j].entries : <<"dataset", i>> \in job'[j].listed
    BY <1>2 DEF Remembered
  <2>3. Dataset(j) /\ task[j].pc \notin {"free", "start"} => Known(j)'
    <3> SUFFICES ASSUME Dataset(j), task[j].pc \notin {"free", "start"} PROVE Known(j)'
      OBVIOUS
    <3>1. Known(j)
      BY DEF Remembered
    <3>2. job[j].errors \subseteq task[j].errors /\ (task[j].pc = "finish" => job[j].plan \subseteq task[j].tried)
      BY <3>1 DEF Known, At
    <3>3. job'[j].errors \subseteq task[j].errors
      BY <1>2, <3>2
    <3>4. task'[j] = task[j]
      BY <1>2
    <3> QED BY <1>2, <3>1, <3>2, <3>3, <3>4, KnownKept
  <2>4. job[j].kind = "artifacts" => Worked(j)'
    <3>1. task'[j] = task[j] /\ control'[j] = control[j]
      BY <1>2
    <3> QED BY <1>2, <3>1, WorkedKept DEF Remembered
  <2> QED BY <1>2, <2>1, <2>2, <2>3, <2>4 DEF Remembered
<1>3. CASE CancelCommit(j)
  <2> DEFINE s == IF Dataset(j) THEN "cancelled" ELSE "failed"
  <2>1. /\ UNCHANGED <<task, control, docs>> /\ stopped' = stopped \cup {j}
        /\ job' = IF Exists(j) THEN [job EXCEPT ![j].status = s] ELSE job
    BY <1>3 DEF CancelCommit
  <2> HIDE DEF s
  <2>2. /\ job'[j].kind = job[j].kind /\ job'[j].plan = job[j].plan /\ job'[j].errors = job[j].errors
        /\ job'[j].listed = job[j].listed /\ job'[j].entries = job[j].entries
    BY <2>1, RowTyped DEF Rows, TypeOK
  <2> QED BY <1>2, <2>1, <2>2
<1>4. CASE Delete(j)
  <2> DEFINE row == [NoRow EXCEPT !.kind = job[j].kind, !.plan = job[j].plan, !.status = "gone"]
  <2>1. /\ UNCHANGED <<task, control>> /\ stopped' = stopped \cup {j}
        /\ job' = [job EXCEPT ![j] = row]
    BY <1>4 DEF Delete
  <2>2. row.kind = job[j].kind /\ row.plan = job[j].plan /\ row.errors = {} /\ row.entries = {}
    BY DEF NoRow
  <2> HIDE DEF row
  <2>3. job'[j] = row
    BY <2>1 DEF TypeOK
  <2>4. \A n \in Name : docs'[n] = j => docs[n] = j
    BY <1>4, RemoveOnly DEF Delete
  <2> QED BY <1>2, <2>1, <2>2, <2>3, <2>4
<1>5. CASE Claim(j)
  <2>1. /\ UNCHANGED <<docs, control, stopped>> /\ job[j].status = "pending"
        /\ job' = [job EXCEPT ![j].status = "running"]
        /\ task' = [task EXCEPT ![j].pc = "start"]
    BY <1>5 DEF Claim
  <2>2. /\ job'[j].kind = job[j].kind /\ job'[j].listed = job[j].listed
        /\ job'[j].entries = job[j].entries /\ job'[j].status = "running"
    BY <2>1, RowTyped DEF Rows, TypeOK
  <2>3. task'[j].pc = "start"
    BY <2>1, TaskTyped DEF Tasks, TypeOK
  <2>4. \A i \in Item : control'[j][i].step = "none"
    BY <2>1 DEF Placed, Idle
  <2>5. Worked(j)'
    BY <2>3, <2>4, WorkedIdle
  <2> QED BY <2>1, <2>2, <2>3, <2>5 DEF Remembered, At, Dataset
<1> QED BY <1>1, <1>3, <1>4, <1>5

\* A dataset job's own steps.
LEMMA RunsOn ==
  ASSUME TypeOK, NEW j \in Job, Placed(j), Remembered(j), ~At(j, "free"), j \notin stopped
  PROVE  job[j].status = "running" /\ Exists(j) /\ Asked(j)
BY DEF Remembered, Exists, Asked

LEMMA KeptRow ==
  ASSUME NEW j \in Job, Remembered(j), ~At(j, "free"), UNCHANGED <<job, stopped>>,
         Dataset(j) /\ task'[j].pc \notin {"free", "start"} => Known(j)',
         job[j].kind = "artifacts" => Worked(j)'
  PROVE  Remembered(j)'
<1>1. j \notin stopped => job[j].status = "running"
  BY DEF Remembered
<1>2. /\ job'[j] = job[j] /\ stopped' = stopped /\ Dataset(j)' = Dataset(j)
      /\ (At(j, "free"))' <=> task'[j].pc = "free"
  BY DEF Dataset, At
<1> QED BY <1>1, <1>2 DEF Remembered, At

LEMMA NameSplit ==
  ASSUME NEW n \in Name, n[1] # "guide"
  PROVE  n[2] \in Item /\ n = <<n[1], n[2]>>
<1>1. CASE n \in {"dataset", "artifacts"} \X Item
  BY <1>1
<1>2. CASE n \in {"guide"} \X Files
  BY <1>2
<1> QED BY <1>1, <1>2 DEF Name

LEMMA SavedKnown ==
  ASSUME TypeOK, NEW j \in Job, Known(j), NEW i \in Item, SaveBundle(j, i)
  PROVE  Known(j)'
<1> DEFINE n == <<"dataset", i>>
<1>1. /\ task'[j].pc \in {"checkpoint", "loop"} /\ task'[j].tried = task[j].tried \cup {i}
      /\ UNCHANGED job
      /\ \/ /\ Store(j, n) /\ task'[j].listed = task[j].listed \cup {n}
            /\ task'[j].entries = task[j].entries \cup {i} /\ task'[j].errors = task[j].errors
         \/ /\ UNCHANGED <<docs, late>>
            /\ task'[j].listed = task[j].listed /\ task'[j].entries = task[j].entries
            /\ task'[j].errors = task[j].errors \cup {i}
  <2>1. UNCHANGED job
    BY DEF SaveBundle
  <2> QED BY <2>1, AfterSave
<1>2. n \in Name /\ \A h \in Item : <<"dataset", h>> \in Name /\ (<<"dataset", h>> = n => h = i)
  BY NameKinds
<1>3. \A m \in Name : docs'[m] = j => docs[m] = j \/ m = n
  <2>1. CASE Store(j, n)
    BY <1>2, <2>1, StoreOnly
  <2>2. CASE UNCHANGED docs
    BY <2>2
  <2> QED BY <1>1, <2>1, <2>2
<1>4. task'[j].tried \subseteq task'[j].entries \cup task'[j].errors
  BY <1>1 DEF Known
<1>5. \A h \in task'[j].entries : <<"dataset", h>> \in task'[j].listed
  BY <1>1 DEF Known
<1>6. job'[j].errors \subseteq task'[j].errors
  BY <1>1 DEF Known
<1>7. ASSUME NEW h \in Item, docs'[<<"dataset", h>>] = j, h \in task'[j].tried
      PROVE  <<"dataset", h>> \in task'[j].listed \/ h \in task'[j].errors
  <2>1. CASE h = i
    BY <1>1, <2>1
  <2>2. CASE h # i
    <3>1. docs[<<"dataset", h>>] = j /\ h \in task[j].tried
      BY <1>1, <1>2, <1>3, <1>7, <2>2
    <3>2. <<"dataset", h>> \in task[j].listed \/ h \in task[j].errors
      BY <3>1 DEF Known
    <3> QED BY <1>1, <3>2
  <2> QED BY <2>1, <2>2
<1>8. task'[j].pc # "finish"
  BY <1>1
<1> QED BY <1>4, <1>5, <1>6, <1>7, <1>8 DEF Known, At

LEMMA RememberedDataset ==
  ASSUME TypeOK, NEW j \in Job, Placed(j), Remembered(j),
         \/ StartDataset(j) \/ Clear(j) \/ Look(j) \/ Checkpoint(j) \/ FinishDataset(j)
         \/ \E i \in Item : SaveBundle(j, i)
  PROVE  Remembered(j)'
<1>1. Dataset(j) /\ ~At(j, "free") /\ UNCHANGED <<control, stopped>> /\ job[j].kind # "artifacts"
  <2>1. Dataset(j) /\ ~At(j, "free") /\ UNCHANGED <<control, stopped>>
    BY AtPlace DEF StartDataset, Clear, Look, Checkpoint, FinishDataset, SaveBundle, At
  <2> QED BY <2>1 DEF Dataset
<1>2. CASE StartDataset(j)
  <2>1. CASE Exists(j)
    <3>1. /\ task'[j].pc = "clear" /\ task'[j].listed = job[j].listed
          /\ task'[j].entries = job[j].entries /\ task'[j].errors = job[j].errors
          /\ task'[j].tried = {} /\ job' = [job EXCEPT ![j].status = "running"]
      BY <1>2, <2>1, AfterStart
    <3>2. /\ job'[j].kind = job[j].kind /\ job'[j].listed = job[j].listed
          /\ job'[j].entries = job[j].entries /\ job'[j].status = "running"
          /\ job'[j].errors = job[j].errors /\ job'[j].plan = job[j].plan
      BY <3>1, RowTyped DEF Rows, TypeOK
    <3>3. \A i \in job[j].entries : <<"dataset", i>> \in job[j].listed
      BY <1>1 DEF Remembered
    <3>4. Known(j)'
      BY <3>1, <3>2, <3>3 DEF Known, At
    <3> QED BY <1>1, <3>1, <3>2, <3>3, <3>4 DEF Remembered, At, Dataset
  <2>2. CASE ~Exists(j)
    <3>1. UNCHANGED job /\ task'[j].pc = "free"
      BY <1>2, <2>2, AfterEnd DEF StartDataset
    <3> QED BY <1>1, <3>1, KeptRow
  <2> QED BY <2>1, <2>2
<1>3. ASSUME task[j].pc \notin {"free", "start"} PROVE Known(j)
  BY <1>1, <1>3 DEF Remembered
<1>4. CASE Clear(j)
  <2>1. /\ task' = [task EXCEPT ![j].pc = "loop", ![j].prev = NoJob, ![j].clear = {}]
        /\ UNCHANGED job /\ At(j, "clear")
    BY <1>4 DEF Clear
  <2>2. /\ task'[j].pc = "loop" /\ task'[j].tried = task[j].tried /\ task'[j].listed = task[j].listed
        /\ task'[j].entries = task[j].entries /\ task'[j].errors = task[j].errors
    BY <2>1, TaskTyped DEF Tasks, TypeOK
  <2>3. \A n \in Name : docs'[n] = j => docs[n] = j
    BY <1>4, RemoveOnly DEF Clear
  <2>4. Known(j)
    BY <1>3, <2>1 DEF At
  <2>5. job'[j].errors \subseteq task[j].errors /\ job'[j].plan = job[j].plan
    BY <2>1, <2>4 DEF Known
  <2>6. Known(j)'
    BY <2>2, <2>3, <2>4, <2>5, KnownKept
  <2> QED BY <1>1, <2>1, <2>6, KeptRow
<1>5. CASE Look(j)
  <2>1. /\ UNCHANGED <<job, docs>> /\ At(j, "loop")
    BY <1>5 DEF Look
  <2>2. CASE task'[j].pc = "free"
    BY <1>1, <2>1, <2>2, KeptRow
  <2>3. CASE task'[j].pc # "free"
    <3>1. /\ task'[j].listed = task[j].listed /\ task'[j].entries = task[j].entries
          /\ task'[j].errors = task[j].errors
          /\ \E more \in SUBSET task[j].entries : task'[j].tried = task[j].tried \cup more
          /\ task'[j].pc = "finish" => job[j].plan \subseteq task[j].tried
      <4>1. task[j].tried = task[j].tried \cup {} /\ {} \in SUBSET task[j].entries
        OBVIOUS
      <4> QED BY <1>5, <2>3, <4>1, AfterLook
    <3>2. PICK more \in SUBSET task[j].entries : task'[j].tried = task[j].tried \cup more
      BY <3>1
    <3>3. Known(j)
      BY <1>3, <2>1 DEF At
    <3>4. task'[j].pc = "finish" => job'[j].plan \subseteq task'[j].tried
      BY <2>1, <3>1, <3>2
    <3>5. Known(j)'
      BY <2>1, <3>1, <3>2, <3>3, <3>4 DEF Known, At
    <3> QED BY <1>1, <2>1, <3>5, KeptRow
  <2> QED BY <2>2, <2>3
<1>6. ASSUME NEW i \in Item, SaveBundle(j, i) PROVE Remembered(j)'
  <2>1. UNCHANGED job /\ At(j, "save")
    BY <1>6 DEF SaveBundle
  <2>2. Known(j)'
    BY <1>3, <1>6, <2>1, SavedKnown DEF At
  <2> QED BY <1>1, <2>1, <2>2, KeptRow
<1>7. CASE Checkpoint(j)
  <2>1. At(j, "checkpoint") /\ UNCHANGED docs
    BY <1>7 DEF Checkpoint
  <2>2. Known(j)
    BY <1>3, <2>1 DEF At
  <2>3. /\ job'[j].kind = job[j].kind /\ job'[j].plan = job[j].plan /\ job'[j].status = job[j].status
        /\ \/ /\ job'[j].listed = task[j].listed /\ job'[j].entries = task[j].entries
              /\ job'[j].errors = task[j].errors
           \/ job'[j] = job[j]
        /\ task'[j].pc = "loop"
        /\ task'[j].tried = task[j].tried /\ task'[j].listed = task[j].listed
        /\ task'[j].entries = task[j].entries /\ task'[j].errors = task[j].errors
    BY <1>7, AfterCheckpoint
  <2>4. job'[j].errors \subseteq task[j].errors
    BY <2>2, <2>3 DEF Known
  <2>5. Known(j)'
    BY <2>1, <2>2, <2>3, <2>4, KnownKept
  <2>6. \A i \in job'[j].entries : <<"dataset", i>> \in job'[j].listed
    BY <1>1, <2>2, <2>3 DEF Known, Remembered
  <2>7. j \notin stopped => job'[j].status = "running"
    BY <1>1, <2>3 DEF Remembered
  <2> QED BY <1>1, <2>3, <2>5, <2>6, <2>7 DEF Remembered, At, Dataset
<1>8. CASE FinishDataset(j)
  <2>1. At(j, "finish") /\ UNCHANGED docs
    BY <1>8 DEF FinishDataset
  <2>2. Known(j)
    BY <1>3, <2>1 DEF At
  <2>3. task'[j].pc = "free"
    BY <1>8, AfterDatasetEnd DEF NoTask
  <2>4. CASE ~Exists(j)
    <3>1. job'[j] = job[j] /\ job[j].status = "gone"
      BY <1>8, <2>4, AfterDatasetEnd DEF Exists
    <3> QED BY <1>1, <2>3, <3>1 DEF Remembered, At, Dataset
  <2>5. CASE Exists(j)
    <3>1. /\ job'[j].kind = job[j].kind /\ job'[j].plan = job[j].plan
          /\ job'[j].status = "complete" /\ job'[j].listed = task[j].listed
          /\ job'[j].entries = task[j].entries /\ job'[j].errors = task[j].errors
      BY <1>8, <2>5, AfterDatasetEnd
    <3>2. job[j].plan \subseteq task[j].tried /\ task[j].tried \subseteq task[j].entries \cup task[j].errors
      BY <2>1, <2>2 DEF Known
    <3>3. ASSUME NEW n \in Name, docs[n] = j
          PROVE  n \in task[j].listed \/ n[2] \in task[j].errors
      <4>1. n[1] = "dataset" /\ n[2] \in job[j].plan
        BY <1>1, <3>3 DEF Placed, Owned, Dataset
      <4>2. n[2] \in Item /\ n = <<"dataset", n[2]>>
        BY <4>1, NameSplit
      <4> QED BY <2>2, <3>2, <3>3, <4>1, <4>2 DEF Known
    <3>4. Accounted(j)'
      BY <2>1, <3>1, <3>2, <3>3 DEF Accounted, Dataset
    <3>5. \A i \in Item : control[j][i].step = "none"
      BY <1>1 DEF Placed
    <3>6. Idle(j)'
      BY <1>1, <2>3, <3>5 DEF Idle, At
    <3>7. \A i \in task[j].entries : <<"dataset", i>> \in task[j].listed
      BY <2>2 DEF Known
    <3> QED BY <1>1, <2>3, <3>1, <3>4, <3>6, <3>7 DEF Remembered, At, Dataset
  <2> QED BY <2>4, <2>5
<1> QED BY <1>2, <1>4, <1>5, <1>6, <1>7, <1>8

LEMMA RepairWorked ==
  ASSUME TypeOK, NEW j \in Job, Placed(j), Remembered(j), Repair(j)
  PROVE  Worked(j)'
<1>1. /\ At(j, "controls") /\ Busy(j) = {} /\ Left(j) = {} /\ task'[j].listed = task[j].listed
      /\ UNCHANGED <<job, docs, stopped>>
  BY AfterRepair DEF Repair
<1>2. Worked(j) /\ job[j].kind = "artifacts"
  BY <1>1, AtPlace DEF Remembered
<1>3. \A i \in Item :
        /\ control[j][i].step \notin Steps \cup {"todo", "raised"}
        /\ i \in job[j].plan => control[j][i].step # "none"
        /\ j \notin stopped /\ docs[<<"artifacts", i>>] = j => <<"artifacts", i>> \in task[j].listed
  BY <1>1, <1>2 DEF Busy, Left, Worked, At
<1>4. NoControl.step = "none" /\ [NoControl EXCEPT !.step = "todo"].step = "todo" /\ "todo" \notin Steps
  BY DEF NoControl, Steps
<1>5. CASE task'[j].pc = "finish" /\ \A i \in Item : control'[j][i] = NoControl
  BY <1>1, <1>3, <1>4, <1>5 DEF Worked, At, Steps
<1>6. CASE /\ task'[j].pc = "controls"
           /\ \A i \in Item : control'[j][i] =
                    IF control[j][i].step = "failed" THEN [NoControl EXCEPT !.step = "todo"]
                    ELSE control[j][i]
  <2>1. \A i \in Item : control'[j][i].step = "todo" \/ control'[j][i].step = control[j][i].step
    BY <1>4, <1>6
  <2>2. \A i \in Item : /\ control'[j][i].step \notin Steps /\ control'[j][i].step # "raised"
                        /\ i \in job[j].plan => control'[j][i].step # "none"
    BY <1>3, <1>4, <2>1
  <2> QED BY <1>1, <1>3, <1>6, <2>2 DEF Worked, At
<1> QED BY <1>5, <1>6, AfterRepair

LEMMA RememberedReport ==
  ASSUME TypeOK, NEW j \in Job, Placed(j), Remembered(j),
         \/ StartReportRun(j) \/ FailReport(j) \/ Family(j) \/ Repair(j) \/ FinishReport(j)
         \/ Raise(j) \/ \E f \in Files : SaveFile(j, f)
  PROVE  Remembered(j)'
<1>1. ~At(j, "free")
  BY DEF StartReportRun, FailReport, Family, Repair, FinishReport, Raise, SaveFile, At
<1>2. CASE StartReportRun(j)
  <2>1. At(j, "start") /\ ~Dataset(j) /\ UNCHANGED <<docs, stopped>>
    BY <1>2 DEF StartReportRun
  <2>2. CASE ~Exists(j)
    <3>1. UNCHANGED <<job, control>> /\ task'[j].pc = "free"
      BY <1>2, <2>2, AfterEnd DEF StartReportRun
    <3>2. \A i \in Item : control'[j][i].step = "none"
      BY <2>1, <3>1 DEF Placed
    <3>3. Worked(j)'
      BY <3>1, <3>2, WorkedIdle
    <3> QED BY <1>1, <2>1, <3>1, <3>3, KeptRow
  <2>3. CASE Exists(j)
    <3>1. job'[j] = [job[j] EXCEPT !.status = "running"]
      BY <1>2, <2>3, AfterReportStart
    <3>2. job'[j].kind = job[j].kind /\ job'[j].status = "running" /\ job'[j].plan = job[j].plan
      BY <3>1, RowTyped DEF Rows
    <3>3. ASSUME job[j].kind = "artifacts" PROVE Worked(j)'
      <4>1. task'[j].pc = "controls"
        BY <1>2, <2>3, <3>3, AfterReportStart, TaskTyped DEF Tasks
      <4>2. \A i \in Item : control'[j][i].step = IF i \in job[j].plan THEN "todo" ELSE "none"
        <5>1. NoControl.step = "none" /\ [NoControl EXCEPT !.step = "todo"].step = "todo"
          BY DEF NoControl
        <5>2. \A i \in Item : control'[j][i] = IF i \in job[j].plan THEN [NoControl EXCEPT !.step = "todo"]
                                               ELSE NoControl
          BY <1>2, <2>3, <3>3, AfterReportStart
        <5> QED BY <5>1, <5>2
      <4>3. \A i \in Item : docs[<<"artifacts", i>>] = j => i \in job[j].plan
        BY <3>3, NameKinds DEF Placed, Owned
      <4> QED BY <2>1, <3>2, <4>1, <4>2, <4>3 DEF Worked, At, Steps
    <3> QED BY <2>1, <3>2, <3>3 DEF Remembered, At, Dataset
  <2> QED BY <2>2, <2>3
<1>3. CASE FailReport(j)
  <2>1. At(j, "raised") /\ UNCHANGED <<docs, control, stopped>>
    BY <1>3 DEF FailReport
  <2>2. ~Dataset(j)
    BY <2>1, AtPlace
  <2>3. /\ job'[j].kind = job[j].kind /\ job'[j].plan = job[j].plan
        /\ job'[j].status # "complete" /\ task'[j].pc = "free"
    <3>1. CASE Exists(j)
      <4>1. job' = [job EXCEPT ![j] = [job[j] EXCEPT !.status = "failed"]]
        BY <1>3, <3>1 DEF FailReport, Update
      <4>2. job'[j].status = "failed"
        BY <4>1, RowTyped DEF TypeOK, Rows
      <4> QED BY <1>3, <4>2, AfterReportEnd
    <3>2. CASE ~Exists(j)
      BY <1>3, <3>2, AfterReportEnd DEF Exists
    <3> QED BY <3>1, <3>2
  <2>4. job[j].kind = "artifacts" => Worked(j)'
    <3>1. control'[j] = control[j]
      BY <2>1
    <3> QED BY <2>1, <2>3, <3>1, WorkedKept DEF Remembered
  <2> QED BY <2>2, <2>3, <2>4 DEF Remembered, At, Dataset
<1>4. CASE Family(j)
  <2>1. UNCHANGED <<job, stopped>> /\ At(j, "loop") /\ ~Dataset(j)
    BY <1>4 DEF Family
  <2>2. job[j].kind # "artifacts"
    BY <2>1, AtPlace
  <2> QED BY <1>1, <2>1, <2>2, KeptRow
<1>5. CASE Repair(j)
  <2>1. UNCHANGED <<job, stopped>> /\ ~Dataset(j)
    BY <1>5, AtPlace DEF Repair, Dataset
  <2> QED BY <1>1, <1>5, <2>1, RepairWorked, KeptRow
<1>6. CASE FinishReport(j)
  <2>1. At(j, "finish") /\ ~Dataset(j) /\ UNCHANGED <<docs, control, stopped>>
    BY <1>6 DEF FinishReport
  <2>2. job'[j].kind = job[j].kind /\ job'[j].plan = job[j].plan /\ task'[j].pc = "free"
    BY <1>6, AfterReportEnd
  <2>3. \A i \in Item : control[j][i].step = "none"
    BY <2>1 DEF Placed, Remembered, Worked
  <2>4. job[j].kind = "artifacts" => Worked(j)'
    BY <2>1, <2>2, <2>3, WorkedIdle
  <2>5. ASSUME j \notin stopped PROVE Accounted(j)'
    <3>1. Exists(j)
      BY <1>1, <2>5, RunsOn
    <3>2. job'[j].listed = task[j].listed
      BY <1>6, <3>1, AfterReportEnd
    <3>3. ASSUME NEW n \in Name, docs[n] = j, n[1] # "guide" PROVE n \in task[j].listed
      <4>1. job[j].kind = n[1] /\ n[1] # "dataset"
        BY <2>1, <3>3 DEF Placed, Owned, Dataset
      <4>2. n[1] = "artifacts" /\ n[2] \in Item /\ n = <<n[1], n[2]>>
        BY <3>3, <4>1, NameSplit, NameFirst
      <4>3. Worked(j)
        BY <4>1, <4>2 DEF Remembered
      <4> QED BY <2>1, <2>3, <2>5, <3>3, <4>2, <4>3 DEF Worked, At, Steps
    <3> QED BY <2>1, <2>2, <3>2, <3>3 DEF Accounted, Dataset
  <2>6. Idle(j)'
    BY <2>1, <2>2, <2>3 DEF Idle, At
  <2> QED BY <2>1, <2>2, <2>4, <2>5, <2>6 DEF Remembered, At, Dataset
<1>7. CASE Raise(j)
  <2>1. UNCHANGED <<job, docs, control>> /\ stopped' = stopped \cup {j}
    BY <1>7 DEF Raise
  <2>2. task'[j].pc \in {"free", "raised"} /\ (Dataset(j) => task'[j].pc = "free")
    BY <1>7, AfterEnd, AfterGoto DEF Raise
  <2>3. job[j].kind = "artifacts" => Worked(j)'
    <3>1. control'[j] = control[j] /\ job'[j].plan = job[j].plan
      BY <2>1
    <3> QED BY <2>1, <2>2, <3>1, WorkedKept DEF Remembered
  <2> QED BY <2>1, <2>2, <2>3 DEF Remembered, At, Dataset
<1>8. ASSUME NEW f \in Files, SaveFile(j, f) PROVE Remembered(j)'
  <2>1. UNCHANGED <<job, stopped>> /\ task[j].pc \in {"file 1", "file 2"}
    BY <1>8 DEF SaveFile, At
  <2>2. job[j].kind = "guide"
    BY <2>1, AtPlace
  <2> QED BY <1>1, <2>1, <2>2, KeptRow DEF Dataset
<1> QED BY <1>2, <1>3, <1>4, <1>5, <1>6, <1>7, <1>8

\* The step of a control, as it counts for the documents of its job.
LEMMA ControlDocs ==
  ASSUME TypeOK, NEW j \in Job, Placed(j), Remembered(j), NEW i \in Item, ControlStep(j, i)
  PROVE  /\ job'[j].kind = job[j].kind /\ job'[j].plan = job[j].plan /\ job'[j].status = job[j].status
         /\ UNCHANGED stopped
         /\ job[j].kind = "artifacts"
         /\ task'[j].pc = task[j].pc \/ (task[j].pc = "controls" /\ task'[j].pc = "raised")
         /\ control'[j][i].step \in Steps \ {"write"} => control'[j][i].stored
         /\ control'[j][i].step = "raised" => task'[j].pc # "controls"
<1>1. /\ control[j][i].step \in Steps \cup {"todo"}
  BY AfterControl
<1>2. job[j].kind = "artifacts"
  BY <1>1 DEF Placed, Steps
<1>3. control[j][i].step \in Steps \ {"write"} => control[j][i].stored
  BY <1>2 DEF Remembered, Worked
<1>4. CASE Take(j, i) \/ LookControl(j, i)
  <2>1. /\ UNCHANGED <<job, task, stopped>> /\ control'[j][i].step \in {"write", "failed"}
    BY <1>4, MoveOnly DEF Take, LookControl
  <2> QED BY <1>2, <2>1 DEF Steps
<1>5. CASE WriteControl(j, i)
  BY <1>2, <1>5, AfterWrite DEF WriteControl
<1>6. CASE OpenProof(j, i) \/ CompleteProof(j, i)
  <2>1. PICK step \in {"assess", "remove"} : Move(j, i, step)
    BY <1>6 DEF OpenProof, CompleteProof
  <2>2. /\ UNCHANGED <<job, task, stopped>> /\ control[j][i].step \in {"prove", "assess"}
    BY <1>6 DEF OpenProof, CompleteProof
  <2>3. control'[j][i] = [control[j][i] EXCEPT !.step = step] /\ control'[j][i].step = step
    BY <2>1, MoveOnly
  <2>4. control'[j][i].stored = control[j][i].stored
    BY <2>3, ControlTyped DEF Controls
  <2>5. control[j][i].stored
    BY <1>3, <2>2 DEF Steps
  <2>6. control'[j][i].stored
    BY <2>4, <2>5
  <2>7. control'[j][i].step # "raised"
    BY <2>1, <2>3
  <2> QED BY <1>2, <2>2, <2>6, <2>7
<1>7. CASE RemoveProof(j, i)
  <2>1. /\ control[j][i].step = "remove" /\ control'[j][i].step \in {"record", "look"}
        /\ control'[j][i].stored = control[j][i].stored
    BY <1>7, AfterRemove
  <2>2. control[j][i].stored
    BY <1>3, <2>1 DEF Steps
  <2>3. control'[j][i].stored
    BY <2>1, <2>2
  <2>4. UNCHANGED <<job, task, stopped>>
    BY <1>7 DEF RemoveProof
  <2> QED BY <1>2, <2>1, <2>3, <2>4
<1>8. CASE Record(j, i)
  <2>1. PICK there \in SUBSET Name :
          /\ Update(j, [job[j] EXCEPT !.listed = there]) /\ task' = [task EXCEPT ![j].listed = there]
    <3> DEFINE mine == IF control[j][i].stored THEN {<<"artifacts", i>>} ELSE {}
               there == {n \in task[j].listed \cup mine : docs[n] = j}
    <3>1. there \in SUBSET Name
      BY TaskTyped, NameKinds DEF Tasks
    <3> QED BY <1>8, <3>1 DEF Record
  <2> DEFINE row == [job[j] EXCEPT !.listed = there]
  <2>2. row \in Rows /\ row.kind = job[j].kind /\ row.plan = job[j].plan /\ row.status = job[j].status
    BY RowTyped DEF Rows
  <2> HIDE DEF row
  <2>3. job'[j] = row \/ job'[j] = job[j]
    BY <2>1, <2>2, UpdateRow DEF row
  <2>4. task'[j].pc = task[j].pc
    BY <2>1, TaskTyped DEF Tasks, TypeOK
  <2>5. UNCHANGED stopped /\ control'[j][i].step \in {"passed", "failed"}
    <3> DEFINE outcome == IF control[j][i].proven THEN "passed" ELSE "failed"
    <3>1. UNCHANGED stopped /\ Move(j, i, outcome) /\ outcome \in {"passed", "failed"}
      BY <1>8 DEF Record, history
    <3> HIDE DEF outcome
    <3> QED BY <3>1, MoveOnly
  <2> QED BY <1>2, <2>2, <2>3, <2>4, <2>5 DEF Steps
<1>9. CASE RaiseControl(j, i)
  <2>1. UNCHANGED <<job, stopped>> /\ control'[j][i].step = "raised"
    BY <1>9, MoveOnly DEF RaiseControl
  <2>2. IF At(j, "controls") THEN task'[j].pc = "raised" ELSE UNCHANGED task
    BY <1>9, AfterGoto DEF RaiseControl
  <2> QED BY <1>2, <2>1, <2>2 DEF At, Steps
<1> QED BY <1>4, <1>5, <1>6, <1>7, <1>8, <1>9 DEF ControlStep

LEMMA MovedTo ==
  ASSUME TypeOK, NEW j \in Job, NEW i \in Item, NEW step, Move(j, i, step)
  PROVE  control'[j][i].step = step
BY MoveOnly

\* What a control's document is to its job's list: a document that the job does not list
\* is one whose control is still being worked on.
LEMMA ControlListed ==
  ASSUME TypeOK, NEW j \in Job, Placed(j), Remembered(j), NEW i \in Item, ControlStep(j, i),
         j \notin stopped, task'[j].pc \in {"controls", "finish"}, NEW h \in Item,
         docs'[<<"artifacts", h>>] = j
  PROVE  <<"artifacts", h>> \in task'[j].listed \/ control'[j][h].step \in Steps \cup {"todo"}
<1>1. Worked(j) /\ At(j, "controls") /\ Asked(j)
  <2>1. job[j].kind = "artifacts" /\ task[j].pc = task'[j].pc
    BY ControlDocs
  <2>2. Worked(j)
    BY <2>1 DEF Remembered
  <2>3. control[j][i].step # "none"
    BY AfterControl DEF Steps
  <2>4. At(j, "controls")
    BY <2>1, <2>2, <2>3 DEF Worked, At
  <2> QED BY <2>2, <2>4, RunsOn DEF At
<1>2. CASE h = i
  <2>1. CASE Record(j, i)
    <3> DEFINE mine == IF control[j][i].stored THEN {<<"artifacts", i>>} ELSE {}
               there == {n \in task[j].listed \cup mine : docs[n] = j}
    <3>1. control[j][i].step = "record" /\ UNCHANGED docs /\ task' = [task EXCEPT ![j].listed = there]
      BY <2>1 DEF Record
    <3>2. control[j][i].stored
      BY <1>1, <3>1 DEF Worked, Steps
    <3>3. <<"artifacts", i>> \in there
      BY <1>2, <3>1, <3>2
    <3> HIDE DEF there
    <3>4. task'[j].listed = there
      BY <3>1, TaskTyped DEF Tasks, TypeOK
    <3> QED BY <1>2, <3>3, <3>4
  <2>2. CASE RaiseControl(j, i)
    <3>1. Goto(j, "raised")
      BY <1>1, <2>2 DEF RaiseControl
    <3>2. task'[j].pc = "raised"
      BY <3>1, AfterGoto
    <3> QED BY <3>2
  <2>3. ASSUME Take(j, i) \/ LookControl(j, i) PROVE control'[j][i].step \in Steps
    <3>1. Move(j, i, "write")
      BY <1>1, <2>3 DEF Take, LookControl
    <3>2. control'[j][i].step = "write"
      BY <3>1, MovedTo
    <3> QED BY <3>2 DEF Steps
  <2>4. ASSUME WriteControl(j, i) PROVE control'[j][i].step \in Steps
    <3>1. control'[j][i].step = "prove"
      BY <2>4, AfterWrite
    <3> QED BY <3>1 DEF Steps
  <2>5. ASSUME OpenProof(j, i) \/ CompleteProof(j, i) PROVE control'[j][i].step \in Steps
    <3>1. Move(j, i, "assess") \/ Move(j, i, "remove")
      BY <2>5 DEF OpenProof, CompleteProof
    <3>2. control'[j][i].step = "assess" \/ control'[j][i].step = "remove"
      BY <3>1, MovedTo
    <3> QED BY <3>2 DEF Steps
  <2>6. ASSUME RemoveProof(j, i) PROVE control'[j][i].step \in Steps
    <3>1. control'[j][i].step \in {"record", "look"}
      BY <2>6, AfterRemove
    <3> QED BY <3>1 DEF Steps
  <2>7. CASE control'[j][i].step \in Steps
    BY <1>2, <2>7
  <2> QED BY <2>1, <2>2, <2>3, <2>4, <2>5, <2>6, <2>7 DEF ControlStep
<1>3. CASE h # i
  <2>1. control'[j][h] = control[j][h]
    BY <1>3, AfterControl
  <2>2. docs[<<"artifacts", h>>] = j
    <3>1. CASE WriteControl(j, i)
      <4>1. /\ <<"artifacts", i>> \in Name /\ <<"artifacts", h>> \in Name
            /\ <<"artifacts", h>> # <<"artifacts", i>>
        BY <1>3, NameKinds
      <4> QED BY <3>1, <4>1, StoreOnly DEF WriteControl
    <3>2. CASE ~WriteControl(j, i)
      BY <3>2 DEF ControlStep, Take, LookControl, OpenProof, CompleteProof, RemoveProof, Record, RaiseControl
    <3> QED BY <3>1, <3>2
  <2>3. <<"artifacts", h>> \in task[j].listed \/ control[j][h].step \in Steps \cup {"todo"}
    BY <1>1, <2>2 DEF Worked, At
  <2>4. <<"artifacts", h>> \in task[j].listed => <<"artifacts", h>> \in task'[j].listed
    <3>1. CASE Record(j, i)
      <4> DEFINE mine == IF control[j][i].stored THEN {<<"artifacts", i>>} ELSE {}
                 there == {n \in task[j].listed \cup mine : docs[n] = j}
      <4>1. task' = [task EXCEPT ![j].listed = there]
        BY <3>1 DEF Record
      <4>2. <<"artifacts", h>> \in task[j].listed => <<"artifacts", h>> \in there
        BY <2>2
      <4> HIDE DEF there
      <4>3. task'[j].listed = there
        BY <4>1, TaskTyped DEF Tasks, TypeOK
      <4> QED BY <4>2, <4>3
    <3>2. CASE RaiseControl(j, i)
      <4>1. Goto(j, "raised")
        BY <1>1, <3>2 DEF RaiseControl
      <4>2. task'[j].pc = "raised"
        BY <4>1, AfterGoto
      <4> QED BY <4>2
    <3>3. CASE ~Record(j, i) /\ ~RaiseControl(j, i)
      <4>1. \/ Take(j, i) \/ LookControl(j, i) \/ WriteControl(j, i) \/ OpenProof(j, i)
            \/ CompleteProof(j, i) \/ RemoveProof(j, i)
        BY <3>3 DEF ControlStep
      <4>2. UNCHANGED task
        BY <4>1 DEF Take, LookControl, WriteControl, OpenProof, CompleteProof, RemoveProof
      <4> QED BY <4>2
    <3> QED BY <3>1, <3>2, <3>3
  <2> QED BY <2>1, <2>3, <2>4
<1> QED BY <1>2, <1>3

LEMMA RememberedControl ==
  ASSUME TypeOK, NEW j \in Job, Placed(j), Remembered(j), NEW i \in Item, ControlStep(j, i)
  PROVE  Remembered(j)'
<1>1. /\ job'[j].kind = job[j].kind /\ job'[j].status = job[j].status
      /\ UNCHANGED stopped /\ job[j].kind = "artifacts"
      /\ job'[j].plan = job[j].plan
      /\ task'[j].pc = task[j].pc \/ (task[j].pc = "controls" /\ task'[j].pc = "raised")
      /\ control'[j][i].step \in Steps \ {"write"} => control'[j][i].stored
      /\ control'[j][i].step = "raised" => task'[j].pc # "controls"
  BY ControlDocs
<1>2. /\ control[j][i].step # "none" /\ control'[j][i].step # "none"
      /\ \A h \in Item : h # i => control'[j][h] = control[j][h]
  BY AfterControl DEF Steps
<1>3. Worked(j) /\ job'[j].kind = "artifacts" /\ ~At(j, "finish")
  BY <1>1, <1>2 DEF Remembered, Worked
<1>4. ASSUME NEW h \in Item
      PROVE  /\ control'[j][h].step = "raised" => task'[j].pc # "controls"
             /\ control'[j][h].step \in Steps \ {"write"} => control'[j][h].stored
             /\ task'[j].pc = "controls" /\ h \in job'[j].plan => control'[j][h].step # "none"
             /\ task'[j].pc # "finish"
  <2>1. CASE h = i
    BY <1>1, <1>2, <1>3, <2>1 DEF At
  <2>2. CASE h # i
    <3> DEFINE c == control[j][h]
    <3>1. control'[j][h] = c
      BY <1>2, <2>2
    <3>2. /\ c.step = "raised" => task[j].pc # "controls"
          /\ c.step \in Steps \ {"write"} => c.stored
          /\ task[j].pc = "controls" /\ h \in job[j].plan => c.step # "none"
      BY <1>3 DEF Worked, At
    <3>3. task'[j].pc # "finish" /\ (task'[j].pc = "controls" => task[j].pc = "controls")
      BY <1>1, <1>3 DEF At
    <3>4. job'[j].plan = job[j].plan
      BY <1>1
    <3> HIDE DEF c
    <3> QED BY <3>1, <3>2, <3>3, <3>4
  <2> QED BY <2>1, <2>2
<1>5. \A h \in Item :
        j \notin stopped /\ docs'[<<"artifacts", h>>] = j /\ task'[j].pc \in {"controls", "finish"} =>
          <<"artifacts", h>> \in task'[j].listed \/ control'[j][h].step \in Steps \cup {"todo"}
  BY ControlListed
<1>6. Worked(j)'
  BY <1>1, <1>4, <1>5 DEF Worked, At
<1>7. j \notin stopped => job[j].status # "complete"
  BY <1>2, CompleteRests
<1>8. ~Dataset(j) /\ ~Dataset(j)'
  BY <1>1 DEF Dataset
<1>9. ~At(j, "free")' => ~At(j, "free")
  BY <1>1 DEF At
<1> QED BY <1>1, <1>6, <1>7, <1>8, <1>9 DEF Remembered

----------------------------------------------------------------------------
(* Every step.                                                             *)

LEMMA ListStep ==
  ASSUME TypeOK, PlaceInv, ListInv, [Next]_vars
  PROVE  ListInv'
<1> SUFFICES ASSUME NEW k \in Job PROVE Remembered(k)'
  BY DEF ListInv
<1>1. Remembered(k) /\ Placed(k)
  BY DEF ListInv, PlaceInv
<1>2. CASE UNCHANGED vars
  <2>1. UNCHANGED <<job, task, control, docs, stopped, late, proof, broken, cancelling>>
    BY <1>2 DEF vars
  <2> QED BY <1>1, <2>1, CalmRemembered DEF Calm
<1>3. ASSUME NEW kind \in Kinds, NEW plan \in SUBSET Item,
             StartReport(kind, plan) \/ InsertDataset(plan)
      PROVE  Remembered(k)'
  <2>1. PICK other \in Kinds : Insert(other, plan) /\ UNCHANGED <<docs, running, cancelling, history>>
    <3>1. "dataset" \in Kinds
      BY DEF Kinds
    <3> QED BY <1>3, <3>1 DEF StartReport, InsertDataset
  <2>2. PICK j \in Job : /\ job[j].status = "none"
                         /\ job'[j] = [NoRow EXCEPT !.kind = other, !.status = "pending", !.plan = plan]
                         /\ \A l \in Job : l # j => Calm(l)
    BY <2>1, Inserted, ZenonT(60)
  <2>3. CASE k = j
    <3>1. job'[k].kind = other /\ job'[k].status = "pending" /\ job'[k].entries = {}
      BY <2>2, <2>3 DEF NoRow
    <3>2. UNCHANGED <<task, control>> /\ Idle(k)
      BY <1>1, <2>1, <2>2, <2>3 DEF Placed
    <3>3. task'[k].pc = "free" /\ \A i \in Item : control'[k][i].step = "none"
      BY <3>2 DEF Idle, At
    <3>4. Worked(k)'
      BY <3>3, WorkedIdle
    <3> QED BY <3>1, <3>3, <3>4 DEF Remembered, At, Dataset
  <2>4. CASE k # j
    BY <1>1, <2>2, <2>4, CalmRemembered
  <2> QED BY <2>3, <2>4
<1>4. CASE Supersede
  <2>1. /\ UNCHANGED <<docs, task, control, late, proof, cancelling, broken, worker>>
        /\ \/ Calm(k) /\ ~(Dataset(k) /\ Asked(k))
           \/ /\ Dataset(k) /\ Asked(k) /\ job'[k] = [job[k] EXCEPT !.status = "cancelled"]
              /\ job'[k].status = "cancelled" /\ job'[k].kind = job[k].kind /\ k \in stopped'
    BY <1>4, SupersedeRows
  <2>2. CASE Calm(k)
    BY <1>1, <2>2, CalmRemembered
  <2>3. CASE Dataset(k) /\ job'[k] = [job[k] EXCEPT !.status = "cancelled"] /\ k \in stopped'
    <3>1. /\ job'[k].kind = job[k].kind /\ job'[k].listed = job[k].listed /\ job'[k].plan = job[k].plan
          /\ job'[k].entries = job[k].entries /\ job'[k].errors = job[k].errors
      BY <2>3, RowTyped DEF Rows
    <3>2. ASSUME task[k].pc \notin {"free", "start"} PROVE Known(k)'
      <4>1. Known(k)
        BY <1>1, <2>3, <3>2 DEF Remembered
      <4>2. /\ job'[k].errors \subseteq task[k].errors
            /\ task[k].pc = "finish" => job[k].plan \subseteq task[k].tried
        BY <3>1, <4>1 DEF Known, At
      <4>3. task'[k] = task[k] /\ \A n \in Name : docs'[n] = k => docs[n] = k
        BY <2>1
      <4> QED BY <3>1, <4>1, <4>2, <4>3, KnownKept
    <3>3. job'[k].kind # "artifacts"
      BY <2>3, <3>1 DEF Dataset
    <3> QED BY <1>1, <2>1, <2>3, <3>1, <3>2, <3>3 DEF Remembered, At, Dataset
  <2> QED BY <2>1, <2>2, <2>3
<1>5. CASE DeleteDocs
  BY <1>1, <1>5, DeleteDocsCalm, CalmRemembered
<1>6. ASSUME Idle(k)', job'[k].kind = job[k].kind, job'[k].entries = job[k].entries,
             job'[k].listed = job[k].listed, job'[k].plan = job[k].plan, job'[k].errors = job[k].errors,
             UNCHANGED <<docs, stopped>>, job'[k].status = "complete" => job[k].status = "complete"
      PROVE  Remembered(k)'
  <2>1. task'[k].pc = "free" /\ \A i \in Item : control'[k][i].step = "none"
    BY <1>6 DEF Idle, At
  <2>2. Worked(k)'
    BY <2>1, WorkedIdle
  <2>3. Accounted(k) => Accounted(k)'
    BY <1>6 DEF Accounted, Dataset
  <2> QED BY <1>1, <1>6, <2>1, <2>2, <2>3 DEF Remembered, At, Dataset
<1>7. CASE Recover
  <2>1. /\ worker = "down" /\ UNCHANGED <<docs, task, control, stopped>>
        /\ job' = [j \in Job |-> IF job[j].status = "running" THEN [job[j] EXCEPT !.status = "pending"]
                                 ELSE job[j]]
    BY <1>7 DEF Recover
  <2>2. Idle(k)'
    BY <2>1 DEF PlaceInv, Idle, At
  <2>3. /\ job'[k].kind = job[k].kind /\ job'[k].listed = job[k].listed /\ job'[k].plan = job[k].plan
        /\ job'[k].entries = job[k].entries /\ job'[k].errors = job[k].errors
        /\ job'[k].status \in {job[k].status, "pending"}
    BY <2>1, RowTyped DEF Rows
  <2> QED BY <1>6, <2>1, <2>2, <2>3
<1>8. CASE Crash
  <2>1. /\ UNCHANGED <<job, docs, stopped>> /\ task' = [j \in Job |-> NoTask]
        /\ control' = [j \in Job |-> [i \in Item |-> NoControl]]
    BY <1>8 DEF Crash
  <2>2. Idle(k)'
    BY <2>1 DEF Idle, At, NoTask, NoControl
  <2> QED BY <1>6, <2>1, <2>2
<1>9. ASSUME NEW j \in Job, JobStep(j) PROVE Remembered(k)'
  <2>1. CASE k # j
    BY <1>1, <1>9, <2>1, Others, CalmRemembered
  <2>2. CASE k = j
    BY <1>1, <1>9, <2>2, RememberedRequest, RememberedDataset, RememberedReport, RememberedControl
       DEF JobStep, Progress
  <2> QED BY <2>1, <2>2
<1>10. CASE Next
  BY <1>3, <1>4, <1>5, <1>7, <1>8, <1>9, <1>10, StepKinds
<1> QED BY <1>2, <1>10

\* CompleteIsAccounted, for every number of jobs, documents, slots and workers: a complete
\* job that nothing stopped lists what it stored, although the worker may die between any
\* two of its documents, or between a document and the checkpoint that lists it, and the
\* run that takes it up again starts from the last checkpoint.
THEOREM CompleteJobsAccount == Spec => []CompleteIsAccounted
<1>1. Init => ListInv
  BY InitRemembered
<1>2. TypeOK /\ PlaceInv /\ ListInv /\ [Next]_vars => ListInv'
  BY ListStep
<1>3. ListInv => CompleteIsAccounted
  BY DEF ListInv, Remembered, Accounted, CompleteIsAccounted
<1> QED BY <1>1, <1>2, <1>3, JobsAreTyped, PlaceInvariant, PTL DEF Spec

----------------------------------------------------------------------------
(* The order of the test-dataset jobs.                                     *)

\* A finite set of numbers that is not empty has a largest one.
LEMMA Largest ==
  ASSUME NEW S, IsFiniteSet(S), S # {}, S \subseteq Nat
  PROVE  \E x \in S : \A y \in S : y <= x
<1> DEFINE Over(x) == {y \in S : x < y}
           Overs == {Over(x) : x \in S}
<1>1. Overs \subseteq FiniteSubsetsOf(S) /\ Overs # {}
  <2>1. FiniteSubsetsOf(S) = SUBSET S
    BY FS_FiniteSubsetsOfFinite, Zenon
  <2>2. \A x \in S : Over(x) \in SUBSET S
    OBVIOUS
  <2>3. Overs \subseteq SUBSET S
    BY <2>2
  <2>4. Overs # {}
    <3>1. PICK x \in S : TRUE
      OBVIOUS
    <3>2. Over(x) \in Overs
      OBVIOUS
    <3> QED BY <3>2
  <2> QED BY <2>1, <2>3, <2>4
<1>2. PICK T \in Overs : \A U \in Overs : ~(<<U, T>> \in StrictSubsetOrdering(S))
  BY <1>1, FS_StrictSubsetOrderingWellFounded, WFMin, Zenon
<1>3. PICK x \in S : T = Over(x)
  BY <1>2
<1>4. ASSUME NEW y \in Over(x) PROVE FALSE
  <2>0. y \in S /\ x < y /\ x \in Nat /\ y \in Nat
    BY <1>3, <1>4
  <2>3. \A z \in S : y < z => x < z
    BY <2>0
  <2>4. Over(y) \subseteq Over(x)
    BY <2>3
  <2>5. ~(y < y)
    BY <2>0
  <2>1. Over(y) \subseteq Over(x) /\ y \notin Over(y) /\ y \in S
    BY <2>0, <2>4, <2>5
  <2>2. <<Over(y), Over(x)>> \in StrictSubsetOrdering(S)
    BY <1>4, <2>1 DEF StrictSubsetOrdering
  <2> QED BY <1>2, <1>3, <2>1, <2>2
<1>5. \A y \in S : ~(x < y)
  BY <1>4
<1>6. \A y \in S : y <= x
  BY <1>5
<1> QED BY <1>6

LEMMA JobKind ==
  ASSUME TypeOK, PlaceInv, ListInv, NEW j \in Job, JobStep(j), NEW k \in Job
  PROVE  job'[k].kind = job[k].kind
<1>1. CASE k # j
  BY <1>1, Others DEF Calm
<1>2. Placed(j) /\ Remembered(j)
  BY DEF PlaceInv, ListInv
<1>3. ASSUME CancelCommit(j) PROVE job'[j].kind = job[j].kind
  BY <1>3, RowTyped DEF CancelCommit, TypeOK, Rows
<1>4. ASSUME Delete(j) PROVE job'[j].kind = job[j].kind
  BY <1>4, RowTyped DEF Delete, NoRow, TypeOK, Rows
<1>5. ASSUME Claim(j) \/ StartDataset(j) \/ StartReportRun(j) PROVE job'[j].kind = job[j].kind
  BY <1>5, RowTyped DEF Claim, StartDataset, StartReportRun, TypeOK, Rows
<1>6. ASSUME NEW i \in Item, ControlStep(j, i) PROVE job'[j].kind = job[j].kind
  BY <1>2, <1>6, ControlDocs
<1>7. ASSUME \/ CancelCheck(j) \/ Clear(j) \/ Look(j) \/ Family(j) \/ Repair(j) \/ Raise(j)
             \/ \E f \in Files : SaveFile(j, f)
             \/ \E i \in Item : SaveBundle(j, i)
      PROVE job'[j].kind = job[j].kind
  BY <1>7 DEF CancelCheck, Clear, Look, Family, Repair, Raise, SaveFile, SaveBundle
<1>8. CASE k = j
  BY <1>3, <1>4, <1>5, <1>6, <1>7, <1>8, AfterCheckpoint, AfterDatasetEnd, AfterReportEnd
     DEF JobStep, Progress
<1> QED BY <1>1, <1>8

LEMMA JobsKept ==
  ASSUME TypeOK, Next
  PROVE  demand'.jobs = demand.jobs
<1>1. demand' = demand \/ (\E c \in Nat : demand' = [demand EXCEPT !.cancels = c])
                      \/ (\E c \in Nat : demand' = [demand EXCEPT !.troubles = c])
  <2>1. ASSUME Trouble PROVE \E c \in Nat : demand' = [demand EXCEPT !.troubles = c]
    <3> DEFINE c == demand.troubles - 1
    <3>1. c \in Nat /\ demand' = [demand EXCEPT !.troubles = c]
      BY <2>1 DEF Trouble, TypeOK, Asks
    <3> HIDE DEF c
    <3> QED BY <3>1
  <2>2. ASSUME NEW j \in Job, CancelCheck(j) PROVE \E c \in Nat : demand' = [demand EXCEPT !.cancels = c]
    <3> DEFINE c == demand.cancels - 1
    <3>1. c \in Nat /\ demand' = [demand EXCEPT !.cancels = c]
      BY <2>2 DEF CancelCheck, TypeOK, Asks
    <3> HIDE DEF c
    <3> QED BY <3>1
  <2>3. ASSUME NEW j \in Job, JobStep(j) PROVE CancelCheck(j) \/ Trouble \/ demand' = demand
    <3>1. ASSUME NEW i \in Item, ControlStep(j, i) PROVE Trouble \/ demand' = demand
      BY <3>1 DEF ControlStep, Take, LookControl, WriteControl, OpenProof, CompleteProof, RemoveProof,
                  Record, RaiseControl
    <3>2. ASSUME Progress(j) PROVE Trouble \/ demand' = demand
      BY <3>2 DEF Progress, StartDataset, Clear, Look, Checkpoint, FinishDataset, SaveBundle,
                  StartReportRun, FailReport, Family, Repair, FinishReport, SaveFile
    <3> QED BY <2>3, <3>1, <3>2 DEF JobStep, CancelCommit, Delete, Claim, Raise
  <2>4. ASSUME \/ \E kind \in Kinds, plan \in SUBSET Item : StartReport(kind, plan) \/ InsertDataset(plan)
               \/ Supersede \/ DeleteDocs \/ Recover
        PROVE  demand' = demand
    BY <2>4 DEF StartReport, InsertDataset, Supersede, DeleteDocs, Recover
  <2>5. ASSUME Crash PROVE Trouble
    BY <2>5 DEF Crash
  <2> QED BY <2>1, <2>2, <2>3, <2>4, <2>5, StepKinds
<1> QED BY <1>1 DEF TypeOK, Asks

\* No id that is not used yet is below one that is.
LEMMA NewestStep ==
  ASSUME TypeOK, PlaceInv, PlaceInv', ListInv, Newest, Next
  PROVE  Newest'
<1>0. Job \subseteq Nat
  BY JobAssumption
<1>1. ASSUME \A k \in Job : job'[k].kind = job[k].kind PROVE Newest'
  <2>1. \A k \in Job : job'[k].status = "none" <=> job[k].status = "none"
    BY <1>1 DEF PlaceInv, Placed
  <2>2. Unused' = Unused
    BY <2>1, JobsKept DEF Unused, TypeOK, Asks
  <2> QED BY <2>1, <2>2 DEF Newest
<1>2. ASSUME NEW kind \in Kinds, NEW plan \in SUBSET Item,
             StartReport(kind, plan) \/ InsertDataset(plan)
      PROVE  Newest'
  <2>1. PICK other \in Kinds : Insert(other, plan) /\ UNCHANGED <<docs, running, cancelling, history>>
    <3>1. "dataset" \in Kinds
      BY DEF Kinds
    <3> QED BY <1>2, <3>1 DEF StartReport, InsertDataset
  <2>2. PICK j \in Job :
          /\ job[j].status = "none" /\ j \in Unused /\ \A k \in Unused : j <= k
          /\ job'[j] = [NoRow EXCEPT !.kind = other, !.status = "pending", !.plan = plan]
          /\ \A k \in Job : k # j => Calm(k)
    BY <2>1, Inserted
  <2>3. job'[j].status = "pending"
    BY <2>2 DEF NoRow
  <2>4. \A l \in Job : l # j => job'[l].status = job[l].status
    BY <2>2 DEF Calm
  <2>5. Unused' = Unused \ {j}
    BY <2>3, <2>4, JobsKept DEF Unused, TypeOK, Asks
  <2>6. Unused \subseteq Job
    BY DEF Unused, TypeOK, Asks
  <2>7. ASSUME NEW l \in Unused \ {j}, NEW k \in Job, job'[k].status # "none" PROVE k < l
    <3>1. j <= l /\ j # l /\ l \in Nat /\ j \in Nat /\ k \in Nat
      BY <1>0, <2>2, <2>6
    <3>2. CASE k = j
      BY <3>1, <3>2
    <3>3. CASE k # j
      BY <2>4, <2>7, <3>3 DEF Newest
    <3> QED BY <3>2, <3>3
  <2> QED BY <2>5, <2>7 DEF Newest
<1>3. ASSUME Supersede, NEW k \in Job PROVE job'[k].kind = job[k].kind
  BY <1>3, SupersedeRows DEF Calm
<1>4. ASSUME DeleteDocs, NEW k \in Job PROVE job'[k].kind = job[k].kind
  BY <1>4, DeleteDocsCalm DEF Calm
<1>5. ASSUME Recover, NEW k \in Job PROVE job'[k].kind = job[k].kind
  BY <1>5, RowTyped DEF Recover, Rows
<1>6. ASSUME Crash, NEW k \in Job PROVE job'[k].kind = job[k].kind
  BY <1>6 DEF Crash
<1>7. ASSUME NEW j \in Job, JobStep(j), NEW k \in Job PROVE job'[k].kind = job[k].kind
  BY <1>7, JobKind
<1> QED BY <1>1, <1>2, <1>3, <1>4, <1>5, <1>6, <1>7, StepKinds

\* A test-dataset job that ends without being complete is stopped, and one that runs has
\* its coroutine as long as the worker lives, unless it is stopped.
LEMMA SteadyJob ==
  ASSUME TypeOK, PlaceInv, ListInv, NEW j \in Job, JobStep(j), Dataset(j), Steady(j)
  PROVE  Steady(j)'
<1>1. Placed(j) /\ Remembered(j) /\ worker' = worker
  BY WorkerStays DEF PlaceInv, ListInv
<1>2. ASSUME j \in stopped' PROVE Steady(j)'
  BY <1>2 DEF Steady
<1>3. CASE CancelCommit(j) \/ Delete(j) \/ Raise(j)
  BY <1>2, <1>3 DEF CancelCommit, Delete, Raise
<1>4. CASE CancelCheck(j)
  BY <1>1, <1>4 DEF CancelCheck, Steady, At
<1>5. CASE Claim(j)
  <2>1. job'[j].status = "running" /\ task'[j].pc = "start"
    BY <1>5, RowTyped, TaskTyped DEF Claim, TypeOK, Rows, Tasks
  <2> QED BY <2>1 DEF Steady, At
<1>6. ASSUME ~At(j, "free"), j \notin stopped PROVE Exists(j) /\ Asked(j) /\ job[j].status = "running"
  BY <1>1, <1>6, RunsOn
<1>7. ASSUME Progress(j) PROVE ~At(j, "free") /\ UNCHANGED stopped
  BY <1>7 DEF Progress, StartDataset, Clear, Look, Checkpoint, FinishDataset, SaveBundle,
              StartReportRun, FailReport, Family, Repair, FinishReport, SaveFile, At
<1>8. CASE Progress(j) /\ j \in stopped
  BY <1>2, <1>7, <1>8
<1>9. CASE Progress(j) /\ j \notin stopped
  <2>1. Exists(j) /\ Asked(j) /\ job[j].status = "running" /\ ~At(j, "free")
    BY <1>6, <1>7, <1>9
  <2>2. CASE StartDataset(j)
    <3>1. job'[j].status = "running" /\ task'[j].pc = "clear"
      <4>1. job' = [job EXCEPT ![j].status = "running"] /\ task'[j].pc = "clear"
        BY <2>1, <2>2, AfterStart
      <4>2. job'[j].status = "running"
        BY <4>1, RowTyped DEF TypeOK, Rows
      <4> QED BY <4>1, <4>2
    <3> QED BY <3>1 DEF Steady, At
  <2>3. CASE Clear(j)
    <3>1. UNCHANGED job /\ task'[j].pc = "loop"
      BY <2>3, TaskTyped DEF Clear, TypeOK, Tasks
    <3> QED BY <2>1, <3>1 DEF Steady, At
  <2>4. CASE Look(j)
    <3>1. UNCHANGED job
      BY <2>4 DEF Look
    <3>2. task'[j].pc \in {"finish", "loop", "save"}
      BY <2>1, <2>4, AfterLook
    <3> QED BY <2>1, <3>1, <3>2 DEF Steady, At
  <2>5. CASE Checkpoint(j)
    BY <2>1, <2>5, AfterCheckpoint DEF Steady, At
  <2>6. CASE FinishDataset(j)
    BY <2>1, <2>6, AfterDatasetEnd DEF Steady
  <2>7. ASSUME NEW i \in Item, SaveBundle(j, i) PROVE Steady(j)'
    <3>1. UNCHANGED job /\ task'[j].pc \in {"checkpoint", "loop"}
      BY <2>7, AfterSave DEF SaveBundle
    <3> QED BY <2>1, <3>1 DEF Steady, At
  <2>8. ~(StartReportRun(j) \/ FailReport(j) \/ Family(j) \/ Repair(j) \/ FinishReport(j))
    <3>1. ~At(j, "raised") /\ ~At(j, "controls")
      BY <1>1, AtPlace DEF Dataset
    <3> QED BY <3>1 DEF StartReportRun, FailReport, Family, Repair, FinishReport
  <2>9. ASSUME NEW f \in Files, SaveFile(j, f) PROVE FALSE
    <3>1. task[j].pc \in {"file 1", "file 2"}
      BY <2>9 DEF SaveFile, At
    <3> QED BY <1>1, <3>1, AtPlace DEF Dataset
  <2> QED BY <1>9, <2>2, <2>3, <2>4, <2>5, <2>6, <2>7, <2>8, <2>9 DEF Progress
<1>10. ASSUME NEW i \in Item, ControlStep(j, i) PROVE FALSE
  BY <1>1, <1>10, ControlDocs DEF Dataset
<1> QED BY <1>3, <1>4, <1>5, <1>8, <1>9, <1>10 DEF JobStep

Ordered == \A k \in Job : Dataset(k) => Steady(k) /\ Behind(k) /\ Tidy(k)

\* What keeps the order: no job starts or completes, and nothing is stored.
LEMMA StartedKept ==
  ASSUME NEW k \in Job, Started(k)', job'[k].status \in {"running", "complete"} => Started(k),
         \A n \in Name : docs'[n] = k => docs[n] = k
  PROVE  Started(k)
BY DEF Started

LEMMA TidyKept ==
  ASSUME NEW k \in Job, Tidy(k), job'[k].status = "complete" => job[k].status = "complete",
         task'[k] = task[k] \/ task'[k].pc \in {"free", "start"},
         \A i \in Item : \/ docs'[<<"dataset", i>>] = docs[<<"dataset", i>>]
                         \/ docs'[<<"dataset", i>>] = NoJob
                         \/ docs'[<<"dataset", i>>] >= k
  PROVE  Tidy(k)'
<1>1. ASSUME Own(k) PROVE Own(k)'
  <2>1. \A i \in Item : docs[<<"dataset", i>>] = NoJob \/ docs[<<"dataset", i>>] >= k
    BY <1>1 DEF Own
  <2> QED BY <2>1 DEF Own
<1>2. ASSUME task'[k].pc = "clear", NEW i \in Item
      PROVE  \/ docs'[<<"dataset", i>>] = NoJob \/ docs'[<<"dataset", i>>] >= k
             \/ docs'[<<"dataset", i>>] = task'[k].prev /\ <<"dataset", i>> \in task'[k].clear
  <2>1. task'[k] = task[k] /\ At(k, "clear")
    BY <1>2 DEF At
  <2>2. \/ docs[<<"dataset", i>>] = NoJob \/ docs[<<"dataset", i>>] >= k
        \/ docs[<<"dataset", i>>] = task[k].prev /\ <<"dataset", i>> \in task[k].clear
    BY <2>1 DEF Tidy
  <2> QED BY <2>1, <2>2
<1>3. job'[k].status = "complete" \/ task'[k].pc \notin {"free", "start", "clear"} => Own(k)
  BY DEF Tidy
<1> QED BY <1>1, <1>2, <1>3 DEF Tidy, At

LEMMA OrderFrame ==
  ASSUME \A l \in Job : Dataset(l) => Behind(l) /\ Tidy(l),
         \A l \in Job : job'[l].kind = job[l].kind,
         \A l \in Job : Dataset(l) =>
            /\ job'[l].status = "complete" <=> job[l].status = "complete"
            /\ job'[l].status = "running" => job[l].status = "running"
            /\ task'[l] = task[l] \/ task'[l].pc \in {"free", "start"},
         \A l \in Job, n \in Name : docs'[n] = l /\ Dataset(l) => docs[n] = l,
         \A i \in Item : \/ docs'[<<"dataset", i>>] = docs[<<"dataset", i>>]
                         \/ docs'[<<"dataset", i>>] = NoJob,
         NEW k \in Job, Dataset(k)'
  PROVE  Behind(k)' /\ Tidy(k)'
<1>1. \A l \in Job : Dataset(l)' <=> Dataset(l)
  BY DEF Dataset
<1>2. \A l \in Job : Dataset(l) /\ Started(l)' => Started(l)
  BY DEF Started
<1>3. Behind(k) /\ Tidy(k) /\ Dataset(k)
  BY <1>1
<1>4. Behind(k)'
  <2>1. ASSUME NEW l \in Job, Dataset(l)', k < l, Started(l)' PROVE job'[k].status = "complete"
    <3>1. Dataset(l) /\ Started(l)
      BY <1>1, <1>2, <2>1
    <3>2. job[k].status = "complete"
      BY <1>3, <2>1, <3>1 DEF Behind
    <3> QED BY <1>3, <3>2
  <2> QED BY <2>1 DEF Behind
<1>5. Tidy(k)'
  BY <1>3, TidyKept
<1> QED BY <1>4, <1>5

\* The step of a report, as it counts for the test packages.
LEMMA ReportDocs ==
  ASSUME TypeOK, PlaceInv, NEW j \in Job, ~Dataset(j), JobStep(j), NEW i \in Item
  PROVE  docs'[<<"dataset", i>>] = docs[<<"dataset", i>>]
<1>0. <<"dataset", i>> \in Name
  BY NameKinds
<1>1. ASSUME NEW n \in Name, n # <<"dataset", i>>, Store(j, n)
      PROVE  docs'[<<"dataset", i>>] = docs[<<"dataset", i>>]
  BY <1>0, <1>1 DEF Store, TypeOK
<1>2. ASSUME NEW f \in Files, SaveFile(j, f) PROVE docs'[<<"dataset", i>>] = docs[<<"dataset", i>>]
  <2>1. <<"guide", f>> \in Name /\ <<"guide", f>> # <<"dataset", i>>
    BY NameKinds
  <2>2. Store(j, <<"guide", f>>) \/ UNCHANGED docs
    BY <1>2 DEF SaveFile
  <2> QED BY <1>1, <2>1, <2>2
<1>3. ASSUME NEW h \in Item, WriteControl(j, h) PROVE docs'[<<"dataset", i>>] = docs[<<"dataset", i>>]
  <2>1. <<"artifacts", h>> \in Name /\ <<"artifacts", h>> # <<"dataset", i>>
    BY NameKinds
  <2>2. Store(j, <<"artifacts", h>>)
    BY <1>3 DEF WriteControl
  <2> QED BY <1>1, <2>1, <2>2
<1>4. ASSUME NEW h \in Item, ControlStep(j, h), ~WriteControl(j, h) PROVE UNCHANGED docs
  BY <1>4 DEF ControlStep, Take, LookControl, OpenProof, CompleteProof, RemoveProof, Record, RaiseControl
<1>5. ASSUME Progress(j) PROVE docs' = docs \/ \E f \in Files : SaveFile(j, f)
  <2>0. task[j].pc \notin {"clear", "save"}
    BY AtPlace DEF PlaceInv
  <2>1. ~Clear(j) /\ ~\E h \in Item : SaveBundle(j, h)
    BY <2>0 DEF Clear, SaveBundle, At
  <2> QED BY <1>5, <2>1 DEF Progress, StartDataset, Look, Checkpoint, FinishDataset,
              StartReportRun, FailReport, Family, Repair, FinishReport
<1>6. ASSUME CancelCheck(j) \/ CancelCommit(j) \/ Delete(j) \/ Claim(j) \/ Raise(j) PROVE UNCHANGED docs
  BY <1>6 DEF CancelCheck, CancelCommit, Delete, Claim, Raise
<1> QED BY <1>2, <1>3, <1>4, <1>5, <1>6 DEF JobStep

\* Nothing stopped after a step was stopped before it, and no document then had failed that
\* had not.
LEMMA CleanBack ==
  ASSUME TypeOK, PlaceInv, ListInv, Next, Clean'
  PROVE  Clean
<1> SUFFICES ASSUME NEW k \in Job, Dataset(k) PROVE k \notin stopped /\ job[k].errors = {}
  BY DEF Clean
<1>1. ASSUME Calm(k) PROVE k \notin stopped /\ job[k].errors = {}
  BY <1>1 DEF Clean, Calm, Dataset
<1>2. ASSUME NEW kind \in Kinds, NEW plan \in SUBSET Item,
             StartReport(kind, plan) \/ InsertDataset(plan)
      PROVE  k \notin stopped /\ job[k].errors = {}
  <2>1. PICK other \in Kinds : Insert(other, plan) /\ UNCHANGED <<docs, running, cancelling, history>>
    <3>1. "dataset" \in Kinds
      BY DEF Kinds
    <3> QED BY <1>2, <3>1 DEF StartReport, InsertDataset
  <2>2. PICK j \in Job : job[j].status = "none" /\ \A l \in Job : l # j => Calm(l)
    BY <2>1, Inserted
  <2>3. k # j
    BY <2>2 DEF PlaceInv, Placed, Dataset
  <2> QED BY <1>1, <2>2, <2>3
<1>3. CASE Supersede
  <2>1. Calm(k) \/ (job'[k].kind = job[k].kind /\ k \in stopped')
    BY <1>3, SupersedeRows
  <2> QED BY <1>1, <2>1 DEF Clean, Dataset
<1>4. CASE DeleteDocs
  BY <1>1, <1>4, DeleteDocsCalm
<1>5. CASE Recover
  <2>1. job'[k].kind = job[k].kind /\ job'[k].errors = job[k].errors /\ stopped' = stopped
    BY <1>5, RowTyped DEF Recover, Rows
  <2> QED BY <2>1 DEF Clean, Dataset
<1>6. CASE Crash
  BY <1>6 DEF Crash, Clean, Dataset
<1>7. ASSUME NEW j \in Job, JobStep(j) PROVE k \notin stopped /\ job[k].errors = {}
  <2>1. CASE k # j
    BY <1>1, <1>7, <2>1, Others
  <2>2. CASE k = j
    <3>1. job'[j].kind = job[j].kind /\ j \notin stopped' /\ job'[j].errors = {}
      <4>1. job'[j].kind = job[j].kind
        BY <1>7, JobKind
      <4> QED BY <2>2, <4>1 DEF Clean, Dataset
    <3>2. Placed(j) /\ Remembered(j) /\ Dataset(j)
      BY <2>2 DEF PlaceInv, ListInv
    <3>3. ASSUME CancelCommit(j) \/ Delete(j) \/ Raise(j) PROVE FALSE
      BY <3>1, <3>3 DEF CancelCommit, Delete, Raise
    <3>4. CASE \/ CancelCheck(j) \/ Clear(j) \/ Look(j) \/ \E i \in Item : SaveBundle(j, i)
      BY <2>2, <3>1, <3>4 DEF CancelCheck, Clear, Look, SaveBundle
    <3>5. CASE Claim(j) \/ StartDataset(j)
      <4>1. job'[j].errors = job[j].errors /\ UNCHANGED stopped
        BY <3>5, RowTyped DEF Claim, StartDataset, TypeOK, Rows
      <4> QED BY <2>2, <3>1, <4>1
    <3>6. CASE Checkpoint(j) \/ FinishDataset(j)
      <4>1. ~At(j, "free") /\ ~At(j, "start") /\ UNCHANGED stopped
        BY <3>6 DEF Checkpoint, FinishDataset, At
      <4>2. Known(j) /\ Exists(j)
        BY <3>1, <3>2, <4>1, RunsOn DEF Remembered, At
      <4>3. job'[j].errors = task[j].errors
        BY <3>6, <4>2, AfterCheckpoint, AfterDatasetEnd
      <4> QED BY <2>2, <3>1, <4>1, <4>2, <4>3 DEF Known
    <3>7. ~(StartReportRun(j) \/ FailReport(j) \/ Family(j) \/ Repair(j) \/ FinishReport(j))
      <4>1. ~At(j, "raised") /\ ~At(j, "controls")
        BY <3>2, AtPlace DEF Dataset
      <4> QED BY <3>2, <4>1 DEF StartReportRun, FailReport, Family, Repair, FinishReport
    <3>8. ASSUME NEW f \in Files, SaveFile(j, f) PROVE FALSE
      <4>1. task[j].pc \in {"file 1", "file 2"}
        BY <3>8 DEF SaveFile, At
      <4> QED BY <3>2, <4>1, AtPlace DEF Dataset
    <3>9. ASSUME NEW i \in Item, ControlStep(j, i) PROVE FALSE
      BY <3>2, <3>9, ControlDocs DEF Dataset
    <3> QED BY <1>7, <3>3, <3>4, <3>5, <3>6, <3>7, <3>8, <3>9 DEF JobStep, Progress
  <2> QED BY <2>1, <2>2
<1> QED BY <1>2, <1>3, <1>4, <1>5, <1>6, <1>7, StepKinds

\* What the claim of a test-dataset job finds: with one slot every earlier one is complete.
LEMMA ClaimBehind ==
  ASSUME TypeOK, PlaceInv, Clean, Ordered, DatasetSlots = 1, NEW j \in Job, Dataset(j), Claim(j),
         NEW l \in Job, Dataset(l), l < j
  PROVE  job[l].status = "complete"
<1>1. /\ worker = "up" /\ job[j].status = "pending"
      /\ \A k \in SamePool(j) : job[k].status = "pending" => j <= k
      /\ Cardinality(Live(j)) < 1
  BY DEF Claim
<1>2. l \in SamePool(j) /\ ~(j <= l)
  <2>1. j \in Nat /\ l \in Nat
    BY JobAssumption
  <2>2. ~(j <= l)
    BY <2>1
  <2> QED BY <2>2 DEF SamePool, Dataset
<1>3. job[l].status # "pending"
  BY <1>1, <1>2
<1>4. job[l].status # "none"
  BY DEF PlaceInv, Placed, Dataset
<1>5. job[l].status \notin {"cancelled", "failed", "gone"}
  BY DEF Ordered, Steady, Clean
<1>6. job[l].status # "running"
  <2> SUFFICES ASSUME job[l].status = "running" PROVE FALSE
    OBVIOUS
  <2>1. ~At(l, "free")
    BY <1>1 DEF Ordered, Steady, Clean
  <2>2. l \in Live(j)
    BY <1>2, <2>1 DEF Live, At
  <2>3. IsFiniteSet(Live(j))
    <3>1. Live(j) \subseteq Job
      BY DEF Live, SamePool
    <3> QED BY <3>1, JobAssumption, FS_Subset, Zenon
  <2>4. Cardinality(Live(j)) = 0
    <3>1. Cardinality(Live(j)) \in Nat
      BY <2>3, FS_CardinalityType, Zenon
    <3> QED BY <1>1, <3>1
  <2>5. Live(j) = {}
    BY <2>3, <2>4, FS_EmptySet, Zenon
  <2> QED BY <2>2, <2>5
<1> QED BY <1>3, <1>4, <1>5, <1>6, RowTyped DEF Statuses, Dataset, Rows

\* The previous job that a new one finds: the one that any older document there is of, and
\* that lists it.
LEMMA PreviousOwner ==
  ASSUME TypeOK, PlaceInv, ListInv, Clean, Ordered, NEW j \in Job, Dataset(j),
         job[j].status = "running", NEW i \in Item, docs[<<"dataset", i>>] # NoJob,
         ~(docs[<<"dataset", i>>] >= j)
  PROVE  /\ Previous(j) # {}
         /\ docs[<<"dataset", i>>] = CHOOSE k \in Previous(j) : TRUE
         /\ <<"dataset", i>> \in UNION {job[k].listed : k \in Previous(j)}
<1> DEFINE n == <<"dataset", i>>
           k == docs[n]
           ended == {l \in Job \ {j} : Dataset(l) /\ Ended(l)}
<1>1. n \in Name /\ k \in Job /\ k \in Nat /\ j \in Nat /\ n[1] = "dataset" /\ n[2] = i
  <2>1. n \in Name
    BY NameKinds
  <2>2. k \in Job
    BY <2>1 DEF TypeOK
  <2> QED BY <2>1, <2>2, JobAssumption
<1>2. Dataset(k) /\ k < j /\ Started(k)
  <2>1. Dataset(k)
    BY <1>1 DEF PlaceInv, Placed, Owned, Dataset
  <2> QED BY <1>1, <2>1 DEF Started
<1>3. job[k].status = "complete"
  <2>1. Behind(k) /\ Started(j)
    BY <1>1, <1>2 DEF Ordered, Started
  <2> QED BY <1>2, <2>1 DEF Behind
<1>4. k \in ended /\ ended \subseteq Nat /\ IsFiniteSet(ended)
  <2>1. ended \subseteq Job
    OBVIOUS
  <2>2. k \in ended
    BY <1>1, <1>2, <1>3 DEF Ended
  <2>3. IsFiniteSet(ended)
    BY <2>1, JobAssumption, FS_Subset, Zenon
  <2> QED BY <2>1, <2>2, <2>3, JobAssumption
<1>5. \E x \in ended : \A y \in ended : y <= x
  <2> HIDE DEF ended, k
  <2>1. ended # {}
    BY <1>4
  <2> QED BY <1>4, <2>1, Largest
<1>6. PICK l \in ended : \A y \in ended : y <= l
  BY <1>5
<1>7. l \in Job /\ l \in Nat /\ l # j /\ Dataset(l) /\ Ended(l) /\ k <= l
  BY <1>4, <1>6
<1>8. job[l].status = "complete"
  <2>1. job[l].status \notin {"cancelled", "failed"}
    BY <1>7 DEF Ordered, Steady, Clean
  <2> QED BY <1>7, <2>1 DEF Ended
<1>9. l < j
  <2> SUFFICES ASSUME j < l PROVE FALSE
    BY <1>1, <1>7
  <2>1. Started(l) /\ Behind(j)
    BY <1>7, <1>8 DEF Started, Ordered
  <2> QED BY <1>7, <2>1 DEF Behind
<1>10. k = l
  <2>1. Tidy(l)
    BY <1>7 DEF Ordered
  <2>2. Own(l)
    BY <1>8, <2>1 DEF Tidy
  <2>3. k = NoJob \/ k >= l
    BY <2>2 DEF Own
  <2> QED BY <1>1, <1>7, <2>3
<1>11. Previous(j) = {k}
  <2> HIDE DEF k
  <2>1. Previous(j) = {x \in ended : \A y \in ended : y <= x}
    BY DEF Previous
  <2>2. k \in Previous(j)
    BY <1>6, <1>10, <2>1
  <2>3. ASSUME NEW x \in Previous(j) PROVE x = k
    <3>1. x \in ended /\ k <= x /\ x <= k
      BY <1>4, <1>6, <1>10, <2>1, <2>3
    <3>2. x \in Nat /\ k \in Nat
      BY <1>1, <1>4, <3>1
    <3> QED BY <3>1, <3>2
  <2> QED BY <2>2, <2>3
<1>12. n \in job[k].listed
  <2>1. Accounted(k)
    BY <1>1, <1>2, <1>3 DEF ListInv, Remembered, Clean
  <2>2. job[k].errors = {}
    BY <1>1, <1>2 DEF Clean
  <2>3. n \in job[k].listed \/ n[1] = "guide" \/ n[2] \in job[k].errors
    BY <1>1, <2>1 DEF Accounted
  <2> QED BY <1>1, <2>2, <2>3
<1> HIDE DEF k
<1>13. k = CHOOSE x \in Previous(j) : TRUE
  BY <1>11
<1>14. n \in UNION {job[x].listed : x \in Previous(j)}
  BY <1>11, <1>12
<1>15. Previous(j) # {}
  BY <1>11
<1> QED BY <1>13, <1>14, <1>15 DEF k

\* A job that runs: the one after it have not begun.
LEMMA LaterWait ==
  ASSUME TypeOK, ListInv, Clean, Ordered, NEW j \in Job, Dataset(j), job[j].status = "running",
         NEW k \in Job, Dataset(k), j < k
  PROVE  task[k].pc = "free" /\ job[k].status # "complete"
<1>1. ~Started(k)
  BY DEF Ordered, Behind
<1>2. job[k].status \notin {"running", "complete"}
  BY <1>1 DEF Started
<1> QED BY <1>2 DEF ListInv, Remembered, Clean, At

\* The own step of a test-dataset job, for the order of all.
LEMMA OwnBehind ==
  ASSUME TypeOK, PlaceInv, ListInv, Ordered, NEW j \in Job, Dataset(j), JobStep(j),
         job[j].status = "running", NEW k \in Job, Dataset(k)
  PROVE  Behind(k)'
<1>1. \A l \in Job : job'[l].kind = job[l].kind
  BY JobKind
<1>2. \A l \in Job : l # j => Calm(l)
  BY Others
<1>3. ASSUME NEW l \in Job, Dataset(l)', k < l, Started(l)' PROVE job'[k].status = "complete"
  <2>1. Dataset(l)
    BY <1>1, <1>3 DEF Dataset
  <2>2. Started(l)
    <3>1. CASE l = j
      BY <3>1 DEF Started
    <3>2. CASE l # j
      <4>1. Calm(l)
        BY <1>2, <3>2
      <4> QED BY <1>3, <4>1 DEF Calm, Started
    <3> QED BY <3>1, <3>2
  <2>3. job[k].status = "complete"
    BY <1>3, <2>1, <2>2 DEF Ordered, Behind
  <2>4. Calm(k)
    BY <1>2, <2>3
  <2> QED BY <2>3, <2>4 DEF Calm
<1> QED BY <1>3 DEF Behind

LEMMA OthersTidy ==
  ASSUME TypeOK, PlaceInv, ListInv, Clean, Ordered, NEW j \in Job, Dataset(j), JobStep(j),
         job[j].status = "running", NEW k \in Job, Dataset(k), k # j,
         \A i \in Item : \/ docs'[<<"dataset", i>>] = docs[<<"dataset", i>>]
                         \/ docs'[<<"dataset", i>>] = NoJob
                         \/ docs'[<<"dataset", i>>] = j
  PROVE  Tidy(k)'
<1>1. Calm(k) /\ Tidy(k) /\ j \in Nat /\ k \in Nat
  BY Others, JobAssumption DEF Ordered
<1>2. CASE j < k
  <2>1. task'[k].pc = "free" /\ job'[k].status # "complete"
    BY <1>1, <1>2, LaterWait DEF Calm
  <2> QED BY <2>1 DEF Tidy, At
<1>3. CASE ~(j < k)
  <2>1. j >= k
    BY <1>1, <1>3
  <2>2. \A i \in Item : \/ docs'[<<"dataset", i>>] = docs[<<"dataset", i>>]
                        \/ docs'[<<"dataset", i>>] = NoJob
                        \/ docs'[<<"dataset", i>>] >= k
    BY <2>1
  <2> QED BY <1>1, <2>2, TidyKept DEF Calm
<1> QED BY <1>2, <1>3

\* One of a job's own steps from the claim on: its package holds nothing older once it has
\* cleared the previous one.
LEMMA OwnTidy ==
  ASSUME TypeOK, PlaceInv, ListInv, Clean, Clean', Ordered, NEW j \in Job, Dataset(j),
         job[j].status = "running",
         \/ StartDataset(j) \/ Clear(j) \/ Look(j) \/ Checkpoint(j) \/ FinishDataset(j)
         \/ \E i \in Item : SaveBundle(j, i)
  PROVE  /\ Tidy(j)'
         /\ \A i \in Item : \/ docs'[<<"dataset", i>>] = docs[<<"dataset", i>>]
                            \/ docs'[<<"dataset", i>>] = NoJob
                            \/ docs'[<<"dataset", i>>] = j
<1>0. /\ \A i \in Item : <<"dataset", i>> \in Name
      /\ j \in Nat /\ j # NoJob
  BY NameKinds, JobAssumption DEF NoJob
<1>1. Tidy(j)
  BY DEF Ordered
<1>2. CASE StartDataset(j)
  <2>1. Exists(j)
    BY DEF Exists
  <2>2. /\ task'[j].pc = "clear"
        /\ task'[j].prev = IF Previous(j) = {} THEN NoJob ELSE CHOOSE k \in Previous(j) : TRUE
        /\ task'[j].clear = UNION {job[k].listed : k \in Previous(j)}
        /\ job' = [job EXCEPT ![j].status = "running"]
    BY <1>2, <2>1, AfterStart
  <2>3. UNCHANGED docs /\ job'[j].status = "running"
    BY <1>2, <2>2, RowTyped DEF StartDataset, TypeOK, Rows
  <2>4. ASSUME NEW i \in Item
        PROVE  LET n == <<"dataset", i>>
               IN docs'[n] = NoJob \/ docs'[n] >= j \/ (docs'[n] = task'[j].prev /\ n \in task'[j].clear)
    <3>1. CASE docs[<<"dataset", i>>] # NoJob /\ ~(docs[<<"dataset", i>>] >= j)
      <4>1. /\ Previous(j) # {}
            /\ docs[<<"dataset", i>>] = CHOOSE k \in Previous(j) : TRUE
            /\ <<"dataset", i>> \in UNION {job[k].listed : k \in Previous(j)}
        BY <3>1, PreviousOwner
      <4>2. docs[<<"dataset", i>>] = task'[j].prev /\ <<"dataset", i>> \in task'[j].clear
        BY <2>2, <4>1
      <4> QED BY <2>3, <4>2
    <3>2. CASE ~(docs[<<"dataset", i>>] # NoJob /\ ~(docs[<<"dataset", i>>] >= j))
      BY <2>3, <3>2
    <3> QED BY <3>1, <3>2
  <2> QED BY <2>2, <2>3, <2>4 DEF Tidy, At
<1>3. CASE Clear(j)
  <2>1. /\ At(j, "clear") /\ UNCHANGED job
        /\ IF task[j].prev = NoJob THEN UNCHANGED docs ELSE Remove(task[j].prev, task[j].clear)
    BY <1>3 DEF Clear
  <2>2. task'[j].pc = "loop"
    BY <1>3, TaskTyped DEF Clear, TypeOK, Tasks
  <2>3. ASSUME NEW i \in Item
        PROVE  /\ docs'[<<"dataset", i>>] = NoJob \/ docs'[<<"dataset", i>>] >= j
               /\ docs'[<<"dataset", i>>] \in {docs[<<"dataset", i>>], NoJob}
    <3> DEFINE n == <<"dataset", i>>
    <3>1. docs[n] = NoJob \/ docs[n] >= j \/ (docs[n] = task[j].prev /\ n \in task[j].clear)
      BY <1>1, <2>1 DEF Tidy
    <3>2. n \in Name
      BY <1>0
    <3>3. CASE task[j].prev = NoJob
      <4>1. docs' = docs
        BY <2>1, <3>3
      <4> QED BY <3>1, <3>3, <4>1
    <3>4. CASE task[j].prev # NoJob
      <4>1. docs'[n] = IF docs[n] = task[j].prev /\ n \in task[j].clear THEN NoJob ELSE docs[n]
        <5> HIDE DEF n
        <5> QED BY <2>1, <3>2, <3>4 DEF Remove
      <4> QED BY <3>1, <4>1
    <3> QED BY <3>3, <3>4
  <2>4. Own(j)'
    BY <2>3 DEF Own
  <2> QED BY <2>2, <2>3, <2>4 DEF Tidy, At
<1>4. ASSUME task[j].pc \notin {"free", "start", "clear"}, UNCHANGED docs, task'[j].pc # "clear"
      PROVE  Tidy(j)' /\ \A i \in Item : docs'[<<"dataset", i>>] = docs[<<"dataset", i>>]
  <2>1. Own(j)
    BY <1>1, <1>4 DEF Tidy
  <2>2. Own(j)'
    BY <1>4, <2>1 DEF Own
  <2> QED BY <1>4, <2>2 DEF Tidy, At
<1>5. CASE Look(j)
  <2>1. task[j].pc = "loop" /\ UNCHANGED docs
    BY <1>5 DEF Look, At
  <2>2. task'[j].pc # "clear"
    BY <1>5, AfterLook
  <2> QED BY <1>4, <2>1, <2>2
<1>6. CASE Checkpoint(j)
  <2>1. task[j].pc = "checkpoint" /\ UNCHANGED docs
    BY <1>6 DEF Checkpoint, At
  <2>2. task'[j].pc # "clear"
    BY <1>6, AfterCheckpoint
  <2> QED BY <1>4, <2>1, <2>2
<1>7. CASE FinishDataset(j)
  <2>1. task[j].pc = "finish" /\ UNCHANGED docs
    BY <1>7 DEF FinishDataset, At
  <2>2. task'[j].pc = "free"
    BY <1>7, AfterDatasetEnd DEF NoTask
  <2> QED BY <1>4, <2>1, <2>2
<1>8. ASSUME NEW i \in Item, SaveBundle(j, i)
      PROVE  /\ Tidy(j)'
             /\ \A h \in Item : \/ docs'[<<"dataset", h>>] = docs[<<"dataset", h>>]
                                \/ docs'[<<"dataset", h>>] = j
  <2>1. task[j].pc = "save"
    BY <1>8 DEF SaveBundle, At
  <2>2. task'[j].pc # "clear" /\ (Store(j, <<"dataset", i>>) \/ UNCHANGED docs)
    BY <1>8, AfterSave
  <2>3. Own(j)
    BY <1>1, <2>1 DEF Tidy
  <2>4. \A h \in Item : docs'[<<"dataset", h>>] \in {docs[<<"dataset", h>>], j}
    <3>1. CASE Store(j, <<"dataset", i>>)
      BY <1>0, <3>1 DEF Store, TypeOK
    <3>2. CASE UNCHANGED docs
      BY <3>2
    <3> QED BY <2>2, <3>1, <3>2
  <2>5. j >= j
    BY <1>0
  <2>6. Own(j)'
    BY <2>3, <2>4, <2>5 DEF Own
  <2> QED BY <2>2, <2>4, <2>6 DEF Tidy, At
<1> QED BY <1>2, <1>3, <1>5, <1>6, <1>7, <1>8

LEMMA OrderStep ==
  ASSUME TypeOK, PlaceInv, ListInv, PlaceInv', OrderInv, DatasetSlots = 1, [Next]_vars
  PROVE  OrderInv'
<1>1. CASE UNCHANGED vars
  BY <1>1 DEF vars, OrderInv, Newest, Unused, Steady, Clean, Behind, Started, Tidy, Own, Dataset, At
<1>2. CASE Next
  <2>1. Newest'
    BY <1>2, NewestStep DEF OrderInv
  <2>2. ASSUME NEW k \in Job, Dataset(k)' PROVE Steady(k)'
    <3>1. Dataset(k) => Steady(k)
      BY DEF OrderInv
    <3>2. ASSUME Calm(k), worker' = worker \/ worker' # "up" PROVE Steady(k)'
      <4>1. Steady(k)
        BY <2>2, <3>1, <3>2 DEF Calm, Dataset
      <4> QED BY <3>2, <4>1 DEF Calm, Steady, At
    <3>3. ASSUME NEW kind \in Kinds, NEW plan \in SUBSET Item,
                 StartReport(kind, plan) \/ InsertDataset(plan)
          PROVE  Steady(k)'
      <4>1. PICK other \in Kinds : Insert(other, plan) /\ UNCHANGED <<docs, running, cancelling, history>>
        <5>1. "dataset" \in Kinds
          BY DEF Kinds
        <5> QED BY <3>3, <5>1 DEF StartReport, InsertDataset
      <4>2. PICK j \in Job :
              /\ job[j].status = "none" /\ j \in Unused /\ \A l \in Unused : j <= l
              /\ job'[j] = [NoRow EXCEPT !.kind = other, !.status = "pending", !.plan = plan]
              /\ \A l \in Job : l # j => Calm(l)
        BY <4>1, Inserted
      <4>3. CASE k = j
        <5>1. job'[k].status = "pending"
          BY <4>2, <4>3 DEF NoRow
        <5> QED BY <5>1 DEF Steady
      <4>4. CASE k # j
        BY <3>2, <4>1, <4>2, <4>4
      <4> QED BY <4>3, <4>4
    <3>4. CASE Supersede
      <4>1. worker' = worker /\ (Calm(k) \/ k \in stopped')
        BY <3>4, SupersedeRows
      <4>2. CASE k \in stopped'
        BY <4>2 DEF Steady
      <4> QED BY <3>2, <4>1, <4>2
    <3>5. CASE DeleteDocs
      <4>1. worker' = worker
        BY <3>5 DEF DeleteDocs
      <4> QED BY <3>2, <3>5, <4>1, DeleteDocsCalm
    <3>6. CASE Recover
      <4>1. /\ job'[k].kind = job[k].kind /\ stopped' = stopped /\ job'[k].status # "running"
            /\ job'[k].status \in {job[k].status, "pending"}
        BY <3>6, RowTyped DEF Recover, Rows
      <4> QED BY <2>2, <3>1, <4>1 DEF Steady, Dataset
    <3>7. CASE Crash
      BY <2>2, <3>1, <3>7 DEF Crash, Steady, Dataset
    <3>8. ASSUME NEW j \in Job, JobStep(j) PROVE Steady(k)'
      <4>1. CASE k # j
        BY <3>2, <3>8, <4>1, Others, WorkerStays
      <4>2. CASE k = j
        BY <2>2, <3>1, <3>8, <4>2, JobKind, SteadyJob DEF Dataset
      <4> QED BY <4>1, <4>2
    <3> QED BY <1>2, <3>3, <3>4, <3>5, <3>6, <3>7, <3>8, StepKinds
  <2>3. ASSUME Clean', NEW k \in Job, Dataset(k)' PROVE Behind(k)' /\ Tidy(k)'
    <3>1. Clean
      BY <1>2, <2>3, CleanBack
    <3>2. Ordered
      BY <3>1 DEF OrderInv, Ordered
    <3>3. \A l \in Job : Dataset(l) => Behind(l) /\ Tidy(l)
      BY <3>2 DEF Ordered
    <3>4. ASSUME NEW kind \in Kinds, NEW plan \in SUBSET Item,
                 StartReport(kind, plan) \/ InsertDataset(plan)
          PROVE  Behind(k)' /\ Tidy(k)'
      <4>1. PICK other \in Kinds : Insert(other, plan) /\ UNCHANGED <<docs, running, cancelling, history>>
        <5>1. "dataset" \in Kinds
          BY DEF Kinds
        <5> QED BY <3>4, <5>1 DEF StartReport, InsertDataset
      <4>2. PICK j \in Job :
              /\ job[j].status = "none" /\ j \in Unused /\ \A l \in Unused : j <= l
              /\ job'[j] = [NoRow EXCEPT !.kind = other, !.status = "pending", !.plan = plan]
              /\ \A l \in Job : l # j => Calm(l)
        BY <4>1, Inserted
      <4>3. ~Started(j)'
        <5>1. job'[j].status = "pending"
          BY <4>2 DEF NoRow
        <5>2. \A n \in Name : docs[n] # j
          <6>1. job[j].kind = "none" /\ Owned(j)
            BY <4>2 DEF PlaceInv, Placed
          <6>2. \A n \in Name : n[1] # "none"
            BY NameFirst
          <6> QED BY <6>1, <6>2 DEF Owned
        <5> QED BY <4>1, <5>1, <5>2 DEF Started
      <4>4. \A l \in Job : l # j /\ Started(l)' => Started(l) /\ (Dataset(l)' <=> Dataset(l))
        BY <4>2 DEF Calm, Started, Dataset
      <4>5. CASE k = j
        <5>1. task'[k].pc = "free" /\ job'[k].status = "pending"
          BY <4>1, <4>2, <4>5 DEF PlaceInv, Placed, Idle, At, NoRow
        <5>2. ASSUME NEW l \in Job, Dataset(l)', k < l, Started(l)' PROVE FALSE
          <6>1. Started(l) /\ Dataset(l)
            BY <4>3, <4>4, <5>2
          <6>2. job[l].status # "none"
            BY <6>1 DEF PlaceInv, Placed, Dataset
          <6>3. l < k
            BY <4>2, <4>5, <6>2 DEF OrderInv, Newest
          <6> QED BY <5>2, <6>3, JobAssumption
        <5> QED BY <5>1, <5>2 DEF Behind, Tidy, At
      <4>6. CASE k # j
        <5>1. Calm(k)
          BY <4>2, <4>6
        <5>2. Behind(k) /\ Tidy(k) /\ Dataset(k)
          BY <2>3, <3>3, <5>1 DEF Calm, Dataset
        <5>3. ASSUME NEW l \in Job, Dataset(l)', k < l, Started(l)' PROVE job'[k].status = "complete"
          <6>1. Started(l) /\ Dataset(l)
            BY <4>3, <4>4, <5>3
          <6>2. job[k].status = "complete"
            BY <5>2, <5>3, <6>1 DEF Behind
          <6> QED BY <5>1, <6>2 DEF Calm
        <5>4. Behind(k)'
          BY <5>3 DEF Behind
        <5>5. Tidy(k)'
          BY <4>1, <5>1, <5>2, TidyKept DEF Calm
        <5> QED BY <5>4, <5>5
      <4> QED BY <4>5, <4>6
    <3>5. ASSUME \A l \in Job : Calm(l),
                 \A i \in Item : docs'[<<"dataset", i>>] = docs[<<"dataset", i>>]
          PROVE  Behind(k)' /\ Tidy(k)'
      BY <2>3, <3>3, <3>5, OrderFrame DEF Calm
    <3>6. CASE Supersede
      <4>1. \A l \in Job : Calm(l)
        <5> SUFFICES ASSUME NEW l \in Job PROVE Calm(l)
          OBVIOUS
        <5>1. Calm(l) \/ (Dataset(l) /\ job'[l].kind = job[l].kind /\ l \in stopped')
          BY <3>6, SupersedeRows
        <5> QED BY <2>3, <5>1 DEF Clean, Dataset
      <4>2. UNCHANGED docs
        BY <3>6 DEF Supersede
      <4> QED BY <3>5, <4>1, <4>2
    <3>7. CASE DeleteDocs
      <4>1. \A i \in Item : docs'[<<"dataset", i>>] = docs[<<"dataset", i>>]
        BY <3>7, NameKinds DEF DeleteDocs
      <4> QED BY <3>5, <3>7, <4>1, DeleteDocsCalm
    <3>8. CASE Recover
      <4>1. UNCHANGED <<docs, task>>
        BY <3>8 DEF Recover
      <4>2. \A l \in Job : /\ job'[l].kind = job[l].kind /\ job'[l].status # "running"
                           /\ job'[l].status \in {job[l].status, "pending"}
                           /\ job[l].status = "complete" => job'[l].status = "complete"
        BY <3>8, RowTyped DEF Recover, Rows
      <4> QED BY <2>3, <3>3, <4>1, <4>2, OrderFrame
    <3>9. CASE Crash
      <4>1. UNCHANGED <<docs, job>> /\ \A l \in Job : task'[l].pc = "free"
        BY <3>9 DEF Crash, NoTask
      <4> QED BY <2>3, <3>3, <4>1, OrderFrame
    <3>10. ASSUME NEW j \in Job, JobStep(j) PROVE Behind(k)' /\ Tidy(k)'
      <4>1. \A l \in Job : job'[l].kind = job[l].kind
        BY <3>10, JobKind
      <4>2. \A l \in Job : l # j => Calm(l)
        BY <3>10, Others
      <4>3. CASE ~Dataset(j)
        <5>1. \A i \in Item : docs'[<<"dataset", i>>] = docs[<<"dataset", i>>]
          BY <3>10, <4>3, ReportDocs
        <5>2. \A l \in Job : Dataset(l) => Calm(l)
          BY <4>2, <4>3
        <5> QED BY <2>3, <3>3, <4>1, <5>1, <5>2, OrderFrame DEF Calm
      <4>4. CASE Dataset(j)
        <5>1. j \notin stopped' /\ j \notin stopped
          <6>1. Dataset(j)'
            BY <4>1, <4>4 DEF Dataset
          <6> QED BY <2>3, <3>1, <4>4, <6>1 DEF Clean
        <5>2. Dataset(k)
          BY <2>3, <4>1 DEF Dataset
        <5>3. Placed(j) /\ Remembered(j)
          BY DEF PlaceInv, ListInv
        <5>4. CASE CancelCheck(j)
          <6>1. UNCHANGED <<job, docs, task>>
            BY <5>4 DEF CancelCheck
          <6> QED BY <2>3, <3>3, <6>1, OrderFrame
        <5>5. ~(CancelCommit(j) \/ Delete(j) \/ Raise(j))
          BY <5>1 DEF CancelCommit, Delete, Raise
        <5>6. CASE Claim(j)
          <6>1. /\ UNCHANGED docs /\ job[j].status = "pending"
                /\ job'[j].status = "running" /\ task'[j].pc = "start"
            BY <5>6, RowTyped, TaskTyped DEF Claim, TypeOK, Rows, Tasks
          <6>2. Tidy(k)'
            <7>1. CASE k = j
              BY <3>3, <5>2, <6>1, <7>1, TidyKept
            <7>2. CASE k # j
              BY <3>3, <4>2, <5>2, <6>1, <7>2, TidyKept DEF Calm
            <7> QED BY <7>1, <7>2
          <6>3. ASSUME NEW l \in Job, Dataset(l)', k < l, Started(l)' PROVE job'[k].status = "complete"
            <7>1. Dataset(l)
              BY <4>1, <6>3 DEF Dataset
            <7>2. job[k].status = "complete"
              <8>1. CASE l = j
                BY <3>1, <3>2, <4>4, <5>2, <5>6, <6>3, <8>1, ClaimBehind
              <8>2. CASE l # j
                <9>1. Started(l)
                  BY <4>2, <6>3, <8>2 DEF Calm, Started
                <9> QED BY <3>3, <5>2, <6>3, <7>1, <9>1 DEF Behind
              <8> QED BY <8>1, <8>2
            <7>3. Calm(k)
              BY <4>2, <6>1, <7>2
            <7> QED BY <7>2, <7>3 DEF Calm
          <6> QED BY <6>2, <6>3 DEF Behind
        <5>7. CASE Progress(j) /\ ~Claim(j)
          <6>1. ~At(j, "free")
            BY <5>7 DEF Progress, StartDataset, Clear, Look, Checkpoint, FinishDataset, SaveBundle,
                        StartReportRun, FailReport, Family, Repair, FinishReport, SaveFile, At
          <6>2. job[j].status = "running"
            BY <5>1, <5>3, <6>1, RunsOn
          <6>3. Behind(k)'
            BY <3>2, <3>10, <4>4, <5>2, <6>2, OwnBehind
          <6>4. ~(StartReportRun(j) \/ FailReport(j) \/ Family(j) \/ Repair(j) \/ FinishReport(j))
            <7>1. ~At(j, "raised") /\ ~At(j, "controls")
              BY <4>4, <5>3, AtPlace DEF Dataset
            <7> QED BY <4>4, <7>1 DEF StartReportRun, FailReport, Family, Repair, FinishReport
          <6>5. ASSUME NEW f \in Files, SaveFile(j, f) PROVE FALSE
            <7>1. task[j].pc \in {"file 1", "file 2"}
              BY <6>5 DEF SaveFile, At
            <7> QED BY <4>4, <5>3, <7>1, AtPlace DEF Dataset
          <6>6. /\ Tidy(j)'
                /\ \A i \in Item : \/ docs'[<<"dataset", i>>] = docs[<<"dataset", i>>]
                                   \/ docs'[<<"dataset", i>>] = NoJob
                                   \/ docs'[<<"dataset", i>>] = j
            <7>1. \/ StartDataset(j) \/ Clear(j) \/ Look(j) \/ Checkpoint(j) \/ FinishDataset(j)
                  \/ \E i \in Item : SaveBundle(j, i)
              BY <5>7, <6>4, <6>5 DEF Progress
            <7> QED BY <2>3, <3>1, <3>2, <4>4, <6>2, <7>1, OwnTidy
          <6>7. CASE k = j
            BY <6>3, <6>6, <6>7
          <6>8. CASE k # j
            BY <3>1, <3>2, <3>10, <4>4, <5>2, <6>2, <6>3, <6>6, <6>8, OthersTidy
          <6> QED BY <6>7, <6>8
        <5>8. ASSUME NEW i \in Item, ControlStep(j, i) PROVE FALSE
          BY <4>4, <5>3, <5>8, ControlDocs DEF Dataset
        <5> QED BY <3>10, <5>4, <5>5, <5>6, <5>7, <5>8 DEF JobStep
      <4> QED BY <4>3, <4>4
    <3> QED BY <1>2, <3>4, <3>6, <3>7, <3>8, <3>9, <3>10, StepKinds
  <2> QED BY <2>1, <2>2, <2>3 DEF OrderInv
<1> QED BY <1>1, <1>2

\* PackageClean, for every number of jobs and documents, with one slot for test-dataset
\* jobs (the shipped value): the jobs run in the order of their ids, each to its end, so
\* the previous run that a job looks up is the one whose documents are still there, and its
\* list names them all; with two slots the theorem is false.
THEOREM PackagesAreClean == DatasetSlots = 1 => (Spec => []PackageClean)
<1> SUFFICES ASSUME DatasetSlots = 1 PROVE Spec => []PackageClean
  OBVIOUS
<1>1. Init => OrderInv
  <2> SUFFICES ASSUME Init PROVE OrderInv
    OBVIOUS
  <2>1. \A k \in Job : job[k].status = "none" /\ ~Dataset(k)
    BY DEF Init, NoRow, Dataset
  <2> QED BY <2>1 DEF OrderInv, Newest
<1>2. TypeOK /\ PlaceInv /\ PlaceInv' /\ ListInv /\ OrderInv /\ [Next]_vars => OrderInv'
  BY OrderStep
<1>3. OrderInv => PackageClean
  <2> SUFFICES ASSUME OrderInv, Clean, NEW j \in Job, NEW i \in Item, Dataset(j), job[j].status = "complete"
               PROVE  docs[<<"dataset", i>>] = NoJob \/ docs[<<"dataset", i>>] >= j
    BY DEF PackageClean, Clean
  <2>1. Tidy(j)
    BY DEF OrderInv
  <2>2. Own(j)
    BY <2>1 DEF Tidy
  <2> QED BY <2>2 DEF Own
<1>4. Spec => []ListInv
  BY InitRemembered, ListStep, JobsAreTyped, PlaceInvariant, PTL DEF Spec
<1> QED BY <1>1, <1>2, <1>3, <1>4, JobsAreTyped, PlaceInvariant, PTL DEF Spec
=============================================================================
