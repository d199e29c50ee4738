-------------------------- MODULE IngestionProofs --------------------------
(***************************************************************************)
(* Theorems about Ingestion, for any documents, slots, tasks and bounds.   *)
(***************************************************************************)
EXTENDS Ingestion, TLAPS

USE DEF bounds, history

----------------------------------------------------------------------------
(* Types.                                                                  *)

\* The initial records are of their types.
LEMMA Initials == Idle \in Tasks /\ NoRun \in Runs /\ NoRows \in Counts
BY DEF Idle, Tasks, NoRun, Runs, NoRows, Counts, Pcs, NoDocument, NoRunId, Stages

\* A task that is started is one.
LEMMA SpawnTyped ==
  ASSUME task \in [Task -> Tasks], \A t \in Task : task[t].from <= task[t].upto,
         NEW d \in Document, NEW pc \in Pcs, NEW wrapped \in BOOLEAN, NEW r \in RunId \cup {NoRunId},
         Spawn(d, pc, wrapped, r)
  PROVE  task' \in [Task -> Tasks] /\ \A t \in Task : task'[t].from <= task'[t].upto
<1>1. PICK t \in WebTask :
        task' = [task EXCEPT ![t] = [Idle EXCEPT !.pc = pc, !.doc = d, !.run = r, !.wrapped = wrapped]]
  BY DEF Spawn
<1>2. [Idle EXCEPT !.pc = pc, !.doc = d, !.run = r, !.wrapped = wrapped] \in Tasks
  BY Initials DEF Tasks
<1>3. t \in Task /\ Idle.from = 0 /\ Idle.upto = 0
  BY DEF Task, Idle
<1> QED BY <1>1, <1>2, <1>3 DEF Tasks

\* A step of a task to another place, to its end, or to a handler.
LEMMA TaskTyped ==
  ASSUME task \in [Task -> Tasks], \A t \in Task : task[t].from <= task[t].upto, NEW t \in Task,
         \/ End(t)
         \/ \E pc \in Pcs : Goto(t, pc) \/ Handle(t, pc)
  PROVE  task' \in [Task -> Tasks] /\ \A u \in Task : task'[u].from <= task'[u].upto
<1>1. Idle.from = 0 /\ Idle.upto = 0 /\ Idle \in Tasks
  BY Initials DEF Idle
<1>2. CASE End(t)
  BY <1>1, <1>2 DEF End
<1>3. CASE \E pc \in Pcs : Goto(t, pc) \/ Handle(t, pc)
  <2>1. PICK pc \in Pcs : Goto(t, pc) \/ Handle(t, pc)
    BY <1>3
  <2>2. CASE Goto(t, pc)
    <3> DEFINE n == [task[t] EXCEPT !.pc = pc]
    <3>1. n \in Tasks
      BY DEF Tasks
    <3>2. n.from = task[t].from /\ n.upto = task[t].upto
      BY DEF Tasks
    <3>3. task' = [task EXCEPT ![t] = n]
      BY <2>2 DEF Goto
    <3> HIDE DEF n
    <3> QED BY <3>1, <3>2, <3>3
  <2>3. CASE Handle(t, pc)
    <3> DEFINE n == [Idle EXCEPT !.pc = pc, !.doc = task[t].doc, !.run = task[t].run,
                                 !.wrapped = task[t].wrapped]
    <3>1. n \in Tasks
      BY <1>1 DEF Tasks
    <3>2. n.from = 0 /\ n.upto = 0
      BY <1>1 DEF Tasks
    <3>3. task' = [task EXCEPT ![t] = n]
      BY <2>3 DEF Handle
    <3> HIDE DEF n
    <3> QED BY <3>1, <3>2, <3>3
  <2> QED BY <2>1, <2>2, <2>3
<1> QED BY <1>2, <1>3

\* The first stage that is not complete is a stage, or none.
LEMMA StageTyped == \A r \in RunId : run \in [RunId -> Runs] => StageOf(r) \in Stages \cup {"none"}
BY DEF StageOf, FirstIncomplete, Runs, Stages

\* The clean-up keeps the types.
LEMMA SweepTyped ==
  ASSUME TypeOK, NEW docs \in [Document -> ParseStatuses], Sweep(docs)
  PROVE  parse' \in [Document -> ParseStatuses] /\ run' \in [RunId -> Runs]
         /\ scars' \in [RunId -> SUBSET Stages]
<1>1. ASSUME NEW r \in RunId
      PROVE  [run[r] EXCEPT !.status = "failed", !.error = StageOf(r), !.stage = FailStage(r)] \in Runs
  <2>1. StageOf(r) \in Stages \cup {"none"} /\ run[r] \in Runs
    BY StageTyped DEF TypeOK
  <2>2. FailStage(r) \in [Stages -> {"pending", "running", "complete", "failed"}]
    BY <2>1 DEF FailStage, Runs
  <2> QED BY <2>1, <2>2 DEF Runs
<1>2. run' \in [RunId -> Runs]
  BY <1>1 DEF Sweep, TypeOK
<1>3. parse' \in [Document -> ParseStatuses]
  BY DEF Sweep, ParseStatuses
<1>4. \A r \in RunId : Undone(r) \subseteq Stages
  BY DEF Undone
<1>5. scars' \in [RunId -> SUBSET Stages]
  BY <1>4 DEF Sweep, TypeOK
<1> QED BY <1>2, <1>3, <1>5

\* A request keeps the types.
LEMMA RequestTyped ==
  ASSUME TypeOK, NEW d \in Document,
         \/ \E where \in {"project", "library", "procedure"} : Upload(d, where)
         \/ \E how \in {"reparse", "reprocess", "reindex"} : Requeue(d, how)
         \/ Recategorize(d) \/ Delete(d)
         \/ \E t \in Slot : Claim(t, d)
  PROVE  TypeOK'
<1> USE SizeAssumption
<1> DEFINE TasksOK == task \in [Task -> Tasks] /\ \A t \in Task : task[t].from <= task[t].upto
<1>t. TasksOK
  BY DEF TypeOK
<1>p. {"enter", "categorize"} \subseteq Pcs
  BY DEF Pcs
<1>1. CASE \E where \in {"project", "library", "procedure"} : Upload(d, where)
  <2>1. TasksOK'
    BY <1>t, <1>p, <1>1, SpawnTyped DEF Upload
  <2> HIDE DEF TasksOK
  <2> QED BY <1>1, <2>1 DEF TypeOK, Upload, ParseStatuses, TasksOK
<1>2. CASE \E how \in {"reparse", "reprocess", "reindex"} : Requeue(d, how)
  <2>1. TasksOK'
    <3>1. PICK how \in {"reparse", "reprocess", "reindex"} : Requeue(d, how)
      BY <1>2
    <3>2. (how = "reparse") \in BOOLEAN
      OBVIOUS
    <3> QED BY <1>t, <1>p, <3>1, <3>2, SpawnTyped DEF Requeue
  <2>2. parse' \in [Document -> ParseStatuses]
    BY <1>2 DEF Requeue, TypeOK, ParseStatuses
  <2> HIDE DEF TasksOK
  <2> QED BY <1>2, <2>1, <2>2 DEF TypeOK, Requeue, Asked, TasksOK
<1>3. CASE Recategorize(d)
  <2>1. TasksOK'
    BY <1>t, <1>p, <1>3, SpawnTyped DEF Recategorize
  <2> HIDE DEF TasksOK
  <2> QED BY <1>3, <2>1 DEF TypeOK, Recategorize, ParseStatuses, Asked, TasksOK
<1>4. CASE Delete(d)
  <2>1. [NoRun EXCEPT !.status = "gone"] \in Runs /\ NoRows \in Counts
    BY Initials DEF Runs
  <2> QED BY <1>4, <2>1 DEF TypeOK, Delete, Asked, ParseStatuses
<1>5. CASE \E t \in Slot : Claim(t, d)
  <2>1. PICK t \in Slot : Claim(t, d)
    BY <1>5
  <2> DEFINE n == [Idle EXCEPT !.pc = "enter", !.doc = d, !.wrapped = TRUE]
  <2>2. n \in Tasks /\ n.from = 0 /\ n.upto = 0
    BY Initials, <1>p DEF Idle, Tasks
  <2>3. task' = [task EXCEPT ![t] = n] /\ t \in Task
    BY <2>1 DEF Claim, Task
  <2>4. TasksOK'
    <3> HIDE DEF n
    <3> QED BY <1>t, <2>2, <2>3
  <2> HIDE DEF TasksOK
  <2> QED BY <2>1, <2>4 DEF TypeOK, Claim, ParseStatuses, TasksOK
<1> QED BY <1>1, <1>2, <1>3, <1>4, <1>5

\* The clean-up, the processes and the assessment keep the types.
LEMMA SystemTyped ==
  ASSUME TypeOK, \A t \in Task : Torn(t) => task[t].stage \in Stages,
         \/ \E r \in RunId : Resume(r) /\ run[r].doc \in Document
         \/ \E r \in RunId : Age(r)
         \/ Recover \/ WorkerDies \/ WebDies \/ FreezeRead \/ FreezeCommit \/ Execute
  PROVE  TypeOK'
<1> USE SizeAssumption
<1> DEFINE TasksOK == task \in [Task -> Tasks] /\ \A t \in Task : task[t].from <= task[t].upto
<1>t. TasksOK
  BY DEF TypeOK
<1>1. CASE \E r \in RunId : Resume(r) /\ run[r].doc \in Document
  <2>1. PICK r \in RunId : Resume(r) /\ run[r].doc \in Document
    BY <1>1
  <2>2. TasksOK'
    BY <1>t, <2>1, SpawnTyped DEF Resume, Pcs
  <2> HIDE DEF TasksOK
  <2> QED BY <2>1, <2>2 DEF TypeOK, Resume, Asked, TasksOK
<1>2. CASE \E r \in RunId : Age(r)
  <2>1. PICK r \in RunId : Age(r)
    BY <1>2
  <2>2. run[r] \in Runs
    BY DEF TypeOK
  <2>4. [run[r] EXCEPT !.aged = TRUE] \in Runs
    BY <2>2 DEF Runs
  <2>3. run' \in [RunId -> Runs]
    BY <2>1, <2>4 DEF Age, TypeOK
  <2> QED BY <2>1, <2>3 DEF TypeOK, Age, Trouble
<1>3. CASE Recover
  <2> DEFINE docs == [d \in Document |-> IF parse[d] = "processing" THEN "pending" ELSE parse[d]]
  <2>1. docs \in [Document -> ParseStatuses]
    BY DEF TypeOK, ParseStatuses
  <2>2. Sweep(docs)
    BY <1>3 DEF Recover
  <2> HIDE DEF docs
  <2>3. parse' \in [Document -> ParseStatuses] /\ run' \in [RunId -> Runs]
        /\ scars' \in [RunId -> SUBSET Stages]
    BY <2>1, <2>2, SweepTyped
  <2> QED BY <1>3, <2>3 DEF TypeOK, Recover
<1>4. CASE WorkerDies \/ WebDies
  <2>1. PICK T \in {Slot, WebTask} : Die(T)
    BY <1>4 DEF WorkerDies, WebDies
  <2>2. Idle \in Tasks /\ Idle.from = 0 /\ Idle.upto = 0
    BY Initials DEF Idle
  <2>3. TasksOK'
    BY <1>t, <2>1, <2>2 DEF Die
  <2>4. scars' \in [RunId -> SUBSET Stages]
    <3>1. T \subseteq Task
      BY <2>1 DEF Task
    <3> QED BY <2>1, <3>1 DEF TypeOK, Die, Tear
  <2>5. stranded' \subseteq Document /\ worker' \in {"up", "down"}
    BY <1>4 DEF WorkerDies, WebDies, Strand, TypeOK
  <2> HIDE DEF TasksOK
  <2> QED BY <2>1, <2>3, <2>4, <2>5 DEF TypeOK, Die, Trouble, TasksOK
<1>5. CASE FreezeRead \/ FreezeCommit \/ Execute
  <2>1. Entries \subseteq Document \X RunId
    BY DEF Entries
  <2>2. plan' \in [state : {"none", "read", "frozen", "executing", "blocked"},
                   scope : SUBSET (Document \X RunId)]
    BY <1>5, <2>1 DEF FreezeRead, FreezeCommit, Execute, TypeOK
  <2> QED BY <1>5, <2>2 DEF TypeOK, FreezeRead, FreezeCommit, Execute
<1> QED BY <1>1, <1>2, <1>3, <1>4, <1>5

\* A task that looks at its run has one.
LEMMA HasRun ==
  ASSUME TypeOK, NEW t \in Task, TaskKept(t), Opened(t)
  PROVE  task[t].run \in RunId
<1>1. task[t] \in Tasks
  BY DEF TypeOK
<1> QED BY <1>1 DEF TaskKept, Tasks

\* A step of a task before it has a run, and its mark on the document, keep the types.
LEMMA EntryTyped ==
  ASSUME TypeOK, KeptInv, NEW t \in Task,
         Categorize(t) \/ Assign(t) \/ Enter(t) \/ Open(t) \/ Mark(t)
  PROVE  TypeOK'
<1> DEFINE TasksOK == task \in [Task -> Tasks] /\ \A u \in Task : task[u].from <= task[u].upto
<1>t. TasksOK /\ task[t] \in Tasks
  BY DEF TypeOK
<1>1. CASE Categorize(t)
  <2>1. TasksOK'
    BY <1>t, <1>1, TaskTyped DEF Categorize, Pcs
  <2> HIDE DEF TasksOK
  <2> QED BY <1>1, <2>1 DEF TypeOK, Categorize, ParseStatuses, TasksOK
<1>2. CASE Assign(t)
  <2>1. TasksOK'
    BY <1>t, <1>2, TaskTyped DEF Assign, Pcs
  <2> HIDE DEF TasksOK
  <2> QED BY <1>2, <2>1 DEF TypeOK, Assign, ParseStatuses, TasksOK
<1>3. CASE Enter(t)
  <2>1. TasksOK'
    BY <1>t, <1>3, TaskTyped DEF Enter, Pcs
  <2>2. parse' \in [Document -> ParseStatuses] /\ run' \in [RunId -> Runs]
        /\ scars' \in [RunId -> SUBSET Stages]
    BY <1>3, SweepTyped DEF Enter, TypeOK
  <2> HIDE DEF TasksOK
  <2> QED BY <1>3, <2>1, <2>2 DEF TypeOK, Enter, TasksOK
<1>4. CASE Open(t)
  <2>1. CASE End(t) /\ UNCHANGED <<run, shared>>
    <3>1. TasksOK'
      BY <1>t, <2>1, TaskTyped
    <3> HIDE DEF TasksOK
    <3> QED BY <1>4, <2>1, <3>1 DEF TypeOK, Open, TasksOK
  <2>2. CASE Present(task[t].doc) /\ task[t].run # NoRunId
    <3> DEFINE r == task[t].run
    <3>1. r \in RunId /\ run[r] \in Runs
      BY <1>t, <2>2 DEF Tasks, TypeOK
    <3>2. [run[r] EXCEPT !.status = "running"] \in Runs
      BY <3>1 DEF Runs
    <3>3. /\ run' = [run EXCEPT ![r].status = "running"] /\ shared' \subseteq shared \cup {r} /\ Goto(t, "mark")
          /\ UNCHANGED <<parse, rows, worker, library, plan, bounds, scars, stranded, sealed>>
      BY <1>4, <2>2 DEF Open
    <3>4. TasksOK'
      BY <1>t, <3>3, TaskTyped DEF Pcs
    <3>5. run' \in [RunId -> Runs] /\ shared' \subseteq RunId
      BY <3>1, <3>2, <3>3 DEF TypeOK
    <3> HIDE DEF TasksOK, r
    <3> QED BY <3>3, <3>4, <3>5 DEF TypeOK, TasksOK
  <2>3. CASE Present(task[t].doc) /\ task[t].run = NoRunId
    <3>1. PICK r \in Unused :
            /\ run' = [run EXCEPT ![r] = [NoRun EXCEPT !.doc = task[t].doc, !.status = "running",
                                                       !.current = "parse"]]
            /\ task' = [task EXCEPT ![t].run = r, ![t].pc = "mark"]
      BY <1>4, <2>3 DEF Open
    <3>2. [NoRun EXCEPT !.doc = task[t].doc, !.status = "running", !.current = "parse"] \in Runs
      BY <1>t, Initials DEF Runs, Tasks, Stages
    <3>3. run' \in [RunId -> Runs]
      BY <3>1, <3>2 DEF TypeOK, Unused
    <3> DEFINE n == [task[t] EXCEPT !.run = r, !.pc = "mark"]
    <3>4. n \in Tasks /\ n.from = task[t].from /\ n.upto = task[t].upto
      BY <1>t DEF Tasks, Pcs, Unused
    <3>5. task' = [task EXCEPT ![t] = n]
      BY <1>t, <3>1
    <3>6. TasksOK'
      <4> HIDE DEF n
      <4> QED BY <1>t, <3>4, <3>5
    <3> HIDE DEF TasksOK
    <3> QED BY <1>4, <2>3, <3>3, <3>6 DEF TypeOK, Open, TasksOK
  <2> QED BY <1>4, <2>1, <2>2, <2>3 DEF Open
<1>5. CASE Mark(t)
  <2> DEFINE n == [task[t] EXCEPT !.pc = "look", !.stage = "parse"]
  <2>1. n \in Tasks /\ n.from = task[t].from /\ n.upto = task[t].upto
    BY <1>t DEF Tasks, Pcs, Stages
  <2>2. task' = [task EXCEPT ![t] = n]
    BY <1>t, <1>5 DEF Mark
  <2>3. TasksOK'
    <3> HIDE DEF n
    <3> QED BY <1>t, <2>1, <2>2
  <2> HIDE DEF TasksOK, n
  <2> QED BY <1>5, <2>3 DEF TypeOK, Mark, ParseStatuses, TasksOK
<1> QED BY <1>1, <1>2, <1>3, <1>4, <1>5

\* A step of a task that works on a stage keeps the types.
LEMMA WorkTyped ==
  ASSUME TypeOK, KeptInv, NEW t \in Task,
         \/ \E s \in Stages : Begin(t, s)
         \/ Parse(t) \/ Screen(t) \/ Expand(t) \/ Classify(t) \/ Flag(t) \/ Embed(t) \/ Done(t)
  PROVE  TypeOK'
<1> USE SizeAssumption
<1> DEFINE TasksOK == task \in [Task -> Tasks] /\ \A u \in Task : task[u].from <= task[u].upto
           r == task[t].run
<1>t. TasksOK /\ task[t] \in Tasks
  BY DEF TypeOK
<1>r. Opened(t) => r \in RunId /\ run[r] \in Runs /\ rows[r] \in Counts
  BY HasRun DEF KeptInv, TypeOK
<1>1. CASE \E s \in Stages : Begin(t, s)
  <2>1. PICK s \in Stages : Begin(t, s)
    BY <1>1
  <2>2. Opened(t) /\ r \in RunId /\ run[r] \in Runs /\ rows[r] \in Counts
    BY <1>r, <2>1 DEF Begin, Opened
  <2>3. PICK from \in {0, rows[r].classified, rows[r].embedded}, upto \in {0, rows[r].units},
             pc \in {"work", "done"}, keyless \in BOOLEAN :
          /\ from <= upto
          /\ keyless => unanswered < MaxUnanswered
          /\ unanswered' = unanswered + IF keyless THEN 1 ELSE 0
          /\ task' = [task EXCEPT ![t].stage = s, ![t].from = from, ![t].upto = upto, ![t].pc = pc]
          /\ run' = [run EXCEPT ![r].stage[s] = "running", ![r].current = s, ![r].keyless = @ \/ keyless]
    <3>1. rows[r].classified <= rows[r].units /\ rows[r].embedded <= rows[r].units /\ 0 <= 0
      BY <2>2 DEF KeptInv, RunKept
    <3>2. CASE s = "classify"
      BY <2>1, <3>1, <3>2 DEF Begin
    <3>3. CASE s = "embed"
      BY <2>1, <3>1, <3>3 DEF Begin
    <3>4. CASE s \notin {"classify", "embed"}
      BY <2>1, <3>1, <3>4 DEF Begin
    <3> QED BY <3>2, <3>3, <3>4
  <2> DEFINE n == [task[t] EXCEPT !.stage = s, !.from = from, !.upto = upto, !.pc = pc]
  <2>4. n \in Tasks /\ n.from <= n.upto
    <3>1. from \in Nat /\ upto \in Nat
      BY <2>2 DEF Counts
    <3> QED BY <1>t, <2>3, <3>1 DEF Tasks, Pcs
  <2>5. task' = [task EXCEPT ![t] = n]
    BY <1>t, <2>3
  <2>6. TasksOK'
    <3> HIDE DEF n
    <3> QED BY <1>t, <2>4, <2>5
  <2>7. [run[r] EXCEPT !.stage[s] = "running", !.current = s, !.keyless = @ \/ keyless] \in Runs
    BY <2>2 DEF Runs
  <2>8. run' = [run EXCEPT ![r] = [run[r] EXCEPT !.stage[s] = "running", !.current = s,
                                                 !.keyless = @ \/ keyless]]
    BY <2>2, <2>3 DEF TypeOK
  <2>9. run' \in [RunId -> Runs]
    BY <2>7, <2>8 DEF TypeOK
  <2>10. unanswered' \in 0..MaxUnanswered
    BY <2>3 DEF TypeOK
  <2> HIDE DEF TasksOK, n
  <2> QED BY <2>1, <2>6, <2>9, <2>10 DEF TypeOK, Begin, TasksOK
<1>2. CASE Parse(t)
  <2>1. r \in RunId /\ rows[r] \in Counts
    BY <1>r, <1>2 DEF Parse, At, Opened
  <2>2. [rows[r] EXCEPT !.lines = @ + 1] \in Counts
    BY <2>1 DEF Counts
  <2>3. rows' \in [RunId -> Counts]
    BY <1>2, <2>1, <2>2 DEF Parse, TypeOK
  <2>4. TasksOK'
    BY <1>t, <1>2, TaskTyped DEF Parse, Pcs
  <2> HIDE DEF TasksOK
  <2> QED BY <1>2, <2>3, <2>4 DEF TypeOK, Parse, TasksOK
<1>3. CASE Screen(t)
  <2>1. r \in RunId /\ rows[r] \in Counts /\ run[r] \in Runs
    BY <1>r, <1>3 DEF Screen, At, Opened
  <2>2. PICK fallback \in BOOLEAN :
          /\ fallback => unanswered < MaxUnanswered
          /\ unanswered' = unanswered + IF fallback THEN 1 ELSE 0
          /\ rows' = [rows EXCEPT ![r].screened = rows[r].lines,
                                  ![r].standin = @ \cup IF fallback THEN {"screen"} ELSE {}]
          /\ run' = [run EXCEPT ![r].eligible = @ /\ ~fallback]
    BY <1>3 DEF Screen
  <2>3. [rows[r] EXCEPT !.screened = rows[r].lines,
                        !.standin = @ \cup IF fallback THEN {"screen"} ELSE {}] \in Counts
    BY <2>1 DEF Counts
  <2>4. rows' \in [RunId -> Counts]
    BY <2>1, <2>2, <2>3 DEF TypeOK
  <2>5. [run[r] EXCEPT !.eligible = @ /\ ~fallback] \in Runs
    BY <2>1 DEF Runs
  <2>6. run' \in [RunId -> Runs]
    BY <2>1, <2>2, <2>5 DEF TypeOK
  <2>7. unanswered' \in 0..MaxUnanswered
    BY <2>2 DEF TypeOK
  <2>8. TasksOK'
    BY <1>t, <1>3, TaskTyped DEF Screen, Pcs
  <2> HIDE DEF TasksOK
  <2> QED BY <1>3, <2>4, <2>6, <2>7, <2>8 DEF TypeOK, Screen, TasksOK
<1>4. CASE Expand(t)
  <2>1. r \in RunId /\ rows[r] \in Counts
    BY <1>r, <1>4 DEF Expand, At, Opened
  <2>2. [rows[r] EXCEPT !.units = @ + Excerpts * rows[r].screened] \in Counts
    <3>1. rows[r].units + Excerpts * rows[r].screened \in Nat
      BY <2>1 DEF Counts
    <3> QED BY <2>1, <3>1 DEF Counts
  <2>3. rows' \in [RunId -> Counts]
    BY <1>4, <2>1, <2>2 DEF Expand, TypeOK
  <2>4. TasksOK'
    BY <1>t, <1>4, TaskTyped DEF Expand, Pcs
  <2> HIDE DEF TasksOK
  <2> QED BY <1>4, <2>3, <2>4 DEF TypeOK, Expand, TasksOK
<1>5. CASE Classify(t)
  <2>1. r \in RunId /\ rows[r] \in Counts
    BY <1>r, <1>5 DEF Classify, At, Opened
  <2>2. PICK how \in {"clean", "classify", "error"} :
          /\ how # "clean" => unanswered < MaxUnanswered
          /\ unanswered' = unanswered + IF how = "clean" THEN 0 ELSE 1
          /\ rows' = [rows EXCEPT ![r].classified = @ + (task[t].upto - task[t].from),
                                  ![r].standin = @ \cup ({how} \ {"clean"})]
          /\ task' = [task EXCEPT ![t].pc = "flag", ![t].fallback = (how = "classify")]
    BY <1>5 DEF Classify, Outcomes
  <2>3. [rows[r] EXCEPT !.classified = @ + (task[t].upto - task[t].from),
                        !.standin = @ \cup ({how} \ {"clean"})] \in Counts
    <3>1. rows[r].classified + (task[t].upto - task[t].from) \in Nat
      BY <1>t, <2>1 DEF Counts, Tasks
    <3>2. rows[r].standin \cup ({how} \ {"clean"}) \in SUBSET {"screen", "classify", "error"}
      BY <2>1, <2>2 DEF Counts
    <3> QED BY <2>1, <3>1, <3>2 DEF Counts
  <2>4. rows' \in [RunId -> Counts]
    BY <2>1, <2>2, <2>3 DEF TypeOK
  <2>7. unanswered' \in 0..MaxUnanswered
    BY <2>2 DEF TypeOK
  <2> DEFINE n == [task[t] EXCEPT !.pc = "flag", !.fallback = (how = "classify")]
  <2>8. n \in Tasks /\ n.from = task[t].from /\ n.upto = task[t].upto
    BY <1>t DEF Tasks, Pcs
  <2>9. task' = [task EXCEPT ![t] = n]
    BY <1>t, <2>2
  <2>10. TasksOK'
    <3> HIDE DEF n
    <3> QED BY <1>t, <2>8, <2>9
  <2> HIDE DEF TasksOK, n
  <2> QED BY <1>5, <2>4, <2>7, <2>10 DEF TypeOK, Classify, TasksOK
<1>6. CASE Flag(t)
  <2>1. r \in RunId /\ run[r] \in Runs
    BY <1>r, <1>6 DEF Flag, Opened
  <2>2. [run[r] EXCEPT !.eligible = @ /\ ~task[t].fallback] \in Runs
    BY <1>t, <2>1 DEF Runs, Tasks
  <2>3. run' \in [RunId -> Runs]
    BY <1>6, <2>1, <2>2 DEF Flag, TypeOK
  <2> DEFINE n == [task[t] EXCEPT !.pc = "done", !.fallback = FALSE]
  <2>8. n \in Tasks /\ n.from = task[t].from /\ n.upto = task[t].upto
    BY <1>t DEF Tasks, Pcs
  <2>9. task' = [task EXCEPT ![t] = n]
    BY <1>t, <1>6 DEF Flag
  <2>10. TasksOK'
    <3> HIDE DEF n
    <3> QED BY <1>t, <2>8, <2>9
  <2> HIDE DEF TasksOK, n
  <2> QED BY <1>6, <2>3, <2>10 DEF TypeOK, Flag, TasksOK
<1>7. CASE Embed(t)
  <2>1. r \in RunId /\ rows[r] \in Counts
    BY <1>r, <1>7 DEF Embed, At, Opened
  <2>2. [rows[r] EXCEPT !.embedded = @ + 1] \in Counts
    BY <2>1 DEF Counts
  <2>3. rows' \in [RunId -> Counts]
    BY <1>7, <2>1, <2>2 DEF Embed, TypeOK
  <2>4. task[t].from < task[t].upto
    BY <1>7 DEF Embed, At, KeptInv, TaskKept
  <2>5. PICK pc \in {"done", "work"} :
          task' = [task EXCEPT ![t].from = @ + 1, ![t].pc = pc]
    BY <1>7 DEF Embed
  <2> DEFINE n == [task[t] EXCEPT !.from = @ + 1, !.pc = pc]
  <2>8. n \in Tasks /\ n.from <= n.upto
    <3>1. task[t].from \in Nat /\ task[t].upto \in Nat
      BY <1>t DEF Tasks
    <3>2. task[t].from + 1 \in Nat /\ task[t].from + 1 <= task[t].upto
      BY <2>4, <3>1
    <3>3. n.from = task[t].from + 1 /\ n.upto = task[t].upto
      BY <1>t DEF Tasks
    <3>4. n \in Tasks
      BY <1>t, <3>2 DEF Tasks, Pcs
    <3> QED BY <3>2, <3>3, <3>4
  <2>9. task' = [task EXCEPT ![t] = n]
    BY <1>t, <2>5
  <2>10. TasksOK'
    <3> HIDE DEF n
    <3> QED BY <1>t, <2>8, <2>9
  <2> HIDE DEF TasksOK, n
  <2> QED BY <1>7, <2>3, <2>10 DEF TypeOK, Embed, TasksOK
<1>8. CASE Done(t)
  <2>1. r \in RunId /\ run[r] \in Runs
    BY <1>r, <1>8 DEF Done, Opened
  <2>2. task[t].stage \in Stages
    BY <1>8 DEF Done, KeptInv, TaskKept
  <2>3. [run[r] EXCEPT !.stage[task[t].stage] = "complete"] \in Runs
    BY <2>1, <2>2 DEF Runs
  <2>4. run' \in [RunId -> Runs]
    BY <1>8, <2>1, <2>3 DEF Done, TypeOK
  <2> DEFINE n == [task[t] EXCEPT !.stage = StageAfter[task[t].stage], !.from = 0, !.upto = 0, !.pc = "look"]
  <2>8. n \in Tasks /\ n.from = 0 /\ n.upto = 0
    <3>1. StageAfter[task[t].stage] \in Stages \cup {"none"}
      BY <2>2 DEF StageAfter, Stages
    <3> QED BY <1>t, <3>1 DEF Tasks, Pcs
  <2>9. task' = [task EXCEPT ![t] = n]
    BY <1>t, <1>8 DEF Done
  <2>10. TasksOK'
    <3> HIDE DEF n
    <3> QED BY <1>t, <2>8, <2>9
  <2> HIDE DEF TasksOK, n
  <2> QED BY <1>8, <2>4, <2>10 DEF TypeOK, Done, TasksOK
<1> QED BY <1>1, <1>2, <1>3, <1>4, <1>5, <1>6, <1>7, <1>8

\* The end of a task, or an exception in it, keeps the types.
LEMMA EndTyped ==
  ASSUME TypeOK, KeptInv, NEW t \in Task,
         Clash(t) \/ Vanish(t) \/ Finish(t) \/ Fail(t) \/ Rescue(t) \/ Raise(t)
  PROVE  TypeOK'
<1> USE SizeAssumption
<1> DEFINE TasksOK == task \in [Task -> Tasks] /\ \A u \in Task : task[u].from <= task[u].upto
           r == task[t].run
<1>t. TasksOK /\ task[t] \in Tasks
  BY DEF TypeOK
<1>r. Opened(t) => r \in RunId /\ run[r] \in Runs
  BY HasRun DEF KeptInv, TypeOK
<1>1. TasksOK'
  <2>1. End(t) \/ \E pc \in Pcs : Goto(t, pc) \/ Handle(t, pc)
    BY DEF Clash, Vanish, Finish, Fail, Rescue, Raise, Pcs
  <2> QED BY <1>t, <2>1, TaskTyped
<1> HIDE DEF TasksOK
<1>2. CASE Clash(t) \/ Vanish(t)
  BY <1>1, <1>2 DEF TypeOK, Clash, Vanish, TasksOK
<1>3. CASE Finish(t)
  <2>1. r \in RunId /\ run[r] \in Runs
    BY <1>r, <1>3 DEF Finish, Opened
  <2>2. [run[r] EXCEPT !.status = "complete", !.current = "none", !.error = "none"] \in Runs
    BY <2>1 DEF Runs
  <2>3. run' \in [RunId -> Runs]
    BY <1>3, <2>1, <2>2 DEF Finish, TypeOK
  <2> QED BY <1>1, <1>3, <2>3 DEF TypeOK, Finish, ParseStatuses, TasksOK
<1>4. CASE Fail(t)
  <2>1. r \in RunId /\ run[r] \in Runs
    BY <1>r, <1>4 DEF Fail, Opened
  <2>2. StageOf(r) \in Stages \cup {"none"}
    BY <2>1, StageTyped DEF TypeOK
  <2>3. FailStage(r) \in [Stages -> {"pending", "running", "complete", "failed"}]
    BY <2>1 DEF FailStage, Runs
  <2>4. ASSUME NEW names \in BOOLEAN
        PROVE  [run[r] EXCEPT !.status = "failed", !.error = IF names THEN StageOf(r) ELSE @,
                              !.stage = IF names THEN FailStage(r) ELSE @] \in Runs
    BY <2>1, <2>2, <2>3 DEF Runs
  <2>5. (Exists(t) /\ run[r].error = "none") \in BOOLEAN
    BY DEF Exists
  <2>6. run' \in [RunId -> Runs]
    BY <1>4, <2>1, <2>4, <2>5 DEF Fail, TypeOK
  <2>7. scars' \in [RunId -> SUBSET Stages]
    BY <1>4, <2>1 DEF Fail, TypeOK, Undone
  <2> QED BY <1>1, <1>4, <2>6, <2>7 DEF TypeOK, Fail, ParseStatuses, TasksOK
<1>5. CASE Rescue(t)
  BY <1>1, <1>5 DEF TypeOK, Rescue, ParseStatuses, TasksOK
<1>6. CASE Raise(t)
  <2>1. Torn(t) => task[t].stage \in Stages
    BY DEF Torn, KeptInv, TaskKept
  <2>2. scars' \in [RunId -> SUBSET Stages]
    BY <1>6, <2>1 DEF Raise, Tear, TypeOK
  <2>3. stranded' \subseteq Document /\ troubles' \in 0..MaxTroubles
    BY <1>6 DEF Raise, Strand, Trouble, TypeOK
  <2> QED BY <1>1, <1>6, <2>2, <2>3 DEF TypeOK, Raise, TasksOK
<1> QED BY <1>2, <1>3, <1>4, <1>5, <1>6

\* Every step keeps the types.
LEMMA TypeStep == TypeOK /\ KeptInv /\ [Next]_vars => TypeOK'
<1> SUFFICES ASSUME TypeOK, KeptInv, [Next]_vars PROVE TypeOK'
  OBVIOUS
<1>1. CASE UNCHANGED vars
  BY <1>1 DEF TypeOK, vars
<1>2. \A r \in RunId : Resume(r) => run[r].doc \in Document
  BY DEF Resume, KeptInv, RunKept
<1>3. \A t \in Task : Torn(t) => task[t].stage \in Stages
  BY DEF Torn, KeptInv, TaskKept
<1>4. CASE Next
  BY <1>2, <1>3, <1>4, RequestTyped, SystemTyped, EntryTyped, WorkTyped, EndTyped DEF Next, TaskStep
<1> QED BY <1>1, <1>4

----------------------------------------------------------------------------
(* Steps that leave a run in peace.                                        *)

\* A task that works on the run goes on as it was, looks at its stages from the first on, or
\* leaves the work; if it had stored rows, the stage bears a scar.
TaskCalm(u, r) ==
    /\ Works(u, r)' => Works(u, r)
    /\ Works(u, r)' /\ task'[u].pc \in Guarded =>
         task'[u] = task[u] \/ (task'[u].pc = "look" /\ task'[u].stage = "parse")
    /\ Works(u, r) /\ Torn(u) /\ run[r].status # "gone" =>
         task'[u] = task[u] \/ task[u].stage \in scars'[r]

\* Nothing is stored, and what is taken back leaves a scar.
RunCalm(r) ==
    /\ rows'[r] = rows[r] /\ run'[r].doc = run[r].doc
    /\ run[r].status = "none" => run'[r] = run[r]
    /\ run'[r].status = "none" => run[r].status = "none"
    /\ run'[r].status = "gone" => run[r].status = "gone"
    /\ run[r].status = "gone" => run'[r].status = "gone"
    /\ run'[r].status = "complete" => run[r].status = "complete"
    /\ run[r].status = "complete" =>
         run'[r].status = "complete" \/ \E t \in Task : Works(t, r)
    /\ run'[r].eligible => run[r].eligible
    /\ run[r].keyless => run'[r].keyless
    /\ scars[r] \subseteq scars'[r]
    /\ scars'[r] = {} =>
         \A s \in Stages : (run'[r].stage[s] = "complete") <=> (run[r].stage[s] = "complete")

Calm(r) == RunCalm(r) /\ \A u \in Task : TaskCalm(u, r)

\* A run that is not written is calm, and so is a task that does not move.
LEMMA RunSame ==
  ASSUME NEW r \in RunId, run'[r] = run[r], rows'[r] = rows[r], scars[r] \subseteq scars'[r]
  PROVE  RunCalm(r)
BY DEF RunCalm

\* A task that does not move is left in peace.
LEMMA TaskSame ==
  ASSUME NEW u \in Task, task'[u] = task[u]
  PROVE  \A r \in RunId : TaskCalm(u, r)
BY DEF TaskCalm, Works, Opened

\* A task that has no run yet, starts, or ends without having stored anything.
LEMMA TaskAway ==
  ASSUME NEW u \in Task, task'[u].pc \in {"free", "categorize", "assign", "enter", "open", "rescue"},
         Torn(u) => \A r \in RunId : Works(u, r) => task[u].stage \in scars'[r]
  PROVE  \A r \in RunId : TaskCalm(u, r)
BY DEF TaskCalm, Works, Opened

\* A task that begins to look at its run, or turns to its handler.
LEMMA TaskTurns ==
  ASSUME NEW u \in Task, Opened(u), task'[u].run = task[u].run,
         \/ task'[u].pc = "look" /\ task'[u].stage = "parse"
         \/ task'[u].pc = "fail",
         Torn(u) => \A r \in RunId : Works(u, r) /\ run[r].status # "gone" => task[u].stage \in scars'[r]
  PROVE  \A r \in RunId : TaskCalm(u, r)
BY DEF TaskCalm, Works, Guarded

\* The clean-up leaves the runs in peace.
LEMMA SweepCalm ==
  ASSUME TypeOK, NEW docs, Sweep(docs), rows' = rows
  PROVE  \A r \in RunId : RunCalm(r)
<1> TAKE r \in RunId
<1>1. CASE r \notin Stale
  <2>1. run'[r] = run[r] /\ scars'[r] = scars[r]
    BY <1>1 DEF Sweep, TypeOK
  <2> QED BY <2>1, RunSame
<1>2. CASE r \in Stale
  <2>1. run[r] \in Runs /\ run[r].status = "running"
    BY <1>2 DEF Stale, TypeOK
  <2>2. /\ run'[r] = [run[r] EXCEPT !.status = "failed", !.error = StageOf(r), !.stage = FailStage(r)]
        /\ scars'[r] = scars[r] \cup Undone(r)
    BY <1>2 DEF Sweep, TypeOK
  <2>3. /\ run'[r].status = "failed" /\ run'[r].doc = run[r].doc /\ run'[r].eligible = run[r].eligible
        /\ run'[r].stage = FailStage(r) /\ run'[r].keyless = run[r].keyless
    BY <2>1, <2>2 DEF Runs
  <2>4. ASSUME scars'[r] = {}, NEW s \in Stages
        PROVE  (FailStage(r)[s] = "complete") <=> (run[r].stage[s] = "complete")
    BY <2>2, <2>4 DEF Undone, FailStage
  <2> QED BY <2>1, <2>2, <2>3, <2>4 DEF RunCalm
<1> QED BY <1>1, <1>2

\* A request about a document leaves the runs in peace.
LEMMA RequestCalm ==
  ASSUME TypeOK, NEW d \in Document,
         \/ \E where \in {"project", "library", "procedure"} : Upload(d, where)
         \/ \E how \in {"reparse", "reprocess", "reindex"} : Requeue(d, how)
         \/ Recategorize(d)
         \/ \E t \in Slot : Claim(t, d)
         \/ \E r \in RunId : Resume(r) \/ Age(r)
  PROVE  (\A r \in RunId : Calm(r)) /\ shared' = shared
<1>1. rows' = rows /\ scars' = scars /\ shared' = shared
  BY DEF Upload, Requeue, Recategorize, Claim, Resume, Age
<1>2. ASSUME NEW r \in RunId PROVE RunCalm(r)
  <2>1. CASE run' = run
    BY <1>1, <2>1, RunSame
  <2>2. CASE \E o \in RunId : Age(o)
    <3>1. PICK o \in RunId : Age(o)
      BY <2>2
    <3>2. CASE o = r
      <4>1. run[r] \in Runs
        BY DEF TypeOK
      <4>2. run'[r] = [run[r] EXCEPT !.aged = TRUE] /\ run[r].status = "running"
        BY <3>1, <3>2 DEF Age, TypeOK
      <4>3. /\ run'[r].doc = run[r].doc /\ run'[r].status = run[r].status
            /\ run'[r].stage = run[r].stage /\ run'[r].eligible = run[r].eligible
        BY <4>1, <4>2 DEF Runs
      <4> QED BY <1>1, <4>2, <4>3 DEF RunCalm
    <3>3. CASE o # r
      <4>1. run'[r] = run[r]
        BY <3>1, <3>3 DEF Age, TypeOK
      <4> QED BY <1>1, <4>1, RunSame
    <3> QED BY <3>2, <3>3
  <2> QED BY <2>1, <2>2 DEF Upload, Requeue, Recategorize, Claim, Resume
<1>3. ASSUME NEW u \in Task PROVE \A r \in RunId : TaskCalm(u, r)
  <2>1. CASE task' = task
    BY <2>1, TaskSame
  <2>2. ASSUME NEW t \in Task, task[t] = Idle, NEW n, n.pc \in {"categorize", "enter"},
               task' = [task EXCEPT ![t] = n]
        PROVE  \A r \in RunId : TaskCalm(u, r)
    <3>1. CASE t # u
      BY <2>2, <3>1, TaskSame
    <3>2. CASE t = u
      <4>1. task'[u] = n /\ ~Torn(u)
        BY <2>2, <3>2 DEF TypeOK, Torn, Idle
      <4> QED BY <2>2, <4>1, TaskAway
    <3> QED BY <3>1, <3>2
  <2>3. ASSUME NEW e, NEW pc \in {"categorize", "enter"}, NEW wrapped, NEW r,
               Spawn(e, pc, wrapped, r)
        PROVE  \E t \in Task : \E n : task[t] = Idle /\ n.pc \in {"categorize", "enter"}
                                  /\ task' = [task EXCEPT ![t] = n]
    <3>1. PICK t \in WebTask : /\ task[t] = Idle
                               /\ task' = [task EXCEPT ![t] = [Idle EXCEPT !.pc = pc, !.doc = e, !.run = r,
                                                                           !.wrapped = wrapped]]
      BY <2>3 DEF Spawn
    <3>2. [Idle EXCEPT !.pc = pc, !.doc = e, !.run = r, !.wrapped = wrapped].pc = pc
      BY DEF Idle
    <3> QED BY <3>1, <3>2 DEF Task
  <2>4. ASSUME NEW t \in Slot, Claim(t, d)
        PROVE  \E v \in Task : \E n : task[v] = Idle /\ n.pc \in {"categorize", "enter"}
                                  /\ task' = [task EXCEPT ![v] = n]
    <3>1. [Idle EXCEPT !.pc = "enter", !.doc = d, !.wrapped = TRUE].pc = "enter"
      BY DEF Idle
    <3> QED BY <2>4, <3>1 DEF Claim, Task
  <2>5. \/ task' = task
        \/ \E e, wrapped, r : \E pc \in {"categorize", "enter"} : Spawn(e, pc, wrapped, r)
        \/ \E t \in Slot : Claim(t, d)
    BY DEF Upload, Requeue, Recategorize, Resume, Age
  <2> QED BY <2>1, <2>2, <2>3, <2>4, <2>5
<1> QED BY <1>1, <1>2, <1>3 DEF Calm

\* So do the processes and the assessment.
LEMMA SystemCalm ==
  ASSUME TypeOK,
         Recover \/ WorkerDies \/ WebDies \/ FreezeRead \/ FreezeCommit \/ Execute
  PROVE  (\A r \in RunId : Calm(r)) /\ shared' = shared
<1>1. CASE Recover
  <2>1. \A r \in RunId : RunCalm(r)
    BY <1>1, SweepCalm DEF Recover
  <2>2. \A u \in Task, r \in RunId : TaskCalm(u, r)
    BY <1>1, TaskSame DEF Recover
  <2> QED BY <1>1, <2>1, <2>2 DEF Calm, Recover
<1>2. CASE WorkerDies \/ WebDies
  <2>1. PICK T \in {Slot, WebTask} : Die(T)
    BY <1>2 DEF WorkerDies, WebDies
  <2>2. \A r \in RunId : RunCalm(r)
    <3>1. run' = run /\ rows' = rows /\ \A r \in RunId : scars[r] \subseteq scars'[r]
      BY <2>1 DEF Die, Tear
    <3> QED BY <3>1, RunSame
  <2>3. ASSUME NEW u \in Task PROVE \A r \in RunId : TaskCalm(u, r)
    <3>1. CASE u \notin T
      BY <2>1, <3>1, TaskSame DEF Die
    <3>2. CASE u \in T
      <4>1. task'[u].pc = "free"
        BY <2>1, <3>2 DEF Die, Idle
      <4>2. Torn(u) => \A r \in RunId : Works(u, r) => task[u].stage \in scars'[r]
        BY <2>1, <3>2 DEF Die, Tear, Works
      <4> QED BY <4>1, <4>2, TaskAway
    <3> QED BY <3>1, <3>2
  <2> QED BY <2>1, <2>2, <2>3 DEF Calm, Die
<1>3. CASE FreezeRead \/ FreezeCommit \/ Execute
  <2>1. run' = run /\ rows' = rows /\ scars' = scars /\ task' = task /\ shared' = shared
    BY <1>3 DEF FreezeRead, FreezeCommit, Execute
  <2> QED BY <2>1, RunSame, TaskSame DEF Calm
<1> QED BY <1>1, <1>2, <1>3

\* So do the steps of a task outside its stages.
LEMMA OutsideCalm ==
  ASSUME TypeOK, KeptInv, NEW t \in Task,
         \/ Categorize(t) \/ Assign(t) \/ Enter(t) \/ Mark(t)
         \/ Clash(t) \/ Vanish(t) \/ Rescue(t) \/ Fail(t) \/ Raise(t)
  PROVE  (\A r \in RunId : Calm(r)) /\ shared' = shared
<1>t. task[t] \in Tasks
  BY DEF TypeOK
<1>1. shared' = shared /\ rows' = rows
  BY DEF Categorize, Assign, Enter, Mark, Clash, Vanish, Rescue, Fail, Raise
<1>2. \A r \in RunId : RunCalm(r)
  <2>1. CASE Enter(t)
    BY <1>1, <2>1, SweepCalm DEF Enter
  <2>2. CASE Fail(t)
    <3> DEFINE o == task[t].run
    <3>1. o \in RunId /\ Works(t, o)
      BY <2>2, HasRun DEF Fail, Opened, KeptInv, Works
    <3>2. ASSUME NEW r \in RunId, r # o PROVE RunCalm(r)
      <4>1. run'[r] = run[r] /\ scars'[r] = scars[r]
        BY <2>2, <3>1, <3>2 DEF Fail, TypeOK
      <4> QED BY <1>1, <4>1, RunSame
    <3>3. CASE ~Exists(t)
      <4>1. run' = run /\ \A r \in RunId : scars[r] \subseteq scars'[r]
        BY <2>2, <3>1, <3>3 DEF Fail, TypeOK
      <4> QED BY <1>1, <4>1, RunSame
    <3>4. CASE Exists(t)
      <4> DEFINE names == run[o].error = "none"
      <4>1. run[o] \in Runs
        BY <3>1 DEF TypeOK
      <4>2. run'[o] = [run[o] EXCEPT !.status = "failed", !.error = IF names THEN StageOf(o) ELSE @,
                                     !.stage = IF names THEN FailStage(o) ELSE @]
        BY <2>2, <3>1, <3>4 DEF Fail, TypeOK
      <4>3. /\ run'[o].status = "failed" /\ run'[o].doc = run[o].doc /\ run'[o].eligible = run[o].eligible
            /\ run'[o].stage = IF names THEN FailStage(o) ELSE run[o].stage
            /\ run'[o].keyless = run[o].keyless
        BY <4>1, <4>2 DEF Runs
      <4>4. scars'[o] = scars[o] \cup IF names THEN Undone(o) ELSE {}
        BY <2>2, <3>1, <3>4 DEF Fail, TypeOK
      <4>5. ASSUME scars'[o] = {}, NEW s \in Stages
            PROVE  (run'[o].stage[s] = "complete") <=> (run[o].stage[s] = "complete")
        BY <4>3, <4>4, <4>5 DEF Undone, FailStage
      <4>6. run[o].status \notin {"none", "gone"}
        BY <2>2, <3>1, <3>4 DEF Exists, KeptInv, TaskKept, RunId, NoRunId, Works, Opened
      <4>7. RunCalm(o)
        BY <1>1, <3>1, <4>3, <4>4, <4>5, <4>6 DEF RunCalm
      <4> QED BY <3>2, <4>7
    <3> QED BY <3>3, <3>4
  <2>3. CASE ~Enter(t) /\ ~Fail(t)
    <3>1. run' = run /\ \A r \in RunId : scars[r] \subseteq scars'[r]
      BY <2>3 DEF Categorize, Assign, Mark, Clash, Vanish, Rescue, Raise, Tear
    <3> QED BY <1>1, <3>1, RunSame
  <2> QED BY <2>1, <2>2, <2>3
<1>3. ASSUME NEW u \in Task, u # t PROVE \A r \in RunId : TaskCalm(u, r)
  <2>1. task'[u] = task[u]
    BY <1>3 DEF Categorize, Assign, Enter, Mark, Clash, Vanish, Rescue, Fail, Raise, End, Goto, Handle, TypeOK
  <2> QED BY <2>1, TaskSame
<1>4. \A r \in RunId : TaskCalm(t, r)
  <2>1. CASE Categorize(t) \/ Assign(t) \/ Enter(t) \/ Rescue(t) \/ Fail(t)
    <3>1. task'[t].pc \in {"free", "assign", "enter", "open"} /\ ~Torn(t)
      BY <1>t, <2>1 DEF Categorize, Assign, Enter, Rescue, Fail, End, Goto, Idle, Torn, Tasks, TypeOK
    <3> QED BY <3>1, TaskAway
  <2>2. CASE Mark(t)
    <3>1. task'[t].pc = "look" /\ task'[t].stage = "parse" /\ task'[t].run = task[t].run
      BY <1>t, <2>2 DEF Mark, Tasks, TypeOK
    <3>2. Opened(t) /\ ~Torn(t)
      BY <2>2 DEF Mark, Opened, Torn
    <3> QED BY <3>1, <3>2, TaskTurns
  <2>3. ASSUME NEW pc, Handle(t, pc) PROVE task'[t].pc = pc /\ task'[t].run = task[t].run
    BY <1>t, <2>3 DEF Handle, Idle, TypeOK
  <2>4. CASE Clash(t) \/ Vanish(t)
    <3>1. task'[t].pc = "fail" /\ task'[t].run = task[t].run
      BY <2>3, <2>4 DEF Clash, Vanish
    <3>2. Opened(t) /\ (Torn(t) => ~Exists(t))
      BY <2>4 DEF Clash, Clashes, At, Vanish, Opened, Torn
    <3>3. \A r \in RunId : Works(t, r) => (Torn(t) => run[r].status = "gone")
      BY <3>2 DEF Works, Exists
    <3> QED BY <3>1, <3>2, <3>3, TaskTurns
  <2>5. CASE Raise(t)
    <3>1. Torn(t) => \A r \in RunId : Works(t, r) => task[t].stage \in scars'[r]
      BY <2>5 DEF Raise, Tear, Works
    <3>2. CASE task[t].pc \in Guarded
      <4>1. task'[t].pc = "fail" /\ task'[t].run = task[t].run /\ Opened(t)
        BY <2>3, <2>5, <3>2 DEF Raise, Guarded, Opened
      <4> QED BY <3>1, <4>1, TaskTurns
    <3>3. CASE task[t].pc \notin Guarded
      <4>1. task'[t].pc \in {"free", "rescue"}
        BY <1>t, <2>3, <2>5, <3>3 DEF Raise, End, Idle, TypeOK
      <4> QED BY <3>1, <4>1, TaskAway
    <3> QED BY <3>2, <3>3
  <2> QED BY <2>1, <2>2, <2>4, <2>5
<1> QED BY <1>1, <1>2, <1>3, <1>4 DEF Calm

\* A step in a stage leaves all runs in peace but the one it is about.
LEMMA WorkCalm ==
  ASSUME TypeOK, KeptInv, NEW t \in Task, NEW r \in RunId, r # task[t].run,
         \/ \E s \in Stages : Begin(t, s)
         \/ Parse(t) \/ Screen(t) \/ Expand(t) \/ Classify(t) \/ Flag(t) \/ Embed(t) \/ Done(t)
         \/ Finish(t)
  PROVE  Calm(r)
<1>1. rows'[r] = rows[r] /\ run'[r] = run[r] /\ scars' = scars
  BY DEF Begin, Parse, Screen, Expand, Classify, Flag, Embed, Done, Finish, TypeOK
<1>2. \A u \in Task : u # t => task'[u] = task[u]
  BY DEF Begin, Parse, Screen, Expand, Classify, Flag, Embed, Done, Finish, TypeOK, Goto, End
<1>3. task'[t].run \in {task[t].run, NoRunId}
  <2>1. task[t] \in Tasks
    BY DEF TypeOK
  <2>2. CASE Finish(t)
    BY <2>2 DEF Finish, TypeOK, End, Idle
  <2>3. CASE \E pc \in Pcs : Goto(t, pc)
    BY <2>1, <2>3 DEF Goto, TypeOK, Tasks
  <2>4. CASE Classify(t)
    <3>1. PICK how : task' = [task EXCEPT ![t].pc = "flag", ![t].fallback = (how = "classify")]
      BY <2>4 DEF Classify
    <3> QED BY <2>1, <3>1 DEF TypeOK, Tasks
  <2>5. CASE Flag(t)
    BY <2>1, <2>5 DEF Flag, TypeOK, Tasks
  <2>6. CASE Embed(t)
    <3>1. PICK from, pc : task' = [task EXCEPT ![t].from = from, ![t].pc = pc]
      BY <2>6 DEF Embed
    <3> QED BY <2>1, <3>1 DEF TypeOK, Tasks
  <2>7. CASE Done(t)
    BY <2>1, <2>7 DEF Done, TypeOK, Tasks
  <2>8. CASE \E s \in Stages : Begin(t, s)
    <3>1. PICK s \in Stages : Begin(t, s)
      BY <2>8
    <3> DEFINE o == task[t].run
               from == IF s = "classify" THEN rows[o].classified
                       ELSE IF s = "embed" THEN rows[o].embedded ELSE 0
               upto == IF s \in {"classify", "embed"} THEN rows[o].units ELSE 0
    <3>2. PICK pc \in {"work", "done"} :
            task' = [task EXCEPT ![t].stage = s, ![t].from = from, ![t].upto = upto, ![t].pc = pc]
      BY <3>1 DEF Begin
    <3> HIDE DEF from, upto
    <3> QED BY <2>1, <3>2 DEF TypeOK, Tasks
  <2> QED BY <2>2, <2>3, <2>4, <2>5, <2>6, <2>7, <2>8 DEF Parse, Screen, Expand, Pcs
<1>4. TaskCalm(t, r)
  BY <1>3 DEF TaskCalm, Works, RunId, NoRunId
<1>5. \A u \in Task : TaskCalm(u, r)
  BY <1>2, <1>4, TaskSame
<1>6. RunCalm(r)
  BY <1>1, RunSame
<1> QED BY <1>5, <1>6 DEF Calm

\* Taking up a run leaves the other runs in peace ...
LEMMA OpenCalm ==
  ASSUME TypeOK, KeptInv, NEW t \in Task, Open(t), NEW r \in RunId, r # task'[t].run
  PROVE  Calm(r)
<1>t. task[t] \in Tasks
  BY DEF TypeOK
<1>1. \A u \in Task : u # t => task'[u] = task[u]
  BY DEF Open, Goto, End, TypeOK
<1>2. rows'[r] = rows[r] /\ scars' = scars /\ run'[r] = run[r]
  <2>1. CASE End(t) /\ UNCHANGED <<run, shared>>
    BY <2>1 DEF Open
  <2>2. CASE Goto(t, "mark") /\ run' = [run EXCEPT ![task[t].run].status = "running"]
    <3>1. task'[t].run = task[t].run
      BY <1>t, <2>2 DEF Goto, Tasks, TypeOK
    <3> QED BY <2>2, <3>1 DEF Open, TypeOK
  <2>3. ASSUME NEW o \in Unused, NEW n,
               run' = [run EXCEPT ![o] = n], task' = [task EXCEPT ![t].run = o, ![t].pc = "mark"]
        PROVE  run'[r] = run[r]
    <3>1. task'[t].run = o
      BY <1>t, <2>3 DEF Tasks, TypeOK
    <3> QED BY <2>3, <3>1 DEF TypeOK
  <2> QED BY <2>1, <2>2, <2>3 DEF Open
<1>3. TaskCalm(t, r)
  <2>1. ~Works(t, r)' /\ ~Works(t, r)
    BY DEF Works, Open, Opened
  <2> QED BY <2>1 DEF TaskCalm
<1> QED BY <1>1, <1>2, <1>3, TaskSame, RunSame DEF Calm

\* ... and so does deleting a document, of the runs of other documents.
LEMMA DeleteCalm ==
  ASSUME TypeOK, NEW d \in Document, Delete(d), NEW r \in RunId, run[r].doc # d
  PROVE  Calm(r)
<1>1. run'[r] = run[r] /\ rows'[r] = rows[r] /\ scars' = scars /\ task' = task
  BY DEF Delete
<1> QED BY <1>1, TaskSame, RunSame DEF Calm

----------------------------------------------------------------------------
(* What the steps in a stage write.                                        *)

\* The run of a task is there, it stays the task's, and nothing else moves.
OwnRun(t, r) ==
    /\ r = task[t].run /\ r \in RunId /\ Works(t, r) /\ run[r].status \notin {"none", "gone"}
    /\ \A u \in Task : u # t => task'[u] = task[u]
    /\ scars' = scars /\ shared' = shared
    /\ run'[r].doc = run[r].doc /\ (run[r].keyless => run'[r].keyless)

\* While a task is at its run, the run is one of the rows.
LEMMA OwnKept ==
  ASSUME TypeOK, KeptInv, NEW t \in Task, Exists(t),
         task[t].pc \in {"look", "work", "flag", "done"}
  PROVE  LET r == task[t].run
         IN r \in RunId /\ Works(t, r) /\ run[r].status \notin {"none", "gone"}
            /\ run[r] \in Runs /\ rows[r] \in Counts
<1>1. Opened(t)
  BY DEF Opened
<1>2. task[t].run \in RunId
  BY <1>1, HasRun DEF KeptInv
<1>3. task[t].run # NoRunId
  BY <1>2 DEF RunId, NoRunId
<1>4. TaskKept(t)
  BY DEF KeptInv
<1> QED BY <1>1, <1>2, <1>3, <1>4 DEF TaskKept, Exists, Works, TypeOK

\* Begin writes the mark on the stage and what the task has to do.
LEMMA BeginWrites ==
  ASSUME TypeOK, KeptInv, NEW t \in Task, NEW s \in Stages, Begin(t, s)
  PROVE  LET r == task[t].run
             n == task'[t]
         IN /\ OwnRun(t, r) /\ task[t].pc = "look" /\ s \in ToDo(t)
            /\ run'[r].status = run[r].status /\ run'[r].eligible = run[r].eligible
            /\ run'[r].stage[s] = "running"
            /\ \A u \in Stages \ {s} : run'[r].stage[u] = run[r].stage[u]
            /\ rows' = rows
            /\ n.run = r /\ n.doc = task[t].doc /\ n.stage = s
            /\ n.from = IF s = "classify" THEN rows[r].classified
                        ELSE IF s = "embed" THEN rows[r].embedded ELSE 0
            /\ n.upto = IF s \in {"classify", "embed"} THEN rows[r].units ELSE 0
            /\ n.pc \in {"work", "done"}
            /\ n.pc = "done" => s = "embed" /\ (n.from = n.upto \/ run'[r].keyless)
            /\ n.pc = "work" /\ s = "embed" => n.from # n.upto
<1> DEFINE r == task[t].run
           from == IF s = "classify" THEN rows[r].classified
                   ELSE IF s = "embed" THEN rows[r].embedded ELSE 0
           upto == IF s \in {"classify", "embed"} THEN rows[r].units ELSE 0
<1>1. task[t].pc = "look" /\ Exists(t) /\ s \in ToDo(t) /\ rows' = rows /\ scars' = scars /\ shared' = shared
  BY DEF Begin
<1>2. r \in RunId /\ Works(t, r) /\ run[r].status \notin {"none", "gone"} /\ run[r] \in Runs
  BY <1>1, OwnKept
<1>k. PICK keyless \in BOOLEAN, pc \in {"work", "done"} :
        /\ run' = [run EXCEPT ![r].stage[s] = "running", ![r].current = s, ![r].keyless = @ \/ keyless]
        /\ task' = [task EXCEPT ![t].stage = s, ![t].from = from, ![t].upto = upto, ![t].pc = pc]
        /\ pc = "done" <=> s = "embed" /\ (from = upto \/ keyless)
  BY DEF Begin
<1>3. run'[r] = [run[r] EXCEPT !.stage[s] = "running", !.current = s, !.keyless = @ \/ keyless]
  BY <1>2, <1>k DEF TypeOK
<1>4. task' = [task EXCEPT ![t].stage = s, ![t].from = from, ![t].upto = upto, ![t].pc = pc]
  BY <1>k
<1>5. /\ run'[r].status = run[r].status /\ run'[r].eligible = run[r].eligible /\ run'[r].doc = run[r].doc
      /\ run'[r].stage = [run[r].stage EXCEPT ![s] = "running"]
      /\ run'[r].keyless = (run[r].keyless \/ keyless)
  BY <1>2, <1>3 DEF Runs
<1>6. \A u \in Task : u # t => task'[u] = task[u]
  BY <1>4 DEF TypeOK
<1>7. task[t] \in Tasks
  BY DEF TypeOK
<1>8. run[r].stage \in [Stages -> {"pending", "running", "complete", "failed"}]
  BY <1>2 DEF Runs
<1>9. run'[r].stage[s] = "running" /\ \A u \in Stages \ {s} : run'[r].stage[u] = run[r].stage[u]
  BY <1>5, <1>8
<1>10. /\ task'[t].run = r /\ task'[t].doc = task[t].doc /\ task'[t].stage = s
       /\ task'[t].from = from /\ task'[t].upto = upto /\ task'[t].pc = pc
  <2> HIDE DEF from, upto
  <2> QED BY <1>4, <1>7 DEF TypeOK, Tasks
<1>11. OwnRun(t, r)
  <2>1. run[r].keyless => run'[r].keyless
    BY <1>5
  <2> QED BY <1>1, <1>2, <1>5, <1>6, <2>1 DEF OwnRun
<1>12. ASSUME task'[t].pc = "done"
       PROVE  s = "embed" /\ (task'[t].from = task'[t].upto \/ run'[r].keyless)
  BY <1>5, <1>k, <1>10, <1>12
<1>13. task'[t].pc = "work" /\ s = "embed" => task'[t].from # task'[t].upto
  BY <1>k, <1>10
<1>14. task'[t].pc \in {"work", "done"}
  BY <1>10
<1> QED BY <1>1, <1>5, <1>9, <1>10, <1>11, <1>12, <1>13, <1>14

\* Steps that store rows.
LEMMA ParseWrites ==
  ASSUME TypeOK, KeptInv, NEW t \in Task, Parse(t)
  PROVE  LET r == task[t].run
         IN /\ OwnRun(t, r) /\ At(t, "parse") /\ run' = run
            /\ rows'[r] = [rows[r] EXCEPT !.lines = @ + 1]
            /\ task'[t] = [task[t] EXCEPT !.pc = "done"]
<1>1. Exists(t) /\ task[t].pc = "work"
  BY DEF Parse, At
<1>2. LET r == task[t].run
      IN r \in RunId /\ Works(t, r) /\ run[r].status \notin {"none", "gone"}
  BY <1>1, OwnKept
<1> QED BY <1>2 DEF Parse, Goto, OwnRun, TypeOK

\* Screen writes rows and, after a fallback, the mark on the run.
LEMMA ScreenWrites ==
  ASSUME TypeOK, KeptInv, NEW t \in Task, Screen(t)
  PROVE  \E fallback \in BOOLEAN :
         LET r == task[t].run
         IN /\ OwnRun(t, r) /\ At(t, "screen")
            /\ run'[r] = [run[r] EXCEPT !.eligible = @ /\ ~fallback]
            /\ rows'[r] = [rows[r] EXCEPT !.screened = rows[r].lines,
                                          !.standin = @ \cup IF fallback THEN {"screen"} ELSE {}]
            /\ task'[t] = [task[t] EXCEPT !.pc = "done"]
<1> DEFINE r == task[t].run
<1>1. Exists(t) /\ task[t].pc = "work"
  BY DEF Screen, At
<1>2. r \in RunId /\ Works(t, r) /\ run[r].status \notin {"none", "gone"} /\ run[r] \in Runs
  BY <1>1, OwnKept
<1>3. PICK fallback \in BOOLEAN :
        /\ rows' = [rows EXCEPT ![r].screened = rows[r].lines,
                                ![r].standin = @ \cup IF fallback THEN {"screen"} ELSE {}]
        /\ run' = [run EXCEPT ![r].eligible = @ /\ ~fallback]
  BY DEF Screen
<1>4. run'[r] = [run[r] EXCEPT !.eligible = @ /\ ~fallback]
  BY <1>2, <1>3 DEF TypeOK
<1>5. run'[r].doc = run[r].doc /\ run'[r].keyless = run[r].keyless
  BY <1>2, <1>4 DEF Runs
<1>6. rows'[r] = [rows[r] EXCEPT !.screened = rows[r].lines,
                                 !.standin = @ \cup IF fallback THEN {"screen"} ELSE {}]
  BY <1>2, <1>3 DEF TypeOK
<1>7. task'[t] = [task[t] EXCEPT !.pc = "done"] /\ \A u \in Task : u # t => task'[u] = task[u]
  BY DEF Screen, Goto, TypeOK
<1>8. scars' = scars /\ shared' = shared /\ At(t, "screen")
  BY DEF Screen
<1> QED BY <1>2, <1>4, <1>5, <1>6, <1>7, <1>8 DEF OwnRun

\* Expand writes the units of the lines that were screened.
LEMMA ExpandWrites ==
  ASSUME TypeOK, KeptInv, NEW t \in Task, Expand(t)
  PROVE  LET r == task[t].run
         IN /\ OwnRun(t, r) /\ At(t, "expand") /\ run' = run
            /\ rows'[r] = [rows[r] EXCEPT !.units = @ + Excerpts * rows[r].screened]
            /\ task'[t] = [task[t] EXCEPT !.pc = "done"]
<1>1. Exists(t) /\ task[t].pc = "work"
  BY DEF Expand, At
<1>2. LET r == task[t].run
      IN r \in RunId /\ Works(t, r) /\ run[r].status \notin {"none", "gone"}
  BY <1>1, OwnKept
<1> QED BY <1>2 DEF Expand, Goto, OwnRun, TypeOK

\* Classify writes the rows; the mark on the run is left to Flag.
LEMMA ClassifyWrites ==
  ASSUME TypeOK, KeptInv, NEW t \in Task, Classify(t)
  PROVE  \E how \in {"clean", "classify", "error"} :
         LET r == task[t].run
         IN /\ OwnRun(t, r) /\ At(t, "classify") /\ ~Clashes(t) /\ run' = run
            /\ rows'[r] = [rows[r] EXCEPT !.classified = @ + (task[t].upto - task[t].from),
                                          !.standin = @ \cup ({how} \ {"clean"})]
            /\ task'[t] = [task[t] EXCEPT !.pc = "flag", !.fallback = (how = "classify")]
<1> DEFINE r == task[t].run
<1>1. Exists(t) /\ task[t].pc = "work"
  BY DEF Classify, At
<1>2. r \in RunId /\ Works(t, r) /\ run[r].status \notin {"none", "gone"}
  BY <1>1, OwnKept
<1>3. PICK how \in {"clean", "classify", "error"} :
        /\ rows' = [rows EXCEPT ![r].classified = @ + (task[t].upto - task[t].from),
                                ![r].standin = @ \cup ({how} \ {"clean"})]
        /\ task' = [task EXCEPT ![t].pc = "flag", ![t].fallback = (how = "classify")]
  BY DEF Classify, Outcomes
<1>4. rows'[r] = [rows[r] EXCEPT !.classified = @ + (task[t].upto - task[t].from),
                                 !.standin = @ \cup ({how} \ {"clean"})]
  BY <1>2, <1>3 DEF TypeOK
<1>5. task'[t] = [task[t] EXCEPT !.pc = "flag", !.fallback = (how = "classify")]
      /\ \A u \in Task : u # t => task'[u] = task[u]
  BY <1>3 DEF TypeOK
<1>6. scars' = scars /\ shared' = shared /\ run' = run /\ At(t, "classify") /\ ~Clashes(t)
  BY DEF Classify
<1> QED BY <1>2, <1>4, <1>5, <1>6 DEF OwnRun

\* Embed writes one batch.
LEMMA EmbedWrites ==
  ASSUME TypeOK, KeptInv, NEW t \in Task, Embed(t)
  PROVE  LET r == task[t].run
         IN /\ OwnRun(t, r) /\ At(t, "embed") /\ ~Clashes(t) /\ run' = run
            /\ rows'[r] = [rows[r] EXCEPT !.embedded = @ + 1]
            /\ task'[t] = [task[t] EXCEPT !.from = @ + 1,
                             !.pc = IF task[t].from + 1 = task[t].upto THEN "done" ELSE "work"]
<1> DEFINE r == task[t].run
           pc == IF task[t].from + 1 = task[t].upto THEN "done" ELSE "work"
<1>1. Exists(t) /\ task[t].pc = "work"
  BY DEF Embed, At
<1>2. r \in RunId /\ Works(t, r) /\ run[r].status \notin {"none", "gone"}
  BY <1>1, OwnKept
<1>3. task' = [task EXCEPT ![t].from = @ + 1, ![t].pc = pc]
  BY DEF Embed
<1>4. task'[t] = [task[t] EXCEPT !.from = @ + 1, !.pc = pc] /\ \A u \in Task : u # t => task'[u] = task[u]
  <2> HIDE DEF pc
  <2> QED BY <1>3 DEF TypeOK
<1>5. rows'[r] = [rows[r] EXCEPT !.embedded = @ + 1]
  BY <1>2 DEF Embed, TypeOK
<1>6. scars' = scars /\ shared' = shared /\ run' = run /\ At(t, "embed") /\ ~Clashes(t)
  BY DEF Embed
<1> QED BY <1>2, <1>4, <1>5, <1>6 DEF OwnRun

\* Steps that mark the run.
LEMMA FlagWrites ==
  ASSUME TypeOK, KeptInv, NEW t \in Task, Flag(t)
  PROVE  LET r == task[t].run
         IN /\ OwnRun(t, r) /\ task[t].pc = "flag" /\ rows' = rows
            /\ run'[r] = [run[r] EXCEPT !.eligible = @ /\ ~task[t].fallback]
            /\ task'[t] = [task[t] EXCEPT !.pc = "done", !.fallback = FALSE]
<1> DEFINE r == task[t].run
<1>1. Exists(t) /\ task[t].pc = "flag"
  BY DEF Flag
<1>2. r \in RunId /\ Works(t, r) /\ run[r].status \notin {"none", "gone"} /\ run[r] \in Runs
  BY <1>1, OwnKept
<1>3. run'[r] = [run[r] EXCEPT !.eligible = @ /\ ~task[t].fallback]
  BY <1>2 DEF Flag, TypeOK
<1>4. run'[r].doc = run[r].doc
  BY <1>2, <1>3 DEF Runs
<1>5. task'[t] = [task[t] EXCEPT !.pc = "done", !.fallback = FALSE]
      /\ \A u \in Task : u # t => task'[u] = task[u]
  BY DEF Flag, TypeOK
<1>6. scars' = scars /\ shared' = shared /\ rows' = rows
  BY DEF Flag
<1> QED BY <1>1, <1>2, <1>3, <1>4, <1>5, <1>6 DEF OwnRun

\* Done marks the stage complete and turns to the next.
LEMMA DoneWrites ==
  ASSUME TypeOK, KeptInv, NEW t \in Task, Done(t)
  PROVE  LET r == task[t].run
             s == task[t].stage
         IN /\ OwnRun(t, r) /\ task[t].pc = "done" /\ s \in Stages /\ rows' = rows
            /\ run'[r].status = run[r].status /\ run'[r].eligible = run[r].eligible
            /\ run'[r].stage[s] = "complete"
            /\ \A u \in Stages \ {s} : run'[r].stage[u] = run[r].stage[u]
            /\ task'[t] = [task[t] EXCEPT !.stage = StageAfter[s], !.from = 0, !.upto = 0, !.pc = "look"]
<1> DEFINE r == task[t].run
           s == task[t].stage
<1>1. Exists(t) /\ task[t].pc = "done"
  BY DEF Done
<1>2. r \in RunId /\ Works(t, r) /\ run[r].status \notin {"none", "gone"} /\ run[r] \in Runs
  BY <1>1, OwnKept
<1>3. s \in Stages
  BY <1>1 DEF KeptInv, TaskKept
<1>4. run'[r] = [run[r] EXCEPT !.stage[s] = "complete"]
  BY <1>2 DEF Done, TypeOK
<1>5. /\ run'[r].doc = run[r].doc /\ run'[r].status = run[r].status
      /\ run'[r].eligible = run[r].eligible /\ run'[r].keyless = run[r].keyless
      /\ run'[r].stage = [run[r].stage EXCEPT ![s] = "complete"]
  BY <1>2, <1>4 DEF Runs
<1>6. run[r].stage \in [Stages -> {"pending", "running", "complete", "failed"}]
  BY <1>2 DEF Runs
<1>7. run'[r].stage[s] = "complete" /\ \A u \in Stages \ {s} : run'[r].stage[u] = run[r].stage[u]
  BY <1>3, <1>5, <1>6
<1>8. task'[t] = [task[t] EXCEPT !.stage = StageAfter[s], !.from = 0, !.upto = 0, !.pc = "look"]
      /\ \A u \in Task : u # t => task'[u] = task[u]
  BY DEF Done, TypeOK
<1>9. scars' = scars /\ shared' = shared /\ rows' = rows
  BY DEF Done
<1> QED BY <1>1, <1>2, <1>3, <1>5, <1>7, <1>8, <1>9 DEF OwnRun

\* Finish marks the run complete and ends the task.
LEMMA FinishWrites ==
  ASSUME TypeOK, KeptInv, NEW t \in Task, Finish(t)
  PROVE  LET r == task[t].run
         IN /\ OwnRun(t, r) /\ task[t].pc = "look" /\ ToDo(t) = {} /\ rows' = rows
            /\ run'[r].status = "complete" /\ run'[r].eligible = run[r].eligible
            /\ run'[r].stage = run[r].stage
            /\ task'[t] = Idle
<1> DEFINE r == task[t].run
<1>1. Exists(t) /\ task[t].pc = "look" /\ ToDo(t) = {}
  BY DEF Finish
<1>2. r \in RunId /\ Works(t, r) /\ run[r].status \notin {"none", "gone"} /\ run[r] \in Runs
  BY <1>1, OwnKept
<1>3. run'[r] = [run[r] EXCEPT !.status = "complete", !.current = "none", !.error = "none"]
  BY <1>2 DEF Finish, TypeOK
<1>4. /\ run'[r].doc = run[r].doc /\ run'[r].status = "complete" /\ run'[r].eligible = run[r].eligible
      /\ run'[r].stage = run[r].stage /\ run'[r].keyless = run[r].keyless
  BY <1>2, <1>3 DEF Runs
<1>5. task'[t] = Idle /\ \A u \in Task : u # t => task'[u] = task[u]
  BY DEF Finish, End, TypeOK
<1>6. scars' = scars /\ shared' = shared /\ rows' = rows
  BY DEF Finish
<1> QED BY <1>1, <1>2, <1>4, <1>5, <1>6 DEF OwnRun

\* Taking up a run: a new one, or the one that is resumed.
LEMMA OpenWrites ==
  ASSUME TypeOK, KeptInv, NEW t \in Task, Open(t)
  PROVE  /\ \A u \in Task : u # t => task'[u] = task[u]
         /\ parse' = parse /\ rows' = rows /\ scars' = scars
         /\ LET r == task'[t].run
                d == task[t].doc
            IN \/ task'[t] = Idle /\ run' = run /\ shared' = shared
               \/ /\ r = task[t].run /\ r \in RunId /\ Present(d)
                  /\ task'[t] = [task[t] EXCEPT !.pc = "mark"]
                  /\ run'[r] = [run[r] EXCEPT !.status = "running"]
                  /\ shared' = shared \cup {o \in {r} : HeldRun(o) \/ run[o].status = "complete"}
               \/ /\ task[t].run = NoRunId /\ r \in RunId /\ run[r].status = "none" /\ Present(d)
                  /\ task'[t] = [task[t] EXCEPT !.run = r, !.pc = "mark"]
                  /\ run'[r] = [NoRun EXCEPT !.doc = d, !.status = "running", !.current = "parse"]
                  /\ shared' = shared
<1>t. task[t] \in Tasks
  BY DEF TypeOK
<1>1. \A u \in Task : u # t => task'[u] = task[u]
  BY DEF Open, Goto, End, TypeOK
<1>2. parse' = parse /\ rows' = rows /\ scars' = scars
  BY DEF Open
<1>3. CASE End(t) /\ UNCHANGED <<run, shared>>
  BY <1>1, <1>2, <1>3 DEF End, TypeOK
<1>4. CASE Present(task[t].doc) /\ task[t].run # NoRunId
  <2> DEFINE r == task[t].run
  <2>1. r \in RunId
    BY <1>t, <1>4 DEF Tasks
  <2>2. Goto(t, "mark") /\ run' = [run EXCEPT ![r].status = "running"]
        /\ shared' = shared \cup {o \in {r} : HeldRun(o) \/ run[o].status = "complete"}
    BY <1>4 DEF Open
  <2>3. task'[t] = [task[t] EXCEPT !.pc = "mark"]
    BY <2>2 DEF Goto, TypeOK
  <2>4. task'[t].run = r
    BY <1>t, <2>3 DEF Tasks
  <2>5. run'[r] = [run[r] EXCEPT !.status = "running"]
    BY <2>1, <2>2 DEF TypeOK
  <2> QED BY <1>1, <1>2, <1>4, <2>1, <2>2, <2>3, <2>4, <2>5
<1>5. CASE Present(task[t].doc) /\ task[t].run = NoRunId
  <2>1. PICK r \in Unused :
          /\ run' = [run EXCEPT ![r] = [NoRun EXCEPT !.doc = task[t].doc, !.status = "running",
                                                     !.current = "parse"]]
          /\ task' = [task EXCEPT ![t].run = r, ![t].pc = "mark"]
          /\ shared' = shared
    BY <1>5 DEF Open
  <2>2. r \in RunId /\ run[r].status = "none"
    BY DEF Unused
  <2>3. task'[t] = [task[t] EXCEPT !.run = r, !.pc = "mark"]
    BY <2>1 DEF TypeOK
  <2>4. task'[t].run = r
    BY <1>t, <2>3 DEF Tasks
  <2>5. run'[r] = [NoRun EXCEPT !.doc = task[t].doc, !.status = "running", !.current = "parse"]
    BY <2>1, <2>2 DEF TypeOK
  <2> QED BY <1>1, <1>2, <1>5, <2>1, <2>2, <2>3, <2>4, <2>5
<1> QED BY <1>3, <1>4, <1>5 DEF Open

----------------------------------------------------------------------------
(* Tasks, runs and documents keep together.                                *)

\* A document that was deleted stays deleted.
LEMMA GoneStays ==
  ASSUME TypeOK, KeptInv, Next, NEW d \in Document, parse[d] = "gone"
  PROVE  parse'[d] = "gone"
<1>1. ASSUME NEW e \in Document,
             \/ \E where \in {"project", "library", "procedure"} : Upload(e, where)
             \/ \E how \in {"reparse", "reprocess", "reindex"} : Requeue(e, how)
             \/ Recategorize(e) \/ Delete(e)
             \/ \E t \in Slot : Claim(t, e)
      PROVE  parse'[d] = "gone"
  <2>1. CASE \E how \in {"reparse", "reprocess", "reindex"} : Requeue(e, how)
    <3>1. PICK how \in {"reparse", "reprocess", "reindex"} : Requeue(e, how)
      BY <2>1
    <3>2. parse[e] # "gone"
      BY <3>1 DEF Requeue, Requeueable
    <3>3. parse' = [parse EXCEPT ![e] = "pending"]
      BY <3>1 DEF Requeue
    <3> QED BY <3>2, <3>3 DEF TypeOK
  <2>2. CASE \E where \in {"project", "library", "procedure"} : Upload(e, where)
    BY <2>2 DEF Upload, TypeOK
  <2>3. CASE Recategorize(e) \/ Delete(e) \/ \E t \in Slot : Claim(t, e)
    BY <2>3 DEF Recategorize, Delete, Claim, Present, TypeOK
  <2> QED BY <1>1, <2>1, <2>2, <2>3
<1>2. ASSUME NEW docs, docs[d] = "gone", Sweep(docs) PROVE parse'[d] = "gone"
  BY <1>2 DEF Sweep
<1>3. ASSUME \/ \E r \in RunId : Resume(r) \/ Age(r)
             \/ Recover \/ WorkerDies \/ WebDies \/ FreezeRead \/ FreezeCommit \/ Execute
      PROVE  parse'[d] = "gone"
  <2>1. CASE Recover
    <3> DEFINE docs == [e \in Document |-> IF parse[e] = "processing" THEN "pending" ELSE parse[e]]
    <3>1. Sweep(docs) /\ docs[d] = "gone"
      BY <2>1 DEF Recover
    <3> HIDE DEF docs
    <3> QED BY <1>2, <3>1
  <2> QED BY <1>3, <2>1 DEF Resume, Age, WorkerDies, WebDies, Die, FreezeRead, FreezeCommit, Execute
<1>4. ASSUME NEW t \in Task, TaskStep(t) \/ Raise(t)
      PROVE  parse'[d] = "gone"
  <2>1. CASE Enter(t)
    BY <1>2, <2>1 DEF Enter
  <2>2. CASE Categorize(t) \/ Assign(t) \/ Mark(t) \/ Finish(t) \/ Fail(t) \/ Rescue(t)
    BY <2>2 DEF Categorize, Assign, Mark, Finish, Fail, Rescue, Present, TypeOK
  <2>3. CASE \/ Open(t) \/ \E s \in Stages : Begin(t, s)
             \/ Parse(t) \/ Screen(t) \/ Expand(t) \/ Classify(t) \/ Flag(t) \/ Embed(t) \/ Clash(t)
             \/ Done(t) \/ Vanish(t) \/ Raise(t)
    BY <2>3 DEF Open, Begin, Parse, Screen, Expand, Classify, Flag, Embed, Clash, Done, Vanish, Raise
  <2> QED BY <1>4, <2>1, <2>2, <2>3 DEF TaskStep
<1> QED BY <1>1, <1>3, <1>4 DEF Next

\* A run appears once, belongs to one document until it is deleted, and gets more units.
RunGrows(r) ==
    /\ run'[r].status = "none" => run[r].status = "none"
    /\ run[r].status = "gone" => run'[r].status = "gone"
    /\ run'[r].status = "gone" => run[r].status = "gone" \/ parse'[run[r].doc] = "gone"
    /\ run'[r].status # "gone" /\ run[r].status # "none" =>
         run'[r].doc = run[r].doc /\ rows[r].units <= rows'[r].units

\* A run left in peace keeps its document and its rows.
LEMMA CalmGrows ==
  ASSUME TypeOK, KeptInv, NEW r \in RunId, RunCalm(r)
  PROVE  RunGrows(r) /\ RunKept(r)'
<1>1. run[r] \in Runs /\ rows[r] \in Counts /\ RunKept(r)
  BY DEF TypeOK, KeptInv
<1>2. RunGrows(r)
  BY <1>1 DEF RunGrows, RunCalm, Counts
<1>3. RunKept(r)'
  <2>1. run'[r].status \in {"none", "gone"} => run[r].status \in {"none", "gone"}
    BY DEF RunCalm
  <2>2. run'[r].status \notin {"none", "gone"} => run[r].status \notin {"none", "gone"}
    BY DEF RunCalm
  <2>3. run[r].status \notin {"none", "gone"} => run[r].doc \in Document
    BY <1>1 DEF RunKept, Runs
  <2>4. run'[r].status = "none" => run'[r] = NoRun
    BY <1>1 DEF RunCalm, RunKept
  <2> QED BY <1>1, <2>1, <2>2, <2>3, <2>4 DEF RunCalm, RunKept
<1> QED BY <1>2, <1>3

\* What a task has to do with its run.
RunFits(t) ==
    task[t].run # NoRunId =>
      LET r == task[t].run
      IN /\ run[r].status # "none"
         /\ IF run[r].status = "gone" THEN parse[task[t].doc] = "gone"
            ELSE run[r].doc = task[t].doc /\ task[t].upto <= rows[r].units

\* A task that keeps its document and its run still fits it.
LEMMA FitsOn ==
  ASSUME TypeOK, TypeOK', KeptInv, Next, NEW t \in Task, task[t].doc \in Document, \A r \in RunId : RunGrows(r),
         task'[t].doc = task[t].doc, task'[t].run = task[t].run, task'[t].upto <= task[t].upto
  PROVE  RunFits(t)'
<1> SUFFICES ASSUME task[t].run # NoRunId
             PROVE  LET r == task[t].run
                    IN /\ run'[r].status # "none"
                       /\ IF run'[r].status = "gone" THEN parse'[task[t].doc] = "gone"
                          ELSE run'[r].doc = task[t].doc /\ task'[t].upto <= rows'[r].units
  BY DEF RunFits
<1> DEFINE r == task[t].run
<1>1. task[t] \in Tasks /\ task'[t] \in Tasks
  BY DEF TypeOK
<1>2. r \in RunId
  BY <1>1 DEF Tasks
<1>3. rows[r] \in Counts /\ rows'[r] \in Counts
  BY <1>2 DEF TypeOK
<1>4. /\ run[r].status # "none"
      /\ IF run[r].status = "gone" THEN parse[task[t].doc] = "gone"
         ELSE run[r].doc = task[t].doc /\ task[t].upto <= rows[r].units
  BY DEF KeptInv, TaskKept
<1>5. RunGrows(r)
  BY <1>2
<1>6. CASE run'[r].status = "gone"
  BY <1>4, <1>5, <1>6, GoneStays DEF RunGrows
<1>7. CASE run'[r].status # "gone"
  <2>1. run[r].status # "gone" /\ rows[r].units <= rows'[r].units /\ run'[r].doc = run[r].doc
    BY <1>4, <1>5, <1>7 DEF RunGrows
  <2>2. task'[t].upto \in Nat /\ task[t].upto \in Nat /\ rows[r].units \in Nat /\ rows'[r].units \in Nat
    BY <1>1, <1>3 DEF Tasks, Counts
  <2>3. task'[t].upto <= rows'[r].units
    BY <1>4, <2>1, <2>2
  <2> QED BY <1>4, <1>5, <1>7, <2>1, <2>3 DEF RunGrows
<1> QED BY <1>6, <1>7

\* A step in a stage, of its own run.
LEMMA OwnGrows ==
  ASSUME TypeOK, KeptInv, NEW t \in Task, NEW r, OwnRun(t, r), run'[r].status \notin {"none", "gone"},
         rows[r].units <= rows'[r].units,
         rows'[r].classified <= rows'[r].units, rows'[r].embedded <= rows'[r].units
  PROVE  RunGrows(r) /\ RunKept(r)'
<1>1. r \in RunId /\ run'[r].doc = run[r].doc /\ run[r].status \notin {"none", "gone"}
  BY DEF OwnRun
<1>2. run[r] \in Runs /\ RunKept(r)
  BY <1>1 DEF TypeOK, KeptInv
<1>3. run[r].doc \in Document
  BY <1>1, <1>2 DEF RunKept, Runs
<1> QED BY <1>1, <1>3 DEF RunGrows, RunKept

\* Nor do the steps in a stage take rows away.
LEMMA StageGrows ==
  ASSUME TypeOK, KeptInv, NEW t \in Task, NEW r, r = task[t].run,
         \/ \E s \in Stages : Begin(t, s)
         \/ Parse(t) \/ Screen(t) \/ Expand(t) \/ Classify(t) \/ Flag(t) \/ Embed(t) \/ Done(t)
         \/ Finish(t)
  PROVE  RunGrows(r) /\ RunKept(r)'
<1>1. OwnRun(t, r)
  BY BeginWrites, ParseWrites, ScreenWrites, ExpandWrites, ClassifyWrites, FlagWrites, EmbedWrites,
     DoneWrites, FinishWrites
<1>2. /\ r \in RunId /\ run[r] \in Runs /\ rows[r] \in Counts /\ task[t] \in Tasks
      /\ run[r].status \notin {"none", "gone"} /\ RunKept(r) /\ TaskKept(t)
      /\ task[t].from <= task[t].upto
  BY <1>1 DEF OwnRun, TypeOK, KeptInv
<1>3. run'[r].status \notin {"none", "gone"}
  <2>1. CASE \E s \in Stages : Begin(t, s)
    BY <1>2, <2>1, BeginWrites
  <2>2. CASE Parse(t) \/ Expand(t) \/ Classify(t) \/ Embed(t)
    BY <1>2, <2>2 DEF Parse, Expand, Classify, Embed
  <2>3. CASE Screen(t)
    <3>1. PICK fallback : run'[r] = [run[r] EXCEPT !.eligible = @ /\ ~fallback]
      BY <2>3, ScreenWrites
    <3> QED BY <1>2, <3>1 DEF Runs
  <2>4. CASE Flag(t)
    <3>1. run'[r] = [run[r] EXCEPT !.eligible = @ /\ ~task[t].fallback]
      BY <2>4, FlagWrites
    <3> QED BY <1>2, <3>1 DEF Runs
  <2>5. CASE Done(t) \/ Finish(t)
    BY <1>2, <2>5, DoneWrites, FinishWrites
  <2> QED BY <2>1, <2>2, <2>3, <2>4, <2>5
<1>4. /\ rows[r].units <= rows'[r].units
      /\ rows'[r].classified <= rows'[r].units /\ rows'[r].embedded <= rows'[r].units
  <2>n. /\ rows[r].units \in Nat /\ rows[r].classified \in Nat /\ rows[r].embedded \in Nat
        /\ rows[r].screened \in Nat /\ task[t].from \in Nat /\ task[t].upto \in Nat
    BY <1>2 DEF Counts, Tasks
  <2>k. rows[r].classified <= rows[r].units /\ rows[r].embedded <= rows[r].units
    BY <1>2 DEF RunKept
  <2>1. CASE rows'[r] = rows[r]
    BY <2>n, <2>k, <2>1
  <2>2. CASE Parse(t)
    <3>1. rows'[r] = [rows[r] EXCEPT !.lines = @ + 1]
      BY <2>2, ParseWrites
    <3> QED BY <1>2, <2>n, <2>k, <3>1 DEF Counts
  <2>3. CASE Screen(t)
    <3>1. PICK fallback : rows'[r] = [rows[r] EXCEPT !.screened = rows[r].lines,
                                        !.standin = @ \cup IF fallback THEN {"screen"} ELSE {}]
      BY <2>3, ScreenWrites
    <3>2. rows'[r].units = rows[r].units /\ rows'[r].classified = rows[r].classified
          /\ rows'[r].embedded = rows[r].embedded
      BY <1>2, <3>1 DEF Counts
    <3> QED BY <2>n, <2>k, <3>2
  <2>4. CASE Expand(t)
    <3>1. rows'[r] = [rows[r] EXCEPT !.units = @ + Excerpts * rows[r].screened]
      BY <2>4, ExpandWrites
    <3>2. rows'[r].units = rows[r].units + Excerpts * rows[r].screened
          /\ rows'[r].classified = rows[r].classified /\ rows'[r].embedded = rows[r].embedded
      BY <1>2, <3>1 DEF Counts
    <3>3. Excerpts * rows[r].screened \in Nat
      BY <2>n, SizeAssumption
    <3> QED BY <2>n, <2>k, <3>2, <3>3
  <2>5. CASE Classify(t)
    <3>1. PICK how : /\ rows'[r] = [rows[r] EXCEPT !.classified = @ + (task[t].upto - task[t].from),
                                                   !.standin = @ \cup ({how} \ {"clean"})]
                     /\ At(t, "classify") /\ ~Clashes(t)
      BY <2>5, ClassifyWrites
    <3>2. rows'[r].units = rows[r].units /\ rows'[r].embedded = rows[r].embedded
          /\ rows'[r].classified = rows[r].classified + (task[t].upto - task[t].from)
      BY <1>2, <3>1 DEF Counts
    <3>3. rows[r].classified = task[t].from \/ ~(task[t].from < task[t].upto)
      BY <3>1 DEF Clashes
    <3>4. task[t].upto <= rows[r].units
      BY <1>2, <3>1 DEF TaskKept, RunId, NoRunId
    <3> QED BY <1>2, <2>n, <2>k, <3>2, <3>3, <3>4
  <2>6. CASE Embed(t)
    <3>1. /\ rows'[r] = [rows[r] EXCEPT !.embedded = @ + 1]
          /\ At(t, "embed") /\ ~Clashes(t)
      BY <2>6, EmbedWrites
    <3>2. rows'[r].units = rows[r].units /\ rows'[r].classified = rows[r].classified
          /\ rows'[r].embedded = rows[r].embedded + 1
      BY <1>2, <3>1 DEF Counts
    <3>3. rows[r].embedded = task[t].from
      BY <3>1 DEF Clashes
    <3>4. task[t].upto <= rows[r].units /\ task[t].from < task[t].upto
      BY <1>2, <3>1 DEF TaskKept, RunId, NoRunId, At
    <3> QED BY <2>n, <2>k, <3>2, <3>3, <3>4
  <2>7. rows' = rows \/ Parse(t) \/ Screen(t) \/ Expand(t) \/ Classify(t) \/ Embed(t)
    BY BeginWrites, FlagWrites, DoneWrites, FinishWrites
  <2> QED BY <2>1, <2>2, <2>3, <2>4, <2>5, <2>6, <2>7
<1> QED BY <1>1, <1>3, <1>4, OwnGrows

\* Every step keeps the runs.
LEMMA GrowStep ==
  ASSUME TypeOK, KeptInv, Next
  PROVE  \A r \in RunId : RunGrows(r) /\ RunKept(r)'
<1>1. CASE \A r \in RunId : Calm(r)
  BY <1>1, CalmGrows DEF Calm
<1>2. ASSUME NEW t \in Task,
             \/ \E s \in Stages : Begin(t, s)
             \/ Parse(t) \/ Screen(t) \/ Expand(t) \/ Classify(t) \/ Flag(t) \/ Embed(t) \/ Done(t)
             \/ Finish(t),
             NEW r \in RunId
      PROVE  RunGrows(r) /\ RunKept(r)'
  <2>1. CASE r = task[t].run
    BY <1>2, <2>1, StageGrows
  <2>2. CASE r # task[t].run
    <3>1. Calm(r)
      BY <1>2, <2>2, WorkCalm
    <3> QED BY <3>1, CalmGrows DEF Calm
  <2> QED BY <2>1, <2>2
<1>3. ASSUME NEW t \in Task, Open(t), NEW r \in RunId PROVE RunGrows(r) /\ RunKept(r)'
  <2>1. CASE r # task'[t].run
    BY <1>3, <2>1, OpenCalm, CalmGrows DEF Calm
  <2>2. CASE r = task'[t].run
    <3>1. run[r] \in Runs /\ rows'[r] = rows[r] /\ rows[r] \in Counts /\ RunKept(r) /\ TaskKept(t)
      BY <1>3, OpenWrites DEF TypeOK, KeptInv
    <3>2. rows[r].units <= rows'[r].units
      BY <3>1 DEF Counts
    <3>3. task'[t] # Idle
      BY <2>2 DEF Idle, RunId, NoRunId
    <3>4. CASE run'[r] = [run[r] EXCEPT !.status = "running"] /\ task[t].run = r /\ Present(task[t].doc)
      <4>1. run'[r].status = "running" /\ run'[r].doc = run[r].doc
        BY <3>1, <3>4 DEF Runs
      <4>2. run[r].status \notin {"none", "gone"}
        BY <3>1, <3>4 DEF TaskKept, RunId, NoRunId, Present
      <4> QED BY <3>1, <3>2, <4>1, <4>2 DEF RunGrows, RunKept, Runs
    <3>5. CASE /\ run[r].status = "none"
               /\ run'[r] = [NoRun EXCEPT !.doc = task[t].doc, !.status = "running", !.current = "parse"]
      <4>1. run'[r].status = "running" /\ run'[r].doc = task[t].doc
        BY <3>5 DEF NoRun
      <4>2. task[t].doc \in Document
        BY <1>3, <3>1 DEF TaskKept, Open
      <4> QED BY <3>1, <3>2, <3>5, <4>1, <4>2 DEF RunGrows, RunKept
    <3> QED BY <1>3, <2>2, <3>3, <3>4, <3>5, OpenWrites
  <2> QED BY <2>1, <2>2
<1>4. ASSUME NEW d \in Document, Delete(d), NEW r \in RunId PROVE RunGrows(r) /\ RunKept(r)'
  <2>1. CASE run[r].doc # d
    BY <1>4, <2>1, DeleteCalm, CalmGrows DEF Calm
  <2>2. CASE run[r].doc = d
    <3>1. run'[r] = [NoRun EXCEPT !.status = "gone"] /\ rows'[r] = NoRows /\ parse'[d] = "gone"
      BY <1>4, <2>2 DEF Delete, TypeOK
    <3>2. run'[r].status = "gone" /\ run'[r].doc = NoDocument
      BY <3>1 DEF NoRun
    <3>3. NoRows.classified <= NoRows.units /\ NoRows.embedded <= NoRows.units
      BY DEF NoRows
    <3> QED BY <2>2, <3>1, <3>2, <3>3 DEF RunGrows, RunKept
  <2> QED BY <2>1, <2>2
<1>5. \/ \A r \in RunId : Calm(r)
      \/ \E d \in Document : Delete(d)
      \/ \E t \in Task : \/ Open(t) \/ \E s \in Stages : Begin(t, s)
                         \/ Parse(t) \/ Screen(t) \/ Expand(t) \/ Classify(t) \/ Flag(t) \/ Embed(t)
                         \/ Done(t) \/ Finish(t)
  <2>1. ASSUME NEW r \in RunId, Resume(r) \/ Age(r) PROVE \A o \in RunId : Calm(o)
    <3>1. CASE Document # {}
      BY <2>1, <3>1, RequestCalm
    <3>2. CASE Document = {}
      BY <2>1, <3>2 DEF Resume, Age, KeptInv, RunKept
    <3> QED BY <3>1, <3>2
  <2> QED BY <2>1, RequestCalm, SystemCalm, OutsideCalm DEF Next, TaskStep
<1> QED BY <1>1, <1>2, <1>3, <1>4, <1>5

\* Tasks that do not move, end, or start.
LEMMA TaskStays ==
  ASSUME TypeOK, TypeOK', KeptInv, Next, \A r \in RunId : RunGrows(r), NEW t \in Task, task'[t] = task[t]
  PROVE  TaskKept(t)'
<1>1. TaskKept(t) /\ task[t] \in Tasks
  BY DEF KeptInv, TypeOK
<1>2. RunFits(t)'
  <2>1. CASE task[t].pc = "free"
    BY <1>1, <2>1 DEF TaskKept, RunFits, Idle
  <2>2. CASE task[t].pc # "free"
    <3>1. task[t].doc \in Document /\ task[t].upto <= task[t].upto
      BY <1>1, <2>2 DEF TaskKept, Tasks
    <3> QED BY <3>1, FitsOn
  <2> QED BY <2>1, <2>2
<1> QED BY <1>1, <1>2 DEF TaskKept, RunFits, Opened

\* A task that ended is free of any run.
LEMMA TaskEnds ==
  ASSUME NEW t \in Task, task'[t] = Idle PROVE TaskKept(t)'
BY DEF TaskKept, Idle, Opened, NoRunId

\* A task that starts has a document, and fits the run it is to resume.
LEMMA TaskStarts ==
  ASSUME TypeOK', NEW t \in Task, task'[t].pc \in {"categorize", "enter"}, task'[t].doc \in Document,
         task'[t].upto = 0,
         task'[t].run # NoRunId =>
           run'[task'[t].run].status \in {"running", "failed"} /\ run'[task'[t].run].doc = task'[t].doc
  PROVE  TaskKept(t)'
<1>1. task'[t].run # NoRunId => 0 <= rows'[task'[t].run].units
  <2>1. task'[t] \in Tasks
    BY DEF TypeOK
  <2>2. task'[t].run # NoRunId => rows'[task'[t].run] \in Counts
    BY <2>1 DEF TypeOK, Tasks
  <2> QED BY <2>2 DEF Counts
<1> QED BY <1>1 DEF TaskKept, Opened

\* A task that goes on with its document and its run.
LEMMA TaskGoes ==
  ASSUME TypeOK, TypeOK', KeptInv, Next, \A r \in RunId : RunGrows(r), NEW t \in Task, task[t].pc # "free",
         task'[t].doc = task[t].doc, task'[t].run = task[t].run, task'[t].upto <= task[t].upto,
         task'[t].pc # "free", Opened(t)' => Opened(t) \/ task[t].run # NoRunId,
         task'[t].pc \in {"work", "flag", "done"} => task'[t].stage \in Stages,
         task'[t].pc = "flag" => task'[t].stage = "classify",
         task'[t].pc = "work" /\ task'[t].stage = "embed" => task'[t].from < task'[t].upto
  PROVE  TaskKept(t)'
<1>1. TaskKept(t) /\ task[t].doc \in Document
  BY DEF KeptInv, TaskKept
<1>2. RunFits(t)'
  BY <1>1, FitsOn
<1>3. Opened(t) => task[t].run # NoRunId
  BY <1>1 DEF TaskKept
<1>4. task'[t].run = NoRunId => task'[t].upto = 0
  <2>1. task[t].run = NoRunId => task[t].upto = 0
    BY <1>1 DEF TaskKept
  <2>2. task'[t].upto \in Nat
    BY DEF TypeOK, Tasks
  <2> QED BY <2>1, <2>2
<1> QED BY <1>1, <1>2, <1>3, <1>4 DEF TaskKept, RunFits

\* An exception leaves the task its document and its run.
LEMMA HandleKept ==
  ASSUME TypeOK, TypeOK', KeptInv, Next, \A r \in RunId : RunGrows(r), NEW t \in Task, task[t].pc # "free",
         NEW pc \in {"fail", "rescue"}, pc = "fail" => Opened(t), Handle(t, pc)
  PROVE  TaskKept(t)'
<1>1. task[t] \in Tasks
  BY DEF TypeOK
<1>2. /\ task'[t].pc = pc /\ task'[t].doc = task[t].doc /\ task'[t].run = task[t].run
      /\ task'[t].upto = 0
  BY DEF Handle, Idle, TypeOK
<1>3. 0 <= task[t].upto
  BY <1>1 DEF Tasks
<1> QED BY <1>2, <1>3, TaskGoes DEF Opened

\* So does a step to the next place in the code.
LEMMA GotoKept ==
  ASSUME TypeOK, TypeOK', KeptInv, Next, \A r \in RunId : RunGrows(r), NEW t \in Task, task[t].pc # "free",
         NEW pc \in {"assign", "enter", "open", "mark", "done"},
         pc = "mark" => task[t].run # NoRunId,
         pc = "done" => task[t].pc = "work",
         task'[t] = [task[t] EXCEPT !.pc = pc]
  PROVE  TaskKept(t)'
<1>1. task[t] \in Tasks /\ TaskKept(t)
  BY DEF TypeOK, KeptInv
<1>2. /\ task'[t].pc = pc /\ task'[t].doc = task[t].doc /\ task'[t].run = task[t].run
      /\ task'[t].upto = task[t].upto /\ task'[t].stage = task[t].stage
  BY <1>1 DEF Tasks
<1>3. task[t].upto <= task[t].upto
  BY <1>1 DEF Tasks
<1>4. pc = "done" => task[t].stage \in Stages /\ Opened(t)
  BY <1>1 DEF TaskKept, Opened
<1> QED BY <1>2, <1>3, <1>4, TaskGoes DEF Opened

\* The stages of a task.
LEMMA StageTaskKept ==
  ASSUME TypeOK, TypeOK', KeptInv, Next, \A r \in RunId : RunGrows(r), NEW t \in Task,
         \/ \E s \in Stages : Begin(t, s)
         \/ Parse(t) \/ Screen(t) \/ Expand(t) \/ Classify(t) \/ Flag(t) \/ Embed(t) \/ Done(t)
         \/ Finish(t)
  PROVE  TaskKept(t)'
<1>1. task[t] \in Tasks /\ TaskKept(t) /\ task[t].from <= task[t].upto
  BY DEF TypeOK, KeptInv
<1>2. task[t].upto \in Nat /\ task[t].from \in Nat /\ task[t].upto <= task[t].upto /\ 0 <= task[t].upto
  BY <1>1 DEF Tasks
<1>3. CASE \E s \in Stages : Begin(t, s)
  <2>1. PICK s \in Stages : Begin(t, s)
    BY <1>3
  <2> DEFINE r == task[t].run
             n == task'[t]
  <2>2. /\ OwnRun(t, r) /\ task[t].pc = "look" /\ rows' = rows
        /\ n.run = r /\ n.doc = task[t].doc /\ n.stage = s
        /\ n.from = IF s = "classify" THEN rows[r].classified
                    ELSE IF s = "embed" THEN rows[r].embedded ELSE 0
        /\ n.upto = IF s \in {"classify", "embed"} THEN rows[r].units ELSE 0
        /\ n.pc \in {"work", "done"} /\ (n.pc = "work" /\ s = "embed" => n.from # n.upto)
        /\ run'[r].status = run[r].status
    BY <2>1, BeginWrites
  <2>3. /\ r \in RunId /\ rows[r] \in Counts /\ RunKept(r) /\ run[r].status \notin {"none", "gone"}
        /\ run'[r].doc = run[r].doc
    BY <2>2 DEF OwnRun, KeptInv, TypeOK
  <2>4. rows[r].units \in Nat /\ rows[r].embedded \in Nat /\ rows[r].embedded <= rows[r].units
    BY <2>3 DEF RunKept, Counts
  <2>5. n.upto <= rows'[r].units
    BY <2>2, <2>4
  <2>6. n.pc = "work" /\ n.stage = "embed" => n.from < n.upto
    BY <2>2, <2>4
  <2>7. task[t].doc \in Document /\ run[r].doc = task[t].doc /\ r # NoRunId
    BY <1>1, <2>2, <2>3 DEF TaskKept, RunId, NoRunId
  <2>8. n.pc \in {"work", "done"}
    BY <2>2
  <2> QED BY <2>2, <2>3, <2>5, <2>6, <2>7, <2>8 DEF TaskKept, Opened
<1>4. CASE Parse(t) \/ Screen(t) \/ Expand(t)
  <2>1. task'[t] = [task[t] EXCEPT !.pc = "done"] /\ task[t].pc = "work"
    BY <1>4, ParseWrites, ScreenWrites, ExpandWrites DEF At
  <2> QED BY <2>1, GotoKept
<1>5. CASE Classify(t)
  <2>1. PICK how : /\ At(t, "classify")
                   /\ task'[t] = [task[t] EXCEPT !.pc = "flag", !.fallback = (how = "classify")]
    BY <1>5, ClassifyWrites
  <2>2. /\ task'[t].pc = "flag" /\ task'[t].doc = task[t].doc /\ task'[t].run = task[t].run
        /\ task'[t].upto = task[t].upto /\ task'[t].stage = task[t].stage
    BY <1>1, <2>1 DEF Tasks
  <2>3. task[t].pc = "work" /\ task[t].stage = "classify" /\ Opened(t)
    BY <2>1 DEF At, Opened
  <2> QED BY <1>2, <2>2, <2>3, TaskGoes DEF Stages
<1>6. CASE Flag(t)
  <2>1. task'[t] = [task[t] EXCEPT !.pc = "done", !.fallback = FALSE] /\ task[t].pc = "flag"
    BY <1>6, FlagWrites
  <2>2. /\ task'[t].pc = "done" /\ task'[t].doc = task[t].doc /\ task'[t].run = task[t].run
        /\ task'[t].upto = task[t].upto /\ task'[t].stage = task[t].stage
    BY <1>1, <2>1 DEF Tasks
  <2>3. task[t].stage \in Stages /\ Opened(t)
    BY <1>1, <2>1 DEF TaskKept, Opened
  <2> QED BY <1>2, <2>1, <2>2, <2>3, TaskGoes
<1>7. CASE Embed(t)
  <2> DEFINE pc == IF task[t].from + 1 = task[t].upto THEN "done" ELSE "work"
  <2>1. At(t, "embed") /\ task'[t] = [task[t] EXCEPT !.from = @ + 1, !.pc = pc]
    BY <1>7, EmbedWrites
  <2>2. /\ task'[t].pc = pc /\ task'[t].doc = task[t].doc /\ task'[t].run = task[t].run
        /\ task'[t].upto = task[t].upto /\ task'[t].stage = task[t].stage
        /\ task'[t].from = task[t].from + 1
    <3> HIDE DEF pc
    <3> QED BY <1>1, <2>1 DEF Tasks
  <2>3. task[t].pc = "work" /\ task[t].stage = "embed" /\ Opened(t) /\ task[t].from < task[t].upto
    BY <1>1, <2>1 DEF At, TaskKept, Opened
  <2>4. pc = "work" => task[t].from + 1 < task[t].upto
    BY <1>2, <2>3
  <2>5. pc \in {"work", "done"}
    OBVIOUS
  <2> HIDE DEF pc
  <2> QED BY <1>2, <2>2, <2>3, <2>4, <2>5, TaskGoes DEF Stages
<1>8. CASE Done(t)
  <2> DEFINE s == StageAfter[task[t].stage]
  <2>1. /\ task[t].pc = "done"
        /\ task'[t] = [task[t] EXCEPT !.stage = s, !.from = 0, !.upto = 0, !.pc = "look"]
    BY <1>8, DoneWrites
  <2>2. /\ task'[t].pc = "look" /\ task'[t].doc = task[t].doc /\ task'[t].run = task[t].run
        /\ task'[t].upto = 0
    <3> HIDE DEF s
    <3> QED BY <1>1, <2>1 DEF Tasks
  <2>3. Opened(t)
    BY <2>1 DEF Opened
  <2> QED BY <1>2, <2>1, <2>2, <2>3, TaskGoes
<1>9. CASE Finish(t)
  BY <1>9, FinishWrites, TaskEnds
<1> QED BY <1>3, <1>4, <1>5, <1>6, <1>7, <1>8, <1>9

\* Every step keeps tasks, runs and documents together.
LEMMA KeptStep == TypeOK /\ TypeOK' /\ KeptInv /\ [Next]_vars => KeptInv'
<1>1. CASE UNCHANGED vars
  BY <1>1 DEF vars, KeptInv, TaskKept, RunKept, Opened
<1>2. ASSUME TypeOK, TypeOK', KeptInv, Next PROVE KeptInv'
  <2>g. \A r \in RunId : RunGrows(r) /\ RunKept(r)'
    BY <1>2, GrowStep
  <2>s. \A t \in Task : task'[t] = task[t] => TaskKept(t)'
    BY <1>2, <2>g, TaskStays
  <2>r. ASSUME NEW d \in Document, NEW pc \in {"categorize", "enter"}, NEW wrapped \in BOOLEAN, NEW r,
               r # NoRunId => run'[r].status \in {"running", "failed"} /\ run'[r].doc = d,
               Spawn(d, pc, wrapped, r)
        PROVE  \A u \in Task : TaskKept(u)'
    <3>1. PICK t \in WebTask :
            task' = [task EXCEPT ![t] = [Idle EXCEPT !.pc = pc, !.doc = d, !.run = r, !.wrapped = wrapped]]
      BY <2>r DEF Spawn
    <3>2. /\ t \in Task /\ task'[t].pc = pc /\ task'[t].doc = d /\ task'[t].run = r
          /\ task'[t].upto = 0
      BY <1>2, <3>1 DEF Task, TypeOK, Idle
    <3>3. TaskKept(t)'
      BY <1>2, <2>r, <3>2, TaskStarts
    <3>4. \A u \in Task : u # t => task'[u] = task[u]
      BY <1>2, <3>1 DEF TypeOK
    <3> QED BY <2>s, <3>3, <3>4
  <2>1. ASSUME NEW d \in Document,
               \/ \E where \in {"project", "library", "procedure"} : Upload(d, where)
               \/ \E how \in {"reparse", "reprocess", "reindex"} : Requeue(d, how)
               \/ Recategorize(d) \/ Delete(d)
        PROVE  \A u \in Task : TaskKept(u)'
    <3>1. task' = task \/ \E pc \in {"categorize", "enter"}, wrapped \in BOOLEAN : Spawn(d, pc, wrapped, NoRunId)
      BY <2>1 DEF Upload, Requeue, Recategorize, Delete
    <3>2. CASE task' = task
      BY <2>s, <3>2
    <3>3. CASE \E pc \in {"categorize", "enter"}, wrapped \in BOOLEAN : Spawn(d, pc, wrapped, NoRunId)
      <4>1. PICK pc \in {"categorize", "enter"}, wrapped \in BOOLEAN : Spawn(d, pc, wrapped, NoRunId)
        BY <3>3
      <4> QED BY <2>r, <4>1
    <3> QED BY <3>1, <3>2, <3>3
  <2>2. ASSUME NEW t \in Slot, NEW d \in Document, Claim(t, d) PROVE \A u \in Task : TaskKept(u)'
    <3>1. t \in Task /\ task' = [task EXCEPT ![t] = [Idle EXCEPT !.pc = "enter", !.doc = d, !.wrapped = TRUE]]
      BY <2>2 DEF Task, Claim
    <3>2. task'[t].pc = "enter" /\ task'[t].doc = d /\ task'[t].run = NoRunId /\ task'[t].upto = 0
      BY <1>2, <3>1 DEF TypeOK, Idle
    <3>3. TaskKept(t)'
      BY <1>2, <3>1, <3>2, TaskStarts
    <3>4. \A u \in Task : u # t => task'[u] = task[u]
      BY <1>2, <3>1 DEF TypeOK
    <3> QED BY <2>s, <3>3, <3>4
  <2>3. ASSUME NEW r \in RunId, Resume(r) PROVE \A u \in Task : TaskKept(u)'
    <3>1. run' = run /\ run[r].status \in {"failed", "running"} /\ Spawn(run[r].doc, "enter", FALSE, r)
      BY <2>3 DEF Resume
    <3>2. PICK d \in Document : run[r].doc = d
      BY <1>2, <3>1 DEF KeptInv, RunKept
    <3> QED BY <2>r, <3>1, <3>2
  <2>4. ASSUME \/ \E r \in RunId : Age(r)
               \/ Recover \/ FreezeRead \/ FreezeCommit \/ Execute
        PROVE  \A u \in Task : TaskKept(u)'
    <3>1. task' = task
      BY <2>4 DEF Age, Recover, FreezeRead, FreezeCommit, Execute
    <3> QED BY <2>s, <3>1
  <2>5. ASSUME WorkerDies \/ WebDies, NEW u \in Task PROVE TaskKept(u)'
    <3>1. task'[u] \in {task[u], Idle}
      BY <2>5 DEF WorkerDies, WebDies, Die
    <3> QED BY <2>s, <3>1, TaskEnds
  <2>6. ASSUME NEW t \in Task, TaskStep(t) \/ Raise(t) PROVE \A u \in Task : TaskKept(u)'
    <3>1. \A u \in Task : u # t => task'[u] = task[u]
      <4>1. CASE Open(t)
        BY <1>2, <4>1, OpenWrites
      <4>2. CASE \/ \E s \in Stages : Begin(t, s)
                 \/ Parse(t) \/ Screen(t) \/ Expand(t) \/ Classify(t) \/ Flag(t) \/ Embed(t) \/ Done(t)
                 \/ Finish(t)
        <5>1. OwnRun(t, task[t].run)
          BY <1>2, <4>2, BeginWrites, ParseWrites, ScreenWrites, ExpandWrites, ClassifyWrites, FlagWrites,
             EmbedWrites, DoneWrites, FinishWrites
        <5> QED BY <5>1 DEF OwnRun
      <4>3. CASE \/ Categorize(t) \/ Assign(t) \/ Enter(t) \/ Mark(t)
                 \/ Clash(t) \/ Vanish(t) \/ Rescue(t) \/ Fail(t) \/ Raise(t)
        BY <1>2, <4>3 DEF Categorize, Assign, Enter, Mark, Clash, Vanish, Rescue, Fail, Raise, End, Goto,
           Handle, TypeOK
      <4> QED BY <2>6, <4>1, <4>2, <4>3 DEF TaskStep
    <3>2. TaskKept(t)'
      <4>t. task[t] \in Tasks /\ TaskKept(t)
        BY <1>2 DEF TypeOK, KeptInv
      <4>1. CASE \/ \E s \in Stages : Begin(t, s)
                 \/ Parse(t) \/ Screen(t) \/ Expand(t) \/ Classify(t) \/ Flag(t) \/ Embed(t) \/ Done(t)
                 \/ Finish(t)
        BY <1>2, <2>g, <4>1, StageTaskKept
      <4>2. CASE End(t)
        <5>1. task'[t] = Idle
          BY <1>2, <4>2 DEF End, TypeOK
        <5> QED BY <5>1, TaskEnds
      <4>3. ASSUME NEW pc \in {"assign", "enter", "open"}, Goto(t, pc), task[t].pc # "free"
            PROVE  TaskKept(t)'
        <5>1. task'[t] = [task[t] EXCEPT !.pc = pc]
          BY <1>2, <4>3 DEF Goto, TypeOK
        <5> QED BY <1>2, <2>g, <4>3, <5>1, GotoKept
      <4>4. CASE Categorize(t) \/ Assign(t) \/ Enter(t)
        BY <4>2, <4>3, <4>4 DEF Categorize, Assign, Enter
      <4>5. CASE Rescue(t) \/ Fail(t)
        BY <4>2, <4>5 DEF Rescue, Fail
      <4>6. CASE Clash(t) \/ Vanish(t)
        <5>1. Handle(t, "fail") /\ task[t].pc \in {"look", "work", "flag", "done"}
          BY <4>6 DEF Clash, Clashes, At, Vanish
        <5>2. Opened(t) /\ task[t].pc # "free"
          BY <5>1 DEF Opened
        <5> QED BY <1>2, <2>g, <5>1, <5>2, HandleKept
      <4>7. CASE Raise(t)
        <5>1. \/ Handle(t, "fail") /\ Opened(t)
              \/ Handle(t, "rescue")
              \/ End(t)
          BY <4>7 DEF Raise, Guarded, Opened
        <5>2. task[t].pc # "free"
          BY <4>7 DEF Raise
        <5> QED BY <1>2, <2>g, <4>2, <5>1, <5>2, HandleKept
      <4>8. CASE Mark(t)
        <5>1. task'[t] = [task[t] EXCEPT !.pc = "look", !.stage = "parse"] /\ task[t].pc = "mark"
          BY <1>2, <4>8 DEF Mark, TypeOK
        <5>2. /\ task'[t].pc = "look" /\ task'[t].doc = task[t].doc /\ task'[t].run = task[t].run
              /\ task'[t].upto = task[t].upto
          BY <4>t, <5>1 DEF Tasks
        <5>3. Opened(t) /\ task[t].upto <= task[t].upto
          BY <4>t, <5>1 DEF Opened, Tasks
        <5> QED BY <1>2, <2>g, <5>1, <5>2, <5>3, TaskGoes
      <4>9. CASE Open(t)
        <5> DEFINE d == task[t].doc
        <5>o. task[t].pc = "open"
          BY <4>9 DEF Open
        <5>d. d \in Document
          BY <4>t, <5>o DEF TaskKept
        <5>1. CASE task'[t] = Idle
          BY <5>1, TaskEnds
        <5>2. CASE task'[t] = [task[t] EXCEPT !.pc = "mark"] /\ task[t].run \in RunId
          <6>1. task[t].run # NoRunId
            BY <5>2 DEF RunId, NoRunId
          <6> QED BY <1>2, <2>g, <5>o, <5>2, <6>1, GotoKept
        <5>3. ASSUME NEW r \in RunId, task'[t] = [task[t] EXCEPT !.run = r, !.pc = "mark"],
                     task[t].run = NoRunId,
                     run'[r] = [NoRun EXCEPT !.doc = d, !.status = "running", !.current = "parse"]
              PROVE  TaskKept(t)'
          <6>1. run'[r].status = "running" /\ run'[r].doc = d
            BY <5>3 DEF NoRun
          <6>2. /\ task'[t].pc = "mark" /\ task'[t].doc = d /\ task'[t].run = r
                /\ task'[t].upto = task[t].upto
            BY <4>t, <5>3 DEF Tasks
          <6>3. task[t].upto = 0
            BY <4>t, <5>3 DEF TaskKept
          <6>4. 0 <= rows'[r].units
            BY <1>2 DEF TypeOK, Counts
          <6>5. r # NoRunId
            BY DEF RunId, NoRunId
          <6> QED BY <5>d, <6>1, <6>2, <6>3, <6>4, <6>5 DEF TaskKept
        <5>4. \/ task'[t] = Idle
              \/ task'[t] = [task[t] EXCEPT !.pc = "mark"] /\ task[t].run \in RunId
              \/ \E r \in RunId : /\ task'[t] = [task[t] EXCEPT !.run = r, !.pc = "mark"]
                                  /\ task[t].run = NoRunId
                                  /\ run'[r] = [NoRun EXCEPT !.doc = d, !.status = "running", !.current = "parse"]
          <6>1. /\ task'[t].run = task[t].run => task'[t].run = task[t].run
                /\ LET r == task'[t].run
                   IN \/ task'[t] = Idle
                      \/ r = task[t].run /\ r \in RunId /\ task'[t] = [task[t] EXCEPT !.pc = "mark"]
                      \/ /\ r \in RunId /\ task'[t] = [task[t] EXCEPT !.run = r, !.pc = "mark"]
                         /\ task[t].run = NoRunId
                         /\ run'[r] = [NoRun EXCEPT !.doc = d, !.status = "running", !.current = "parse"]
            BY <1>2, <4>9, OpenWrites
          <6> QED BY <6>1
        <5> QED BY <5>1, <5>2, <5>3, <5>4
      <4> QED BY <2>6, <4>1, <4>4, <4>5, <4>6, <4>7, <4>8, <4>9 DEF TaskStep
    <3> QED BY <2>s, <3>1, <3>2
  <2>7. \A u \in Task : TaskKept(u)'
    BY <1>2, <2>1, <2>2, <2>3, <2>4, <2>5, <2>6 DEF Next
  <2> QED BY <2>g, <2>7 DEF KeptInv
<1> QED BY <1>1, <1>2

\* The steps of a task in a stage of its run.
StageStep(t) ==
    \/ \E s \in Stages : Begin(t, s)
    \/ Parse(t) \/ Screen(t) \/ Expand(t) \/ Classify(t) \/ Flag(t) \/ Embed(t) \/ Done(t)
    \/ Finish(t)

\* A step leaves a run in peace unless it deletes the run, takes it up or is in one of its stages.
LEMMA Frame ==
  ASSUME TypeOK, KeptInv, [Next]_vars, NEW r \in RunId
  PROVE  /\ shared \subseteq shared'
         /\ \/ Calm(r)
            \/ \E d \in Document : Delete(d) /\ run[r].doc = d
            \/ \E t \in Task : Open(t) /\ task'[t].run = r
            \/ \E t \in Task : StageStep(t) /\ task[t].run = r
<1>1. CASE UNCHANGED vars
  BY <1>1, TaskSame, RunSame DEF vars, Calm
<1>2. CASE Next
  <2>1. CASE (\A o \in RunId : Calm(o)) /\ shared' = shared
    BY <2>1
  <2>2. ASSUME NEW d \in Document, Delete(d)
        PROVE  shared' = shared /\ (run[r].doc # d => Calm(r))
    BY <2>2, DeleteCalm DEF Delete
  <2>3. ASSUME NEW t \in Task, Open(t)
        PROVE  shared \subseteq shared' /\ (task'[t].run # r => Calm(r))
    BY <2>3, OpenCalm DEF Open
  <2>4. ASSUME NEW t \in Task, StageStep(t)
        PROVE  shared' = shared /\ (task[t].run # r => Calm(r))
    <3>1. shared' = shared
      BY <2>4 DEF StageStep, Begin, Parse, Screen, Expand, Classify, Flag, Embed, Done, Finish
    <3> QED BY <2>4, <3>1, WorkCalm DEF StageStep
  <2>5. ASSUME NEW o \in RunId, Resume(o) \/ Age(o)
        PROVE  (\A u \in RunId : Calm(u)) /\ shared' = shared
    <3>1. CASE Document # {}
      BY <2>5, <3>1, RequestCalm
    <3>2. CASE Document = {}
      BY <2>5, <3>2 DEF Resume, Age, KeptInv, RunKept
    <3> QED BY <3>1, <3>2
  <2>6. \/ (\A o \in RunId : Calm(o)) /\ shared' = shared
        \/ \E d \in Document : Delete(d)
        \/ \E t \in Task : Open(t) \/ StageStep(t)
    BY <1>2, <2>5, RequestCalm, SystemCalm, OutsideCalm DEF Next, TaskStep, StageStep
  <2> QED BY <2>1, <2>2, <2>3, <2>4, <2>6
<1> QED BY <1>1, <1>2

\* A step in a stage is about the run of its task.
LEMMA StageOwn ==
  ASSUME TypeOK, KeptInv, NEW t \in Task, StageStep(t)
  PROVE  OwnRun(t, task[t].run)
BY BeginWrites, ParseWrites, ScreenWrites, ExpandWrites, ClassifyWrites, FlagWrites, EmbedWrites,
   DoneWrites, FinishWrites DEF StageStep

\* In a stage the status stays, until the run is complete and its task free.
LEMMA StageStatus ==
  ASSUME TypeOK, KeptInv, NEW t \in Task, StageStep(t), NEW r \in RunId, r = task[t].run
  PROVE  run'[r].status = run[r].status \/ (run'[r].status = "complete" /\ task'[t] = Idle /\ Finish(t))
<1>1. run[r] \in Runs
  BY DEF TypeOK
<1>2. CASE \E s \in Stages : Begin(t, s)
  BY <1>2, BeginWrites
<1>3. CASE Parse(t) \/ Expand(t) \/ Classify(t) \/ Embed(t)
  BY <1>3 DEF Parse, Expand, Classify, Embed
<1>4. CASE Screen(t)
  <2>1. PICK fallback : run'[r] = [run[r] EXCEPT !.eligible = @ /\ ~fallback]
    BY <1>4, ScreenWrites
  <2> QED BY <1>1, <2>1 DEF Runs
<1>5. CASE Flag(t)
  <2>1. run'[r] = [run[r] EXCEPT !.eligible = @ /\ ~task[t].fallback]
    BY <1>5, FlagWrites
  <2> QED BY <1>1, <2>1 DEF Runs
<1>6. CASE Done(t) \/ Finish(t)
  BY <1>6, DoneWrites, FinishWrites
<1> QED BY <1>2, <1>3, <1>4, <1>5, <1>6 DEF StageStep

----------------------------------------------------------------------------
(* A run has one task.                                                     *)

\* Every step leaves a run one task, unless it opens the run again.
LEMMA AloneStep == TypeOK /\ KeptInv /\ AloneInv /\ [Next]_vars => AloneInv'
<1> SUFFICES ASSUME TypeOK, KeptInv, AloneInv, [Next]_vars, NEW r \in RunId, r \notin shared'
             PROVE  Alone(r)'
  BY DEF AloneInv, RunId
<1>1. r \notin shared /\ Alone(r)
  BY Frame DEF AloneInv
<1>2. CASE Calm(r)
  BY <1>1, <1>2 DEF Calm, RunCalm, TaskCalm, Alone
<1>3. ASSUME NEW d \in Document, Delete(d), run[r].doc = d PROVE Alone(r)'
  <2>1. run'[r] = [NoRun EXCEPT !.status = "gone"] /\ task' = task
    BY <1>3 DEF Delete
  <2>2. run'[r].status = "gone"
    BY <2>1 DEF NoRun
  <2> QED BY <1>1, <2>1, <2>2 DEF Alone, Works, Opened
<1>4. ASSUME NEW t \in Task, Open(t), task'[t].run = r PROVE Alone(r)'
  <2>1. task'[t] # Idle
    BY <1>4 DEF Idle, RunId, NoRunId
  <2>2. /\ \A u \in Task : u # t => task'[u] = task[u]
        /\ \/ /\ run'[r] = [run[r] EXCEPT !.status = "running"]
              /\ shared' = shared \cup {o \in {r} : HeldRun(o) \/ run[o].status = "complete"}
           \/ /\ run[r].status = "none"
              /\ run'[r] = [NoRun EXCEPT !.doc = task[t].doc, !.status = "running", !.current = "parse"]
    BY <1>4, <2>1, OpenWrites
  <2>3. run'[r].status = "running"
    BY <2>2 DEF NoRun, TypeOK, Runs
  <2>4. \A u \in Task : ~Works(u, r)
    <3>1. CASE run[r].status = "none"
      BY <3>1 DEF KeptInv, TaskKept, Works
    <3>2. CASE ~HeldRun(r)
      BY <3>2 DEF HeldRun, Works
    <3> QED BY <2>2, <3>1, <3>2
  <2>5. \A u \in Task : Works(u, r)' => u = t
    BY <2>2, <2>4 DEF Works, Opened
  <2> QED BY <2>3, <2>5 DEF Alone
<1>5. ASSUME NEW t \in Task, StageStep(t), task[t].run = r PROVE Alone(r)'
  <2>1. OwnRun(t, r)
    BY <1>5, StageOwn
  <2>2. \A u \in Task : Works(u, r)' => Works(u, r)
    BY <2>1 DEF OwnRun, Works, Opened
  <2>3. \A u \in Task : Works(u, r)' => u = t
    BY <1>1, <2>1, <2>2 DEF OwnRun, Alone
  <2>4. run'[r].status # "complete" \/ ~Works(t, r)'
    <3>1. run[r].status # "complete"
      BY <1>1, <2>1 DEF OwnRun, Alone
    <3>2. task'[t] = Idle => ~Works(t, r)'
      BY DEF Idle, Works, Opened
    <3> QED BY <1>5, <3>1, <3>2, StageStatus
  <2> QED BY <2>3, <2>4 DEF Alone
<1> QED BY <1>2, <1>3, <1>4, <1>5, Frame

----------------------------------------------------------------------------
(* The rows of a run.                                                      *)

\* The order of the stages.
LEMMA StageOrder ==
  /\ \A s \in Stages : s \in From[s] /\ From[s] \subseteq Stages
  /\ From["none"] = {} /\ From["parse"] = Stages
  /\ "parse" \notin From["screen"]
  /\ "parse" \notin From["expand"] /\ "screen" \notin From["expand"]
  /\ "expand" \notin From["classify"] /\ "expand" \notin From["embed"]
  /\ \A s \in Stages, u \in Stages : u \notin From[StageAfter[s]] => u \notin From[s] \/ u = s
<1>1. ASSUME NEW s \in Stages PROVE s \in From[s] /\ From[s] \subseteq Stages
  BY DEF Stages, From
<1>2. ASSUME NEW s \in Stages, NEW u \in Stages, u \notin From[StageAfter[s]], u \in From[s] PROVE u = s
  BY <1>2 DEF Stages, From, StageAfter
<1> QED BY <1>1, <1>2 DEF Stages, From

\* A step that leaves a run in peace leaves its rows as its stages and tasks say.
LEMMA WholeCalm ==
  ASSUME TypeOK, KeptInv, NEW r \in RunId, Calm(r), Whole(r)
  PROVE  Whole(r)'
<1> SUFFICES ASSUME scars'[r] = {}, run'[r].status \in {"running", "complete", "failed"}
             PROVE  RowsKept(r)' /\ \A t \in Task : Works(t, r)' => StageKept(t, r)'
  BY DEF Whole
<1>1. run[r].status \in {"running", "complete", "failed"} /\ scars[r] = {} /\ rows'[r] = rows[r]
  BY DEF Calm, RunCalm, TypeOK, Runs
<1>2. RowsKept(r) /\ \A t \in Task : Works(t, r) => StageKept(t, r)
  BY <1>1 DEF Whole
<1>3. \A s \in Stages : (run'[r].stage[s] = "complete") <=> (run[r].stage[s] = "complete")
  BY DEF Calm, RunCalm
<1>4. ASSUME NEW t \in Task
      PROVE  (Works(t, r) /\ Torn(t)) <=> (Works(t, r) /\ Torn(t))'
             /\ (Works(t, r) /\ Torn(t) => task'[t] = task[t])
  <2>1. TaskCalm(t, r)
    BY DEF Calm
  <2> QED BY <1>1, <2>1 DEF TaskCalm, Torn, Works, Opened, Guarded
<1>5. \A s \in Stages : Stored(r, s)' <=> Stored(r, s)
  BY <1>3, <1>4 DEF Stored
<1>6. RowsKept(r)'
  <2>1. \A s \in Stages : \A n : Count(r, s, n)' = Count(r, s, n)
    BY <1>5 DEF Count
  <2>2. {"parse", "screen", "expand", "classify", "embed"} \subseteq Stages
    BY DEF Stages
  <2>3. run'[r].status = "complete" => run[r].status = "complete"
    BY DEF Calm, RunCalm
  <2>4. run[r].keyless => run'[r].keyless
    BY DEF Calm, RunCalm
  <2> QED BY <1>1, <1>2, <1>3, <1>5, <2>1, <2>2, <2>3, <2>4 DEF RowsKept
<1>7. ASSUME NEW t \in Task, Works(t, r)' PROVE StageKept(t, r)'
  <2>1. TaskCalm(t, r)
    BY DEF Calm
  <2>2. Works(t, r) /\ StageKept(t, r)
    BY <1>2, <1>7, <2>1 DEF TaskCalm
  <2>3. CASE task'[t] = task[t]
    <3>1. task[t].pc \in {"work", "flag", "done"} => task[t].stage \in Stages
      BY DEF KeptInv, TaskKept
    <3> QED BY <1>1, <1>3, <2>2, <2>3, <3>1 DEF StageKept
  <2>4. CASE task'[t].pc = "look" /\ task'[t].stage = "parse"
    BY <2>4, StageOrder DEF StageKept
  <2>5. CASE task'[t].pc \notin Guarded
    BY <2>5 DEF StageKept, Guarded
  <2> QED BY <1>7, <2>1, <2>3, <2>4, <2>5 DEF TaskCalm
<1> QED BY <1>6, <1>7

\* A task in a stage of a run it has for itself, whose rows are as they should be.
InStage(t, r) == OwnRun(t, r) /\ Alone(r) /\ RowsKept(r) /\ StageKept(t, r)

\* Only that task counts.
LEMMA StoredOwn ==
  ASSUME NEW t \in Task, NEW r \in RunId, OwnRun(t, r), Alone(r), NEW s \in Stages
  PROVE  /\ Stored(r, s) <=> (run[r].stage[s] = "complete" \/ (Torn(t) /\ task[t].stage = s))
         /\ Stored(r, s)' <=> (\/ run'[r].stage[s] = "complete"
                               \/ task'[t].pc \in {"flag", "done"} /\ task'[t].run = r /\ task'[t].stage = s)
<1>1. \A u \in Task : Works(u, r) => u = t
  BY DEF OwnRun, Alone
<1>2. \A u \in Task : Works(u, r)' => u = t
  BY <1>1 DEF OwnRun, Works, Opened
<1> QED BY <1>1, <1>2 DEF OwnRun, Stored, Torn, Works, Opened

\* The rows are kept if each kind is.
LEMMA RowsOwn ==
  ASSUME NEW t \in Task, NEW r \in RunId, OwnRun(t, r), Alone(r),
         rows'[r].lines = IF Stored(r, "parse")' THEN 1 ELSE 0,
         rows'[r].screened = IF Stored(r, "screen")' THEN 1 ELSE 0,
         rows'[r].units = IF Stored(r, "expand")' THEN Excerpts ELSE 0,
         rows'[r].classified = IF Stored(r, "classify")' THEN Excerpts ELSE 0,
         rows'[r].embedded <= Excerpts, Stored(r, "embed")' => rows'[r].embedded = Excerpts \/ run'[r].keyless,
         run'[r].status = "complete" => \A s \in Stages : run'[r].stage[s] = "complete",
         task'[t].run = r => StageKept(t, r)'
  PROVE  Whole(r)'
<1>1. \A u \in Task : Works(u, r)' => u = t
  BY DEF OwnRun, Alone, Works, Opened
<1>2. \A u \in Task : Works(u, r)' => StageKept(u, r)'
  BY <1>1 DEF Works
<1> QED BY <1>2 DEF Whole, RowsKept, Count

\* Beginning a stage keeps the rows as its stages say.
LEMMA BeginWhole ==
  ASSUME TypeOK, KeptInv, NEW t \in Task, NEW r \in RunId, InStage(t, r), NEW s \in Stages, Begin(t, s)
  PROVE  Whole(r)'
<1> DEFINE n == task'[t]
<1>1. /\ r = task[t].run /\ task[t].pc = "look" /\ s \in ToDo(t)
      /\ run'[r].status = run[r].status /\ run'[r].stage[s] = "running"
      /\ \A u \in Stages \ {s} : run'[r].stage[u] = run[r].stage[u]
      /\ rows'[r] = rows[r] /\ n.run = r /\ n.stage = s
      /\ n.from = IF s = "classify" THEN rows[r].classified
                  ELSE IF s = "embed" THEN rows[r].embedded ELSE 0
      /\ n.upto = IF s \in {"classify", "embed"} THEN rows[r].units ELSE 0
      /\ n.pc \in {"work", "done"}
      /\ n.pc = "done" => s = "embed" /\ (n.from = n.upto \/ run'[r].keyless)
      /\ n.pc = "work" /\ s = "embed" => n.from # n.upto
  BY BeginWrites DEF InStage, OwnRun
<1>2. /\ OwnRun(t, r) /\ Alone(r) /\ RowsKept(r) /\ StageKept(t, r)
      /\ run[r].status # "complete"
  BY DEF InStage, OwnRun, Alone
<1>3. run[r].stage[s] # "complete" /\ \A u \in Stages \ From[s] : run[r].stage[u] = "complete"
  BY <1>1, <1>2 DEF ToDo, StageKept, Guarded
<1>4. \A u \in Stages : Stored(r, u) <=> run[r].stage[u] = "complete"
  BY <1>1, <1>2, StoredOwn DEF Torn
<1> HIDE DEF n
<1>5. \A u \in Stages : Stored(r, u)' <=> (Stored(r, u) \/ (n.pc = "done" /\ u = s))
  <2>1. \A u \in Stages : Stored(r, u)' <=> (run'[r].stage[u] = "complete" \/ (n.pc = "done" /\ s = u))
    BY <1>1, <1>2, StoredOwn DEF n
  <2> QED BY <1>1, <1>3, <1>4, <2>1
<1>6. /\ rows[r].lines = IF Stored(r, "parse") THEN 1 ELSE 0
      /\ rows[r].screened = IF Stored(r, "screen") THEN 1 ELSE 0
      /\ rows[r].units = IF Stored(r, "expand") THEN Excerpts ELSE 0
      /\ rows[r].classified = IF Stored(r, "classify") THEN Excerpts ELSE 0
      /\ rows[r].embedded <= Excerpts /\ (Stored(r, "embed") => rows[r].embedded = Excerpts \/ run[r].keyless)
  BY <1>2 DEF RowsKept, Count
<1>7. s \in {"classify", "embed"} => rows[r].units = Excerpts
  <2>1. s \in {"classify", "embed"} => run[r].stage["expand"] = "complete"
    BY <1>3, StageOrder DEF Stages
  <2> QED BY <1>4, <1>6, <2>1 DEF Stages
<1>8. s = "classify" => rows[r].classified = 0
  BY <1>3, <1>4, <1>6 DEF Stages
<1>9. s = "embed" /\ n.pc = "work" => rows[r].embedded < Excerpts
  <2>1. rows[r] \in Counts
    BY DEF TypeOK
  <2>2. rows[r].embedded \in Nat
    BY <2>1 DEF Counts
  <2> QED BY <1>1, <1>6, <1>7, <2>2, SizeAssumption
<1>10. StageKept(t, r)'
  <2>1. \A u \in Stages \ From[s] : run'[r].stage[u] = "complete"
    BY <1>1, <1>3, StageOrder
  <2> QED BY <1>1, <1>7, <1>8, <1>9, <2>1 DEF n, StageKept
<1>11. n.pc = "done" => s = "embed" /\ (rows[r].embedded = Excerpts \/ run'[r].keyless)
  BY <1>1, <1>7
<1>12. run[r].keyless => run'[r].keyless
  BY <1>2 DEF OwnRun
<1> QED BY <1>1, <1>2, <1>5, <1>6, <1>10, <1>11, <1>12, RowsOwn DEF Stages

\* What InStage says of the numbers.
LEMMA InNumbers ==
  ASSUME TypeOK, KeptInv, NEW t \in Task, NEW r \in RunId, InStage(t, r)
  PROVE  /\ r = task[t].run /\ OwnRun(t, r) /\ Alone(r) /\ StageKept(t, r)
         /\ run[r] \in Runs /\ rows[r] \in Counts /\ task[t] \in Tasks /\ Excerpts \in Nat
         /\ run[r].status # "complete"
         /\ rows[r].lines = IF Stored(r, "parse") THEN 1 ELSE 0
         /\ rows[r].screened = IF Stored(r, "screen") THEN 1 ELSE 0
         /\ rows[r].units = IF Stored(r, "expand") THEN Excerpts ELSE 0
         /\ rows[r].classified = IF Stored(r, "classify") THEN Excerpts ELSE 0
         /\ rows[r].embedded <= Excerpts /\ (Stored(r, "embed") => rows[r].embedded = Excerpts \/ run[r].keyless)
<1>1. OwnRun(t, r) /\ Alone(r) /\ StageKept(t, r) /\ RowsKept(r)
  BY DEF InStage
<1> QED BY <1>1, SizeAssumption DEF OwnRun, Alone, RowsKept, Count, TypeOK

\* A task that stores the rows of its stage and goes on to mark it.
LEMMA StoreWhole ==
  ASSUME TypeOK, KeptInv, NEW t \in Task, NEW r \in RunId, InStage(t, r), NEW s \in Stages,
         task[t].pc = "work", task[t].stage = s,
         run'[r].stage = run[r].stage, run'[r].status = run[r].status,
         task'[t].pc \in {"flag", "done"}, task'[t].stage = s, task'[t].run = r,
         rows'[r].lines = IF s = "parse" THEN 1 ELSE rows[r].lines,
         rows'[r].screened = IF s = "screen" THEN 1 ELSE rows[r].screened,
         rows'[r].units = IF s = "expand" THEN Excerpts ELSE rows[r].units,
         rows'[r].classified = IF s = "classify" THEN Excerpts ELSE rows[r].classified,
         rows'[r].embedded = IF s = "embed" THEN Excerpts ELSE rows[r].embedded
  PROVE  Whole(r)'
<1>1. /\ OwnRun(t, r) /\ Alone(r) /\ StageKept(t, r) /\ Excerpts \in Nat
      /\ run[r].status # "complete"
      /\ rows[r].lines = IF Stored(r, "parse") THEN 1 ELSE 0
      /\ rows[r].screened = IF Stored(r, "screen") THEN 1 ELSE 0
      /\ rows[r].units = IF Stored(r, "expand") THEN Excerpts ELSE 0
      /\ rows[r].classified = IF Stored(r, "classify") THEN Excerpts ELSE 0
      /\ rows[r].embedded <= Excerpts /\ (Stored(r, "embed") => rows[r].embedded = Excerpts \/ run[r].keyless)
  BY InNumbers
<1>2. \A u \in Stages : Stored(r, u) <=> run[r].stage[u] = "complete"
  BY <1>1, StoredOwn DEF Torn
<1>3. \A u \in Stages : Stored(r, u)' <=> (Stored(r, u) \/ u = s)
  <2>1. \A u \in Stages : Stored(r, u)' <=> (run'[r].stage[u] = "complete" \/ s = u)
    BY <1>1, StoredOwn
  <2> QED BY <1>2, <2>1
<1>4. StageKept(t, r)'
  BY <1>1 DEF StageKept, Guarded
<1>5. {"parse", "screen", "expand", "classify", "embed"} \subseteq Stages
  BY DEF Stages
<1>6. rows'[r].embedded <= Excerpts /\ (run[r].keyless => run'[r].keyless)
  BY <1>1 DEF OwnRun
<1> QED BY <1>1, <1>3, <1>4, <1>5, <1>6, RowsOwn

\* So does doing it, for the stages that store their rows in one commit ...
LEMMA WorkWhole ==
  ASSUME TypeOK, KeptInv, NEW t \in Task, NEW r \in RunId, InStage(t, r),
         Parse(t) \/ Screen(t) \/ Expand(t) \/ Classify(t)
  PROVE  Whole(r)'
<1>1. /\ r = task[t].run /\ OwnRun(t, r) /\ Alone(r) /\ StageKept(t, r)
      /\ run[r] \in Runs /\ rows[r] \in Counts /\ task[t] \in Tasks /\ Excerpts \in Nat
      /\ rows[r].lines = IF Stored(r, "parse") THEN 1 ELSE 0
      /\ rows[r].screened = IF Stored(r, "screen") THEN 1 ELSE 0
      /\ rows[r].units = IF Stored(r, "expand") THEN Excerpts ELSE 0
      /\ rows[r].classified = IF Stored(r, "classify") THEN Excerpts ELSE 0
  BY InNumbers
<1>2. /\ rows[r].lines \in Nat /\ rows[r].screened \in Nat /\ rows[r].units \in Nat
      /\ rows[r].classified \in Nat /\ rows[r].embedded \in Nat
  BY <1>1 DEF Counts
<1>3. ASSUME task[t].pc = "work", NEW u \in Stages
      PROVE  Stored(r, u) <=> run[r].stage[u] = "complete"
  BY <1>1, <1>3, StoredOwn DEF Torn
<1>4. {"parse", "screen", "expand", "classify", "embed"} \subseteq Stages
  BY DEF Stages
<1>5. ASSUME task[t].pc = "work", NEW s \in Stages, task[t].stage = s
      PROVE  /\ run[r].stage[s] # "complete"
             /\ \A u \in Stages : u \notin From[s] => run[r].stage[u] = "complete"
  BY <1>1, <1>5 DEF StageKept, Guarded
<1>6. CASE Parse(t)
  <2>1. /\ task[t].pc = "work" /\ task[t].stage = "parse" /\ run' = run
        /\ rows'[r] = [rows[r] EXCEPT !.lines = @ + 1]
        /\ task'[t] = [task[t] EXCEPT !.pc = "done"]
    BY <1>1, <1>6, ParseWrites DEF At
  <2>2. rows[r].lines = 0
    BY <1>1, <1>3, <1>4, <1>5, <2>1
  <2>3. /\ rows'[r].lines = 1 /\ rows'[r].screened = rows[r].screened /\ rows'[r].units = rows[r].units
        /\ rows'[r].classified = rows[r].classified /\ rows'[r].embedded = rows[r].embedded
    BY <1>1, <2>1, <2>2 DEF Counts
  <2>4. task'[t].pc = "done" /\ task'[t].stage = "parse" /\ task'[t].run = r
    BY <1>1, <2>1 DEF Tasks
  <2> QED BY <1>4, <2>1, <2>3, <2>4, StoreWhole
<1>7. CASE Screen(t)
  <2>1. PICK fallback :
          /\ At(t, "screen")
          /\ run'[r] = [run[r] EXCEPT !.eligible = @ /\ ~fallback]
          /\ rows'[r] = [rows[r] EXCEPT !.screened = rows[r].lines,
                                        !.standin = @ \cup IF fallback THEN {"screen"} ELSE {}]
          /\ task'[t] = [task[t] EXCEPT !.pc = "done"]
    BY <1>1, <1>7, ScreenWrites
  <2>2. task[t].pc = "work" /\ task[t].stage = "screen"
    BY <2>1 DEF At
  <2>3. rows[r].lines = 1
    BY <1>1, <1>3, <1>4, <1>5, <2>2, StageOrder
  <2>4. /\ rows'[r].screened = 1 /\ rows'[r].lines = rows[r].lines /\ rows'[r].units = rows[r].units
        /\ rows'[r].classified = rows[r].classified /\ rows'[r].embedded = rows[r].embedded
    BY <1>1, <2>1, <2>3 DEF Counts
  <2>5. task'[t].pc = "done" /\ task'[t].stage = "screen" /\ task'[t].run = r
    BY <1>1, <2>1, <2>2 DEF Tasks
  <2>6. run'[r].stage = run[r].stage /\ run'[r].status = run[r].status
    BY <1>1, <2>1 DEF Runs
  <2> QED BY <1>4, <2>2, <2>4, <2>5, <2>6, StoreWhole
<1>8. CASE Expand(t)
  <2>1. /\ task[t].pc = "work" /\ task[t].stage = "expand" /\ run' = run
        /\ rows'[r] = [rows[r] EXCEPT !.units = @ + Excerpts * rows[r].screened]
        /\ task'[t] = [task[t] EXCEPT !.pc = "done"]
    BY <1>1, <1>8, ExpandWrites DEF At
  <2>2. rows[r].units = 0 /\ rows[r].screened = 1
    BY <1>1, <1>3, <1>4, <1>5, <2>1, StageOrder
  <2>3. 0 + Excerpts * 1 = Excerpts
    BY <1>1
  <2>4. rows'[r].units = rows[r].units + Excerpts * rows[r].screened
        /\ rows'[r].lines = rows[r].lines /\ rows'[r].screened = rows[r].screened
        /\ rows'[r].classified = rows[r].classified /\ rows'[r].embedded = rows[r].embedded
    BY <1>1, <2>1 DEF Counts
  <2>5. rows'[r].units = Excerpts
    BY <2>2, <2>3, <2>4
  <2>6. task'[t].pc = "done" /\ task'[t].stage = "expand" /\ task'[t].run = r
    BY <1>1, <2>1 DEF Tasks
  <2> QED BY <1>4, <2>1, <2>4, <2>5, <2>6, StoreWhole
<1>9. CASE Classify(t)
  <2>1. PICK how :
          /\ At(t, "classify") /\ run' = run
          /\ rows'[r] = [rows[r] EXCEPT !.classified = @ + (task[t].upto - task[t].from),
                                        !.standin = @ \cup ({how} \ {"clean"})]
          /\ task'[t] = [task[t] EXCEPT !.pc = "flag", !.fallback = (how = "classify")]
    BY <1>1, <1>9, ClassifyWrites
  <2>2. task[t].pc = "work" /\ task[t].stage = "classify"
    BY <2>1 DEF At
  <2>3. task[t].from = 0 /\ task[t].upto = Excerpts
    BY <1>1, <2>2 DEF StageKept
  <2>4. rows[r].classified = 0
    BY <1>1, <1>3, <1>4, <1>5, <2>2
  <2>5. rows'[r].classified = rows[r].classified + (task[t].upto - task[t].from)
        /\ rows'[r].lines = rows[r].lines /\ rows'[r].screened = rows[r].screened
        /\ rows'[r].units = rows[r].units /\ rows'[r].embedded = rows[r].embedded
    BY <1>1, <2>1 DEF Counts
  <2>6. rows'[r].classified = Excerpts
    BY <1>1, <2>3, <2>4, <2>5
  <2>7. task'[t].pc = "flag" /\ task'[t].stage = "classify" /\ task'[t].run = r
    BY <1>1, <2>1, <2>2 DEF Tasks
  <2> QED BY <1>4, <2>1, <2>2, <2>5, <2>6, <2>7, StoreWhole
<1> QED BY <1>6, <1>7, <1>8, <1>9

\* ... and for the one that stores them batch by batch.
LEMMA EmbedWhole ==
  ASSUME TypeOK, KeptInv, NEW t \in Task, NEW r \in RunId, InStage(t, r), Embed(t)
  PROVE  Whole(r)'
<1>1. /\ r = task[t].run /\ OwnRun(t, r) /\ Alone(r) /\ StageKept(t, r)
      /\ run[r] \in Runs /\ rows[r] \in Counts /\ task[t] \in Tasks /\ Excerpts \in Nat
      /\ run[r].status # "complete"
      /\ rows[r].lines = IF Stored(r, "parse") THEN 1 ELSE 0
      /\ rows[r].screened = IF Stored(r, "screen") THEN 1 ELSE 0
      /\ rows[r].units = IF Stored(r, "expand") THEN Excerpts ELSE 0
      /\ rows[r].classified = IF Stored(r, "classify") THEN Excerpts ELSE 0
      /\ rows[r].embedded <= Excerpts
  BY InNumbers
<1> DEFINE pc == IF task[t].from + 1 = task[t].upto THEN "done" ELSE "work"
<1>2. /\ At(t, "embed") /\ run' = run
      /\ rows'[r] = [rows[r] EXCEPT !.embedded = @ + 1]
      /\ task'[t] = [task[t] EXCEPT !.from = @ + 1, !.pc = pc]
  BY <1>1, EmbedWrites
<1>3. task[t].pc = "work" /\ task[t].stage = "embed"
  BY <1>2 DEF At
<1>4. /\ task[t].from = rows[r].embedded /\ task[t].upto = Excerpts /\ task[t].from < Excerpts
      /\ \A u \in Stages \ From["embed"] : run[r].stage[u] = "complete"
      /\ run[r].stage["embed"] # "complete"
  BY <1>1, <1>3 DEF StageKept, Guarded
<1>5. /\ rows'[r].embedded = rows[r].embedded + 1
      /\ rows'[r].lines = rows[r].lines /\ rows'[r].screened = rows[r].screened
      /\ rows'[r].units = rows[r].units /\ rows'[r].classified = rows[r].classified
  BY <1>1, <1>2 DEF Counts
<1>6. pc \in {"done", "work"} /\ (pc = "done" <=> task[t].from + 1 = task[t].upto)
  OBVIOUS
<1> HIDE DEF pc
<1>7. /\ task'[t].pc = pc /\ task'[t].stage = "embed" /\ task'[t].run = r
      /\ task'[t].from = task[t].from + 1 /\ task'[t].upto = task[t].upto
  BY <1>1, <1>2, <1>3 DEF Tasks
<1>8. task[t].from \in Nat /\ rows[r].embedded \in Nat
  BY <1>1 DEF Tasks, Counts
<1>9. CASE pc = "done"
  <2>1. rows'[r].embedded = Excerpts /\ "embed" \in Stages
    BY <1>4, <1>5, <1>6, <1>9 DEF Stages
  <2>2. run'[r].stage = run[r].stage /\ run'[r].status = run[r].status
    BY <1>2
  <2> QED BY <1>3, <1>5, <1>7, <1>9, <2>1, <2>2, StoreWhole
<1>10. CASE pc = "work"
  <2>1. rows'[r].embedded < Excerpts
    BY <1>1, <1>4, <1>5, <1>6, <1>8, <1>10
  <2>2. \A u \in Stages : Stored(r, u)' <=> Stored(r, u)
    BY <1>1, <1>2, <1>3, <1>7, <1>10, StoredOwn DEF Torn
  <2>3. ~Stored(r, "embed")
    BY <1>1, <1>3, <1>4, StoredOwn DEF Torn, Stages
  <2>4. StageKept(t, r)'
    BY <1>2, <1>4, <1>5, <1>7, <1>10, <2>1 DEF StageKept
  <2>5. {"parse", "screen", "expand", "classify", "embed"} \subseteq Stages
    BY DEF Stages
  <2>6. rows'[r].embedded <= Excerpts
    BY <1>4, <1>5, <1>8, <1>1
  <2> QED BY <1>1, <1>2, <1>5, <2>2, <2>3, <2>4, <2>5, <2>6, RowsOwn
<1> QED BY <1>6, <1>9, <1>10

\* The steps that store nothing.
LEMMA MarkWhole ==
  ASSUME TypeOK, KeptInv, NEW t \in Task, NEW r \in RunId, InStage(t, r), Flag(t) \/ Done(t) \/ Finish(t)
  PROVE  Whole(r)'
<1>1. /\ r = task[t].run /\ OwnRun(t, r) /\ Alone(r) /\ StageKept(t, r)
      /\ run[r] \in Runs /\ rows[r] \in Counts /\ task[t] \in Tasks /\ Excerpts \in Nat
      /\ run[r].status # "complete"
      /\ rows[r].lines = IF Stored(r, "parse") THEN 1 ELSE 0
      /\ rows[r].screened = IF Stored(r, "screen") THEN 1 ELSE 0
      /\ rows[r].units = IF Stored(r, "expand") THEN Excerpts ELSE 0
      /\ rows[r].classified = IF Stored(r, "classify") THEN Excerpts ELSE 0
      /\ rows[r].embedded <= Excerpts /\ (Stored(r, "embed") => rows[r].embedded = Excerpts \/ run[r].keyless)
  BY InNumbers
<1>2. rows' = rows
  BY FlagWrites, DoneWrites, FinishWrites
<1>3. {"parse", "screen", "expand", "classify", "embed"} \subseteq Stages
  BY DEF Stages
<1>4. ASSUME \A u \in Stages : Stored(r, u)' <=> Stored(r, u),
             task'[t].run = r => StageKept(t, r)',
             run'[r].status = "complete" => \A s \in Stages : run'[r].stage[s] = "complete"
      PROVE  Whole(r)'
  <2>1. run[r].keyless => run'[r].keyless
    BY <1>1 DEF OwnRun
  <2> QED BY <1>1, <1>2, <1>3, <1>4, <2>1, RowsOwn
<1>5. CASE Flag(t)
  <2>1. /\ task[t].pc = "flag" /\ run'[r] = [run[r] EXCEPT !.eligible = @ /\ ~task[t].fallback]
        /\ task'[t] = [task[t] EXCEPT !.pc = "done", !.fallback = FALSE]
    BY <1>1, <1>5, FlagWrites
  <2>2. run'[r].stage = run[r].stage /\ run'[r].status = run[r].status
    BY <1>1, <2>1 DEF Runs
  <2>3. task'[t].pc = "done" /\ task'[t].run = r /\ task'[t].stage = task[t].stage
    BY <1>1, <2>1 DEF Tasks
  <2>4. \A u \in Stages : Stored(r, u)' <=> Stored(r, u)
    <3>1. ASSUME NEW u \in Stages
          PROVE  Stored(r, u)' <=> (run[r].stage[u] = "complete" \/ task[t].stage = u)
      BY <1>1, <2>2, <2>3, StoredOwn
    <3>2. ASSUME NEW u \in Stages
          PROVE  Stored(r, u) <=> (run[r].stage[u] = "complete" \/ task[t].stage = u)
      BY <1>1, <2>1, StoredOwn DEF Torn
    <3> QED BY <3>1, <3>2
  <2>5. StageKept(t, r)'
    BY <1>1, <2>1, <2>2, <2>3 DEF StageKept, Guarded
  <2> QED BY <1>1, <1>4, <2>2, <2>4, <2>5
<1>6. CASE Done(t)
  <2> DEFINE s == task[t].stage
  <2>1. /\ task[t].pc = "done" /\ s \in Stages /\ run'[r].status = run[r].status
        /\ run'[r].stage[s] = "complete"
        /\ \A u \in Stages \ {s} : run'[r].stage[u] = run[r].stage[u]
        /\ task'[t] = [task[t] EXCEPT !.stage = StageAfter[s], !.from = 0, !.upto = 0, !.pc = "look"]
    BY <1>1, <1>6, DoneWrites
  <2> HIDE DEF s
  <2>2. task'[t].pc = "look" /\ task'[t].stage = StageAfter[s]
    BY <1>1, <2>1 DEF Tasks
  <2>3. \A u \in Stages : Stored(r, u)' <=> Stored(r, u)
    <3>1. ASSUME NEW u \in Stages PROVE Stored(r, u)' <=> (run'[r].stage[u] = "complete")
      BY <1>1, <2>2, StoredOwn
    <3>2. ASSUME NEW u \in Stages PROVE Stored(r, u) <=> (run[r].stage[u] = "complete" \/ s = u)
      BY <1>1, <2>1, StoredOwn DEF Torn, s
    <3> QED BY <2>1, <3>1, <3>2
  <2>4. StageKept(t, r)'
    <3>1. ASSUME NEW u \in Stages \ From[StageAfter[s]] PROVE run'[r].stage[u] = "complete"
      <4>1. u \notin From[s] \/ u = s
        BY <2>1, StageOrder
      <4>2. u \notin From[s] => run[r].stage[u] = "complete"
        BY <1>1, <2>1 DEF StageKept, Guarded, s
      <4> QED BY <2>1, <4>1, <4>2
    <3> QED BY <2>2, <3>1 DEF StageKept
  <2> QED BY <1>1, <1>4, <2>1, <2>3, <2>4
<1>7. CASE Finish(t)
  <2>1. /\ task[t].pc = "look" /\ ToDo(t) = {} /\ run'[r].status = "complete"
        /\ run'[r].stage = run[r].stage /\ task'[t] = Idle
    BY <1>1, <1>7, FinishWrites
  <2>2. task'[t].run # r /\ task'[t].pc = "free"
    BY <2>1 DEF Idle, RunId, NoRunId
  <2>3. \A u \in Stages : Stored(r, u)' <=> Stored(r, u)
    BY <1>1, <2>1, <2>2, StoredOwn DEF Torn
  <2>4. \A u \in Stages : run[r].stage[u] = "complete"
    <3> DEFINE s == task[t].stage
    <3>1. s \in Stages \cup {"none"}
      BY <1>1 DEF Tasks
    <3>2. \A u \in Stages \ From[s] : run[r].stage[u] = "complete"
      BY <1>1, <2>1 DEF StageKept, Guarded
    <3>3. ASSUME NEW u \in From[s], \A v \in From[s] \ From[u] : run[r].stage[v] = "complete"
          PROVE  run[r].stage[u] = "complete"
      BY <1>1, <2>1, <3>3 DEF ToDo
    <3> HIDE DEF s
    <3> QED BY <3>1, <3>2, <3>3 DEF Stages, From
  <2> QED BY <1>1, <1>4, <2>1, <2>2, <2>3, <2>4
<1> QED BY <1>5, <1>6, <1>7

\* A task that takes up a run finds what it left, and no other task at it.
LEMMA OpenWhole ==
  ASSUME TypeOK, KeptInv, NEW t \in Task, NEW r \in RunId, Open(t), task'[t].run = r,
         r \notin shared', Whole(r)
  PROVE  Whole(r)'
<1>t. task[t] \in Tasks /\ run[r] \in Runs /\ TaskKept(t) /\ RunKept(r)
  BY DEF TypeOK, KeptInv
<1>1. task'[t] # Idle
  BY DEF Idle, RunId, NoRunId
<1>2. /\ \A u \in Task : u # t => task'[u] = task[u]
      /\ rows' = rows /\ scars' = scars
      /\ \/ /\ task[t].run = r /\ Present(task[t].doc)
            /\ task'[t] = [task[t] EXCEPT !.pc = "mark"]
            /\ run'[r] = [run[r] EXCEPT !.status = "running"]
            /\ shared' = shared \cup {o \in {r} : HeldRun(o) \/ run[o].status = "complete"}
         \/ /\ run[r].status = "none"
            /\ task'[t] = [task[t] EXCEPT !.run = r, !.pc = "mark"]
            /\ run'[r] = [NoRun EXCEPT !.doc = task[t].doc, !.status = "running", !.current = "parse"]
  BY <1>1, OpenWrites
<1>3. task'[t].pc = "mark"
  BY <1>t, <1>2 DEF Tasks
<1>4. \A u \in Task : ~Works(u, r)
  <2>1. CASE run[r].status = "none"
    BY <2>1 DEF KeptInv, TaskKept, Works
  <2>2. CASE ~HeldRun(r)
    BY <2>2 DEF HeldRun, Works
  <2> QED BY <1>2, <2>1, <2>2
<1>5. \A u \in Task : Works(u, r)' => u = t
  BY <1>2, <1>4 DEF Works, Opened
<1>6. \A u \in Task : Works(u, r)' => StageKept(u, r)'
  BY <1>3, <1>5 DEF StageKept, Guarded
<1>7. run'[r].status = "running"
  BY <1>t, <1>2 DEF Runs, NoRun
<1>8. \A s \in Stages : Stored(r, s) <=> run[r].stage[s] = "complete"
  BY <1>4 DEF Stored
<1>9. \A s \in Stages : Stored(r, s)' <=> run'[r].stage[s] = "complete"
  BY <1>3, <1>5 DEF Stored, Torn
<1>10. {"parse", "screen", "expand", "classify", "embed"} \subseteq Stages
  BY DEF Stages
<1>11. ASSUME scars[r] = {} PROVE RowsKept(r)'
  <2>1. CASE /\ task[t].run = r /\ Present(task[t].doc)
             /\ run'[r] = [run[r] EXCEPT !.status = "running"]
             /\ run[r].status # "none"
             /\ run[r].status # "complete"
    <3>1. run[r].status \in {"running", "failed"}
      BY <1>t, <2>1 DEF Runs, TaskKept, Present, NoRunId, RunId
    <3>2. RowsKept(r)
      BY <1>11, <3>1 DEF Whole
    <3>3. run'[r].stage = run[r].stage /\ run'[r].keyless = run[r].keyless
      BY <1>t, <2>1 DEF Runs
    <3>4. \A s \in Stages : \A n : Count(r, s, n)' = Count(r, s, n)
      BY <1>8, <1>9, <3>3 DEF Count
    <3> QED BY <1>2, <1>7, <1>8, <1>9, <1>10, <3>2, <3>3, <3>4 DEF RowsKept
  <2>2. CASE /\ run[r].status = "none"
             /\ run'[r] = [NoRun EXCEPT !.doc = task[t].doc, !.status = "running", !.current = "parse"]
    <3>1. \A s \in Stages : ~Stored(r, s)'
      BY <1>9, <2>2 DEF NoRun
    <3>2. rows'[r] = NoRows
      BY <1>t, <1>2, <2>2 DEF RunKept
    <3> QED BY <1>7, <1>10, <3>1, <3>2, SizeAssumption DEF RowsKept, Count, NoRows
  <2>3. task[t].run = r => run[r].status # "none"
    BY <1>t DEF TaskKept, RunId, NoRunId
  <2> QED BY <1>2, <2>1, <2>2, <2>3
<1> QED BY <1>2, <1>6, <1>11 DEF Whole

\* Every step keeps the rows of a run as its stages say.
LEMMA WholeStep == TypeOK /\ KeptInv /\ AloneInv /\ WholeInv /\ [Next]_vars => WholeInv'
<1> SUFFICES ASSUME TypeOK, KeptInv, AloneInv, WholeInv, [Next]_vars, NEW r \in RunId, r \notin shared'
             PROVE  Whole(r)'
  BY DEF WholeInv, RunId
<1>1. r \notin shared /\ Alone(r) /\ Whole(r)
  BY Frame DEF AloneInv, WholeInv
<1>2. CASE Calm(r)
  BY <1>1, <1>2, WholeCalm
<1>3. ASSUME NEW d \in Document, Delete(d), run[r].doc = d PROVE Whole(r)'
  <2>1. run'[r] = [NoRun EXCEPT !.status = "gone"]
    BY <1>3 DEF Delete
  <2>2. run'[r].status = "gone"
    BY <2>1 DEF NoRun
  <2> QED BY <2>2 DEF Whole
<1>4. ASSUME NEW t \in Task, Open(t), task'[t].run = r PROVE Whole(r)'
  BY <1>1, <1>4, OpenWhole
<1>5. ASSUME NEW t \in Task, StageStep(t), task[t].run = r PROVE Whole(r)'
  <2>1. OwnRun(t, r)
    BY <1>5, StageOwn
  <2>2. CASE scars'[r] # {}
    BY <2>2 DEF Whole
  <2>3. CASE scars'[r] = {}
    <3>1. scars[r] = {} /\ run[r].status \in {"running", "complete", "failed"} /\ Works(t, r)
      BY <2>1, <2>3 DEF OwnRun, TypeOK, Runs
    <3>2. InStage(t, r)
      BY <1>1, <2>1, <3>1 DEF InStage, Whole
    <3> QED BY <1>5, <3>2, BeginWhole, WorkWhole, EmbedWhole, MarkWhole DEF StageStep
  <2> QED BY <2>2, <2>3
<1> QED BY <1>2, <1>3, <1>4, <1>5, Frame

----------------------------------------------------------------------------
(* What stands in for an answer is marked.                                 *)

\* Every step keeps what stands in for an answer marked, or about to be.
LEMMA MarkedStep == TypeOK /\ KeptInv /\ MarkedInv /\ [Next]_vars => MarkedInv'
<1> SUFFICES ASSUME TypeOK, KeptInv, MarkedInv, [Next]_vars, NEW r \in RunId,
                    "classify" \notin scars'[r], run'[r].eligible
             PROVE  /\ "screen" \notin rows'[r].standin
                    /\ "classify" \in rows'[r].standin =>
                         \E t \in Task : Works(t, r)' /\ task'[t].pc = "flag" /\ task'[t].fallback
  BY DEF MarkedInv, Marked, RunId
<1>1. Marked(r) /\ run[r] \in Runs /\ rows[r] \in Counts /\ RunKept(r)
  BY DEF MarkedInv, TypeOK, KeptInv
<1>2. CASE Calm(r)
  <2>1. rows'[r] = rows[r] /\ run[r].eligible /\ "classify" \notin scars[r]
    BY <1>2 DEF Calm, RunCalm
  <2>2. CASE "classify" \notin rows[r].standin
    BY <1>1, <2>1, <2>2 DEF Marked
  <2>3. CASE "classify" \in rows[r].standin
    <3>1. run[r].status # "gone"
      BY <1>1, <2>3 DEF RunKept, NoRows
    <3>2. PICK t \in Task : Works(t, r) /\ task[t].pc = "flag" /\ task[t].fallback
      BY <1>1, <2>1, <2>3 DEF Marked
    <3>3. task[t].stage = "classify" /\ TaskCalm(t, r)
      BY <1>2, <3>2 DEF KeptInv, TaskKept, Calm
    <3>4. task'[t] = task[t]
      BY <3>1, <3>2, <3>3 DEF TaskCalm, Torn
    <3> QED BY <1>1, <2>1, <3>2, <3>4 DEF Marked, Works, Opened
  <2> QED BY <2>2, <2>3
<1>3. ASSUME NEW d \in Document, Delete(d), run[r].doc = d PROVE rows'[r].standin = {}
  <2>1. rows'[r] = NoRows
    BY <1>3 DEF Delete
  <2> QED BY <2>1 DEF NoRows
<1>4. ASSUME NEW t \in Task, \A u \in Task : u # t => task'[u] = task[u],
             task[t].pc # "flag" \/ ~task[t].fallback,
             scars' = scars, run[r].eligible,
             "screen" \notin rows[r].standin => "screen" \notin rows'[r].standin,
             "classify" \notin rows'[r].standin \/ "classify" \in rows[r].standin
      PROVE  /\ "screen" \notin rows'[r].standin
             /\ "classify" \in rows'[r].standin =>
                  \E u \in Task : Works(u, r)' /\ task'[u].pc = "flag" /\ task'[u].fallback
  <2>1. "screen" \notin rows[r].standin
    BY <1>1, <1>4 DEF Marked
  <2>2. ASSUME "classify" \in rows[r].standin
        PROVE  \E u \in Task : Works(u, r)' /\ task'[u].pc = "flag" /\ task'[u].fallback
    <3>1. PICK u \in Task : Works(u, r) /\ task[u].pc = "flag" /\ task[u].fallback
      BY <1>1, <1>4, <2>2 DEF Marked
    <3>2. task'[u] = task[u]
      BY <1>4, <3>1
    <3> QED BY <3>1, <3>2 DEF Works, Opened
  <2> QED BY <1>4, <2>1, <2>2
<1>5. ASSUME NEW t \in Task, Open(t), task'[t].run = r
      PROVE  /\ "screen" \notin rows'[r].standin
             /\ "classify" \in rows'[r].standin =>
                  \E u \in Task : Works(u, r)' /\ task'[u].pc = "flag" /\ task'[u].fallback
  <2>1. task'[t] # Idle
    BY <1>5 DEF Idle, RunId, NoRunId
  <2>2. /\ \A u \in Task : u # t => task'[u] = task[u]
        /\ rows' = rows /\ scars' = scars
        /\ \/ run'[r] = [run[r] EXCEPT !.status = "running"]
           \/ run[r].status = "none"
    BY <1>5, <2>1, OpenWrites
  <2>3. task[t].pc = "open"
    BY <1>5 DEF Open
  <2>4. CASE run[r].status = "none"
    BY <1>1, <2>2, <2>4 DEF RunKept, NoRows
  <2>5. CASE run'[r] = [run[r] EXCEPT !.status = "running"]
    <3>1. run[r].eligible
      BY <1>1, <2>5 DEF Runs
    <3> QED BY <1>4, <2>2, <2>3, <3>1
  <2> QED BY <2>2, <2>4, <2>5
<1>6. ASSUME NEW t \in Task, StageStep(t), task[t].run = r
      PROVE  /\ "screen" \notin rows'[r].standin
             /\ "classify" \in rows'[r].standin =>
                  \E u \in Task : Works(u, r)' /\ task'[u].pc = "flag" /\ task'[u].fallback
  <2>t. task[t] \in Tasks
    BY DEF TypeOK
  <2>1. OwnRun(t, r)
    BY <1>6, StageOwn
  <2>2. scars' = scars /\ Works(t, r) /\ \A u \in Task : u # t => task'[u] = task[u]
    BY <2>1 DEF OwnRun
  <2>3. CASE \E s \in Stages : Begin(t, s)
    <3>1. task[t].pc = "look" /\ run'[r].eligible = run[r].eligible /\ rows' = rows
      BY <1>6, <2>3, BeginWrites
    <3> QED BY <1>4, <2>2, <3>1
  <2>4. CASE Parse(t) \/ Expand(t) \/ Embed(t)
    <3>1. task[t].pc = "work" /\ run' = run
      BY <2>4, ParseWrites, ExpandWrites, EmbedWrites DEF At
    <3>2. rows'[r].standin = rows[r].standin
      <4>1. CASE Parse(t)
        <5>1. rows'[r] = [rows[r] EXCEPT !.lines = @ + 1]
          BY <1>6, <4>1, ParseWrites
        <5> QED BY <1>1, <5>1 DEF Counts
      <4>2. CASE Expand(t)
        <5>1. rows'[r] = [rows[r] EXCEPT !.units = @ + Excerpts * rows[r].screened]
          BY <1>6, <4>2, ExpandWrites
        <5> QED BY <1>1, <5>1 DEF Counts
      <4>3. CASE Embed(t)
        <5>1. rows'[r] = [rows[r] EXCEPT !.embedded = @ + 1]
          BY <1>6, <4>3, EmbedWrites
        <5> QED BY <1>1, <5>1 DEF Counts
      <4> QED BY <2>4, <4>1, <4>2, <4>3
    <3> QED BY <1>4, <2>2, <3>1, <3>2
  <2>5. CASE Screen(t)
    <3>1. PICK fallback \in BOOLEAN :
            /\ At(t, "screen")
            /\ run'[r] = [run[r] EXCEPT !.eligible = @ /\ ~fallback]
            /\ rows'[r] = [rows[r] EXCEPT !.screened = rows[r].lines,
                                          !.standin = @ \cup IF fallback THEN {"screen"} ELSE {}]
      BY <1>6, <2>5, ScreenWrites
    <3>2. run'[r].eligible = (run[r].eligible /\ ~fallback)
      BY <1>1, <3>1 DEF Runs
    <3>3. ~fallback /\ run[r].eligible
      BY <3>2
    <3>4. rows'[r].standin = rows[r].standin
      BY <1>1, <3>1, <3>3 DEF Counts
    <3> QED BY <1>4, <2>2, <3>1, <3>3, <3>4 DEF At
  <2>6. CASE Classify(t)
    <3>1. PICK how \in {"clean", "classify", "error"} :
            /\ At(t, "classify") /\ run' = run
            /\ rows'[r] = [rows[r] EXCEPT !.classified = @ + (task[t].upto - task[t].from),
                                          !.standin = @ \cup ({how} \ {"clean"})]
            /\ task'[t] = [task[t] EXCEPT !.pc = "flag", !.fallback = (how = "classify")]
      BY <1>6, <2>6, ClassifyWrites
    <3>2. rows'[r].standin = rows[r].standin \cup ({how} \ {"clean"})
      BY <1>1, <3>1 DEF Counts
    <3>3. CASE how = "classify"
      <4>1. task'[t].pc = "flag" /\ task'[t].fallback /\ task'[t].run = task[t].run
        <5>1. task'[t].pc = "flag" /\ task'[t].run = task[t].run /\ task'[t].fallback = (how = "classify")
          BY <2>t, <3>1 DEF Tasks
        <5> QED BY <3>3, <5>1
      <4>2. Works(t, r)'
        BY <2>2, <4>1 DEF Works, Opened
      <4>3. "screen" \notin rows[r].standin
        BY <1>1, <2>2, <3>1 DEF Marked
      <4> QED BY <3>2, <3>3, <4>1, <4>2, <4>3
    <3>4. CASE how # "classify"
      BY <1>4, <2>2, <3>1, <3>2, <3>4 DEF At
    <3> QED BY <3>3, <3>4
  <2>7. CASE Flag(t)
    <3>1. /\ rows' = rows
          /\ run'[r] = [run[r] EXCEPT !.eligible = @ /\ ~task[t].fallback]
      BY <1>6, <2>7, FlagWrites
    <3>2. run'[r].eligible = (run[r].eligible /\ ~task[t].fallback)
      BY <1>1, <3>1 DEF Runs
    <3> QED BY <1>4, <2>2, <3>1, <3>2
  <2>8. CASE Done(t) \/ Finish(t)
    <3>1. task[t].pc # "flag" /\ run'[r].eligible = run[r].eligible /\ rows' = rows
      BY <1>6, <2>8, DoneWrites, FinishWrites
    <3> QED BY <1>4, <2>2, <3>1
  <2> QED BY <1>6, <2>3, <2>4, <2>5, <2>6, <2>7, <2>8 DEF StageStep
<1> QED BY <1>2, <1>3, <1>5, <1>6, Frame

----------------------------------------------------------------------------
(* The scope.                                                              *)

\* No task works on a run that is complete and was not opened again.
LEMMA CompleteRests ==
  ASSUME TypeOK, KeptInv, AloneInv, [Next]_vars, NEW r \in RunId, r \notin shared', run[r].status = "complete"
  PROVE  /\ r \notin shared /\ \A t \in Task : ~Works(t, r)
         /\ Calm(r) \/ \E d \in Document : Delete(d) /\ run[r].doc = d
<1>1. r \notin shared
  BY Frame
<1>2. \A t \in Task : ~Works(t, r)
  BY <1>1 DEF AloneInv, Alone
<1>3. ASSUME NEW t \in Task, Open(t), task'[t].run = r PROVE FALSE
  <2>1. task'[t] # Idle
    BY <1>3 DEF Idle, RunId, NoRunId
  <2>2. \/ shared' = shared \cup {o \in {r} : HeldRun(o) \/ run[o].status = "complete"}
        \/ run[r].status = "none"
    BY <1>3, <2>1, OpenWrites
  <2> QED BY <2>2
<1>4. ASSUME NEW t \in Task, StageStep(t), task[t].run = r PROVE FALSE
  BY <1>2, <1>4, StageOwn DEF OwnRun
<1> QED BY <1>1, <1>2, <1>3, <1>4, Frame

\* A run in the scope stays as it was sealed.
LEMMA InScopeStays ==
  ASSUME TypeOK, KeptInv, AloneInv, [Next]_vars, sealed' = sealed,
         NEW d \in Document, NEW r \in RunId, InScope(d, r)
  PROVE  InScope(d, r)'
<1>1. CASE r \in shared'
  BY <1>1 DEF InScope
<1>2. CASE r \notin shared' /\ run[r].status = "gone" /\ parse[d] = "gone"
  <2>1. CASE UNCHANGED vars
    BY <1>2, <2>1 DEF vars, InScope
  <2>2. CASE Next
    <3>1. run'[r].status = "gone"
      BY <1>2, <2>2, GrowStep DEF RunGrows
    <3>2. parse'[d] = "gone"
      BY <1>2, <2>2, GoneStays
    <3> QED BY <3>1, <3>2 DEF InScope
  <2> QED BY <2>1, <2>2
<1>3. CASE /\ r \notin shared' /\ run[r].status = "complete" /\ run[r].doc = d
           /\ [run |-> r, rows |-> rows[r]] \in sealed
  <2>1. CASE Calm(r)
    <3>1. run'[r].status = "complete" /\ run'[r].doc = d /\ rows'[r] = rows[r]
      BY <1>3, <2>1, CompleteRests DEF Calm, RunCalm
    <3> QED BY <1>3, <3>1 DEF InScope
  <2>2. ASSUME NEW e \in Document, Delete(e), run[r].doc = e PROVE InScope(d, r)'
    <3>1. run'[r] = [NoRun EXCEPT !.status = "gone"] /\ parse'[d] = "gone"
      BY <1>3, <2>2 DEF Delete, TypeOK
    <3>2. run'[r].status = "gone"
      BY <3>1 DEF NoRun
    <3> QED BY <3>1, <3>2 DEF InScope
  <2> QED BY <1>3, <2>1, <2>2, CompleteRests
<1>4. r \notin shared' => r \notin shared
  BY Frame
<1> QED BY <1>1, <1>2, <1>3, <1>4 DEF InScope

\* A run in the scope gets no row that stands in for an answer.
LEMMA CleanStays ==
  ASSUME TypeOK, KeptInv, AloneInv, [Next]_vars,
         NEW d \in Document, NEW r \in RunId, InScope(d, r), Clean(r)
  PROVE  Clean(r)'
<1>1. shared \subseteq shared'
  BY Frame
<1>2. CASE Calm(r)
  BY <1>1, <1>2 DEF Calm, RunCalm, Clean
<1>3. ASSUME NEW e \in Document, Delete(e), run[r].doc = e PROVE Clean(r)'
  <2>1. rows'[r] = NoRows
    BY <1>3 DEF Delete
  <2> QED BY <2>1 DEF NoRows, Clean
<1>4. ASSUME NEW t \in Task, Open(t), task'[t].run = r PROVE Clean(r)'
  BY <1>1, <1>4, OpenWrites DEF Clean
<1>5. ASSUME NEW t \in Task, StageStep(t), task[t].run = r PROVE Clean(r)'
  <2>1. CASE r \in shared'
    BY <2>1 DEF Clean
  <2>2. CASE r \notin shared'
    <3>1. OwnRun(t, r)
      BY <1>5, StageOwn
    <3>2. run[r].status = "complete"
      BY <1>1, <2>2, <3>1 DEF InScope, OwnRun
    <3> QED BY <2>2, <3>1, <3>2, CompleteRests DEF OwnRun
  <2> QED BY <2>1, <2>2
<1> QED BY <1>2, <1>3, <1>4, <1>5, Frame

\* Every step keeps the scope as it was sealed.
LEMMA ScopeStep ==
  TypeOK /\ KeptInv /\ AloneInv /\ MarkedInv /\ ScopeInv /\ [Next]_vars => ScopeInv'
<1> SUFFICES ASSUME TypeOK, KeptInv, AloneInv, MarkedInv, ScopeInv, [Next]_vars
             PROVE  ScopeInv'
  OBVIOUS
<1>t. \A e \in plan.scope : e[1] \in Document /\ e[2] \in RunId
  BY DEF TypeOK
<1>1. CASE UNCHANGED <<plan, sealed>>
  <2>1. ASSUME plan.state \in {"read", "frozen", "executing"}, NEW e \in plan.scope
        PROVE  InScope(e[1], e[2])'
    <3>1. PICK d \in Document, r \in RunId : d = e[1] /\ r = e[2]
      BY <1>t, <2>1
    <3>2. InScope(d, r)
      BY <2>1, <3>1 DEF ScopeInv
    <3>3. InScope(d, r)'
      BY <1>1, <3>2, InScopeStays
    <3> QED BY <3>1, <3>3
  <2>2. ASSUME plan.state = "executing", NEW e \in plan.scope
        PROVE  Clean(e[2])'
    <3>1. PICK d \in Document, r \in RunId : d = e[1] /\ r = e[2]
      BY <1>t, <2>2
    <3>2. InScope(d, r) /\ Clean(r)
      BY <2>2, <3>1 DEF ScopeInv
    <3>3. Clean(r)'
      BY <3>2, CleanStays
    <3> QED BY <3>1, <3>3
  <2> QED BY <1>1, <2>1, <2>2 DEF ScopeInv
<1>2. CASE FreezeRead
  <2>1. /\ plan' = [state |-> "read", scope |-> Entries]
        /\ sealed' = {[run |-> e[2], rows |-> rows[e[2]]] : e \in Entries}
        /\ run' = run /\ rows' = rows
    BY <1>2 DEF FreezeRead
  <2>2. ASSUME NEW e \in Entries PROVE InScope(e[1], e[2])'
    <3>1. run[e[2]].doc = e[1] /\ run[e[2]].status = "complete"
      BY DEF Entries, LatestOf
    <3> QED BY <2>1, <3>1 DEF InScope
  <2> QED BY <2>1, <2>2 DEF ScopeInv
<1>3. CASE FreezeCommit
  <2>1. plan.state = "read" /\ run' = run /\ rows' = rows /\ shared' = shared /\ parse' = parse
    BY <1>3 DEF FreezeCommit
  <2>2. CASE plan' = [state |-> "none", scope |-> {}]
    BY <2>2 DEF ScopeInv
  <2>3. CASE plan' = [plan EXCEPT !.state = "frozen"] /\ sealed' = sealed
    <3>1. plan'.state = "frozen" /\ plan'.scope = plan.scope
      BY <2>3 DEF TypeOK
    <3>2. \A e \in plan.scope : InScope(e[1], e[2])
      BY <2>1 DEF ScopeInv
    <3> QED BY <2>1, <2>3, <3>1, <3>2 DEF ScopeInv, InScope
  <2> QED BY <1>3, <2>2, <2>3 DEF FreezeCommit
<1>4. CASE Execute
  <2>1. /\ plan.state = "frozen" /\ run' = run /\ rows' = rows /\ shared' = shared /\ parse' = parse
        /\ sealed' = sealed /\ scars' = scars
    BY <1>4 DEF Execute
  <2>2. /\ plan'.scope = plan.scope
        /\ plan'.state = IF \A e \in plan.scope : Valid(e) THEN "executing" ELSE "blocked"
    BY <1>4 DEF Execute, TypeOK
  <2>3. \A e \in plan.scope : InScope(e[1], e[2])
    BY <2>1 DEF ScopeInv
  <2>4. ASSUME NEW e \in plan.scope, Valid(e) PROVE Clean(e[2])
    <3>1. PICK r \in RunId : r = e[2]
      BY <1>t
    <3>2. CASE r \notin shared /\ "classify" \notin scars[r]
      <4>1. run[r].status = "complete" /\ run[r].eligible
        BY <2>4, <3>1 DEF Valid, Ready
      <4>2. \A t \in Task : ~Works(t, r)
        BY <3>2, <4>1 DEF AloneInv, Alone
      <4>3. "screen" \notin rows[r].standin /\ "classify" \notin rows[r].standin
        BY <3>2, <4>1, <4>2 DEF MarkedInv, Marked
      <4>4. rows[r].standin \subseteq {"screen", "classify", "error"}
        BY DEF TypeOK, Counts
      <4> QED BY <3>1, <4>3, <4>4 DEF Clean
    <3> QED BY <3>1, <3>2 DEF Clean
  <2> QED BY <2>1, <2>2, <2>3, <2>4 DEF ScopeInv, InScope, Clean
<1>5. UNCHANGED <<plan, sealed>> \/ FreezeRead \/ FreezeCommit \/ Execute
  <2>1. ASSUME NEW t \in Task, TaskStep(t) \/ Raise(t) PROVE UNCHANGED <<plan, sealed>>
    BY <2>1 DEF TaskStep, Categorize, Assign, Enter, Open, Mark, Begin, Parse, Screen, Expand, Classify,
       Flag, Embed, Clash, Done, Vanish, Finish, Fail, Rescue, Raise
  <2> QED BY <2>1 DEF Next, vars, Upload, Requeue, Recategorize, Delete, Claim, Resume, Age, Recover,
       WorkerDies, WebDies, Die
<1> QED BY <1>1, <1>2, <1>3, <1>4, <1>5

----------------------------------------------------------------------------
(* Indexed documents and documents in work.                                *)

\* Only the last step of a run makes its document indexed.
LEMMA IndexedByFinish ==
  ASSUME TypeOK, [Next]_vars, NEW d \in Document, parse'[d] = "indexed", parse[d] # "indexed"
  PROVE  \E t \in Task : Finish(t) /\ task[t].doc = d
<1>1. ASSUME NEW docs, docs[d] # "indexed", Sweep(docs) PROVE FALSE
  BY <1>1 DEF Sweep
<1>2. ASSUME Recover PROVE FALSE
  <2> DEFINE docs == [e \in Document |-> IF parse[e] = "processing" THEN "pending" ELSE parse[e]]
  <2>1. Sweep(docs) /\ docs[d] # "indexed"
    BY <1>2 DEF Recover
  <2> HIDE DEF docs
  <2> QED BY <1>1, <2>1
<1>3. ASSUME NEW t \in Task, TaskStep(t) \/ Raise(t), ~Finish(t) PROVE FALSE
  <2>1. CASE Enter(t)
    BY <1>1, <2>1 DEF Enter
  <2>2. CASE ~Enter(t)
    BY <1>3, <2>2 DEF TypeOK, TaskStep, Categorize, Assign, Open, Mark, Begin, Parse, Screen, Expand,
       Classify, Flag, Embed, Clash, Done, Vanish, Fail, Rescue, Raise
  <2> QED BY <2>1, <2>2
<1>4. ASSUME NEW t \in Task, Finish(t) PROVE task[t].doc = d
  BY <1>4 DEF Finish, TypeOK
<1>5. ASSUME NEW e \in Document,
             \/ \E where \in {"project", "library", "procedure"} : Upload(e, where)
             \/ \E how \in {"reparse", "reprocess", "reindex"} : Requeue(e, how)
             \/ Recategorize(e) \/ Delete(e)
             \/ \E t \in Slot : Claim(t, e)
      PROVE  FALSE
  BY <1>5 DEF Upload, Requeue, Recategorize, Delete, Claim, TypeOK
<1>6. ASSUME \/ \E r \in RunId : Resume(r) \/ Age(r)
             \/ WorkerDies \/ WebDies \/ FreezeRead \/ FreezeCommit \/ Execute
             \/ UNCHANGED vars
      PROVE  FALSE
  BY <1>6 DEF Resume, Age, WorkerDies, WebDies, Die, FreezeRead, FreezeCommit, Execute, vars
<1> QED BY <1>2, <1>3, <1>4, <1>5, <1>6 DEF Next

\* Every step keeps a complete run under each indexed document.
LEMMA IndexedStep ==
  TypeOK /\ KeptInv /\ AloneInv /\ IndexedHasCompleteRun /\ [Next]_vars => IndexedHasCompleteRun'
<1> SUFFICES ASSUME TypeOK, KeptInv, AloneInv, IndexedHasCompleteRun, [Next]_vars,
                    NEW d \in Document, parse'[d] = "indexed"
             PROVE  \E r \in RunId : run'[r].doc = d /\ (run'[r].status = "complete" \/ r \in shared')
  BY DEF IndexedHasCompleteRun
<1>d. d # NoDocument
  BY DocumentAssumption DEF NoDocument
<1>1. CASE parse[d] # "indexed"
  <2>1. PICK t \in Task : Finish(t) /\ task[t].doc = d
    BY <1>1, IndexedByFinish
  <2> DEFINE r == task[t].run
  <2>2. OwnRun(t, r) /\ run'[r].status = "complete"
    BY <2>1, FinishWrites
  <2>3. run[r].doc = d
    BY <2>1, <2>2 DEF OwnRun, KeptInv, TaskKept, RunId, NoRunId
  <2> QED BY <2>2, <2>3 DEF OwnRun
<1>2. CASE parse[d] = "indexed"
  <2>1. PICK r \in RunId : run[r].doc = d /\ (run[r].status = "complete" \/ r \in shared)
    BY <1>2 DEF IndexedHasCompleteRun
  <2>2. run[r].status \notin {"none", "gone"}
    BY <1>d, <2>1 DEF KeptInv, RunKept
  <2>3. run'[r].doc = d
    <3>1. CASE UNCHANGED vars
      BY <2>1, <3>1 DEF vars
    <3>2. CASE Next
      <4>1. RunGrows(r)
        BY <3>2, GrowStep
      <4> QED BY <2>1, <2>2, <4>1 DEF RunGrows
    <3> QED BY <3>1, <3>2
  <2>4. CASE r \in shared'
    BY <2>3, <2>4
  <2>5. CASE r \notin shared'
    <3>1. run[r].status = "complete"
      BY <2>1, <2>5, Frame
    <3>2. ASSUME NEW e \in Document, Delete(e), run[r].doc = e PROVE FALSE
      <4>1. parse'[d] = "gone"
        BY <2>1, <3>2 DEF Delete, TypeOK
      <4> QED BY <4>1
    <3>3. Calm(r) /\ \A t \in Task : ~Works(t, r)
      BY <2>5, <3>1, <3>2, CompleteRests
    <3>4. run'[r].status = "complete"
      BY <3>1, <3>3 DEF Calm, RunCalm
    <3> QED BY <2>3, <3>4
  <2> QED BY <2>4, <2>5
<1> QED BY <1>1, <1>2

\* A document stays held while the task that works for it keeps it.
LEMMA HeldOn ==
  ASSUME TypeOK, NEW d \in Document, Held(d),
         \A t \in Task : task'[t] = task[t] \/ task'[t].doc = task[t].doc \/ task[t].doc # d
  PROVE  Held(d)'
BY DEF Held

\* A task that starts takes no document away from another.
LEMMA SpawnHeld ==
  ASSUME TypeOK, NEW d \in Document, Held(d), NEW e, NEW pc, NEW wrapped, NEW r, Spawn(e, pc, wrapped, r)
  PROVE  Held(d)'
<1>1. PICK t \in WebTask : /\ task[t] = Idle
                           /\ task' = [task EXCEPT ![t] = [Idle EXCEPT !.pc = pc, !.doc = e, !.run = r,
                                                                       !.wrapped = wrapped]]
  BY DEF Spawn
<1>2. Idle.doc # d
  BY DocumentAssumption DEF Idle, NoDocument
<1>3. \A u \in Task : u # t => task'[u] = task[u]
  BY <1>1 DEF TypeOK
<1> QED BY <1>1, <1>2, <1>3, HeldOn

\* The requests.
LEMMA RequestHeld ==
  ASSUME TypeOK, ProcessingHasTask, NEW e \in Document, worker' = "up",
         NEW d \in Document, parse'[d] = "processing",
         \/ \E where \in {"project", "library", "procedure"} : Upload(e, where)
         \/ \E how \in {"reparse", "reprocess", "reindex"} : Requeue(e, how)
         \/ Recategorize(e) \/ Delete(e)
         \/ \E t \in Slot : Claim(t, e)
         \/ \E r \in RunId : Resume(r) \/ Age(r)
  PROVE  Held(d)' \/ d \in stranded'
<1>1. CASE \E t \in Slot : Claim(t, e)
  <2>1. PICK t \in Slot : Claim(t, e)
    BY <1>1
  <2>2. task[t] = Idle /\ task' = [task EXCEPT ![t] = [Idle EXCEPT !.pc = "enter", !.doc = e, !.wrapped = TRUE]]
        /\ worker' = worker /\ stranded' = stranded /\ t \in Task
    BY <2>1 DEF Claim, Task
  <2>3. CASE d = e
    <3>1. task'[t].doc = e
      BY <2>2 DEF Idle, TypeOK
    <3> QED BY <2>2, <2>3, <3>1 DEF Held
  <2>4. CASE d # e
    <3>1. parse[d] = "processing"
      BY <2>1, <2>4 DEF Claim, TypeOK
    <3>2. Held(d) \/ d \in stranded
      BY <2>2, <3>1 DEF ProcessingHasTask
    <3>3. Idle.doc # d
      BY DocumentAssumption DEF Idle, NoDocument
    <3>4. \A u \in Task : u # t => task'[u] = task[u]
      BY <2>2 DEF TypeOK
    <3> QED BY <2>2, <3>2, <3>3, <3>4, HeldOn
  <2> QED BY <2>3, <2>4
<1>2. CASE ~\E t \in Slot : Claim(t, e)
  <2>1. /\ parse[d] = "processing" /\ worker' = worker
        /\ d \in stranded => d \in stranded'
    BY <1>2 DEF TypeOK, Upload, Requeue, Recategorize, Delete, Resume, Age
  <2>2. Held(d) \/ d \in stranded
    BY <2>1 DEF ProcessingHasTask
  <2>3. task' = task \/ \E f, pc, wrapped, r : Spawn(f, pc, wrapped, r)
    BY <1>2 DEF Upload, Requeue, Recategorize, Delete, Resume, Age
  <2>4. Held(d) => Held(d)'
    <3>1. ASSUME Held(d), task' = task PROVE Held(d)'
      BY <3>1 DEF Held
    <3> QED BY <2>3, <3>1, SpawnHeld
  <2> QED BY <2>1, <2>2, <2>4
<1> QED BY <1>1, <1>2

\* The tasks.
LEMMA TaskHeld ==
  ASSUME TypeOK, KeptInv, ProcessingHasTask, worker' = "up", NEW t \in Task, TaskStep(t) \/ Raise(t),
         NEW d \in Document, parse'[d] = "processing"
  PROVE  Held(d)' \/ d \in stranded'
<1> DEFINE e == task[t].doc
<1>t. task[t] \in Tasks
  BY DEF TypeOK
<1>w. worker' = worker
  BY DEF TaskStep, Categorize, Assign, Enter, Open, Mark, Begin, Parse, Screen, Expand, Classify, Flag,
     Embed, Clash, Done, Vanish, Finish, Fail, Rescue, Raise
<1>0. ASSUME parse[d] = "processing", stranded \subseteq stranded' \cup {e},
             \A u \in Task : u # t => task'[u] = task[u],
             task'[t].doc = e \/ (e # d) \/ d \in stranded',
             e = d => Held(d)' \/ d \in stranded'
      PROVE  Held(d)' \/ d \in stranded'
  <2>1. Held(d) \/ d \in stranded
    BY <1>0, <1>w DEF ProcessingHasTask
  <2> QED BY <1>0, <2>1, HeldOn
<1>1. ASSUME task'[t].doc = e, \A u \in Task : u # t => task'[u] = task[u],
             parse[d] = "processing" \/ d = e, stranded \subseteq stranded' \cup {e}
      PROVE  Held(d)' \/ d \in stranded'
  <2>1. e = d => Held(d)'
    BY <1>1 DEF Held
  <2> QED BY <1>0, <1>1, <2>1
<1>2. ASSUME NEW pc, Goto(t, pc) PROVE task'[t].doc = e /\ \A u \in Task : u # t => task'[u] = task[u]
  BY <1>t, <1>2 DEF Goto, TypeOK, Tasks
<1>3. ASSUME NEW pc, Handle(t, pc) PROVE task'[t].doc = e /\ \A u \in Task : u # t => task'[u] = task[u]
  BY <1>t, <1>3 DEF Handle, TypeOK, Idle
<1>4. ASSUME End(t) PROVE \A u \in Task : u # t => task'[u] = task[u]
  BY <1>4 DEF End, TypeOK
<1>5. CASE Categorize(t)
  <2>1. CASE Present(e)
    <3>1. Goto(t, "assign") /\ stranded' = stranded /\ parse[d] = "processing"
      BY <1>5, <2>1 DEF Categorize, TypeOK
    <3> QED BY <1>1, <1>2, <3>1
  <2>2. CASE ~Present(e)
    <3>1. End(t) /\ stranded' = stranded /\ parse[d] = "processing" /\ e # d
      BY <1>5, <2>2 DEF Categorize, Present
    <3> QED BY <1>0, <1>4, <3>1
  <2> QED BY <2>1, <2>2
<1>6. CASE Assign(t)
  <2>1. Goto(t, "enter") /\ stranded' = stranded \ {e} /\ (parse[d] = "processing" \/ d = e)
    BY <1>6 DEF Assign, TypeOK
  <2> QED BY <1>1, <1>2, <2>1
<1>7. CASE Enter(t)
  <2>1. Goto(t, "open") /\ stranded' = stranded /\ parse[d] = "processing"
    BY <1>7 DEF Enter, Sweep
  <2> QED BY <1>1, <1>2, <2>1
<1>8. CASE Open(t)
  <2>1. parse' = parse /\ stranded' = stranded /\ \A u \in Task : u # t => task'[u] = task[u]
    BY <1>8, OpenWrites DEF Open
  <2>2. CASE ~Present(e)
    <3>1. e # d
      BY <2>1, <2>2 DEF Present
    <3> QED BY <1>0, <2>1, <3>1
  <2>3. CASE Present(e)
    <3>1. \/ Goto(t, "mark")
          \/ \E r \in RunId : task' = [task EXCEPT ![t].run = r, ![t].pc = "mark"]
      BY <1>8, <2>3 DEF Open, Unused
    <3>2. task'[t].doc = e
      <4>1. ASSUME NEW r, task' = [task EXCEPT ![t].run = r, ![t].pc = "mark"]
            PROVE  task'[t].doc = e
        BY <1>t, <4>1 DEF TypeOK, Tasks
      <4> QED BY <1>2, <3>1, <4>1
    <3> QED BY <1>1, <2>1, <3>2
  <2> QED BY <2>2, <2>3
<1>9. CASE Mark(t)
  <2>1. stranded' = stranded \ {e} /\ (parse[d] = "processing" \/ d = e)
        /\ task' = [task EXCEPT ![t].pc = "look", ![t].stage = "parse"]
    BY <1>9 DEF Mark, TypeOK
  <2>2. task'[t].doc = e /\ \A u \in Task : u # t => task'[u] = task[u]
    BY <1>t, <2>1 DEF TypeOK, Tasks
  <2> QED BY <1>1, <2>1, <2>2
<1>10. CASE StageStep(t) /\ ~Finish(t)
  <2>1. parse' = parse /\ stranded' = stranded
    BY <1>10 DEF StageStep, Begin, Parse, Screen, Expand, Classify, Flag, Embed, Done
  <2>2. \A u \in Task : u # t => task'[u] = task[u]
    BY <1>10, StageOwn DEF OwnRun
  <2>3. task'[t].doc = e
    <3>1. CASE \E s \in Stages : Begin(t, s)
      BY <3>1, BeginWrites
    <3>2. CASE Parse(t) \/ Screen(t) \/ Expand(t)
      BY <1>2, <3>2 DEF Parse, Screen, Expand
    <3>3. CASE Classify(t)
      <4>1. PICK how : task'[t] = [task[t] EXCEPT !.pc = "flag", !.fallback = (how = "classify")]
        BY <3>3, ClassifyWrites
      <4> QED BY <1>t, <4>1 DEF Tasks
    <3>4. CASE Flag(t)
      <4>1. task'[t] = [task[t] EXCEPT !.pc = "done", !.fallback = FALSE]
        BY <3>4, FlagWrites
      <4> QED BY <1>t, <4>1 DEF Tasks
    <3>5. CASE Embed(t)
      <4>1. PICK pc : task'[t] = [task[t] EXCEPT !.from = @ + 1, !.pc = pc]
        BY <3>5, EmbedWrites
      <4> QED BY <1>t, <4>1 DEF Tasks
    <3>6. CASE Done(t)
      <4>1. PICK s : task'[t] = [task[t] EXCEPT !.stage = s, !.from = 0, !.upto = 0, !.pc = "look"]
        BY <3>6, DoneWrites
      <4> QED BY <1>t, <4>1 DEF Tasks
    <3> QED BY <1>10, <3>1, <3>2, <3>3, <3>4, <3>5, <3>6 DEF StageStep
  <2> QED BY <1>1, <2>1, <2>2, <2>3
<1>11. CASE Clash(t) \/ Vanish(t)
  <2>1. Handle(t, "fail") /\ parse' = parse /\ stranded' = stranded
    BY <1>11 DEF Clash, Vanish
  <2> QED BY <1>1, <1>3, <2>1
<1>12. CASE Finish(t) \/ Fail(t) \/ Rescue(t)
  <2>1. End(t) /\ stranded' = stranded \ {e} /\ parse[d] = "processing" /\ e # d
    BY <1>12 DEF Finish, Fail, Rescue, Present, Indexed, TypeOK
  <2> QED BY <1>0, <1>4, <2>1
<1>13. CASE Raise(t)
  <2>1. parse' = parse /\ stranded \subseteq stranded'
    BY <1>13 DEF Raise, Strand
  <2>2. CASE Handle(t, "fail") \/ Handle(t, "rescue")
    BY <1>1, <1>3, <2>1, <2>2
  <2>3. CASE End(t) /\ Strand({t})
    <3>1. e = d => d \in stranded'
      BY <2>1, <2>3 DEF Strand
    <3> QED BY <1>0, <1>4, <2>1, <2>3, <3>1
  <2> QED BY <1>13, <2>2, <2>3 DEF Raise
<1> QED BY <1>5, <1>6, <1>7, <1>8, <1>9, <1>10, <1>11, <1>12, <1>13 DEF TaskStep, StageStep

\* Every step leaves a document in work with its task, or stranded.
LEMMA ProcessingStep == TypeOK /\ KeptInv /\ ProcessingHasTask /\ [Next]_vars => ProcessingHasTask'
<1> SUFFICES ASSUME TypeOK, KeptInv, ProcessingHasTask, [Next]_vars, worker' = "up",
                    NEW d \in Document, parse'[d] = "processing"
             PROVE  Held(d)' \/ d \in stranded'
  BY DEF ProcessingHasTask
<1>1. CASE UNCHANGED vars \/ FreezeRead \/ FreezeCommit \/ Execute
  BY <1>1 DEF vars, FreezeRead, FreezeCommit, Execute, ProcessingHasTask, Held
<1>2. ASSUME Recover PROVE FALSE
  <2> DEFINE docs == [e \in Document |-> IF parse[e] = "processing" THEN "pending" ELSE parse[e]]
  <2>1. Sweep(docs) /\ docs[d] # "processing"
    BY <1>2 DEF Recover
  <2> HIDE DEF docs
  <2> QED BY <2>1 DEF Sweep
<1>3. ASSUME WorkerDies PROVE FALSE
  BY <1>3 DEF WorkerDies
<1>4. CASE WebDies
  <2>1. /\ worker' = worker /\ parse' = parse /\ Strand(WebTask)
        /\ task' = [t \in Task |-> IF t \in WebTask THEN Idle ELSE task[t]]
    BY <1>4 DEF WebDies, Die
  <2>2. Held(d) \/ d \in stranded
    BY <2>1 DEF ProcessingHasTask
  <2>3. CASE \E t \in WebTask : task[t].doc = d
    BY <2>1, <2>3 DEF Strand
  <2>4. CASE ~\E t \in WebTask : task[t].doc = d
    <3>1. \A t \in Task : task'[t] = task[t] \/ task[t].doc # d
      BY <2>1, <2>4
    <3>2. Held(d) => Held(d)'
      BY <3>1, HeldOn
    <3>3. stranded \subseteq stranded'
      BY <2>1 DEF Strand
    <3> QED BY <2>2, <3>2, <3>3
  <2> QED BY <2>3, <2>4
<1>5. ASSUME NEW r \in RunId, Resume(r) \/ Age(r) PROVE Held(d)' \/ d \in stranded'
  BY <1>5, RequestHeld
<1> QED BY <1>1, <1>2, <1>3, <1>4, <1>5, RequestHeld, TaskHeld DEF Next

----------------------------------------------------------------------------
(* The theorems.                                                           *)

IngestionInv ==
    /\ TypeOK /\ KeptInv /\ AloneInv /\ WholeInv /\ MarkedInv /\ ScopeInv
    /\ IndexedHasCompleteRun /\ ProcessingHasTask

\* The invariant holds at the start.
LEMMA Initially == Init => IngestionInv
<1> SUFFICES ASSUME Init PROVE IngestionInv
  OBVIOUS
<1> USE DEF Init
<1>1. TypeOK
  <2>1. \A t \in Task : task[t].from <= task[t].upto
    BY DEF Idle
  <2>2. task \in [Task -> Tasks] /\ run \in [RunId -> Runs] /\ rows \in [RunId -> Counts]
    BY Initials
  <2>3. parse \in [Document -> ParseStatuses]
    BY DEF ParseStatuses
  <2>4. plan \in [state : {"none", "read", "frozen", "executing", "blocked"},
                  scope : SUBSET (Document \X RunId)]
    OBVIOUS
  <2>5. requests \in 0..MaxRequests /\ troubles \in 0..MaxTroubles /\ unanswered \in 0..MaxUnanswered
    BY SizeAssumption
  <2> QED BY <2>1, <2>2, <2>3, <2>4, <2>5 DEF TypeOK
<1>2. \A t \in Task : task[t] = Idle /\ \A r \in RunId : ~Works(t, r)
  BY DEF Works, Opened, Idle
<1>3. KeptInv
  <2>1. \A r \in RunId : RunKept(r)
    BY DEF RunKept, NoRun, NoRows
  <2>2. \A t \in Task : TaskKept(t)
    BY <1>2 DEF TaskKept, Idle, NoRunId, Opened
  <2> QED BY <2>1, <2>2 DEF KeptInv
<1>4. AloneInv
  BY <1>2 DEF AloneInv, Alone
<1>5. WholeInv
  BY DEF WholeInv, Whole, NoRun
<1>6. MarkedInv
  BY DEF MarkedInv, Marked, NoRows
<1>7. ScopeInv
  BY DEF ScopeInv
<1>8. IndexedHasCompleteRun /\ ProcessingHasTask
  BY DEF IndexedHasCompleteRun, ProcessingHasTask
<1> QED BY <1>1, <1>3, <1>4, <1>5, <1>6, <1>7, <1>8 DEF IngestionInv

\* All parts of the inductive invariant hold in every state.
THEOREM IngestionInvariant == Spec => []IngestionInv
<1>1. IngestionInv /\ [Next]_vars => IngestionInv'
  BY TypeStep, KeptStep, AloneStep, WholeStep, MarkedStep, ScopeStep, IndexedStep, ProcessingStep
     DEF IngestionInv
<1> QED BY <1>1, Initially, PTL DEF Spec

\* The types are kept.
THEOREM IngestionIsTyped == Spec => []TypeOK
<1>1. IngestionInv => TypeOK
  BY DEF IngestionInv
<1> QED BY <1>1, IngestionInvariant, PTL

\* A run that is complete went through all five stages once, with all its rows (the
\* embeddings aside when there was no key), unless two tasks worked on it or a stage was
\* done again.
THEOREM CompleteRunsAreWhole == Spec => []CompleteIsWhole
<1>1. IngestionInv => CompleteIsWhole
  <2> SUFFICES ASSUME IngestionInv, NEW r \in RunId, r \notin shared, run[r].status = "complete", scars[r] = {}
               PROVE  /\ \A s \in Stages : run[r].stage[s] = "complete"
                      /\ rows[r].lines = 1 /\ rows[r].screened = 1
                      /\ rows[r].units = Excerpts
                      /\ rows[r].classified = Excerpts
                      /\ rows[r].embedded = Excerpts \/ (run[r].keyless /\ rows[r].embedded < Excerpts)
    BY DEF CompleteIsWhole
  <2>1. RowsKept(r)
    BY DEF IngestionInv, WholeInv, Whole
  <2>2. \A s \in Stages : run[r].stage[s] = "complete" /\ Stored(r, s)
    BY <2>1 DEF RowsKept, Stored
  <2>3. rows[r].embedded \in Nat /\ Excerpts \in Nat
    BY SizeAssumption DEF IngestionInv, TypeOK, Counts
  <2> QED BY <2>1, <2>2, <2>3 DEF RowsKept, Count, Stages
<1> QED BY <1>1, IngestionInvariant, PTL

\* A document is shown as indexed only while one of its runs is complete.
THEOREM IndexedIsComplete == Spec => []IndexedHasCompleteRun
<1>1. IngestionInv => IndexedHasCompleteRun
  BY DEF IngestionInv
<1> QED BY <1>1, IngestionInvariant, PTL

\* While the worker is up, a document in work has a task, or is known to be stranded.
THEOREM ProcessingIsHeld == Spec => []ProcessingHasTask
<1>1. IngestionInv => ProcessingHasTask
  BY DEF IngestionInv
<1> QED BY <1>1, IngestionInvariant, PTL

\* The evidence that was frozen is the evidence that is read.
THEOREM FrozenScopeHolds == Spec => []ScopeHeld
<1>1. IngestionInv => ScopeHeld
  BY DEF IngestionInv, ScopeInv, InScope, ScopeHeld
<1> QED BY <1>1, IngestionInvariant, PTL

\* What the keyword fallbacks wrote is not evidence, unless the run bears a scar or was shared.
THEOREM DegradedIsNoEvidence == Spec => []DegradedStaysOut
<1>1. IngestionInv => DegradedStaysOut
  BY DEF IngestionInv, ScopeInv, Clean, DegradedStaysOut
<1> QED BY <1>1, IngestionInvariant, PTL
=============================================================================
