----------------------------- MODULE Ingestion -----------------------------
(***************************************************************************)
(* Evidence ingestion: documents and their ingestion runs, the requests    *)
(* that queue, resume, delete and categorize them, the tasks of the worker *)
(* and of the web process that take a run through its five stages, the     *)
(* clean-up of stale runs, and the evidence scope that an assessment       *)
(* freezes (services/ingestion/pipeline.py, services/parsers/dispatcher.py,*)
(* services/procedure_categorizer.py, services/job_worker.py,              *)
(* api/documents.py, api/common_controls.py, api/enterprise_procedures.py, *)
(* api/ingestion_config.py, services/assessment_pipeline.py).              *)
(*                                                                         *)
(* An action is one transaction of a task, or one request.  Between two    *)
(* transactions of a task everything else may happen, its death included.  *)
(***************************************************************************)
EXTENDS Naturals, FiniteSets

CONSTANTS
    Document,     \* ids of documents rows, in order of creation
    Slot,         \* settings.worker_ingestion_slots
    WebTask,      \* asyncio tasks that requests start in the web process
    Excerpts,     \* evidence units that one parse of a document leads to
    MaxRuns,      \* bound: ingestion_runs rows
    MaxRequests,  \* bound: requests about uploaded documents
    MaxPlans,     \* bound: assessments whose plan is approved (0 or 1)
    MaxTroubles,  \* bound: deaths of a process, exceptions in a task and runs that
                  \* outgrow the stale-run threshold
    MaxUnanswered \* bound: stages in which the model leaves a batch unanswered, or that
                  \* find no key for the embeddings

ASSUME DocumentAssumption == Document \subseteq Nat \ {0}
ASSUME TaskAssumption == Slot \cap WebTask = {}
ASSUME SizeAssumption ==
    /\ Excerpts \in Nat \ {0} /\ MaxRuns \in Nat
    /\ MaxRequests \in Nat /\ MaxTroubles \in Nat /\ MaxUnanswered \in Nat /\ MaxPlans \in {0, 1}

VARIABLES
    parse,     \* Document.parse_status; "new" before the upload, "gone" after the DELETE
    run,       \* the ingestion_runs rows
    rows,      \* how many rows of each kind a run has, in the tables of its five stages
    task,      \* the ingestion tasks of both processes
    worker,    \* the worker process: "up" or "down"
    library,   \* documents of a library or a provider; the others are the project's own
    plan,      \* the plan of an assessment: its state and its frozen scope
    requests, troubles, unanswered,
    shared,    \* history: runs opened again while a task worked on them or after they were complete
    scars,     \* history: stages of a run whose rows were stored while the stage was not left complete
    stranded,  \* history: documents whose task ended without a word about them
    sealed     \* history: the rows of each scope entry when the scope was frozen

bounds == <<requests, troubles, unanswered>>
history == <<shared, scars, stranded, sealed>>
vars == <<parse, run, rows, task, worker, library, plan, bounds, history>>

Task == Slot \cup WebTask
RunId == 1..MaxRuns
NoDocument == 0
NoRunId == 0

Stages == {"parse", "screen", "expand", "classify", "embed"}
StageAfter == [parse |-> "screen", screen |-> "expand", expand |-> "classify",
               classify |-> "embed", embed |-> "none"]

ParseStatuses == {"new", "pending", "processing", "categorizing", "complete", "indexed",
                  "failed", "gone"}
Indexed == {"complete", "indexed"}

NoRun == [doc |-> NoDocument, status |-> "none", stage |-> [s \in Stages |-> "pending"],
          current |-> "none", error |-> "none", eligible |-> TRUE, aged |-> FALSE,
          keyless |-> FALSE]  \* keyless: history, see Begin
NoRows == [lines |-> 0, screened |-> 0, units |-> 0, classified |-> 0, embedded |-> 0,
           standin |-> {}]
Idle == [pc |-> "free", doc |-> NoDocument, run |-> NoRunId, stage |-> "none",
         wrapped |-> FALSE, from |-> 0, upto |-> 0, fallback |-> FALSE]

Present(d) == parse[d] \notin {"new", "gone"}

\* Some task works for the document, or for the run.
Held(d) == \E t \in Task : task[t].doc = d
Opened(t) == task[t].pc \notin {"free", "categorize", "assign", "enter", "open", "rescue"}
HeldRun(r) == \E t \in Task : Opened(t) /\ task[t].run = r

Init ==
    /\ parse = [d \in Document |-> "new"]
    /\ run = [r \in RunId |-> NoRun]
    /\ rows = [r \in RunId |-> NoRows]
    /\ task = [t \in Task |-> Idle]
    /\ worker = "down"
    /\ library = {}
    /\ plan = [state |-> "none", scope |-> {}]
    /\ requests = 0 /\ troubles = 0 /\ unanswered = 0
    /\ shared = {}
    /\ scars = [r \in RunId |-> {}]
    /\ stranded = {}
    /\ sealed = {}

\* The bound on runs: rows that are left beyond those which queued tasks will insert.
Unused == {r \in RunId : run[r].status = "none"}
Spare == Cardinality(Unused)
           > Cardinality({t \in Task : /\ task[t].pc \in {"categorize", "assign", "enter", "open"}
                                       /\ task[t].run = NoRunId})

\* The latest of a document's runs with a status among those given.
LatestOf(d, statuses) ==
    {r \in RunId : /\ run[r].doc = d /\ run[r].status \in statuses
                   /\ \A u \in RunId : run[u].doc = d /\ run[u].status \in statuses => u <= r}

----------------------------------------------------------------------------
(* Requests.  A handler loads a row, checks it and commits.                *)

\* asyncio.create_task of dispatch_parse (wrapped: it handles exceptions), of
\* run_ingestion_pipeline (bare), or of the categorizer before either.
Spawn(d, pc, wrapped, r) ==
    \E t \in WebTask :
        /\ task[t] = Idle
        /\ task' = [task EXCEPT ![t] =
                       [Idle EXCEPT !.pc = pc, !.doc = d, !.run = r, !.wrapped = wrapped]]

\* Uploads.  A project's document waits for the worker; a library's is also
\* dispatched at once by the web process; a procedure is categorized first.
Upload(d, where) ==
    /\ parse[d] = "new"
    /\ \A e \in Document : e < d => parse[e] # "new"
    /\ parse' = [parse EXCEPT ![d] = "pending"]
    /\ \/ where = "project" /\ UNCHANGED task
       \/ where = "library" /\ Spare /\ Spawn(d, "enter", TRUE, NoRunId)
       \/ where = "procedure" /\ Spare /\ Spawn(d, "categorize", TRUE, NoRunId)
    /\ library' = IF where = "project" THEN library ELSE library \cup {d}
    /\ UNCHANGED <<run, rows, worker, plan, bounds, history>>

Asked == requests < MaxRequests /\ requests' = requests + 1

\* From which states a document may be queued again: reparse asks nothing, the
\* administrator's reprocess only that nothing is queued or under way, reindex
\* a document that has been through.
Requeueable(how) ==
    CASE how = "reparse"   -> ParseStatuses \ {"new", "gone"}
      [] how = "reprocess" -> ParseStatuses \ {"new", "gone", "pending", "processing"}
      [] how = "reindex"   -> {"complete", "indexed", "failed"}

\* reparse, reprocess, reindex.  In a library the web process starts a task as well.
Requeue(d, how) ==
    /\ Asked
    /\ parse[d] \in Requeueable(how)
    /\ parse' = [parse EXCEPT ![d] = "pending"]
    /\ stranded' = stranded \ {d}
    /\ IF d \in library /\ how # "reprocess"
       THEN Spare /\ Spawn(d, "enter", how = "reparse", NoRunId)
       ELSE UNCHANGED task
    /\ UNCHANGED <<run, rows, worker, library, plan, troubles, unanswered, shared, scars, sealed>>

Recategorize(d) ==
    /\ Asked
    /\ d \in library /\ Present(d) /\ parse[d] \notin {"pending", "processing", "categorizing"}
    /\ parse' = [parse EXCEPT ![d] = "complete"]
    /\ Spare /\ Spawn(d, "categorize", FALSE, NoRunId)
    /\ UNCHANGED <<run, rows, worker, library, plan, troubles, unanswered, history>>

\* resume_run: of a failed run, and also of one that may still be at work.
Resume(r) ==
    /\ Asked
    /\ run[r].status \in {"failed", "running"}
    /\ Spawn(run[r].doc, "enter", FALSE, r)
    /\ UNCHANGED <<parse, run, rows, worker, library, plan, troubles, unanswered, history>>

\* delete_document; the runs and their rows go with it.
Delete(d) ==
    /\ Asked
    /\ Present(d)
    /\ parse' = [parse EXCEPT ![d] = "gone"]
    /\ run' = [r \in RunId |-> IF run[r].doc = d THEN [NoRun EXCEPT !.status = "gone"] ELSE run[r]]
    /\ rows' = [r \in RunId |-> IF run[r].doc = d THEN NoRows ELSE rows[r]]
    /\ UNCHANGED <<task, worker, library, plan, troubles, unanswered, history>>

----------------------------------------------------------------------------
(* Stale runs and the processes.                                           *)

Trouble == troubles < MaxTroubles /\ troubles' = troubles + 1

\* The stage a run is at, as the clean-up and the exception handler see it.
FirstIncomplete(r) ==
    LET open(s) == run[r].stage[s] # "complete"
    IN IF open("parse") THEN "parse"
       ELSE IF open("screen") THEN "screen"
       ELSE IF open("expand") THEN "expand"
       ELSE IF open("classify") THEN "classify"
       ELSE IF open("embed") THEN "embed" ELSE "none"
StageOf(r) == IF run[r].current # "none" THEN run[r].current ELSE FirstIncomplete(r)

FailStage(r) == [s \in Stages |-> IF s = StageOf(r) THEN "failed" ELSE run[r].stage[s]]

\* A stage that was complete and is called failed will be run again.
Undone(r) == {s \in Stages : s = StageOf(r) /\ run[r].stage[s] = "complete"}

\* (seeded fault: the clean-up does not ask whether the run is still running)
StaleAnyStatus == {r \in RunId : run[r].status \in {"running", "complete"} /\ run[r].aged}

\* cleanup_stale_ingestion_runs: by age alone, whether or not a task is at work.
Stale == {r \in RunId : run[r].status = "running" /\ run[r].aged}
Sweep(docs) ==
    /\ run' = [r \in RunId |->
                 IF r \in Stale
                 THEN [run[r] EXCEPT !.status = "failed", !.error = StageOf(r), !.stage = FailStage(r)]
                 ELSE run[r]]
    /\ parse' = [d \in Document |->
                   IF docs[d] = "processing" /\ \E r \in Stale : run[r].doc = d
                   THEN "failed" ELSE docs[d]]
    /\ scars' = [r \in RunId |-> scars[r] \cup IF r \in Stale THEN Undone(r) ELSE {}]

Age(r) ==
    /\ run[r].status = "running" /\ ~run[r].aged
    /\ Trouble
    /\ run' = [run EXCEPT ![r].aged = TRUE]
    /\ UNCHANGED <<parse, rows, task, worker, library, plan, requests, unanswered, history>>

\* (seeded fault: documents in work when the worker died are not queued again)
RecoverRunsOnly ==
    /\ worker = "down"
    /\ worker' = "up"
    /\ Sweep(parse)
    /\ stranded' = stranded \ {d \in Document : parse[d] = "pending"}
    /\ UNCHANGED <<rows, task, library, plan, bounds, shared, sealed>>

\* _recover_interrupted_work: the documents first, then the stale runs.
Recover ==
    /\ worker = "down"
    /\ worker' = "up"
    /\ LET docs == [d \in Document |-> IF parse[d] = "processing" THEN "pending" ELSE parse[d]]
       IN /\ Sweep(docs)
          /\ stranded' = stranded \ {d \in Document : docs[d] = "pending"}
    /\ UNCHANGED <<rows, task, library, plan, bounds, shared, sealed>>

\* Rows of a stage are stored, and the stage is not marked complete.
Torn(t) == task[t].pc \in {"flag", "done"}
Tear(T) ==
    scars' = [r \in RunId |->
                scars[r] \cup {task[t].stage : t \in {u \in T : Torn(u) /\ task[u].run = r}}]
Strand(T) ==
    stranded' = stranded \cup {d \in Document : /\ parse[d] \in {"processing", "categorizing"}
                                               /\ \E t \in T : task[t].doc = d}

\* A process dies and its tasks with it.  Of the web process's tasks nobody is told.
Die(T) ==
    /\ Trouble
    /\ task' = [t \in Task |-> IF t \in T THEN Idle ELSE task[t]]
    /\ Tear(T)
    /\ UNCHANGED <<parse, run, rows, library, plan, requests, unanswered, shared, sealed>>

WorkerDies == worker = "up" /\ worker' = "down" /\ Die(Slot) /\ UNCHANGED stranded
WebDies == Die(WebTask) /\ Strand(WebTask) /\ UNCHANGED worker

\* _claim_pending_document, and dispatch_parse of what was claimed.
Claim(t, d) ==
    /\ worker = "up"
    /\ task[t] = Idle
    /\ parse[d] = "pending"
    /\ \A e \in Document : parse[e] = "pending" => d <= e
    /\ Spare
    /\ parse' = [parse EXCEPT ![d] = "processing"]
    /\ task' = [task EXCEPT ![t] = [Idle EXCEPT !.pc = "enter", !.doc = d, !.wrapped = TRUE]]
    /\ UNCHANGED <<run, rows, worker, library, plan, bounds, history>>

----------------------------------------------------------------------------
(* A task.                                                                 *)

Goto(t, pc) == task' = [task EXCEPT ![t].pc = pc]
End(t) == task' = [task EXCEPT ![t] = Idle]
Handle(t, pc) ==
    task' = [task EXCEPT ![t] = [Idle EXCEPT !.pc = pc, !.doc = task[t].doc, !.run = task[t].run,
                                             !.wrapped = task[t].wrapped]]

\* categorize_and_tag: the mark before the model call; the library after it.
Categorize(t) ==
    LET d == task[t].doc
    IN /\ task[t].pc = "categorize"
       /\ IF Present(d)
          THEN parse' = [parse EXCEPT ![d] = "categorizing"] /\ Goto(t, "assign")
          ELSE UNCHANGED parse /\ End(t)
       /\ UNCHANGED <<run, rows, worker, library, plan, bounds, history>>

Assign(t) ==
    LET d == task[t].doc
    IN /\ task[t].pc = "assign"
       /\ parse' = IF Present(d) THEN [parse EXCEPT ![d] = "pending"] ELSE parse
       /\ stranded' = stranded \ {d}
       /\ Goto(t, "enter")
       /\ UNCHANGED <<run, rows, worker, library, plan, bounds, shared, scars, sealed>>

\* run_ingestion_pipeline: every task cleans up before it begins.
Enter(t) ==
    /\ task[t].pc = "enter"
    /\ Sweep(parse)
    /\ Goto(t, "open")
    /\ UNCHANGED <<rows, worker, library, plan, bounds, shared, stranded, sealed>>

\* (seeded fault: an ingestion takes up the document's latest run instead of a new one)
OpenReuses(t) ==
    LET d == task[t].doc
        old == IF LatestOf(d, {"complete", "failed"}) = {} THEN task[t].run
               ELSE CHOOSE r \in LatestOf(d, {"complete", "failed"}) : TRUE
    IN /\ task[t].pc = "open"
       /\ IF ~Present(d) THEN End(t) /\ UNCHANGED run
          ELSE \E r \in IF old = NoRunId THEN Unused ELSE {old} :
                 /\ old # NoRunId \/ \A u \in Unused : r <= u
                 /\ run' = [run EXCEPT ![r] = [NoRun EXCEPT !.doc = d, !.status = "running",
                                                            !.current = "parse"]]
                 /\ task' = [task EXCEPT ![t].run = r, ![t].pc = "mark"]
       /\ UNCHANGED <<parse, rows, worker, library, plan, bounds, history>>

\* A new run, or the one to resume: its age, its error stage and its stages stay.
Open(t) ==
    LET d == task[t].doc
        old == task[t].run
    IN /\ task[t].pc = "open"
       /\ \/ /\ ~Present(d)
             /\ End(t)
             /\ UNCHANGED <<run, shared>>
          \/ /\ Present(d) /\ old # NoRunId
             /\ run' = [run EXCEPT ![old].status = "running"]
             /\ shared' = shared \cup {r \in {old} : HeldRun(r) \/ run[r].status = "complete"}
             /\ Goto(t, "mark")
          \/ /\ Present(d) /\ old = NoRunId
             /\ \E r \in Unused :
                  /\ \A u \in Unused : r <= u
                  /\ run' = [run EXCEPT ![r] = [NoRun EXCEPT !.doc = d, !.status = "running",
                                                             !.current = "parse"]]
                  /\ task' = [task EXCEPT ![t].run = r, ![t].pc = "mark"]
             /\ UNCHANGED shared
       /\ UNCHANGED <<parse, rows, worker, library, plan, bounds, scars, stranded, sealed>>

Mark(t) ==
    LET d == task[t].doc
    IN /\ task[t].pc = "mark"
       /\ parse' = IF Present(d) THEN [parse EXCEPT ![d] = "processing"] ELSE parse
       /\ stranded' = stranded \ {d}
       /\ task' = [task EXCEPT ![t].pc = "look", ![t].stage = "parse"]
       /\ UNCHANGED <<run, rows, worker, library, plan, bounds, shared, scars, sealed>>

Exists(t) == run[task[t].run].status # "gone"

\* The stages that a task at a stage has before it.
From == [parse |-> Stages, screen |-> Stages \ {"parse"}, expand |-> {"expand", "classify", "embed"},
         classify |-> {"classify", "embed"}, embed |-> {"embed"}, none |-> {}]

\* (seeded fault: only stages that never began are done when a run is resumed)
ToDoUntouched(t) == {s \in From[task[t].stage] :
                       /\ run[task[t].run].stage[s] = "pending"
                       /\ \A u \in From[task[t].stage] \ From[s] :
                            run[task[t].run].stage[u] # "pending"}

\* The loop over the stages passes over those that are complete.
ToDo(t) == {s \in From[task[t].stage] :
               /\ run[task[t].run].stage[s] # "complete"
               /\ \A u \in From[task[t].stage] \ From[s] : run[task[t].run].stage[u] = "complete"}

\* _set_stage(..., "running"), and what classify and embed find still to do: embed finds
\* nothing to do when the provider is Voyage and no key is configured (keyless).
Begin(t, s) ==
    LET r == task[t].run
        from == IF s = "classify" THEN rows[r].classified
                ELSE IF s = "embed" THEN rows[r].embedded ELSE 0
        upto == IF s \in {"classify", "embed"} THEN rows[r].units ELSE 0
    IN /\ task[t].pc = "look" /\ Exists(t)
       /\ s \in ToDo(t)
       /\ \E keyless \in {k \in BOOLEAN : k => s = "embed" /\ unanswered < MaxUnanswered} :
            /\ unanswered' = unanswered + IF keyless THEN 1 ELSE 0
            /\ run' = [run EXCEPT ![r].stage[s] = "running", ![r].current = s,
                                  ![r].keyless = @ \/ keyless]
            /\ task' = [task EXCEPT ![t].stage = s, ![t].from = from, ![t].upto = upto,
                                    ![t].pc = IF s = "embed" /\ (from = upto \/ keyless)
                                              THEN "done" ELSE "work"]
       /\ UNCHANGED <<parse, rows, worker, library, plan, requests, troubles, history>>

At(t, s) == task[t].pc = "work" /\ task[t].stage = s /\ Exists(t)

\* screening_results and evidence_classifications and evidence_embeddings have
\* one row per line and per unit: the second INSERT raises.
Clashes(t) ==
    LET r == task[t].run
    IN \/ At(t, "screen") /\ rows[r].screened > 0
       \/ At(t, "classify") /\ rows[r].classified # task[t].from /\ task[t].from < task[t].upto
       \/ At(t, "embed") /\ rows[r].embedded # task[t].from

Clash(t) ==
    /\ Clashes(t)
    /\ Handle(t, "fail")
    /\ UNCHANGED <<parse, run, rows, worker, library, plan, bounds, history>>

Parse(t) ==
    /\ At(t, "parse")
    /\ rows' = [rows EXCEPT ![task[t].run].lines = @ + 1]
    /\ Goto(t, "done")
    /\ UNCHANGED <<parse, run, worker, library, plan, bounds, history>>

\* The rows and, if a batch fell back on keywords, the mark on the run: one commit.
Screen(t) ==
    LET r == task[t].run
    IN /\ At(t, "screen") /\ ~Clashes(t)
       /\ \E fallback \in {f \in BOOLEAN : f => unanswered < MaxUnanswered} :
            /\ unanswered' = unanswered + IF fallback THEN 1 ELSE 0
            /\ rows' = [rows EXCEPT ![r].screened = rows[r].lines,
                                    ![r].standin = @ \cup IF fallback THEN {"screen"} ELSE {}]
            /\ run' = [run EXCEPT ![r].eligible = @ /\ ~fallback]
       /\ Goto(t, "done")
       /\ UNCHANGED <<parse, worker, library, plan, requests, troubles, history>>

Expand(t) ==
    LET r == task[t].run
    IN /\ At(t, "expand")
       /\ rows' = [rows EXCEPT ![r].units = @ + Excerpts * rows[r].screened]
       /\ Goto(t, "done")
       /\ UNCHANGED <<parse, run, worker, library, plan, bounds, history>>

\* How the batches went: answered by the model; by classify_units_batch's own
\* fallback text; or by the text of _classify_batch_with_limit when even that
\* raised, which does not contain the word that is looked for.
Outcomes(t) == IF task[t].from < task[t].upto /\ unanswered < MaxUnanswered
               THEN {"clean", "classify", "error"} ELSE {"clean"}

\* The rows in one commit, the mark on the run in the next (Flag).
Classify(t) ==
    LET r == task[t].run
    IN /\ At(t, "classify") /\ ~Clashes(t)
       /\ \E how \in Outcomes(t) :
            /\ unanswered' = unanswered + IF how = "clean" THEN 0 ELSE 1
            /\ rows' = [rows EXCEPT ![r].classified = @ + (task[t].upto - task[t].from),
                                    ![r].standin = @ \cup ({how} \ {"clean"})]
            /\ task' = [task EXCEPT ![t].pc = "flag", ![t].fallback = (how = "classify")]
       /\ UNCHANGED <<parse, run, worker, library, plan, requests, troubles, history>>

Flag(t) ==
    /\ task[t].pc = "flag" /\ Exists(t)
    /\ run' = [run EXCEPT ![task[t].run].eligible = @ /\ ~task[t].fallback]
    /\ task' = [task EXCEPT ![t].pc = "done", ![t].fallback = FALSE]
    /\ UNCHANGED <<parse, rows, worker, library, plan, bounds, history>>

\* One batch of embeddings, committed by itself.
Embed(t) ==
    /\ At(t, "embed") /\ ~Clashes(t)
    /\ rows' = [rows EXCEPT ![task[t].run].embedded = @ + 1]
    /\ task' = [task EXCEPT ![t].from = @ + 1,
                            ![t].pc = IF task[t].from + 1 = task[t].upto THEN "done" ELSE "work"]
    /\ UNCHANGED <<parse, run, worker, library, plan, bounds, history>>

\* _set_stage(..., "complete"), the commit after the one that stored the rows.
Done(t) ==
    LET s == task[t].stage
    IN /\ task[t].pc = "done" /\ Exists(t)
       /\ run' = [run EXCEPT ![task[t].run].stage[s] = "complete"]
       /\ task' = [task EXCEPT ![t].stage = StageAfter[s], ![t].from = 0, ![t].upto = 0,
                               ![t].pc = "look"]
       /\ UNCHANGED <<parse, rows, worker, library, plan, bounds, history>>

\* The document was deleted: its run is not there to look at or to write to.
Vanish(t) ==
    /\ task[t].pc \in {"look", "work", "flag", "done"} /\ ~Exists(t)
    /\ Handle(t, "fail")
    /\ UNCHANGED <<parse, run, rows, worker, library, plan, bounds, history>>

Finish(t) ==
    LET d == task[t].doc
        r == task[t].run
    IN /\ task[t].pc = "look" /\ Exists(t)
       /\ ToDo(t) = {}
       /\ run' = [run EXCEPT ![r].status = "complete", ![r].current = "none", ![r].error = "none"]
       /\ parse' = IF Present(d) THEN [parse EXCEPT ![d] = "indexed"] ELSE parse
       /\ stranded' = stranded \ {d}
       /\ End(t)
       /\ UNCHANGED <<rows, worker, library, plan, bounds, shared, scars, sealed>>

\* (seeded fault: a failure is recorded on the run and not on the document)
FailOnRunOnly(t) ==
    LET r == task[t].run
    IN /\ task[t].pc = "fail"
       /\ run' = IF ~Exists(t) THEN run
                 ELSE [run EXCEPT ![r].status = "failed", ![r].error = StageOf(r),
                                  ![r].stage = FailStage(r)]
       /\ End(t)
       /\ UNCHANGED <<parse, rows, worker, library, plan, bounds, history>>

\* The except clause: the stage is named only if no earlier failure named one.
Fail(t) ==
    LET d == task[t].doc
        r == task[t].run
        names == Exists(t) /\ run[r].error = "none"
    IN /\ task[t].pc = "fail"
       /\ run' = IF ~Exists(t) THEN run
                 ELSE [run EXCEPT ![r].status = "failed",
                                  ![r].error = IF names THEN StageOf(r) ELSE @,
                                  ![r].stage = IF names THEN FailStage(r) ELSE @]
       /\ scars' = [scars EXCEPT ![r] = @ \cup IF names THEN Undone(r) ELSE {}]
       /\ parse' = IF Present(d) THEN [parse EXCEPT ![d] = "failed"] ELSE parse
       /\ stranded' = stranded \ {d}
       /\ End(t)
       /\ UNCHANGED <<rows, worker, library, plan, bounds, shared, sealed>>

\* The handler of dispatch_parse, for what the pipeline did not catch.
Rescue(t) ==
    LET d == task[t].doc
    IN /\ task[t].pc = "rescue"
       /\ parse' = IF Present(d) /\ parse[d] \notin Indexed
                   THEN [parse EXCEPT ![d] = "failed"] ELSE parse
       /\ stranded' = stranded \ {d}
       /\ End(t)
       /\ UNCHANGED <<run, rows, worker, library, plan, bounds, shared, scars, sealed>>

\* An exception.  Inside the try it leads to Fail; outside it, or in Fail, to
\* dispatch_parse's handler if there is one; in that handler it is swallowed.
Guarded == {"look", "work", "flag", "done"}
Raise(t) ==
    LET pc == task[t].pc
    IN /\ pc # "free"
       /\ Trouble
       /\ Tear({t})
       /\ \/ pc \in Guarded /\ Handle(t, "fail") /\ UNCHANGED stranded
          \/ /\ pc \notin Guarded \cup {"rescue"} /\ task[t].wrapped
             /\ Handle(t, "rescue") /\ UNCHANGED stranded
          \/ /\ pc \notin Guarded /\ (pc = "rescue" \/ ~task[t].wrapped)
             /\ End(t) /\ Strand({t})
       /\ UNCHANGED <<parse, run, rows, worker, library, plan, requests, unanswered, shared, sealed>>

TaskStep(t) ==
    \/ Categorize(t) \/ Assign(t) \/ Enter(t) \/ Open(t) \/ Mark(t) \/ (\E s \in Stages : Begin(t, s))
    \/ Parse(t) \/ Screen(t) \/ Expand(t) \/ Classify(t) \/ Flag(t) \/ Embed(t) \/ Clash(t)
    \/ Done(t) \/ Vanish(t) \/ Finish(t) \/ Fail(t) \/ Rescue(t)

----------------------------------------------------------------------------
(* The scope of an assessment.                                             *)

\* The rows of get_scope_evidence_readiness: indexed documents with a complete run.
Entries == {e \in Document \X RunId :
              parse[e[1]] \in Indexed /\ e[2] \in LatestOf(e[1], {"complete"})}

\* (seeded fault: degraded runs count as ready)
ReadyIfComplete(r) == run[r].status = "complete"

Ready(r) == run[r].status = "complete" /\ run[r].eligible
\* The project's own documents that are not; those of the libraries need not be.
Unready == {d \in Document : /\ Present(d) /\ d \notin library
                             /\ ~ (/\ parse[d] \in Indexed
                                   /\ \E r \in LatestOf(d, {"running", "complete", "failed"}) :
                                        run[r].status = "complete")}

\* start_assessment: the entries are read, then the documents that are not ready;
\* the approved plan with its frozen scope is committed after both.
FreezeRead ==
    /\ plan.state = "none" /\ MaxPlans = 1
    /\ Entries # {} /\ \A e \in Entries : Ready(e[2])
    /\ plan' = [state |-> "read", scope |-> Entries]
    /\ sealed' = {[run |-> e[2], rows |-> rows[e[2]]] : e \in Entries}
    /\ UNCHANGED <<parse, run, rows, task, worker, library, bounds, shared, scars, stranded>>

FreezeCommit ==
    /\ plan.state = "read"
    /\ plan' = IF Unready = {} THEN [plan EXCEPT !.state = "frozen"]
               ELSE [state |-> "none", scope |-> {}]
    /\ sealed' = IF Unready = {} THEN sealed ELSE {}
    /\ UNCHANGED <<parse, run, rows, task, worker, library, bounds, shared, scars, stranded>>

\* _run, in the worker: the frozen entries are checked once, then read for hours.
Valid(e) == Present(e[1]) /\ run[e[2]].doc = e[1] /\ Ready(e[2])
Execute ==
    /\ plan.state = "frozen" /\ worker = "up"
    /\ plan' = [plan EXCEPT !.state = IF \A e \in plan.scope : Valid(e) THEN "executing"
                                      ELSE "blocked"]
    /\ UNCHANGED <<parse, run, rows, task, worker, library, bounds, history>>

----------------------------------------------------------------------------
Next ==
    \/ \E d \in Document :
         \/ \E where \in {"project", "library", "procedure"} : Upload(d, where)
         \/ \E how \in {"reparse", "reprocess", "reindex"} : Requeue(d, how)
         \/ Recategorize(d) \/ Delete(d)
         \/ \E t \in Slot : Claim(t, d)
    \/ \E r \in RunId : Resume(r) \/ Age(r)
    \/ Recover \/ WorkerDies \/ WebDies
    \/ \E t \in Task : TaskStep(t) \/ Raise(t)
    \/ FreezeRead \/ FreezeCommit \/ Execute

Spec == Init /\ [][Next]_vars

\* The event loops serve every task, Docker restarts the worker, and its pool
\* polls for pending documents for ever.
Fairness ==
    /\ WF_vars(Recover)
    /\ \A t \in Task : WF_vars(TaskStep(t))
    /\ \A t \in Slot : WF_vars(\E d \in Document : Claim(t, d))

FairSpec == Spec /\ Fairness

----------------------------------------------------------------------------
(* Properties.                                                             *)

Pcs == {"free", "categorize", "assign", "enter", "open", "mark", "look", "work",
        "flag", "done", "fail", "rescue"}

Runs == [doc : Document \cup {NoDocument},
         status : {"none", "running", "complete", "failed", "gone"},
         stage : [Stages -> {"pending", "running", "complete", "failed"}],
         current : Stages \cup {"none"}, error : Stages \cup {"none"},
         eligible : BOOLEAN, aged : BOOLEAN, keyless : BOOLEAN]
Counts == [lines : Nat, screened : Nat, units : Nat, classified : Nat, embedded : Nat,
           standin : SUBSET {"screen", "classify", "error"}]
Tasks == [pc : Pcs, doc : Document \cup {NoDocument}, run : RunId \cup {NoRunId},
          stage : Stages \cup {"none"}, wrapped : BOOLEAN, from : Nat, upto : Nat,
          fallback : BOOLEAN]
TypeOK ==
    /\ parse \in [Document -> ParseStatuses]
    /\ run \in [RunId -> Runs] /\ rows \in [RunId -> Counts] /\ task \in [Task -> Tasks]
    /\ \A t \in Task : task[t].from <= task[t].upto
    /\ worker \in {"up", "down"}
    /\ library \subseteq Document
    /\ plan \in [state : {"none", "read", "frozen", "executing", "blocked"},
                 scope : SUBSET (Document \X RunId)]
    /\ requests \in 0..MaxRequests /\ troubles \in 0..MaxTroubles
    /\ unanswered \in 0..MaxUnanswered
    /\ shared \subseteq RunId
    /\ scars \in [RunId -> SUBSET Stages]
    /\ stranded \subseteq Document

\* A run that is complete went through all five stages once: every line was
\* screened, every excerpt classified and embedded, none of them twice.  Only the
\* embeddings may be missing, when there was no key at the time (pipeline.py:631).  Not so
\* when two tasks worked on the run, or when a stage was done again after it had
\* stored its rows (the process died before the stage was marked, or the
\* clean-up called a finished stage failed).
CompleteIsWhole ==
    \A r \in RunId \ shared :
        run[r].status = "complete" /\ scars[r] = {} =>
            /\ \A s \in Stages : run[r].stage[s] = "complete"
            /\ rows[r].lines = 1 /\ rows[r].screened = 1
            /\ rows[r].units = Excerpts
            /\ rows[r].classified = Excerpts
            /\ rows[r].embedded = Excerpts \/ (run[r].keyless /\ rows[r].embedded < Excerpts)

\* A document is shown as indexed only while one of its runs is complete: a
\* reparse that fails, a clean-up or a death never leaves it indexed over nothing.
IndexedHasCompleteRun ==
    \A d \in Document : parse[d] = "indexed" =>
        \E r \in RunId : run[r].doc = d /\ (run[r].status = "complete" \/ r \in shared)

\* While the worker is up, a document that is being processed has a task that
\* will finish it, unless its task is known to have ended without a word.
ProcessingHasTask ==
    worker = "up" =>
        \A d \in Document : parse[d] = "processing" => Held(d) \/ d \in stranded

\* The evidence that was frozen into an approved scope is the evidence the
\* assessment reads: no reparse, resume or clean-up changes a frozen run's rows.
\* A DELETE removes them; a run that was opened again may get more.
ScopeHeld ==
    plan.state \in {"frozen", "executing"} =>
        \A e \in plan.scope :
            \/ parse[e[1]] = "gone"
            \/ e[2] \in shared
            \/ [run |-> e[2], rows |-> rows[e[2]]] \in sealed

\* What the keyword fallbacks wrote never is evidence of an assessment that
\* executes, unless the run was left between its rows and its mark.
DegradedStaysOut ==
    plan.state = "executing" =>
        \A e \in plan.scope :
            \/ e[2] \in shared \/ "classify" \in scars[e[2]]
            \/ rows[e[2]].standin \subseteq {"error"}

\* A document that is queued comes to rest: it is indexed, failed or deleted,
\* or its task ended without a word (and the bound on runs was not the reason).
Rests(d) == parse[d] \in {"indexed", "complete", "failed", "gone"} \/ d \in stranded \/ ~Spare
PendingSettles == \A d \in Document : parse[d] = "pending" ~> Rests(d)

\* "a degraded fallback must not silently become assessment evidence"
\* (docs/USER_GUIDE.md:45): an assessment that executes reads no rows that
\* stand in for an answer of the model.
FallbackStaysOut ==
    plan.state = "executing" =>
        \A e \in plan.scope : parse[e[1]] = "gone" \/ rows[e[2]].standin = {}
----------------------------------------------------------------------------
(* Inductive invariants, for the proofs.                                   *)

\* A task has a document, and from its first look at a run on a run, which is of that
\* document unless both have been deleted.
Works(t, r) == Opened(t) /\ task[t].run = r
TaskKept(t) ==
    /\ IF task[t].pc = "free" THEN task[t] = Idle ELSE task[t].doc \in Document
    /\ Opened(t) => task[t].run # NoRunId
    /\ task[t].run = NoRunId => task[t].upto = 0
    /\ task[t].pc \in {"work", "flag", "done"} => task[t].stage \in Stages
    /\ task[t].pc = "flag" => task[t].stage = "classify"
    /\ task[t].pc = "work" /\ task[t].stage = "embed" => task[t].from < task[t].upto
    /\ task[t].run # NoRunId =>
         LET r == task[t].run
         IN /\ run[r].status # "none"
            /\ IF run[r].status = "gone" THEN parse[task[t].doc] = "gone"
               ELSE run[r].doc = task[t].doc /\ task[t].upto <= rows[r].units
RunKept(r) ==
    /\ run[r].status = "none" => run[r] = NoRun
    /\ run[r].status \in {"none", "gone"} => run[r].doc = NoDocument /\ rows[r] = NoRows
    /\ run[r].status \in {"running", "complete", "failed"} => run[r].doc \in Document
    /\ rows[r].classified <= rows[r].units /\ rows[r].embedded <= rows[r].units
KeptInv == (\A t \in Task : TaskKept(t)) /\ (\A r \in RunId : RunKept(r))

\* Unless it was opened again, a run has one task, and none once it is complete.
Alone(r) ==
    \A t \in Task : Works(t, r) =>
        run[r].status # "complete" /\ \A u \in Task : Works(u, r) => u = t
AloneInv == \A r \in RunId \ shared : Alone(r)

\* The rows of a stage are there from the commit that stores them on, the stages before
\* the one a task is at are complete, and what the task has loaded is what is there.
Stored(r, s) ==
    run[r].stage[s] = "complete" \/ \E t \in Task : Works(t, r) /\ Torn(t) /\ task[t].stage = s
Count(r, s, n) == IF Stored(r, s) THEN n ELSE 0
RowsKept(r) ==
    /\ rows[r].lines = Count(r, "parse", 1) /\ rows[r].screened = Count(r, "screen", 1)
    /\ rows[r].units = Count(r, "expand", Excerpts)
    /\ rows[r].classified = Count(r, "classify", Excerpts)
    /\ rows[r].embedded <= Excerpts /\ (Stored(r, "embed") => rows[r].embedded = Excerpts \/ run[r].keyless)
    /\ run[r].status = "complete" => \A s \in Stages : run[r].stage[s] = "complete"
StageKept(t, r) ==
    LET s == task[t].stage
    IN /\ task[t].pc \in Guarded => \A u \in Stages \ From[s] : run[r].stage[u] = "complete"
       /\ task[t].pc \in {"work", "flag", "done"} => run[r].stage[s] # "complete"
       /\ task[t].pc = "work" /\ s = "classify" => task[t].from = 0 /\ task[t].upto = Excerpts
       /\ task[t].pc = "work" /\ s = "embed" =>
            task[t].from = rows[r].embedded /\ task[t].upto = Excerpts /\ task[t].from < Excerpts
Whole(r) ==
    scars[r] = {} /\ run[r].status \in {"running", "complete", "failed"} =>
        RowsKept(r) /\ \A t \in Task : Works(t, r) => StageKept(t, r)
WholeInv == \A r \in RunId \ shared : Whole(r)

\* What stands in for an answer is marked on the run, or about to be.
Marked(r) ==
    "classify" \notin scars[r] /\ run[r].eligible =>
        /\ "screen" \notin rows[r].standin
        /\ "classify" \in rows[r].standin =>
             \E t \in Task : Works(t, r) /\ task[t].pc = "flag" /\ task[t].fallback
MarkedInv == \A r \in RunId : Marked(r)

\* A run in the scope stays as it was sealed, or is deleted with its document.
InScope(d, r) ==
    \/ r \in shared
    \/ run[r].status = "gone" /\ parse[d] = "gone"
    \/ /\ run[r].status = "complete" /\ run[r].doc = d
       /\ [run |-> r, rows |-> rows[r]] \in sealed
Clean(r) == r \in shared \/ "classify" \in scars[r] \/ rows[r].standin \subseteq {"error"}
ScopeInv ==
    /\ plan.state \in {"read", "frozen", "executing"} => \A e \in plan.scope : InScope(e[1], e[2])
    /\ plan.state = "executing" => \A e \in plan.scope : Clean(e[2])
=============================================================================
