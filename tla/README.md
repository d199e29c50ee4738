# Formal model of ATO Bot

ATO Bot assesses a system's documents against the NIST SP 800-53 controls of a
baseline, one control at a time with a language model, and then leads people
through review, approval and finalization of the result. This directory holds
TLA+ modules of that machinery, the TLC configurations that check them and the
proofs that TLAPS checks. Paths below are relative to `src/backend/app/` unless
they begin with another directory of the repository.

Every safety property of the passing runs is also proved, for all values of the
constants that satisfy the modules' assumptions (section 5). The five liveness
properties are model-checked only.

## 1. The system

Two processes share one PostgreSQL database. The **web process** (FastAPI)
answers requests; each request has a READ COMMITTED session of its own, reads
rows, decides, and commits at its end, without locks or version columns. The
**worker process** (`services/job_worker.py`) re-queues interrupted work when it
starts and then runs one pool per kind of job; a pool claims a pending row with
`FOR UPDATE SKIP LOCKED` and runs it as an asyncio task. Sessions are created with
`expire_on_commit=False` (`core/database.py`), so objects keep the values they had
when they were loaded until someone refreshes them.

| Component | State it keeps | Operations | What is hard |
|---|---|---|---|
| Assessment execution (`services/assessment_engine.py`, `api/assessments.py`) | assessments, control_findings, activities, rollups | start, pause, resume, delete, run, resume after restart | pause and resume beside a run of hours; restarts; exceptions in a gather; two runs of one assessment |
| Worker (`services/job_worker.py`) | status columns of every job table | recover, claim, run, reap | death at any point; one pool's exception ends all |
| Governance (`services/assessment_governance.py`, `api/assessment_governance.py`, `api/security/poam.py`) | reviews, activities, dissents, tailoring, POA&M, approvals, finalization | edit, approve, finalize | check-then-commit in several statements; stale approvals; separation of duties |
| Retry (`services/retry_engine.py`) | assessment_retry_jobs and all of the above | queue, claim, retry in parallel, rebuild the rollup | writes minutes after it read; tasks that outlive their job |
| Assessor pipeline (`services/assessment_pipeline.py`) | stage rows, objective rows and the finding of a control | triage, determine, challenge, narrate | rows deleted and rebuilt in several commits; verdict thresholds; what may stand in for an answer of the model |
| Policies (`services/assessment_policy.py`, `api/assessment_policy.py`) | assessment_policies | clone, edit, activate, delete, seed | concurrent activations; a draft that stops being one |
| Overrides and carry-forward (`api/overrides.py`, `services/assessment_engine.py`, `services/system_profile.py`) | control_overrides; findings of earlier assessments | decide, clear, exclude, carry, reuse | decisions read once by a run of hours; reuse through a chain of assessments |
| Closure and artifact approval (`services/closure_service.py`, `api/closure.py`) | closure sessions, approval chains, evidence eligibility | ask, answer, generate, sign, reject, decide eligibility | chain kept in a JSON column; generation across a model call; status regressions |
| Ingestion (`services/ingestion/`, `services/parsers/dispatcher.py`, `api/documents.py`) | documents, ingestion runs, the rows of five stages | upload, dispatch, resume a stage, reprocess, clean up stale runs, freeze | two dispatches of one document; clean-up by age of a live run; fallbacks that look like answers |
| Report and test-dataset jobs (`services/remediation_service.py`, `services/test_dataset_generator.py`) | job rows with progress, generated documents | queue, claim, cancel, delete, complete | cancel and delete beside controls worked on in parallel; documents stored between two checkpoints |
| Telemetry (`services/security_telemetry.py`, `api/security/telemetry.py`) | collectors, assets, settings, findings, recommendations | ingest a snapshot, rebuild recommendations | nothing but row locks and unique keys between two snapshots; deadlocks; a model call between reading and writing |
| Self-verification and integrations (`services/security_telemetry.py`, `services/integrations.py`) | checks and their results; posture rows and drift of an account | verify, sync, delete an account | results stored long after they were read; several upserts, one sync |
| Everything else | sign-in, libraries, dashboards, exports, the frontend | create, read, update, export | mostly stateless; see section 7 and `PROJECT.json` |

They interact through the tables only. Ingestion provides the frozen evidence scope
that a run reads; the pipeline judges each control under the policy the assessment was
pinned to; execution hands governance a *complete* assessment with one finding per
control; governance and retry change the same rows; assessors' decisions and earlier
findings shape the next assessment; closure turns findings into artifacts that a later
assessment may read as evidence; the jobs write documents that ingestion takes in.

What makes each of them correct:

- **Execution**: a complete assessment covers its baseline; one finding per
  control; no stored finding is lost; a pause holds; nothing is shown as running
  that nobody runs; every queued assessment comes to rest.
- **Governance**: what is finalized was ready and was approved by two people for
  exactly that content; afterwards it does not change.
- **Retry**: it touches only what failed; every job ends; the rollup hides no unanswered finding.
- **Pipeline**: the records of a control are of one attempt; an objective is met only
  on evidence that may carry it; a compliant control has earned it.
- **Policies and decisions**: the policy in force is the newest; what an execution read
  of people's decisions is what its finding says; a reused finding rests on the evidence
  of the assessment that shows it.
- **Closure**: an artifact is eligible as evidence only while a complete chain of
  signatures exists for that very document; sessions list what awaits approval.
- **Ingestion**: a complete run has every row of every stage once; a document is shown
  as indexed only over a complete run; what is frozen stays; fallbacks are no evidence.
- **Jobs**: a stopped job stores no more than it had under way; a complete job accounts
  for what it stored; a package is not mixed with an older one.
- **Telemetry**: overlapping snapshots have the effect of snapshots taken one after the
  other; recommendations follow the findings.
- **Self-verification**: results in the end show the truth, whatever order verifications
  end in; posture and drift of an account are of one sync.

`PROJECT.json` lists the hazards behind these, each at its line.

## 2. Modules

| Module | Role |
|---|---|
| `FindingLedger` | Abstract: what the rest of the system may rely on about an assessment. It is open, complete or gone; findings are only added while it exists; it is complete only over the whole baseline. |
| `AssessmentRun` | Execution: API handlers, worker pool, `run_assessment`/`_run`, failures, restarts. Refines `FindingLedger` (`LedgerSpec`). |
| `Governance` | Review, approval, finalization and retry of an assessment whose execution is complete. |
| `ClosureWorkflow` | Closure sessions, generated artifacts, their approval chains and their use as evidence. |
| `Ingestion` | Documents, ingestion runs and their five stages, the tasks of both processes, clean-up, the frozen scope. |
| `GenerationJobs` | Test-dataset jobs and remediation reports, the two pools that run them and the documents they write. |
| `Adjudication` | How one control is judged: answers of the model, policy arithmetic, stages committed one by one, retries. |
| `PolicyRegister` | Assessment policies under concurrent requests and process starts. |
| `StandingDecisions` | Assessors' decisions about one control and what successive assessments make of them. Extends `PolicyRegister`. |
| `PostureLedger` | Abstract: snapshots taken whole, one after the other. |
| `Posture` | Ingestion of posture snapshots, statement by statement, with its locks. Refines `PostureLedger` (`LedgerSpec`). |
| `PostureFindings` | Pure operators: findings and asset settings derived from a payload. |
| `LiveDomains` | Pure operators: the domains of a verification and the connector's summary as functions of the tables. |
| `SelfMonitoring` | Verifications and integration syncs beside `Posture`, which it extends, with `LiveDomains`. |
| `MCAssessmentRun`, `MCGovernance`, `MCClosureWorkflow`, `MCIngestion`, `MCGenerationJobs`, `MCDecisions`, `MCSelfMonitoring` | Model values, initial rows, plans, worlds, payloads and symmetry for TLC. |
| `AssessmentRunProofs`, `GovernanceProofs`, `ClosureProofs`, `IngestionProofs`, `GenerationProofs`, `DecisionProofs`, `PostureProofs`, `MonitoringProofs` | Theorems. `DecisionProofs` is about `Adjudication`, `PolicyRegister` and `StandingDecisions`; `MonitoringProofs` about `PostureFindings`, `LiveDomains` and `SelfMonitoring`. |

In all of them an action is one transaction, or one read whose result the code keeps
across an `await`.

### AssessmentRun

`status`, `findings`, `surplus`, `complete`, `examined` and `rollup` are the tables;
`run[s]` is the local state of the coroutine in pool slot `s` (its program counter, the row
it loaded, and the sets `completed_ids`, `controls_to_run` and the batch it works on);
`orphan` counts `assess_one` coroutines whose gather already raised; `request[q]` is an API
handler between its check and its commit.

A run goes `claimed -> loaded -> prepare -> carry -> na -> sync -> batch -> rollup ->
finish`; each stage names the code it stands for in `PROJECT.json`. Points the code
makes easy to miss, and which the model keeps:

- SQLAlchemy writes only columns that differ from what the session loaded: `Begin`
  and `Finish` do not touch a status that they believe to be right (`seen`).
- The row is refreshed before each batch and once after the last; pause is seen there
  and nowhere else. The final `status = "complete"` writes over a later pause.
- `asyncio.gather` does not cancel the siblings of a failed task. The rollback after
  it expires the session's objects, so only siblings that already finished reading
  can still commit.
- The failure handler rereads the row and leaves it alone if it is paused; its own
  exceptions are swallowed (`FailureLost`, remembered in `lost`).
- Deleting cascades; a run whose row is gone fails at its next write.

History variables: `overlapped` (claimed while an earlier task of the same assessment
lived) and `lost`. They guard nothing.

Abstractions: which findings are carried forward is any subset of another complete
assessment's (the code: its compliant ones, with compatible plans, from the latest);
the order of controls in a batch is free; reads that no property depends on are merged
with the step that follows; content of findings, log rows and progress text are left out.
So is the column `controls_complete`. Runs count it up, and so does reading: a list or a
single GET of an assessment stores the greatest of it and the counts of rows it has just
read (`api/assessments.py:253`, `:361`; `get_db` commits). It is shown, and only the
snapshot hash of governance reads it (`services/assessment_governance.py:285`).

### Governance

`record[c]` is what the tables say about one control (status, review, EXAMINE
activity, dissent, tailoring decision, POA&M row). `version` counts content writes and
stands for the snapshot hash: the hash covers all that content including timestamps, so
equal hashes mean no write in between. Edits are check (load + guard) and commit; the
commit flushes only the columns that the handler changed (`Flush`). `create_approval`
is three steps, because it hashes in a later statement than it checks. The retry engine
has the job's program counter `retry` and one element of `tasks` per `retry_one`.

Abstractions: one tailoring decision, one EXAMINE activity and one POA&M row per
control (readiness quantifies over all of them in the same way); an assessment that is
complete stays complete; `needs_manual_review`, retry counters and notes are left out
because neither the gate nor the hash reads them; a partly compliant finding behaves
like a non-compliant one; `build_finalization_readiness` and the hash inside
`finalize_assessment` are one read, since both see the objects that the session already
holds. The incomplete-criteria and plan blockers are fixed by the time execution is
complete and are left out. `sealed` and `lost` are history: `lost` has the jobs whose end
could not be stored (`EndLost`). The worker commits a job's end without a guard
(`services/job_worker.py:215`), so such a row reads "running" with no task until the next
start, and `JobsSettle` says so. A read that stores `controls_complete` (see above)
moves the hash by its display count; it changes no content and can only invalidate approvals
already given, so the model, which has the hash follow the content, leaves it out.

### ClosureWorkflow

`session`, `plan` and `listed` are three columns of the closure session, `document` and
`approval` the rows of a generated artifact (an approval is kept under its document's
id: it has one document and a document gets one approval in its life). `request[q]` is
an API request in flight: what it loaded (`seen`, `marks`, `loaded`, ...) and, for a
generation, what it still has to write (`todo`) and has written (`new`).

| Action | Code |
|---|---|
| `Start`, `Visit`, `AnswerCommit`, `CompleteCommit`, `Delete` | `start_session`; the loads and the commits of `submit_answers` and `complete_session` around the model call; `delete_session` |
| `Generate`, `StartDraft` | the load of `generate_artifacts`; `generate_control_draft_package` up to its call of it |
| `SaveRead`, `SaveCommit`, `SaveFails` | `_save_document`: the query for earlier versions, the replacement, and the `except` around it |
| `InsertApproval`, `GenerateCommit` | autoflush of the approval by the next query; the commit at the end |
| `AdvanceCheck`, `AdvanceCommit` | the route's check; `advance_approval`, which works on the row the route loaded |
| `DecideCheck`, `DecideLoad`, `DecideCommit` | `decide_evidence_eligibility`: two queries and a commit |
| `RollBack`, `Die` | `get_db` on an exception; the end of a connection |

Points the model keeps:

- `Flush`: a column is written if the new value differs from the loaded one, not from
  the stored one. `advance_approval` mutates the dictionaries inside the list it loaded,
  so for the chain the two always agree.
- A generation uses two sessions. Its own inserts approvals by autoflush and commits them
  at the end (`row = "held"` until then); the other commits each document at once.
  Inserting an approval locks the document and session rows it refers to, so deleting
  either waits (the guards of `SaveCommit` and `Delete`).
- A save that raises is logged and skipped; a flush that raises (its document or session
  is gone) ends the request, and what was saved stays.
- Document ids grow (`SaveCommit` takes the least unused one).

Abstractions: a signer is the role of the account, since the code looks at nothing else; an
interview is only its outcome, the plan, a sequence of file names; the model's answers,
titles, comments and dates are left out; the list of step contents (`steps`) is not
modelled. `demand` is what an instance asks for: sessions, clients, plans and bounds.
`signed` and `raced` are history: who approved which step, which the code means to keep in
the chain; and the documents that two signatures or decisions, and the sessions that two
generations, were at work on together. `DecisionsAgree` and `ApprovalsListed` exempt those
and nothing else: each request writes the columns it found different, so two of them can set
the three records of one decision apart, and the list of the later commit wins. One project,
so documents of a name are those of one project.

### Ingestion

`parse` is a document's `parse_status`, `run` the rows of `ingestion_runs`, `rows[r]`
how many rows of each kind a run has in the tables of its five stages (parse, screen,
expand, classify, embed), `task[t]` the coroutine in a slot of the worker or started by
a request in the web process. A stage stores its rows in one transaction and is marked
complete in the next, together with the entry into the following stage; between the two
everything else may happen.

| Action | Code |
|---|---|
| `Upload`, `Requeue`, `Resume`, `Recategorize`, `Delete` | the requests of `api/documents.py`, `api/common_controls.py`, `api/enterprise_procedures.py`, `api/ingestion_config.py` |
| `Claim`, `Categorize`, `Enter`, `Open`, `Mark` | the worker's claim; `dispatch_parse` and the start of the pipeline |
| `Parse`, `Screen`, `Expand`, `Classify`, `Flag`, `Embed`, `Finish`, `Clash` | the stages, the degraded mark, the end, and the unique key that a second screening meets |
| `Fail`, `Rescue`, `Raise`, `Vanish` | the handlers of exceptions and of a document that is gone |
| `Recover`, `Age`, `Sweep` | the worker's start; a run that outgrows the stale-run threshold, and the sweep inside other requests |
| `FreezeRead`, `FreezeCommit`, `Execute` | the plan's evidence scope, in two transactions, and the check when execution begins |

Points the model keeps: library and generated uploads commit "pending" *and* start a
task, so two runs can come of one document; `line_id` is unique, so screening that is
done again after a death can never succeed; expanding again duplicates the units; the
sweep marks a completed current stage failed; `error_stage` and `started_at` are not
reset by a resumption, so a resumed run is swept; recovery leaves out "categorizing" and
re-queues ingestions of the web process that are alive; a reparse during processing is
lost. `shared`, `scars` and `stranded` are history: runs opened again while a task worked on
them or after they were complete, stages whose rows were stored while the stage was not
left complete, documents whose task ended without a word. `keyless` marks a run whose
embedding found no API key and stored none (`pipeline.py:631`): the stage is complete all the
same, and `CompleteIsWhole` asks for embeddings of no such run. `library` has the documents that
are not the project's: an assessment's readiness looks at the project's own only.

Abstractions: the check and the commit of a request are one; reads of the pipeline's loop are
merged with the next stage's mark; `_INGESTION_SEMAPHORE(3)` is only delay; a change of the
embedding model is left out; a document has at least one relevant line; one project.

### GenerationJobs

`job[j]` is the row of `test_dataset_jobs` or `remediation_reports`, `docs[n]` says
whose the generated document of a name is (a save removes the document that had the
name), `proof[j][i]` is the assessment that an artifacts report creates to prove a control,
`task[j]` and `control[j][i]` are the coroutines. Points the model keeps: a cancel is a read
and a later write; the final writes of a job are unconditional and override a cancel; a
bundle's document is stored before the checkpoint that lists it; the controls of a
report are gathered without `return_exceptions`, so siblings outlive an exception; an
exception of a dataset job has no handler and its row reads "running" until the worker
restarts; so does that of a report before its `try` begins, or while its failure is being
recorded (`services/remediation_service.py:2296`, `:2357`); after the last bundle nobody looks
at the status again; reports of kind `test_dataset` always fail; `previous_run` is the newest
ended job, even one without documents.

Abstractions: one document per control (up to four in the code); the two status reads
of a control that follow each other are one; parsing of stored documents is
`Ingestion`'s.

### Adjudication

`rows`, `det`, `challenge` and `finding` are what the tables say of one control;
`attempt[t]` is a coroutine that assesses it, for the run or for a retry. `Begin`,
`Review`, `Determine`, `Challenge`, `Finish` are the stages with a commit each, `Legacy`
the older path that answers without them, `Raise` and `Crash` what may end an attempt.
`Adjudged` is the policy's arithmetic, from an answer of the model to an objective row:
evidence quality, contradiction, the aggregate closure contract, caps, penalties and
floors of the objective's bucket, thresholds; `Verdict` counts rows into the status. Buckets
and thresholds are those of `Rules`, the policies by name: `DefaultBuckets` has the ten of
`services/assessment_policy.py`, an officer may edit each number or take a bucket away
(`Bucket` has what the code falls back on then), and a retry may find another policy in force
than the run did. A `World` is what the pipeline is given: the packets of each objective,
the bucket, the answers that the model may give (misnamed, missing, uncited, citing a
document that is not there), two bounds, and the `terms` of each attempt: its policy and
what decisions it finds.

A run looks at decisions on both sides of the pipeline. Before it, an override, an
exclusion or a carried finding may settle the control (`RecordDecision`): the finding then
stands beside whatever rows an interrupted attempt has left. After it, a manual status, or
`not_applicable` for a control that was said to be applicable, changes the status of the finding and
nothing else (`Overruled`, `assessment_engine.py:809`), so `control_determinations` goes on
saying what the pipeline found. `RecordsAgree` says what agrees beside these. A retry asks no
decision.

Two properties depend on the policy, and say how. `MetByCurrentEvidence` has the condition
`Strict`: the bucket asks for more than a plan or nothing at all is worth, as every default
bucket does (`DefaultsType` in the proofs); an edited one need not. `CompliantIsEarned`
holds under any policy, with the share of contradicting documents from which that policy
asks for a review.

Abstractions: scores are integers in units of 10^-4 with floor division; each packet is a
document of its own and the prompt holds every packet considered; the flags for
inherited and compensating context and the confidence are left out; a quote is tied to
its citation; ties of the fallback's choice are broken arbitrarily; a first attempt
starts when there is no finding, a retry when it is not reviewed; an exception leaves the
stages that were committed.

### PolicyRegister and StandingDecisions

`PolicyRegister` has the rows of `assessment_policies` (`policy`) and the requests and
process starts that have loaded one (`office`); an activation reads the active policy,
then commits the exchange. The policy in force is the newest of the active ones, then
the highest id. `latest` and `disturbed` are history. What a policy says is one stamp.

`StandingDecisions` adds the row of `control_overrides` for one control, requests that
load, decide and flush it (`editor`), the project's assessments with their finding for
the control (`run`), and the execution under way (`exec`): it loads the decisions
once, then carries forward, inserts "not applicable", reuses a satisfied finding, applies
an exclusion, or asks the model. A finding is its status, how it was made (`how`) and, as
history, the evidence on which the model once determined it (`basis`); `saw` remembers
what its execution read.

Abstractions: one control; a request changes one field; loads of one execution are
merged; whether there is new evidence is nondeterministic; accepted risk, rationales
and logs are left out; one clock. `MCDecisions` puts `Adjudication` beside
`StandingDecisions`; in a behaviour one of the two is at work and the other at rest, as they
share no variable.

### Posture, PostureLedger, PostureFindings

`rows`, `setting`, `events`, `used` and `rec` are tables; `ingest[q]` is what a request
has read and means to write. A request goes through its statements one by one (`InsertNonce`,
`TouchCollector` or `Post`/`Register`, `UpsertAsset`, `Record`, `ReadFindings`,
`ReadRecommendations`, `Commit`); a statement that needs a lock waits for whoever holds it
(`Free`): the unique key of a nonce, the collector's row, the assets in the order of the
snapshot. `Victim` is the transaction that the database ends when two wait for each
other, `Fail` any other exception. `late` and `overtaken` are history: requests during
whose rebuild another committed.

Abstractions: one project; an asset's settings are one value; a finding is known by the
key of its recommendation; the states "attention" and "in progress" of a recommendation
are one, "open"; the locks on recommendation rows are merged with the commit; secrets,
scores and texts are left out. `MaxManual` bounds the collectors registered for builds
posted by hand. The subsystem is experimental and off by default
(`src/docs/EXPERIMENTAL_CAPABILITIES.md`).

### LiveDomains and SelfMonitoring

`LiveDomains` gives, for the contents of the application's tables (users, tokens,
events, audit, runs, assessments, documents, settings, ...), what each domain of a
verification finds, which checks fail, and what the connector's summary counts.
`SelfMonitoring` runs verifications (`verify`: `ReadIdentity` ... `ReadRuntime`, `Ensure`,
`StoreResults` or `LoseResults`) and syncs of integration accounts (`sync`: `Begin`,
`Count`, `Probe`, `UpsertPosture`, `ResolveDrift`, `Finish`) beside each other, beside
requests of `Posture`, beside changes of the tables, and beside the deletion of an account
or the failure of any of them (`Broken`). The check `verify_host_patch_backlog` is run only while
a finding of missing updates is open, and then fails; afterwards nothing replaces its
last result, which goes on being shown and counted. `ShownIsCurrent` says so of this
check and no other.

Abstractions: the selects of one domain, and those of one summary, are taken together;
the configuration domain reads settings only and is merged with the first step; a sync
whose account vanishes before its row is inserted has no effect; a result's run number
stands for `verified_at`; of two snapshots collected at one time the later commit counts as
newer; an account's posture is one record; dry-run and live statuses are one entry;
incidents and change events are pure operators only; scores, severities, texts and the
model's guidance are left out.

## 3. Runs

Every run ends within five minutes, most within one, and the passing ones fire every
action between them. No deadlock check: a system with nothing queued and nobody asking
rests, and the bounds on edits, pauses, crashes and faults run out.

| Run | Question | Bounds |
|---|---|---|
| `RunOneSlot` | The shipped configuration (`worker_assessment_slots = 1`): completeness, one row per finding, pauses, the ledger, and that every queued assessment comes to rest (`FairSpec`) | 2 assessments, 3 controls (1 excluded by the profile), 1 slot, batch 2, 1 client, 1 crash, 1 fault, 2 pauses |
| `RunTwoSlots` | Findings when an assessment may be executed twice at once, two clients race, and one row is from before approved plans | 2 assessments (1 legacy), 2 controls, 2 slots, batch 2, 2 clients, 1 crash, 1 fault, 1 pause |
| `Gov` | The gate for every kind of finding, beside a retry job that always ends (`FairSpec`) | 1 control of every kind of row, 2 people, 1 client, 2 edits, 2 approvals, 1 job, 1 crash, 1 fault |
| `Closure` | Signatures, the records of a decision, what a session lists, and that generations end (`FairSpec`) | in turn: 1 client, 2 generations, 4 decisions, 1 fault; 1 client, plans of 1 or 2 files, 2 generations, 2 decisions, 1 fault; 2 clients, 1 generation, 4 decisions; 2 clients, 2 plans, 2 generations, 1 decision; 2 sessions with the same 2 files, 2 clients, 2 generations. 4 document ids |
| `Ingest` | Whole runs, honest statuses, frozen scopes, marked fallbacks | 1 document (the project's or a library's), a worker slot and a web task, 2 excerpts, with and without a key for embeddings, 2 runs, 1 request, 1 plan, 1 trouble, 1 stage without an answer |
| `IngestLiveness` | Every queued document comes to rest (`FairSpec`) | the same with 1 excerpt, 3 runs, no plan |
| `Jobs` | Both kinds of jobs: packages, accounts, stopping, proofs, and that every job ends (`FairSpec`) | 3 ids, 2 items, 1 slot of each pool, 2 controls at a time, a checkpoint per bundle; in turn: three packages, two packages, an artifacts report of two controls, two of one, and a guide beside a package and a report of the fourth kind; 1 trouble and up to 1 cancel |
| `Decisions` | How a control is judged; policies and standing decisions | any of 5 documents, 4 coverages, 5 pairs of bucket and policy (the default policy and an edited one) and all answers for one objective beside an easy one; two attempts and a crash on small worlds, each under a policy and a decision of its own; 3 policies, 3 officers, up to 6 requests; 3 assessments, 2 fingerprints, 2 assessors, each demand by itself |
| `Snapshots` | Snapshots, recommendations, verifications and syncs | 2 collectors, manual builds, 3 assets, 3 keys, 2 requests, 1 fault; in turn: 4 snapshots; 1 snapshot, 2 verifications, 1 change; 2 snapshots (a host found without patches, then patched), 2 verifications; 3 verifications, 1 change; 3 syncs, 1 change or deletion |

Why these are enough: two assessments are what carry-forward and the order of claims
relate; three controls make a full batch and a rest; two pauses allow pause, resume and
pause again of the same run; one control carries every interaction of the gate, which
is a conjunction over controls; two edits and two approvals take the rows it starts from
to finalization and past it. Four decisions are two signatures, one that races with them
and the decision about eligibility. Two files and two generations are the least in which
each waits for what the other holds. Two runs of one document are what an upload,
a reparse and a dead worker can leave; two excerpts let a stage be half of what it should
be. Three jobs are needed for a package that finds the remains of one before the last.
Four snapshots of two collectors overtake each other at every step, and both orders of their
assets occur, so that deadlocks do. The theorems of section 5 are what makes up for the
rest: they need none of these bounds, and they cover the racing clients and the second job that
`Gov` leaves out. Symmetry is used over interchangeable slots, clients,
requests and the like in safety runs only.

Three runs must find a violation, each a divergence of code and documentation (quoted
in `PROJECT.json`, `findings`):

- `FinalizedRewritten`: an edit or a retry that checked before finalization commits after it.
- `FallbackStaysOut`: rows made up when classification raises do not carry the word by
  which a run is marked degraded, so they become evidence.
- `ManualStatusHeld`: a finding that the model made earlier is carried forward over a manual status
  set since.

Definitions marked "(seeded fault: ...)" are not part of any specification; each is a
plausible slip in the code that makes one of the properties fail, and shows that the
property depends on that code.

### What the code does that its readers may not expect

Met while modelling and part of the models unless said otherwise; the properties
are stated so that they hold beside it.

- Execution: with two slots, pause and resume during a batch store findings twice, and the
  gate then blocks the assessment for good.
- Worker: a retry job whose end could not be stored, and a report that raises outside its `try`,
  read "running" until the worker starts again.
- Ingestion: without an API key a run is complete with no embeddings.
- Closure: a signature advances the chain without being stored in it
  (`services/closure_service.py:1792` changes dictionaries inside a shallow copy). Two
  artifacts of one plan whose names agree in their first 60 characters make the request
  wait for itself.
- Policies: two activations at once leave two active policies; deleting a draft while it
  is being activated leaves none in force; an edit in flight changes a policy that has
  become active; two processes that start at once insert two defaults; seeding can
  bring a retired policy back with its old `effective_at`.
- Decisions: "satisfied" keeps the finding as it was when the flag was first set, and
  may have none to keep; a repeated "satisfied" is logged as a removal; a cleared manual status
  leaves the finding carried with it; a retry ignores every decision; carry-forward
  ignores a manual status (`ManualStatusHeld`).
- An assessor's manual status changes the finding of a control and not its determination.
- Pipeline: an explicit "no" that the aggregate contract overrules counts no
  contradiction; a retry clears `needs_manual_review`; an answer with an empty or foreign
  objective id drops an objective; a document cited from another objective, whose own
  closure contract is satisfied, can make an objective met.
- Rollup after a retry: it is computed from the session's old objects and counts
  findings just answered as not reviewed; `RollupHidesNone` says that it errs in this
  direction only.
- Jobs: a job cancelled before its first checkpoint and then deleted leaves its
  documents; proof assessments committed before a deletion stay.
- Telemetry: a rebuild that was overtaken can leave a recommendation completed over open
  findings; two first builds posted at once register two collectors, and the findings of
  the older stay open for ever. Posture rows of a deleted account stay too. The checks
  for privileged roles, hardening titles, header policy and retention do not match what they are
  meant to find; `LiveDomains` has them as they are.
- Exports (not modelled): the assessment-results export says "unknown" for every
  determination; `build_assessment_rollup`'s `high_risk_controls` never holds a
  non-compliant control; a deleted document changes later exports of a finalized assessment.

## 4. Fairness

Weak fairness of recovery (Docker restarts the worker: `restart: unless-stopped`), of each
slot's next step and each retry task's next step (the event loop), of claims (the pool loop
polls for ever) and of commits of requests that were checked. In `ClosureWorkflow` likewise
of every next step of a request that has come in (`Serve`); `Closure` shows that the waits
for row locks do not close a circle as long as plans name different files in one order.
`GenerationEnds` claims no more: plans in opposite orders, or with names equal in their
first 60 characters, do wait for ever. In `Ingestion` of recovery, of the next step of each
task and of each slot's claim; in `GenerationJobs` of recovery and of the steps of the
worker together (`WorkerStep`), as it is one event loop with bounded work. No fairness of
user requests, of crashes or of faults. Model calls are assumed to return or raise:
providers have timeouts. What the code cannot finish is named in the properties: a failure
or an end that could not be recorded (`lost`), a task that ended without a word
(`stranded`), an exception that no handler of a generation job catches (`Orphaned`).

## 5. Proofs

TLAPS checks the theorems of eight modules. They hold for all values of the constants
that satisfy the `ASSUME`s of the modules, which TLC evaluates in the runs: ids are
numbers in order of creation, sets of ids, worlds and the like that a maximum or a
cardinality is taken of are finite, different kinds of values differ. One theorem has
a hypothesis of its own, which it states: `DatasetSlots = 1` (`PackagesAreClean`; the property
is false with two slots, and one is the shipped value, `core/config.py:67`).

The strengthenings stand at the end of the modules they are about. TLC checked each
of them on the instances of section 3 before its proof was begun.

### AssessmentRunProofs

- `TypeCorrect`: `Spec => []TypeOK`.
- `CoverInvariant` and `CompleteCovers`: `Spec => []CompleteCoversBaseline`.
  Completion alone is not inductive. `CoverInv` adds that a run empties its sets in the
  order of its stages (`Staged`) and that, once it has read the findings, what is stored
  together with what the run still has to store is the whole baseline (`Covers`). Other
  runs, late tasks and requests only add findings (or delete the row), which `Covers`
  survives; that is why the theorem holds even when two runs overlap.
- `ExactInvariant`, `FindingsExact`, `OneSlotExact`: the counterpart. `ExactInv` says that
  what a run still has to store is *not* stored yet, that counters follow rows, and that
  late tasks have nothing left to write, for an assessment that never had two tasks; it
  uses `CoverInv` for what a run has passed. With one slot, two tasks of one assessment
  can only be a run and what is left of a failed gather (`OneSlotInv`), hence the premise on
  faults.
- `RunningIsWorked`: not every task of the assessment will do as the witness. One that believes the
  row to say already what it is about to write leaves it running when it ends. Of the
  tasks of a running assessment the invariant picks one that will not (`WillRest`): the one
  that marked it last.
- `PauseIsHeld`, and `LedgerRefined`: every initial state and every step
  of execution is one of `FindingLedger` or a stutter; the step that completes needs `CoverInv`.

### GovernanceProofs

- `TypeCorrect`: `Spec => []TypeOK`.
- `SignedInvariant`, and from it `IndependentComesSecond` and `TwoPeopleFinalize`. Both
  handlers check in one transaction and write in a later one, so their properties are
  not inductive. `SignedInv` adds what an open request relies on: behind an `insert` of an
  independent approval there is an assessor's approval by somebody else, behind a
  `finalize` there are two matching ones. It lasts because no code deletes or rewrites an
  approval row. The proof needs no relation between approvals and the content: that the
  content may have moved on meanwhile is why `FinalizedRewritten` is a finding and this
  theorem still holds.
- `SealedContentReady`: `SealedInv` adds that every open `finalize` hashed a content that
  was ready if it is still current, and that versions never come back.
- `RollupHides`: `RollupInv` adds that no edit under way takes a finding's answer away
  (`Flush` writes a status only where the handler changed it); the rest is that no task
  or handler makes an answered finding unanswered.
- `QuietRecordForGood`: follows from types alone; the work is to show that no action of
  `Next` other than the ones that touch nothing is enabled.

`OrdinarySteps` is the frame lemma: all actions but approval and finalization leave the
signatures alone and either leave the content alone or move its version by one.

### ClosureProofs

- `TypeCorrect`: `Spec => []TypeOK`.
- `ChainInvariant`, and from it `EvidenceSigned`: `Spec => []EvidenceFullySigned`, for any
  number of clients. A signature writes over a row that others have moved meanwhile, so
  the property rests on three invariants: a document id gets one approval in its life
  (`FreshInv`), an approval being inserted belongs to one generation that will commit or
  withdraw it (`HeldInv`), and not only the step the row shows but every step that an open
  request has loaded lies behind signatures (`ChainInv`), which are never taken back. So a
  stale signature may move a chain back, but never past a step that nobody signed.
  `KeptReferences` and `KeptChains` are the frame lemmas for the actions that only move such
  rows around.
- `ApprovalInvariant`, `ApprovalsAreListed`, `RecordsOfDecision`, for any number of clients: what
  a request has loaded is what the tables say (`ListedInv` for documents, approvals and
  lists, `AgreeInv` for the records of a decision), in the middle of a generation too,
  where a document is saved before its approval exists, unless the document or the session
  is in `raced`. Both invariants hold what makes that history exact: of two requests at work on
  one document or session, the later has entered it.

### IngestionProofs

`IngestionInvariant` collects the types and four invariants, each of which needs the ones
before it. `KeptInv`: a task, its run and its document fit. `AloneInv`: a run that was not
opened again has one task, and none once it is complete. `WholeInv`: the rows of a stage are
there from the commit that stores them on, which the run shows as a complete stage or as a
task between its two commits; the stages before the one a task is at are complete.
`MarkedInv`: what stands in for an answer of the model is marked on the run, or a task is
about to mark it. Embeddings are missing of `keyless` runs only. From these and `ScopeInv`
(what is frozen stays sealed, and was clean when execution began) follow
`CompleteRunsAreWhole`, `IndexedIsComplete`, `FrozenScopeHolds` and `DegradedIsNoEvidence`;
`ProcessingIsHeld` follows from the task that each step leaves behind. `Frame` and the
"calm" lemmas (`RequestCalm`, `SystemCalm`, `OutsideCalm`) say what a step of somebody else
can do to a run and its task.

### GenerationProofs

- `PlaceInvariant`: where the coroutines and documents of a job can be, by the kind and
  the status of its row. `ProofsHaveProvers` follows with it.
- `JobsStopSoon`: a job that has stored something late is never asked to run again, and
  what it has stored late together with what its controls are about to write is at most
  `Workers` (`LateInv`). A count of `late` alone is not inductive.
- `CompleteJobsAccount`: `ListInv` follows a document from its commit to the coroutine's
  list, the checkpoint and the final write, through a restart that begins again from
  the row.
- `PackagesAreClean`: `OrderInv`: with one slot and nothing stopped the jobs run one after
  the other, a claim finds every earlier job complete, and only the job that runs may
  leave older documents, those that it is clearing. With two slots a claim may pass a job
  that is still writing, and the property fails.

### DecisionProofs

- `RecordsInvariant` for `Adjudication`: the rows, what each attempt has in memory and what
  it stored agree (`RecordsInv`, `AloneInv` while no two attempts have overlapped); from it
  `RecordsOfOneAttempt`, `MetIsGrounded`, `CompliantControlsEarnIt`. All of them hold for
  any policies and for attempts under different ones; the invariant keeps with each row the
  attempt, and so the policy, that made it. `AdjudgedMeans` is the lemma about the
  arithmetic: for every packet, strict bucket and answer, an objective that comes out as met
  has a citation that may carry it. `PartialSupport` bounds what an answer of "partial"
  starts from, when there is no satisfied contract and less than seven tenths covered, below
  what no factor, floor or penalty raises to a met objective. `VerdictSound` says what a
  count of rows must have been for a status, and `DefaultsType` that every default bucket is
  strict.
- `NewestIsInForce` and, beside pinning assessments, `PinnedIsNewest`: `NewestInv` says that the
  activation with the latest time is active and every other active policy older; a
  request reads its time once, so that a slow activation commits an old time
  (`TimesRead`). `RegisterStutter` and `RegisterKeeps` carry the invariant from `PolicyRegister` to
  `StandingDecisions`, where its variables are a part of the state.
- `CarriedRestsOnEvidence`: the basis of every finding, of every snapshot in the override
  row, in requests and in the execution is the assessment's own scope or none
  (`GroundedInv`); `ReuseSatisfied` and `CarryForward` compare fingerprints, which is what
  keeps a chain of reuses on one evidence.
- `ApplicabilityIsHonoured` (`HonouredInv`: what is about to be carried was chosen under the
  decisions read) and `DecisionsStayApart` (a flush writes only changed columns).

### PostureProofs

- `LockInvariant`: two requests hold no lock both, and what a request has read under its
  locks is what the tables still say (`LockInv`).
- `LedgerImplemented`: `Spec => LedgerSpec`. All steps of a request but its commit are stutters
  of `PostureLedger`; the commit is one `Take`. `LockInv` is what makes it so: settings
  compared long ago are the settings now.
- `RecommendationsKept`: `RebuildInv` says that what a request which was not overtaken read
  for its rebuild is still so. Findings carry no lock between sources, so the property
  needs the premise that the snapshot committed last was not overtaken.

### MonitoringProofs

- About the operators: a change of a container, host or dependency that opens a finding is
  recorded as a regression (`ContainerFindingIsRegression`, `HostFindingIsRegression`,
  `SupplyFindingIsRegression`, which names its two exceptions); a check fails only where its
  domain reports something (`FailureNamesFinding`, with its exception); `PipelinePassIsQuiet`;
  the connector and the verification, which count with conditions of their own, agree
  (`ViewsAgree`). They hold for any contents of the tables.
- `PostureIsOfOneSync`: the posture rows that a sync has written keep the account's drift to
  it until it ends (`SyncInv`).
- `ChecksShowTheTruth`: a verification that began after the last change has read the truth
  of every check that it runs and that its steps so far are about, and so has every stored
  result of such a verification (`ShownInv`). An older verification that is committed later
  does not take their place, as results are ordered by the time at which their verification
  began.

Layout of the modules: lemmas about operators, one lemma per group of actions for types,
then frame lemmas, then the same groups for each invariant, then `PTL`.

Only model-checked: `QueuedSettles`, `JobsSettle`, `GenerationEnds`, `PendingSettles` and
`JobsRest`. They are liveness properties under fairness, and the prover has no `ENABLED`.
The three properties that fail, `FinalizedImmutable`, `FallbackStaysOut` and `ManualStatusHeld`,
have no theorem.

## 6. Plan

Done: the modules of section 2, and a theorem for every safety property of their runs.
Next, in this order:

1. `AssessmentLife`: `AssessmentRun` and `Governance` composed over `FindingLedger`: a
   finalized assessment has exactly one finding per control.
2. Refinements between what is there: `MSpec` implements `Posture`'s `Spec` but for the failure
   of a verification or a sync, which counts against the same bound; the jobs of
   `GenerationJobs` and the retry jobs of `Governance` implement one abstract durable job.
3. What remains of `DecisionsAgree` and `ApprovalsListed` of raced documents and sessions: which of
   the three records may be apart, and after which step.
4. The rest of execution: plans and their approval (`api/assessments.py`), and the scope
   check before execution, which `Ingestion` has from the evidence's side.
5. Sign-in: the lock-out counter and the rotation of refresh tokens.

## 7. Not modelled

The models cover about a fifth of the implementation's lines. Most of the rest is
content rather than behaviour: prompts, curated guidance and templates, report and OSCAL
layouts, parsers, retrieval and model providers, the frontend, and the trial harness of
`backend/test_harness/`, whose longest files generate documents. They are conversions, external
services, or create, read, update and delete of single rows. Exports read the tables and
change nothing; what was seen in them is noted in section 3. Sign-in
(`api/auth.py`) keeps state but is left for later work; roles and accounts appear in
`Governance` and `ClosureWorkflow` as constants. Of the modelled components, what is left
out is named under each module in section 2 and in the notes of `PROJECT.json`.
