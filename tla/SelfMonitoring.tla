--------------------------- MODULE SelfMonitoring ---------------------------
(***************************************************************************)
(* Verification of the system by itself, beside the posture it ingests     *)
(* (run_security_verifications in services/security_telemetry.py, and      *)
(* services/integrations.py).                                              *)
(*                                                                         *)
(* A verification reads the tables of the application domain by domain,    *)
(* with calls of the language model in between, then the newest runtime    *)
(* snapshot and the open findings of its collector, and stores one result  *)
(* per check, all stamped with the time at which it began.  A sync of a    *)
(* connector counts the same tables, probes the services, and replaces the *)
(* account's posture rows and its active drift.  Both run beside requests  *)
(* that ingest snapshots, beside each other, and beside whatever changes   *)
(* the application.                                                        *)
(*                                                                         *)
(* The selects of one domain, and those of one connector summary, are      *)
(* taken together.  Times order verifications by their begin: a result's   *)
(* run number stands for verified_at.                                      *)
(***************************************************************************)
EXTENDS Posture, LiveDomains

CONSTANTS
    Tables,     \* the contents of the application's tables and settings
    Installed,  \* those it starts from
    Probes,     \* what the probes of services and containers may find
    Verifier,   \* verifications in flight
    Syncer,     \* syncs in flight
    Account,    \* integration accounts
    Mode,       \* their auth_mode: "internal", "dry_run" or "live"
    Configured, \* those of them that have a configuration
    Budgets     \* bounds, one of which a behaviour stays within:
                \* [scans, runs, syncs, changes]

VARIABLES
    app,        \* the application's tables and settings
    newest,     \* the newest SecurityRuntimeSnapshot: [source, at]
    verify,     \* verifier -> what it has read
    checks,     \* VerificationCheck: the keys of the rows
    stored,     \* VerificationResult: the latest of each check, [run, result]
    sync,       \* syncer -> what it has counted
    accounts,   \* IntegrationAccount: the accounts that exist
    posture,    \* ControlTelemetryPosture: account -> [run, status] or NoValue
    drift,      \* active DriftRecord rows: [account, run, scope]
    runs, syncs, changes,  \* verifications and syncs begun, changes of `app` and `accounts`
    since,      \* history: verifications begun before what they read last changed
    finished    \* history: the latest of the verifications that were committed

ledger == vars
verification == <<verify, checks, stored, runs, finished>>
integration == <<sync, accounts, posture, drift, syncs>>
mvars == <<ledger, app, newest, verification, integration, changes, since>>

\* Some budget allows for that many of each.
Within(s, r, y, c) == \E b \in Budgets : s <= b.scans /\ r <= b.runs /\ y <= b.syncs /\ c <= b.changes

Resting == [at |-> "idle", run |-> 0, results |-> <<>>, source |-> NoValue, known |-> {}]
Quiet == [at |-> "idle", account |-> NoValue, run |-> 0, tables |-> NoValue, probe |-> NoValue,
          old |-> {}]

MInit ==
    /\ Init
    /\ app \in Installed
    /\ newest = [source |-> NoValue, at |-> 0]
    /\ verify = [v \in Verifier |-> Resting]
    /\ checks = {} /\ stored = <<>>
    /\ sync = [s \in Syncer |-> Quiet]
    /\ accounts = Account
    /\ posture = [a \in Account |-> NoValue]
    /\ drift = {}
    /\ runs = 0 /\ syncs = 0 /\ changes = 0
    /\ since = 0 /\ finished = 0

----------------------------------------------------------------------------
(* What is verified: the application and the ingested posture.             *)

\* People and jobs change accounts, tokens, events, runs, documents ...
Change(t) ==
    /\ app # t
    /\ Within(scans, runs, syncs, changes + 1)
    /\ app' = t
    /\ changes' = changes + 1
    /\ since' = runs
    /\ UNCHANGED <<ledger, newest, verification, integration>>

\* A step of a request that ingests a snapshot.  A snapshot of a running system is
\* the newest one unless one was collected later, by its collector's clock.
Ingest ==
    /\ Next
    /\ Within(scans', runs, syncs, changes)
    /\ newest' = LET later == {m \in used' \ used : m.kind = "runtime" /\ m.collected_at >= newest.at}
                 IN  IF later = {} THEN newest
                     ELSE LET m == CHOOSE x \in later : TRUE
                          IN  [source |-> m.source, at |-> m.collected_at]
    /\ since' = IF <<rows', newest'>> = <<rows, newest>> THEN since ELSE runs
    /\ UNCHANGED <<app, verification, integration, changes>>

----------------------------------------------------------------------------
(* Verification.                                                           *)

\* What is found is added to what was, in place of older entries.
Updated(found, f) == [k \in DOMAIN found \cup DOMAIN f |-> IF k \in DOMAIN found THEN found[k] ELSE f[k]]

Reads(v, step, next, found) ==
    /\ verify[v].at = step
    /\ verify' = [verify EXCEPT ![v].at = next, ![v].results = Updated(found, @)]
    /\ UNCHANGED <<ledger, app, newest, checks, stored, integration, runs, changes, since, finished>>

\* `now` is taken before anything is read.
Verify(v) ==
    /\ verify[v].at = "idle"
    /\ Within(scans, runs + 1, syncs, changes)
    /\ runs' = runs + 1
    /\ verify' = [verify EXCEPT ![v] = [Resting EXCEPT !.at = "identity", !.run = runs + 1]]
    /\ UNCHANGED <<ledger, app, newest, checks, stored, integration, changes, since, finished>>

ReadIdentity(v) ==
    Reads(v, "identity", "jobs",
          [verify_privileged_mfa_coverage |-> MfaCoverage(app),
           verify_refresh_token_hygiene |-> TokenHygiene(app),
           verify_security_headers_emitted |-> HeadersEmitted(app)])
ReadJobs(v) == Reads(v, "jobs", "documents", [verify_ingestion_pipeline_health |-> PipelineHealth(app)])
ReadDocuments(v) ==
    Reads(v, "documents", "detections", [verify_evidence_storage_posture |-> StoragePosture(app)])
ReadDetections(v) ==
    Reads(v, "detections", "snapshot", [verify_detection_backlog |-> DetectionBacklog(app)])

\* The newest runtime snapshot names the collector ...
ReadSnapshot(v) ==
    /\ verify[v].at = "snapshot"
    /\ verify' = [verify EXCEPT ![v].at = "runtime", ![v].source = newest.source]
    /\ UNCHANGED <<ledger, app, newest, checks, stored, integration, runs, changes, since, finished>>

\* ... whose open findings are looked through for titles of hardening findings (those
\* of root and of privileged mode are worded otherwise) and of missing updates.
Hardening == {"containers_drop_caps", "containers_read_only", "immutable_image_tags",
              "container_healthchecks", "containers_port_exposure"}
OpenOf(s) == {r.key : r \in {x \in rows : x.source = s}}
RuntimeResults(open) ==
    LET hardened == [verify_container_runtime_hardening |-> Graded(open \cap Hardening # {}, FALSE)]
    IN  IF "host_patching" \in open THEN Updated([verify_host_patch_backlog |-> "fail"], hardened)
        ELSE hardened
ReadRuntime(v) == Reads(v, "runtime", "ensure", RuntimeResults(OpenOf(verify[v].source)))

\* _ensure_verification_check: looks for the row of each check ...
Ensure(v) ==
    /\ verify[v].at = "ensure"
    /\ verify' = [verify EXCEPT ![v].at = "store", ![v].known = checks]
    /\ UNCHANGED <<ledger, app, newest, checks, stored, integration, runs, changes, since, finished>>

\* ... and inserts the missing ones, unless another verification has done so.
Missing(v) == DOMAIN verify[v].results \ verify[v].known

\* (seeded fault: of each check the result stored last is shown)
StoredLast(v, k) == TRUE

\* The results are committed; of each check the one verified last is shown.
Later(v, k) == k \in DOMAIN stored => stored[k].run <= verify[v].run
StoreResults(v) ==
    /\ verify[v].at = "store" /\ Missing(v) \cap checks = {}
    /\ checks' = checks \cup Missing(v)
    /\ stored' = Updated([k \in {x \in DOMAIN verify[v].results : Later(v, x)} |->
                            [run |-> verify[v].run, result |-> verify[v].results[k]]], stored)
    /\ finished' = IF finished < verify[v].run THEN verify[v].run ELSE finished
    /\ verify' = [verify EXCEPT ![v] = Resting]
    /\ UNCHANGED <<ledger, app, newest, integration, runs, changes, since>>

\* The unique key of the checks takes the whole verification back.
LoseResults(v) ==
    /\ verify[v].at = "store" /\ Missing(v) \cap checks # {}
    /\ verify' = [verify EXCEPT ![v] = Resting]
    /\ UNCHANGED <<ledger, app, newest, checks, stored, integration, runs, changes, since, finished>>

----------------------------------------------------------------------------
(* Integration accounts: run_integration_sync and                          *)
(* delete_integration_account.                                             *)

\* The run's row is inserted: it references an account that exists.
Begin(s, a) ==
    /\ sync[s].at = "idle"
    /\ a \in accounts
    /\ Within(scans, runs, syncs + 1, changes)
    /\ syncs' = syncs + 1
    /\ sync' = [sync EXCEPT ![s] = [Quiet EXCEPT !.at = IF Mode[a] = "internal" THEN "count" ELSE "upsert",
                                                 !.account = a, !.run = syncs + 1]]
    /\ UNCHANGED <<ledger, app, newest, verification, accounts, posture, drift, changes, since>>

SyncStep(s, e) ==
    /\ sync' = [sync EXCEPT ![s] = e]
    /\ UNCHANGED <<ledger, app, newest, verification, accounts, posture, drift, syncs, changes, since>>

\* _atobot_summary: the counts, then the probe.
Count(s) == sync[s].at = "count" /\ SyncStep(s, [sync[s] EXCEPT !.at = "probe", !.tables = app])
Probe(s, p) == sync[s].at = "probe" /\ SyncStep(s, [sync[s] EXCEPT !.at = "upsert", !.probe = p])

\* A transaction that has written posture rows of an account keeps them to its end.
HoldsPosture(p, a) == sync[p].at \in {"drift", "commit"} /\ sync[p].account = a

\* (seeded fault: a row that exists is looked up and changed at the end)
UpsertPostureUnlocked(s) ==
    sync[s].at = "upsert" /\ SyncStep(s, [sync[s] EXCEPT !.at = "drift"])

\* _persist_control_posture: each account has a fixed list of controls.
UpsertPosture(s) ==
    /\ sync[s].at = "upsert"
    /\ \A p \in Syncer : ~HoldsPosture(p, sync[s].account)
    /\ SyncStep(s, [sync[s] EXCEPT !.at = "drift"])

\* _persist_drift_records: the active records of the account are marked resolved.
ResolveDrift(s) ==
    /\ sync[s].at = "drift"
    /\ SyncStep(s, [sync[s] EXCEPT !.at = "commit",
                                   !.old = {d \in drift : d.account = sync[s].account}])

\* _build_control_postures and _build_drift_records by mode: a dry run plans, a live
\* connector is a scaffold that sees no records.
SupportOf(e) ==
    CASE Mode[e.account] = "internal" -> ControlSupport(e.tables, e.probe)
      [] Mode[e.account] = "dry_run" -> [planned |-> "planned"]
      [] Mode[e.account] = "live" -> [mapped |-> "partial"]
Scopes(e) ==
    CASE Mode[e.account] = "internal" ->
           ConnectorDrift(e.tables, e.probe)
             \cup (IF NothingSeen(e.tables) THEN {"no_records"} ELSE {})
      [] Mode[e.account] = "dry_run" -> {}
      [] Mode[e.account] = "live" ->
           {"no_records"} \cup (IF e.account \in Configured THEN {} ELSE {"no_configuration"})

Finish(s) ==
    /\ sync[s].at = "commit"
    /\ LET e == sync[s] IN
         /\ posture' = [posture EXCEPT ![e.account] = [run |-> e.run, status |-> SupportOf(e)]]
         /\ drift' = (drift \ e.old)
                       \cup {[account |-> e.account, run |-> e.run, scope |-> x] : x \in Scopes(e)}
    /\ sync' = [sync EXCEPT ![s] = Quiet]
    /\ UNCHANGED <<ledger, app, newest, verification, accounts, syncs, changes, since>>

\* A sync's run row keeps its account from being deleted; runs and drift go with it,
\* the posture rows stay.
Delete(a) ==
    /\ a \in accounts
    /\ Within(scans, runs, syncs, changes + 1)
    /\ changes' = changes + 1
    /\ \A s \in Syncer : sync[s].account # a
    /\ accounts' = accounts \ {a}
    /\ drift' = {d \in drift : d.account # a}
    /\ UNCHANGED <<ledger, app, newest, verification, sync, posture, syncs, since>>

\* An exception, a lost connection or the end of the web process.
Broken ==
    /\ faults < MaxFaults
    /\ faults' = faults + 1
    /\ \/ \E v \in Verifier :
            /\ verify[v].at # "idle"
            /\ verify' = [verify EXCEPT ![v] = Resting]
            /\ UNCHANGED sync
       \/ \E s \in Syncer :
            /\ sync[s].at # "idle"
            /\ sync' = [sync EXCEPT ![s] = Quiet]
            /\ UNCHANGED verify
    /\ UNCHANGED <<tables, rec, manual, ingest, scans, history, app, newest, checks, stored, accounts,
                   posture, drift, runs, syncs, changes, since, finished>>

MNext ==
    \/ Ingest
    \/ \E t \in Tables : Change(t)
    \/ \E v \in Verifier :
        \/ Verify(v)
        \/ ReadIdentity(v)
        \/ ReadJobs(v)
        \/ ReadDocuments(v)
        \/ ReadDetections(v)
        \/ ReadSnapshot(v)
        \/ ReadRuntime(v)
        \/ Ensure(v)
        \/ StoreResults(v)
        \/ LoseResults(v)
    \/ \E s \in Syncer :
        \/ \E a \in Account : Begin(s, a)
        \/ Count(s)
        \/ \E p \in Probes : Probe(s, p)
        \/ UpsertPosture(s)
        \/ ResolveDrift(s)
        \/ Finish(s)
    \/ \E a \in Account : Delete(a)
    \/ Broken

MSpec == MInit /\ [][MNext]_mvars

----------------------------------------------------------------------------
(* Properties.                                                             *)

\* What a verification that began now would find, undisturbed.
Truth ==
    Updated([verify_privileged_mfa_coverage |-> MfaCoverage(app),
             verify_refresh_token_hygiene |-> TokenHygiene(app),
             verify_security_headers_emitted |-> HeadersEmitted(app),
             verify_ingestion_pipeline_health |-> PipelineHealth(app),
             verify_evidence_storage_posture |-> StoragePosture(app),
             verify_detection_backlog |-> DetectionBacklog(app)],
            RuntimeResults(OpenOf(newest.source)))

\* The check that is run only while a finding of missing updates is open: it has no
\* result but "fail".
HostPatches == "verify_host_patch_backlog"

\* Once a verification that began after the last change has been committed, every check
\* that a verification runs shows the truth, whatever slower verifications are committed
\* later.  What else is shown is the backlog of host patches: after the host has been
\* patched nothing replaces its last result, and it goes on failing.  So no check is ever
\* wrongly shown to pass.
ShownIsCurrent ==
    finished > since =>
        /\ \A k \in DOMAIN Truth : k \in DOMAIN stored /\ stored[k].result = Truth[k]
        /\ \A k \in DOMAIN stored \ DOMAIN Truth : k = HostPatches /\ stored[k].result = "fail"

\* The posture rows of an account and its active drift are those of one and the same
\* sync, however syncs overlap, fail, or race the deletion of the account; a deleted
\* account has no active drift.
PostureOfOneSync ==
    /\ \A d \in drift : d.account \in accounts /\ d.run = posture[d.account].run
    /\ \A a \in accounts : Mode[a] = "internal" /\ posture[a] # NoValue =>
         LET scopes == {d.scope : d \in {x \in drift : x.account = a}}
         IN  /\ "critical_events" \in scopes <=> posture[a].status.AU6 = "partial"
             /\ "IA2" \in scopes => posture[a].status.IA2 = "partial"
             /\ posture[a].status.SI4 = "supported"
                  => scopes \cap {"job_health", "critical_events"} = {}

----------------------------------------------------------------------------
(* Inductive invariant, for the proofs.                                    *)

\* The type invariant: what the proofs need of the shape of the state.
MTypeOK ==
    /\ sync = [s \in Syncer |-> sync[s]] /\ \A s \in Syncer : DOMAIN sync[s] = DOMAIN Quiet
    /\ verify = [v \in Verifier |-> verify[v]]
    /\ \A v \in Verifier : DOMAIN verify[v] = DOMAIN Resting /\ verify[v].run \in 0..runs
    /\ accounts \subseteq Account /\ posture = [a \in Account |-> posture[a]]
    /\ runs \in Nat /\ since \in 0..runs /\ finished \in 0..runs
    /\ \A k \in DOMAIN stored : stored[k].run \in 0..runs

\* The posture rows that a sync has written keep the account's drift to it, and its run
\* row keeps the account.
SyncInv ==
    /\ \A s \in Syncer : sync[s].at # "idle" => sync[s].account \in accounts
    /\ \A p, s \in Syncer : \A a \in Account : p # s => ~(HoldsPosture(p, a) /\ HoldsPosture(s, a))
    /\ \A s \in Syncer : sync[s].at = "commit" =>
         sync[s].old = {d \in drift : d.account = sync[s].account}

\* A verification that began after the last change has read the truth so far, of every
\* check that the steps behind it are about.
Behind(v, steps) == verify[v].at \notin {"idle", "identity"} \cup steps
ReadTruth(v) ==
    LET read == DOMAIN verify[v].results IN
    /\ \A k \in read : k \in DOMAIN Truth /\ verify[v].results[k] = Truth[k]
    /\ Behind(v, {}) => {"verify_privileged_mfa_coverage", "verify_refresh_token_hygiene",
                         "verify_security_headers_emitted"} \subseteq read
    /\ Behind(v, {"jobs"}) => "verify_ingestion_pipeline_health" \in read
    /\ Behind(v, {"jobs", "documents"}) => "verify_evidence_storage_posture" \in read
    /\ Behind(v, {"jobs", "documents", "detections"}) => "verify_detection_backlog" \in read
    /\ verify[v].at = "runtime" => verify[v].source = newest.source
    /\ verify[v].at \in {"ensure", "store"} => DOMAIN Truth \subseteq read

\* So has what is shown of such verifications; once one is committed, all of it is.
ShownInv ==
    /\ \A v \in Verifier : verify[v].run > since => ReadTruth(v)
    /\ \A k \in DOMAIN stored : stored[k].run > since => k \in DOMAIN Truth /\ stored[k].result = Truth[k]
    /\ finished > since => \A k \in DOMAIN Truth : k \in DOMAIN stored /\ stored[k].run > since

\* Whenever it was found, a result is of a check that every verification runs, or it is
\* a backlog of host patches.
Always == {"verify_privileged_mfa_coverage", "verify_refresh_token_hygiene",
           "verify_security_headers_emitted", "verify_ingestion_pipeline_health",
           "verify_evidence_storage_posture", "verify_detection_backlog",
           "verify_container_runtime_hardening"}
Answers(k, result) == k \in Always \/ (k = HostPatches /\ result = "fail")
KindInv ==
    /\ \A v \in Verifier : \A k \in DOMAIN verify[v].results : Answers(k, verify[v].results[k])
    /\ \A k \in DOMAIN stored : Answers(k, stored[k].result)
=============================================================================
