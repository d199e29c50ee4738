------------------------------- MODULE Posture -------------------------------
(***************************************************************************)
(* Ingestion of security-posture snapshots                                 *)
(* (services/security_telemetry.py, api/security/telemetry.py).            *)
(*                                                                         *)
(* Collectors send signed snapshots of the running system or of a build,   *)
(* possibly more than once; people post build snapshots by hand.  Each     *)
(* request is one transaction of several statements: it notes the nonce,   *)
(* touches its collector and the assets it saw, compares their settings    *)
(* with the tracked ones, closes the open findings of its source, adds its *)
(* own, and rebuilds the project's recommendations out of all open         *)
(* findings - with calls of the language model between reading and writing.*)
(* What keeps two requests apart is nothing but unique keys and the row    *)
(* locks that the first writes of a transaction hold to its end; each      *)
(* statement reads what is committed when it starts (READ COMMITTED).      *)
(*                                                                         *)
(* One project; an asset's settings are one value, a finding is known by   *)
(* its recommendation's key, scores and texts are left out.                *)
(***************************************************************************)
EXTENDS Sequences, Naturals, FiniteSets

CONSTANTS
    Signed,     \* the snapshots that collectors send, each under its own nonce:
                \* [source, assets: Seq(Asset), value: [Asset -> Value], keys: SUBSET Key]
    Manual,     \* the build snapshots that people post, without a source
    Collector,  \* the collectors that sign snapshots
    Asset,
    Key,        \* keys of recommendations
    Component,  \* the asset that every build snapshot touches
    NoValue,    \* of a setting that nobody has observed
    Request,    \* API requests in flight
    MaxScans,   \* bound on the snapshots received
    MaxManual,  \* bound on collectors made for manual builds
    MaxFaults   \* bound on requests that fail for a reason outside the model

Snapshot == Signed \cup Manual
Source == Collector \cup (1..MaxManual)   \* collectors made for manual builds are numbered

ASSUME CollectorAssumption == Collector \cap (Nat \cup {NoValue}) = {}
ASSUME SnapshotAssumption ==
    /\ \A m \in Snapshot :
         m.assets \in Seq(Asset) /\ NoValue \notin {m.value[a] : a \in Asset} /\ m.keys \subseteq Key
    /\ \A m \in Signed : m.source \in Collector
    /\ \A m \in Manual : m.source = NoValue /\ Component \in {m.assets[i] : i \in DOMAIN m.assets}
ASSUME BoundsAssumption == MaxScans \in Nat /\ MaxManual \in Nat /\ MaxFaults \in Nat

VARIABLES
    rows,       \* open SecurityFinding rows: [source, key, scan]
    setting,    \* SecurityTrackedSetting: [Asset -> value or NoValue]
    events,     \* SecurityChangeEvent: [Asset -> sequence of <<old, new>>]
    used,       \* SecurityCollectorNonce: the signed snapshots committed
    rec,        \* SecurityRecommendation: [Key -> "none", "open" or "completed"]
    manual,     \* number of collectors registered for manual builds
    ingest,     \* request -> what it has read and means to write
    scans,      \* snapshots received so far
    faults,     \* failures so far
    late,       \* history: requests that were overtaken since they began to rebuild
    overtaken   \* history: the snapshot committed last was one of them

tables == <<rows, setting, events, used>>
counts == <<scans, faults>>
history == <<late, overtaken>>
vars == <<tables, rec, manual, ingest, counts, history>>

Idle == [at |-> "idle", snap |-> NoValue, source |-> 0, scan |-> 0, locked |-> 0,
         old |-> [a \in Asset |-> NoValue], closed |-> {}, open |-> {},
         loaded |-> [k \in Key |-> "none"]]

Init ==
    /\ rows = {}
    /\ setting = [a \in Asset |-> NoValue]
    /\ events = [a \in Asset |-> <<>>]
    /\ used = {}
    /\ rec = [k \in Key |-> "none"]
    /\ manual = 0
    /\ ingest = [q \in Request |-> Idle]
    /\ scans = 0 /\ faults = 0
    /\ late = {} /\ overtaken = FALSE

Seen(m) == {m.assets[i] : i \in DOMAIN m.assets}
At(q, step) == ingest[q].at = step
Recorded(q) == ingest[q].at \in {"rebuild", "recommend", "write"}

----------------------------------------------------------------------------
(* Row locks and unique keys: a transaction keeps what it wrote to itself  *)
(* until it ends.                                                          *)

HoldsNonce(p, m) == ~At(p, "idle") /\ ~At(p, "nonce") /\ ingest[p].snap = m
HoldsCollector(p, c) == (At(p, "assets") \/ Recorded(p)) /\ ingest[p].source = c
HoldsAsset(p, a) ==
    \/ Recorded(p) /\ a \in Seen(ingest[p].snap)
    \/ At(p, "assets") /\ \E i \in 1..ingest[p].locked : ingest[p].snap.assets[i] = a

\* The asset that request q writes next.
Coming(q) == ingest[q].snap.assets[ingest[q].locked + 1]
AllWritten(q) == ingest[q].locked = Len(ingest[q].snap.assets)

\* Whom request q waits for.
Blocks(p, q) ==
    /\ p # q
    /\ \/ At(q, "nonce") /\ HoldsNonce(p, ingest[q].snap)
       \/ At(q, "collector") /\ HoldsCollector(p, ingest[q].source)
       \/ At(q, "assets") /\ ~AllWritten(q) /\ HoldsAsset(p, Coming(q))
Free(q) == \A p \in Request : ~Blocks(p, q)

Goes(q, r) == ingest' = [ingest EXCEPT ![q] = r]
Ends(q) == Goes(q, Idle) /\ late' = late \ {q} /\ UNCHANGED overtaken

----------------------------------------------------------------------------
(* The request.                                                            *)

\* verify_security_ingest_signature: a nonce that is stored already is turned away.
Receive(q, m) ==
    /\ At(q, "idle")
    /\ scans < MaxScans
    /\ m \notin used
    /\ Goes(q, [Idle EXCEPT !.at = "nonce", !.snap = m, !.source = m.source, !.scan = scans + 1])
    /\ scans' = scans + 1
    /\ UNCHANGED <<tables, rec, manual, faults, history>>

\* The nonce's row is inserted: a duplicate under way is waited for, and one that was
\* committed meanwhile violates the unique key.
InsertNonce(q) ==
    /\ At(q, "nonce") /\ Free(q)
    /\ Goes(q, IF ingest[q].snap \in used THEN Idle ELSE [ingest[q] EXCEPT !.at = "collector"])
    /\ UNCHANGED <<tables, rec, manual, counts, history>>

\* last_seen_at of the collector is written with the first flush.
TouchCollector(q) ==
    /\ At(q, "collector") /\ Free(q)
    /\ Goes(q, [ingest[q] EXCEPT !.at = "assets"])
    /\ UNCHANGED <<tables, rec, manual, counts, history>>

\* create_build_snapshot: the newest collector for manual builds, or a new one.
Post(q, m) ==
    /\ At(q, "idle")
    /\ scans < MaxScans
    /\ Goes(q, [Idle EXCEPT !.at = IF manual = 0 THEN "register" ELSE "assets",
                            !.snap = m, !.source = manual, !.scan = scans + 1])
    /\ scans' = scans + 1
    /\ UNCHANGED <<tables, rec, manual, faults, history>>

\* register_security_collector commits the new collector by itself.
Register(q) ==
    /\ At(q, "register") /\ manual < MaxManual
    /\ manual' = manual + 1
    /\ Goes(q, [ingest[q] EXCEPT !.at = "assets", !.source = manual + 1])
    /\ UNCHANGED <<tables, rec, counts, history>>

\* (seeded fault: a row that exists is looked up and not written)
UpsertUnlocked(q) ==
    /\ At(q, "assets") /\ ~AllWritten(q)
    /\ Goes(q, [ingest[q] EXCEPT !.locked = @ + 1])
    /\ UNCHANGED <<tables, rec, manual, counts, history>>

\* _upsert_asset, for the assets in the order in which the snapshot names them.
UpsertAsset(q) ==
    /\ At(q, "assets") /\ ~AllWritten(q) /\ Free(q)
    /\ Goes(q, [ingest[q] EXCEPT !.locked = @ + 1])
    /\ UNCHANGED <<tables, rec, manual, counts, history>>

\* _record_setting for every setting of the assets; then the open findings of the
\* source are marked resolved.
Record(q) ==
    /\ At(q, "assets") /\ AllWritten(q)
    /\ Goes(q, [ingest[q] EXCEPT
         !.at = "rebuild",
         !.old = [a \in Asset |-> IF a \in Seen(ingest[q].snap) THEN setting[a] ELSE NoValue],
         !.closed = {r \in rows : r.source = ingest[q].source}])
    /\ UNCHANGED <<tables, rec, manual, counts, history>>

\* (seeded fault: the rebuild looks at the findings of its own source)
ReadOwnFindings(q) ==
    /\ At(q, "rebuild")
    /\ Goes(q, [ingest[q] EXCEPT !.at = "recommend", !.open = ingest[q].snap.keys])
    /\ UNCHANGED <<tables, rec, manual, counts, history>>

\* _rebuild_project_recommendations reads the open findings, its own among them ...
ReadFindings(q) ==
    /\ At(q, "rebuild")
    /\ Goes(q, [ingest[q] EXCEPT
         !.at = "recommend",
         !.open = {r.key : r \in rows \ ingest[q].closed} \cup ingest[q].snap.keys])
    /\ UNCHANGED <<tables, rec, manual, counts, history>>

\* ... then the recommendations, and asks the model for guidance on each group.
ReadRecommendations(q) ==
    /\ At(q, "recommend")
    /\ Goes(q, [ingest[q] EXCEPT !.at = "write", !.loaded = rec])
    /\ UNCHANGED <<tables, rec, manual, counts, history>>

\* What the rebuild makes of a recommendation's status.
Rebuilt(e, k) ==
    CASE k \in e.open -> "open"
      [] k \notin e.open /\ e.loaded[k] # "none" -> "completed"
      [] OTHER -> "none"

\* A new recommendation whose key somebody else has stored meanwhile.
Clash(e) == \E k \in e.open : e.loaded[k] = "none" /\ rec[k] # "none"

\* The findings and settings of a snapshot, and an event for each changed setting.
Store(e) ==
    /\ rows' = (rows \ e.closed)
                 \cup {[source |-> e.source, key |-> k, scan |-> e.scan] : k \in e.snap.keys}
    /\ setting' = [a \in Asset |-> IF a \in Seen(e.snap) THEN e.snap.value[a] ELSE setting[a]]
    /\ events' = [a \in Asset |->
                    IF a \in Seen(e.snap) /\ e.old[a] \notin {NoValue, e.snap.value[a]}
                    THEN Append(events[a], <<e.old[a], e.snap.value[a]>>) ELSE events[a]]
    /\ used' = used \cup ({e.snap} \cap Signed)

\* The commit writes of each recommendation the columns that differ from the loaded ones.
Commit(q) ==
    /\ At(q, "write") /\ ~Clash(ingest[q])
    /\ Store(ingest[q])
    /\ rec' = [k \in Key |-> IF Rebuilt(ingest[q], k) = ingest[q].loaded[k] THEN rec[k]
                             ELSE Rebuilt(ingest[q], k)]
    /\ Goes(q, Idle)
    /\ late' = (late \cup {p \in Request : At(p, "recommend") \/ At(p, "write")}) \ {q}
    /\ overtaken' = (q \in late)
    /\ UNCHANGED <<manual, counts>>

\* The unique key of the recommendations takes the whole snapshot back.
RollBack(q) ==
    /\ At(q, "write") /\ Clash(ingest[q])
    /\ Ends(q)
    /\ UNCHANGED <<tables, rec, manual, counts>>

\* The database ends one of two transactions that wait for each other.
Victim(q) ==
    /\ \E p \in Request : Blocks(p, q) /\ Blocks(q, p)
    /\ Ends(q)
    /\ UNCHANGED <<tables, rec, manual, counts>>

\* An exception, a lost connection or the end of the web process.
Fail(q) ==
    /\ ~At(q, "idle") /\ faults < MaxFaults
    /\ Ends(q)
    /\ faults' = faults + 1
    /\ UNCHANGED <<tables, rec, manual, scans>>

Next ==
    \E q \in Request :
        \/ \E m \in Signed : Receive(q, m)
        \/ \E m \in Manual : Post(q, m)
        \/ InsertNonce(q)
        \/ TouchCollector(q)
        \/ Register(q)
        \/ UpsertAsset(q)
        \/ Record(q)
        \/ ReadFindings(q)
        \/ ReadRecommendations(q)
        \/ Commit(q)
        \/ RollBack(q)
        \/ Victim(q)
        \/ Fail(q)

Spec == Init /\ [][Next]_vars
----------------------------------------------------------------------------
(* Properties.                                                             *)

\* Whatever requests interleave, fail or come twice, the findings, the settings and
\* their change events are those of snapshots taken whole, one after the other: a
\* source shows the findings of its last snapshot, once; each change event starts
\* where the one before it ended; a signed snapshot counts once.
Ledger == INSTANCE PostureLedger WITH Scan <- 1..MaxScans
LedgerSpec == Ledger!Spec

\* A recommendation is open if and only if one of its findings is, unless another
\* snapshot was committed between the last rebuild's reading and its commit.
RecommendationsFollow ==
    ~overtaken => \A k \in Key : rec[k] = "open" <=> \E r \in rows : r.key = k

----------------------------------------------------------------------------
(* Inductive invariant, for the proofs.                                    *)

Value == {m.value[a] : m \in Snapshot, a \in Asset}
Rows == [source : Source, key : Key, scan : 1..MaxScans]
Requests ==
    [at : {"idle", "nonce", "collector", "register", "assets", "rebuild", "recommend", "write"},
     snap : Snapshot \cup {NoValue}, source : Source \cup {0}, scan : 0..MaxScans, locked : Nat,
     old : [Asset -> Value \cup {NoValue}], closed : SUBSET Rows, open : SUBSET Key,
     loaded : [Key -> {"none", "open", "completed"}]]

\* The type invariant.
TypeOK ==
    /\ rows \subseteq Rows
    /\ setting \in [Asset -> Value \cup {NoValue}]
    /\ events \in [Asset -> Seq(Value \X Value)]
    /\ used \subseteq Signed
    /\ rec \in [Key -> {"none", "open", "completed"}]
    /\ manual \in 0..MaxManual
    /\ ingest \in [Request -> Requests]
    /\ scans \in 0..MaxScans /\ faults \in 0..MaxFaults
    /\ late \subseteq Request /\ overtaken \in BOOLEAN

\* A request that has begun has a snapshot and a number; it signs as its collector.
Formed(q) ==
    ~At(q, "idle") =>
        /\ ingest[q].snap \in Snapshot /\ ingest[q].scan \in 1..MaxScans
        /\ ingest[q].snap \in Signed => ingest[q].source = ingest[q].snap.source
        /\ ingest[q].snap \in Manual => ingest[q].source \in 0..MaxManual
        /\ At(q, "nonce") \/ At(q, "collector") => ingest[q].snap \in Signed
        /\ At(q, "register") => ingest[q].snap \in Manual
        /\ At(q, "assets") \/ Recorded(q) => ingest[q].source \in Source
        /\ At(q, "nonce") \/ At(q, "collector") \/ At(q, "register") => ingest[q].locked = 0

\* The locks exclude each other.
Exclusive(p, q) ==
    p # q =>
        /\ \A m \in Signed : ~(HoldsNonce(p, m) /\ HoldsNonce(q, m))
        /\ \A c \in Collector : ~(HoldsCollector(p, c) /\ HoldsCollector(q, c))
        /\ \A a \in Asset : ~(HoldsAsset(p, a) /\ HoldsAsset(q, a))

\* What a request has read under its locks is still so.
Current(q) ==
    /\ ingest[q].snap \in Signed /\ HoldsNonce(q, ingest[q].snap) => ingest[q].snap \notin used
    /\ Recorded(q) =>
         /\ \A a \in Seen(ingest[q].snap) : ingest[q].old[a] = setting[a]
         /\ ingest[q].closed = {r \in rows : r.source = ingest[q].source}

LockInv ==
    /\ \A q \in Request : Formed(q) /\ Current(q)
    /\ \A p, q \in Request : Exclusive(p, q)

\* What a request has read for its rebuild is still so, unless another was committed.
RebuildInv ==
    \A q \in Request \ late :
        /\ At(q, "recommend") \/ At(q, "write") =>
             ingest[q].open = {r.key : r \in rows \ ingest[q].closed} \cup ingest[q].snap.keys
        /\ At(q, "write") => ingest[q].loaded = rec
=============================================================================
