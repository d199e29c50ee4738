---------------------------- MODULE PostureProofs ----------------------------
(***************************************************************************)
(* Theorems about the ingestion of posture snapshots, for any snapshots,   *)
(* collectors, assets, requests and bounds.                                *)
(***************************************************************************)
EXTENDS Posture, SequenceTheorems, TLAPS

----------------------------------------------------------------------------
(* Types.                                                                  *)

\* What the assumptions say of a snapshot.
LEMMA SnapshotType ==
  ASSUME NEW m \in Snapshot
  PROVE  /\ \A a \in Asset : m.value[a] \in Value /\ m.value[a] # NoValue
         /\ Seen(m) \subseteq Asset /\ m.keys \subseteq Key
         /\ m \in Signed => m.source \in Collector
         /\ m \in Manual => Component \in Seen(m) /\ Component \in Asset
<1>1. \A a \in Asset : m.value[a] \in Value /\ m.value[a] # NoValue
  BY SnapshotAssumption DEF Value
<1>2. m.assets \in Seq(Asset) /\ m.keys \subseteq Key
  BY SnapshotAssumption
<1>3. Seen(m) \subseteq Asset
  BY <1>2, ElementOfSeq DEF Seen
<1>4. m \in Signed => m.source \in Collector
  BY SnapshotAssumption
<1>5. m \in Manual => Component \in Seen(m)
  BY SnapshotAssumption DEF Seen
<1> QED BY <1>1, <1>2, <1>3, <1>4, <1>5

LEMMA SourceType == 0 \notin Source /\ Collector \subseteq Source /\ 1..MaxManual \subseteq Source
  BY CollectorAssumption, BoundsAssumption DEF Source

LEMMA DisjointType == Signed \cap Manual = {}
  BY CollectorAssumption, SnapshotAssumption

LEMMA IdleType == Idle \in Requests
  BY BoundsAssumption DEF Idle, Requests

\* The records that requests become.
LEMMA BegunType ==
  ASSUME NEW at \in {"nonce", "register", "assets"}, NEW m \in Snapshot,
         NEW s \in Source \cup {0}, NEW n \in 0..MaxScans
  PROVE  [Idle EXCEPT !.at = at, !.snap = m, !.source = s, !.scan = n] \in Requests
  BY IdleType DEF Requests

LEMMA MovedType ==
  ASSUME NEW e \in Requests
  PROVE  /\ [e EXCEPT !.at = "collector"] \in Requests
         /\ [e EXCEPT !.at = "assets"] \in Requests
         /\ \A s \in Source : [e EXCEPT !.at = "assets", !.source = s] \in Requests
         /\ [e EXCEPT !.locked = @ + 1] \in Requests
<1>1. [e EXCEPT !.at = "collector"] \in Requests
  BY DEF Requests
<1>2. [e EXCEPT !.at = "assets"] \in Requests
  BY DEF Requests
<1>3. ASSUME NEW s \in Source PROVE [e EXCEPT !.at = "assets", !.source = s] \in Requests
  BY DEF Requests
<1>4. [e EXCEPT !.locked = @ + 1] \in Requests
  BY DEF Requests
<1> QED BY <1>1, <1>2, <1>3, <1>4

LEMMA ReadType ==
  ASSUME NEW e \in Requests
  PROVE  /\ \A old \in [Asset -> Value \cup {NoValue}], closed \in SUBSET Rows :
              [e EXCEPT !.at = "rebuild", !.old = old, !.closed = closed] \in Requests
         /\ \A open \in SUBSET Key : [e EXCEPT !.at = "recommend", !.open = open] \in Requests
         /\ \A loaded \in [Key -> {"none", "open", "completed"}] :
              [e EXCEPT !.at = "write", !.loaded = loaded] \in Requests
<1>1. ASSUME NEW old \in [Asset -> Value \cup {NoValue}], NEW closed \in SUBSET Rows
      PROVE  [e EXCEPT !.at = "rebuild", !.old = old, !.closed = closed] \in Requests
  BY DEF Requests
<1>2. ASSUME NEW open \in SUBSET Key
      PROVE  [e EXCEPT !.at = "recommend", !.open = open] \in Requests
  BY DEF Requests
<1>3. ASSUME NEW loaded \in [Key -> {"none", "open", "completed"}]
      PROVE  [e EXCEPT !.at = "write", !.loaded = loaded] \in Requests
  BY DEF Requests
<1> QED BY <1>1, <1>2, <1>3

LEMMA GoesType ==
  ASSUME TypeOK, NEW q \in Request, NEW r \in Requests, Goes(q, r)
  PROVE  /\ ingest' \in [Request -> Requests]
         /\ ingest'[q] = r
         /\ \A p \in Request \ {q} : ingest'[p] = ingest[p]
  BY DEF TypeOK, Goes

\* The types, and what follows from a request's stage: one invariant.
Typed == TypeOK /\ \A q \in Request : Formed(q)

LEMMA TypedInit == Init => Typed
<1> SUFFICES ASSUME Init PROVE Typed
  OBVIOUS
<1>1. events \in [Asset -> Seq(Value \X Value)]
  BY DEF Init
<1>2. ingest \in [Request -> Requests]
  BY IdleType DEF Init
<1>3. rows \subseteq Rows /\ used \subseteq Signed /\ late \subseteq Request
  BY DEF Init
<1>4. /\ setting \in [Asset -> Value \cup {NoValue}]
      /\ rec \in [Key -> {"none", "open", "completed"}]
  BY DEF Init
<1>5. manual \in 0..MaxManual /\ scans \in 0..MaxScans /\ faults \in 0..MaxFaults
  <2>1. manual = 0 /\ scans = 0 /\ faults = 0
    BY DEF Init
  <2> QED BY <2>1, BoundsAssumption
<1>8. overtaken \in BOOLEAN
  BY DEF Init
<1>6. TypeOK
  BY <1>1, <1>2, <1>3, <1>4, <1>5, <1>8 DEF TypeOK
<1>7. \A q \in Request : Formed(q)
  BY DEF Init, Formed, At, Idle
<1> QED BY <1>6, <1>7 DEF Typed

\* The tables after a commit.
LEMMA StoreType ==
  ASSUME TypeOK, NEW e \in Requests, e.snap \in Snapshot, e.source \in Source,
         e.scan \in 1..MaxScans, Store(e)
  PROVE  /\ rows' \subseteq Rows
         /\ setting' \in [Asset -> Value \cup {NoValue}]
         /\ events' \in [Asset -> Seq(Value \X Value)]
         /\ used' \subseteq Signed
<1>1. rows' \subseteq Rows
  BY SnapshotType DEF Store, TypeOK, Rows
<1>2. setting' \in [Asset -> Value \cup {NoValue}]
  BY SnapshotType DEF Store, TypeOK
<1>3. used' \subseteq Signed
  BY DEF Store, TypeOK
<1>4. ASSUME NEW a \in Asset
      PROVE  (IF a \in Seen(e.snap) /\ e.old[a] \notin {NoValue, e.snap.value[a]}
              THEN Append(events[a], <<e.old[a], e.snap.value[a]>>) ELSE events[a])
             \in Seq(Value \X Value)
  <2>1. events[a] \in Seq(Value \X Value)
    BY DEF TypeOK
  <2>2. e.old[a] \in Value \cup {NoValue} /\ e.snap.value[a] \in Value
    BY SnapshotType DEF Requests
  <2>3. CASE e.old[a] # NoValue
    <3>1. <<e.old[a], e.snap.value[a]>> \in Value \X Value
      BY <2>2, <2>3
    <3> QED BY <2>1, <3>1, AppendProperties
  <2>4. CASE e.old[a] = NoValue
    BY <2>1, <2>4
  <2> QED BY <2>3, <2>4
<1>5. events' \in [Asset -> Seq(Value \X Value)]
  BY <1>4 DEF Store
<1> QED BY <1>1, <1>2, <1>3, <1>5

LEMMA TypedStep == Typed /\ [Next]_vars => Typed'
<1> SUFFICES ASSUME Typed, [Next]_vars PROVE Typed'
  OBVIOUS
<1>0. TypeOK /\ ingest \in [Request -> Requests] /\ \A q \in Request : Formed(q)
  BY DEF Typed, TypeOK
\* A step of request q that leaves the other requests alone.
<1>01. ASSUME NEW q \in Request, NEW r \in Requests, Goes(q, r), TypeOK', Formed(q)'
      PROVE  Typed'
  BY <1>01, <1>0, GoesType DEF Typed, Formed, At, Recorded
<1>02. ASSUME NEW q \in Request, NEW r \in Requests, Goes(q, r), UNCHANGED tables,
             rec' \in [Key -> {"none", "open", "completed"}], manual' \in 0..MaxManual,
             scans' \in 0..MaxScans, faults' \in 0..MaxFaults, late' \subseteq Request,
             overtaken' \in BOOLEAN
      PROVE  TypeOK'
  BY <1>02, <1>0, GoesType DEF TypeOK, tables
<1>03. ASSUME NEW q \in Request PROVE ingest[q] \in Requests /\ Formed(q)
  BY <1>0
<1>1. ASSUME NEW q \in Request, NEW m \in Signed, Receive(q, m) PROVE Typed'
  <2> DEFINE r == [Idle EXCEPT !.at = "nonce", !.snap = m, !.source = m.source, !.scan = scans + 1]
  <2>1. m \in Snapshot /\ m \notin Manual /\ m.source \in Source /\ scans + 1 \in 1..MaxScans
    BY <1>1, <1>0, SnapshotType, SourceType, DisjointType, BoundsAssumption
       DEF Receive, TypeOK, Snapshot, counts
  <2>2. r \in Requests
    <3>1. m.source \in Source \cup {0} /\ scans + 1 \in 0..MaxScans
      BY <2>1, BoundsAssumption
    <3> QED BY <2>1, <3>1, BegunType
  <2>3. r.at = "nonce" /\ r.snap = m /\ r.source = m.source /\ r.scan = scans + 1 /\ r.locked = 0
    BY DEF Idle
  <2> HIDE DEF r
  <2>4. Goes(q, r)
    BY <1>1 DEF Receive, r
  <2>5. TypeOK'
    BY <1>1, <1>02, <1>0, <2>1, <2>2, <2>4, BoundsAssumption DEF Receive, TypeOK, history
  <2>6. Formed(q)'
    BY <1>0, <2>1, <2>2, <2>3, <2>4, GoesType DEF Formed, At, Recorded
  <2> QED BY <1>01, <2>2, <2>4, <2>5, <2>6
<1>2. ASSUME NEW q \in Request, NEW m \in Manual, Post(q, m) PROVE Typed'
  <2> DEFINE at == IF manual = 0 THEN "register" ELSE "assets"
             r == [Idle EXCEPT !.at = at, !.snap = m, !.source = manual, !.scan = scans + 1]
  <2>1. /\ m \in Snapshot /\ m \notin Signed /\ scans + 1 \in 1..MaxScans
        /\ manual \in 0..MaxManual /\ (manual # 0 => manual \in Source)
        /\ at \in {"register", "assets"}
    BY <1>2, <1>0, SourceType, DisjointType, BoundsAssumption
       DEF Post, TypeOK, Snapshot, counts
  <2> HIDE DEF at
  <2>2. r \in Requests
    <3>1. /\ manual \in Source \cup {0} /\ scans + 1 \in 0..MaxScans
          /\ at \in {"nonce", "register", "assets"}
      BY <2>1, BoundsAssumption
    <3> QED BY <2>1, <3>1, BegunType
  <2>3. r.at = at /\ r.snap = m /\ r.source = manual /\ r.scan = scans + 1 /\ r.locked = 0
    BY DEF Idle
  <2>4. Goes(q, r)
    BY <1>2 DEF Post, at
  <2> HIDE DEF r
  <2>5. TypeOK'
    BY <1>2, <1>02, <1>0, <2>1, <2>2, <2>4, BoundsAssumption DEF Post, TypeOK, history
  <2>6. Formed(q)'
    BY <1>0, <2>1, <2>2, <2>3, <2>4, GoesType DEF Formed, At, Recorded, at
  <2> QED BY <1>01, <2>2, <2>4, <2>5, <2>6
\* A step that puts a request back to rest.
<1>04. ASSUME NEW q \in Request, Ends(q), UNCHANGED <<tables, rec, manual, scans>>,
              faults' \in 0..MaxFaults
       PROVE  Typed'
  <2>1. Idle \in Requests /\ Goes(q, Idle)
    BY <1>04, IdleType DEF Ends
  <2>2. TypeOK'
    BY <1>04, <1>02, <1>0, <2>1 DEF Ends, TypeOK
  <2>3. Formed(q)'
    BY <1>0, <2>1, GoesType DEF Formed, At, Idle
  <2> QED BY <1>01, <2>1, <2>2, <2>3
\* A step that only moves a request on.
<1>05. ASSUME NEW q \in Request, NEW r \in Requests, Goes(q, r), ingest[q].at # "idle",
              r.snap = ingest[q].snap, r.scan = ingest[q].scan, r.source = ingest[q].source,
              r.at # "register",
              r.at \in {"nonce", "collector"} =>
                ingest[q].at \in {"nonce", "collector"} /\ r.locked = ingest[q].locked,
              r.at \in {"assets", "rebuild", "recommend", "write"} => r.source \in Source,
              UNCHANGED <<tables, rec, manual, counts, history>>
       PROVE  Typed'
  <2>1. TypeOK'
    BY <1>05, <1>02, <1>0 DEF TypeOK, counts, history
  <2>2. Formed(q)'
    BY <1>05, <1>0, <1>03, GoesType DEF Formed, At, Recorded
  <2> QED BY <1>01, <1>05, <2>1, <2>2
<1>3. ASSUME NEW q \in Request, InsertNonce(q) PROVE Typed'
  <2>1. CASE ingest[q].snap \in used
    <3>1. Goes(q, Idle) /\ UNCHANGED <<tables, rec, manual, counts, history>>
      BY <1>3, <2>1 DEF InsertNonce
    <3>2. Formed(q)'
      BY <1>0, <3>1, IdleType, GoesType DEF Formed, At, Idle
    <3>3. TypeOK'
      BY <3>1, <1>02, <1>0, IdleType DEF TypeOK, counts, history
    <3> QED BY <1>01, IdleType, <3>1, <3>2, <3>3
  <2>2. CASE ingest[q].snap \notin used
    <3> DEFINE r == [ingest[q] EXCEPT !.at = "collector"]
    <3>0. r \in Requests
      BY <1>03, MovedType
    <3>1. /\ r \in Requests /\ r.at = "collector" /\ r.snap = ingest[q].snap
          /\ r.scan = ingest[q].scan /\ r.source = ingest[q].source
          /\ r.locked = ingest[q].locked
      BY <1>03, <3>0 DEF Requests
    <3>2. Goes(q, r) /\ ingest[q].at = "nonce" /\ UNCHANGED <<tables, rec, manual, counts, history>>
      BY <1>3, <2>2 DEF InsertNonce, At
    <3> HIDE DEF r
    <3> QED BY <3>1, <3>2, <1>05
  <2> QED BY <2>1, <2>2
<1>4. ASSUME NEW q \in Request, TouchCollector(q) PROVE Typed'
  <2> DEFINE r == [ingest[q] EXCEPT !.at = "assets"]
  <2>1. /\ r \in Requests /\ r.at = "assets" /\ r.snap = ingest[q].snap
        /\ r.scan = ingest[q].scan /\ r.source = ingest[q].source
    BY <1>03, MovedType, ZenonT(60) DEF Requests
  <2>2. Goes(q, r) /\ ingest[q].at = "collector" /\ UNCHANGED <<tables, rec, manual, counts, history>>
    BY <1>4 DEF TouchCollector, At
  <2> HIDE DEF r
  <2>3. ingest[q].snap \in Signed /\ ingest[q].source = ingest[q].snap.source /\ ingest[q].snap \in Snapshot
    BY <1>03, <2>2 DEF Formed, At
  <2>4. r.source \in Source
    BY <2>1, <2>3, SnapshotType, SourceType
  <2> QED BY <2>1, <2>2, <2>4, <1>05
<1>5. ASSUME NEW q \in Request, Register(q) PROVE Typed'
  <2> DEFINE r == [ingest[q] EXCEPT !.at = "assets", !.source = manual + 1]
  <2>1. manual + 1 \in 1..MaxManual /\ manual + 1 \in Source
    BY <1>5, <1>0, SourceType, BoundsAssumption DEF Register, TypeOK
  <2>2. /\ r \in Requests /\ r.at = "assets" /\ r.snap = ingest[q].snap
        /\ r.scan = ingest[q].scan /\ r.source = manual + 1
    BY <1>03, <2>1, MovedType, ZenonT(60) DEF Requests
  <2>3. /\ Goes(q, r) /\ ingest[q].at = "register" /\ manual' = manual + 1
        /\ UNCHANGED <<tables, rec, counts, history>>
    BY <1>5 DEF Register, At
  <2> HIDE DEF r
  <2>4. TypeOK'
    BY <2>1, <2>2, <2>3, <1>02, <1>0 DEF TypeOK, counts, history
  <2>5. Formed(q)'
    <3>1. ingest[q].snap \notin Signed
      BY <1>03, <2>3, DisjointType DEF Formed, At
    <3> QED BY <1>0, <1>03, <2>1, <2>2, <2>3, <3>1, GoesType DEF Formed, At, Recorded
  <2> QED BY <1>01, <2>2, <2>3, <2>4, <2>5
<1>6. ASSUME NEW q \in Request, UpsertAsset(q) PROVE Typed'
  <2> DEFINE r == [ingest[q] EXCEPT !.locked = @ + 1]
  <2>0. r \in Requests
    BY <1>03, MovedType
  <2>1. /\ r.at = ingest[q].at /\ r.snap = ingest[q].snap
        /\ r.scan = ingest[q].scan /\ r.source = ingest[q].source
    BY <1>03, <2>0 DEF Requests
  <2>2. Goes(q, r) /\ ingest[q].at = "assets" /\ UNCHANGED <<tables, rec, manual, counts, history>>
    BY <1>6 DEF UpsertAsset, At
  <2>3. ingest[q].source \in Source
    BY <1>03, <2>2 DEF Formed, At
  <2> HIDE DEF r
  <2> QED BY <2>0, <2>1, <2>2, <2>3, <1>05
<1>7. ASSUME NEW q \in Request, Record(q) PROVE Typed'
  <2> DEFINE old == [a \in Asset |-> IF a \in Seen(ingest[q].snap) THEN setting[a] ELSE NoValue]
             closed == {c \in rows : c.source = ingest[q].source}
             r == [ingest[q] EXCEPT !.at = "rebuild", !.old = old, !.closed = closed]
  <2>1. old \in [Asset -> Value \cup {NoValue}] /\ closed \in SUBSET Rows
    BY <1>0 DEF TypeOK
  <2>2. Goes(q, r) /\ ingest[q].at = "assets" /\ UNCHANGED <<tables, rec, manual, counts, history>>
    BY <1>7 DEF Record, At
  <2> HIDE DEF old, closed
  <2>3. r \in Requests
    BY <1>03, <2>1, ReadType
  <2>4. /\ r.at = "rebuild" /\ r.snap = ingest[q].snap
        /\ r.scan = ingest[q].scan /\ r.source = ingest[q].source
    BY <1>03, <2>3 DEF Requests
  <2>5. ingest[q].source \in Source
    BY <1>03, <2>2 DEF Formed, At
  <2> HIDE DEF r
  <2> QED BY <2>2, <2>3, <2>4, <2>5, <1>05
<1>8. ASSUME NEW q \in Request, ReadFindings(q) PROVE Typed'
  <2> DEFINE open == {c.key : c \in rows \ ingest[q].closed} \cup ingest[q].snap.keys
             r == [ingest[q] EXCEPT !.at = "recommend", !.open = open]
  <2>1. ingest[q].at = "rebuild" /\ ingest[q].source \in Source /\ ingest[q].snap \in Snapshot
    BY <1>8, <1>03 DEF ReadFindings, Formed, At, Recorded
  <2>2. open \in SUBSET Key
    BY <1>0, <2>1, SnapshotType DEF TypeOK, Rows
  <2>3. Goes(q, r) /\ UNCHANGED <<tables, rec, manual, counts, history>>
    BY <1>8 DEF ReadFindings
  <2> HIDE DEF open
  <2>4. r \in Requests
    BY <1>03, <2>2, ReadType
  <2>5. /\ r.at = "recommend" /\ r.snap = ingest[q].snap
        /\ r.scan = ingest[q].scan /\ r.source = ingest[q].source
    BY <1>03, <2>4 DEF Requests
  <2> HIDE DEF r
  <2> QED BY <2>1, <2>3, <2>4, <2>5, <1>05
<1>9. ASSUME NEW q \in Request, ReadRecommendations(q) PROVE Typed'
  <2> DEFINE r == [ingest[q] EXCEPT !.at = "write", !.loaded = rec]
  <2>1. ingest[q].at = "recommend" /\ ingest[q].source \in Source
    BY <1>9, <1>03 DEF ReadRecommendations, Formed, At, Recorded
  <2>2. Goes(q, r) /\ UNCHANGED <<tables, rec, manual, counts, history>>
    BY <1>9 DEF ReadRecommendations
  <2>3. r \in Requests
    BY <1>03, <1>0, ReadType DEF TypeOK
  <2>4. /\ r.at = "write" /\ r.snap = ingest[q].snap
        /\ r.scan = ingest[q].scan /\ r.source = ingest[q].source
    BY <1>03, <2>3 DEF Requests
  <2> HIDE DEF r
  <2> QED BY <2>1, <2>2, <2>3, <2>4, <1>05
<1>10. ASSUME NEW q \in Request, Commit(q) PROVE Typed'
  <2>1. /\ ingest[q].snap \in Snapshot /\ ingest[q].source \in Source
        /\ ingest[q].scan \in 1..MaxScans /\ ingest[q] \in Requests
    BY <1>10, <1>03 DEF Commit, Formed, At, Recorded
  <2>2. Store(ingest[q]) /\ Goes(q, Idle) /\ UNCHANGED <<manual, counts>>
    BY <1>10 DEF Commit
  <2>3. /\ rows' \subseteq Rows
        /\ setting' \in [Asset -> Value \cup {NoValue}]
        /\ events' \in [Asset -> Seq(Value \X Value)]
        /\ used' \subseteq Signed
    BY <1>0, <2>1, <2>2, StoreType
  <2>4. rec' \in [Key -> {"none", "open", "completed"}]
    <3>1. rec \in [Key -> {"none", "open", "completed"}]
      BY <1>0 DEF TypeOK
    <3>2. \A k \in Key : Rebuilt(ingest[q], k) \in {"none", "open", "completed"}
      BY DEF Rebuilt
    <3>3. rec' = [k \in Key |-> IF Rebuilt(ingest[q], k) = ingest[q].loaded[k] THEN rec[k]
                                ELSE Rebuilt(ingest[q], k)]
      BY <1>10 DEF Commit
    <3> QED BY <3>1, <3>2, <3>3
  <2>5. late' \subseteq Request /\ overtaken' \in BOOLEAN
    BY <1>10, <1>0 DEF Commit, TypeOK
  <2>6. ingest' \in [Request -> Requests]
    BY <1>0, <2>2, IdleType, GoesType
  <2>7. TypeOK'
    BY <1>0, <2>2, <2>3, <2>4, <2>5, <2>6 DEF TypeOK, counts
  <2>8. Formed(q)'
    BY <1>0, <2>2, IdleType, GoesType DEF Formed, At, Idle
  <2> QED BY <1>01, <2>2, IdleType, <2>7, <2>8
<1>11. ASSUME NEW q \in Request, RollBack(q) \/ Victim(q) PROVE Typed'
  BY <1>11, <1>04, <1>0 DEF RollBack, Victim, counts, TypeOK
<1>12. ASSUME NEW q \in Request, Fail(q) PROVE Typed'
  <2>1. faults' \in 0..MaxFaults
    BY <1>12, <1>0, BoundsAssumption DEF Fail, TypeOK
  <2> QED BY <1>12, <2>1, <1>04 DEF Fail
<1>13. CASE UNCHANGED vars
  BY <1>13, <1>0 DEF vars, tables, counts, history, Typed, TypeOK, Formed, At, Recorded
<1> QED
  BY <1>1, <1>2, <1>3, <1>4, <1>5, <1>6, <1>7, <1>8, <1>9, <1>10, <1>11, <1>12, <1>13 DEF Next

\* Every snapshot's rows, values, events and stages are of their kinds.
THEOREM TypeCorrect == Spec => []TypeOK
<1>1. Spec => []Typed
  BY TypedInit, TypedStep, PTL DEF Spec
<1>2. Typed => TypeOK
  BY DEF Typed
<1> QED BY <1>1, <1>2, PTL

----------------------------------------------------------------------------
(* The locks.                                                              *)

\* What another request holds is untouched, and what request q holds now nobody else does.
Apart(q) ==
  \A p \in Request \ {q} :
    /\ \A m \in Signed : HoldsNonce(q, m)' => ~HoldsNonce(p, m)
    /\ \A c \in Collector : HoldsCollector(q, c)' => ~HoldsCollector(p, c)
    /\ \A a \in Asset : HoldsAsset(q, a)' => ~HoldsAsset(p, a)

LEMMA HoldStep ==
  ASSUME TypeOK, LockInv, NEW q \in Request, NEW r \in Requests, Goes(q, r), Apart(q)
  PROVE  \A p1, p2 \in Request : Exclusive(p1, p2)'
<1>1. ingest'[q] = r /\ \A p \in Request \ {q} : ingest'[p] = ingest[p]
  BY GoesType
<1>2. ASSUME NEW p \in Request \ {q}
      PROVE  /\ \A m : HoldsNonce(p, m)' <=> HoldsNonce(p, m)
             /\ \A c : HoldsCollector(p, c)' <=> HoldsCollector(p, c)
             /\ \A a : HoldsAsset(p, a)' <=> HoldsAsset(p, a)
  BY <1>1, <1>2 DEF HoldsNonce, HoldsCollector, HoldsAsset, Recorded, At
<1>3. ASSUME NEW p1 \in Request, NEW p2 \in Request, p1 # p2, p1 # q, p2 # q
      PROVE  Exclusive(p1, p2)'
  BY <1>2, <1>3 DEF LockInv, Exclusive
<1>4. ASSUME NEW p \in Request \ {q} PROVE Exclusive(p, q)' /\ Exclusive(q, p)'
  BY <1>2, <1>4 DEF Apart, Exclusive
<1>5. Exclusive(q, q)'
  BY DEF Exclusive
<1> QED BY <1>3, <1>4, <1>5 DEF Exclusive

\* A step of request q that writes no table.
LEMMA QuietStep ==
  ASSUME Typed, Typed', LockInv, NEW q \in Request, NEW r \in Requests, Goes(q, r), Apart(q),
         Current(q)', UNCHANGED tables
  PROVE  LockInv'
<1>1. TypeOK /\ \A p \in Request : Formed(p)'
  BY DEF Typed
<1>2. \A p1, p2 \in Request : Exclusive(p1, p2)'
  BY <1>1, HoldStep
<1>3. ASSUME NEW p \in Request \ {q} PROVE Current(p)'
  <2>1. ingest'[p] = ingest[p] /\ Current(p)
    BY <1>1, GoesType DEF LockInv
  <2> QED BY <2>1 DEF Current, HoldsNonce, Recorded, At, tables
<1> QED BY <1>1, <1>2, <1>3 DEF LockInv

\* A step after which request q holds no more than before.
LEMMA ReleaseStep ==
  ASSUME LockInv, NEW q \in Request,
         \A m \in Signed : HoldsNonce(q, m)' => HoldsNonce(q, m),
         \A c \in Collector : HoldsCollector(q, c)' => HoldsCollector(q, c),
         \A a \in Asset : HoldsAsset(q, a)' => HoldsAsset(q, a)
  PROVE  Apart(q)
<1>1. \A p \in Request \ {q} : Exclusive(q, p)
  BY DEF LockInv
<1> QED BY <1>1 DEF Apart, Exclusive

LEMMA LockInit == Init => LockInv
  BY DEF Init, LockInv, Formed, Current, Exclusive, HoldsNonce, HoldsCollector, HoldsAsset,
     Recorded, At, Idle

\* A request that has written all its assets holds every one of them.
LEMMA HoldsAll ==
  ASSUME TypeOK, NEW q \in Request, ingest[q].snap \in Snapshot, At(q, "assets"), AllWritten(q)
  PROVE  \A a : HoldsAsset(q, a) <=> a \in Seen(ingest[q].snap)
<1>1. ingest[q].snap.assets \in Seq(Asset)
  BY SnapshotAssumption
<1>2. DOMAIN ingest[q].snap.assets = 1..ingest[q].locked
  BY <1>1, LenProperties DEF AllWritten
<1>3. ~Recorded(q)
  BY DEF Recorded, At
<1> QED BY <1>2, <1>3 DEF HoldsAsset, Seen

\* Requests that have recorded sign as different collectors and saw different assets.
LEMMA RecordedApart ==
  ASSUME TypeOK, LockInv, NEW p \in Request, NEW q \in Request, p # q, Recorded(p), Recorded(q)
  PROVE  /\ ingest[p].source # ingest[q].source
         /\ Seen(ingest[p].snap) \cap Seen(ingest[q].snap) = {}
<1>1. Formed(p) /\ Formed(q) /\ Exclusive(p, q)
  BY DEF LockInv
<1>2. /\ ingest[p].snap \in Snapshot /\ ingest[q].snap \in Snapshot
      /\ ingest[p].source \in Source /\ ingest[q].source \in Source
  BY <1>1 DEF Formed, At, Recorded
<1>3. \A a \in Asset : ~(a \in Seen(ingest[p].snap) /\ a \in Seen(ingest[q].snap))
  BY <1>1 DEF Exclusive, HoldsAsset
<1>4. Seen(ingest[p].snap) \cap Seen(ingest[q].snap) = {}
  BY <1>2, <1>3, SnapshotType
<1>5. ASSUME ingest[p].source = ingest[q].source PROVE FALSE
  <2>1. CASE ingest[p].source \in Collector
    BY <1>1, <1>5, <2>1 DEF Exclusive, HoldsCollector
  <2>2. CASE ingest[p].source \notin Collector
    <3>1. ingest[p].snap \in Manual /\ ingest[q].snap \in Manual
      BY <1>1, <1>2, <1>5, <2>2, SnapshotType DEF Formed, At, Recorded, Snapshot
    <3>2. Component \in Seen(ingest[p].snap) /\ Component \in Seen(ingest[q].snap)
      BY <3>1, <1>2, SnapshotType
    <3> QED BY <3>2, <1>4
  <2> QED BY <2>1, <2>2
<1> QED BY <1>4, <1>5

LEMMA LockStep == Typed /\ Typed' /\ LockInv /\ [Next]_vars => LockInv'
<1> SUFFICES ASSUME Typed, Typed', LockInv, [Next]_vars PROVE LockInv'
  OBVIOUS
<1>0. TypeOK /\ ingest \in [Request -> Requests]
  BY DEF Typed, TypeOK
<1>00. ASSUME NEW q \in Request PROVE ingest[q] \in Requests /\ Formed(q) /\ Current(q)
  BY <1>0 DEF LockInv
\* A step that puts a request back to rest.
<1>01. ASSUME NEW q \in Request, Goes(q, Idle), UNCHANGED tables PROVE LockInv'
  <2>1. ingest'[q] = Idle
    BY <1>0, <1>01, IdleType, GoesType
  <2>2. Current(q)' /\ Apart(q)
    BY <2>1 DEF Current, Apart, HoldsNonce, HoldsCollector, HoldsAsset, Recorded, At, Idle
  <2> QED BY <1>01, <2>2, IdleType, QuietStep
\* A step from reading to reading.
<1>02. ASSUME NEW q \in Request, NEW r \in Requests, Goes(q, r), UNCHANGED tables, Recorded(q),
              r.at \in {"recommend", "write"}, r.snap = ingest[q].snap,
              r.source = ingest[q].source, r.old = ingest[q].old, r.closed = ingest[q].closed
       PROVE  LockInv'
  <2>1. ingest'[q] = r
    BY <1>0, <1>02, GoesType
  <2>2. Apart(q)
    <3>1. /\ \A m \in Signed : HoldsNonce(q, m)' => HoldsNonce(q, m)
          /\ \A c \in Collector : HoldsCollector(q, c)' => HoldsCollector(q, c)
          /\ \A a \in Asset : HoldsAsset(q, a)' => HoldsAsset(q, a)
      BY <1>02, <2>1 DEF HoldsNonce, HoldsCollector, HoldsAsset, Recorded, At
    <3> QED BY <3>1, ReleaseStep
  <2>3. Current(q)'
    BY <1>02, <1>00, <2>1 DEF Current, HoldsNonce, Recorded, At, tables
  <2> QED BY <1>02, <2>2, <2>3, QuietStep
<1>1. ASSUME NEW q \in Request, NEW m \in Signed, Receive(q, m) PROVE LockInv'
  <2> DEFINE r == [Idle EXCEPT !.at = "nonce", !.snap = m, !.source = m.source, !.scan = scans + 1]
  <2>1. /\ r.at = "nonce"
        /\ Goes(q, r) /\ UNCHANGED tables
    BY <1>1 DEF Receive, Idle
  <2>2. r \in Requests
    <3>1. /\ m \in Snapshot /\ m.source \in Source \cup {0} /\ scans + 1 \in 0..MaxScans
      BY <1>1, <1>0, SnapshotType, SourceType, BoundsAssumption DEF Receive, TypeOK, Snapshot, counts
    <3> QED BY <3>1, BegunType
  <2> HIDE DEF r
  <2>3. ingest'[q] = r
    BY <1>0, <2>1, <2>2, GoesType
  <2>4. Current(q)' /\ Apart(q)
    BY <2>1, <2>3 DEF Current, Apart, HoldsNonce, HoldsCollector, HoldsAsset, Recorded, At
  <2> QED BY <2>1, <2>2, <2>4, QuietStep
<1>2. ASSUME NEW q \in Request, NEW m \in Manual, Post(q, m) PROVE LockInv'
  <2> DEFINE at == IF manual = 0 THEN "register" ELSE "assets"
             r == [Idle EXCEPT !.at = at, !.snap = m, !.source = manual, !.scan = scans + 1]
  <2>1. /\ m \in Snapshot /\ m \notin Signed /\ scans + 1 \in 0..MaxScans
        /\ manual \in Source \cup {0} /\ manual \notin Collector
        /\ at \in {"nonce", "register", "assets"} /\ at \in {"register", "assets"}
    BY <1>2, <1>0, SourceType, DisjointType, CollectorAssumption, BoundsAssumption
       DEF Post, TypeOK, Snapshot, counts
  <2>2. Goes(q, r) /\ UNCHANGED tables
    BY <1>2 DEF Post
  <2> HIDE DEF at
  <2>3. r \in Requests
    BY <2>1, BegunType
  <2>4. r.at = at /\ r.snap = m /\ r.source = manual /\ r.locked = 0
    BY DEF Idle
  <2> HIDE DEF r
  <2>5. ingest'[q] = r
    BY <1>0, <2>2, <2>3, GoesType
  <2>6. Apart(q)
    BY <2>1, <2>4, <2>5 DEF Apart, HoldsNonce, HoldsCollector, HoldsAsset, Recorded, At
  <2>7. Current(q)'
    BY <2>1, <2>4, <2>5 DEF Current, Recorded, At
  <2> QED BY <2>2, <2>3, <2>6, <2>7, QuietStep
<1>3. ASSUME NEW q \in Request, InsertNonce(q) PROVE LockInv'
  <2>1. CASE ingest[q].snap \in used
    BY <1>3, <2>1, <1>01 DEF InsertNonce
  <2>2. CASE ingest[q].snap \notin used
    <3> DEFINE r == [ingest[q] EXCEPT !.at = "collector"]
    <3>1. r \in Requests
      BY <1>00, MovedType
    <3>2. r.at = "collector" /\ r.snap = ingest[q].snap
      BY <1>00, <3>1 DEF Requests
    <3>3. Goes(q, r) /\ At(q, "nonce") /\ Free(q) /\ UNCHANGED tables
      BY <1>3, <2>2 DEF InsertNonce
    <3> HIDE DEF r
    <3>4. ingest'[q] = r
      BY <1>0, <3>1, <3>3, GoesType
    <3>5. Apart(q)
      BY <3>2, <3>3, <3>4
         DEF Apart, HoldsNonce, HoldsCollector, HoldsAsset, Recorded, At, Free, Blocks
    <3>6. Current(q)'
      BY <2>2, <3>2, <3>3, <3>4 DEF Current, Recorded, At, tables
    <3> QED BY <3>1, <3>3, <3>5, <3>6, QuietStep
  <2> QED BY <2>1, <2>2
<1>4. ASSUME NEW q \in Request, TouchCollector(q) PROVE LockInv'
  <2> DEFINE r == [ingest[q] EXCEPT !.at = "assets"]
  <2>1. r \in Requests
    BY <1>00, MovedType
  <2>2. /\ r.at = "assets" /\ r.snap = ingest[q].snap /\ r.source = ingest[q].source
        /\ r.locked = ingest[q].locked
    BY <1>00, <2>1 DEF Requests
  <2>3. Goes(q, r) /\ At(q, "collector") /\ Free(q) /\ UNCHANGED tables
    BY <1>4 DEF TouchCollector
  <2> HIDE DEF r
  <2>4. ingest'[q] = r
    BY <1>0, <2>1, <2>3, GoesType
  <2>5. Apart(q)
    <3> SUFFICES ASSUME NEW p \in Request \ {q}
                 PROVE  /\ \A m \in Signed : HoldsNonce(q, m)' => ~HoldsNonce(p, m)
                        /\ \A c \in Collector : HoldsCollector(q, c)' => ~HoldsCollector(p, c)
                        /\ \A a \in Asset : HoldsAsset(q, a)' => ~HoldsAsset(p, a)
      BY DEF Apart
    <3>1. Exclusive(q, p)
      BY DEF LockInv
    <3>2. \A m \in Signed : HoldsNonce(q, m)' => ~HoldsNonce(p, m)
      BY <3>1, <2>2, <2>3, <2>4 DEF Exclusive, HoldsNonce, At
    <3>3. \A c \in Collector : HoldsCollector(q, c)' => ~HoldsCollector(p, c)
      BY <2>2, <2>3, <2>4 DEF HoldsCollector, At, Recorded, Free, Blocks
    <3>4. \A a : ~HoldsAsset(q, a)'
      BY <2>2, <2>3, <2>4, <1>00 DEF HoldsAsset, At, Recorded, Formed
    <3> QED BY <3>2, <3>3, <3>4
  <2>6. Current(q)'
    BY <1>00, <2>2, <2>3, <2>4 DEF Current, HoldsNonce, Recorded, At, tables
  <2> QED BY <2>1, <2>3, <2>5, <2>6, QuietStep
<1>5. ASSUME NEW q \in Request, Register(q) PROVE LockInv'
  <2> DEFINE r == [ingest[q] EXCEPT !.at = "assets", !.source = manual + 1]
  <2>1. manual + 1 \in Source /\ manual + 1 \notin Collector
    BY <1>5, <1>0, SourceType, CollectorAssumption, BoundsAssumption DEF Register, TypeOK
  <2>2. r \in Requests
    BY <1>00, <2>1, MovedType
  <2>3. /\ r.at = "assets" /\ r.snap = ingest[q].snap /\ r.source = manual + 1
        /\ r.locked = ingest[q].locked
    BY <1>00, <2>2 DEF Requests
  <2>4. Goes(q, r) /\ At(q, "register") /\ UNCHANGED tables
    BY <1>5 DEF Register
  <2> HIDE DEF r
  <2>5. ingest'[q] = r
    BY <1>0, <2>2, <2>4, GoesType
  <2>6. ingest[q].snap \notin Signed /\ ingest[q].locked = 0
    BY <1>00, <2>4, DisjointType DEF Formed, At
  <2>7. Apart(q)
    BY <2>1, <2>3, <2>5, <2>6 DEF Apart, HoldsNonce, HoldsCollector, HoldsAsset, Recorded, At
  <2>8. Current(q)'
    BY <2>3, <2>5, <2>6 DEF Current, Recorded, At
  <2> QED BY <2>2, <2>4, <2>7, <2>8, QuietStep
<1>6. ASSUME NEW q \in Request, UpsertAsset(q) PROVE LockInv'
  <2> DEFINE r == [ingest[q] EXCEPT !.locked = @ + 1]
  <2>1. r \in Requests
    BY <1>00, MovedType
  <2>2. /\ r.at = ingest[q].at /\ r.snap = ingest[q].snap /\ r.source = ingest[q].source
        /\ r.locked = ingest[q].locked + 1 /\ ingest[q].locked \in Nat
    BY <1>00, <2>1 DEF Requests
  <2>3. Goes(q, r) /\ At(q, "assets") /\ ~AllWritten(q) /\ Free(q) /\ UNCHANGED tables
    BY <1>6 DEF UpsertAsset
  <2> HIDE DEF r
  <2>4. ingest'[q] = r
    BY <1>0, <2>1, <2>3, GoesType
  <2>5. Apart(q)
    <3> SUFFICES ASSUME NEW p \in Request \ {q}
                 PROVE  /\ \A m \in Signed : HoldsNonce(q, m)' => ~HoldsNonce(p, m)
                        /\ \A c \in Collector : HoldsCollector(q, c)' => ~HoldsCollector(p, c)
                        /\ \A a \in Asset : HoldsAsset(q, a)' => ~HoldsAsset(p, a)
      BY DEF Apart
    <3>1. Exclusive(q, p)
      BY DEF LockInv
    <3>2. \A m \in Signed : HoldsNonce(q, m)' => ~HoldsNonce(p, m)
      BY <3>1, <2>2, <2>3, <2>4 DEF Exclusive, HoldsNonce, At
    <3>3. \A c \in Collector : HoldsCollector(q, c)' => ~HoldsCollector(p, c)
      BY <3>1, <2>2, <2>3, <2>4 DEF Exclusive, HoldsCollector, At, Recorded
    <3>4. ASSUME NEW a \in Asset, HoldsAsset(q, a)' PROVE ~HoldsAsset(p, a)
      <4>1. PICK i \in 1..(ingest[q].locked + 1) : ingest[q].snap.assets[i] = a
        BY <3>4, <2>2, <2>3, <2>4 DEF HoldsAsset, At, Recorded
      <4>2. CASE i = ingest[q].locked + 1
        BY <4>1, <4>2, <2>3 DEF Free, Blocks, Coming
      <4>3. CASE i \in 1..ingest[q].locked
        BY <4>1, <4>3, <3>1, <2>3 DEF Exclusive, HoldsAsset
      <4> QED BY <4>2, <4>3, <2>2
    <3> QED BY <3>2, <3>3, <3>4
  <2>6. Current(q)'
    BY <1>00, <2>2, <2>3, <2>4 DEF Current, HoldsNonce, Recorded, At, tables
  <2> QED BY <2>1, <2>3, <2>5, <2>6, QuietStep
<1>7. ASSUME NEW q \in Request, Record(q) PROVE LockInv'
  <2> DEFINE old == [a \in Asset |-> IF a \in Seen(ingest[q].snap) THEN setting[a] ELSE NoValue]
             closed == {c \in rows : c.source = ingest[q].source}
             r == [ingest[q] EXCEPT !.at = "rebuild", !.old = old, !.closed = closed]
  <2>1. old \in [Asset -> Value \cup {NoValue}] /\ closed \in SUBSET Rows
    BY <1>0 DEF TypeOK
  <2>2. Goes(q, r) /\ At(q, "assets") /\ AllWritten(q) /\ UNCHANGED tables
    BY <1>7 DEF Record
  <2>3. ingest[q].snap \in Snapshot
    BY <1>00, <2>2 DEF Formed, At
  <2>4. \A a \in Seen(ingest[q].snap) : old[a] = setting[a]
    BY <2>3, SnapshotType
  <2>40. closed = {c \in rows : c.source = ingest[q].source}
    OBVIOUS
  <2> HIDE DEF old, closed
  <2>5. r \in Requests
    BY <1>00, <2>1, ReadType
  <2>6. /\ r.at = "rebuild" /\ r.snap = ingest[q].snap /\ r.source = ingest[q].source
        /\ r.old = old /\ r.closed = closed
    BY <1>00, <2>5 DEF Requests
  <2> HIDE DEF r
  <2>7. ingest'[q] = r
    BY <1>0, <2>2, <2>5, GoesType
  <2>8. Apart(q)
    <3>1. \A a : HoldsAsset(q, a) <=> a \in Seen(ingest[q].snap)
      BY <1>0, <2>2, <2>3, HoldsAll
    <3>2. /\ \A m \in Signed : HoldsNonce(q, m)' => HoldsNonce(q, m)
          /\ \A c \in Collector : HoldsCollector(q, c)' => HoldsCollector(q, c)
          /\ \A a \in Asset : HoldsAsset(q, a)' => HoldsAsset(q, a)
      BY <3>1, <2>2, <2>6, <2>7 DEF HoldsNonce, HoldsCollector, HoldsAsset, Recorded, At
    <3> QED BY <3>2, ReleaseStep
  <2>9. Current(q)'
    BY <1>00, <2>2, <2>4, <2>40, <2>6, <2>7 DEF Current, HoldsNonce, Recorded, At, tables
  <2> QED BY <2>2, <2>5, <2>8, <2>9, QuietStep
<1>8. ASSUME NEW q \in Request, ReadFindings(q) PROVE LockInv'
  <2> DEFINE open == {c.key : c \in rows \ ingest[q].closed} \cup ingest[q].snap.keys
             r == [ingest[q] EXCEPT !.at = "recommend", !.open = open]
  <2>1. At(q, "rebuild") /\ Recorded(q) /\ ingest[q].snap \in Snapshot
    BY <1>8, <1>00 DEF ReadFindings, Formed, At, Recorded
  <2>2. open \in SUBSET Key
    BY <1>0, <2>1, SnapshotType DEF TypeOK, Rows
  <2>3. Goes(q, r) /\ UNCHANGED tables
    BY <1>8 DEF ReadFindings
  <2> HIDE DEF open
  <2>4. r \in Requests
    BY <1>00, <2>2, ReadType
  <2>5. /\ r.at = "recommend" /\ r.snap = ingest[q].snap /\ r.source = ingest[q].source
        /\ r.old = ingest[q].old /\ r.closed = ingest[q].closed
    BY <1>00, <2>4 DEF Requests
  <2> HIDE DEF r
  <2> QED BY <2>1, <2>3, <2>4, <2>5, <1>02
<1>9. ASSUME NEW q \in Request, ReadRecommendations(q) PROVE LockInv'
  <2> DEFINE r == [ingest[q] EXCEPT !.at = "write", !.loaded = rec]
  <2>1. Recorded(q) /\ Goes(q, r) /\ UNCHANGED tables
    BY <1>9 DEF ReadRecommendations, At, Recorded
  <2>2. r \in Requests
    BY <1>00, <1>0, ReadType DEF TypeOK
  <2>3. /\ r.at = "write" /\ r.snap = ingest[q].snap /\ r.source = ingest[q].source
        /\ r.old = ingest[q].old /\ r.closed = ingest[q].closed
    BY <1>00, <2>2 DEF Requests
  <2> HIDE DEF r
  <2> QED BY <2>1, <2>2, <2>3, <1>02
<1>10. ASSUME NEW q \in Request, Commit(q) PROVE LockInv'
  <2>1. At(q, "write") /\ Recorded(q) /\ Store(ingest[q]) /\ Goes(q, Idle)
    BY <1>10 DEF Commit, At, Recorded
  <2>2. ingest'[q] = Idle /\ \A p \in Request \ {q} : ingest'[p] = ingest[p]
    BY <1>0, <2>1, IdleType, GoesType
  <2>3. Apart(q)
    BY <2>2 DEF Apart, HoldsNonce, HoldsCollector, HoldsAsset, Recorded, At, Idle
  <2>4. \A p1, p2 \in Request : Exclusive(p1, p2)'
    BY <1>0, <2>1, <2>3, IdleType, HoldStep
  <2>5. Current(q)'
    BY <2>2 DEF Current, HoldsNonce, Recorded, At, Idle
  <2>6. ASSUME NEW p \in Request \ {q} PROVE Current(p)'
    <3>1. ingest[p] = ingest'[p] /\ Current(p) /\ Formed(p) /\ Exclusive(p, q)
      BY <2>2 DEF LockInv
    <3>2. ingest[p].snap \in Signed /\ HoldsNonce(p, ingest[p].snap) => ingest[p].snap \notin used'
      <4>1. HoldsNonce(q, ingest[q].snap)
        BY <2>1 DEF HoldsNonce, At
      <4>2. used' = used \cup ({ingest[q].snap} \cap Signed)
        BY <2>1 DEF Store
      <4> QED BY <4>1, <4>2, <3>1 DEF Current, Exclusive
    <3>3. ASSUME Recorded(p)
          PROVE  /\ \A a \in Seen(ingest[p].snap) : ingest[p].old[a] = setting'[a]
                 /\ ingest[p].closed = {r \in rows' : r.source = ingest[p].source}
      <4>1. /\ ingest[p].source # ingest[q].source
            /\ Seen(ingest[p].snap) \cap Seen(ingest[q].snap) = {}
        BY <1>0, <2>1, <3>3, RecordedApart
      <4>2. ingest[p].snap \in Snapshot
        BY <3>1, <3>3 DEF Formed, At, Recorded
      <4>3. ASSUME NEW a \in Seen(ingest[p].snap) PROVE ingest[p].old[a] = setting'[a]
        <5>1. a \in Asset /\ a \notin Seen(ingest[q].snap)
          BY <4>1, <4>2, SnapshotType
        <5>2. setting'[a] = setting[a]
          BY <5>1, <2>1 DEF Store
        <5> QED BY <5>2, <3>1, <3>3 DEF Current
      <4>4. /\ ingest[p].closed = {r \in rows : r.source = ingest[p].source}
            /\ ingest[q].closed = {r \in rows : r.source = ingest[q].source}
        BY <2>1, <3>1, <3>3 DEF Current, LockInv
      <4>5. rows' = (rows \ ingest[q].closed)
                      \cup {[source |-> ingest[q].source, key |-> k, scan |-> ingest[q].scan] :
                              k \in ingest[q].snap.keys}
        BY <2>1 DEF Store
      <4>6. ingest[p].closed = {r \in rows' : r.source = ingest[p].source}
        BY <4>1, <4>4, <4>5
      <4> QED BY <4>3, <4>6
    <3> QED BY <3>1, <3>2, <3>3 DEF Current, HoldsNonce, Recorded, At
  <2>7. \A p \in Request : Formed(p)'
    BY DEF Typed
  <2> QED BY <2>4, <2>5, <2>6, <2>7 DEF LockInv
<1>11. ASSUME NEW q \in Request, RollBack(q) \/ Victim(q) \/ Fail(q) PROVE LockInv'
  BY <1>11, <1>01 DEF RollBack, Victim, Fail, Ends
<1>12. CASE UNCHANGED vars
  BY <1>12 DEF vars, tables, counts, history, LockInv, Formed, Current, Exclusive, HoldsNonce,
               HoldsCollector, HoldsAsset, At, Recorded
<1> QED
  BY <1>1, <1>2, <1>3, <1>4, <1>5, <1>6, <1>7, <1>8, <1>9, <1>10, <1>11, <1>12 DEF Next

\* The locks of a request keep everybody else away from what it read: at any time a
\* source, an asset and a nonce belong to one transaction.
THEOREM LockInvariant == Spec => []LockInv
<1>1. Spec => [](Typed /\ LockInv)
  BY TypedInit, TypedStep, LockInit, LockStep, PTL DEF Spec
<1> QED BY <1>1, PTL

----------------------------------------------------------------------------
(* Refinement.                                                             *)

\* Every commit takes one snapshot whole.
THEOREM LedgerImplemented == Spec => LedgerSpec
<1>1. Init => Ledger!Init
  BY DEF Init, Ledger!Init
<1>2. ASSUME Typed, LockInv, NEW q \in Request, Commit(q) PROVE Ledger!Next
  <2> DEFINE m == ingest[q].snap
             s == ingest[q].source
             n == ingest[q].scan
  <2>1. m \in Snapshot /\ s \in Source /\ n \in 1..MaxScans /\ Recorded(q) /\ Current(q)
    BY <1>2 DEF Commit, LockInv, Formed, At, Recorded
  <2>2. m \notin used
    <3>1. CASE m \in Signed
      BY <3>1, <2>1 DEF Current, HoldsNonce, At, Recorded
    <3>2. CASE m \notin Signed
      BY <3>2, <1>2 DEF Typed, TypeOK
    <3> QED BY <3>1, <3>2
  <2>3. rows' = {r \in rows : r.source # s} \cup Ledger!Found(m, s, n)
    BY <1>2, <2>1 DEF Commit, Store, Current, Ledger!Found
  <2>4. \A a \in Seen(m) : ingest[q].old[a] = setting[a]
    BY <2>1 DEF Current
  <2>5. setting' = [a \in Asset |-> IF a \in Ledger!Seen(m) THEN m.value[a] ELSE setting[a]]
    BY <1>2 DEF Commit, Store, Seen, Ledger!Seen
  <2>6. events' = [a \in Asset |-> IF a \in Ledger!Seen(m) /\ Ledger!Changes(m, a)
                                   THEN Append(events[a], <<setting[a], m.value[a]>>)
                                   ELSE events[a]]
    BY <1>2, <2>4 DEF Commit, Store, Seen, Ledger!Seen, Ledger!Changes
  <2>7. used' = used \cup ({m} \cap Signed)
    BY <1>2 DEF Commit, Store
  <2>8. Ledger!Take(m, s, n)
    BY <2>2, <2>3, <2>5, <2>6, <2>7 DEF Ledger!Take
  <2> QED BY <2>1, <2>8 DEF Ledger!Next
<1>3. Typed /\ LockInv /\ [Next]_vars => [Ledger!Next]_(Ledger!ledgerVars)
  <2> SUFFICES ASSUME Typed, LockInv, [Next]_vars, ~Ledger!Next PROVE UNCHANGED Ledger!ledgerVars
    OBVIOUS
  <2>1. UNCHANGED tables
    BY <1>2 DEF Next, vars, Receive, Post, InsertNonce, TouchCollector, Register, UpsertAsset,
       Record, ReadFindings, ReadRecommendations, RollBack, Victim, Fail
  <2> QED BY <2>1 DEF tables, Ledger!ledgerVars
<1>4. Spec => [](Typed /\ LockInv)
  BY TypedInit, TypedStep, LockInit, LockStep, PTL DEF Spec
<1> QED BY <1>1, <1>3, <1>4, PTL DEF Spec, LedgerSpec, Ledger!Spec

----------------------------------------------------------------------------
(* The rebuilt recommendations.                                            *)

RebuiltRight == RebuildInv /\ RecommendationsFollow

\* A step that writes neither findings nor recommendations and overtakes nobody.
LEMMA RebuildQuiet ==
  ASSUME RebuiltRight, NEW q \in Request, UNCHANGED <<rows, rec, overtaken>>, late \ {q} \subseteq late',
         \A p \in Request \ {q} : ingest'[p] = ingest[p],
         q \notin late' /\ ingest'[q].at \in {"recommend", "write"} =>
           /\ ingest'[q].open = {r.key : r \in rows \ ingest'[q].closed} \cup ingest'[q].snap.keys
           /\ ingest'[q].at = "write" => ingest'[q].loaded = rec
  PROVE  RebuiltRight'
<1>1. ASSUME NEW p \in Request \ late'
      PROVE  /\ (At(p, "recommend") \/ At(p, "write"))' =>
                  ingest'[p].open = {r.key : r \in rows' \ ingest'[p].closed} \cup ingest'[p].snap.keys
             /\ At(p, "write")' => ingest'[p].loaded = rec'
  <2>1. CASE p = q
    BY <2>1, <1>1 DEF At
  <2>2. CASE p # q
    <3>1. p \notin late /\ ingest'[p] = ingest[p]
      BY <2>2, <1>1
    <3> QED BY <3>1 DEF RebuiltRight, RebuildInv, At
  <2> QED BY <2>1, <2>2
<1>2. RebuildInv'
  BY <1>1 DEF RebuildInv
<1>3. RecommendationsFollow'
  BY DEF RebuiltRight, RecommendationsFollow
<1> QED BY <1>2, <1>3 DEF RebuiltRight

LEMMA RebuildInit == Init => RebuiltRight
  BY DEF Init, RebuiltRight, RebuildInv, RecommendationsFollow, At, Idle

LEMMA RebuildStep == Typed /\ RebuiltRight /\ [Next]_vars => RebuiltRight'
<1> SUFFICES ASSUME Typed, RebuiltRight, [Next]_vars PROVE RebuiltRight'
  OBVIOUS
<1>0. TypeOK
  BY DEF Typed
<1>00. ASSUME NEW q \in Request PROVE ingest[q] \in Requests
  BY <1>0 DEF TypeOK
\* A step that leaves its request short of a rebuild.
<1>01. ASSUME NEW q \in Request, NEW r \in Requests, Goes(q, r), r.at \notin {"recommend", "write"},
              UNCHANGED <<rows, rec, overtaken>>, late \ {q} \subseteq late'
       PROVE  RebuiltRight'
  <2>1. ingest'[q] = r /\ \A p \in Request \ {q} : ingest'[p] = ingest[p]
    BY <1>0, <1>01, GoesType
  <2> QED BY <1>01, <2>1, RebuildQuiet
<1>1. ASSUME NEW q \in Request, NEW m \in Signed, Receive(q, m) PROVE RebuiltRight'
  <2> DEFINE r == [Idle EXCEPT !.at = "nonce", !.snap = m, !.source = m.source, !.scan = scans + 1]
  <2>1. ingest'[q] = r /\ r.at = "nonce" /\ \A p \in Request \ {q} : ingest'[p] = ingest[p]
    BY <1>0, <1>1 DEF Receive, Goes, TypeOK, Idle
  <2>2. UNCHANGED <<rows, rec, late, overtaken>>
    BY <1>1 DEF Receive, tables, history
  <2> HIDE DEF r
  <2> QED BY <2>1, <2>2, RebuildQuiet
<1>2. ASSUME NEW q \in Request, NEW m \in Manual, Post(q, m) PROVE RebuiltRight'
  <2> DEFINE r == [Idle EXCEPT !.at = IF manual = 0 THEN "register" ELSE "assets",
                               !.snap = m, !.source = manual, !.scan = scans + 1]
  <2>1. ingest'[q] = r /\ r.at \in {"register", "assets"} /\ \A p \in Request \ {q} : ingest'[p] = ingest[p]
    BY <1>0, <1>2 DEF Post, Goes, TypeOK, Idle
  <2>2. UNCHANGED <<rows, rec, late, overtaken>>
    BY <1>2 DEF Post, tables, history
  <2> HIDE DEF r
  <2> QED BY <2>1, <2>2, RebuildQuiet
<1>3. ASSUME NEW q \in Request, InsertNonce(q) PROVE RebuiltRight'
  <2> DEFINE r == IF ingest[q].snap \in used THEN Idle ELSE [ingest[q] EXCEPT !.at = "collector"]
  <2>1. r \in Requests /\ r.at \in {"idle", "collector"}
    <3>1. CASE ingest[q].snap \in used
      BY <3>1, IdleType DEF Idle
    <3>2. CASE ingest[q].snap \notin used
      <4>1. [ingest[q] EXCEPT !.at = "collector"] \in Requests
        BY <1>00, MovedType
      <4>2. [ingest[q] EXCEPT !.at = "collector"].at = "collector"
        BY <1>00 DEF Requests
      <4> QED BY <3>2, <4>1, <4>2
    <3> QED BY <3>1, <3>2
  <2>2. Goes(q, r) /\ UNCHANGED <<rows, rec, late, overtaken>>
    BY <1>3 DEF InsertNonce, tables, history
  <2> HIDE DEF r
  <2> QED BY <2>1, <2>2, <1>01
<1>4. ASSUME NEW q \in Request, TouchCollector(q) \/ Register(q) \/ UpsertAsset(q) PROVE RebuiltRight'
  <2>1. UNCHANGED <<rows, rec, late, overtaken>>
    BY <1>4 DEF TouchCollector, Register, UpsertAsset, tables, history
  <2>2. ingest'[q].at = "assets" /\ \A p \in Request \ {q} : ingest'[p] = ingest[p]
    <3>1. CASE TouchCollector(q)
      BY <3>1, <1>0, <1>00 DEF TouchCollector, Goes, TypeOK, Requests
    <3>2. CASE Register(q)
      BY <3>2, <1>0, <1>00 DEF Register, Goes, TypeOK, Requests
    <3>3. CASE UpsertAsset(q)
      BY <3>3, <1>0, <1>00 DEF UpsertAsset, Goes, TypeOK, Requests, At
    <3> QED BY <1>4, <3>1, <3>2, <3>3
  <2> QED BY <2>1, <2>2, RebuildQuiet
<1>5. ASSUME NEW q \in Request, Record(q) PROVE RebuiltRight'
  <2>1. UNCHANGED <<rows, rec, late, overtaken>>
    BY <1>5 DEF Record, tables, history
  <2>2. ingest'[q].at = "rebuild" /\ \A p \in Request \ {q} : ingest'[p] = ingest[p]
    BY <1>0, <1>00, <1>5 DEF Record, Goes, TypeOK, Requests
  <2> QED BY <2>1, <2>2, RebuildQuiet
\* The findings are read.
<1>6. ASSUME NEW q \in Request, ReadFindings(q) PROVE RebuiltRight'
  <2> DEFINE open == {c.key : c \in rows \ ingest[q].closed} \cup ingest[q].snap.keys
             r == [ingest[q] EXCEPT !.at = "recommend", !.open = open]
  <2>1. UNCHANGED <<rows, rec, late, overtaken>>
    BY <1>6 DEF ReadFindings, tables, history
  <2>2. ingest'[q] = r /\ \A p \in Request \ {q} : ingest'[p] = ingest[p]
    BY <1>0, <1>6 DEF ReadFindings, Goes, TypeOK
  <2>3. r.at = "recommend" /\ r.open = open /\ r.closed = ingest[q].closed /\ r.snap = ingest[q].snap
    BY <1>00 DEF Requests
  <2> HIDE DEF r
  <2> QED BY <2>1, <2>2, <2>3, RebuildQuiet
\* The recommendations are read.
<1>7. ASSUME NEW q \in Request, ReadRecommendations(q) PROVE RebuiltRight'
  <2> DEFINE r == [ingest[q] EXCEPT !.at = "write", !.loaded = rec]
  <2>1. At(q, "recommend") /\ UNCHANGED <<rows, rec, late, overtaken>>
    BY <1>7 DEF ReadRecommendations, tables, history
  <2>2. ingest'[q] = r /\ \A p \in Request \ {q} : ingest'[p] = ingest[p]
    BY <1>0, <1>7 DEF ReadRecommendations, Goes, TypeOK
  <2>3. /\ r.at = "write" /\ r.open = ingest[q].open /\ r.closed = ingest[q].closed
        /\ r.snap = ingest[q].snap /\ r.loaded = rec
    BY <1>00 DEF Requests
  <2>4. q \notin late => ingest[q].open = {c.key : c \in rows \ ingest[q].closed} \cup ingest[q].snap.keys
    BY <2>1 DEF RebuiltRight, RebuildInv
  <2> HIDE DEF r
  <2> QED BY <2>1, <2>2, <2>3, <2>4, RebuildQuiet
\* A commit: those that rebuild beside it are overtaken.
<1>8. ASSUME NEW q \in Request, Commit(q) PROVE RebuiltRight'
  <2> DEFINE e == ingest[q]
  <2>1. /\ At(q, "write") /\ overtaken' = (q \in late)
        /\ rows' = (rows \ e.closed) \cup {[source |-> e.source, key |-> k, scan |-> e.scan] : k \in e.snap.keys}
        /\ rec' = [k \in Key |-> IF Rebuilt(e, k) = e.loaded[k] THEN rec[k] ELSE Rebuilt(e, k)]
        /\ late' = (late \cup {p \in Request : At(p, "recommend") \/ At(p, "write")}) \ {q}
    BY <1>8 DEF Commit, Store
  <2>2. ingest'[q] = Idle /\ \A p \in Request \ {q} : ingest'[p] = ingest[p]
    BY <1>0, <1>8 DEF Commit, Goes, TypeOK
  <2>3. ASSUME NEW p \in Request \ late'
        PROVE  ~At(p, "recommend")' /\ ~At(p, "write")'
    <3>1. CASE p = q
      BY <3>1, <2>2 DEF At, Idle
    <3>2. CASE p # q
      BY <3>2, <2>1, <2>2, <2>3 DEF At
    <3> QED BY <3>1, <3>2
  <2>4. RebuildInv'
    BY <2>3 DEF RebuildInv
  <2>5. ASSUME ~overtaken', NEW k \in Key
        PROVE  rec'[k] = "open" <=> \E r \in rows' : r.key = k
    <3>1. e.loaded = rec /\ e.open = {r.key : r \in rows \ e.closed} \cup e.snap.keys
      BY <2>1, <2>5 DEF RebuiltRight, RebuildInv
    <3>2. rec'[k] = Rebuilt(e, k)
      BY <2>1, <3>1
    <3>3. Rebuilt(e, k) = "open" <=> k \in e.open
      BY DEF Rebuilt
    <3>4. k \in e.open <=> \E r \in rows' : r.key = k
      <4>1. ASSUME NEW x \in e.snap.keys, x = k PROVE \E r \in rows' : r.key = k
        <5> DEFINE r == [source |-> e.source, key |-> x, scan |-> e.scan]
        <5>1. r \in rows' /\ r.key = k
          BY <2>1, <4>1
        <5> QED BY <5>1
      <4>2. ASSUME NEW r \in rows \ e.closed, r.key = k PROVE \E c \in rows' : c.key = k
        BY <2>1, <4>2
      <4>3. ASSUME NEW r \in rows', r.key = k PROVE k \in e.open
        BY <2>1, <3>1, <4>3
      <4> QED BY <3>1, <4>1, <4>2, <4>3
    <3> QED BY <3>2, <3>3, <3>4
  <2>6. RecommendationsFollow'
    BY <2>5 DEF RecommendationsFollow
  <2> QED BY <2>4, <2>6 DEF RebuiltRight
<1>9. ASSUME NEW q \in Request, RollBack(q) \/ Victim(q) \/ Fail(q) PROVE RebuiltRight'
  <2>1. Goes(q, Idle) /\ late' = late \ {q} /\ UNCHANGED <<rows, rec, overtaken>>
    BY <1>9 DEF RollBack, Victim, Fail, Ends, tables
  <2> QED BY <2>1, <1>01, IdleType DEF Idle
<1>10. CASE UNCHANGED vars
  BY <1>10 DEF vars, tables, counts, history, RebuiltRight, RebuildInv, RecommendationsFollow, At
<1> QED
  BY <1>1, <1>2, <1>3, <1>4, <1>5, <1>6, <1>7, <1>8, <1>9, <1>10 DEF Next

\* A recommendation is open exactly while one of its findings is, whatever snapshots
\* come together, twice or never to an end - unless the one committed last had been
\* overtaken while it rebuilt.
THEOREM RecommendationsKept == Spec => []RecommendationsFollow
<1>1. Spec => [](Typed /\ RebuiltRight)
  BY TypedInit, TypedStep, RebuildInit, RebuildStep, PTL DEF Spec
<1>2. RebuiltRight => RecommendationsFollow
  BY DEF RebuiltRight
<1> QED BY <1>1, <1>2, PTL
=============================================================================
