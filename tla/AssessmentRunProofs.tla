------------------------ MODULE AssessmentRunProofs ------------------------
(***************************************************************************)
(* Theorems about AssessmentRun for every set of assessments, controls,    *)
(* slots and clients and every bound.                                      *)
(***************************************************************************)
EXTENDS AssessmentRun, FiniteSetTheorems, TLAPS

USE DEF NoAssessment

\* Sets of controls are finite, so counting them yields a number.
LEMMA CountType ==
  ASSUME NEW C \in SUBSET Control
  PROVE  IsFiniteSet(C) /\ Cardinality(C) \in Nat
BY ControlAssumption, FS_Subset, FS_CardinalityType

\* The rows of an assessment are a number.
LEMMA RowsType ==
  ASSUME TypeOK, NEW a \in Assessment
  PROVE  Rows(a) \in Nat
BY CountType DEF TypeOK, Rows

\* Inserting findings keeps the types of the two variables it assigns.
LEMMA InsertType ==
  ASSUME TypeOK, NEW a \in Assessment, NEW C \in SUBSET Control, Insert(a, C)
  PROVE  /\ findings' \in [Assessment -> SUBSET Control]
         /\ surplus' \in [Assessment -> Nat]
<1>1. Cardinality(C) \in Nat /\ Cardinality(C \cap findings[a]) \in Nat
  BY CountType DEF TypeOK
<1> QED BY <1>1 DEF TypeOK, Insert

\* A slot that is not idle holds a record of SlotWork, an idle one NoSlotWork.
LEMMA SlotType ==
  ASSUME TypeOK, NEW s \in Slot
  PROVE  /\ run[s] \in {NoSlotWork} \cup SlotWork
         /\ run[s].pc # "idle" => run[s] \in SlotWork /\ run[s].asm \in Assessment
         /\ run[s].asm \in Assessment => run[s] \in SlotWork
BY AssessmentAssumption DEF TypeOK, NoSlotWork, SlotWork, InRun

USE DEF Beside, table, history, bounds

----------------------------------------------------------------------------

LEMMA InitType == Init => TypeOK
BY DEF Init, TypeOK, Statuses

\* Each operation keeps every variable in its type.
LEMMA RequestType ==
  ASSUME TypeOK, NEW q \in Client, NEW a \in Assessment,
         PauseCheck(q, a) \/ ResumeCheck(q, a) \/ DeleteCheck(q, a)
  PROVE  TypeOK'
<1>2. CASE PauseCheck(q, a)
  BY <1>2, BoundsAssumption DEF TypeOK, PauseCheck, Ask, Requests
<1>3. CASE ResumeCheck(q, a)
  BY <1>3 DEF TypeOK, ResumeCheck, Ask, Requests
<1>4. CASE DeleteCheck(q, a)
  BY <1>4 DEF TypeOK, DeleteCheck, Ask, Requests
<1> QED BY <1>2, <1>3, <1>4

LEMMA CommitType ==
  ASSUME TypeOK, NEW q \in Client, Commit(q)
  PROVE  TypeOK'
<1> DEFINE a == request[q].asm
           op == request[q].op
<1>1. request[q] \in Requests
  BY DEF TypeOK, Commit
<1>2. a \in Assessment /\ Written(op) \in Statuses
  BY <1>1 DEF Requests, Written, Statuses
<1>3. status' \in [Assessment -> Statuses]
  BY <1>2 DEF TypeOK, Commit
<1>4. /\ findings' \in [Assessment -> SUBSET Control]
      /\ surplus' \in [Assessment -> Nat]
      /\ examined' \in [Assessment -> SUBSET Control]
      /\ rollup' \in [Assessment -> Nat]
  BY <1>2 DEF TypeOK, Commit
<1>5. request' \in [Client -> {NoRequest} \cup Requests]
  BY DEF TypeOK, Commit
<1> QED BY <1>3, <1>4, <1>5 DEF TypeOK, Commit

LEMMA WorkerType ==
  ASSUME TypeOK, Recover \/ Crash \/ \E s \in Slot, a \in Assessment : Claim(s, a)
  PROVE  TypeOK'
<1>1. CASE Recover
  BY <1>1 DEF TypeOK, Recover, Statuses
<1>2. CASE Crash
  BY <1>2, BoundsAssumption DEF TypeOK, Crash
<1>3. ASSUME NEW s \in Slot, NEW a \in Assessment, Claim(s, a)
      PROVE  TypeOK'
  <2>1. [NoSlotWork EXCEPT !.pc = "claimed", !.asm = a] \in SlotWork
    BY DEF NoSlotWork, SlotWork, Statuses
  <2>2. run' \in [Slot -> {NoSlotWork} \cup SlotWork]
    BY <1>3, <2>1 DEF TypeOK, Claim, Become
  <2> QED BY <1>3, <2>2 DEF TypeOK, Claim, Statuses
<1> QED BY <1>1, <1>2, <1>3

\* What a slot becomes has the type of the slot's work.
LEMMA BecomeType ==
  ASSUME TypeOK, NEW s \in Slot, NEW work \in {NoSlotWork} \cup SlotWork, Become(s, work)
  PROVE  run' \in [Slot -> {NoSlotWork} \cup SlotWork]
BY DEF TypeOK, Become

LEMMA RunStepType ==
  ASSUME TypeOK, NEW s \in Slot, RunStep(s)
  PROVE  TypeOK'
<1> DEFINE a == run[s].asm
<1>0. run[s] \in SlotWork /\ a \in Assessment
  BY SlotType DEF RunStep, Load, Begin, ReadFindings, CarryForward, InsertNA,
     BeginBatches, NextBatch, AssessControl, FinalCheck, Rollup, Finish, RowVanished,
     ErrorRead, ErrorWrite, At, InRun
<1>a. status[a] \in Statuses /\ findings[a] \in SUBSET Control
  BY <1>0 DEF TypeOK
<1>b. \A pc \in InRun : [run[s] EXCEPT !.pc = pc] \in SlotWork
  BY <1>0 DEF SlotWork
<1>1. CASE Load(s)
  <2>1. [run[s] EXCEPT !.pc = "loaded", !.seen = status[a]] \in SlotWork
    BY <1>0, <1>a DEF SlotWork
  <2>2. run' \in [Slot -> {NoSlotWork} \cup SlotWork]
    BY <1>1, <2>1, BecomeType DEF Load, Release
  <2> QED BY <1>1, <2>2 DEF TypeOK, Load
<1>2. CASE Begin(s)
  <2>1. run' \in [Slot -> {NoSlotWork} \cup SlotWork]
    BY <1>2, <1>b, BecomeType DEF Begin, Goto, InRun
  <2>2. status' \in [Assessment -> Statuses]
    BY <1>0, <1>2 DEF TypeOK, Begin, Statuses
  <2> QED BY <1>2, <2>1, <2>2 DEF TypeOK, Begin
<1>3. CASE ReadFindings(s)
  <2>1. PICK carry \in Carriable(a) :
          Become(s, [run[s] EXCEPT !.pc = "carry",
                                   !.carry = carry,
                                   !.na = SystemNA \ findings[a],
                                   !.todo = Control \ (findings[a] \cup carry \cup SystemNA)])
    BY <1>3 DEF ReadFindings
  <2>2. carry \in SUBSET Control
    BY <2>1 DEF Carriable, TypeOK
  <2>3. [run[s] EXCEPT !.pc = "carry",
                       !.carry = carry,
                       !.na = SystemNA \ findings[a],
                       !.todo = Control \ (findings[a] \cup carry \cup SystemNA)] \in SlotWork
    BY <1>0, <2>2, ControlAssumption DEF SlotWork, InRun
  <2>4. run' \in [Slot -> {NoSlotWork} \cup SlotWork]
    BY <2>1, <2>3, BecomeType
  <2> QED BY <1>3, <2>4 DEF TypeOK, ReadFindings
<1>4. CASE CarryForward(s)
  <2>1. run[s].carry \in SUBSET Control
    BY <1>0 DEF SlotWork
  <2>2. [run[s] EXCEPT !.pc = "na", !.carry = {}] \in SlotWork
    BY <1>0 DEF SlotWork, InRun
  <2>3. run' \in [Slot -> {NoSlotWork} \cup SlotWork]
    BY <1>4, <2>2, BecomeType DEF CarryForward
  <2> QED BY <1>0, <1>4, <2>1, <2>3, InsertType DEF TypeOK, CarryForward
<1>5. ASSUME NEW c \in Control, InsertNA(s, c) PROVE TypeOK'
  <2>1. [run[s] EXCEPT !.na = @ \ {c}] \in SlotWork
    BY <1>0 DEF SlotWork
  <2>2. run' \in [Slot -> {NoSlotWork} \cup SlotWork]
    BY <1>5, <2>1, BecomeType DEF InsertNA
  <2> QED BY <1>0, <1>5, <2>2, InsertType DEF TypeOK, InsertNA
<1>6. CASE BeginBatches(s)
  <2>1. run' \in [Slot -> {NoSlotWork} \cup SlotWork]
    BY <1>6, <1>b, BecomeType DEF BeginBatches, Goto, InRun
  <2> QED BY <1>6, <2>1 DEF TypeOK, BeginBatches
<1>8. CASE NextBatch(s)
  <2>1. \A B \in SUBSET run[s].todo : [run[s] EXCEPT !.batch = B, !.todo = @ \ B] \in SlotWork
    BY <1>0 DEF SlotWork
  <2>2. run' \in [Slot -> {NoSlotWork} \cup SlotWork]
    BY <1>8, <2>1, BecomeType DEF NextBatch, Release
  <2> QED BY <1>8, <2>2 DEF TypeOK, NextBatch
<1>9. ASSUME NEW c \in Control, AssessControl(s, c) PROVE TypeOK'
  <2>1. [run[s] EXCEPT !.batch = @ \ {c}] \in SlotWork
    BY <1>0 DEF SlotWork
  <2>2. run' \in [Slot -> {NoSlotWork} \cup SlotWork]
    BY <1>9, <2>1, BecomeType DEF AssessControl
  <2> QED BY <1>0, <1>9, <2>2, InsertType DEF TypeOK, AssessControl
<1>10. CASE FinalCheck(s)
  <2>1. [run[s] EXCEPT !.pc = "rollup", !.seen = status[a]] \in SlotWork
    BY <1>0, <1>a DEF SlotWork, InRun
  <2>2. run' \in [Slot -> {NoSlotWork} \cup SlotWork]
    BY <1>10, <2>1, BecomeType DEF FinalCheck, Release
  <2> QED BY <1>10, <2>2 DEF TypeOK, FinalCheck
<1>11. CASE Rollup(s)
  <2>1. run' \in [Slot -> {NoSlotWork} \cup SlotWork]
    BY <1>11, <1>b, BecomeType DEF Rollup, Goto, InRun
  <2>2. rollup' \in [Assessment -> Nat]
    BY <1>0, <1>11, RowsType DEF TypeOK, Rollup
  <2> QED BY <1>11, <2>1, <2>2 DEF TypeOK, Rollup
<1>12. CASE Finish(s)
  <2>1. run' \in [Slot -> {NoSlotWork} \cup SlotWork]
    BY <1>12, BecomeType DEF Finish, Release
  <2> QED BY <1>0, <1>12, <2>1 DEF TypeOK, Finish, Statuses
<1>13. CASE RowVanished(s)
  <2>1. [NoSlotWork EXCEPT !.pc = "error", !.asm = a] \in SlotWork
    BY <1>0 DEF NoSlotWork, SlotWork, Statuses
  <2>2. run' \in [Slot -> {NoSlotWork} \cup SlotWork]
    BY <1>13, <2>1, BecomeType DEF RowVanished, Abort
  <2> QED BY <1>0, <1>13, <2>2 DEF TypeOK, RowVanished, Abort
<1>14. CASE ErrorRead(s)
  <2>1. [run[s] EXCEPT !.pc = "failing", !.seen = status[a]] \in SlotWork
    BY <1>0, <1>a DEF SlotWork
  <2>2. run' \in [Slot -> {NoSlotWork} \cup SlotWork]
    BY <1>14, <2>1, BecomeType DEF ErrorRead, Release
  <2> QED BY <1>14, <2>2 DEF TypeOK, ErrorRead
<1>15. CASE ErrorWrite(s)
  <2>1. run' \in [Slot -> {NoSlotWork} \cup SlotWork]
    BY <1>15, BecomeType DEF ErrorWrite, Release
  <2> QED BY <1>0, <1>15, <2>1 DEF TypeOK, ErrorWrite, Statuses
<1> QED BY <1>1, <1>2, <1>3, <1>4, <1>5, <1>6, <1>8, <1>9, <1>10, <1>11, <1>12, <1>13,
           <1>14, <1>15 DEF RunStep

LEMMA FaultType ==
  ASSUME TypeOK, NEW s \in Slot, RunFails(s) \/ FailureLost(s)
  PROVE  TypeOK'
<1> DEFINE a == run[s].asm
<1>0. run[s] \in SlotWork /\ a \in Assessment
  BY SlotType DEF RunFails, FailureLost, InRun
<1>1. CASE RunFails(s)
  <2>1. PICK kept \in SUBSET Control : Abort(s, kept)
    BY <1>0, <1>1 DEF RunFails, SlotWork
  <2>2. [NoSlotWork EXCEPT !.pc = "error", !.asm = a] \in SlotWork
    BY <1>0 DEF NoSlotWork, SlotWork, Statuses
  <2>3. run' \in [Slot -> {NoSlotWork} \cup SlotWork]
    BY <2>1, <2>2, BecomeType DEF Abort
  <2>4. orphan' \in [Assessment -> [Control -> Nat]]
    BY <1>0, <2>1 DEF TypeOK, Abort
  <2> QED BY <1>1, <2>3, <2>4, BoundsAssumption DEF TypeOK, RunFails
<1>2. CASE FailureLost(s)
  <2>1. run' \in [Slot -> {NoSlotWork} \cup SlotWork]
    BY <1>2, BecomeType DEF FailureLost, Release
  <2> QED BY <1>0, <1>2, <2>1, BoundsAssumption DEF TypeOK, FailureLost
<1> QED BY <1>1, <1>2

LEMMA OrphanType ==
  ASSUME TypeOK, NEW a \in Assessment, NEW c \in Control, OrphanCommit(a, c) \/ OrphanDies(a, c)
  PROVE  TypeOK'
<1>1. orphan' \in [Assessment -> [Control -> Nat]]
  <2>1. orphan[a][c] \in Nat /\ orphan[a][c] > 0 /\ orphan' = [orphan EXCEPT ![a][c] = @ - 1]
    BY DEF TypeOK, OrphanCommit, OrphanDies
  <2> QED BY <2>1 DEF TypeOK
<1>2. CASE OrphanCommit(a, c)
  BY <1>1, <1>2, InsertType DEF TypeOK, OrphanCommit
<1>3. CASE OrphanDies(a, c)
  BY <1>1, <1>3 DEF TypeOK, OrphanDies
<1> QED BY <1>2, <1>3

\* Type correctness: every step of the API, the worker and the runs keeps the
\* tables and the tasks within the values the code uses.
THEOREM TypeCorrect == Spec => []TypeOK
<1>1. TypeOK /\ [Next]_vars => TypeOK'
  <2> SUFFICES ASSUME TypeOK, [Next]_vars PROVE TypeOK'
    OBVIOUS
  <2>1. CASE UNCHANGED vars
    BY <2>1 DEF vars, TypeOK
  <2>2. CASE Next
    <3>1. ASSUME NEW a \in Assessment, Start(a) PROVE TypeOK'
      BY <3>1 DEF TypeOK, Start, Statuses
    <3>2. ASSUME NEW q \in Client, NEW a \in Assessment,
                 PauseCheck(q, a) \/ ResumeCheck(q, a) \/ DeleteCheck(q, a)
          PROVE  TypeOK'
      BY <3>2, RequestType
    <3> QED BY <2>2, <3>1, <3>2, CommitType, WorkerType, RunStepType, FaultType, OrphanType
           DEF Next
  <2> QED BY <2>1, <2>2
<1> QED BY <1>1, InitType, PTL DEF Spec

----------------------------------------------------------------------------
(* A complete assessment covers the baseline.                              *)

\* What a step may do to the findings and to the status without harm: rows are
\* lost only with the assessment, a deleted assessment stays deleted, and only
\* a covered assessment becomes complete.
Harmless(st, f, e) ==
    /\ f \in [Assessment -> SUBSET Control] /\ e \in [Assessment -> SUBSET Control]
    /\ \A a \in Assessment :
         /\ status[a] = "deleted" => st[a] = "deleted"
         /\ st[a] # "deleted" => findings[a] \subseteq f[a] /\ examined[a] \subseteq e[a]
         /\ st[a] = "complete" => status[a] = "complete" \/ (f[a] = Control /\ e[a] = Control)

LEMMA HarmlessShown ==
  ASSUME TypeOK, CompleteCoversBaseline, Harmless(status', findings', examined')
  PROVE  CompleteCoversBaseline'
<1> SUFFICES ASSUME NEW a \in Assessment, status'[a] = "complete"
             PROVE  findings'[a] = Control /\ examined'[a] = Control
  BY DEF CompleteCoversBaseline
<1>1. findings'[a] \subseteq Control /\ examined'[a] \subseteq Control
  BY DEF Harmless
<1>2. CASE findings'[a] = Control /\ examined'[a] = Control
  BY <1>2
<1>3. CASE status[a] = "complete"
  <2>1. findings[a] = Control /\ examined[a] = Control
    BY <1>3 DEF CompleteCoversBaseline
  <2>2. findings[a] \subseteq findings'[a] /\ examined[a] \subseteq examined'[a]
    BY DEF Harmless
  <2> QED BY <1>1, <2>1, <2>2
<1> QED BY <1>2, <1>3 DEF Harmless

\* A harmless step that leaves the runs alone keeps the invariant.
LEMMA CoverFrame ==
  ASSUME TypeOK, CoverInv, Harmless(status', findings', examined'), run' = run
  PROVE  CoverInv'
<1>1. CompleteCoversBaseline'
  BY HarmlessShown DEF CoverInv
<1>2. ASSUME NEW s \in Slot PROVE Staged(run'[s]) /\ Covers(run[s])'
  <2>1. CASE run[s].pc \in InRun
    BY <2>1, SlotType DEF CoverInv, Covers, Staged, Harmless, InRun
  <2>2. CASE run[s].pc \notin InRun
    BY <2>2 DEF CoverInv, Covers, Staged
  <2> QED BY <2>1, <2>2
<1> QED BY <1>1, <1>2 DEF CoverInv

\* So does a harmless step of one slot, if what the slot becomes obeys it.
LEMMA CoverStep ==
  ASSUME TypeOK, CoverInv, Harmless(status', findings', examined'),
         NEW s \in Slot, NEW work \in {NoSlotWork} \cup SlotWork, Become(s, work),
         Staged(work),
         work.pc \in InRun \ {"prepare"} /\ status'[work.asm] # "deleted"
           => Control \subseteq findings'[work.asm] \cup Left(work)
  PROVE  CoverInv'
<1>1. CompleteCoversBaseline'
  BY HarmlessShown DEF CoverInv
<1>2. ASSUME NEW t \in Slot PROVE Staged(run'[t]) /\ Covers(run[t])'
  <2>1. CASE t = s
    <3>1. run'[t] = work
      BY <2>1 DEF Become, TypeOK
    <3> QED BY <3>1 DEF Covers
  <2>2. CASE t # s
    <3>1. run'[t] = run[t]
      BY <2>2 DEF Become, TypeOK
    <3>2. CASE run[t].pc \in InRun
      BY <3>1, <3>2, SlotType DEF CoverInv, Covers, Staged, Harmless, InRun
    <3>3. CASE run[t].pc \notin InRun
      BY <3>1, <3>3 DEF CoverInv, Covers, Staged
    <3> QED BY <3>2, <3>3
  <2> QED BY <2>1, <2>2
<1> QED BY <1>1, <1>2 DEF CoverInv

\* Storing findings is harmless.
LEMMA InsertHarmless ==
  ASSUME TypeOK, NEW a \in Assessment, NEW C \in SUBSET Control, Insert(a, C),
         UNCHANGED <<status, examined>>
  PROVE  Harmless(status', findings', examined') /\ findings'[a] = findings[a] \cup C
BY InsertType DEF TypeOK, Insert, Harmless

\* A slot that lets go of its assessment has nothing left to store.
LEMMA IdleStaged == Staged(NoSlotWork) /\ NoSlotWork.pc \notin InRun
BY DEF Staged, NoSlotWork, Left, InRun

LEMMA CoverInit == Init => CoverInv
<1> SUFFICES ASSUME Init PROVE CoverInv
  OBVIOUS
<1>1. CompleteCoversBaseline
  BY DEF Init, CompleteCoversBaseline
<1> QED BY <1>1, IdleStaged DEF Init, CoverInv, Covers

\* The API and the worker's start-up and end keep the invariant.
LEMMA CoverApi ==
  ASSUME TypeOK, CoverInv,
         \/ \E a \in Assessment : Start(a)
         \/ \E q \in Client, a \in Assessment :
              PauseCheck(q, a) \/ ResumeCheck(q, a) \/ DeleteCheck(q, a)
         \/ \E q \in Client : Commit(q)
         \/ Recover
  PROVE  CoverInv'
<1>1. ASSUME NEW a \in Assessment, Start(a) PROVE CoverInv'
  <2>1. Harmless(status', findings', examined')
    BY <1>1 DEF Start, Harmless, TypeOK
  <2> QED BY <1>1, <2>1, CoverFrame DEF Start
<1>2. ASSUME NEW q \in Client, NEW a \in Assessment,
             PauseCheck(q, a) \/ ResumeCheck(q, a) \/ DeleteCheck(q, a)
      PROVE  CoverInv'
  <2>1. UNCHANGED <<table, run>>
    BY <1>2 DEF PauseCheck, ResumeCheck, DeleteCheck, Ask
  <2>2. Harmless(status', findings', examined')
    BY <2>1 DEF Harmless, TypeOK
  <2> QED BY <2>1, <2>2, CoverFrame
<1>3. ASSUME NEW q \in Client, Commit(q) PROVE CoverInv'
  <2> DEFINE a == request[q].asm
             op == request[q].op
  <2>1. a \in Assessment /\ op \in {"pause", "resume", "delete"}
    BY <1>3 DEF TypeOK, Commit, Requests
  <2>2. Written(op) # "complete" /\ (Written(op) = "deleted" <=> op = "delete")
    BY <2>1 DEF Written
  <2>3. CASE op = "delete" /\ status[a] # "deleted"
    <3>1. /\ status' = [status EXCEPT ![a] = "deleted"]
          /\ findings' = [findings EXCEPT ![a] = {}]
          /\ examined' = [examined EXCEPT ![a] = {}]
          /\ run' = run
      BY <1>3, <2>2, <2>3 DEF Commit
    <3>2. Harmless(status', findings', examined')
      BY <2>1, <3>1 DEF Harmless, TypeOK
    <3> QED BY <3>1, <3>2, CoverFrame
  <2>4. CASE ~(op = "delete" /\ status[a] # "deleted")
    <3>1. /\ status' \in {status, [status EXCEPT ![a] = Written(op)]}
          /\ status[a] = "deleted" => status' = status
          /\ UNCHANGED <<findings, examined, run>>
      BY <1>3, <2>4 DEF Commit
    <3>2. Harmless(status', findings', examined')
      BY <2>1, <2>2, <2>4, <3>1 DEF Harmless, TypeOK
    <3> QED BY <3>1, <3>2, CoverFrame
  <2> QED BY <2>3, <2>4
<1>4. CASE Recover
  <2>1. ASSUME NEW a \in Assessment
        PROVE  /\ status'[a] = "deleted" <=> status[a] = "deleted"
               /\ status'[a] = "complete" <=> status[a] = "complete"
    BY <1>4 DEF Recover
  <2>2. Harmless(status', findings', examined')
    BY <1>4, <2>1 DEF Recover, Harmless, TypeOK
  <2> QED BY <1>4, <2>2, CoverFrame DEF Recover
<1> QED BY <1>1, <1>2, <1>3, <1>4

LEMMA CoverWorker ==
  ASSUME TypeOK, CoverInv,
         \/ Crash
         \/ \E s \in Slot, a \in Assessment : Claim(s, a)
         \/ \E a \in Assessment, c \in Control : OrphanCommit(a, c) \/ OrphanDies(a, c)
  PROVE  CoverInv'
<1>1. CASE Crash
  <2>1. CompleteCoversBaseline'
    BY <1>1 DEF Crash, CoverInv, CompleteCoversBaseline
  <2>2. \A s \in Slot : run'[s] = NoSlotWork
    BY <1>1 DEF Crash
  <2> QED BY <2>1, <2>2, IdleStaged DEF CoverInv, Covers
<1>2. ASSUME NEW s \in Slot, NEW a \in Assessment, Claim(s, a) PROVE CoverInv'
  <2> DEFINE work == [NoSlotWork EXCEPT !.pc = "claimed", !.asm = a]
  <2>1. work \in SlotWork /\ work.pc \notin InRun /\ Staged(work)
    BY DEF NoSlotWork, SlotWork, Statuses, InRun, Staged, Left
  <2>2. Harmless(status', findings', examined')
    BY <1>2 DEF Claim, Claimable, Harmless, TypeOK
  <2> HIDE DEF work
  <2>3. Become(s, work)
    BY <1>2 DEF Claim, work
  <2> QED BY <2>1, <2>2, <2>3, CoverStep
<1>3. ASSUME NEW a \in Assessment, NEW c \in Control, OrphanCommit(a, c) PROVE CoverInv'
  <2>1. Harmless(status', findings', examined')
    BY <1>3, InsertHarmless DEF OrphanCommit
  <2> QED BY <1>3, <2>1, CoverFrame DEF OrphanCommit
<1>4. ASSUME NEW a \in Assessment, NEW c \in Control, OrphanDies(a, c) PROVE CoverInv'
  <2>1. Harmless(status', findings', examined')
    BY <1>4 DEF OrphanDies, Harmless, TypeOK
  <2> QED BY <1>4, <2>1, CoverFrame DEF OrphanDies
<1> QED BY <1>1, <1>2, <1>3, <1>4

\* Every step of a run keeps the invariant.
LEMMA CoverRunStep ==
  ASSUME TypeOK, CoverInv, NEW s \in Slot, RunStep(s)
  PROVE  CoverInv'
<1> DEFINE a == run[s].asm
<1>0. run[s] \in SlotWork /\ a \in Assessment
  BY SlotType DEF RunStep, Load, Begin, ReadFindings, CarryForward, InsertNA,
     BeginBatches, NextBatch, AssessControl, FinalCheck, Rollup, Finish, RowVanished,
     ErrorRead, ErrorWrite, At, InRun
<1>a. status[a] \in Statuses /\ findings[a] \in SUBSET Control
  BY <1>0 DEF TypeOK
<1>b. Staged(run[s]) /\ Covers(run[s])
  BY DEF CoverInv
<1>c. UNCHANGED <<status, findings, examined>> => Harmless(status', findings', examined')
  BY DEF Harmless, TypeOK
<1>1. CASE Load(s)
  <2>1. ASSUME NEW st \in Statuses
        PROVE  LET work == [run[s] EXCEPT !.pc = "loaded", !.seen = st]
               IN  work \in SlotWork /\ Staged(work) /\ work.pc \notin InRun
    BY <1>0, <1>1, <1>b DEF Load, At, SlotWork, Staged, Left, InRun
  <2> QED BY <1>1, <1>a, <1>c, <2>1, CoverStep, IdleStaged DEF Load, Release
<1>2. CASE Begin(s)
  <2> DEFINE work == [run[s] EXCEPT !.pc = "prepare"]
  <2>1. work \in SlotWork /\ Staged(work) /\ work.pc = "prepare"
    BY <1>0, <1>2, <1>b DEF Begin, At, SlotWork, Staged, Left, InRun
  <2>2. Harmless(status', findings', examined')
    BY <1>2 DEF Begin, Present, Harmless, TypeOK
  <2>3. Become(s, work)
    BY <1>2 DEF Begin, Goto
  <2> HIDE DEF work
  <2> QED BY <2>1, <2>2, <2>3, CoverStep
<1>3. CASE ReadFindings(s)
  <2>1. PICK carry \in Carriable(a) :
          Become(s, [run[s] EXCEPT !.pc = "carry",
                                   !.carry = carry,
                                   !.na = SystemNA \ findings[a],
                                   !.todo = Control \ (findings[a] \cup carry \cup SystemNA)])
    BY <1>3 DEF ReadFindings
  <2>2. carry \in SUBSET Control
    BY <2>1 DEF Carriable, TypeOK
  <2> DEFINE work == [run[s] EXCEPT !.pc = "carry",
                                    !.carry = carry,
                                    !.na = SystemNA \ findings[a],
                                    !.todo = Control \ (findings[a] \cup carry \cup SystemNA)]
  <2>3. work \in SlotWork
    BY <1>0, <2>2, ControlAssumption DEF SlotWork, InRun
  <2>4. Staged(work)
    BY <1>0 DEF Staged, SlotWork
  <2>5. work.asm = a /\ Control \subseteq findings[a] \cup Left(work)
    BY <1>0, <1>a, <2>2, ControlAssumption DEF SlotWork, Left
  <2>6. Become(s, work) /\ UNCHANGED <<status, findings, examined>>
    BY <1>3, <2>1 DEF ReadFindings
  <2> HIDE DEF work
  <2> QED BY <1>c, <2>3, <2>4, <2>5, <2>6, CoverStep
<1>4. CASE CarryForward(s)
  <2> DEFINE work == [run[s] EXCEPT !.pc = "na", !.carry = {}]
  <2>1. work \in SlotWork /\ Staged(work) /\ work.asm = a
    BY <1>0 DEF SlotWork, InRun, Staged
  <2>2. Harmless(status', findings', examined') /\ findings'[a] = findings[a] \cup run[s].carry
    BY <1>0, <1>4, InsertHarmless DEF CarryForward, SlotWork
  <2>3. Left(run[s]) \subseteq run[s].carry \cup Left(work)
    BY <1>0 DEF Left, SlotWork
  <2>4. Control \subseteq findings[a] \cup Left(run[s])
    BY <1>4, <1>b DEF CarryForward, At, Present, Covers, InRun
  <2>5. Become(s, work)
    BY <1>4 DEF CarryForward
  <2> HIDE DEF work
  <2> QED BY <2>1, <2>2, <2>3, <2>4, <2>5, CoverStep
<1>5. ASSUME NEW c \in Control, InsertNA(s, c) PROVE CoverInv'
  <2> DEFINE work == [run[s] EXCEPT !.na = @ \ {c}]
  <2>1. work \in SlotWork /\ Staged(work) /\ work.asm = a
    BY <1>0, <1>5, <1>b DEF InsertNA, At, SlotWork, InRun, Staged, Left
  <2>2. Harmless(status', findings', examined') /\ findings'[a] = findings[a] \cup {c}
    BY <1>0, <1>5, InsertHarmless DEF InsertNA, SlotWork
  <2>3. Left(run[s]) \subseteq {c} \cup Left(work)
    BY <1>0 DEF Left, SlotWork
  <2>4. Control \subseteq findings[a] \cup Left(run[s])
    BY <1>5, <1>b DEF InsertNA, At, Present, Covers, InRun
  <2>5. Become(s, work)
    BY <1>5 DEF InsertNA
  <2> HIDE DEF work
  <2> QED BY <2>1, <2>2, <2>3, <2>4, <2>5, CoverStep
<1>6. CASE BeginBatches(s)
  <2> DEFINE work == [run[s] EXCEPT !.pc = "batch"]
  <2>1. work \in SlotWork /\ Staged(work) /\ work.asm = a /\ Left(work) = Left(run[s])
    BY <1>0, <1>6, <1>b DEF BeginBatches, At, SlotWork, InRun, Staged, Left
  <2>2. Control \subseteq findings[a] \cup Left(run[s])
    BY <1>6, <1>b DEF BeginBatches, At, Present, Covers, InRun
  <2>3. Become(s, work)
    BY <1>6 DEF BeginBatches, Goto
  <2> HIDE DEF work
  <2> QED BY <1>6, <1>c, <2>1, <2>2, <2>3, CoverStep DEF BeginBatches
<1>8. CASE NextBatch(s)
  <2>1. CASE status[a] = "paused"
    BY <1>8, <1>c, <2>1, CoverStep, IdleStaged DEF NextBatch, Release
  <2>2. CASE status[a] # "paused"
    <3>1. PICK B \in SUBSET run[s].todo : Become(s, [run[s] EXCEPT !.batch = B, !.todo = @ \ B])
      BY <1>8, <2>2 DEF NextBatch
    <3> DEFINE work == [run[s] EXCEPT !.batch = B, !.todo = @ \ B]
    <3>2. work \in SlotWork /\ Staged(work) /\ work.asm = a
      BY <1>0, <1>8, <1>b DEF NextBatch, At, SlotWork, InRun, Staged, Left
    <3>3. Left(run[s]) \subseteq Left(work)
      BY <1>0, <1>8 DEF NextBatch, SlotWork, Left
    <3>4. Control \subseteq findings[a] \cup Left(run[s])
      BY <1>8, <1>b DEF NextBatch, At, Present, Covers, InRun
    <3>5. Become(s, work)
      BY <3>1
    <3> HIDE DEF work
    <3> QED BY <1>8, <1>c, <3>2, <3>3, <3>4, <3>5, CoverStep DEF NextBatch
  <2> QED BY <2>1, <2>2
<1>9. ASSUME NEW c \in Control, AssessControl(s, c) PROVE CoverInv'
  <2> DEFINE work == [run[s] EXCEPT !.batch = @ \ {c}]
  <2>1. work \in SlotWork /\ Staged(work) /\ work.asm = a
    BY <1>0, <1>9, <1>b DEF AssessControl, At, SlotWork, InRun, Staged, Left
  <2>2. Harmless(status', findings', examined') /\ findings'[a] = findings[a] \cup {c}
    BY <1>0, <1>9, InsertHarmless DEF AssessControl, SlotWork
  <2>3. Left(run[s]) \subseteq {c} \cup Left(work)
    BY <1>0 DEF Left, SlotWork
  <2>4. Control \subseteq findings[a] \cup Left(run[s])
    BY <1>9, <1>b DEF AssessControl, At, Present, Covers, InRun
  <2>5. Become(s, work)
    BY <1>9 DEF AssessControl
  <2> HIDE DEF work
  <2> QED BY <2>1, <2>2, <2>3, <2>4, <2>5, CoverStep
<1>10. CASE FinalCheck(s)
  <2>1. CASE status[a] \in {"paused", "failed"}
    BY <1>10, <1>c, <2>1, CoverStep, IdleStaged DEF FinalCheck, Release
  <2>2. CASE status[a] \notin {"paused", "failed"}
    <3> DEFINE work == [run[s] EXCEPT !.pc = "rollup", !.seen = status[a]]
    <3>1. Staged(run[s]) /\ run[s].pc = "batch" /\ run[s].todo = {} /\ run[s].batch = {}
      BY <1>10, <1>b DEF FinalCheck, At
    <3>2. Left(run[s]) = {}
      BY <3>1 DEF Staged, Left
    <3>3. work \in SlotWork /\ work.asm = a /\ Left(work) = {} /\ Staged(work)
      BY <1>0, <1>a, <3>1, <3>2 DEF SlotWork, InRun, Staged, Left
    <3>4. Control \subseteq findings[a] \cup Left(run[s])
      BY <1>10, <1>b DEF FinalCheck, At, Present, Covers, InRun
    <3>5. Become(s, work)
      BY <1>10, <2>2 DEF FinalCheck
    <3> HIDE DEF work
    <3> QED BY <1>10, <1>c, <3>2, <3>3, <3>4, <3>5, CoverStep DEF FinalCheck
  <2> QED BY <2>1, <2>2
<1>11. CASE Rollup(s)
  <2> DEFINE work == [run[s] EXCEPT !.pc = "finish"]
  <2>1. work \in SlotWork /\ Staged(work) /\ work.asm = a /\ Left(work) = Left(run[s])
    BY <1>0, <1>11, <1>b DEF Rollup, At, SlotWork, InRun, Staged, Left
  <2>2. Control \subseteq findings[a] \cup Left(run[s])
    BY <1>11, <1>b DEF Rollup, At, Present, Covers, InRun
  <2>3. Become(s, work)
    BY <1>11 DEF Rollup, Goto
  <2> HIDE DEF work
  <2> QED BY <1>11, <1>c, <2>1, <2>2, <2>3, CoverStep DEF Rollup
<1>12. CASE Finish(s)
  <2>1. Left(run[s]) = {} /\ Control \subseteq findings[a] \cup Left(run[s])
    BY <1>12, <1>b DEF Finish, At, Present, Covers, Staged, InRun
  <2>2. findings[a] = Control /\ findings' = findings
    BY <1>12, <1>a, <2>1 DEF Finish
  <2>3. examined' = [examined EXCEPT ![a] = @ \cup findings[a]]
    BY <1>12 DEF Finish
  <2>4. examined'[a] = Control /\ examined' \in [Assessment -> SUBSET Control]
    BY <1>0, <2>2, <2>3 DEF TypeOK
  <2>5. Harmless(status', findings', examined')
    BY <1>0, <1>12, <2>2, <2>3, <2>4 DEF Finish, Present, Harmless, TypeOK
  <2> QED BY <1>12, <2>5, CoverStep, IdleStaged DEF Finish, Release
<1>13. CASE RowVanished(s)
  <2> DEFINE work == [NoSlotWork EXCEPT !.pc = "error", !.asm = a]
  <2>1. work \in SlotWork /\ Staged(work) /\ work.pc \notin InRun
    BY <1>0 DEF NoSlotWork, SlotWork, Statuses, InRun, Staged, Left
  <2>2. Become(s, work)
    BY <1>13 DEF RowVanished, Abort
  <2> HIDE DEF work
  <2> QED BY <1>13, <1>c, <2>1, <2>2, CoverStep DEF RowVanished
<1>14. CASE ErrorRead(s)
  <2>1. ASSUME NEW st \in Statuses
        PROVE  LET work == [run[s] EXCEPT !.pc = "failing", !.seen = st]
               IN  work \in SlotWork /\ Staged(work) /\ work.pc \notin InRun
    BY <1>0, <1>14, <1>b DEF ErrorRead, At, SlotWork, Staged, Left, InRun
  <2> QED BY <1>14, <1>a, <1>c, <2>1, CoverStep, IdleStaged DEF ErrorRead, Release
<1>15. CASE ErrorWrite(s)
  <2>1. Harmless(status', findings', examined')
    BY <1>15 DEF ErrorWrite, Harmless, TypeOK
  <2> QED BY <1>15, <2>1, CoverStep, IdleStaged DEF ErrorWrite, Release
<1> QED BY <1>1, <1>2, <1>3, <1>4, <1>5, <1>6, <1>8, <1>9, <1>10, <1>11, <1>12, <1>13,
           <1>14, <1>15 DEF RunStep

\* So does every failure.
LEMMA CoverFault ==
  ASSUME TypeOK, CoverInv, NEW s \in Slot, RunFails(s) \/ FailureLost(s)
  PROVE  CoverInv'
<1> DEFINE work == [NoSlotWork EXCEPT !.pc = "error", !.asm = run[s].asm]
<1>1. run[s] \in SlotWork /\ run[s].asm \in Assessment
  BY SlotType DEF RunFails, FailureLost, InRun
<1>2. work \in SlotWork /\ Staged(work) /\ work.pc \notin InRun
  BY <1>1 DEF NoSlotWork, SlotWork, Statuses, InRun, Staged, Left
<1>3. Become(s, work) \/ Become(s, NoSlotWork)
  BY DEF RunFails, FailureLost, Abort, Release
<1>4. UNCHANGED <<status, findings, examined>>
  BY DEF RunFails, FailureLost
<1>5. Harmless(status', findings', examined')
  BY <1>4 DEF Harmless, TypeOK
<1> HIDE DEF work
<1> QED BY <1>2, <1>3, <1>5, CoverStep, IdleStaged

\* The invariant holds in every reachable state.
THEOREM CoverInvariant == Spec => []CoverInv
<1>1. TypeOK /\ CoverInv /\ [Next]_vars => CoverInv'
  <2> SUFFICES ASSUME TypeOK, CoverInv, [Next]_vars PROVE CoverInv'
    OBVIOUS
  <2>1. CASE UNCHANGED vars
    <3>1. Harmless(status', findings', examined') /\ run' = run
      BY <2>1 DEF vars, Harmless, TypeOK
    <3> QED BY <3>1, CoverFrame
  <2>2. CASE Next
    BY <2>2, CoverApi, CoverWorker, CoverRunStep, CoverFault DEF Next
  <2> QED BY <2>1, <2>2
<1> QED BY <1>1, CoverInit, TypeCorrect, PTL DEF Spec

\* An assessment that shows "complete" has a finding and an examination for
\* every control of its baseline, for any number of slots, pauses, crashes,
\* carried findings and failures.
THEOREM CompleteCovers == Spec => []CompleteCoversBaseline
<1>1. CoverInv => CompleteCoversBaseline
  BY DEF CoverInv
<1> QED BY <1>1, CoverInvariant, PTL

----------------------------------------------------------------------------
(* What a step of a slot leaves alone.                                     *)

\* A slot that takes a step, or fails, works for an assessment of the table.
LEMMA StepOwner ==
  ASSUME TypeOK, NEW s \in Slot, RunStep(s) \/ RunFails(s) \/ FailureLost(s)
  PROVE  run[s] \in SlotWork /\ run[s].asm \in Assessment
BY SlotType DEF RunStep, Load, Begin, ReadFindings, CarryForward, InsertNA,
   BeginBatches, NextBatch, AssessControl, FinalCheck, Rollup, Finish, RowVanished,
   ErrorRead, ErrorWrite, RunFails, FailureLost, At, InRun

\* A slot's step, as the work the slot has afterwards: it goes on for the same assessment
\* or lets go of it.
LEMMA StepWork ==
  ASSUME TypeOK, NEW s \in Slot, RunStep(s) \/ RunFails(s) \/ FailureLost(s)
  PROVE  run'[s] = NoSlotWork \/ run'[s].asm = run[s].asm
<1>0. run[s] \in SlotWork
  BY StepOwner
<1>1. ASSUME NEW work, Become(s, work) PROVE run'[s] = work
  BY <1>1 DEF Become, TypeOK
<1>2. CASE Release(s)
  BY <1>1, <1>2 DEF Release
<1>3. CASE \E pc : Goto(s, pc)
  BY <1>0, <1>1, <1>3 DEF Goto, SlotWork
<1>4. CASE \E kept : Abort(s, kept)
  BY <1>1, <1>4 DEF Abort, NoSlotWork
<1>5. CASE Load(s)
  BY <1>0, <1>1, <1>2, <1>5 DEF Load, SlotWork
<1>6. CASE ReadFindings(s)
  BY <1>0, <1>1, <1>6 DEF ReadFindings, SlotWork
<1>7. CASE CarryForward(s)
  BY <1>0, <1>1, <1>7 DEF CarryForward, SlotWork
<1>8. CASE \E c \in Control : InsertNA(s, c)
  BY <1>0, <1>1, <1>8 DEF InsertNA, SlotWork
<1>9. CASE BeginBatches(s)
  BY <1>0, <1>1, <1>3, <1>9 DEF BeginBatches, SlotWork
<1>11. CASE NextBatch(s)
  BY <1>0, <1>1, <1>2, <1>11 DEF NextBatch, SlotWork
<1>12. CASE \E c \in Control : AssessControl(s, c)
  BY <1>0, <1>1, <1>12 DEF AssessControl, SlotWork
<1>13. CASE FinalCheck(s)
  BY <1>0, <1>1, <1>2, <1>13 DEF FinalCheck, SlotWork
<1>14. CASE ErrorRead(s)
  BY <1>0, <1>1, <1>2, <1>14 DEF ErrorRead, SlotWork
<1> QED
  BY <1>2, <1>3, <1>4, <1>5, <1>6, <1>7, <1>8, <1>9, <1>11, <1>12, <1>13, <1>14
  DEF RunStep, Begin, Rollup, Finish, RowVanished, ErrorWrite, RunFails, FailureLost

\* It leaves the other slots alone.
LEMMA StepBecomes ==
  ASSUME TypeOK, NEW s \in Slot, RunStep(s) \/ RunFails(s) \/ FailureLost(s)
  PROVE  \A t \in Slot \ {s} : run'[t] = run[t]
<1>1. PICK work : Become(s, work)
  BY DEF RunStep, Load, Begin, ReadFindings, CarryForward, InsertNA,
     BeginBatches, NextBatch, AssessControl, FinalCheck, Rollup, Finish, RowVanished,
     ErrorRead, ErrorWrite, RunFails, FailureLost, Abort, Goto, Release
<1> QED BY <1>1 DEF Become, TypeOK

\* A step of a slot touches the row and the orphans of its own assessment only.
LEMMA StepElsewhere ==
  ASSUME TypeOK, NEW s \in Slot, RunStep(s) \/ RunFails(s) \/ FailureLost(s),
         NEW a \in Assessment, a # run[s].asm
  PROVE  /\ status'[a] = status[a] /\ findings'[a] = findings[a]
         /\ surplus'[a] = surplus[a]
         /\ rollup'[a] = rollup[a] /\ orphan'[a] = orphan[a]
<1> USE DEF TypeOK
<1>1. CASE Load(s) \/ ReadFindings(s) \/ BeginBatches(s) \/ NextBatch(s) \/ FinalCheck(s) \/ ErrorRead(s) \/ FailureLost(s)
  BY <1>1 DEF Load, ReadFindings, BeginBatches, NextBatch, FinalCheck, ErrorRead, FailureLost
<1>2. CASE Begin(s) \/ Rollup(s) \/ Finish(s) \/ ErrorWrite(s)
  BY <1>2 DEF Begin, Rollup, Finish, ErrorWrite
<1>3. CASE CarryForward(s) \/ \E c \in Control : InsertNA(s, c) \/ AssessControl(s, c)
  BY <1>3 DEF CarryForward, InsertNA, AssessControl, Insert
<1>4. CASE RowVanished(s) \/ RunFails(s)
  BY <1>4 DEF RowVanished, RunFails, Abort
<1> QED BY <1>1, <1>2, <1>3, <1>4 DEF RunStep

----------------------------------------------------------------------------
(* A running assessment has a task.                                        *)

\* A step keeps the witness of one assessment: it is the task itself, or nothing of
\* the assessment's status and of that task changes.
LEMMA RunningStep ==
  ASSUME TypeOK, RunningInv, NEW s \in Slot, RunStep(s) \/ RunFails(s) \/ FailureLost(s)
  PROVE  RunningInv'
<1> SUFFICES ASSUME worker' = "up", NEW a \in Assessment \ lost', status'[a] = "running"
             PROVE  \E t \in Slot : run'[t].asm = a /\ WillRest(run'[t])
  BY DEF RunningInv
<1>0. worker = "up" /\ a \notin lost
  BY DEF RunStep, Load, Begin, ReadFindings, CarryForward, InsertNA,
     BeginBatches, NextBatch, AssessControl, FinalCheck, Rollup, Finish, RowVanished,
     ErrorRead, ErrorWrite, RunFails, FailureLost
<1>1. run[s] \in SlotWork /\ run[s].asm \in Assessment
  BY StepOwner
<1>2. CASE a = run[s].asm /\ Begin(s)
  <2>1. run'[s] = [run[s] EXCEPT !.pc = "prepare"]
    BY <1>2 DEF Begin, Goto, Become, TypeOK
  <2> QED BY <1>1, <1>2, <2>1 DEF WillRest, SlotWork
<1>3. CASE ~(a = run[s].asm /\ Begin(s))
  <2>1. status[a] = "running"
    <3>1. CASE a # run[s].asm
      BY <3>1, StepElsewhere
    <3>2. CASE a = run[s].asm /\ ~Begin(s)
      BY <3>2, <1>1 DEF RunStep, Load, ReadFindings, CarryForward, InsertNA,
         BeginBatches, NextBatch, AssessControl, FinalCheck, Rollup, Finish, RowVanished,
         ErrorRead, ErrorWrite, RunFails, FailureLost, TypeOK
    <3> QED BY <1>3, <3>1, <3>2
  <2>2. PICK t \in Slot : run[t].asm = a /\ WillRest(run[t])
    BY <1>0, <2>1 DEF RunningInv
  <2>3. CASE t # s
    BY <2>2, <2>3, StepBecomes
  <2>4. CASE t = s
    <3> SUFFICES run'[s].asm = a /\ WillRest(run'[s])
      OBVIOUS
    <3>0. status[run[s].asm] = "running" /\ run[s].asm = a /\ WillRest(run[s]) /\ run[s] \in SlotWork
      BY <1>1, <2>1, <2>2, <2>4
    <3>a. ASSUME NEW work, Become(s, work) PROVE run'[s] = work
      BY <3>a DEF Become, TypeOK
    <3>b. ASSUME NEW pc \in {"carry", "na", "batch", "loaded", "prepare"}, run'[s].pc = pc, run'[s].asm = a
          PROVE  run'[s].asm = a /\ WillRest(run'[s])
      BY <3>b DEF WillRest
    <3>1. CASE Load(s)
      BY <3>0, <3>1, <3>a, <3>b DEF Load, Present, SlotWork
    <3>3. CASE ReadFindings(s)
      BY <3>0, <3>3, <3>a, <3>b DEF ReadFindings, SlotWork
    <3>4. CASE CarryForward(s)
      BY <3>0, <3>4, <3>a, <3>b DEF CarryForward, SlotWork
    <3>5. CASE \E c \in Control : InsertNA(s, c)
      BY <3>0, <3>5, <3>a, <3>b DEF InsertNA, At, SlotWork
    <3>6. CASE BeginBatches(s)
      BY <3>0, <3>6, <3>a, <3>b DEF BeginBatches, Goto, SlotWork
    <3>8. CASE NextBatch(s)
      BY <3>0, <3>8, <3>a, <3>b DEF NextBatch, At, SlotWork
    <3>9. CASE \E c \in Control : AssessControl(s, c)
      BY <3>0, <3>9, <3>a, <3>b DEF AssessControl, At, SlotWork
    <3>10. CASE FinalCheck(s)
      <4>1. run'[s] = [run[s] EXCEPT !.pc = "rollup", !.seen = "running"]
        BY <3>0, <3>10, <3>a DEF FinalCheck
      <4> QED BY <3>0, <4>1 DEF WillRest, SlotWork
    <3>11. CASE Rollup(s)
      <4>1. run'[s] = [run[s] EXCEPT !.pc = "finish"] /\ run[s].pc = "rollup"
        BY <3>11, <3>a DEF Rollup, Goto, At
      <4> QED BY <3>0, <4>1 DEF WillRest, SlotWork
    <3>12. CASE Finish(s) \/ ErrorWrite(s)
      <4>1. status'[a] # "running"
        BY <3>0, <1>1, <3>12 DEF Finish, ErrorWrite, At, WillRest, TypeOK
      <4> QED BY <4>1
    <3>13. CASE RowVanished(s) \/ RunFails(s)
      <4>1. PICK kept : Abort(s, kept)
        BY <3>13 DEF RowVanished, RunFails
      <4>2. run'[s] = [NoSlotWork EXCEPT !.pc = "error", !.asm = a]
        BY <3>0, <3>a, <4>1 DEF Abort
      <4> QED BY <4>2 DEF NoSlotWork, WillRest
    <3>14. CASE ErrorRead(s)
      <4>1. run'[s] = [run[s] EXCEPT !.pc = "failing", !.seen = "running"]
        BY <3>0, <3>14, <3>a DEF ErrorRead
      <4> QED BY <3>0, <4>1 DEF WillRest, SlotWork
    <3>15. CASE FailureLost(s)
      BY <3>0, <1>0, <3>15 DEF FailureLost
    <3> QED BY <1>3, <3>0, <3>1, <3>3, <3>4, <3>5, <3>6, <3>8, <3>9, <3>10, <3>11, <3>12, <3>13, <3>14, <3>15 DEF RunStep
  <2> QED BY <2>3, <2>4
<1> QED BY <1>2, <1>3

\* Requests, recovery, claims and orphans mark nothing running that nobody works for.
LEMMA RunningElsewhere ==
  ASSUME TypeOK, RunningInv, Next,
         ~ \E s \in Slot : RunStep(s) \/ RunFails(s) \/ FailureLost(s)
  PROVE  RunningInv'
<1>1. ASSUME NEW a \in Assessment, Start(a) PROVE RunningInv'
  BY <1>1 DEF Start, RunningInv, TypeOK
<1>2. ASSUME NEW q \in Client, NEW a \in Assessment,
             PauseCheck(q, a) \/ ResumeCheck(q, a) \/ DeleteCheck(q, a)
      PROVE  RunningInv'
  BY <1>2 DEF PauseCheck, ResumeCheck, DeleteCheck, Ask, RunningInv
<1>3. ASSUME NEW q \in Client, Commit(q) PROVE RunningInv'
  <2>1. request[q].asm \in Assessment /\ Written(request[q].op) # "running"
    BY <1>3 DEF TypeOK, Commit, Requests, Written
  <2>2. \A a \in Assessment : status'[a] = "running" => status[a] = "running"
    BY <1>3, <2>1 DEF Commit, TypeOK
  <2> QED BY <1>3, <2>2 DEF Commit, RunningInv
<1>4. CASE Recover
  BY <1>4 DEF Recover, RunningInv, TypeOK
<1>5. CASE Crash
  BY <1>5 DEF Crash, RunningInv
<1>6. ASSUME NEW s \in Slot, NEW a \in Assessment, Claim(s, a) PROVE RunningInv'
  <2> SUFFICES ASSUME NEW b \in Assessment \ lost, status'[b] = "running"
               PROVE  \E t \in Slot : run'[t].asm = b /\ WillRest(run'[t])
    BY <1>6 DEF Claim, RunningInv
  <2>1. run'[s] = [NoSlotWork EXCEPT !.pc = "claimed", !.asm = a]
    BY <1>6 DEF Claim, Become, TypeOK
  <2>2. CASE b = a
    BY <2>1, <2>2 DEF NoSlotWork, WillRest
  <2>3. CASE b # a
    <3>1. PICK t \in Slot : run[t].asm = b /\ WillRest(run[t])
      BY <1>6, <2>3 DEF Claim, RunningInv, TypeOK
    <3>2. t # s
      BY <1>6, <3>1, SlotType, AssessmentAssumption DEF Claim, NoSlotWork, SlotWork, InRun
    <3> QED BY <1>6, <3>1, <3>2 DEF Claim, Become, TypeOK
  <2> QED BY <2>2, <2>3
<1>7. ASSUME NEW a \in Assessment, NEW c \in Control, OrphanCommit(a, c) \/ OrphanDies(a, c)
      PROVE  RunningInv'
  BY <1>7 DEF OrphanCommit, OrphanDies, RunningInv
<1> QED BY <1>1, <1>2, <1>3, <1>4, <1>5, <1>6, <1>7 DEF Next

\* While the worker is up, an assessment shown as running has a task working for it
\* unless the failure of its task could not be recorded: whichever slots ran it beside
\* each other, the last one to mark it running will mark what became of it.
THEOREM RunningIsWorked == Spec => []RunningHasTask
<1>1. Init => RunningInv
  BY DEF Init, RunningInv
<1>2. TypeOK /\ RunningInv /\ [Next]_vars => RunningInv'
  <2>1. RunningInv /\ UNCHANGED vars => RunningInv'
    BY DEF vars, RunningInv
  <2> QED BY <2>1, RunningStep, RunningElsewhere
<1>3. RunningInv => RunningHasTask
  BY DEF RunningInv, RunningHasTask
<1> QED BY <1>1, <1>2, <1>3, TypeCorrect, PTL DEF Spec

----------------------------------------------------------------------------
(* Rows without an approved plan are never executed.                       *)

----------------------------------------------------------------------------
(* One finding per control, and a rollup of them.                          *)

\* Storing findings of controls that have none adds no second row.
LEMMA InsertExact ==
  ASSUME TypeOK, NEW a \in Assessment, NEW C \in SUBSET Control, Insert(a, C),
         C \cap findings[a] = {}, surplus[a] = 0
  PROVE  /\ findings'[a] = findings[a] \cup C
         /\ surplus'[a] = 0
<1>1. Cardinality(C \cap findings[a]) = 0
  BY FS_EmptySet
<1> QED BY <1>1 DEF Insert, TypeOK

\* What is exact stays exact where a step changes nothing but the status, and not to
\* "complete" nor away from "deleted".
LEMMA ExactFrame ==
  ASSUME TypeOK, NEW a \in Assessment, Counted(a), Tasks(a),
         findings'[a] = findings[a], surplus'[a] = surplus[a],
         rollup'[a] = rollup[a], orphan'[a] = orphan[a],
         status'[a] = "complete" => status[a] = "complete",
         status[a] = "deleted" => status'[a] = "deleted",
         \A s \in Slot : run'[s].asm = a => run'[s] = run[s]
  PROVE  Counted(a)' /\ Tasks(a)'
<1>1. Rows(a)' = Rows(a)
  BY DEF Rows
<1>2. Counted(a)'
  BY <1>1 DEF Counted
<1>3. \A s \in Slot : run'[s].asm = a => ExactRun(run[s], a)'
  BY <1>1 DEF Tasks, ExactRun
<1>4. \A s, t \in Slot : run'[s].asm = a /\ run'[t].asm = a => s = t
  BY DEF Tasks
<1> QED BY <1>2, <1>3, <1>4 DEF Tasks

\* A slot's step on its own assessment: it is enough to look at what the slot becomes.
LEMMA ExactOwn ==
  ASSUME TypeOK, NEW s \in Slot, NEW a \in Assessment, run[s].asm = a, Tasks(a),
         RunStep(s) \/ RunFails(s) \/ FailureLost(s),
         \A c \in Control : orphan'[a][c] \in {0, 1} /\ (orphan'[a][c] = 1 => c \notin findings'[a]),
         run'[s] = NoSlotWork \/ ExactRun(run[s], a)'
  PROVE  Tasks(a)'
<1>1. \A t \in Slot \ {s} : run'[t] = run[t] /\ run[t].asm # a
  BY StepBecomes DEF Tasks
<1>2. NoSlotWork.asm # a
  BY AssessmentAssumption DEF NoSlotWork
<1> QED BY <1>1, <1>2 DEF Tasks

\* Each step of a run keeps its own assessment exact.
LEMMA ExactRunStep ==
  ASSUME TypeOK, CoverInv, NEW s \in Slot, NEW a \in Assessment, run[s].asm = a,
         Counted(a), Tasks(a), RunStep(s) \/ RunFails(s) \/ FailureLost(s)
  PROVE  Counted(a)' /\ Tasks(a)'
<1>0. /\ run[s] \in SlotWork
      /\ ExactRun(run[s], a) /\ Staged(run[s])
      /\ \A c \in Control : orphan[a][c] \in {0, 1} /\ (orphan[a][c] = 1 => c \notin findings[a])
      /\ findings[a] \in SUBSET Control /\ Rows(a) \in Nat
  BY StepOwner, RowsType DEF Tasks, CoverInv, TypeOK
<1>w. ASSUME NEW work, Become(s, work) PROVE run'[s] = work
  BY <1>w DEF Become, TypeOK
<1>own. ASSUME orphan' = orphan, findings'[a] = findings[a], run'[s] = NoSlotWork \/ ExactRun(run[s], a)'
        PROVE  Tasks(a)'
  BY <1>0, <1>own, ExactOwn
<1>same. ASSUME UNCHANGED <<findings, surplus, rollup>>, status'[a] = "complete" => status[a] = "complete"
         PROVE  Counted(a)' /\ Rows(a)' = Rows(a)
  BY <1>same DEF Counted, Rows
<1>ins. ASSUME NEW C \in SUBSET Control, Insert(a, C), UNCHANGED <<status, rollup, orphan>>, C \subseteq Left(run[s]),
               run[s].pc \in {"carry", "na", "batch"}, status[a] # "deleted"
        PROVE  /\ Counted(a)' /\ findings'[a] = findings[a] \cup C
               /\ \A c \in Control : orphan'[a][c] = 0
  <2>1. C \cap findings[a] = {} /\ surplus[a] = 0
    BY <1>0, <1>ins DEF ExactRun, Counted
  <2>2. findings'[a] = findings[a] \cup C /\ surplus'[a] = 0
    BY <1>ins, <2>1, InsertExact
  <2>3. status[a] # "complete" \/ C = {}
    BY <1>0, <2>1 DEF CoverInv, CompleteCoversBaseline
  <2>4. C = {} => Rows(a)' = Rows(a)
    BY <2>1, <2>2 DEF Rows
  <2> QED BY <1>0, <1>ins, <2>2, <2>3, <2>4 DEF Counted, ExactRun, InRun
<1>1. CASE Load(s)
  <2>1. \/ run'[s] = NoSlotWork
        \/ run'[s] = [run[s] EXCEPT !.pc = "loaded", !.seen = status[a]] /\ run[s].pc = "claimed"
    BY <1>0, <1>1, <1>w DEF Load, Release, At
  <2>2. run'[s] = NoSlotWork \/ ExactRun(run[s], a)'
    BY <1>0, <1>1, <2>1 DEF ExactRun, Left, SlotWork, Load, InRun
  <2> QED BY <1>1, <2>2, <1>own, <1>same DEF Load
<1>2. CASE Begin(s)
  <2>1. run'[s] = [run[s] EXCEPT !.pc = "prepare"]
    BY <1>2, <1>w DEF Begin, Goto
  <2>2. ExactRun(run[s], a)'
    BY <1>0, <1>2, <2>1 DEF Begin, At, ExactRun, Staged, Left, SlotWork, InRun
  <2>3. status'[a] # "complete" \/ status' = status
    BY <1>2 DEF Begin, TypeOK
  <2> QED BY <1>2, <2>2, <2>3, <1>own, <1>same DEF Begin
<1>3. CASE ReadFindings(s)
  <2>1. PICK carry \in Carriable(a) :
          Become(s, [run[s] EXCEPT !.pc = "carry",
                                   !.carry = carry,
                                   !.na = SystemNA \ findings[a],
                                   !.todo = Control \ (findings[a] \cup carry \cup SystemNA)])
    BY <1>3 DEF ReadFindings
  <2>2. carry \cap findings[a] = {} /\ carry \cap SystemNA = {}
    BY <2>1 DEF Carriable
  <2>3. /\ run'[s].pc = "carry" /\ run'[s].carry = carry /\ run'[s].na = SystemNA \ findings[a]
        /\ run'[s].todo = Control \ (findings[a] \cup carry \cup SystemNA)
        /\ run'[s].batch = run[s].batch
    BY <1>0, <2>1, <1>w DEF SlotWork
  <2>4. run[s].batch = {} /\ \A c \in Control : orphan[a][c] = 0
    BY <1>0, <1>3 DEF ReadFindings, At, Staged, Left, ExactRun, InRun
  <2>5. ExactRun(run[s], a)'
    BY <1>3, <2>2, <2>3, <2>4 DEF ExactRun, Left, ReadFindings
  <2> QED BY <1>3, <2>5, <1>own, <1>same DEF ReadFindings
<1>4. CASE CarryForward(s)
  <2>1. run'[s] = [run[s] EXCEPT !.pc = "na", !.carry = {}]
    BY <1>4, <1>w DEF CarryForward
  <2>2. /\ Counted(a)' /\ findings'[a] = findings[a] \cup run[s].carry
        /\ \A c \in Control : orphan'[a][c] = 0
    BY <1>0, <1>4, <1>ins DEF CarryForward, Left, At, Present, SlotWork
  <2>3. ExactRun(run[s], a)'
    BY <1>0, <2>1, <2>2 DEF ExactRun, Left, SlotWork
  <2> QED BY <2>2, <2>3, ExactOwn
<1>5. ASSUME NEW c \in Control, InsertNA(s, c) PROVE Counted(a)' /\ Tasks(a)'
  <2>1. run'[s] = [run[s] EXCEPT !.na = @ \ {c}] /\ run[s].pc = "na"
    BY <1>5, <1>w DEF InsertNA, At
  <2>2. /\ Counted(a)' /\ findings'[a] = findings[a] \cup {c}
        /\ \A d \in Control : orphan'[a][d] = 0
    BY <1>0, <1>5, <1>ins DEF InsertNA, Left, At, Present, SlotWork
  <2>3. run[s].carry = {}
    BY <1>0, <2>1 DEF Staged
  <2>4. ExactRun(run[s], a)'
    BY <1>0, <1>5, <2>1, <2>2, <2>3 DEF ExactRun, Left, SlotWork, InsertNA
  <2> QED BY <2>2, <2>4, ExactOwn
<1>6. CASE BeginBatches(s)
  <2>1. run'[s] = [run[s] EXCEPT !.pc = "batch"] /\ run[s].pc = "na"
    BY <1>6, <1>w DEF BeginBatches, Goto, At
  <2>2. ExactRun(run[s], a)'
    BY <1>0, <1>6, <2>1, <1>same DEF ExactRun, Left, SlotWork, BeginBatches, InRun
  <2> QED BY <1>6, <2>2, <1>own, <1>same DEF BeginBatches
<1>8. CASE NextBatch(s)
  <2>1. CASE status[a] = "paused"
    <3>1. run'[s] = NoSlotWork
      BY <1>0, <1>8, <2>1, <1>w DEF NextBatch, Release
    <3> QED BY <1>8, <3>1, <1>own, <1>same DEF NextBatch
  <2>2. CASE status[a] # "paused"
    <3>1. PICK B \in SUBSET run[s].todo : Become(s, [run[s] EXCEPT !.batch = B, !.todo = @ \ B])
      BY <1>8, <2>2 DEF NextBatch
    <3>2. run'[s] = [run[s] EXCEPT !.batch = B, !.todo = @ \ B] /\ run[s].pc = "batch" /\ run[s].batch = {}
      BY <1>8, <3>1, <1>w DEF NextBatch, At
    <3>3. ExactRun(run[s], a)'
      BY <1>0, <1>8, <3>2 DEF ExactRun, Left, SlotWork, NextBatch, InRun
    <3> QED BY <1>8, <3>3, <1>own, <1>same DEF NextBatch
  <2> QED BY <2>1, <2>2
<1>9. ASSUME NEW c \in Control, AssessControl(s, c) PROVE Counted(a)' /\ Tasks(a)'
  <2>1. run'[s] = [run[s] EXCEPT !.batch = @ \ {c}] /\ run[s].pc = "batch"
    BY <1>9, <1>w DEF AssessControl, At
  <2>2. /\ Counted(a)' /\ findings'[a] = findings[a] \cup {c}
        /\ \A d \in Control : orphan'[a][d] = 0
    BY <1>0, <1>9, <1>ins DEF AssessControl, Left, At, Present, SlotWork
  <2>3. run[s].carry = {} /\ run[s].na = {} /\ c \notin run[s].todo
    BY <1>0, <1>9, <2>1 DEF Staged, ExactRun, AssessControl
  <2>4. ExactRun(run[s], a)'
    BY <1>0, <1>9, <2>1, <2>2, <2>3 DEF ExactRun, Left, SlotWork, AssessControl
  <2> QED BY <2>2, <2>4, ExactOwn
<1>10. CASE FinalCheck(s)
  <2>1. \/ run'[s] = NoSlotWork
        \/ run'[s] = [run[s] EXCEPT !.pc = "rollup", !.seen = status[a]] /\ run[s].pc = "batch"
    BY <1>0, <1>10, <1>w DEF FinalCheck, Release, At
  <2>2. run'[s] = NoSlotWork \/ ExactRun(run[s], a)'
    BY <1>0, <1>10, <2>1 DEF ExactRun, Left, SlotWork, FinalCheck, InRun
  <2> QED BY <1>10, <2>2, <1>own, <1>same DEF FinalCheck
<1>11. CASE Rollup(s)
  <2>1. run'[s] = [run[s] EXCEPT !.pc = "finish"] /\ run[s].pc = "rollup"
    BY <1>11, <1>w DEF Rollup, Goto, At
  <2>2. rollup'[a] = Rows(a) /\ Rows(a)' = Rows(a)
    BY <1>0, <1>11 DEF Rollup, TypeOK, Rows
  <2>3. ExactRun(run[s], a)'
    BY <1>0, <1>11, <2>1, <2>2 DEF ExactRun, Left, SlotWork, Rollup, InRun
  <2>4. Counted(a)'
    BY <1>11, <2>2 DEF Counted, Rollup
  <2> QED BY <1>11, <2>3, <2>4, <1>own DEF Rollup
<1>12. CASE Finish(s)
  <2>1. run'[s] = NoSlotWork
    BY <1>12, <1>w DEF Finish, Release
  <2>2. rollup[a] = Rows(a)
    BY <1>0, <1>12 DEF Finish, At, Present, ExactRun
  <2>3. Counted(a)'
    BY <1>12, <2>2 DEF Finish, Counted, Rows
  <2> QED BY <1>12, <2>1, <2>3, <1>own DEF Finish
<1>13. CASE RowVanished(s) \/ RunFails(s)
  <2>1. PICK kept \in SUBSET run[s].batch : Abort(s, kept)
    BY <1>13 DEF RowVanished, RunFails
  <2>2. run'[s] = [NoSlotWork EXCEPT !.pc = "error", !.asm = a]
    BY <2>1, <1>w DEF Abort
  <2>3. UNCHANGED <<findings, surplus, rollup, status>>
    BY <1>13 DEF RowVanished, RunFails
  <2>4. \A c \in Control : orphan[a][c] = 0
    BY <1>0, <1>13 DEF RowVanished, RunFails, ExactRun, InRun
  <2>5. \A c \in Control : orphan'[a][c] \in {0, 1} /\ (orphan'[a][c] = 1 => c \notin findings'[a])
    <3>1. \A c \in Control : orphan'[a][c] = IF c \in kept THEN 1 ELSE 0
      BY <2>1, <2>4 DEF Abort, TypeOK
    <3> QED BY <1>0, <2>1, <2>3, <3>1 DEF ExactRun, Left
  <2>6. ExactRun(run[s], a)'
    BY <2>2 DEF ExactRun, Left, NoSlotWork, InRun
  <2> QED BY <2>3, <2>5, <2>6, <1>same, ExactOwn
<1>14. CASE ErrorRead(s)
  <2>1. \/ run'[s] = NoSlotWork
        \/ run'[s] = [run[s] EXCEPT !.pc = "failing", !.seen = status[a]] /\ run[s].pc = "error"
    BY <1>0, <1>14, <1>w DEF ErrorRead, Release, At
  <2>2. run'[s] = NoSlotWork \/ ExactRun(run[s], a)'
    BY <1>0, <1>14, <2>1 DEF ExactRun, Left, SlotWork, ErrorRead, InRun
  <2> QED BY <1>14, <2>2, <1>own, <1>same DEF ErrorRead
<1>15. CASE ErrorWrite(s)
  <2>1. run'[s] = NoSlotWork
    BY <1>15, <1>w DEF ErrorWrite, Release
  <2>2. status'[a] # "complete" \/ status' = status
    BY <1>0, <1>15 DEF ErrorWrite, TypeOK
  <2> QED BY <1>15, <2>1, <2>2, <1>own, <1>same DEF ErrorWrite
<1>16. CASE FailureLost(s)
  <2>1. run'[s] = NoSlotWork
    BY <1>16, <1>w DEF FailureLost, Release
  <2> QED BY <1>16, <2>1, <1>own, <1>same DEF FailureLost
<1> QED
  BY <1>1, <1>2, <1>3, <1>4, <1>5, <1>6, <1>8, <1>9, <1>10, <1>11, <1>12, <1>13, <1>14,
     <1>15, <1>16 DEF RunStep

\* Every other step keeps what is exact, or makes the assessment an overlapped one.
LEMMA ExactElsewhere ==
  ASSUME TypeOK, CoverInv, Next, ~ \E s \in Slot : RunStep(s) \/ RunFails(s) \/ FailureLost(s),
         NEW a \in Assessment, a \notin overlapped', Counted(a), Tasks(a)
  PROVE  Counted(a)' /\ Tasks(a)'
<1>1. ASSUME NEW b \in Assessment, Start(b) PROVE Counted(a)' /\ Tasks(a)'
  BY <1>1, ExactFrame DEF Start, TypeOK
<1>2. ASSUME NEW q \in Client, NEW b \in Assessment,
             PauseCheck(q, b) \/ ResumeCheck(q, b) \/ DeleteCheck(q, b)
      PROVE  Counted(a)' /\ Tasks(a)'
  <2>1. UNCHANGED <<table, run, orphan>>
    BY <1>2 DEF PauseCheck, ResumeCheck, DeleteCheck, Ask
  <2> QED BY <2>1, ExactFrame
<1>3. ASSUME NEW q \in Client, Commit(q) PROVE Counted(a)' /\ Tasks(a)'
  <2> DEFINE b == request[q].asm
             op == request[q].op
  <2>1. b \in Assessment /\ op \in {"pause", "resume", "delete"}
    BY <1>3 DEF TypeOK, Commit, Requests
  <2>2. Written(op) # "complete" /\ (Written(op) = "deleted" <=> op = "delete")
    BY <2>1 DEF Written
  <2>3. run' = run /\ orphan' = orphan
    BY <1>3 DEF Commit
  <2>4. CASE a = b /\ op = "delete" /\ status[a] # "deleted"
    <3>1. /\ status'[a] = "deleted" /\ findings'[a] = {} /\ surplus'[a] = 0
          /\ rollup'[a] = 0
      BY <1>3, <2>2, <2>4 DEF Commit, TypeOK
    <3>2. Counted(a)'
      BY <3>1, FS_EmptySet DEF Counted, Rows
    <3>3. \A s \in Slot : run[s].asm = a => ExactRun(run[s], a)'
      BY <2>3, <3>1 DEF Tasks, ExactRun
    <3> QED BY <2>3, <3>1, <3>2, <3>3 DEF Tasks
  <2>5. CASE ~(a = b /\ op = "delete" /\ status[a] # "deleted")
    <3>1. /\ findings'[a] = findings[a] /\ surplus'[a] = surplus[a]
          /\ rollup'[a] = rollup[a]
          /\ status'[a] = "complete" => status[a] = "complete"
          /\ status[a] = "deleted" => status'[a] = "deleted"
      BY <1>3, <2>1, <2>2, <2>5 DEF Commit, TypeOK
    <3> QED BY <2>3, <3>1, ExactFrame
  <2> QED BY <2>4, <2>5
<1>4. CASE Recover
  BY <1>4, ExactFrame DEF Recover
<1>5. CASE Crash
  <2>1. Counted(a)' /\ \A s \in Slot : run'[s].asm # a
    BY <1>5, AssessmentAssumption DEF Crash, Counted, Rows, NoSlotWork
  <2> QED BY <1>5, <2>1 DEF Crash, Tasks
<1>6. ASSUME NEW s \in Slot, NEW b \in Assessment, Claim(s, b) PROVE Counted(a)' /\ Tasks(a)'
  <2> DEFINE work == [NoSlotWork EXCEPT !.pc = "claimed", !.asm = b]
  <2>1. run' = [run EXCEPT ![s] = work] /\ run'[s] = work /\ status' = [status EXCEPT ![b] = "running"]
        /\ work.asm = b /\ work.pc = "claimed" /\ Left(work) = {}
        /\ work.carry = {} /\ work.na = {} /\ work.todo = {} /\ work.batch = {}
    BY <1>6 DEF Claim, Become, TypeOK, NoSlotWork, Left
  <2> HIDE DEF work
  <2>2. UNCHANGED <<findings, surplus, rollup, orphan>>
    BY <1>6 DEF Claim
  <2>3. CASE a # b
    <3>1. \A t \in Slot : run'[t].asm = a => run'[t] = run[t]
      BY <2>1, <2>3 DEF TypeOK
    <3> QED BY <2>1, <2>2, <2>3, <3>1, ExactFrame DEF TypeOK
  <2>4. CASE a = b
    <3>1. ~Busy(a)
      BY <1>6, <2>4 DEF Claim
    <3>2. (\A t \in Slot : run[t].asm # a) /\ \A c \in Control : orphan[a][c] = 0
      BY <3>1 DEF Busy, TypeOK
    <3>3. Counted(a)'
      BY <2>1, <2>2, <2>4 DEF Counted, Rows, TypeOK
    <3>4. ExactRun(run[s], a)'
      BY <2>1, <2>2, <3>2 DEF ExactRun, Left
    <3>5. \A t \in Slot : run'[t].asm = a => t = s
      BY <2>1, <3>2 DEF TypeOK
    <3> QED BY <2>2, <3>2, <3>3, <3>4, <3>5 DEF Tasks
  <2> QED BY <2>3, <2>4
<1>7. ASSUME NEW b \in Assessment, NEW c \in Control, OrphanCommit(b, c) PROVE Counted(a)' /\ Tasks(a)'
  <2>1. CASE a # b
    <3>1. /\ findings'[a] = findings[a] /\ surplus'[a] = surplus[a]
          /\ orphan'[a] = orphan[a] /\ UNCHANGED <<status, rollup, run>>
      BY <1>7, <2>1 DEF OrphanCommit, Insert, TypeOK
    <3> QED BY <3>1, ExactFrame
  <2>2. CASE a = b
    <3>1. orphan[a][c] = 1 /\ c \notin findings[a] /\ {c} \cap findings[a] = {}
      BY <1>7, <2>2 DEF OrphanCommit, Tasks
    <3>2. Insert(a, {c}) /\ UNCHANGED <<status, rollup, run>>
          /\ orphan' = [orphan EXCEPT ![a][c] = @ - 1]
      BY <1>7, <2>2 DEF OrphanCommit
    <3>3. findings'[a] = findings[a] \cup {c} /\ surplus'[a] = 0
      BY <3>1, <3>2, InsertExact DEF Counted
    <3>4. status[a] # "complete"
      BY <3>1 DEF CoverInv, CompleteCoversBaseline
    <3>5. \A d \in Control : orphan'[a][d] = IF d = c THEN 0 ELSE orphan[a][d]
      BY <3>1, <3>2 DEF TypeOK
    <3>6. ASSUME NEW s \in Slot, run[s].asm = a PROVE ExactRun(run[s], a)'
      <4>1. run[s].pc \in {"error", "failing"}
        BY <3>1, <3>6, SlotType DEF Tasks, ExactRun, SlotWork
      <4>2. Left(run[s]) = {}
        BY <4>1 DEF CoverInv, Staged
      <4> QED BY <3>2, <4>1, <4>2 DEF ExactRun, Left, InRun
    <3> QED BY <3>2, <3>3, <3>4, <3>5, <3>6 DEF Counted, Tasks
  <2> QED BY <2>1, <2>2
<1>8. ASSUME NEW b \in Assessment, NEW c \in Control, OrphanDies(b, c) PROVE Counted(a)' /\ Tasks(a)'
  <2>1. UNCHANGED <<table, run>>
    BY <1>8 DEF OrphanDies
  <2>2. \A d \in Control : orphan'[a][d] = orphan[a][d] \/ (orphan'[a][d] = orphan[a][d] - 1 /\ orphan[a][d] > 0)
    BY <1>8 DEF OrphanDies, TypeOK
  <2>3. \A d \in Control : orphan'[a][d] \in {0, 1} /\ (orphan'[a][d] = 1 => d \notin findings[a])
                           /\ (orphan[a][d] = 0 => orphan'[a][d] = 0)
    BY <2>2 DEF Tasks
  <2>4. Rows(a)' = Rows(a)
    BY <2>1 DEF Rows
  <2> QED BY <2>1, <2>3, <2>4 DEF Counted, Tasks, ExactRun
<1> QED BY <1>1, <1>2, <1>3, <1>4, <1>5, <1>6, <1>7, <1>8 DEF Next

\* Unless it was claimed while an earlier task of its own was alive, an assessment never
\* stores a second finding of a control, and it completes with a rollup over exactly
\* its findings - for any number of slots,
\* whatever is paused, resumed, carried forward, interrupted or deleted beside it.
THEOREM ExactInvariant == Spec => []ExactInv
<1>1. Init => ExactInv
  <2> SUFFICES ASSUME Init, NEW a \in Assessment PROVE Counted(a) /\ Tasks(a)
    BY DEF ExactInv
  <2>1. Counted(a)
    BY FS_EmptySet DEF Init, Counted, Rows
  <2> QED BY <2>1, AssessmentAssumption DEF Init, Tasks, NoSlotWork
<1>2. TypeOK /\ CoverInv /\ ExactInv /\ [Next]_vars => ExactInv'
  <2> SUFFICES ASSUME TypeOK, CoverInv, ExactInv, [Next]_vars,
                      NEW a \in Assessment, a \notin overlapped'
               PROVE  Counted(a)' /\ Tasks(a)'
    BY DEF ExactInv
  <2>0. a \notin overlapped
    BY DEF Next, vars, Start, PauseCheck, ResumeCheck, DeleteCheck, Ask, Commit, Recover, Crash, Claim,
       RunStep, Load, Begin, ReadFindings, CarryForward, InsertNA, BeginBatches, NextBatch,
       AssessControl, FinalCheck, Rollup, Finish, RowVanished, ErrorRead, ErrorWrite, RunFails,
       FailureLost, OrphanCommit, OrphanDies
  <2>1. Counted(a) /\ Tasks(a)
    BY <2>0 DEF ExactInv
  <2>2. CASE UNCHANGED vars
    BY <2>1, <2>2, ExactFrame DEF vars
  <2>3. ASSUME NEW s \in Slot, RunStep(s) \/ RunFails(s) \/ FailureLost(s)
        PROVE  Counted(a)' /\ Tasks(a)'
    <3>1. CASE run[s].asm = a
      BY <2>1, <2>3, <3>1, ExactRunStep
    <3>2. CASE run[s].asm # a
      <4>1. \A t \in Slot : run'[t].asm = a => run'[t] = run[t]
        BY <2>3, <3>2, StepBecomes, StepWork, AssessmentAssumption DEF NoSlotWork
      <4> QED BY <2>1, <2>3, <3>2, <4>1, StepElsewhere, ExactFrame
    <3> QED BY <3>1, <3>2
  <2> QED BY <2>1, <2>2, <2>3, ExactElsewhere
<1> QED BY <1>1, <1>2, TypeCorrect, CoverInvariant, PTL DEF Spec

\* What a reader sees of it: one finding per control, and a rollup of them.
THEOREM FindingsExact == Spec => []FindingsExactUnlessOverlapped
<1>1. ExactInv => FindingsExactUnlessOverlapped
  BY DEF ExactInv, Counted, FindingsExactUnlessOverlapped
<1> QED BY <1>1, ExactInvariant, PTL

\* As shipped, with one slot, no control ever gets a second finding unless an exception
\* struck a run: two tasks of an assessment can only meet after one.
THEOREM OneSlotExact == Spec => []OneSlotNoDuplicates
<1>1. Init => OneSlotInv
  BY DEF Init, OneSlotInv
<1>2. TypeOK /\ OneSlotInv /\ [Next]_vars => OneSlotInv'
  <2> SUFFICES ASSUME TypeOK, OneSlotInv, [Next]_vars, faults' = 0
               PROVE  /\ \A a \in Assessment, c \in Control : orphan'[a][c] = 0
                      /\ (\A s, t \in Slot : s = t) => overlapped' = {}
    BY DEF OneSlotInv
  <2>1. CASE UNCHANGED vars
    BY <2>1 DEF vars, OneSlotInv
  <2>2. ASSUME NEW s \in Slot, RunStep(s)
        PROVE  faults = 0 /\ overlapped' = overlapped /\ \A a \in Assessment, c \in Control : orphan'[a][c] = orphan[a][c]
    <3>1. CASE RowVanished(s)
      BY <3>1 DEF RowVanished, Abort, TypeOK
    <3> QED BY <2>2, <3>1 DEF RunStep, Load, Begin, ReadFindings, CarryForward, InsertNA, BeginBatches,
         NextBatch, AssessControl, FinalCheck, Rollup, Finish, ErrorRead, ErrorWrite
  <2>3. ASSUME NEW s \in Slot, RunFails(s) \/ FailureLost(s) PROVE FALSE
    BY <2>3 DEF RunFails, FailureLost, TypeOK
  <2>4. ASSUME NEW a \in Assessment, NEW c \in Control, OrphanCommit(a, c) \/ OrphanDies(a, c) PROVE FALSE
    BY <2>4 DEF OrphanCommit, OrphanDies, OneSlotInv
  <2>5. ASSUME NEW s \in Slot, NEW a \in Assessment, Claim(s, a)
        PROVE  faults = 0 /\ orphan' = orphan /\ ((\A r, t \in Slot : r = t) => overlapped' = {})
    <3>1. faults = 0 /\ orphan' = orphan
      BY <2>5 DEF Claim
    <3>2. ASSUME \A r, t \in Slot : r = t PROVE ~Busy(a)
      <4>1. \A t \in Slot : run[t].asm # a
        BY <2>5, <3>2, SlotType, AssessmentAssumption DEF Claim, NoSlotWork, SlotWork, InRun
      <4> QED BY <3>1, <4>1 DEF Busy, OneSlotInv
    <3> QED BY <2>5, <3>1, <3>2 DEF Claim, OneSlotInv
  <2>6. CASE Crash
    BY <2>6 DEF Crash, OneSlotInv
  <2>7. ASSUME \/ \E a \in Assessment : Start(a)
               \/ \E q \in Client, a \in Assessment : PauseCheck(q, a) \/ ResumeCheck(q, a) \/ DeleteCheck(q, a)
               \/ \E q \in Client : Commit(q)
               \/ Recover
        PROVE  UNCHANGED <<faults, overlapped, orphan>>
    BY <2>7 DEF Start, PauseCheck, ResumeCheck, DeleteCheck, Ask, Commit, Recover
  <2> QED BY <2>1, <2>2, <2>3, <2>4, <2>5, <2>6, <2>7 DEF Next, OneSlotInv
<1>3. ExactInv /\ OneSlotInv => OneSlotNoDuplicates
  BY DEF ExactInv, Counted, OneSlotInv, OneSlotNoDuplicates
<1> QED BY <1>1, <1>2, <1>3, TypeCorrect, ExactInvariant, PTL DEF Spec

----------------------------------------------------------------------------
(* A pause holds in the batch loop.                                        *)

\* Whatever a step does, the tasks of a paused assessment that are all in the batch loop
\* leave it paused and start no control: only the two ends of a run, which are not in
\* the loop, write the status without looking.
LEMMA PauseStep ==
  ASSUME TypeOK, Next, NEW a \in Assessment, status[a] = "paused",
         \A s \in Slot : run[s].asm = a => At(s, "batch")
  PROVE  /\ status'[a] \in {"paused", "pending", "deleted"}
         /\ \A s \in Slot : run[s].asm = a /\ run'[s].asm = a => run'[s].batch \subseteq run[s].batch
<1>1. ASSUME NEW s \in Slot, RunStep(s) \/ RunFails(s) \/ FailureLost(s)
      PROVE  /\ status'[a] = "paused"
             /\ run[s].asm = a /\ run'[s].asm = a => run'[s].batch \subseteq run[s].batch
             /\ \A t \in Slot \ {s} : run'[t] = run[t]
  <2>1. CASE run[s].asm # a
    BY <1>1, <2>1, StepElsewhere, StepBecomes
  <2>2. CASE run[s].asm = a
    <3>0. /\ run[s] \in SlotWork /\ run[s].pc = "batch" /\ status[run[s].asm] = "paused"
          /\ \A t \in Slot \ {s} : run'[t] = run[t]
      BY <1>1, <2>2, StepOwner, StepBecomes DEF At
    <3>w. ASSUME NEW work, Become(s, work) PROVE run'[s] = work
      BY <3>w DEF Become, TypeOK
    <3>1. CASE NextBatch(s) \/ FinalCheck(s)
      <4>1. status' = status /\ run'[s] = NoSlotWork
        BY <3>0, <3>1, <3>w DEF NextBatch, FinalCheck, Release
      <4> QED BY <3>0, <4>1, AssessmentAssumption DEF NoSlotWork
    <3>2. ASSUME NEW c \in Control, AssessControl(s, c)
          PROVE  status' = status /\ run'[s].batch \subseteq run[s].batch
      BY <3>0, <3>2, <3>w DEF AssessControl, SlotWork
    <3>3. CASE RowVanished(s) \/ RunFails(s)
      <4>1. PICK kept : Abort(s, kept)
        BY <3>3 DEF RowVanished, RunFails
      <4>2. status' = status /\ run'[s].batch = {}
        BY <3>3, <3>w, <4>1 DEF RowVanished, RunFails, Abort, NoSlotWork
      <4> QED BY <3>0, <4>2
    <3> QED BY <1>1, <2>2, <3>0, <3>1, <3>2, <3>3
        DEF RunStep, Load, Begin, ReadFindings, CarryForward, InsertNA, BeginBatches, Rollup, Finish,
            ErrorRead, ErrorWrite, FailureLost, At
  <2> QED BY <2>1, <2>2
<1>2. ASSUME NEW q \in Client, Commit(q)
      PROVE  status'[a] \in {"paused", "pending", "deleted"} /\ run' = run
  BY <1>2 DEF Commit, Written, TypeOK, Requests
<1>3. ASSUME NEW s \in Slot, NEW b \in Assessment, Claim(s, b)
      PROVE  status'[a] = "paused" /\ \A t \in Slot : run[t].asm = a => run'[t] = run[t]
  <2>1. b # a
    BY <1>3 DEF Claim, Claimable
  <2>2. run[s].asm # a
    BY <1>3, SlotType, AssessmentAssumption DEF Claim, NoSlotWork, SlotWork, InRun
  <2> QED BY <1>3, <2>1, <2>2 DEF Claim, Become, TypeOK
<1>4. CASE Recover
  BY <1>4 DEF Recover
<1>5. CASE Crash
  BY <1>5, AssessmentAssumption DEF Crash, NoSlotWork
<1>6. ASSUME NEW b \in Assessment, Start(b) PROVE status'[a] = "paused" /\ run' = run
  BY <1>6 DEF Start, TypeOK
<1>7. ASSUME \/ \E q \in Client, b \in Assessment : PauseCheck(q, b) \/ ResumeCheck(q, b) \/ DeleteCheck(q, b)
             \/ \E b \in Assessment, c \in Control : OrphanCommit(b, c) \/ OrphanDies(b, c)
      PROVE  status' = status /\ run' = run
  BY <1>7 DEF PauseCheck, ResumeCheck, DeleteCheck, Ask, OrphanCommit, OrphanDies
<1> QED BY <1>1, <1>2, <1>3, <1>4, <1>5, <1>6, <1>7 DEF Next

\* A pause holds while the tasks are in the batch loop, in every step.
THEOREM PauseIsHeld == Spec => PauseHolds
<1>1. TypeOK /\ [Next]_vars =>
        [\A a \in Assessment :
           (status[a] = "paused" /\ \A s \in Slot : run[s].asm = a => At(s, "batch"))
           => /\ status'[a] \in {"paused", "pending", "deleted"}
              /\ status'[a] = "paused" =>
                   \A s \in Slot : run[s].asm = a /\ run'[s].asm = a
                                   => run'[s].batch \subseteq run[s].batch]_vars
  BY PauseStep
<1> QED BY <1>1, TypeCorrect, PTL DEF Spec, PauseHolds

----------------------------------------------------------------------------
(* What the rest of the system sees of an assessment is a finding ledger.  *)

\* A step that leaves the row of an assessment open, complete or gone as it was and
\* stores findings of it at most records them; one that completes it has all of them.
LEMMA LedgerStep ==
  ASSUME TypeOK, NEW a \in Assessment, status' \in [Assessment -> Statuses], findings' \in [Assessment -> SUBSET Control],
         \A b \in Assessment \ {a} : Shown(status'[b]) = Shown(status[b]) /\ findings'[b] = findings[b],
         \/ Shown(status'[a]) = Shown(status[a]) /\ findings'[a] = findings[a]
         \/ /\ Shown(status'[a]) = Shown(status[a]) /\ Shown(status[a]) # "gone"
            /\ \E C \in SUBSET Control : findings'[a] = findings[a] \cup C
         \/ Shown(status[a]) = "open" /\ Shown(status'[a]) = "complete" /\ findings[a] = Control /\ findings'[a] = Control
         \/ Shown(status[a]) = "complete" /\ Shown(status'[a]) = "open" /\ findings'[a] = findings[a]
         \/ Shown(status[a]) # "gone" /\ Shown(status'[a]) = "gone" /\ findings'[a] = {}
  PROVE  [Ledger!Next]_(Ledger!vars)
<1> DEFINE shown == [b \in Assessment |-> Shown(status[b])]
<1>1. findings' = [findings EXCEPT ![a] = findings'[a]] /\ shown' = [shown EXCEPT ![a] = Shown(status'[a])]
  BY DEF TypeOK
<1>2. shown[a] = Shown(status[a])
  OBVIOUS
<1>f. findings[a] = findings'[a] => findings' = findings
  BY <1>1 DEF TypeOK
<1>s. Shown(status'[a]) = Shown(status[a]) => shown' = shown
  BY <1>1
<1>3. CASE Shown(status'[a]) = Shown(status[a]) /\ findings'[a] = findings[a]
  BY <1>3, <1>f, <1>s DEF Ledger!vars
<1>4. CASE /\ Shown(status'[a]) = Shown(status[a]) /\ Shown(status[a]) # "gone"
           /\ \E C \in SUBSET Control : findings'[a] = findings[a] \cup C
  <2>1. Ledger!Record(a)
    BY <1>1, <1>2, <1>4, <1>s DEF Ledger!Record
  <2> QED BY <2>1 DEF Ledger!Next
<1>5. CASE Shown(status[a]) = "open" /\ Shown(status'[a]) = "complete" /\ findings[a] = Control /\ findings'[a] = Control
  <2>1. Ledger!Publish(a)
    BY <1>1, <1>2, <1>5, <1>f DEF Ledger!Publish
  <2> QED BY <2>1 DEF Ledger!Next
<1>6. CASE Shown(status[a]) = "complete" /\ Shown(status'[a]) = "open" /\ findings'[a] = findings[a]
  <2>1. Ledger!Reopen(a)
    BY <1>1, <1>2, <1>6, <1>f DEF Ledger!Reopen
  <2> QED BY <2>1 DEF Ledger!Next
<1>7. CASE Shown(status[a]) # "gone" /\ Shown(status'[a]) = "gone" /\ findings'[a] = {}
  <2>1. Ledger!Erase(a)
    BY <1>1, <1>2, <1>7 DEF Ledger!Erase
  <2> QED BY <2>1 DEF Ledger!Next
<1> QED BY <1>3, <1>4, <1>5, <1>6, <1>7

\* A step of a slot, seen through the ledger.
LEMMA LedgerRunStep ==
  ASSUME TypeOK, TypeOK', CoverInv, NEW s \in Slot, RunStep(s) \/ RunFails(s) \/ FailureLost(s)
  PROVE  [Ledger!Next]_(Ledger!vars)
<1> DEFINE a == run[s].asm
<1>0. /\ run[s] \in SlotWork /\ a \in Assessment
      /\ status' \in [Assessment -> Statuses] /\ findings' \in [Assessment -> SUBSET Control]
      /\ \A b \in Assessment \ {a} : Shown(status'[b]) = Shown(status[b]) /\ findings'[b] = findings[b]
      /\ findings[a] \in SUBSET Control
  BY StepOwner, StepElsewhere DEF TypeOK
<1>same. ASSUME Shown(status'[a]) = Shown(status[a]) /\ findings'[a] = findings[a]
         PROVE  [Ledger!Next]_(Ledger!vars)
  BY <1>0, <1>same, LedgerStep
<1>open. ASSUME status[a] # "deleted", status'[a] \in {"running", "failed"}, findings' = findings
         PROVE  [Ledger!Next]_(Ledger!vars)
  <2>1. Shown(status'[a]) = "open" /\ Shown(status[a]) \in {"open", "complete"}
    BY <1>open DEF Shown
  <2> QED BY <1>0, <1>open, <2>1, LedgerStep
<1>ins. ASSUME NEW C \in SUBSET Control, Insert(a, C), Present(s), status' = status
        PROVE  [Ledger!Next]_(Ledger!vars)
  <2>1. findings'[a] = findings[a] \cup C
    BY <1>0, <1>ins DEF Insert, TypeOK
  <2>2. Shown(status[a]) # "gone"
    BY <1>ins DEF Present, Shown
  <2> QED BY <1>0, <1>ins, <2>1, <2>2, LedgerStep
<1>1. CASE \/ Load(s) \/ ReadFindings(s) \/ BeginBatches(s) \/ NextBatch(s) \/ FinalCheck(s)
           \/ Rollup(s) \/ RowVanished(s) \/ ErrorRead(s) \/ RunFails(s) \/ FailureLost(s)
  BY <1>1, <1>same DEF Load, ReadFindings, BeginBatches, NextBatch, FinalCheck, Rollup, RowVanished,
     ErrorRead, RunFails, FailureLost
<1>2. CASE Begin(s)
  <2>1. CASE status' = status
    BY <1>2, <2>1, <1>same DEF Begin
  <2>2. CASE status' # status
    BY <1>0, <1>2, <2>2, <1>open DEF Begin, Present, TypeOK
  <2> QED BY <2>1, <2>2
<1>3. CASE CarryForward(s)
  BY <1>0, <1>3, <1>ins DEF CarryForward, SlotWork
<1>4. CASE \E c \in Control : InsertNA(s, c) \/ AssessControl(s, c)
  BY <1>4, <1>ins DEF InsertNA, AssessControl
<1>5. CASE Finish(s)
  <2>1. CASE status' = status
    BY <1>5, <2>1, <1>same DEF Finish
  <2>2. CASE status' # status
    <3>1. Left(run[s]) = {} /\ Control \subseteq findings[a]
      BY <1>5 DEF Finish, At, Present, CoverInv, Covers, Staged, InRun
    <3>2. findings[a] = Control /\ findings' = findings /\ status'[a] = "complete" /\ status[a] # "deleted"
      BY <1>0, <1>5, <2>2, <3>1 DEF Finish, Present, TypeOK
    <3>3. Shown(status'[a]) = "complete" /\ Shown(status[a]) \in {"open", "complete"}
      BY <3>2 DEF Shown
    <3> QED BY <1>0, <3>2, <3>3, LedgerStep
  <2> QED BY <2>1, <2>2
<1>6. CASE ErrorWrite(s)
  <2>1. CASE status' = status
    BY <1>6, <2>1, <1>same DEF ErrorWrite
  <2>2. CASE status' # status
    BY <1>0, <1>6, <2>2, <1>open DEF ErrorWrite, TypeOK
  <2> QED BY <2>1, <2>2
<1> QED BY <1>1, <1>2, <1>3, <1>4, <1>5, <1>6 DEF RunStep

\* Every other step, seen through the ledger.
LEMMA LedgerElsewhere ==
  ASSUME TypeOK, TypeOK', Next, ~ \E s \in Slot : RunStep(s) \/ RunFails(s) \/ FailureLost(s)
  PROVE  [Ledger!Next]_(Ledger!vars)
<1>t. /\ status' \in [Assessment -> Statuses] /\ findings' \in [Assessment -> SUBSET Control]
  BY DEF TypeOK
<1>same. ASSUME \A a \in Assessment : Shown(status'[a]) = Shown(status[a]), findings' = findings
         PROVE  [Ledger!Next]_(Ledger!vars)
  BY <1>same DEF Ledger!vars
<1>1. ASSUME NEW a \in Assessment, Start(a) PROVE [Ledger!Next]_(Ledger!vars)
  BY <1>1, <1>same DEF Start, Shown, TypeOK
<1>2. CASE \/ \E q \in Client, a \in Assessment : PauseCheck(q, a) \/ ResumeCheck(q, a) \/ DeleteCheck(q, a)
           \/ Crash
           \/ \E a \in Assessment, c \in Control : OrphanDies(a, c)
  BY <1>2, <1>same DEF PauseCheck, ResumeCheck, DeleteCheck, Ask, Crash, OrphanDies
<1>3. CASE Recover
  BY <1>3, <1>same DEF Recover, Shown
<1>4. ASSUME NEW s \in Slot, NEW a \in Assessment, Claim(s, a) PROVE [Ledger!Next]_(Ledger!vars)
  BY <1>4, <1>same DEF Claim, Claimable, Shown, TypeOK
<1>5. ASSUME NEW a \in Assessment, NEW c \in Control, OrphanCommit(a, c) PROVE [Ledger!Next]_(Ledger!vars)
  <2>1. /\ findings'[a] = findings[a] \cup {c} /\ \A b \in Assessment \ {a} : findings'[b] = findings[b]
        /\ status' = status
    BY <1>5 DEF OrphanCommit, Insert, TypeOK
  <2>2. Shown(status[a]) # "gone"
    BY <1>5 DEF OrphanCommit, Shown
  <2> QED BY <1>t, <2>1, <2>2, LedgerStep
<1>6. ASSUME NEW q \in Client, Commit(q) PROVE [Ledger!Next]_(Ledger!vars)
  <2> DEFINE a == request[q].asm
             op == request[q].op
  <2>1. a \in Assessment /\ op \in {"pause", "resume", "delete"}
    BY <1>6 DEF TypeOK, Commit, Requests
  <2>2. \A b \in Assessment \ {a} : Shown(status'[b]) = Shown(status[b]) /\ findings'[b] = findings[b]
    BY <1>6, <2>1 DEF Commit, TypeOK
  <2>3. CASE status[a] = "deleted"
    BY <1>6, <2>3, <1>same DEF Commit
  <2>4. CASE status[a] # "deleted" /\ op = "delete"
    <3>1. status'[a] = "deleted" /\ findings'[a] = {}
      BY <1>6, <2>1, <2>4 DEF Commit, Written, TypeOK
    <3>2. Shown(status[a]) # "gone" /\ Shown(status'[a]) = "gone"
      BY <2>4, <3>1 DEF Shown
    <3> QED BY <1>t, <2>1, <2>2, <3>1, <3>2, LedgerStep
  <2>5. CASE status[a] # "deleted" /\ op # "delete"
    <3>1. status'[a] \in {"paused", "pending"} /\ findings' = findings
      BY <1>6, <2>1, <2>5 DEF Commit, Written, TypeOK
    <3>2. Shown(status'[a]) = "open" /\ Shown(status[a]) \in {"open", "complete"}
      BY <2>5, <3>1 DEF Shown
    <3> QED BY <1>t, <2>1, <2>2, <3>1, <3>2, LedgerStep
  <2> QED BY <2>3, <2>4, <2>5
<1> QED BY <1>1, <1>2, <1>3, <1>4, <1>5, <1>6 DEF Next

\* Whatever interrupts, repeats or fails its executions, an assessment shows the rest of
\* the system a ledger of findings that only grows until it is deleted, and the mark
\* "complete" only over a whole baseline.
THEOREM LedgerRefined == Spec => LedgerSpec
<1>1. Init => Ledger!Init
  <2> SUFFICES ASSUME Init PROVE Ledger!Init
    OBVIOUS
  <2>1. \A a \in Assessment : Shown(status[a]) = "open"
    BY DEF Init, Shown
  <2> QED BY <2>1 DEF Init, Ledger!Init
<1>2. TypeOK /\ TypeOK' /\ CoverInv /\ [Next]_vars => [Ledger!Next]_(Ledger!vars)
  <2>1. UNCHANGED vars => UNCHANGED Ledger!vars
    BY DEF vars, Ledger!vars
  <2> QED BY <2>1, LedgerRunStep, LedgerElsewhere
<1> QED BY <1>1, <1>2, TypeCorrect, CoverInvariant, PTL DEF Spec, LedgerSpec, Ledger!Spec
============================================================================
