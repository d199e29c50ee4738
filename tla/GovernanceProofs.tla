-------------------------- MODULE GovernanceProofs --------------------------
(***************************************************************************)
(* Theorems about Governance for every set of controls, people and clients *)
(* and every bound.                                                        *)
(***************************************************************************)
EXTENDS Governance, SequenceTheorems, TLAPS

USE DEF content, gate, retrying, Bystanders, TaskFrame

----------------------------------------------------------------------------
(* Types.                                                                  *)

\* What a request carries follows from its operation.
LEMMA RequestKinds ==
  ASSUME NEW r \in {NoRequest} \cup Requests
  PROVE  /\ r.op \in EditOps => r \in Edits
         /\ r.op \in {"approve", "insert"} =>
              r.type \in {"assessor", "independent_reviewer"} /\ r.user \in User
         /\ r.op = "insert" => r.snap \in Nat
         /\ r.op = "finalize" => r.found \in Nat
BY DEF NoRequest, Requests, Edits, EditOps

LEMMA InitType == Init => TypeOK
BY InitialAssumption DEF Init, TypeOK, NotReviewed, NoRetry

\* The handlers' edits stay within the columns' values.
LEMMA EditedType ==
  ASSUME NEW op \in EditOps, NEW r \in Records, NEW new \in Edited(op, r)
  PROVE  new \in Records
<1>1. CASE op = "review"
  BY <1>1 DEF Edited, Records
<1>2. CASE op = "resolve"
  <2>1. PICK s \in Statuses \ {"not_reviewed"} : new = [r EXCEPT !.status = s, !.review = "override"]
    BY <1>2 DEF Edited
  <2> QED BY <2>1 DEF Records
<1>3. CASE op = "activity"
  BY <1>3 DEF Edited, Records
<1>4. CASE op = "propose"
  BY <1>4 DEF Edited, Records
<1>5. CASE op = "tailor"
  BY <1>5 DEF Edited, Records
<1>6. CASE op = "dissent"
  BY <1>6 DEF Edited, Records
<1>7. CASE op = "poam"
  BY <1>7 DEF Edited, Records
<1> QED BY <1>1, <1>2, <1>3, <1>4, <1>5, <1>6, <1>7 DEF EditOps

LEMMA FlushType ==
  ASSUME NEW now \in Records, NEW old \in Records, NEW new \in Records
  PROVE  Flush(now, old, new) \in Records
BY DEF Flush, Records

\* Writing a record of the right type keeps the content's type.
LEMMA WriteType ==
  ASSUME TypeOK, NEW c \in Control, NEW r \in Records, Write(c, r)
  PROVE  record' \in [Control -> Records] /\ version' \in Nat
BY DEF TypeOK, Write

LEMMA RewrittenType ==
  ASSUME NEW r \in Records, NEW s \in Answers
  PROVE  Rewritten(r, s) \in Records
BY DEF Rewritten, Records, Answers, Statuses

\* What people do keeps the types.
LEMMA PeopleType ==
  ASSUME TypeOK,
         \/ Edit
         \/ Approve
         \/ \E q \in Client, u \in User : FinalizeCheck(q, u)
         \/ \E q \in Client : RetryCheck(q)
  PROVE  TypeOK'
<1>1. CASE Edit
  <2>1. PICK q \in Client, op \in EditOps, c \in Control : EditCheck(q, op, c)
    BY <1>1 DEF Edit
  <2>2. PICK new \in Edited(op, record[c]) :
          Asks(q, [op |-> op, ctl |-> c, old |-> record[c], new |-> new])
    BY <2>1 DEF EditCheck
  <2>3. record[c] \in Records /\ new \in Records
    BY EditedType DEF TypeOK
  <2>4. [op |-> op, ctl |-> c, old |-> record[c], new |-> new] \in Requests
    BY <2>3 DEF Requests, Edits
  <2> QED BY <2>1, <2>2, <2>4, BoundsAssumption DEF TypeOK, EditCheck, Asks
<1>2. CASE Approve
  <2>1. PICK q \in Client, u \in User, type \in {"assessor", "independent_reviewer"} :
          ApproveCheck(q, u, type)
    BY <1>2 DEF Approve
  <2>2. [op |-> "approve", type |-> type, user |-> u] \in Requests
    BY DEF Requests
  <2> QED BY <2>1, <2>2 DEF TypeOK, ApproveCheck, Asks
<1>3. ASSUME NEW q \in Client, NEW u \in User, FinalizeCheck(q, u) PROVE TypeOK'
  <2>1. [op |-> "finalize", found |-> version] \in Requests
    BY DEF Requests, TypeOK
  <2> QED BY <1>3, <2>1 DEF TypeOK, FinalizeCheck, Asks
<1>4. ASSUME NEW q \in Client, RetryCheck(q) PROVE TypeOK'
  <2>1. [op |-> "retry"] \in Requests
    BY DEF Requests
  <2> QED BY <1>4, <2>1 DEF TypeOK, RetryCheck, Asks
<1> QED BY <1>1, <1>2, <1>3, <1>4

LEMMA AnswerType ==
  ASSUME TypeOK, NEW q \in Client, Answer(q)
  PROVE  TypeOK'
<1> DEFINE r == request[q]
<1>0. r \in {NoRequest} \cup Requests
  BY DEF TypeOK
<1>1. CASE EditCommit(q)
  <2>1. r \in Edits
    BY <1>0, <1>1, RequestKinds DEF EditCommit
  <2>2. r.ctl \in Control /\ r.old \in Records /\ r.new \in Records /\ record[r.ctl] \in Records
    BY <2>1 DEF Edits, TypeOK
  <2>3. Flush(record[r.ctl], r.old, r.new) \in Records
    BY <2>2, FlushType
  <2>4. Write(r.ctl, Flush(record[r.ctl], r.old, r.new))
    BY <1>1 DEF EditCommit
  <2>5. record' \in [Control -> Records] /\ version' \in Nat
    BY <2>2, <2>3, <2>4, WriteType
  <2> QED BY <1>1, <2>5 DEF TypeOK, EditCommit, Answered
<1>2. CASE ApproveRead(q)
  <2>1. r.type \in {"assessor", "independent_reviewer"} /\ r.user \in User
    BY <1>0, <1>2, RequestKinds DEF ApproveRead
  <2>2. [op |-> "insert", type |-> r.type, user |-> r.user, snap |-> version] \in Requests
    BY <2>1 DEF Requests, TypeOK
  <2> QED BY <1>2, <2>2 DEF TypeOK, ApproveRead
<1>3. CASE ApproveCommit(q)
  <2>1. [type |-> r.type, user |-> r.user, snap |-> r.snap] \in Approval
    BY <1>0, <1>3, RequestKinds DEF ApproveCommit, Approval
  <2>2. approvals' \in Seq(Approval)
    BY <1>3, <2>1 DEF TypeOK, ApproveCommit
  <2> QED BY <1>3, <2>2 DEF TypeOK, ApproveCommit, Answered
<1>4. CASE FinalizeCommit(q)
  <2>1. r.found \in Nat
    BY <1>0, <1>4, RequestKinds DEF FinalizeCommit
  <2> QED BY <1>4, <2>1 DEF TypeOK, FinalizeCommit, Answered
<1>5. CASE RetryCommit(q)
  <2>1. jobs' \in Seq({"pending", "running", "complete", "failed"})
        /\ DOMAIN jobs \subseteq DOMAIN jobs'
    BY <1>5 DEF TypeOK, RetryCommit
  <2>3. lost' \subseteq DOMAIN jobs'
    BY <1>5, <2>1 DEF TypeOK, RetryCommit
  <2>2. retry' \in {NoRetry} \cup
                 [pc : {"claimed", "reset", "gather", "record", "done", "failing"},
                  job : DOMAIN jobs', loaded : SUBSET Control]
    BY <1>5, <2>1 DEF TypeOK, RetryCommit
  <2> QED BY <1>5, <2>1, <2>2, <2>3 DEF TypeOK, RetryCommit, Answered
<1> QED BY <1>1, <1>2, <1>3, <1>4, <1>5 DEF Answer
\* The retry job's own steps keep the types.
LEMMA JobType ==
  ASSUME TypeOK,
         \/ Recover \/ Crash \/ JobStep \/ JobRaises \/ EndLost
         \/ \E j \in DOMAIN jobs : Claim(j)
  PROVE  TypeOK'
<1> DEFINE Working == [pc : {"claimed", "reset", "gather", "record", "done", "failing"},
                       job : DOMAIN jobs, loaded : SUBSET Control]
<1>0. retry.pc # "idle" => retry \in Working
  BY DEF TypeOK, NoRetry
<1>1. CASE Recover
  <2>1. jobs' \in Seq({"pending", "running", "complete", "failed"}) /\ DOMAIN jobs' = DOMAIN jobs
    <3> DEFINE S == {"pending", "running", "complete", "failed"}
    <3>1. Len(jobs) \in Nat /\ DOMAIN jobs = 1..Len(jobs) /\ \A j \in DOMAIN jobs : jobs[j] \in S
      BY DEF TypeOK
    <3>2. jobs' = [j \in DOMAIN jobs |-> IF jobs[j] = "running" THEN "pending" ELSE jobs[j]]
      BY <1>1 DEF Recover
    <3>3. jobs' \in [1..Len(jobs) -> S] /\ DOMAIN jobs' = DOMAIN jobs
      BY <3>1, <3>2
    <3> QED BY <3>1, <3>3, SeqDef
  <2> QED BY <1>1, <2>1 DEF TypeOK, Recover
<1>2. CASE Crash
  BY <1>2 DEF TypeOK, Crash
<1>3. ASSUME NEW j \in DOMAIN jobs, Claim(j) PROVE TypeOK'
  <2>1. jobs' \in Seq({"pending", "running", "complete", "failed"}) /\ DOMAIN jobs' = DOMAIN jobs
    <3> HIDE DEF Working
    <3>1. j \in 1..Len(jobs)
      BY DEF TypeOK
    <3>2. jobs' = [jobs EXCEPT ![j] = "running"]
      BY <1>3 DEF Claim
    <3> QED BY <3>1, <3>2, ExceptSeq DEF TypeOK
  <2>2. retry' \in Working
    BY <1>3 DEF Claim, NoRetry
  <2> QED BY <1>3, <2>1, <2>2 DEF TypeOK, Claim
<1>4. CASE Load
  <2>1. NotReviewed \subseteq Control
    BY DEF NotReviewed
  <2>2. retry' \in Working
    BY <1>0, <1>4, <2>1 DEF Load, AtRetry
  <2> QED BY <1>4, <2>2 DEF TypeOK, Load
<1>5. CASE Reset
  <2>1. retry \in Working
    BY <1>0, <1>5 DEF Reset, AtRetry
  <2>2. retry' \in Working
    BY <1>5, <2>1 DEF Reset
  <2>3. \A c \in Control : record[c] \in Records /\ [record[c] EXCEPT !.activity = "planned"] \in Records
    <3>1. \A r \in Records : [r EXCEPT !.activity = "planned"] \in Records
      BY DEF Records
    <3> QED BY <3>1 DEF TypeOK
  <2>4. record' \in [Control -> Records]
    BY <1>5, <2>3 DEF Reset
  <2>5. retry.job \in Nat
    BY <2>1 DEF TypeOK
  <2>6. tasks' \subseteq Tasks
    BY <1>5, <2>1, <2>5 DEF Reset, TypeOK, Tasks
  <2>7. /\ version' \in Nat
        /\ UNCHANGED <<rollup, jobs, worker, faults, Bystanders>>
    BY <1>5 DEF Reset, TypeOK
  <2> QED BY <2>2, <2>6, <2>7, <2>4 DEF TypeOK
<1>6. CASE BuildRollup
  <2>1. retry \in Working
    BY <1>0, <1>6 DEF BuildRollup, AtRetry
  <2>2. retry' \in Working /\ rollup' \subseteq Control
    BY <1>6, <2>1 DEF BuildRollup, NotReviewed
  <2> QED BY <1>6, <2>2 DEF TypeOK, BuildRollup
<1>7. CASE RecordExamine
  <2>1. retry' \in Working
    BY <1>0, <1>7 DEF RecordExamine, AtRetry
  <2>2. \A c \in Control : record[c] \in Records /\ [record[c] EXCEPT !.activity = "performed"] \in Records
    <3>1. \A r \in Records : [r EXCEPT !.activity = "performed"] \in Records
      BY DEF Records
    <3> QED BY <3>1 DEF TypeOK
  <2>3. record' \in [Control -> Records]
    BY <1>7, <2>2 DEF RecordExamine
  <2>4. version' \in Nat /\ UNCHANGED <<rollup, jobs, tasks, worker, faults, Bystanders>>
    BY <1>7 DEF RecordExamine, TypeOK
  <2> QED BY <2>1, <2>3, <2>4 DEF TypeOK
<1>8. CASE End
  <2>1. jobs' \in Seq({"pending", "running", "complete", "failed"}) /\ DOMAIN jobs' = DOMAIN jobs
    BY <1>0, <1>8, ExceptSeq DEF TypeOK, End
  <2> QED BY <1>8, <2>1 DEF TypeOK, End
<1>9. CASE JobRaises
  <2>1. retry' \in Working
    BY <1>0, <1>9 DEF JobRaises, AtRetry
  <2>2. faults' \in Nat /\ UNCHANGED <<content, rollup, jobs, tasks, worker, Bystanders>>
    BY <1>9 DEF JobRaises, TypeOK
  <2> QED BY <2>1, <2>2 DEF TypeOK
<1>10. CASE EndLost
  <2>1. lost' \subseteq DOMAIN jobs
    BY <1>0, <1>10 DEF EndLost, TypeOK
  <2>2. faults' \in Nat /\ retry' = NoRetry /\ UNCHANGED <<content, gate, rollup, jobs, tasks, worker, request, edits, crashes>>
    BY <1>10 DEF EndLost, TypeOK
  <2> QED BY <2>1, <2>2 DEF TypeOK
<1> QED BY <1>1, <1>2, <1>3, <1>4, <1>5, <1>6, <1>7, <1>8, <1>9, <1>10 DEF JobStep

\* So do the steps of a task.
LEMMA TaskType ==
  ASSUME TypeOK, NEW t \in tasks,
         ClearStage(t) \/ Challenge(t) \/ WriteFinding(t) \/ WriteFallback(t) \/ TaskRaises(t)
  PROVE  TypeOK'
<1> DEFINE r == record[t.ctl]
<1>0. /\ t \in Tasks /\ t.ctl \in Control /\ r \in Records
      /\ \A d \in {"none", "open"} : [r EXCEPT !.dissent = d] \in Records
  <2>1. t \in Tasks /\ t.ctl \in Control
    BY DEF TypeOK, Tasks
  <2>2. r \in Records
    BY <2>1 DEF TypeOK
  <2> HIDE DEF r
  <2>3. \A d \in {"none", "open"} : [r EXCEPT !.dissent = d] \in Records
    BY <2>2 DEF Records
  <2> QED BY <2>1, <2>2, <2>3
<1>1. Lose(t.ctl) => request' \in [Client -> {NoRequest} \cup Requests]
  BY DEF Lose, TypeOK
<1>2. \A stage \in {"cleared", "challenged"} : Becomes(t, stage) => tasks' \subseteq Tasks
  BY <1>0 DEF Becomes, TypeOK, Tasks
<1>3. CASE ClearStage(t)
  <2>1. record' \in [Control -> Records] /\ version' \in Nat
    BY <1>0, <1>3, WriteType DEF ClearStage
  <2>2. tasks' \subseteq Tasks /\ request' \in [Client -> {NoRequest} \cup Requests]
    BY <1>1, <1>2, <1>3 DEF ClearStage
  <2> QED BY <1>3, <2>1, <2>2 DEF TypeOK, ClearStage
<1>4. CASE Challenge(t)
  <2>1. record' \in [Control -> Records] /\ version' \in Nat
    BY <1>0, <1>4, WriteType DEF Challenge
  <2>2. tasks' \subseteq Tasks
    BY <1>2, <1>4 DEF Challenge
  <2> QED BY <1>4, <2>1, <2>2 DEF TypeOK, Challenge
<1>5. CASE WriteFinding(t)
  <2>1. PICK s \in Answers \ {"unparsed"} : Write(t.ctl, Rewritten(r, s))
    BY <1>5 DEF WriteFinding
  <2>2. record' \in [Control -> Records] /\ version' \in Nat
    BY <1>0, <2>1, RewrittenType, WriteType
  <2>3. tasks' \subseteq Tasks
    BY <1>5 DEF WriteFinding, TypeOK
  <2> QED BY <1>5, <2>2, <2>3 DEF TypeOK, WriteFinding
<1>6. CASE WriteFallback(t)
  <2>1. PICK s \in Answers :
          \/ Write(t.ctl, Rewritten(r, s)) /\ UNCHANGED request
          \/ Write(t.ctl, [Rewritten(r, s) EXCEPT !.dissent = "none"]) /\ Lose(t.ctl)
    BY <1>6 DEF WriteFallback
  <2>2. Rewritten(r, s) \in Records /\ [Rewritten(r, s) EXCEPT !.dissent = "none"] \in Records
    BY <1>0, RewrittenType DEF Records
  <2>3. record' \in [Control -> Records] /\ version' \in Nat
    BY <1>0, <2>1, <2>2, WriteType
  <2>4. tasks' \subseteq Tasks /\ request' \in [Client -> {NoRequest} \cup Requests]
    BY <1>1, <1>6, <2>1 DEF WriteFallback, TypeOK
  <2> QED BY <1>6, <2>3, <2>4 DEF TypeOK, WriteFallback
<1>7. CASE TaskRaises(t)
  <2>1. retry' \in {NoRetry} \cup
                 [pc : {"claimed", "reset", "gather", "record", "done", "failing"},
                  job : DOMAIN jobs, loaded : SUBSET Control]
    <3>1. CASE AtRetry("gather")
      <4>1. retry \in [pc : {"gather"}, job : DOMAIN jobs, loaded : SUBSET Control]
        BY <3>1 DEF TypeOK, AtRetry, NoRetry
      <4>2. retry' = retry \/ retry' = [retry EXCEPT !.pc = "failing"]
        BY <1>7 DEF TaskRaises
      <4> QED BY <4>1, <4>2
    <3>2. CASE ~AtRetry("gather")
      BY <1>7, <3>2 DEF TaskRaises, TypeOK
    <3> QED BY <3>1, <3>2
  <2>2. /\ faults' \in Nat /\ tasks' \subseteq Tasks
        /\ UNCHANGED <<content, rollup, jobs, worker, Bystanders>>
    BY <1>7 DEF TaskRaises, TypeOK
  <2> QED BY <2>1, <2>2 DEF TypeOK
<1> QED BY <1>3, <1>4, <1>5, <1>6, <1>7

\* TypeOK always holds: no interleaving of edits, approvals, retries, restarts and
\* failures takes a variable out of its type.
THEOREM TypeCorrect == Spec => []TypeOK
<1>1. TypeOK /\ [Next]_vars => TypeOK'
  <2> SUFFICES ASSUME TypeOK, [Next]_vars PROVE TypeOK'
    OBVIOUS
  <2>1. CASE Next
    BY <2>1, PeopleType, AnswerType, JobType, TaskType DEF Next, TaskStep
  <2>2. CASE UNCHANGED vars
    BY <2>2 DEF vars, TypeOK
  <2> QED BY <2>1, <2>2
<1> QED BY <1>1, InitType, PTL DEF Spec
----------------------------------------------------------------------------
(* Requests across a step.                                                 *)

\* A step by which nobody starts to insert an approval or to finalize.
Routine ==
    \A q \in Client : request'[q] = request[q] \/ request'[q].op \notin {"insert", "finalize"}

\* Everything but the gate's own three steps is routine, leaves the approvals and
\* the finalization alone, and either leaves the content alone or raises its version.
LEMMA OrdinarySteps ==
  ASSUME TypeOK, [Next]_vars,
         ~ \E q \in Client : ApproveRead(q) \/ ApproveCommit(q) \/ FinalizeCommit(q)
                            \/ \E u \in User : FinalizeCheck(q, u)
  PROVE  /\ Routine
         /\ UNCHANGED gate
         /\ UNCHANGED content \/ version' = version + 1
<1>0. \A t : Lose(t.ctl) => Routine
  BY DEF Lose, Routine, TypeOK, NoRequest
<1>1. CASE Edit
  BY <1>1 DEF Edit, EditCheck, Asks, TypeOK, EditOps, Routine
<1>2. CASE Approve
  BY <1>2 DEF Approve, ApproveCheck, Asks, TypeOK, Routine
<1>3. CASE \E q \in Client : RetryCheck(q)
  BY <1>3 DEF RetryCheck, Asks, TypeOK, Routine
<1>4. ASSUME NEW q \in Client, Answer(q)
      PROVE  /\ Routine
             /\ UNCHANGED gate
             /\ UNCHANGED content \/ version' = version + 1
  <2>1. CASE EditCommit(q)
    BY <2>1 DEF EditCommit, Write, Answered, NoRequest, TypeOK, Routine
  <2>2. CASE RetryCommit(q)
    BY <2>2 DEF RetryCommit, Answered, NoRequest, TypeOK, Routine
  <2> QED BY <1>4, <2>1, <2>2 DEF Answer
<1>5. CASE Recover \/ Crash \/ (\E j \in DOMAIN jobs : Claim(j)) \/ JobRaises \/ EndLost
  BY <1>5 DEF Recover, Crash, Claim, JobRaises, EndLost, Routine
<1>6. CASE JobStep
  BY <1>6 DEF JobStep, Load, Reset, BuildRollup, RecordExamine, End, Routine
<1>7. ASSUME NEW t \in tasks,
             ClearStage(t) \/ Challenge(t) \/ WriteFinding(t) \/ WriteFallback(t) \/ TaskRaises(t)
      PROVE  /\ Routine
             /\ UNCHANGED gate
             /\ UNCHANGED content \/ version' = version + 1
  <2>1. CASE ClearStage(t)
    BY <1>0, <2>1 DEF ClearStage, Write
  <2>2. CASE Challenge(t)
    BY <2>2 DEF Challenge, Write, Routine
  <2>3. CASE WriteFinding(t)
    BY <2>3 DEF WriteFinding, Write, Routine
  <2>4. CASE WriteFallback(t)
    BY <1>0, <2>4 DEF WriteFallback, Write, Routine
  <2>5. CASE TaskRaises(t)
    BY <2>5 DEF TaskRaises, Routine
  <2> QED BY <1>7, <2>1, <2>2, <2>3, <2>4, <2>5
<1>8. CASE UNCHANGED vars
  BY <1>8 DEF vars, Routine
<1> QED BY <1>1, <1>2, <1>3, <1>4, <1>5, <1>6, <1>7, <1>8 DEF Next, TaskStep

----------------------------------------------------------------------------
(* Two people sign.                                                        *)

LEMMA SignedInit == Init => SignedInv
BY DEF Init, SignedInv, IndependentSecond, NoRequest

\* Appending keeps what stands in the table at its place.
LEMMA ApprovalsGrow ==
  ASSUME TypeOK, NEW q \in Client, ApproveCommit(q)
  PROVE  /\ DOMAIN approvals' = 1..(Len(approvals) + 1)
         /\ DOMAIN approvals = 1..Len(approvals) /\ Len(approvals) \in Nat
         /\ DOMAIN approvals \subseteq DOMAIN approvals'
         /\ \A i \in DOMAIN approvals : approvals'[i] = approvals[i]
         /\ approvals'[Len(approvals) + 1] =
              [type |-> request[q].type, user |-> request[q].user, snap |-> request[q].snap]
<1>1. approvals' = Append(approvals, [type |-> request[q].type, user |-> request[q].user,
                                      snap |-> request[q].snap])
  BY DEF ApproveCommit
<1> QED BY <1>1 DEF TypeOK

LEMMA SignedStep ==
  ASSUME TypeOK, SignedInv, [Next]_vars
  PROVE  SignedInv'
<1>1. CASE ~ \E q \in Client : ApproveRead(q) \/ ApproveCommit(q) \/ FinalizeCommit(q)
                               \/ \E u \in User : FinalizeCheck(q, u)
  <2>1. Routine /\ UNCHANGED <<approvals, finalization>>
    BY <1>1, OrdinarySteps
  <2> QED BY <2>1 DEF SignedInv, Routine, IndependentSecond, TwoApproved
<1>2. ASSUME NEW q \in Client, ApproveRead(q) PROVE SignedInv'
  <2>1. UNCHANGED <<approvals, finalization>>
    BY <1>2 DEF ApproveRead
  <2>2. \A p \in Client : p # q => request'[p] = request[p]
    BY <1>2 DEF ApproveRead, TypeOK
  <2>3. request'[q].op \in {"insert", "none"}
    BY <1>2 DEF ApproveRead, TypeOK, NoRequest
  <2>4. request'[q].op = "insert" /\ request'[q].type = "independent_reviewer" =>
          \E i \in DOMAIN approvals :
              approvals[i].type = "assessor" /\ approvals[i].user # request'[q].user
    BY <1>2 DEF ApproveRead, TypeOK, NoRequest, Latest, Of
  <2> QED BY <2>1, <2>2, <2>3, <2>4 DEF SignedInv, IndependentSecond, TwoApproved
<1>3. ASSUME NEW q \in Client, ApproveCommit(q) PROVE SignedInv'
  <2> DEFINE n == Len(approvals)
  <2>1. \A p \in Client : request'[p] = request[p] \/ request'[p].op = "none"
    BY <1>3 DEF ApproveCommit, Answered, TypeOK, NoRequest
  <2>0. /\ DOMAIN approvals = 1..n /\ DOMAIN approvals' = 1..(n + 1) /\ n \in Nat
        /\ DOMAIN approvals \subseteq DOMAIN approvals'
        /\ \A i \in DOMAIN approvals : approvals'[i] = approvals[i]
        /\ approvals'[n + 1] =
              [type |-> request[q].type, user |-> request[q].user, snap |-> request[q].snap]
    BY <1>3, ApprovalsGrow
  <2> HIDE DEF n
  <2>2. TwoApproved => TwoApproved'
    BY <2>0 DEF TwoApproved
  <2>3. \A p \in Client : request[p].op = "insert" /\ request[p].type = "independent_reviewer" =>
          \E i \in 1..n : approvals'[i].type = "assessor" /\ approvals'[i].user # request[p].user
    BY <2>0 DEF SignedInv
  <2>4. IndependentSecond'
    <3> SUFFICES ASSUME NEW i \in DOMAIN approvals', approvals'[i].type = "independent_reviewer"
                 PROVE  \E j \in 1..(i - 1) : approvals'[j].type = "assessor"
                                            /\ approvals'[j].user # approvals'[i].user
      BY DEF IndependentSecond
    <3>1. CASE i \in 1..n
      <4>1. i \in DOMAIN approvals /\ approvals'[i] = approvals[i]
        BY <3>1, <2>0
      <4>2. PICK j \in 1..(i - 1) : approvals[j].type = "assessor"
                                 /\ approvals[j].user # approvals[i].user
        BY <4>1 DEF SignedInv, IndependentSecond
      <4>3. j \in DOMAIN approvals
        BY <3>1, <2>0
      <4>4. approvals'[j] = approvals[j]
        BY <4>3, <2>0
      <4> QED BY <4>1, <4>2, <4>4
    <3>2. CASE i = n + 1
      <4>1. approvals'[i].type = request[q].type /\ approvals'[i].user = request[q].user
        BY <3>2, <2>0
      <4>2. request[q].op = "insert"
        BY <1>3 DEF ApproveCommit
      <4>3. PICK j \in 1..n : approvals'[j].type = "assessor" /\ approvals'[j].user # request[q].user
        BY <2>3, <4>1, <4>2
      <4>4. j \in 1..(i - 1)
        BY <3>2, <2>0
      <4> QED BY <4>1, <4>3, <4>4
    <3> QED BY <3>1, <3>2, <2>0
  <2>5. 1..n \subseteq DOMAIN approvals' /\ UNCHANGED finalization
    BY <1>3, <2>0 DEF ApproveCommit
  <2> QED BY <2>1, <2>2, <2>3, <2>4, <2>5 DEF SignedInv
<1>4. ASSUME NEW q \in Client, NEW u \in User, FinalizeCheck(q, u) PROVE SignedInv'
  <2>1. UNCHANGED <<approvals, finalization>>
    BY <1>4 DEF FinalizeCheck
  <2>2. TwoApproved
    BY <1>4 DEF FinalizeCheck, Approved, TwoApproved, Latest, Of
  <2>3. \A p \in Client : request'[p] = request[p] \/ request'[p].op = "finalize"
    BY <1>4 DEF FinalizeCheck, Asks, TypeOK
  <2> QED BY <2>1, <2>2, <2>3 DEF SignedInv, IndependentSecond, TwoApproved
<1>5. ASSUME NEW q \in Client, FinalizeCommit(q) PROVE SignedInv'
  <2>1. UNCHANGED approvals /\ TwoApproved
    BY <1>5 DEF FinalizeCommit, SignedInv
  <2>2. \A p \in Client : request'[p] = request[p] \/ request'[p].op = "none"
    BY <1>5 DEF FinalizeCommit, Answered, TypeOK, NoRequest
  <2> QED BY <2>1, <2>2 DEF SignedInv, IndependentSecond, TwoApproved
<1> QED BY <1>1, <1>2, <1>3, <1>4, <1>5

\* SignedInv always holds.
THEOREM SignedInvariant == Spec => []SignedInv
BY TypeCorrect, SignedInit, SignedStep, PTL DEF Spec

\* Every independent approval follows an assessor's approval by somebody else
\* (create_approval), however the checks and inserts of approvers interleave.
THEOREM IndependentComesSecond == Spec => []IndependentSecond
<1>1. SignedInv => IndependentSecond
  BY DEF SignedInv
<1> QED BY <1>1, SignedInvariant, PTL

\* A finalized assessment carries approvals of one content by two people.
THEOREM TwoPeopleFinalize == Spec => []FinalizedByTwo
<1>1. SignedInv => FinalizedByTwo
  BY DEF SignedInv, FinalizedByTwo
<1> QED BY <1>1, SignedInvariant, PTL
----------------------------------------------------------------------------
(* What is sealed was ready.                                               *)

LEMMA SealedInit == Init => SealedInv
BY DEF Init, SealedInv, SealedIsReady, NoRequest

LEMMA SealedStep ==
  ASSUME TypeOK, SealedInv, [Next]_vars
  PROVE  SealedInv'
<1>1. CASE ~ \E q \in Client : ApproveRead(q) \/ ApproveCommit(q) \/ FinalizeCommit(q)
                               \/ \E u \in User : FinalizeCheck(q, u)
  <2>1. Routine /\ UNCHANGED <<finalization, sealed>> /\ (UNCHANGED content \/ version' = version + 1)
    BY <1>1, OrdinarySteps
  <2>2. version \in Nat /\ sealed \in Nat
    BY DEF TypeOK
  <2>3. \A q \in Client : request[q].op = "finalize" => request[q].found \in Nat
    BY RequestKinds DEF TypeOK
  <2>4. CASE UNCHANGED content
    BY <2>1, <2>4 DEF SealedInv, SealedIsReady, Routine, ContentReady
  <2>5. CASE version' = version + 1
    BY <2>1, <2>2, <2>3, <2>5 DEF SealedInv, SealedIsReady, Routine
  <2> QED BY <2>1, <2>4, <2>5
<1>2. ASSUME NEW q \in Client, ApproveRead(q) \/ ApproveCommit(q) PROVE SealedInv'
  <2>1. UNCHANGED <<content, finalization, sealed>>
    BY <1>2 DEF ApproveRead, ApproveCommit
  <2>2. \A p \in Client : request'[p] = request[p] \/ request'[p].op \in {"insert", "none"}
    BY <1>2 DEF ApproveRead, ApproveCommit, Answered, TypeOK, NoRequest
  <2> QED BY <2>1, <2>2 DEF SealedInv, SealedIsReady, ContentReady
<1>3. ASSUME NEW q \in Client, NEW u \in User, FinalizeCheck(q, u) PROVE SealedInv'
  <2>1. UNCHANGED <<content, finalization, sealed>> /\ ContentReady /\ version \in Nat
    BY <1>3 DEF FinalizeCheck, TypeOK
  <2>2. \A p \in Client : request'[p] = request[p]
                         \/ request'[p] = [op |-> "finalize", found |-> version]
    BY <1>3 DEF FinalizeCheck, Asks, TypeOK
  <2> QED BY <2>1, <2>2 DEF SealedInv, SealedIsReady, ContentReady
<1>4. ASSUME NEW q \in Client, FinalizeCommit(q) PROVE SealedInv'
  <2>1. UNCHANGED content /\ sealed' = request[q].found /\ request[q].op = "finalize"
    BY <1>4 DEF FinalizeCommit
  <2>2. \A p \in Client : request'[p] = request[p] \/ request'[p].op = "none"
    BY <1>4 DEF FinalizeCommit, Answered, TypeOK, NoRequest
  <2> QED BY <2>1, <2>2 DEF SealedInv, SealedIsReady, ContentReady
<1> QED BY <1>1, <1>2, <1>3, <1>4

\* While the content of a finalized assessment is what the finalizing request
\* hashed, the gate's conditions hold of it.
THEOREM SealedContentReady == Spec => []SealedIsReady
<1>1. SealedInv => SealedIsReady
  BY DEF SealedInv
<1> QED BY <1>1, TypeCorrect, SealedInit, SealedStep, PTL DEF Spec

----------------------------------------------------------------------------
(* The rollup never hides an unanswered finding.                           *)

LEMMA RollupInit == Init => RollupInv
BY DEF Init, RollupInv, RollupHidesNone, NoRequest, EditOps

\* No finding of which the record says something else becomes not_reviewed.
KeepsAnswer(r, s) == s.status = "not_reviewed" => r.status = "not_reviewed"

\* Writing a record that is answered if the old one is adds no unanswered finding.
LEMMA WriteKeepsAnswer ==
  ASSUME TypeOK, NEW c \in Control, NEW r \in Records, KeepsAnswer(record[c], r), Write(c, r)
  PROVE  NotReviewed' \subseteq NotReviewed
BY DEF TypeOK, Write, NotReviewed, KeepsAnswer

\* What a handler makes of a finding that has an answer has one.
LEMMA EditedKeepsAnswer ==
  ASSUME NEW op \in EditOps, NEW r \in Records, NEW new \in Edited(op, r)
  PROVE  KeepsAnswer(r, new)
<1>1. CASE op = "review"
  BY <1>1 DEF Edited, Records, KeepsAnswer
<1>2. CASE op = "resolve"
  <2>1. PICK s \in Statuses \ {"not_reviewed"} : new = [r EXCEPT !.status = s, !.review = "override"]
    BY <1>2 DEF Edited
  <2> QED BY <2>1 DEF Records, KeepsAnswer
<1>3. CASE op \in {"activity", "propose"}
  BY <1>3 DEF Edited, Records, KeepsAnswer
<1>4. CASE op = "tailor"
  BY <1>4 DEF Edited, Records, KeepsAnswer
<1>5. CASE op = "dissent"
  BY <1>5 DEF Edited, Records, KeepsAnswer
<1>6. CASE op = "poam"
  BY <1>6 DEF Edited, Records, KeepsAnswer
<1> QED BY <1>1, <1>2, <1>3, <1>4, <1>5, <1>6 DEF EditOps

\* A retry task's write: an answer it could not parse leaves the status alone.
LEMMA RewrittenKeepsAnswer ==
  ASSUME NEW r \in Records, NEW s \in Answers
  PROVE  /\ KeepsAnswer(r, Rewritten(r, s))
         /\ KeepsAnswer(r, [Rewritten(r, s) EXCEPT !.dissent = "none"])
BY DEF KeepsAnswer, Rewritten, Answers, Records, Statuses

\* Steps other than EditCheck open no edit.
LEMMA OtherRequests ==
  ASSUME TypeOK, [Next]_vars, ~Edit
  PROVE  \A q \in Client : request'[q] = request[q] \/ request'[q].op \notin EditOps
<1> DEFINE Rest == \A q \in Client : request'[q] = request[q] \/ request'[q].op \notin EditOps
<1>0. "none" \notin EditOps /\ \A t : Lose(t.ctl) => Rest
  BY DEF Lose, TypeOK, NoRequest, EditOps
<1>1. CASE Approve
  BY <1>1 DEF Approve, ApproveCheck, Asks, TypeOK, EditOps
<1>2. CASE (\E q \in Client : RetryCheck(q)) \/ \E q \in Client, u \in User : FinalizeCheck(q, u)
  BY <1>2 DEF RetryCheck, FinalizeCheck, Asks, TypeOK, EditOps
<1>3. ASSUME NEW p \in Client, Answer(p) PROVE Rest
  <2>1. CASE ApproveRead(p)
    <3>1. \A q \in Client : request'[q] = request[q] \/ request'[q].op \in {"insert", "none"}
      BY <2>1 DEF ApproveRead, Answered, TypeOK, NoRequest
    <3> QED BY <3>1 DEF EditOps
  <2>2. CASE ~ApproveRead(p)
    BY <1>0, <1>3, <2>2 DEF Answer, EditCommit, ApproveCommit, FinalizeCommit, RetryCommit,
                           Answered, NoRequest, TypeOK
  <2> QED BY <2>1, <2>2
<1>4. CASE Recover \/ Crash \/ (\E j \in DOMAIN jobs : Claim(j)) \/ JobRaises \/ EndLost \/ JobStep
  BY <1>4 DEF Recover, Crash, Claim, JobRaises, EndLost, JobStep, Load, Reset, BuildRollup, RecordExamine, End,
              NoRequest, EditOps
<1>5. ASSUME NEW t \in tasks,
             ClearStage(t) \/ Challenge(t) \/ WriteFinding(t) \/ WriteFallback(t) \/ TaskRaises(t)
      PROVE  Rest
  BY <1>0, <1>5 DEF ClearStage, Challenge, WriteFinding, WriteFallback, TaskRaises
<1>6. CASE UNCHANGED vars
  BY <1>6 DEF vars
<1> QED BY <1>1, <1>2, <1>3, <1>4, <1>5, <1>6 DEF Next, TaskStep

\* The requests that are open after a step keep answers, too: only EditCheck opens
\* an edit.
LEMMA EditsKeepAnswers ==
  ASSUME TypeOK, RollupInv, [Next]_vars
  PROVE  \A q \in Client : request'[q].op \in EditOps => KeepsAnswer(request'[q].old, request'[q].new)
<1>0. \A q \in Client : request[q].op \in EditOps => KeepsAnswer(request[q].old, request[q].new)
  BY DEF RollupInv, KeepsAnswer
<1>1. ASSUME NEW p \in Client, NEW op \in EditOps, NEW c \in Control, EditCheck(p, op, c)
      PROVE  \A q \in Client : request'[q].op \in EditOps => KeepsAnswer(request'[q].old, request'[q].new)
  <2>1. PICK new \in Edited(op, record[c]) :
          Asks(p, [op |-> op, ctl |-> c, old |-> record[c], new |-> new])
    BY <1>1 DEF EditCheck
  <2>2. KeepsAnswer(record[c], new)
    BY <2>1, EditedKeepsAnswer DEF TypeOK
  <2>3. \A q \in Client : request'[q] = request[q]
                         \/ request'[q] = [op |-> op, ctl |-> c, old |-> record[c], new |-> new]
    BY <2>1 DEF Asks, TypeOK
  <2> QED BY <1>0, <2>2, <2>3
<1>2. CASE ~Edit
  <2>1. \A q \in Client : request'[q] = request[q] \/ request'[q].op \notin EditOps
    BY <1>2, OtherRequests
  <2> QED BY <1>0, <2>1
<1> QED BY <1>1, <1>2 DEF Edit

\* No step but the building of the rollup changes it, and no step takes an answer
\* away from a finding.
LEMMA RollupStep ==
  ASSUME TypeOK, RollupInv, [Next]_vars
  PROVE  RollupInv'
<1>1. /\ NotReviewed' \subseteq NotReviewed
      /\ UNCHANGED rollup \/ NotReviewed \subseteq rollup'
  <2>1. CASE UNCHANGED <<record, rollup>>
    BY <2>1 DEF NotReviewed
  <2>2. ASSUME NEW q \in Client, EditCommit(q)
        PROVE  NotReviewed' \subseteq NotReviewed /\ UNCHANGED rollup
    <3> DEFINE e == request[q]  r == Flush(record[e.ctl], e.old, e.new)
    <3>1. e \in Edits
      BY <2>2, RequestKinds DEF EditCommit, TypeOK
    <3>2. e.ctl \in Control /\ record[e.ctl] \in Records /\ r \in Records
      BY <3>1, FlushType DEF Edits, TypeOK
    <3>3. KeepsAnswer(e.old, e.new)
      BY <2>2 DEF RollupInv, KeepsAnswer, EditCommit
    <3>4. KeepsAnswer(record[e.ctl], r)
      BY <3>3 DEF KeepsAnswer, Flush
    <3> QED BY <2>2, <3>2, <3>4, WriteKeepsAnswer DEF EditCommit
  <2>3. CASE Reset
    BY <2>3 DEF Reset, TypeOK, Records, NotReviewed
  <2>4. CASE RecordExamine
    BY <2>4 DEF RecordExamine, TypeOK, Records, NotReviewed
  <2>5. CASE BuildRollup
    BY <2>5 DEF BuildRollup, NotReviewed
  <2>6. ASSUME NEW t \in tasks, ClearStage(t) \/ Challenge(t) \/ WriteFinding(t) \/ WriteFallback(t)
        PROVE  NotReviewed' \subseteq NotReviewed /\ UNCHANGED rollup
    <3> DEFINE r == record[t.ctl]
    <3>0. /\ t.ctl \in Control /\ r \in Records
          /\ \A d \in {"none", "open"} : [r EXCEPT !.dissent = d] \in Records
                                       /\ KeepsAnswer(r, [r EXCEPT !.dissent = d])
      <4>1. t.ctl \in Control /\ r \in Records
        BY DEF TypeOK, Tasks
      <4> HIDE DEF r
      <4> QED BY <4>1 DEF Records, KeepsAnswer
    <3>1. PICK new \in Records : KeepsAnswer(r, new) /\ Write(t.ctl, new)
      <4>1. CASE ClearStage(t)
        BY <3>0, <4>1 DEF ClearStage
      <4>2. CASE Challenge(t)
        BY <3>0, <4>2 DEF Challenge
      <4>3. CASE WriteFinding(t)
        BY <3>0, <4>3, RewrittenType, RewrittenKeepsAnswer DEF WriteFinding
      <4>4. CASE WriteFallback(t)
        <5>1. PICK s \in Answers :
                Write(t.ctl, Rewritten(r, s)) \/ Write(t.ctl, [Rewritten(r, s) EXCEPT !.dissent = "none"])
          BY <4>4 DEF WriteFallback
        <5>2. Rewritten(r, s) \in Records /\ [Rewritten(r, s) EXCEPT !.dissent = "none"] \in Records
          BY <3>0, RewrittenType DEF Records
        <5> QED BY <3>0, <5>1, <5>2, RewrittenKeepsAnswer
      <4> QED BY <2>6, <4>1, <4>2, <4>3, <4>4
    <3>2. UNCHANGED rollup
      BY <2>6 DEF ClearStage, Challenge, WriteFinding, WriteFallback
    <3> QED BY <3>0, <3>1, <3>2, WriteKeepsAnswer
  <2>7. \/ UNCHANGED <<record, rollup>> \/ Reset \/ RecordExamine \/ BuildRollup
        \/ \E q \in Client : EditCommit(q)
        \/ \E t \in tasks : ClearStage(t) \/ Challenge(t) \/ WriteFinding(t) \/ WriteFallback(t)
    BY DEF Next, vars, Edit, EditCheck, Approve, ApproveCheck, FinalizeCheck, RetryCheck, Answer,
           ApproveRead, ApproveCommit, FinalizeCommit, RetryCommit, Recover, Crash, Claim,
           JobStep, Load, End, EndLost, TaskStep, TaskRaises, JobRaises
  <2> QED BY <2>1, <2>2, <2>3, <2>4, <2>5, <2>6, <2>7
<1>2. NotReviewed' \subseteq rollup'
  BY <1>1 DEF RollupInv, RollupHidesNone
<1> QED BY <1>2, EditsKeepAnswers DEF RollupInv, RollupHidesNone, KeepsAnswer

\* Every finding that has no answer is counted as not reviewed by the stored
\* rollup, whatever people and retries have done since it was built.
THEOREM RollupHides == Spec => []RollupHidesNone
<1>1. RollupInv => RollupHidesNone
  BY DEF RollupInv
<1> QED BY <1>1, TypeCorrect, RollupInit, RollupStep, PTL DEF Spec

----------------------------------------------------------------------------
(* A finalized assessment at rest stays as it is.                          *)

LEMMA QuietStep ==
  ASSUME TypeOK, Quiet, [Next]_vars
  PROVE  Quiet' /\ UNCHANGED <<content, approvals, finalization>>
<1> USE DEF Quiet, Mutable
<1>1. ~Edit /\ ~Approve /\ ~(\E q \in Client, u \in User : FinalizeCheck(q, u))
      /\ ~(\E q \in Client : RetryCheck(q))
  BY DEF Edit, EditCheck, Approve, ApproveCheck, FinalizeCheck, RetryCheck
<1>2. ASSUME NEW q \in Client, Answer(q)
      PROVE  Quiet' /\ UNCHANGED <<content, approvals, finalization>>
  <2>1. FinalizeCommit(q) \/ RetryCommit(q)
    BY <1>2 DEF Answer, EditCommit, ApproveRead, ApproveCommit
  <2>2. \A p \in Client : request'[p] = request[p] \/ request'[p].op = "none"
    BY <2>1 DEF FinalizeCommit, RetryCommit, Answered, TypeOK, NoRequest
  <2>3. "none" \notin EditOps \cup {"approve", "insert"}
    BY DEF EditOps
  <2> QED BY <2>1, <2>2, <2>3 DEF FinalizeCommit, RetryCommit
<1>3. CASE Recover \/ Crash \/ (\E j \in DOMAIN jobs : Claim(j)) \/ JobRaises \/ EndLost
  <2>1. retry'.pc \in {"idle", "claimed", "failing"} \/ retry' = retry
    <3>1. CASE JobRaises
      <4>1. retry \in [pc : {"claimed", "reset", "gather", "record", "done", "failing"},
                       job : DOMAIN jobs, loaded : SUBSET Control]
        BY <3>1 DEF JobRaises, AtRetry, TypeOK, NoRetry
      <4> QED BY <3>1, <4>1 DEF JobRaises
    <3>2. CASE Recover
      BY <3>2 DEF Recover
    <3>3. CASE Crash
      BY <3>3 DEF Crash, NoRetry
    <3>4. ASSUME NEW j \in DOMAIN jobs, Claim(j) PROVE retry'.pc = "claimed"
      BY <3>4, SMT DEF Claim, NoRetry
    <3>5. CASE EndLost
      BY <3>5 DEF EndLost, NoRetry
    <3> QED BY <1>3, <3>1, <3>2, <3>3, <3>4, <3>5
  <2> QED BY <1>3, <2>1 DEF Recover, Crash, Claim, JobRaises, EndLost
<1>4. CASE JobStep
  <2>1. Load \/ End
    BY <1>4 DEF JobStep, Reset, BuildRollup, RecordExamine, AtRetry
  <2>2. retry'.pc \in {"idle", "failing"}
    BY <2>1 DEF Load, End, NoRetry, AtRetry, TypeOK
  <2> QED BY <2>1, <2>2 DEF Load, End
<1>5. ~TaskStep /\ ~(\E t \in tasks : TaskRaises(t))
  BY DEF TaskStep
<1>6. CASE UNCHANGED vars
  BY <1>6 DEF vars
<1> QED BY <1>1, <1>2, <1>3, <1>4, <1>5, <1>6 DEF Next

\* A finalized assessment with nothing in flight is never changed again, neither
\* by people nor by retry jobs that are still queued.
THEOREM QuietRecordForGood == Spec => QuietRecordStays
<1>1. TypeOK /\ [Next]_vars => [Quiet => Quiet' /\ UNCHANGED <<content, approvals, finalization>>]_vars
  BY QuietStep
<1> QED BY <1>1, TypeCorrect, PTL DEF Spec, QuietRecordStays
=============================================================================
