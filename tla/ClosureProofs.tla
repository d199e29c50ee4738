--------------------------- MODULE ClosureProofs ---------------------------
(***************************************************************************)
(* Theorems about ClosureWorkflow for every set of sessions, files,        *)
(* documents, roles held and clients, and every demand on them.            *)
(***************************************************************************)
EXTENDS ClosureWorkflow, SequenceTheorems, TLAPS

USE DEF rows

----------------------------------------------------------------------------
(* Types.                                                                  *)

\* What a request carries follows from its operation.
LEMMA RequestKinds ==
  ASSUME NEW r \in Requests
  PROVE  /\ r.op \in {"answer", "complete"} => r \in Visits
         /\ r.op = "generate" => r \in Generations
         /\ r.op = "advance" => r \in Advances
         /\ r.op = "decide" => r \in Decisions
BY DEF Requests, NoRequest, Visits, Generations, Advances, Decisions

LEMMA RequestTyped ==
  ASSUME TypeOK, NEW q \in Client
  PROVE  request[q] \in Requests
BY DEF TypeOK

\* Asking, going on and answering keep the type of the requests.
LEMMA RequestType ==
  ASSUME TypeOK, NEW q \in Client, NEW r \in Requests,
         Ask(q, r) \/ Proceed(q, r) \/ Answered(q)
  PROVE  request' \in [Client -> Requests]
BY DEF TypeOK, Ask, Proceed, Answered, Requests

\* Spending leaves the rest of the demand as it is, and races are of documents and sessions.
LEMMA SpendType ==
  ASSUME TypeOK, NEW what \in {"generations", "decisions", "faults"}, Spend(what)
  PROVE  demand' \in Asks
<1>1. demand \in Asks /\ demand[what] \in Nat
  BY DEF TypeOK, Asks
<1>2. demand[what] - 1 \in Nat
  BY <1>1 DEF Spend
<1>3. \A n \in Nat, x \in Asks : /\ [x EXCEPT !.generations = n] \in Asks
                               /\ [x EXCEPT !.decisions = n] \in Asks
                               /\ [x EXCEPT !.faults = n] \in Asks
  BY DEF Asks
<1>4. CASE what = "generations"
  BY <1>1, <1>2, <1>3, <1>4 DEF Spend
<1>5. CASE what = "decisions"
  BY <1>1, <1>2, <1>3, <1>5 DEF Spend
<1>6. CASE what = "faults"
  BY <1>1, <1>2, <1>3, <1>6 DEF Spend
<1> QED BY <1>4, <1>5, <1>6

LEMMA MeetType ==
  ASSUME TypeOK, \/ \E d \in Doc : Meet(d)
                 \/ \E s \in Session : MeetOn(s)
  PROVE  raced' \in [docs : SUBSET Doc, sessions : SUBSET Session]
BY DEF TypeOK, Meet, MeetOn

LEMMA PlanTyped ==
  ASSUME TypeOK, NEW p \in demand.plans
  PROVE  p \in Seq(File)
BY DEF TypeOK, Asks

LEMMA NoRequestTyped == NoRequest \in Requests
BY DEF Requests

LEMMA NoApprovalTyped == NoApproval \in Approvals
BY DEF NoApproval, Approvals, Unmarked, Marks, Overalls, Eligibilities, Complete

LEMMA InsertedTyped ==
  ASSUME NEW s \in Session, NEW chain \in {"draft", "default"}, NEW a \in Approvals
  PROVE  [a EXCEPT !.row = "held", !.session = s, !.chain = chain, !.step = 1] \in Approvals
<1>1. 1 \in 0..Complete
  BY DEF Complete
<1> QED BY <1>1 DEF Approvals

LEMMA NoDocumentTyped == NoDocument \in Documents
BY DEF NoDocument, Documents

LEMMA InitType == Init => TypeOK
<1> SUFFICES ASSUME Init PROVE TypeOK
  OBVIOUS
<1>1. plan \in [Session -> Seq(File)]
  <2>1. << >> \in Seq(File)
    OBVIOUS
  <2> QED BY <2>1 DEF Init
<1>2. demand \in Asks
  BY DemandAssumption DEF Init
<1> QED BY <1>1, <1>2, NoRequestTyped, NoApprovalTyped, NoDocumentTyped DEF Init, TypeOK

\* Starting, answering, closing and deleting a session keeps the types.
LEMMA SessionType ==
  ASSUME TypeOK,
         \/ \E s \in Session : Start(s) \/ Delete(s)
         \/ \E q \in Client, s \in Session, op \in {"answer", "complete"} : Visit(q, s, op)
         \/ \E q \in Client : AnswerCommit(q) \/ CompleteCommit(q)
  PROVE  TypeOK'
<1>1. ASSUME NEW s \in Session, Start(s) PROVE TypeOK'
  BY <1>1 DEF TypeOK, Start, Statuses
<1>2. ASSUME NEW s \in Session, Delete(s) PROVE TypeOK'
  <2>1. approval' \in [Doc -> Approvals]
    BY <1>2, NoApprovalTyped DEF TypeOK, Delete
  <2>2. plan' \in [Session -> Seq(File)]
    <3>1. << >> \in Seq(File)
      OBVIOUS
    <3> QED BY <1>2, <3>1 DEF TypeOK, Delete
  <2> QED BY <1>2, <2>1, <2>2 DEF TypeOK, Delete
<1>3. ASSUME NEW q \in Client, NEW s \in Session, NEW op \in {"answer", "complete"}, Visit(q, s, op)
      PROVE  TypeOK'
  <2>1. [op |-> op, session |-> s, seen |-> session[s]] \in Requests
    BY <1>3 DEF TypeOK, Visit, Open, Requests, Visits
  <2>2. request' \in [Client -> Requests]
    BY <1>3, <2>1, RequestType DEF Visit
  <2> QED BY <1>3, <2>2 DEF TypeOK, Visit
<1>4. ASSUME NEW q \in Client, AnswerCommit(q) PROVE TypeOK'
  <2>1. request[q] \in Visits
    BY <1>4, RequestTyped, RequestKinds DEF AnswerCommit
  <2>2. request' \in [Client -> Requests]
    BY <1>4, RequestType, NoRequestTyped DEF AnswerCommit
  <2>3. session' \in [Session -> {"none", "deleted"} \cup Statuses]
    BY <1>4, <2>1 DEF TypeOK, AnswerCommit, Flush, Visits, Statuses
  <2>4. plan' \in [Session -> Seq(File)]
    BY <1>4, <2>1, PlanTyped DEF TypeOK, AnswerCommit, Visits
  <2> QED BY <1>4, <2>2, <2>3, <2>4 DEF TypeOK, AnswerCommit
<1>5. ASSUME NEW q \in Client, CompleteCommit(q) PROVE TypeOK'
  <2>1. request[q] \in Visits
    BY <1>5, RequestTyped, RequestKinds DEF CompleteCommit
  <2>2. request' \in [Client -> Requests]
    BY <1>5, RequestType, NoRequestTyped DEF CompleteCommit
  <2>3. session' \in [Session -> {"none", "deleted"} \cup Statuses]
    BY <1>5, <2>1 DEF TypeOK, CompleteCommit, Flush, Visits, Statuses
  <2> QED BY <1>5, <2>2, <2>3 DEF TypeOK, CompleteCommit
<1> QED BY <1>1, <1>2, <1>3, <1>4, <1>5

LEMMA GenerationTyped ==
  ASSUME NEW s \in Session, NEW chain \in {"draft", "default"}, NEW p \in Seq(File),
         NEW seen \in Statuses, NEW ids \in SUBSET Doc
  PROVE  Generation(s, chain, p, seen, ids) \in Requests
BY DEF Generation, Requests, Generations

\* A generation keeps the types, whichever step of it comes next.
LEMMA GenerateType ==
  ASSUME TypeOK,
         \/ \E q \in Client, s \in Session : Generate(q, s) \/ \E p \in demand.plans : StartDraft(q, s, p)
         \/ \E q \in Client : \/ SaveRead(q) \/ SaveCommit(q) \/ SaveFails(q)
                             \/ InsertApproval(q) \/ GenerateCommit(q) \/ Die(q)
  PROVE  TypeOK'
<1>1. ASSUME NEW q \in Client, NEW s \in Session, Generate(q, s) PROVE TypeOK'
  <2>1. Generation(s, "default", plan[s], session[s], listed[s]) \in Requests
    BY <1>1, GenerationTyped DEF TypeOK, Generate, Open
  <2>2. request' \in [Client -> Requests]
    BY <1>1, <2>1, RequestType DEF Generate
  <2>3. demand' \in Asks /\ raced' \in [docs : SUBSET Doc, sessions : SUBSET Session]
    BY <1>1, SpendType, MeetType DEF Generate
  <2> QED BY <1>1, <2>2, <2>3 DEF TypeOK, Generate
<1>2. ASSUME NEW q \in Client, NEW s \in Session, NEW p \in demand.plans, StartDraft(q, s, p) PROVE TypeOK'
  <2>1. p \in Seq(File)
    BY PlanTyped
  <2>2. Generation(s, "draft", p, "artifact_pending", {}) \in Requests
    BY <2>1, GenerationTyped DEF Statuses
  <2>3. request' \in [Client -> Requests]
    BY <1>2, <2>2, RequestType DEF StartDraft
  <2>4. demand' \in Asks
    BY <1>2, SpendType DEF StartDraft
  <2> QED BY <1>2, <2>1, <2>3, <2>4 DEF TypeOK, StartDraft, Statuses
<1>3. ASSUME NEW q \in Client, SaveRead(q) PROVE TypeOK'
  <2>1. request[q] \in Generations
    BY <1>3, RequestTyped, RequestKinds DEF SaveRead, Generating
  <2>2. [request[q] EXCEPT !.stage = "save",
                           !.old = {d \in Doc : Earlier(d, Head(request[q].todo))}] \in Requests
    BY <1>3, <2>1 DEF SaveRead, Requests, Generations
  <2>3. request' \in [Client -> Requests]
    BY <1>3, <2>2, RequestType DEF SaveRead
  <2> QED BY <1>3, <2>3 DEF TypeOK, SaveRead
<1>4. ASSUME NEW q \in Client, SaveCommit(q) PROVE TypeOK'
  <2> DEFINE r == request[q]
  <2>1. r \in Generations
    BY <1>4, RequestTyped, RequestKinds DEF SaveCommit, Generating
  <2>2. PICK new \in Doc :
          /\ document' = [d \in Doc |->
                IF d = new        THEN [file |-> Head(r.todo), status |-> "draft", eligible |-> FALSE]
                ELSE IF d \in r.old THEN [NoDocument EXCEPT !.status = "deleted"]
                ELSE document[d]]
          /\ Proceed(q, [r EXCEPT !.stage = "insert", !.doc = new, !.old = {}])
    BY <1>4 DEF SaveCommit
  <2>3. Head(r.todo) \in File
    <3>1. r.todo \in Seq(File) /\ r.todo # << >>
      BY <1>4, <2>1 DEF SaveCommit, Generating, Generations
    <3> QED BY <3>1
  <2>4. document' \in [Doc -> Documents]
    BY <2>2, <2>3 DEF TypeOK, Documents, NoDocument
  <2>5. [r EXCEPT !.stage = "insert", !.doc = new, !.old = {}] \in Requests
    BY <1>4, <2>1, DocAssumption DEF SaveCommit, Generating, Requests, Generations, NoDoc
  <2>6. request' \in [Client -> Requests]
    BY <2>2, <2>5, RequestType
  <2>7. approval' \in [Doc -> Approvals]
    BY <1>4, NoApprovalTyped DEF TypeOK, SaveCommit
  <2> QED BY <1>4, <2>4, <2>6, <2>7 DEF TypeOK, SaveCommit
<1>5. ASSUME NEW q \in Client, SaveFails(q) PROVE TypeOK'
  <2>1. request[q] \in Generations /\ request[q].todo # << >>
    BY <1>5, RequestTyped, RequestKinds DEF SaveFails, Generating, Generations
  <2>2. Tail(request[q].todo) \in Seq(File)
    BY <2>1 DEF Generations
  <2>3. [request[q] EXCEPT !.stage = "read", !.todo = Tail(@), !.old = {}, !.doc = NoDoc] \in Requests
    BY <2>1, <2>2 DEF Requests, Generations
  <2>4. request' \in [Client -> Requests]
    BY <1>5, <2>3, RequestType DEF SaveFails
  <2>5. demand' \in Asks /\ UNCHANGED <<session, plan, listed, document, approval, signed, raced>>
    BY <1>5, SpendType DEF SaveFails
  <2> QED BY <2>4, <2>5 DEF TypeOK
<1>6. ASSUME NEW q \in Client, RollBack(q)
      PROVE  request' \in [Client -> Requests] /\ approval' \in [Doc -> Approvals]
  BY <1>6, RequestType, NoRequestTyped, NoApprovalTyped DEF TypeOK, RollBack
<1>7. ASSUME NEW q \in Client, InsertApproval(q) PROVE TypeOK'
  <2> DEFINE r == request[q]
             row == [NoApproval EXCEPT !.row = "held", !.session = r.session,
                                       !.chain = r.chain, !.step = 1]
  <2>1. r \in Generations /\ r.stage = "insert"
    BY <1>7, RequestTyped, RequestKinds DEF InsertApproval, Generating
  <2>2. CASE Stored(r.doc) /\ Open(r.session)
    <3>0. r.session \in Session /\ r.chain \in {"draft", "default"}
      BY <2>1 DEF Generations
    <3>1. row \in Approvals
      BY <3>0, NoApprovalTyped, InsertedTyped
    <3>2. Tail(r.todo) \in Seq(File) /\ r.doc \in Doc
      BY <2>1 DEF Generations
    <3>3. [r EXCEPT !.stage = "read", !.todo = Tail(@), !.doc = NoDoc,
                    !.new = @ \cup {r.doc}, !.listed = @ \cup {r.doc}] \in Requests
      BY <2>1, <3>2 DEF Requests, Generations
    <3>4. request' \in [Client -> Requests]
      BY <1>7, <2>2, <3>3, RequestType DEF InsertApproval
    <3>5. approval' \in [Doc -> Approvals]
      BY <1>7, <2>2, <3>1 DEF InsertApproval, TypeOK
    <3> QED BY <1>7, <2>2, <3>4, <3>5 DEF InsertApproval, TypeOK
  <2>3. CASE ~(Stored(r.doc) /\ Open(r.session))
    BY <1>6, <1>7, <2>3 DEF InsertApproval, RollBack, TypeOK
  <2> QED BY <2>2, <2>3
<1>8. ASSUME NEW q \in Client, GenerateCommit(q) PROVE TypeOK'
  <2> DEFINE r == request[q]
  <2>1. r \in Generations
    BY <1>8, RequestTyped, RequestKinds DEF GenerateCommit, Generating
  <2>2. CASE Open(r.session)
    <3>1. session' \in [Session -> {"none", "deleted"} \cup Statuses]
      <4>1. session' = [session EXCEPT ![r.session] = Flush(@, r.seen, "in_approval")]
        BY <1>8, <2>2 DEF GenerateCommit
      <4> QED BY <4>1 DEF TypeOK, Flush, Statuses
    <3>2. listed' \in [Session -> SUBSET Doc]
      BY <1>8, <2>1, <2>2 DEF GenerateCommit, TypeOK, Generations
    <3>3. approval' \in [Doc -> Approvals]
      <4>1. approval' = [d \in Doc |-> IF d \in r.new THEN [approval[d] EXCEPT !.row = "live"]
                                                     ELSE approval[d]]
        BY <1>8, <2>2 DEF GenerateCommit
      <4>2. \A a \in Approvals : [a EXCEPT !.row = "live"] \in Approvals
        BY DEF Approvals
      <4> QED BY <4>1, <4>2 DEF TypeOK
    <3>4. request' \in [Client -> Requests]
      BY <1>8, <2>2, RequestType, NoRequestTyped DEF GenerateCommit
    <3> QED BY <1>8, <2>2, <3>1, <3>2, <3>3, <3>4 DEF GenerateCommit, TypeOK
  <2>3. CASE ~Open(r.session)
    BY <1>6, <1>8, <2>3 DEF GenerateCommit, RollBack, TypeOK
  <2> QED BY <2>2, <2>3
<1>9. ASSUME NEW q \in Client, Die(q) PROVE TypeOK'
  <2>1. demand' \in Asks /\ UNCHANGED <<session, plan, listed, document, signed, raced>>
    BY <1>9, SpendType DEF Die, RollBack
  <2> QED BY <1>6, <1>9, <2>1 DEF Die, TypeOK
<1> QED BY <1>1, <1>2, <1>3, <1>4, <1>5, <1>7, <1>8, <1>9

\* A signature writes values that the columns may hold: the step it checked lies
\* in the chain, so the next lies in it or at its end.
LEMMA SignedTyped ==
  ASSUME NEW a \in Approvals, NEW r \in Advances, NEW next \in {r.step, r.step + 1},
         NEW overall \in Overalls, NEW m \in {"approved", "rejected"}
  PROVE  [a EXCEPT !.step = Flush(@, r.step, next),
                   !.overall = Flush(@, r.seen, overall),
                   !.marks = Flush(@, [r.marks EXCEPT ![r.step] = m], [r.marks EXCEPT ![r.step] = m])]
           \in Approvals
<1>1. next \in 0..Complete
  BY DEF Advances, Complete
<1>2. Flush(a.step, r.step, next) \in 0..Complete
  BY <1>1 DEF Approvals, Flush
<1>3. Flush(a.overall, r.seen, overall) \in Overalls
  BY DEF Approvals, Flush
<1>4. Flush(a.marks, [r.marks EXCEPT ![r.step] = m], [r.marks EXCEPT ![r.step] = m]) = a.marks
  BY DEF Flush
<1> QED BY <1>2, <1>3, <1>4 DEF Approvals

\* Signatures and decisions keep the types.
LEMMA ApprovalType ==
  ASSUME TypeOK,
         \/ \E q \in Client, d \in Doc, role \in Staffed, action \in {"approve", "reject"} :
              AdvanceCheck(q, d, role, action)
         \/ \E q \in Client, d \in Doc, decision \in {"eligible", "rejected"} :
              DecideCheck(q, d, decision)
         \/ \E q \in Client : AdvanceCommit(q) \/ DecideLoad(q) \/ DecideCommit(q)
  PROVE  TypeOK'
<1>1. ASSUME NEW q \in Client, NEW d \in Doc, NEW role \in Staffed,
             NEW action \in {"approve", "reject"}, AdvanceCheck(q, d, role, action)
      PROVE  TypeOK'
  <2> DEFINE r == [op |-> "advance", doc |-> d, by |-> role, action |-> action,
                   step |-> approval[d].step, seen |-> approval[d].overall,
                   marks |-> approval[d].marks]
  <2>1. approval[d] \in Approvals
    BY DEF TypeOK
  <2>2. approval[d].step \in 0..3
    BY <1>1, <2>1 DEF AdvanceCheck, Approvals, Complete
  <2>3. r \in Requests
    BY <2>1, <2>2 DEF Requests, Advances, Approvals
  <2>4. request' \in [Client -> Requests]
    BY <1>1, <2>3, RequestType DEF AdvanceCheck
  <2>5. demand' \in Asks /\ UNCHANGED <<session, plan, listed, document, approval, signed>>
    BY <1>1, SpendType DEF AdvanceCheck
  <2>6. raced' \in [docs : SUBSET Doc, sessions : SUBSET Session]
    BY <1>1, MeetType DEF AdvanceCheck
  <2> QED BY <2>4, <2>5, <2>6 DEF TypeOK
<1>2. ASSUME NEW q \in Client, NEW d \in Doc, NEW decision \in {"eligible", "rejected"},
             DecideCheck(q, d, decision)
      PROVE  TypeOK'
  <2>1. approval[d] \in Approvals
    BY DEF TypeOK
  <2>2. [op |-> "decide", stage |-> "document", doc |-> d, decision |-> decision,
         seen |-> approval[d].eligibility] \in Requests
    BY <2>1 DEF Requests, Decisions, Approvals
  <2>3. request' \in [Client -> Requests]
    BY <1>2, <2>2, RequestType DEF DecideCheck
  <2>4. demand' \in Asks /\ UNCHANGED <<session, plan, listed, document, approval, signed>>
    BY <1>2, SpendType DEF DecideCheck
  <2>6. raced' \in [docs : SUBSET Doc, sessions : SUBSET Session]
    BY <1>2, MeetType DEF DecideCheck
  <2> QED BY <2>3, <2>4, <2>6 DEF TypeOK
<1>3. ASSUME NEW q \in Client, AdvanceCommit(q) PROVE TypeOK'
  <2> DEFINE r == request[q]
  <2>1. r \in Advances
    BY <1>3, RequestTyped, RequestKinds DEF AdvanceCommit
  <2>2. request' \in [Client -> Requests]
    BY <1>3, RequestType, NoRequestTyped DEF AdvanceCommit
  <2>3. CASE Live(r.doc)
    <3>1. approval' \in [Doc -> Approvals]
      <4> DEFINE next == IF r.action = "reject" THEN r.step ELSE r.step + 1
                 overall == CASE r.action = "reject" -> "rejected"
                              [] next = Complete -> "approved" [] OTHER -> "in_review"
                 m == IF r.action = "reject" THEN "rejected" ELSE "approved"
      <4>1. approval' = [approval EXCEPT
               ![r.doc].step = Flush(@, r.step, next),
               ![r.doc].overall = Flush(@, r.seen, overall),
               ![r.doc].marks = Flush(@, [r.marks EXCEPT ![r.step] = m], [r.marks EXCEPT ![r.step] = m])]
        BY <1>3, <2>3 DEF AdvanceCommit
      <4>2. approval[r.doc] \in Approvals /\ r.doc \in Doc
        BY <2>1 DEF TypeOK, Advances
      <4>3. /\ next \in {r.step, r.step + 1}
            /\ overall \in Overalls
            /\ m \in {"approved", "rejected"}
        BY DEF Overalls
      <4> HIDE DEF next, overall, m
      <4> QED BY <2>1, <4>1, <4>2, <4>3, SignedTyped DEF TypeOK
    <3>2. signed' \in [Doc -> [Step -> SUBSET Staffed]]
      <4>1. r.doc \in Doc /\ r.by \in Staffed
        BY <2>1 DEF Advances
      <4>2. signed' = signed \/ signed' = [signed EXCEPT ![r.doc][r.step] = @ \cup {r.by}]
        BY <1>3, <2>3 DEF AdvanceCommit
      <4>3. signed[r.doc] \in [Step -> SUBSET Staffed]
        BY <4>1 DEF TypeOK
      <4>4. [signed[r.doc] EXCEPT ![r.step] = @ \cup {r.by}] \in [Step -> SUBSET Staffed]
        BY <4>1, <4>3
      <4> QED BY <4>1, <4>2, <4>4 DEF TypeOK
    <3> QED BY <1>3, <2>2, <3>1, <3>2 DEF AdvanceCommit, TypeOK
  <2>4. CASE ~Live(r.doc)
    BY <1>3, <2>2, <2>4 DEF AdvanceCommit, TypeOK
  <2> QED BY <2>3, <2>4
<1>4. ASSUME NEW q \in Client, DecideLoad(q) PROVE TypeOK'
  <2> DEFINE r == request[q]
  <2>1. r \in Decisions
    BY <1>4, RequestTyped, RequestKinds DEF DecideLoad
  <2>2. [op |-> "decide", stage |-> "commit", doc |-> r.doc, decision |-> r.decision,
         seen |-> r.seen, loaded |-> document[r.doc]] \in Requests
    BY <2>1 DEF TypeOK, Requests, Decisions
  <2>3. request' \in [Client -> Requests]
    BY <1>4, <2>2, RequestType, NoRequestTyped DEF DecideLoad
  <2> QED BY <1>4, <2>3 DEF DecideLoad, TypeOK
<1>5. ASSUME NEW q \in Client, DecideCommit(q) PROVE TypeOK'
  <2> DEFINE r == request[q]
             status == IF r.decision = "eligible" THEN "approved" ELSE "rejected"
  <2>1. r \in Decisions
    BY <1>5, RequestTyped, RequestKinds DEF DecideCommit
  <2>2. request' \in [Client -> Requests]
    BY <1>5, RequestType, NoRequestTyped DEF DecideCommit
  <2>3. CASE Live(r.doc) /\ Stored(r.doc)
    <3>1. approval' = [approval EXCEPT ![r.doc].eligibility = Flush(@, r.seen, r.decision)]
      BY <1>5, <2>3 DEF DecideCommit
    <3>2. document' = [document EXCEPT
                         ![r.doc].status = Flush(@, r.loaded.status, status),
                         ![r.doc].eligible = Flush(@, r.loaded.eligible, r.decision = "eligible")]
      BY <1>5, <2>3 DEF DecideCommit
    <3>3. r.doc \in Doc /\ r.decision \in {"eligible", "rejected"}
      BY <2>1 DEF Decisions
    <3>4. approval' \in [Doc -> Approvals]
      <4>1. \A a \in Approvals, e \in Eligibilities : [a EXCEPT !.eligibility = e] \in Approvals
        BY DEF Approvals
      <4>2. approval[r.doc] \in Approvals
        BY <3>3 DEF TypeOK
      <4>3. Flush(approval[r.doc].eligibility, r.seen, r.decision) \in Eligibilities
        BY <3>3, <4>2 DEF Approvals, Flush, Eligibilities
      <4> QED BY <3>1, <4>1, <4>2, <4>3 DEF TypeOK
    <3>5. document' \in [Doc -> Documents]
      <4> DEFINE flushed == Flush(document[r.doc].status, r.loaded.status, status)
                 eligible == Flush(document[r.doc].eligible, r.loaded.eligible, r.decision = "eligible")
      <4>1. document[r.doc] \in Documents
        BY <3>3 DEF TypeOK
      <4>2. /\ flushed \in {"none", "draft", "approved", "rejected", "deleted"}
            /\ eligible \in BOOLEAN
        BY <4>1 DEF Documents, Flush
      <4>3. document' = [document EXCEPT ![r.doc].status = flushed, ![r.doc].eligible = eligible]
        BY <3>2
      <4> HIDE DEF flushed, eligible
      <4>4. [document[r.doc] EXCEPT !.status = flushed, !.eligible = eligible] \in Documents
        BY <4>1, <4>2 DEF Documents
      <4> QED BY <3>3, <4>3, <4>4 DEF TypeOK
    <3> QED BY <1>5, <2>2, <3>4, <3>5 DEF DecideCommit, TypeOK
  <2>4. CASE ~(Live(r.doc) /\ Stored(r.doc))
    BY <1>5, <2>2, <2>4 DEF DecideCommit, TypeOK
  <2> QED BY <2>3, <2>4
<1> QED BY <1>1, <1>2, <1>3, <1>4, <1>5

\* Every step keeps the types.
LEMMA StepType == TypeOK /\ [Next]_vars => TypeOK'
<1> SUFFICES ASSUME TypeOK, [Next]_vars PROVE TypeOK'
  OBVIOUS
<1>1. CASE Next
  BY <1>1, SessionType, GenerateType, ApprovalType DEF Next, Serve
<1>2. CASE UNCHANGED vars
  BY <1>2 DEF vars, TypeOK
<1> QED BY <1>1, <1>2

\* Every variable keeps its type, whatever requests and faults come.
THEOREM TypeCorrect == Spec => []TypeOK
<1>1. Init => TypeOK
  BY InitType
<1>2. TypeOK /\ [Next]_vars => TypeOK'
  BY StepType
<1> QED BY <1>1, <1>2, PTL DEF Spec

----------------------------------------------------------------------------
(* References: a document id gets one approval in its life.                *)

\* What a request q may do to approvals and to references without giving a
\* document a second approval.
RowsKept ==
    \A d \in Doc :
        \/ approval'[d].row = approval[d].row
        \/ approval'[d].row = "none" /\ \A p \in Client : ~Holding(p, d)'
        \/ /\ approval[d].row = "held" /\ approval'[d].row = "live"
           /\ \A p \in Client : ~Holding(p, d)'
IdsKept == \A d \in Doc : document'[d].status = "none" => document[d].status = "none"
ReferencesKept(q) ==
    \A p \in Client, d \in Doc :
        /\ Inserting(p, d)' => \/ Inserting(p, d)
                              \/ /\ p = q
                                 /\ document[d].status = "none" /\ document'[d].status # "none"
        /\ Working(p, d)' => Working(p, d) \/ Live(d)
        /\ Holding(p, d)' => Holding(p, d)

LEMMA KeptReferences ==
  ASSUME FreshInv, HeldInv, NEW q, RowsKept, IdsKept, ReferencesKept(q)
  PROVE  FreshInv' /\ HeldInv'
<1>1. \A d \in Doc : Unreferred(d) => Unreferred(d)'
  BY DEF Unreferred, RowsKept, ReferencesKept, Live
<1>2. ASSUME NEW d \in Doc, document'[d].status = "none"
      PROVE  Unreferred(d)' /\ \A p \in Client : ~Inserting(p, d)'
  BY <1>1, <1>2 DEF FreshInv, IdsKept, ReferencesKept
<1>3. ASSUME NEW d \in Doc, NEW p \in Client, Inserting(p, d)'
      PROVE  Unreferred(d)' /\ \A o \in Client \ {p} : ~Inserting(o, d)'
  BY <1>1, <1>3 DEF FreshInv, ReferencesKept
<1>4. ASSUME NEW d \in Doc, NEW p \in Client, Holding(p, d)'
      PROVE  approval'[d].row = "held" /\ \A o \in Client \ {p} : ~Holding(o, d)'
  BY <1>4 DEF HeldInv, RowsKept, ReferencesKept
<1> QED BY <1>2, <1>3, <1>4 DEF FreshInv, HeldInv

\* Requests other than the one that acts keep what they refer to.
LEMMA OwnReferences ==
  ASSUME NEW q \in Client, NEW r, TypeOK, Ask(q, r) \/ Proceed(q, r) \/ (Answered(q) /\ r = NoRequest)
  PROVE  /\ request'[q] = r
         /\ \A p \in Client \ {q} : request'[p] = request[p]
BY DEF TypeOK, Ask, Proceed, Answered

\* What the acting request becomes decides what it may refer to.
LEMMA RequestKept ==
  ASSUME NEW q \in Client, NEW r, TypeOK,
         Ask(q, r) \/ Proceed(q, r) \/ (Answered(q) /\ r = NoRequest),
         r.op = "generate" =>
           \A d \in Doc :
             /\ r.stage = "insert" /\ r.doc = d =>
                  Inserting(q, d) \/ (document[d].status = "none" /\ document'[d].status # "none")
             /\ d \in r.new => Holding(q, d),
         r.op \in {"advance", "decide"} => Working(q, r.doc) \/ Live(r.doc)
  PROVE  ReferencesKept(q)
<1>1. request'[q] = r /\ \A p \in Client \ {q} : request'[p] = request[p]
  BY OwnReferences
<1> SUFFICES ASSUME NEW p \in Client, NEW d \in Doc
             PROVE  /\ Inserting(p, d)' => \/ Inserting(p, d)
                                           \/ /\ p = q
                                              /\ document[d].status = "none" /\ document'[d].status # "none"
                    /\ Working(p, d)' => Working(p, d) \/ Live(d)
                    /\ Holding(p, d)' => Holding(p, d)
  BY DEF ReferencesKept
<1>2. CASE p = q
  BY <1>1, <1>2 DEF Inserting, Generating, Working, Holding
<1>3. CASE p # q
  BY <1>1, <1>3 DEF Inserting, Generating, Working, Holding
<1> QED BY <1>2, <1>3

LEMMA AnsweredKept ==
  ASSUME NEW q \in Client, TypeOK, Answered(q)
  PROVE  ReferencesKept(q)
<1>1. NoRequest.op = "none"
  BY DEF NoRequest
<1> QED BY <1>1, RequestKept

LEMMA NothingWritten ==
  ASSUME approval' = approval, document' = document
  PROVE  RowsKept /\ IdsKept
BY DEF RowsKept, IdsKept

\* Only saving and generating approvals touch the references.
LEMMA FreshPeople ==
  ASSUME TypeOK, FreshInv, HeldInv, NEW q \in Client,
         \/ \E s \in Session, op \in {"answer", "complete"} : Visit(q, s, op)
         \/ \E s \in Session : Generate(q, s) \/ \E p \in demand.plans : StartDraft(q, s, p)
         \/ AnswerCommit(q) \/ CompleteCommit(q)
         \/ \E d \in Doc, role \in Staffed, action \in {"approve", "reject"} :
              AdvanceCheck(q, d, role, action)
         \/ \E d \in Doc, decision \in {"eligible", "rejected"} : DecideCheck(q, d, decision)
         \/ DecideLoad(q) \/ SaveRead(q) \/ SaveFails(q)
  PROVE  FreshInv' /\ HeldInv'
<1>1. approval' = approval /\ document' = document
  BY DEF Visit, Generate, StartDraft, AnswerCommit, CompleteCommit, AdvanceCheck, DecideCheck,
         DecideLoad, SaveRead, SaveFails
<1>2. ReferencesKept(q)
  <2>1. ASSUME NEW s \in Session, NEW op \in {"answer", "complete"}, Visit(q, s, op)
        PROVE  ReferencesKept(q)
    BY <2>1, RequestKept DEF Visit
  <2>2. ASSUME NEW s \in Session, Generate(q, s)
        PROVE  ReferencesKept(q)
    BY <2>2, RequestKept DEF Generate, Generation
  <2>3. ASSUME NEW s \in Session, NEW p \in demand.plans, StartDraft(q, s, p)
        PROVE  ReferencesKept(q)
    BY <2>3, RequestKept DEF StartDraft, Generation
  <2>4. CASE AnswerCommit(q) \/ CompleteCommit(q)
    BY <2>4, AnsweredKept DEF AnswerCommit, CompleteCommit
  <2>5. ASSUME NEW d \in Doc, NEW role \in Staffed, NEW action \in {"approve", "reject"},
               AdvanceCheck(q, d, role, action)
        PROVE  ReferencesKept(q)
    BY <2>5, RequestKept DEF AdvanceCheck
  <2>6. ASSUME NEW d \in Doc, NEW decision \in {"eligible", "rejected"}, DecideCheck(q, d, decision)
        PROVE  ReferencesKept(q)
    BY <2>6, RequestKept DEF DecideCheck, Decidable
  <2>7. CASE DecideLoad(q)
    <3>1. CASE Stored(request[q].doc)
      <4> DEFINE r == [op |-> "decide", stage |-> "commit", doc |-> request[q].doc,
                       decision |-> request[q].decision, seen |-> request[q].seen,
                       loaded |-> document[request[q].doc]]
      <4>1. Proceed(q, r) /\ r.op = "decide" /\ Working(q, r.doc)
        BY <2>7, <3>1 DEF DecideLoad, Working
      <4> HIDE DEF r
      <4> QED BY <4>1, RequestKept
    <3>2. CASE ~Stored(request[q].doc)
      BY <2>7, <3>2, AnsweredKept DEF DecideLoad
    <3> QED BY <3>1, <3>2
  <2>8. CASE SaveRead(q) \/ SaveFails(q)
    <3>1. request[q].op = "generate" /\ request[q] \in Generations
      BY <2>8, RequestTyped, RequestKinds DEF SaveRead, SaveFails, Generating
    <3>2. CASE SaveRead(q)
      <4> DEFINE r == [request[q] EXCEPT !.stage = "save",
                                         !.old = {d \in Doc : Earlier(d, Head(request[q].todo))}]
      <4>1. r.op = "generate" /\ r.stage = "save" /\ r.new = request[q].new
        BY <3>1 DEF Generations
      <4>2. Proceed(q, r)
        BY <3>2 DEF SaveRead
      <4> HIDE DEF r
      <4> QED BY <3>1, <4>1, <4>2, RequestKept DEF Holding
    <3>3. CASE SaveFails(q)
      <4> DEFINE r == [request[q] EXCEPT !.stage = "read", !.todo = Tail(@), !.old = {}, !.doc = NoDoc]
      <4>1. r.op = "generate" /\ r.stage = "read" /\ r.new = request[q].new
        BY <3>1 DEF Generations
      <4>2. Proceed(q, r)
        BY <3>3 DEF SaveFails
      <4> HIDE DEF r
      <4> QED BY <3>1, <4>1, <4>2, RequestKept DEF Holding
    <3> QED BY <2>8, <3>2, <3>3
  <2> QED BY <2>1, <2>2, <2>3, <2>4, <2>5, <2>6, <2>7, <2>8
<1> QED BY <1>1, <1>2, NothingWritten, KeptReferences

\* What a signature writes, over whatever the row holds by then: the step advances
\* from the one that the request has loaded.
LEMMA AdvanceWrites ==
  ASSUME TypeOK, NEW q \in Client, AdvanceCommit(q), Live(request[q].doc)
  PROVE  LET r == request[q]
             d == r.doc
         IN /\ r \in Advances
            /\ \A e \in Doc \ {d} : approval'[e] = approval[e] /\ signed'[e] = signed[e]
            /\ approval'[d].row = "live" /\ approval'[d].chain = approval[d].chain
            /\ approval'[d].session = approval[d].session /\ approval'[d].eligibility = approval[d].eligibility
            /\ approval[d].step = r.step /\ r.action = "approve" => approval'[d].step = r.step + 1
            /\ \/ approval'[d].step = approval[d].step
               \/ r.action = "approve" /\ approval'[d].step = r.step + 1
            /\ approval'[d].overall = "approved" =>
                 \/ approval[d].overall = "approved"
                 \/ r.action = "approve" /\ r.step + 1 = Complete
            /\ signed'[d] = IF r.action = "approve" THEN [signed[d] EXCEPT ![r.step] = @ \cup {r.by}]
                                                    ELSE signed[d]
<1> DEFINE r == request[q]
           d == r.doc
           next == IF r.action = "reject" THEN r.step ELSE r.step + 1
           overall == CASE r.action = "reject" -> "rejected"
                        [] next = Complete -> "approved" [] OTHER -> "in_review"
           m == IF r.action = "reject" THEN "rejected" ELSE "approved"
           marks == [r.marks EXCEPT ![r.step] = m]
<1>1. r \in Advances
  BY RequestTyped, RequestKinds DEF AdvanceCommit
<1>2. d \in Doc /\ r.step \in 0..3 /\ r.action \in {"approve", "reject"}
  BY <1>1 DEF Advances
<1>3. approval' = [approval EXCEPT ![d].step = Flush(@, r.step, next),
                                   ![d].overall = Flush(@, r.seen, overall),
                                   ![d].marks = Flush(@, marks, marks)]
  BY DEF AdvanceCommit
<1>4. approval[d] \in Approvals
  BY <1>2 DEF TypeOK
<1> HIDE DEF marks
<1>5. /\ approval'[d].row = approval[d].row /\ approval'[d].chain = approval[d].chain
      /\ approval'[d].session = approval[d].session /\ approval'[d].eligibility = approval[d].eligibility
      /\ approval'[d].step = Flush(approval[d].step, r.step, next)
      /\ approval'[d].overall = Flush(approval[d].overall, r.seen, overall)
  <2> HIDE DEF next, overall
  <2>1. approval'[d] = [approval[d] EXCEPT !.step = Flush(approval[d].step, r.step, next),
                                           !.overall = Flush(approval[d].overall, r.seen, overall),
                                           !.marks = Flush(approval[d].marks, marks, marks)]
    BY <1>2, <1>3 DEF TypeOK
  <2> QED BY <1>4, <2>1 DEF Approvals
<1>6. \A e \in Doc \ {d} : approval'[e] = approval[e]
  BY <1>2, <1>3 DEF TypeOK
<1>7. signed' = IF r.action = "reject" THEN signed ELSE [signed EXCEPT ![d][r.step] = @ \cup {r.by}]
  BY DEF AdvanceCommit
<1>8. /\ \A e \in Doc \ {d} : signed'[e] = signed[e]
      /\ signed'[d] = IF r.action = "approve" THEN [signed[d] EXCEPT ![r.step] = @ \cup {r.by}]
                                              ELSE signed[d]
  BY <1>2, <1>7 DEF TypeOK
<1>9. \/ Flush(approval[d].step, r.step, next) = approval[d].step
      \/ r.action = "approve" /\ Flush(approval[d].step, r.step, next) = r.step + 1
  BY <1>2 DEF Flush
<1>12. approval[d].step = r.step /\ r.action = "approve" => Flush(approval[d].step, r.step, next) = r.step + 1
  BY <1>2 DEF Flush
<1>10. Flush(approval[d].overall, r.seen, overall) = "approved" =>
         \/ approval[d].overall = "approved"
         \/ r.action = "approve" /\ r.step + 1 = Complete
  <2>1. overall = "approved" => r.action = "approve" /\ r.step + 1 = Complete
    <3>1. CASE r.action = "reject"
      <4>1. overall = "rejected"
        BY <1>2, <3>1 DEF Complete
      <4> QED BY <4>1
    <3>2. CASE r.action # "reject" /\ r.step + 1 = Complete
      BY <1>2, <3>2
    <3>3. CASE r.action # "reject" /\ r.step + 1 # Complete
      <4>1. overall = "in_review"
        BY <3>3
      <4> QED BY <4>1
    <3> QED BY <3>1, <3>2, <3>3
  <2> HIDE DEF overall
  <2> QED BY <2>1 DEF Flush
<1> HIDE DEF next, overall
<1>11. approval'[d].row = "live"
  BY <1>5 DEF Live
<1> QED BY <1>1, <1>5, <1>6, <1>8, <1>9, <1>10, <1>11, <1>12

\* What a decision writes.
LEMMA DecideWrites ==
  ASSUME TypeOK, NEW q \in Client, DecideCommit(q),
         Live(request[q].doc), Stored(request[q].doc)
  PROVE  LET r == request[q]
             d == r.doc
         IN /\ r \in Decisions
            /\ \A e \in Doc \ {d} : approval'[e] = approval[e] /\ document'[e] = document[e]
            /\ approval'[d].row = "live" /\ approval'[d].chain = approval[d].chain
            /\ approval'[d].step = approval[d].step /\ approval'[d].overall = approval[d].overall
            /\ approval'[d].session = approval[d].session
            /\ approval'[d].eligibility = Flush(approval[d].eligibility, r.seen, r.decision)
            /\ document'[d].status = Flush(document[d].status, r.loaded.status,
                                          IF r.decision = "eligible" THEN "approved" ELSE "rejected")
            /\ document'[d].eligible = Flush(document[d].eligible, r.loaded.eligible, r.decision = "eligible")
            /\ document'[d].status # "none"
            /\ document'[d].eligible => document[d].eligible \/ r.decision = "eligible"
<1> DEFINE r == request[q]
           d == r.doc
           status == IF r.decision = "eligible" THEN "approved" ELSE "rejected"
           flushed == Flush(document[d].status, r.loaded.status, status)
           eligible == Flush(document[d].eligible, r.loaded.eligible, r.decision = "eligible")
           decision == Flush(approval[d].eligibility, r.seen, r.decision)
<1>1. r \in Decisions
  BY RequestTyped, RequestKinds DEF DecideCommit
<1>2. d \in Doc
  BY <1>1 DEF Decisions
<1>3. approval[d] \in Approvals /\ document[d] \in Documents
  BY <1>2 DEF TypeOK
<1>4. /\ approval' = [approval EXCEPT ![d].eligibility = decision]
      /\ document' = [document EXCEPT ![d].status = flushed, ![d].eligible = eligible]
  BY DEF DecideCommit, Flush
<1>5. flushed # "none" /\ (eligible => document[d].eligible \/ r.decision = "eligible")
  BY DEF Flush, Stored
<1> HIDE DEF flushed, eligible, decision
<1>6. \A e \in Doc \ {d} : approval'[e] = approval[e] /\ document'[e] = document[e]
  BY <1>2, <1>4 DEF TypeOK
<1>7. /\ approval'[d] = [approval[d] EXCEPT !.eligibility = decision]
      /\ document'[d] = [document[d] EXCEPT !.status = flushed, !.eligible = eligible]
  BY <1>2, <1>4 DEF TypeOK
<1>8. document'[d].status = flushed /\ document'[d].eligible = eligible
  BY <1>3, <1>7 DEF Documents
<1>9. /\ approval'[d].row = approval[d].row /\ approval'[d].chain = approval[d].chain
      /\ approval'[d].step = approval[d].step /\ approval'[d].overall = approval[d].overall
      /\ approval'[d].session = approval[d].session /\ approval'[d].eligibility = decision
  BY <1>3, <1>7 DEF Approvals
<1> QED BY <1>1, <1>5, <1>6, <1>8, <1>9 DEF Live, decision, flushed, eligible

\* A signature or a decision leaves the rows where they are.
LEMMA FreshCommit ==
  ASSUME TypeOK, FreshInv, HeldInv, NEW q \in Client, AdvanceCommit(q) \/ DecideCommit(q)
  PROVE  FreshInv' /\ HeldInv'
<1>1. ReferencesKept(q)
  BY AnsweredKept DEF AdvanceCommit, DecideCommit
<1>2. CASE AdvanceCommit(q) /\ Live(request[q].doc)
  <2>1. RowsKept
    BY <1>2, AdvanceWrites DEF RowsKept, Live
  <2>2. IdsKept
    BY <1>2 DEF AdvanceCommit, IdsKept
  <2> QED BY <1>1, <2>1, <2>2, KeptReferences
<1>3. CASE DecideCommit(q) /\ Live(request[q].doc) /\ Stored(request[q].doc)
  <2>1. RowsKept /\ IdsKept
    BY <1>3, DecideWrites DEF RowsKept, IdsKept, Live
  <2> QED BY <1>1, <2>1, KeptReferences
<1>4. CASE approval' = approval /\ document' = document
  BY <1>1, <1>4, NothingWritten, KeptReferences
<1> QED BY <1>2, <1>3, <1>4 DEF AdvanceCommit, DecideCommit

\* Deleting a session waits for whoever holds one of its approvals.
LEMMA FreshSession ==
  ASSUME TypeOK, FreshInv, HeldInv, NEW s \in Session, Start(s) \/ Delete(s)
  PROVE  FreshInv' /\ HeldInv'
<1>1. ReferencesKept(s)
  BY DEF Start, Delete, ReferencesKept, Inserting, Generating, Working, Holding
<1>2. IdsKept
  BY DEF Start, Delete, IdsKept
<1>3. CASE Start(s)
  BY <1>1, <1>3, NothingWritten, KeptReferences DEF Start
<1>4. CASE Delete(s)
  <2>1. RowsKept
    <3> SUFFICES ASSUME NEW d \in Doc
                 PROVE  \/ approval'[d].row = approval[d].row
                        \/ approval'[d].row = "none" /\ \A p \in Client : ~Holding(p, d)'
      BY DEF RowsKept
    <3>1. approval'[d] = IF approval[d].session = s THEN NoApproval ELSE approval[d]
      BY <1>4 DEF Delete
    <3>2. CASE approval[d].session = s
      <4>1. \A p \in Client : ~Holding(p, d)
        BY <1>4, <3>2 DEF Delete, HeldInv
      <4>2. \A p \in Client : ~Holding(p, d)'
        BY <1>4, <4>1 DEF Delete, Holding
      <4> QED BY <3>1, <3>2, <4>2 DEF NoApproval
    <3>3. CASE approval[d].session # s
      BY <3>1, <3>3
    <3> QED BY <3>2, <3>3
  <2> QED BY <1>1, <1>2, <2>1, KeptReferences
<1> QED BY <1>3, <1>4

\* Saving takes an id that nothing refers to, and waits for those who hold the
\* approvals of the documents it replaces.
LEMMA FreshSave ==
  ASSUME TypeOK, FreshInv, HeldInv, NEW q \in Client, SaveCommit(q)
  PROVE  FreshInv' /\ HeldInv'
<1> DEFINE r == request[q]
<1>1. r \in Generations /\ r.op = "generate"
  BY RequestTyped, RequestKinds DEF SaveCommit, Generating
<1>2. PICK new \in Doc :
        /\ \A d \in Doc : document[d].status = "none" <=> d >= new
        /\ document' = [d \in Doc |->
              IF d = new        THEN [file |-> Head(r.todo), status |-> "draft", eligible |-> FALSE]
              ELSE IF d \in r.old THEN [NoDocument EXCEPT !.status = "deleted"]
              ELSE document[d]]
        /\ Proceed(q, [r EXCEPT !.stage = "insert", !.doc = new, !.old = {}])
  BY DEF SaveCommit
<1>3. /\ document[new].status = "none"
      /\ document'[new].status = "draft"
      /\ \A d \in Doc \ {new} : document'[d].status = IF d \in r.old THEN "deleted" ELSE document[d].status
  <2>1. document[new].status = "none"
    BY <1>2, DocAssumption
  <2>2. document'[new] = [file |-> Head(r.todo), status |-> "draft", eligible |-> FALSE]
    BY <1>2
  <2>3. \A d \in Doc \ {new} : document'[d] = IF d \in r.old THEN [NoDocument EXCEPT !.status = "deleted"]
                                                            ELSE document[d]
    BY <1>2
  <2>4. [NoDocument EXCEPT !.status = "deleted"].status = "deleted"
    BY DEF NoDocument
  <2>5. document'[new].status = "draft"
    BY <2>2
  <2>6. ASSUME NEW d \in Doc \ {new}
        PROVE  document'[d].status = IF d \in r.old THEN "deleted" ELSE document[d].status
    <3>1. document'[d] = IF d \in r.old THEN [NoDocument EXCEPT !.status = "deleted"] ELSE document[d]
      BY <2>3
    <3>2. CASE d \in r.old
      BY <2>4, <3>1, <3>2
    <3>3. CASE d \notin r.old
      BY <3>1, <3>3
    <3> QED BY <3>2, <3>3
  <2> QED BY <2>1, <2>5, <2>6
<1>4. IdsKept
  BY <1>3 DEF IdsKept
<1>5. ReferencesKept(q)
  <2> DEFINE next == [r EXCEPT !.stage = "insert", !.doc = new, !.old = {}]
  <2>1. next.op = "generate" /\ next.doc = new /\ next.new = r.new
    BY <1>1 DEF Generations
  <2>2. Proceed(q, next)
    BY <1>2
  <2> HIDE DEF next
  <2>3. \A d \in Doc :
          /\ next.stage = "insert" /\ next.doc = d =>
               Inserting(q, d) \/ (document[d].status = "none" /\ document'[d].status # "none")
          /\ d \in next.new => Holding(q, d)
    BY <1>1, <1>3, <2>1 DEF Holding
  <2> QED BY <2>1, <2>2, <2>3, RequestKept
<1>6. RowsKept
  <2> SUFFICES ASSUME NEW d \in Doc
               PROVE  \/ approval'[d].row = approval[d].row
                      \/ approval'[d].row = "none" /\ \A p \in Client : ~Holding(p, d)'
    BY DEF RowsKept
  <2>1. approval'[d] = IF d \in r.old THEN NoApproval ELSE approval[d]
    BY DEF SaveCommit
  <2>2. CASE d \in r.old
    <3>1. approval[d].row # "held"
      BY <2>2 DEF SaveCommit
    <3>2. \A p \in Client : ~Holding(p, d)
      BY <3>1 DEF HeldInv
    <3>3. \A p \in Client : ~Holding(p, d)'
      BY <1>5, <3>2 DEF ReferencesKept
    <3> QED BY <2>1, <2>2, <3>3 DEF NoApproval
  <2>3. CASE d \notin r.old
    BY <2>1, <2>3
  <2> QED BY <2>2, <2>3
<1> QED BY <1>4, <1>5, <1>6, KeptReferences

\* A request that ends leaves nothing held.
LEMMA FreshEnd ==
  ASSUME TypeOK, FreshInv, HeldInv, NEW q \in Client,
         \/ RollBack(q)
         \/ GenerateCommit(q) /\ Open(request[q].session)
  PROVE  FreshInv' /\ HeldInv'
<1>1. Answered(q) /\ document' = document
  BY DEF RollBack, GenerateCommit
<1>2. ReferencesKept(q) /\ IdsKept
  BY <1>1, AnsweredKept DEF IdsKept
<1>3. ASSUME NEW d \in Doc, Holding(q, d)
      PROVE  approval[d].row = "held" /\ \A p \in Client : ~Holding(p, d)'
  <2>1. approval[d].row = "held" /\ \A p \in Client \ {q} : ~Holding(p, d)
    BY <1>3 DEF HeldInv
  <2>2. request'[q].op = "none"
    BY <1>1 DEF Answered, NoRequest, TypeOK
  <2> QED BY <1>2, <2>1, <2>2 DEF ReferencesKept, Holding
<1>4. RowsKept
  <2>1. CASE RollBack(q)
    <3>1. \A d \in Doc : approval'[d] = IF Holding(q, d) THEN NoApproval ELSE approval[d]
      BY <2>1 DEF RollBack, Holding, TypeOK
    <3> QED BY <1>3, <3>1 DEF RowsKept, NoApproval
  <2>2. CASE GenerateCommit(q) /\ Open(request[q].session)
    <3>1. request[q].op = "generate"
      BY <2>2 DEF GenerateCommit, Generating
    <3>2. \A d \in Doc : approval'[d] = IF Holding(q, d) THEN [approval[d] EXCEPT !.row = "live"]
                                                       ELSE approval[d]
      BY <2>2, <3>1 DEF GenerateCommit, Holding
    <3>3. \A d \in Doc : [approval[d] EXCEPT !.row = "live"].row = "live"
      BY DEF TypeOK, Approvals
    <3> QED BY <1>3, <3>2, <3>3 DEF RowsKept
  <2> QED BY <2>1, <2>2
<1> QED BY <1>2, <1>4, KeptReferences

\* An approval is inserted for a document that nothing refers to.
LEMMA FreshInsert ==
  ASSUME TypeOK, FreshInv, HeldInv, NEW q \in Client, InsertApproval(q),
         Stored(request[q].doc), Open(request[q].session)
  PROVE  FreshInv' /\ HeldInv'
<1> DEFINE r == request[q]
           next == [r EXCEPT !.stage = "read", !.todo = Tail(@), !.doc = NoDoc,
                             !.new = @ \cup {r.doc}, !.listed = @ \cup {r.doc}]
<1>1. r \in Generations /\ r.op = "generate" /\ r.stage = "insert"
  BY RequestTyped, RequestKinds DEF InsertApproval, Generating
<1>2. r.doc \in Doc /\ Inserting(q, r.doc)
  BY <1>1 DEF Generations, Inserting, Generating
<1>3. Unreferred(r.doc) /\ \A p \in Client \ {q} : ~Inserting(p, r.doc)
  BY <1>2 DEF FreshInv
<1>4. next.op = "generate" /\ next.stage = "read" /\ next.new = r.new \cup {r.doc}
  BY <1>1 DEF Generations
<1>5. Proceed(q, next) /\ document' = document
  BY DEF InsertApproval
<1> HIDE DEF next
<1>6. request'[q] = next /\ \A p \in Client \ {q} : request'[p] = request[p]
  BY <1>5, OwnReferences
<1>7. /\ approval'[r.doc].row = "held"
      /\ \A d \in Doc \ {r.doc} : approval'[d] = approval[d]
  <2>1. approval' = [approval EXCEPT ![r.doc] = [NoApproval EXCEPT !.row = "held", !.session = r.session,
                                                                   !.chain = r.chain, !.step = 1]]
    BY DEF InsertApproval
  <2> QED BY <1>2, <2>1 DEF TypeOK, NoApproval
<1>8. ASSUME NEW d \in Doc, NEW p \in Client
      PROVE  /\ Inserting(p, d)' => p # q /\ Inserting(p, d)
             /\ Working(p, d)' => p # q /\ Working(p, d)
             /\ Holding(p, d)' => (p = q /\ d = r.doc) \/ Holding(p, d)
  <2>1. CASE p = q
    BY <1>1, <1>4, <1>6, <2>1 DEF Inserting, Generating, Working, Holding
  <2>2. CASE p # q
    BY <1>6, <2>2 DEF Inserting, Generating, Working, Holding
  <2> QED BY <2>1, <2>2
<1>9. ASSUME NEW d \in Doc, document'[d].status = "none"
      PROVE  Unreferred(d)' /\ \A p \in Client : ~Inserting(p, d)'
  <2>1. d # r.doc
    BY <1>5, <1>9 DEF Stored
  <2>2. Unreferred(d) /\ \A p \in Client : ~Inserting(p, d)
    BY <1>5, <1>9 DEF FreshInv
  <2> QED BY <1>7, <1>8, <2>1, <2>2 DEF Unreferred
<1>10. ASSUME NEW d \in Doc, NEW p \in Client, Inserting(p, d)'
       PROVE  Unreferred(d)' /\ \A o \in Client \ {p} : ~Inserting(o, d)'
  <2>1. p # q /\ Inserting(p, d)
    BY <1>8, <1>10
  <2>2. d # r.doc
    BY <1>3, <2>1
  <2>3. Unreferred(d) /\ \A o \in Client \ {p} : ~Inserting(o, d)
    BY <2>1 DEF FreshInv
  <2> QED BY <1>7, <1>8, <2>2, <2>3 DEF Unreferred
<1>11. ASSUME NEW d \in Doc, NEW p \in Client, Holding(p, d)'
       PROVE  approval'[d].row = "held" /\ \A o \in Client \ {p} : ~Holding(o, d)'
  <2>1. CASE d = r.doc
    <3>1. \A o \in Client : ~Holding(o, d)
      BY <1>3, <2>1 DEF HeldInv, Unreferred
    <3> QED BY <1>7, <1>8, <1>11, <2>1, <3>1
  <2>2. CASE d # r.doc
    <3>1. Holding(p, d)
      BY <1>8, <1>11, <2>2
    <3>2. approval[d].row = "held" /\ \A o \in Client \ {p} : ~Holding(o, d)
      BY <3>1 DEF HeldInv
    <3> QED BY <1>7, <1>8, <2>2, <3>2
  <2> QED BY <2>1, <2>2
<1> QED BY <1>9, <1>10, <1>11 DEF FreshInv, HeldInv

LEMMA InitFresh == Init => FreshInv /\ HeldInv
BY DEF Init, FreshInv, HeldInv, Unreferred, Inserting, Generating, Working, Holding,
       NoRequest, NoApproval

LEMMA FreshStep == TypeOK /\ FreshInv /\ HeldInv /\ [Next]_vars => FreshInv' /\ HeldInv'
<1> SUFFICES ASSUME TypeOK, FreshInv, HeldInv, [Next]_vars
             PROVE  FreshInv' /\ HeldInv'
  OBVIOUS
<1>1. CASE UNCHANGED vars
  BY <1>1 DEF vars, FreshInv, HeldInv, Unreferred, Inserting, Generating, Working, Holding
<1>2. ASSUME NEW q \in Client, InsertApproval(q) PROVE FreshInv' /\ HeldInv'
  <2>1. CASE Stored(request[q].doc) /\ Open(request[q].session)
    BY <1>2, <2>1, FreshInsert
  <2>2. CASE ~(Stored(request[q].doc) /\ Open(request[q].session))
    BY <1>2, <2>2, FreshEnd DEF InsertApproval
  <2> QED BY <2>1, <2>2
<1>3. ASSUME NEW q \in Client, GenerateCommit(q) PROVE FreshInv' /\ HeldInv'
  <2>1. CASE Open(request[q].session)
    BY <1>3, <2>1, FreshEnd
  <2>2. CASE ~Open(request[q].session)
    BY <1>3, <2>2, FreshEnd DEF GenerateCommit
  <2> QED BY <2>1, <2>2
<1>4. ASSUME NEW q \in Client, Die(q) PROVE FreshInv' /\ HeldInv'
  BY <1>4, FreshEnd DEF Die
<1>5. CASE Next
  BY <1>2, <1>3, <1>4, <1>5, FreshSession, FreshPeople, FreshCommit, FreshSave DEF Next, Serve
<1> QED BY <1>1, <1>5

----------------------------------------------------------------------------
(* The approval chain: what has been passed has been signed.               *)

\* What a step other than a signature may do to the rows and requests that the
\* chain is about.
ChainsKept ==
    \A d \in Doc :
        /\ approval'[d].overall = "approved" => approval[d].overall = "approved"
        /\ document'[d].eligible => document[d].eligible \/ FullySigned(d)
        /\ approval'[d].row # "none" =>
             \/ /\ approval[d].row # "none"
                /\ approval'[d].chain = approval[d].chain /\ approval'[d].step = approval[d].step
             \/ approval'[d].step = 1 /\ \A p \in Client : ~Advancing(p, d)'
SignersKept ==
    \A p \in Client :
        /\ request'[p].op = "advance" =>
             \/ request'[p] = request[p]
             \/ LET d == request'[p].doc
                IN /\ Live(d) /\ request'[p].step = approval[d].step
                   /\ MayAdvance(ChainRole(approval[d].chain, approval[d].step), request'[p].by)
        /\ request'[p].op = "decide" /\ request'[p].decision = "eligible" =>
             \/ /\ request[p].op = "decide" /\ request[p].decision = "eligible"
                /\ request[p].doc = request'[p].doc
             \/ approval[request'[p].doc].overall = "approved"

LEMMA KeptChains ==
  ASSUME TypeOK, TypeOK', ChainInv, ChainsKept, SignersKept, signed' = signed
  PROVE  ChainInv'
<1>0. \A d \in Doc : FullySigned(d) => FullySigned(d)'
  BY DEF FullySigned
<1>1. EvidenceFullySigned'
  BY <1>0 DEF ChainInv, EvidenceFullySigned, ChainsKept
<1>2. ASSUME NEW d \in Doc, approval'[d].row # "none"
      PROVE  Passed(d, approval[d].chain, approval[d].step)'
  <2>1. CASE approval'[d].step = 1
    BY <2>1 DEF Passed, Step
  <2>2. CASE approval'[d].step # 1
    BY <1>2, <2>2 DEF ChainInv, ChainsKept, Passed
  <2> QED BY <2>1, <2>2
<1>3. ASSUME NEW p \in Client, NEW d \in Doc, Advancing(p, d)', approval'[d].row # "none"
      PROVE  /\ Passed(d, approval[d].chain, request[p].step)'
             /\ MayAdvance(ChainRole(approval[d].chain, request[p].step), request[p].by)'
  <2>1. approval[d].row # "none" /\ approval'[d].chain = approval[d].chain
    BY <1>3 DEF ChainsKept
  <2>2. CASE request'[p] = request[p]
    <3>1. Advancing(p, d)
      BY <1>3, <2>2 DEF Advancing
    <3> QED BY <2>1, <2>2, <3>1 DEF ChainInv, Passed
  <2>3. CASE /\ request'[p].step = approval[d].step
             /\ MayAdvance(ChainRole(approval[d].chain, approval[d].step), request'[p].by)
    BY <2>1, <2>3 DEF ChainInv, Passed
  <2> QED BY <1>3, <2>2, <2>3 DEF SignersKept, Advancing
<1>4. ASSUME NEW p \in Client, request'[p].op = "decide", request'[p].decision = "eligible"
      PROVE  FullySigned(request[p].doc)'
  <2>1. request'[p].doc \in Doc
    <3>1. request'[p] \in Requests
      BY DEF TypeOK
    <3> QED BY <1>4, <3>1, RequestKinds DEF Decisions
  <2>2. FullySigned(request'[p].doc)
    BY <1>4, <2>1 DEF SignersKept, ChainInv, EvidenceFullySigned
  <2> QED BY <2>2 DEF FullySigned
<1> QED BY <1>1, <1>2, <1>3, <1>4 DEF ChainInv

\* Only the acting request may have become a signature or a decision.
LEMMA SignersOf ==
  ASSUME NEW q \in Client, NEW r, TypeOK,
         Ask(q, r) \/ Proceed(q, r) \/ (Answered(q) /\ r = NoRequest),
         r.op = "advance" =>
           /\ Live(r.doc) /\ r.step = approval[r.doc].step
           /\ MayAdvance(ChainRole(approval[r.doc].chain, approval[r.doc].step), r.by),
         r.op = "decide" /\ r.decision = "eligible" =>
           \/ /\ request[q].op = "decide" /\ request[q].decision = "eligible"
              /\ request[q].doc = r.doc
           \/ approval[r.doc].overall = "approved"
  PROVE  SignersKept
<1>1. request'[q] = r /\ \A p \in Client \ {q} : request'[p] = request[p]
  BY OwnReferences
<1> SUFFICES ASSUME NEW p \in Client
             PROVE  /\ request'[p].op = "advance" =>
                         \/ request'[p] = request[p]
                         \/ LET d == request'[p].doc
                            IN /\ Live(d) /\ request'[p].step = approval[d].step
                               /\ MayAdvance(ChainRole(approval[d].chain, approval[d].step), request'[p].by)
                    /\ request'[p].op = "decide" /\ request'[p].decision = "eligible" =>
                         \/ /\ request[p].op = "decide" /\ request[p].decision = "eligible"
                            /\ request[p].doc = request'[p].doc
                         \/ approval[request'[p].doc].overall = "approved"
  BY DEF SignersKept
<1>2. CASE p = q
  BY <1>1, <1>2
<1>3. CASE p # q
  BY <1>1, <1>3
<1> QED BY <1>2, <1>3

LEMMA AnsweredSigners ==
  ASSUME NEW q \in Client, TypeOK, Answered(q)
  PROVE  SignersKept
<1>1. NoRequest.op = "none"
  BY DEF NoRequest
<1> QED BY <1>1, SignersOf

LEMMA NothingSigned ==
  ASSUME approval' = approval, document' = document
  PROVE  ChainsKept
BY DEF ChainsKept

\* What people ask is checked against the rows as they are.
LEMMA ChainPeople ==
  ASSUME TypeOK, TypeOK', ChainInv, NEW q \in Client,
         \/ \E s \in Session, op \in {"answer", "complete"} : Visit(q, s, op)
         \/ \E s \in Session : Generate(q, s) \/ \E p \in demand.plans : StartDraft(q, s, p)
         \/ AnswerCommit(q) \/ CompleteCommit(q)
         \/ \E d \in Doc, role \in Staffed, action \in {"approve", "reject"} :
              AdvanceCheck(q, d, role, action)
         \/ \E d \in Doc, decision \in {"eligible", "rejected"} : DecideCheck(q, d, decision)
         \/ DecideLoad(q) \/ SaveRead(q) \/ SaveFails(q)
  PROVE  ChainInv'
<1>1. approval' = approval /\ document' = document /\ signed' = signed
  BY DEF Visit, Generate, StartDraft, AnswerCommit, CompleteCommit, AdvanceCheck, DecideCheck,
         DecideLoad, SaveRead, SaveFails
<1>2. SignersKept
  <2>1. ASSUME NEW s \in Session, NEW op \in {"answer", "complete"}, Visit(q, s, op)
        PROVE  SignersKept
    BY <2>1, SignersOf DEF Visit
  <2>2. ASSUME NEW s \in Session, Generate(q, s)
        PROVE  SignersKept
    BY <2>2, SignersOf DEF Generate, Generation
  <2>3. ASSUME NEW s \in Session, NEW p \in demand.plans, StartDraft(q, s, p)
        PROVE  SignersKept
    BY <2>3, SignersOf DEF StartDraft, Generation
  <2>4. CASE AnswerCommit(q) \/ CompleteCommit(q)
    BY <2>4, AnsweredSigners DEF AnswerCommit, CompleteCommit
  <2>5. ASSUME NEW d \in Doc, NEW role \in Staffed, NEW action \in {"approve", "reject"},
               AdvanceCheck(q, d, role, action)
        PROVE  SignersKept
    BY <2>5, SignersOf DEF AdvanceCheck
  <2>6. ASSUME NEW d \in Doc, NEW decision \in {"eligible", "rejected"}, DecideCheck(q, d, decision)
        PROVE  SignersKept
    BY <2>6, SignersOf DEF DecideCheck, Decidable
  <2>7. CASE DecideLoad(q)
    <3>1. CASE Stored(request[q].doc)
      <4> DEFINE r == [op |-> "decide", stage |-> "commit", doc |-> request[q].doc,
                       decision |-> request[q].decision, seen |-> request[q].seen,
                       loaded |-> document[request[q].doc]]
      <4>1. /\ Proceed(q, r) /\ r.op = "decide" /\ request[q].op = "decide"
            /\ r.doc = request[q].doc /\ r.decision = request[q].decision
        BY <2>7, <3>1 DEF DecideLoad
      <4> HIDE DEF r
      <4> QED BY <4>1, SignersOf
    <3>2. CASE ~Stored(request[q].doc)
      BY <2>7, <3>2, AnsweredSigners DEF DecideLoad
    <3> QED BY <3>1, <3>2
  <2>8. CASE SaveRead(q) \/ SaveFails(q)
    <3>1. request[q].op = "generate" /\ request[q] \in Generations
      BY <2>8, RequestTyped, RequestKinds DEF SaveRead, SaveFails, Generating
    <3>2. CASE SaveRead(q)
      <4> DEFINE r == [request[q] EXCEPT !.stage = "save",
                                         !.old = {d \in Doc : Earlier(d, Head(request[q].todo))}]
      <4>1. Proceed(q, r) /\ r.op = "generate"
        BY <3>1, <3>2 DEF SaveRead, Generations
      <4> HIDE DEF r
      <4> QED BY <4>1, SignersOf
    <3>3. CASE SaveFails(q)
      <4> DEFINE r == [request[q] EXCEPT !.stage = "read", !.todo = Tail(@), !.old = {}, !.doc = NoDoc]
      <4>1. Proceed(q, r) /\ r.op = "generate"
        BY <3>1, <3>3 DEF SaveFails, Generations
      <4> HIDE DEF r
      <4> QED BY <4>1, SignersOf
    <3> QED BY <2>8, <3>2, <3>3
  <2> QED BY <2>1, <2>2, <2>3, <2>4, <2>5, <2>6, <2>7, <2>8
<1> QED BY <1>1, <1>2, NothingSigned, KeptChains

LEMMA ChainSession ==
  ASSUME TypeOK, TypeOK', ChainInv, NEW s \in Session, Start(s) \/ Delete(s)
  PROVE  ChainInv'
<1>1. SignersKept /\ signed' = signed
  BY DEF Start, Delete, SignersKept
<1>2. ChainsKept
  <2>1. CASE Start(s)
    BY <2>1, NothingSigned DEF Start
  <2>2. CASE Delete(s)
    <3>1. \A d \in Doc : approval'[d] \in {approval[d], NoApproval}
      BY <2>2 DEF Delete
    <3> QED BY <2>2, <3>1 DEF Delete, ChainsKept, NoApproval
  <2> QED BY <2>1, <2>2
<1> QED BY <1>1, <1>2, KeptChains

\* Saved documents are no evidence yet, and inserted approvals start at step 1.
LEMMA ChainGenerate ==
  ASSUME TypeOK, TypeOK', FreshInv, HeldInv, ChainInv, NEW q \in Client,
         \/ SaveCommit(q) \/ RollBack(q)
         \/ InsertApproval(q) /\ Stored(request[q].doc) /\ Open(request[q].session)
         \/ GenerateCommit(q) /\ Open(request[q].session)
  PROVE  ChainInv'
<1> DEFINE r == request[q]
<1>1. CASE SaveCommit(q)
  <2>1. r \in Generations
    BY <1>1, RequestTyped, RequestKinds DEF SaveCommit, Generating
  <2>2. SignersKept
    <3>1. PICK new \in Doc : Proceed(q, [r EXCEPT !.stage = "insert", !.doc = new, !.old = {}])
      BY <1>1 DEF SaveCommit
    <3> DEFINE next == [r EXCEPT !.stage = "insert", !.doc = new, !.old = {}]
    <3>2. Proceed(q, next) /\ next.op = "generate"
      BY <2>1, <3>1 DEF Generations
    <3> HIDE DEF next
    <3> QED BY <3>2, SignersOf
  <2>3. ChainsKept
    <3>1. \A d \in Doc : approval'[d] \in {approval[d], NoApproval}
      BY <1>1 DEF SaveCommit
    <3>2. \A d \in Doc : document'[d].eligible => document[d].eligible
      <4>1. \A d \in Doc : \/ document'[d] = document[d]
                          \/ document'[d] = [NoDocument EXCEPT !.status = "deleted"]
                          \/ document'[d] = [file |-> Head(r.todo), status |-> "draft", eligible |-> FALSE]
        BY <1>1 DEF SaveCommit
      <4> QED BY <4>1 DEF NoDocument
    <3> QED BY <3>1, <3>2 DEF ChainsKept, NoApproval
  <2> QED BY <1>1, <2>2, <2>3, KeptChains DEF SaveCommit
<1>2. CASE RollBack(q)
  <2>1. SignersKept
    BY <1>2, AnsweredSigners DEF RollBack
  <2>2. ChainsKept
    <3>1. \A d \in Doc : approval'[d] \in {approval[d], NoApproval}
      BY <1>2 DEF RollBack
    <3> QED BY <1>2, <3>1 DEF RollBack, ChainsKept, NoApproval
  <2> QED BY <1>2, <2>1, <2>2, KeptChains DEF RollBack
<1>3. CASE GenerateCommit(q) /\ Open(r.session)
  <2>1. SignersKept
    BY <1>3, AnsweredSigners DEF GenerateCommit
  <2>2. ChainsKept
    <3> SUFFICES ASSUME NEW d \in Doc
                 PROVE  /\ approval'[d].overall = approval[d].overall
                        /\ approval'[d].chain = approval[d].chain /\ approval'[d].step = approval[d].step
                        /\ approval'[d].row # "none" => approval[d].row # "none"
      BY <1>3 DEF ChainsKept, GenerateCommit
    <3>1. approval'[d] = IF d \in r.new THEN [approval[d] EXCEPT !.row = "live"] ELSE approval[d]
      BY <1>3 DEF GenerateCommit
    <3>2. d \in r.new => approval[d].row # "none"
      BY <1>3 DEF GenerateCommit, Generating, HeldInv, Holding
    <3>3. approval[d] \in Approvals
      BY DEF TypeOK
    <3> QED BY <3>1, <3>2, <3>3 DEF Approvals
  <2> QED BY <1>3, <2>1, <2>2, KeptChains DEF GenerateCommit
<1>4. CASE InsertApproval(q) /\ Stored(r.doc) /\ Open(r.session)
  <2> DEFINE next == [r EXCEPT !.stage = "read", !.todo = Tail(@), !.doc = NoDoc,
                               !.new = @ \cup {r.doc}, !.listed = @ \cup {r.doc}]
  <2>1. r \in Generations /\ r.op = "generate" /\ r.stage = "insert"
    BY <1>4, RequestTyped, RequestKinds DEF InsertApproval, Generating
  <2>2. Proceed(q, next) /\ next.op = "generate"
    BY <1>4, <2>1 DEF InsertApproval, Generations
  <2> HIDE DEF next
  <2>3. PICK d \in Doc : d = r.doc /\ Unreferred(d)
    BY <2>1 DEF Generations, FreshInv, Inserting, Generating
  <2>4. \A p \in Client : ~Advancing(p, d)'
    <3>1. request'[q] = next /\ \A p \in Client \ {q} : request'[p] = request[p]
      BY <2>2, OwnReferences
    <3> QED BY <2>2, <2>3, <3>1 DEF Advancing, Working, Unreferred
  <2>5. SignersKept
    BY <2>2, SignersOf
  <2>6. ChainsKept
    <3>1. approval' = [approval EXCEPT ![d] = [NoApproval EXCEPT !.row = "held", !.session = r.session,
                                                                 !.chain = r.chain, !.step = 1]]
      BY <1>4, <2>3 DEF InsertApproval
    <3>2. approval'[d].step = 1 /\ approval'[d].overall = "pending_review"
      BY <2>3, <3>1 DEF TypeOK, NoApproval
    <3>3. \A e \in Doc \ {d} : approval'[e] = approval[e]
      BY <3>1 DEF TypeOK
    <3>4. document' = document
      BY <1>4 DEF InsertApproval
    <3> QED BY <2>4, <3>2, <3>3, <3>4 DEF ChainsKept
  <2> QED BY <1>4, <2>5, <2>6, KeptChains DEF InsertApproval
<1> QED BY <1>1, <1>2, <1>3, <1>4

\* A decision makes evidence only of what it found approved.
LEMMA ChainDecide ==
  ASSUME TypeOK, TypeOK', ChainInv, NEW q \in Client, DecideCommit(q)
  PROVE  ChainInv'
<1>1. SignersKept /\ signed' = signed
  BY AnsweredSigners DEF DecideCommit
<1>2. CASE Live(request[q].doc) /\ Stored(request[q].doc)
  <2> DEFINE r == request[q]
             d == r.doc
  <2>1. /\ \A e \in Doc \ {d} : approval'[e] = approval[e] /\ document'[e] = document[e]
        /\ approval'[d].chain = approval[d].chain
        /\ approval'[d].step = approval[d].step /\ approval'[d].overall = approval[d].overall
        /\ document'[d].eligible => document[d].eligible \/ r.decision = "eligible"
    BY <1>2, DecideWrites
  <2>2. r.decision = "eligible" => FullySigned(d)
    BY DEF ChainInv, DecideCommit
  <2>3. ChainsKept
    BY <1>2, <2>1, <2>2 DEF ChainsKept, Live
  <2> QED BY <1>1, <2>3, KeptChains
<1>3. CASE ~(Live(request[q].doc) /\ Stored(request[q].doc))
  BY <1>1, <1>3, NothingSigned, KeptChains DEF DecideCommit
<1> QED BY <1>2, <1>3

\* A signature advances from the step that it checked, which its signer may sign;
\* what the row says by now lies behind signatures too.
LEMMA ChainAdvance ==
  ASSUME TypeOK, TypeOK', FreshInv, ChainInv, NEW q \in Client, AdvanceCommit(q)
  PROVE  ChainInv'
<1>0. CASE ~Live(request[q].doc)
  <2>1. SignersKept /\ signed' = signed /\ approval' = approval /\ document' = document
    BY <1>0, AnsweredSigners DEF AdvanceCommit
  <2> QED BY <2>1, NothingSigned, KeptChains
<1>1. CASE Live(request[q].doc)
  <2> DEFINE r == request[q]
  <2>1. PICK d \in Doc : d = r.doc
    BY <1>1, AdvanceWrites DEF Advances
  <2>2. /\ r.op = "advance" /\ r.step \in 0..3 /\ r.action \in {"approve", "reject"}
        /\ document' = document
    BY <1>1, AdvanceWrites DEF AdvanceCommit, Advances
  <2>3. /\ \A e \in Doc \ {d} : approval'[e] = approval[e] /\ signed'[e] = signed[e]
        /\ approval[d].row = "live" /\ approval'[d].chain = approval[d].chain
    BY <1>1, <2>1, AdvanceWrites DEF Live
  <2>4. /\ \/ approval'[d].step = approval[d].step
           \/ r.action = "approve" /\ approval'[d].step = r.step + 1
        /\ approval'[d].overall = "approved" =>
             \/ approval[d].overall = "approved"
             \/ r.action = "approve" /\ r.step + 1 = Complete
        /\ signed'[d] = IF r.action = "approve" THEN [signed[d] EXCEPT ![r.step] = @ \cup {r.by}]
                                                ELSE signed[d]
    BY <1>1, <2>1, AdvanceWrites
  <2>5. \A e \in Doc, k \in Step : signed[e][k] \subseteq signed'[e][k]
    <3>1. signed[d] \in [Step -> SUBSET Staffed]
      BY DEF TypeOK
    <3>2. \A k \in Step : signed[d][k] \subseteq signed'[d][k]
      BY <2>4, <3>1
    <3> QED BY <2>3, <3>2
  <2>7. \A e \in Doc : FullySigned(e) => FullySigned(e)'
    BY <2>5 DEF FullySigned
  <2>8. /\ Passed(d, approval[d].chain, r.step)
        /\ MayAdvance(ChainRole(approval[d].chain, r.step), r.by)
    BY <2>1, <2>2, <2>3 DEF ChainInv, Advancing
  <2>9. ASSUME r.action = "approve"
        PROVE  \A j \in Step : j < r.step + 1 =>
                 /\ signed'[d][j] # {}
                 /\ ChainRole(approval[d].chain, j) = "isso" => signed'[d][j] \cap IssoLevel # {}
    <3> SUFFICES ASSUME NEW j \in Step, j < r.step + 1
                 PROVE  /\ signed'[d][j] # {}
                        /\ ChainRole(approval[d].chain, j) = "isso" => signed'[d][j] \cap IssoLevel # {}
      OBVIOUS
    <3>1. CASE j < r.step
      BY <2>5, <2>8, <3>1 DEF Passed
    <3>2. CASE j = r.step
      <4>1. r.by \in signed'[d][j]
        BY <2>4, <2>9, <3>2 DEF TypeOK
      <4>2. ChainRole(approval[d].chain, j) = "isso" => r.by \in IssoLevel
        BY <2>8, <3>2 DEF MayAdvance, IssoLevel
      <4> QED BY <4>1, <4>2
    <3> QED BY <2>2, <3>1, <3>2 DEF Step
  <2>10. approval[d].chain \in {"draft", "default"}
    BY DEF TypeOK, Approvals
  <2>11. ASSUME r.action = "approve", r.step + 1 = Complete PROVE FullySigned(d)'
    <3>1. \A j \in Step : j < r.step + 1
      BY <2>11 DEF Step, Complete
    <3>2. \E k \in Step : ChainRole(approval[d].chain, k) = "isso"
      BY <2>10 DEF ChainRole, Step
    <3> QED BY <2>9, <2>11, <3>1, <3>2 DEF FullySigned
  <2>12. EvidenceFullySigned'
    BY <2>2, <2>3, <2>4, <2>7, <2>11 DEF ChainInv, EvidenceFullySigned
  <2>13. ASSUME NEW e \in Doc, approval'[e].row # "none"
         PROVE  Passed(e, approval[e].chain, approval[e].step)'
    <3>1. CASE e # d \/ approval'[d].step = approval[d].step
      <4>1. /\ approval[e].row # "none" /\ approval'[e].chain = approval[e].chain
            /\ approval'[e].step = approval[e].step
        BY <2>3, <2>13, <3>1
      <4>2. Passed(e, approval[e].chain, approval[e].step)
        BY <4>1 DEF ChainInv
      <4> QED BY <2>5, <4>1, <4>2 DEF Passed
    <3>2. CASE e = d /\ r.action = "approve" /\ approval'[d].step = r.step + 1
      BY <2>3, <2>9, <3>2 DEF Passed
    <3> QED BY <2>4, <3>1, <3>2
  <2>14. \A p \in Client : request'[p].op = "none" \/ request'[p] = request[p]
    BY DEF AdvanceCommit, Answered, NoRequest, TypeOK
  <2>15. ASSUME NEW p \in Client, NEW e \in Doc, Advancing(p, e)', approval'[e].row # "none"
         PROVE  /\ Passed(e, approval[e].chain, request[p].step)'
                /\ MayAdvance(ChainRole(approval[e].chain, request[p].step), request[p].by)'
    <3>1. request'[p] = request[p] /\ Advancing(p, e)
      BY <2>14, <2>15 DEF Advancing
    <3>2. approval[e].row # "none" /\ approval'[e].chain = approval[e].chain
      BY <2>3, <2>15
    <3>3. /\ Passed(e, approval[e].chain, request[p].step)
          /\ MayAdvance(ChainRole(approval[e].chain, request[p].step), request[p].by)
      BY <3>1, <3>2 DEF ChainInv
    <3> QED BY <2>5, <3>1, <3>2, <3>3 DEF Passed
  <2>16. ASSUME NEW p \in Client, request'[p].op = "decide", request'[p].decision = "eligible"
         PROVE  FullySigned(request[p].doc)'
    <3>1. request'[p] = request[p]
      BY <2>14, <2>16
    <3>2. PICK e \in Doc : e = request[p].doc
      BY <2>16, <3>1, RequestTyped, RequestKinds DEF Decisions
    <3>3. FullySigned(e)
      BY <2>16, <3>1, <3>2 DEF ChainInv
    <3>4. FullySigned(e)'
      BY <2>7, <3>3
    <3> QED BY <3>1, <3>2, <3>4 DEF FullySigned
  <2> QED BY <2>12, <2>13, <2>15, <2>16 DEF ChainInv
<1> QED BY <1>0, <1>1

LEMMA InitChain == Init => ChainInv
BY DEF Init, ChainInv, EvidenceFullySigned, Advancing, NoRequest, NoApproval, NoDocument

LEMMA ChainStep ==
  TypeOK /\ TypeOK' /\ FreshInv /\ HeldInv /\ ChainInv /\ [Next]_vars => ChainInv'
<1> SUFFICES ASSUME TypeOK, TypeOK', FreshInv, HeldInv, ChainInv, [Next]_vars
             PROVE  ChainInv'
  OBVIOUS
<1>1. CASE UNCHANGED vars
  <2>1. SignersKept /\ ChainsKept /\ signed' = signed
    BY <1>1 DEF vars, SignersKept, ChainsKept
  <2> QED BY <2>1, KeptChains
<1>2. ASSUME NEW q \in Client, InsertApproval(q) PROVE ChainInv'
  <2>1. CASE Stored(request[q].doc) /\ Open(request[q].session)
    BY <1>2, <2>1, ChainGenerate
  <2>2. CASE ~(Stored(request[q].doc) /\ Open(request[q].session))
    BY <1>2, <2>2, ChainGenerate DEF InsertApproval
  <2> QED BY <2>1, <2>2
<1>3. ASSUME NEW q \in Client, GenerateCommit(q) PROVE ChainInv'
  <2>1. CASE Open(request[q].session)
    BY <1>3, <2>1, ChainGenerate
  <2>2. CASE ~Open(request[q].session)
    BY <1>3, <2>2, ChainGenerate DEF GenerateCommit
  <2> QED BY <2>1, <2>2
<1>4. ASSUME NEW q \in Client, Die(q) PROVE ChainInv'
  BY <1>4, ChainGenerate DEF Die
<1>5. ASSUME NEW q \in Client, SaveCommit(q) PROVE ChainInv'
  BY <1>5, ChainGenerate
<1>6. CASE Next
  BY <1>2, <1>3, <1>4, <1>5, <1>6, ChainSession, ChainPeople, ChainAdvance, ChainDecide
     DEF Next, Serve
<1> QED BY <1>1, <1>6

\* The inductive invariant: a document gets one approval in its life, approvals
\* being inserted belong to one generation, and what a chain has passed, or a
\* request has loaded as passed, is signed.
THEOREM ChainInvariant == Spec => [](TypeOK /\ FreshInv /\ HeldInv /\ ChainInv)
<1> DEFINE Inv == TypeOK /\ FreshInv /\ HeldInv /\ ChainInv
<1>1. Init => Inv
  BY InitType, InitFresh, InitChain
<1>2. Inv /\ [Next]_vars => Inv'
  BY StepType, FreshStep, ChainStep
<1> QED BY <1>1, <1>2, PTL DEF Spec

\* No artifact counts as approved and none is evidence unless every step of its
\* chain was signed, with an ISSO-level role among the signers.
THEOREM EvidenceSigned == Spec => []EvidenceFullySigned
<1>1. ChainInv => EvidenceFullySigned
  BY DEF ChainInv
<1> QED BY <1>1, ChainInvariant, PTL

----------------------------------------------------------------------------
(* Sessions list their approvals.                                          *)

\* A step makes no approval of d, makes it not live, and moves it to no other session.
Unmade(d) ==
    approval'[d].row # "none" => /\ approval[d].row # "none" /\ (approval'[d].row = "live" => Live(d))
                                 /\ approval'[d].session = approval[d].session

\* A request that generates goes on with what it has loaded and inserted.
GoesOn(p) ==
    request'[p].op = "generate" =>
        /\ request[p].op = "generate" /\ request'[p].session = request[p].session
        /\ request'[p].new = request[p].new /\ request'[p].listed = request[p].listed

LEMMA GenerationOf ==
  ASSUME TypeOK, NEW q \in Client, request[q].op = "generate"
  PROVE  request[q] \in Generations /\ request[q].session \in Session /\ request[q].new \subseteq Doc
BY RequestTyped, RequestKinds DEF Generations

\* The races that a signature or a decision adds are none of sessions.
LEMMA MeetSessions ==
  ASSUME TypeOK, NEW d, Meet(d)
  PROVE  raced'.sessions = raced.sessions
BY DEF TypeOK, Meet

\* A step that lists nothing, makes no approval live, and leaves what a generation has
\* loaded and inserted keeps the list in step with the approvals.
LEMMA ListedKept ==
  ASSUME TypeOK, TypeOK', HeldInv', ListedInv, listed' = listed, raced'.sessions = raced.sessions,
         \A d \in Doc : Unmade(d),
         \A s \in Session : /\ session'[s] = "none" => session[s] = "none"
                            /\ session[s] = "deleted" => session'[s] = "deleted",
         \A p \in Client : GoesOn(p)
  PROVE  ListedInv'
<1>1. ApprovalsListed'
  BY DEF ListedInv, ApprovalsListed, Live, Unmade
<1>2. \A d \in Doc : approval'[d].row # "none" => approval'[d].session \in Session
  BY DEF ListedInv, Unmade
<1>3. \A s \in Session : session'[s] = "none" => listed'[s] = {}
  BY DEF ListedInv
<1>4. ASSUME NEW q \in Client, request'[q].op = "generate"
      PROVE  /\ session'[request'[q].session] # "none"
             /\ \A d \in request'[q].new : approval'[d].session = request'[q].session
             /\ Open(request[q].session)' /\ request'[q].session \notin raced'.sessions =>
                   request'[q].listed = listed'[request'[q].session] \cup request'[q].new
  <2>1. /\ request[q].op = "generate" /\ request'[q].session = request[q].session
        /\ request'[q].new = request[q].new /\ request'[q].listed = request[q].listed
    BY <1>4 DEF GoesOn
  <2>2. request[q].session \in Session /\ request[q].new \subseteq Doc
    BY <2>1, GenerationOf
  <2>3. ASSUME NEW d \in request[q].new PROVE approval'[d].session = approval[d].session
    <3>1. d \in Doc /\ Holding(q, d)'
      BY <1>4, <2>1, <2>2 DEF Holding
    <3>2. approval'[d].row = "held"
      BY <3>1 DEF HeldInv
    <3> QED BY <3>1, <3>2 DEF Unmade
  <2> QED BY <2>1, <2>2, <2>3 DEF ListedInv, Open
<1>5. \A p, q \in Client, s \in Session :
         GeneratingFor(p, s)' /\ GeneratingFor(q, s)' => p = q \/ s \in raced'.sessions
  BY DEF ListedInv, GeneratingFor, GoesOn
<1> QED BY <1>1, <1>2, <1>3, <1>4, <1>5 DEF ListedInv

\* Only the acting request may stop to go on.
LEMMA OthersGoOn ==
  ASSUME TypeOK, NEW q \in Client, NEW r,
         Ask(q, r) \/ Proceed(q, r) \/ (Answered(q) /\ r = NoRequest),
         r.op = "generate" =>
            /\ request[q].op = "generate" /\ r.session = request[q].session
            /\ r.new = request[q].new /\ r.listed = request[q].listed
  PROVE  \A p \in Client : GoesOn(p)
<1>1. request'[q] = r /\ \A p \in Client \ {q} : request'[p] = request[p]
  BY OwnReferences
<1> QED BY <1>1 DEF GoesOn

LEMMA AnsweredGoesOn ==
  ASSUME TypeOK, NEW q \in Client, Answered(q)
  PROVE  \A p \in Client : GoesOn(p)
<1>1. NoRequest.op # "generate"
  BY DEF NoRequest
<1> QED BY <1>1, OthersGoOn

\* A request that has not to do with generations lists nothing.
LEMMA ListedOther ==
  ASSUME TypeOK, TypeOK', HeldInv', ListedInv, NEW q \in Client,
         \/ \E s \in Session, op \in {"answer", "complete"} : Visit(q, s, op)
         \/ AnswerCommit(q) \/ CompleteCommit(q) \/ AdvanceCommit(q) \/ DecideLoad(q) \/ DecideCommit(q)
         \/ \E d \in Doc : \/ \E role \in Staffed, action \in {"approve", "reject"} : AdvanceCheck(q, d, role, action)
                           \/ \E decision \in {"eligible", "rejected"} : DecideCheck(q, d, decision)
  PROVE  ListedInv'
<1>1. listed' = listed
  BY Zenon DEF Visit, AnswerCommit, CompleteCommit, AdvanceCommit, DecideLoad, DecideCommit, AdvanceCheck, DecideCheck
<1>2. \A d \in Doc : Unmade(d)
  <2>1. CASE AdvanceCommit(q) /\ Live(request[q].doc)
    BY <2>1, AdvanceWrites DEF Live, Unmade
  <2>2. CASE DecideCommit(q) /\ Live(request[q].doc) /\ Stored(request[q].doc)
    BY <2>2, DecideWrites DEF Live, Unmade
  <2>3. CASE approval' = approval
    BY <2>3 DEF Live, Unmade
  <2>4. \/ AdvanceCommit(q) /\ Live(request[q].doc)
        \/ DecideCommit(q) /\ Live(request[q].doc) /\ Stored(request[q].doc)
        \/ approval' = approval
    BY Zenon DEF Visit, AnswerCommit, CompleteCommit, AdvanceCommit, DecideLoad, DecideCommit, AdvanceCheck, DecideCheck
  <2> QED BY <2>1, <2>2, <2>3, <2>4
<1>3. \A s \in Session : /\ session'[s] = "none" => session[s] = "none"
                         /\ session[s] = "deleted" => session'[s] = "deleted"
  <2>1. CASE AnswerCommit(q)
    BY <2>1 DEF AnswerCommit, TypeOK, Flush, Open
  <2>2. CASE CompleteCommit(q)
    BY <2>2 DEF CompleteCommit, TypeOK, Flush, Open
  <2>3. CASE session' = session
    BY <2>3
  <2>4. AnswerCommit(q) \/ CompleteCommit(q) \/ session' = session
    BY Zenon DEF Visit, AdvanceCommit, DecideLoad, DecideCommit, AdvanceCheck, DecideCheck
  <2> QED BY <2>1, <2>2, <2>3, <2>4
<1>4. \A p \in Client : GoesOn(p)
  <2>1. CASE Answered(q)
    BY <2>1, AnsweredGoesOn
  <2>2. ASSUME NEW s \in Session, NEW op \in {"answer", "complete"}, Visit(q, s, op)
        PROVE  \A p \in Client : GoesOn(p)
    BY <2>2, OthersGoOn DEF Visit
  <2>3. ASSUME NEW d \in Doc, NEW role \in Staffed, NEW action \in {"approve", "reject"}, AdvanceCheck(q, d, role, action)
        PROVE  \A p \in Client : GoesOn(p)
    BY <2>3, OthersGoOn DEF AdvanceCheck
  <2>4. ASSUME NEW d \in Doc, NEW decision \in {"eligible", "rejected"}, DecideCheck(q, d, decision)
        PROVE  \A p \in Client : GoesOn(p)
    BY <2>4, OthersGoOn DEF DecideCheck
  <2>5. CASE DecideLoad(q)
    BY <2>1, <2>5, OthersGoOn DEF DecideLoad
  <2> QED BY <2>1, <2>2, <2>3, <2>4, <2>5 DEF AnswerCommit, CompleteCommit, AdvanceCommit, DecideCommit
<1>5. raced'.sessions = raced.sessions
  BY MeetSessions DEF Visit, AnswerCommit, CompleteCommit, AdvanceCommit, DecideLoad, DecideCommit,
                      AdvanceCheck, DecideCheck
<1> QED BY <1>1, <1>2, <1>3, <1>4, <1>5, ListedKept

\* A generation lists what it inserts and what its session listed when it began ...
LEMMA ListedGenerating ==
  ASSUME TypeOK, TypeOK', HeldInv', ListedInv, NEW q \in Client,
         \/ SaveRead(q) \/ SaveCommit(q) \/ SaveFails(q) \/ RollBack(q)
  PROVE  ListedInv'
<1>1. listed' = listed /\ session' = session /\ raced' = raced
  BY Zenon DEF SaveRead, SaveCommit, SaveFails, RollBack, rows
<1>2. \A d \in Doc : Unmade(d)
  <2>1. NoApproval.row = "none"
    BY DEF NoApproval
  <2>2. CASE approval' = approval
    BY <2>2 DEF Live, Unmade
  <2>3. ASSUME NEW S, approval' = [d \in Doc |-> IF d \in S THEN NoApproval ELSE approval[d]]
        PROVE  \A d \in Doc : Unmade(d)
    BY <2>1, <2>3 DEF Live, Unmade
  <2> QED BY <2>2, <2>3, Zenon DEF SaveRead, SaveCommit, SaveFails, RollBack
<1>3. \A p \in Client : GoesOn(p)
  <2>1. CASE RollBack(q)
    BY <2>1, AnsweredGoesOn DEF RollBack
  <2>2. CASE SaveRead(q) \/ SaveCommit(q) \/ SaveFails(q)
    <3>1. request[q].op = "generate" /\ request[q] \in Generations
      BY <2>2, GenerationOf DEF SaveRead, SaveCommit, SaveFails, Generating
    <3>3. CASE SaveRead(q)
      <4> DEFINE r == [request[q] EXCEPT !.stage = "save",
                                         !.old = {d \in Doc : Earlier(d, Head(request[q].todo))}]
      <4>1. r.session = request[q].session /\ r.new = request[q].new /\ r.listed = request[q].listed
        BY <3>1 DEF Generations
      <4>2. Proceed(q, r)
        BY <3>3 DEF SaveRead
      <4> HIDE DEF r
      <4> QED BY <3>1, <4>1, <4>2, OthersGoOn
    <3>4. CASE SaveFails(q)
      <4> DEFINE r == [request[q] EXCEPT !.stage = "read", !.todo = Tail(@), !.old = {}, !.doc = NoDoc]
      <4>1. r.session = request[q].session /\ r.new = request[q].new /\ r.listed = request[q].listed
        BY <3>1 DEF Generations
      <4>2. Proceed(q, r)
        BY <3>4 DEF SaveFails
      <4> HIDE DEF r
      <4> QED BY <3>1, <4>1, <4>2, OthersGoOn
    <3>5. CASE SaveCommit(q)
      <4>1. PICK new \in Doc : Proceed(q, [request[q] EXCEPT !.stage = "insert", !.doc = new, !.old = {}])
        BY <3>5 DEF SaveCommit
      <4> DEFINE r == [request[q] EXCEPT !.stage = "insert", !.doc = new, !.old = {}]
      <4>2. r.session = request[q].session /\ r.new = request[q].new /\ r.listed = request[q].listed
        BY <3>1 DEF Generations
      <4>3. Proceed(q, r)
        BY <4>1
      <4> HIDE DEF r
      <4> QED BY <3>1, <4>2, <4>3, OthersGoOn
    <3> QED BY <2>2, <3>3, <3>4, <3>5
  <2> QED BY <2>1, <2>2
<1> QED BY <1>1, <1>2, <1>3, ListedKept

\* ... and an approval that it inserts belongs to that session: no other generation
\* holds one of the same document.
LEMMA ListedInsert ==
  ASSUME TypeOK, FreshInv, HeldInv, ListedInv, NEW q \in Client, InsertApproval(q),
         Stored(request[q].doc), Open(request[q].session)
  PROVE  ListedInv'
<1> DEFINE r == request[q]
           row == [NoApproval EXCEPT !.row = "held", !.session = r.session, !.chain = r.chain, !.step = 1]
           new == [r EXCEPT !.stage = "read", !.todo = Tail(@), !.doc = NoDoc,
                            !.new = @ \cup {r.doc}, !.listed = @ \cup {r.doc}]
<1>1. r \in Generations /\ r.op = "generate" /\ r.doc \in Doc /\ Inserting(q, r.doc)
  BY GenerationOf DEF InsertApproval, Generating, Generations, Inserting
<1>2. /\ UNCHANGED <<session, listed, raced>> /\ approval' = [approval EXCEPT ![r.doc] = row]
      /\ Proceed(q, new)
  BY DEF InsertApproval
<1>3. row.row = "held" /\ row.session = r.session
  BY DEF NoApproval
<1>4. /\ new.op = "generate" /\ new.session = r.session
      /\ new.new = r.new \cup {r.doc} /\ new.listed = r.listed \cup {r.doc}
  BY <1>1 DEF Generations
<1> HIDE DEF row, new
<1>5. request'[q] = new /\ \A p \in Client \ {q} : request'[p] = request[p]
  BY <1>2, OwnReferences
<1>6. approval'[r.doc] = row /\ \A d \in Doc \ {r.doc} : approval'[d] = approval[d]
  BY <1>1, <1>2 DEF TypeOK
<1>7. ApprovalsListed'
  BY <1>2, <1>3, <1>6 DEF ListedInv, ApprovalsListed, Live
<1>8. \A p \in Client : ~Holding(p, r.doc)
  BY <1>1 DEF FreshInv, Unreferred, HeldInv
<1>9. ASSUME NEW p \in Client, request'[p].op = "generate"
      PROVE  /\ session'[request'[p].session] # "none"
             /\ \A d \in request'[p].new : approval'[d].session = request'[p].session
             /\ Open(request[p].session)' /\ request'[p].session \notin raced'.sessions =>
                   request'[p].listed = listed'[request'[p].session] \cup request'[p].new
  <2>1. CASE p = q
    <3>1. r.new \subseteq Doc
      BY <1>1 DEF Generations
    <3>2. \A d \in r.new : approval'[d].session = r.session
      BY <1>1, <1>6, <1>8, <3>1 DEF ListedInv, Holding
    <3> QED BY <1>1, <1>2, <1>3, <1>4, <1>5, <1>6, <2>1, <3>2 DEF ListedInv, Open
  <2>2. CASE p # q
    <3>1. request'[p] = request[p] /\ request[p].new \subseteq Doc
      BY <1>5, <1>9, <2>2, GenerationOf
    <3>2. \A d \in request[p].new : approval'[d] = approval[d]
      BY <1>6, <1>8, <1>9, <3>1 DEF Holding
    <3> QED BY <1>2, <1>9, <3>1, <3>2 DEF ListedInv, Open
  <2> QED BY <2>1, <2>2
<1>10. \A d \in Doc : approval'[d].row # "none" => approval'[d].session \in Session
  BY <1>1, <1>3, <1>6 DEF ListedInv, Generations
<1>11. \A p, o \in Client, s \in Session :
         GeneratingFor(p, s)' /\ GeneratingFor(o, s)' => p = o \/ s \in raced'.sessions
  <2>1. \A p \in Client, s \in Session : GeneratingFor(p, s)' => GeneratingFor(p, s)
    BY <1>1, <1>4, <1>5 DEF GeneratingFor
  <2> QED BY <1>2, <2>1 DEF ListedInv
<1> QED BY <1>2, <1>7, <1>9, <1>10, <1>11 DEF ListedInv

\* What a generation has inserted becomes live as it is listed; another one at work on
\* the session would have made it raced.
LEMMA ListedCommit ==
  ASSUME TypeOK, HeldInv, ListedInv, NEW q \in Client, GenerateCommit(q), Open(request[q].session)
  PROVE  ListedInv'
<1> DEFINE r == request[q]
           s == r.session
<1>1. r \in Generations /\ r.op = "generate" /\ s \in Session /\ r.new \subseteq Doc
  BY GenerationOf DEF GenerateCommit, Generating
<1>2. /\ session' = [session EXCEPT ![s] = Flush(@, r.seen, "in_approval")]
      /\ listed' = [listed EXCEPT ![s] = IF r.new = {} THEN @ ELSE r.listed]
      /\ approval' = [d \in Doc |-> IF d \in r.new THEN [approval[d] EXCEPT !.row = "live"] ELSE approval[d]]
      /\ Answered(q) /\ raced' = raced
  BY DEF GenerateCommit
<1>3. request'[q].op = "none" /\ \A p \in Client \ {q} : request'[p] = request[p]
  <2>1. request'[q] = NoRequest /\ \A p \in Client \ {q} : request'[p] = request[p]
    BY <1>2, OwnReferences
  <2> QED BY <2>1 DEF NoRequest
<1>4. /\ \A d \in r.new : approval[d].session = s
      /\ s \notin raced.sessions => r.listed = listed[s] \cup r.new
  BY <1>1 DEF ListedInv
<1>5. /\ \A z \in Session \ {s} : listed'[z] = listed[z] /\ session'[z] = session[z]
      /\ s \notin raced.sessions => listed'[s] = listed[s] \cup r.new
      /\ session[s] # "none" /\ session'[s] # "none" /\ session'[s] # "deleted"
  BY <1>1, <1>2, <1>4 DEF TypeOK, Flush, Open
<1>6. ASSUME NEW d \in Doc
      PROVE  /\ approval'[d].session = approval[d].session
             /\ approval'[d].row = "live" => Live(d) \/ d \in r.new
             /\ approval[d].row # "none" => approval[d].session \in Session
             /\ approval'[d].row # "none" => approval[d].row # "none"
  <2>1. approval[d] \in Approvals
    BY DEF TypeOK
  <2>2. d \in r.new => approval[d].row = "held"
    BY <1>1 DEF HeldInv, Holding
  <2> QED BY <1>2, <2>1, <2>2 DEF Approvals, Live, ListedInv
<1>7. ApprovalsListed'
  <2> SUFFICES ASSUME NEW d \in Doc, approval'[d].row = "live", approval'[d].session \notin raced.sessions
               PROVE  d \in listed'[approval'[d].session]
    BY <1>2 DEF ApprovalsListed, Live
  <2>1. CASE d \in r.new
    BY <1>4, <1>5, <1>6, <2>1
  <2>2. CASE Live(d)
    <3>1. d \in listed[approval[d].session] /\ approval[d].session \in Session
      BY <1>6, <2>2 DEF ListedInv, ApprovalsListed, Live
    <3> QED BY <1>5, <1>6, <3>1
  <2> QED BY <1>6, <2>1, <2>2
<1>8. ASSUME NEW z \in Session, session'[z] = "none" PROVE listed'[z] = {}
  BY <1>5, <1>8 DEF ListedInv
<1>9. ASSUME NEW p \in Client, request'[p].op = "generate"
      PROVE  /\ session'[request'[p].session] # "none"
             /\ \A d \in request'[p].new : approval'[d].session = request'[p].session
             /\ Open(request[p].session)' /\ request'[p].session \notin raced'.sessions =>
                   request'[p].listed = listed'[request'[p].session] \cup request'[p].new
  <2>1. p # q /\ request'[p] = request[p]
    BY <1>3, <1>9
  <2>2. request[p].session \in Session /\ request[p].new \subseteq Doc
    BY <1>9, <2>1, GenerationOf
  <2>3. request[p].session = s => s \in raced.sessions
    BY <1>1, <1>9, <2>1 DEF ListedInv, GeneratingFor
  <2>4. session'[request[p].session] # "none" /\ \A d \in request[p].new : approval'[d].session = request[p].session
    BY <1>5, <1>6, <1>9, <2>1, <2>2 DEF ListedInv
  <2>5. CASE request[p].session = s
    BY <1>2, <2>1, <2>3, <2>4, <2>5
  <2>6. CASE request[p].session # s
    BY <1>2, <1>5, <1>9, <2>1, <2>2, <2>4, <2>6 DEF ListedInv, Open
  <2> QED BY <2>5, <2>6
<1>10. \A p, o \in Client, z \in Session :
         GeneratingFor(p, z)' /\ GeneratingFor(o, z)' => p = o \/ z \in raced'.sessions
  <2>1. \A p \in Client, z \in Session : GeneratingFor(p, z)' => GeneratingFor(p, z)
    BY <1>3 DEF GeneratingFor
  <2> QED BY <1>2, <2>1 DEF ListedInv
<1>11. \A d \in Doc : approval'[d].row # "none" => approval'[d].session \in Session
  BY <1>6
<1> QED BY <1>7, <1>8, <1>9, <1>10, <1>11 DEF ListedInv

\* A generation starts from what its session lists, and remembers the race if another
\* one is at work on the session; a new session has none.
LEMMA ListedBegin ==
  ASSUME TypeOK, ListedInv, NEW q \in Client, NEW s \in Session,
         Generate(q, s) \/ \E p \in demand.plans : StartDraft(q, s, p)
  PROVE  ListedInv'
<1>1. approval' = approval /\ listed' = listed
  BY DEF Generate, StartDraft
<1>2. /\ \E chain, p, seen : request'[q] = Generation(s, chain, p, seen, listed[s])
      /\ \A p \in Client \ {q} : request'[p] = request[p]
  <2>1. CASE Generate(q, s)
    BY <2>1, OwnReferences DEF Generate
  <2>2. ASSUME NEW p \in demand.plans, StartDraft(q, s, p)
        PROVE  /\ \E chain, o, seen : request'[q] = Generation(s, chain, o, seen, listed[s])
               /\ \A o \in Client \ {q} : request'[o] = request[o]
    <3>1. listed[s] = {}
      BY <2>2 DEF StartDraft, ListedInv
    <3>2. /\ request'[q] = Generation(s, "draft", p, "artifact_pending", {})
          /\ \A o \in Client \ {q} : request'[o] = request[o]
      BY <2>2, OwnReferences DEF StartDraft
    <3> QED BY <3>1, <3>2
  <2> QED BY <2>1, <2>2
<1>3. request'[q].session = s /\ request'[q].new = {} /\ request'[q].listed = listed[s]
  BY <1>2 DEF Generation
<1>4. session'[s] # "none" /\ \A z \in Session \ {s} : session'[z] = session[z]
  BY DEF Generate, StartDraft, Open, TypeOK
<1>12. session[s] = "none" \/ session'[s] = session[s]
  BY DEF Generate, StartDraft
<1>5. /\ raced.sessions \subseteq raced'.sessions
      /\ \A p \in Client \ {q} : GeneratingFor(p, s) => s \in raced'.sessions
  <2>1. CASE Generate(q, s)
    BY <2>1 DEF Generate, MeetOn, TypeOK
  <2>2. CASE \E p \in demand.plans : StartDraft(q, s, p)
    BY <2>2 DEF StartDraft, ListedInv, GeneratingFor
  <2> QED BY <2>1, <2>2
<1>6. ApprovalsListed'
  BY <1>1, <1>5 DEF ListedInv, ApprovalsListed, Live
<1>7. \A z \in Session : session'[z] = "none" => listed'[z] = {}
  BY <1>1, <1>4 DEF ListedInv
<1>8. \A d \in Doc : approval'[d].row # "none" => approval'[d].session \in Session
  BY <1>1 DEF ListedInv
<1>9. ASSUME NEW p \in Client, request'[p].op = "generate"
      PROVE  /\ session'[request'[p].session] # "none"
             /\ \A d \in request'[p].new : approval'[d].session = request'[p].session
             /\ Open(request[p].session)' /\ request'[p].session \notin raced'.sessions =>
                   request'[p].listed = listed'[request'[p].session] \cup request'[p].new
  <2>1. CASE p = q
    BY <1>1, <1>3, <1>4, <2>1
  <2>2. CASE p # q
    <3>1. request'[p] = request[p] /\ request[p].session \in Session
      BY <1>2, <1>9, <2>2, GenerationOf
    <3>2. session[request[p].session] # "none"
      BY <1>9, <3>1 DEF ListedInv
    <3>3. session'[request[p].session] = session[request[p].session]
      BY <1>4, <1>12, <3>1, <3>2
    <3> QED BY <1>1, <1>5, <1>9, <3>1, <3>3 DEF ListedInv, Open
  <2> QED BY <2>1, <2>2
<1>10. \A p, o \in Client, z \in Session :
         GeneratingFor(p, z)' /\ GeneratingFor(o, z)' => p = o \/ z \in raced'.sessions
  <2>1. \A p \in Client \ {q}, z \in Session : GeneratingFor(p, z)' => GeneratingFor(p, z)
    BY <1>2 DEF GeneratingFor
  <2>2. \A z \in Session : GeneratingFor(q, z)' => z = s
    BY <1>3 DEF GeneratingFor
  <2> QED BY <1>5, <2>1, <2>2 DEF ListedInv
<1> QED BY <1>6, <1>7, <1>8, <1>9, <1>10 DEF ListedInv

\* A session that is deleted takes its approvals and its list along.
LEMMA ListedSession ==
  ASSUME TypeOK, TypeOK', HeldInv, HeldInv', ListedInv, NEW s \in Session, Start(s) \/ Delete(s)
  PROVE  ListedInv'
<1>1. CASE Start(s)
  <2>1. listed' = listed /\ approval' = approval /\ request' = request /\ raced' = raced
    BY <1>1 DEF Start
  <2>2. session[s] = "none" /\ session'[s] = "active" /\ \A z \in Session \ {s} : session'[z] = session[z]
    BY <1>1 DEF Start, TypeOK
  <2>3. (\A d \in Doc : Unmade(d)) /\ (\A p \in Client : GoesOn(p))
    BY <2>1 DEF Unmade, Live, GoesOn
  <2> QED BY <2>1, <2>2, <2>3, ListedKept
<1>2. CASE Delete(s)
  <2>1. /\ session'[s] = "deleted" /\ listed'[s] = {} /\ request' = request /\ raced' = raced
        /\ \A z \in Session \ {s} : session'[z] = session[z] /\ listed'[z] = listed[z]
    BY <1>2 DEF Delete, TypeOK
  <2>2. approval' = [d \in Doc |-> IF approval[d].session = s THEN NoApproval ELSE approval[d]]
    BY <1>2 DEF Delete
  <2>3. NoApproval.row = "none"
    BY DEF NoApproval
  <2>4. ASSUME NEW d \in Doc, approval'[d].row # "none"
        PROVE  approval'[d] = approval[d] /\ approval[d].session \in Session \ {s}
    BY <2>2, <2>3, <2>4 DEF ListedInv
  <2>7. ApprovalsListed'
    BY <2>1, <2>4 DEF ListedInv, ApprovalsListed, Live
  <2>5. ASSUME NEW q \in Client, request[q].op = "generate"
        PROVE  /\ session'[request[q].session] # "none"
               /\ \A d \in request[q].new : approval'[d].session = request[q].session
               /\ Open(request[q].session)' /\ request[q].session \notin raced.sessions =>
                     request[q].listed = listed'[request[q].session] \cup request[q].new
    <3>1. request[q].session \in Session /\ request[q].new \subseteq Doc
      BY <2>5, GenerationOf
    <3>2. ASSUME NEW d \in request[q].new PROVE approval'[d] = approval[d]
      <4>1. approval[d].row = "held"
        BY <2>5, <3>1 DEF HeldInv, Holding
      <4>2. approval[d].session # s
        BY <1>2, <3>1, <4>1 DEF Delete
      <4> QED BY <2>2, <3>1, <4>2
    <3> QED BY <2>1, <2>5, <3>1, <3>2 DEF ListedInv, Open
  <2>6. \A z \in Session : session'[z] = "none" => listed'[z] = {}
    BY <2>1 DEF ListedInv
  <2>8. \A p, q \in Client, z \in Session :
           GeneratingFor(p, z)' /\ GeneratingFor(q, z)' => p = q \/ z \in raced'.sessions
    BY <2>1 DEF ListedInv, GeneratingFor
  <2> QED BY <2>1, <2>4, <2>5, <2>6, <2>7, <2>8 DEF ListedInv
<1> QED BY <1>1, <1>2

----------------------------------------------------------------------------
(* The records of a decision agree.                                        *)

\* What settles a document's records stays, or its approval goes.
Unchanged(d) ==
    approval'[d].row # "none" =>
        /\ approval[d].row # "none"
        /\ approval'[d].step = approval[d].step /\ approval'[d].overall = approval[d].overall
        /\ approval'[d].eligibility = approval[d].eligibility
        /\ document'[d] = document[d]

\* A request is at work on what it was at work on, or has loaded what stands, alone
\* unless the document is raced.
Reloaded(p, d) ==
    /\ approval'[d].row # "none" /\ d \notin raced'.docs => Loaded(p, d)'
    /\ \A o \in Client \ {p} : Working(o, d)' => d \in raced'.docs
WorkKept ==
    \A p \in Client, d \in Doc : Working(p, d)' => request'[p] = request[p] \/ Reloaded(p, d)

\* A step keeps the agreement if every document is unchanged, raced, or settled anew
\* with nobody at work on it.
LEMMA AgreeKept ==
  ASSUME AgreeInv, raced.docs \subseteq raced'.docs, WorkKept,
         \A d \in Doc : \/ Unchanged(d)
                        \/ d \in raced.docs
                        \/ Settled(d)' /\ \A p \in Client : ~Working(p, d)',
         \A p \in Client, d \in Doc : Inserting(p, d)' => Clean(d)'
  PROVE  AgreeInv'
<1>1. ASSUME NEW d \in Doc, approval'[d].row # "none", d \notin raced'.docs
      PROVE  Settled(d)' /\ \A q \in Client : Working(q, d)' => Loaded(q, d)'
  <2>1. CASE Unchanged(d)
    <3>1. Settled(d) /\ \A q \in Client : Working(q, d) => Loaded(q, d)
      BY <1>1, <2>1 DEF AgreeInv, Unchanged
    <3>2. Settled(d)'
      BY <1>1, <2>1, <3>1 DEF Unchanged, Settled, Agree
    <3>3. ASSUME NEW q \in Client, Working(q, d)', request'[q] = request[q]
          PROVE  Loaded(q, d)'
      <4>1. Loaded(q, d)
        BY <3>1, <3>3 DEF Working
      <4> QED BY <1>1, <2>1, <3>3, <4>1 DEF Unchanged, Loaded, Stored
    <3> QED BY <1>1, <3>2, <3>3 DEF WorkKept, Reloaded
  <2>2. CASE Settled(d)' /\ \A p \in Client : ~Working(p, d)'
    BY <2>2
  <2> QED BY <1>1, <2>1, <2>2
<1>2. ASSUME NEW p \in Client, NEW q \in Client, NEW d \in Doc, Working(p, d)', Working(q, d)', p # q
      PROVE  d \in raced'.docs
  <2>1. CASE request'[p] = request[p] /\ request'[q] = request[q]
    BY <1>2, <2>1 DEF AgreeInv, Working
  <2>2. CASE Reloaded(p, d) \/ Reloaded(q, d)
    BY <1>2, <2>2 DEF Reloaded
  <2> QED BY <1>2, <2>1, <2>2 DEF WorkKept
<1> QED BY <1>1, <1>2 DEF AgreeInv

\* The races that two generations add are none of documents.
LEMMA MeetDocs ==
  ASSUME TypeOK, \/ \E d \in Doc : Meet(d)
                 \/ \E s \in Session : MeetOn(s)
  PROVE  raced.docs \subseteq raced'.docs
BY DEF TypeOK, Meet, MeetOn

\* Only the acting request may come to be at work on something else.
LEMMA OthersWork ==
  ASSUME TypeOK, NEW q \in Client, NEW r,
         Ask(q, r) \/ Proceed(q, r) \/ (Answered(q) /\ r = NoRequest),
         r.op \in {"advance", "decide"} => Reloaded(q, r.doc)
  PROVE  WorkKept
<1>1. request'[q] = r /\ \A p \in Client \ {q} : request'[p] = request[p]
  BY OwnReferences
<1> QED BY <1>1 DEF WorkKept, Working

\* Documents that are being inserted stay clean if they stay what they are.
LEMMA OthersInsert ==
  ASSUME TypeOK, AgreeInv, NEW q \in Client, NEW r, document' = document,
         Ask(q, r) \/ Proceed(q, r) \/ (Answered(q) /\ r = NoRequest),
         r.op = "generate" => r.stage # "insert"
  PROVE  \A p \in Client, d \in Doc : Inserting(p, d)' => Clean(d)'
<1>1. request'[q] = r /\ \A p \in Client \ {q} : request'[p] = request[p]
  BY OwnReferences
<1>2. \A p \in Client, d \in Doc : Inserting(p, d)' => Inserting(p, d)
  BY <1>1 DEF Inserting, Generating
<1> QED BY <1>2 DEF AgreeInv, Clean

LEMMA NoRequestIdle ==
  NoRequest.op \notin {"advance", "decide", "generate"}
BY DEF NoRequest

\* A request that writes no document, and loads none, leaves the records in agreement.
LEMMA AgreeIdle ==
  ASSUME TypeOK, AgreeInv, NEW q \in Client, NEW r, document' = document,
         raced.docs \subseteq raced'.docs, \A d \in Doc : Unchanged(d),
         Ask(q, r) \/ Proceed(q, r) \/ (Answered(q) /\ r = NoRequest),
         r.op \notin {"advance", "decide"},
         r.op = "generate" => r.stage # "insert"
  PROVE  AgreeInv'
BY OthersWork, OthersInsert, AgreeKept

\* What a signature loads, and what a decision loads, is what stands; who finds another
\* at work on the document remembers it.
LEMMA AgreeAdvance ==
  ASSUME TypeOK, AgreeInv, NEW q \in Client, NEW d \in Doc, NEW role \in Staffed,
         NEW action \in {"approve", "reject"}, AdvanceCheck(q, d, role, action)
  PROVE  AgreeInv'
<1> DEFINE r == [op |-> "advance", doc |-> d, by |-> role, action |-> action,
                 step |-> approval[d].step, seen |-> approval[d].overall, marks |-> approval[d].marks]
<1>1. approval' = approval /\ document' = document /\ Ask(q, r) /\ approval[d].step < Complete /\ Meet(d)
  BY DEF AdvanceCheck
<1>2. request'[q] = r /\ \A p \in Client \ {q} : request'[p] = request[p]
  BY <1>1, OwnReferences
<1>3. /\ r.op = "advance" /\ r.doc = d /\ r.step = approval[d].step
      /\ r.seen = approval[d].overall
  OBVIOUS
<1> HIDE DEF r
<1>4. Reloaded(q, d)
  <2>1. \A o \in Client \ {q} : Working(o, d)' => d \in raced'.docs
    BY <1>1, <1>2 DEF Meet, Working, TypeOK
  <2>2. Loaded(q, d)'
    BY <1>1, <1>2, <1>3 DEF Loaded
  <2> QED BY <2>1, <2>2 DEF Reloaded
<1>5. WorkKept
  BY <1>1, <1>3, <1>4, OthersWork
<1>6. \A p \in Client, e \in Doc : Inserting(p, e)' => Clean(e)'
  BY <1>1, <1>3, OthersInsert
<1>7. \A e \in Doc : Unchanged(e)
  BY <1>1 DEF Unchanged
<1> QED BY <1>1, <1>5, <1>6, <1>7, MeetDocs, AgreeKept

\* The same of a decision.
LEMMA AgreeDecide ==
  ASSUME TypeOK, AgreeInv, NEW q \in Client,
         \/ \E d \in Doc, decision \in {"eligible", "rejected"} : DecideCheck(q, d, decision)
         \/ DecideLoad(q)
  PROVE  AgreeInv'
<1>1. approval' = approval /\ document' = document
  BY DEF DecideCheck, DecideLoad
<1>2. \A e \in Doc : Unchanged(e)
  BY <1>1 DEF Unchanged
<1>3. ASSUME NEW d \in Doc, NEW decision \in {"eligible", "rejected"}, DecideCheck(q, d, decision)
      PROVE  AgreeInv'
  <2> DEFINE r == [op |-> "decide", stage |-> "document", doc |-> d, decision |-> decision,
                   seen |-> approval[d].eligibility]
  <2>1. Ask(q, r) /\ Meet(d) /\ (decision = "eligible" => approval[d].overall = "approved")
    BY <1>3 DEF DecideCheck, Decidable
  <2>2. request'[q] = r /\ \A p \in Client \ {q} : request'[p] = request[p]
    BY <2>1, OwnReferences
  <2>3. /\ r.op = "decide" /\ r.doc = d /\ r.stage = "document" /\ r.seen = approval[d].eligibility
        /\ r.decision = decision
    OBVIOUS
  <2> HIDE DEF r
  <2>4. Reloaded(q, d)
    <3>1. \A o \in Client \ {q} : Working(o, d)' => d \in raced'.docs
      BY <2>1, <2>2 DEF Meet, Working, TypeOK
    <3>2. Loaded(q, d)'
      BY <1>1, <2>1, <2>2, <2>3 DEF Loaded
    <3> QED BY <3>1, <3>2 DEF Reloaded
  <2>5. WorkKept
    BY <2>1, <2>3, <2>4, OthersWork
  <2>6. \A p \in Client, e \in Doc : Inserting(p, e)' => Clean(e)'
    BY <1>1, <2>1, <2>3, OthersInsert
  <2> QED BY <1>2, <2>1, <2>5, <2>6, MeetDocs, AgreeKept
<1>4. CASE DecideLoad(q)
  <2> DEFINE o == request[q]
             r == [op |-> "decide", stage |-> "commit", doc |-> o.doc, decision |-> o.decision,
                   seen |-> o.seen, loaded |-> document[o.doc]]
  <2>1. CASE Stored(o.doc)
    <3>1. Proceed(q, r) /\ o.op = "decide" /\ o.stage = "document" /\ raced' = raced
      BY <1>4, <2>1 DEF DecideLoad
    <3>2. PICK d \in Doc : d = o.doc
      BY <3>1, RequestTyped, RequestKinds DEF Decisions
    <3>3. request'[q] = r /\ \A p \in Client \ {q} : request'[p] = request[p]
      BY <3>1, OwnReferences
    <3>4. /\ r.op = "decide" /\ r.doc = d /\ r.stage = "commit" /\ r.seen = o.seen
          /\ r.decision = o.decision /\ r.loaded = document[d]
      BY <3>2
    <3> HIDE DEF r
    <3>5. Working(q, d)
      BY <3>1, <3>2 DEF Working
    <3>6. Reloaded(q, d)
      <4>1. \A p \in Client \ {q} : Working(p, d)' => d \in raced'.docs
        BY <3>1, <3>2, <3>3, <3>5 DEF AgreeInv, Working
      <4>2. ASSUME approval'[d].row # "none", d \notin raced'.docs PROVE Loaded(q, d)'
        <5>1. Loaded(q, d)
          BY <1>1, <3>1, <3>2, <3>5, <4>2 DEF AgreeInv
        <5> QED BY <1>1, <3>1, <3>3, <3>4, <5>1 DEF Loaded
      <4> QED BY <4>1, <4>2 DEF Reloaded
    <3>7. WorkKept
      BY <3>1, <3>4, <3>6, OthersWork
    <3>8. \A p \in Client, e \in Doc : Inserting(p, e)' => Clean(e)'
      BY <1>1, <3>1, <3>4, OthersInsert
    <3> QED BY <1>2, <3>1, <3>7, <3>8, AgreeKept
  <2>2. CASE ~Stored(o.doc)
    <3>1. Answered(q) /\ raced' = raced
      BY <1>4, <2>2 DEF DecideLoad
    <3> QED BY <1>1, <1>2, <3>1, NoRequestIdle, AgreeIdle
  <2> QED BY <2>1, <2>2
<1> QED BY <1>3, <1>4

\* Nobody inserts an approval of a document that has one.
LEMMA NoneInserting ==
  ASSUME FreshInv, NEW d \in Doc, approval[d].row # "none", NEW p \in Client
  PROVE  ~Inserting(p, d)
BY DEF FreshInv, Unreferred

\* A signature or a decision is answered: nobody is at work on its document, or the
\* document is raced.
LEMMA AnsweredAlone ==
  ASSUME TypeOK, AgreeInv, NEW q \in Client, NEW d \in Doc, Working(q, d), Answered(q)
  PROVE  /\ WorkKept
         /\ d \in raced.docs \/ \A p \in Client : ~Working(p, d)'
<1>1. request'[q] = NoRequest /\ \A p \in Client \ {q} : request'[p] = request[p]
  BY OwnReferences
<1>2. WorkKept
  BY NoRequestIdle, OthersWork
<1>3. \A p \in Client : Working(p, d)' => p # q /\ Working(p, d)
  BY <1>1, NoRequestIdle DEF Working
<1> QED BY <1>2, <1>3 DEF AgreeInv

\* A signature that completes the chain approves the artifact, and one that does not can
\* not take back an approval, since there is no step left to sign.
LEMMA AgreeSigned ==
  ASSUME TypeOK, AgreeInv, NEW q \in Client, AdvanceCommit(q)
  PROVE  AgreeInv'
<1> DEFINE r == request[q]
           d == r.doc
<1>0. Answered(q) /\ document' = document /\ r.op = "advance" /\ raced' = raced
  BY DEF AdvanceCommit
<1>1. CASE ~Live(d)
  <2>1. \A e \in Doc : Unchanged(e)
    BY <1>0, <1>1 DEF AdvanceCommit, Unchanged
  <2> QED BY <1>0, <2>1, NoRequestIdle, AgreeIdle
<1>2. CASE Live(d)
  <2>0. PICK c \in Doc : c = d
    BY RequestTyped, RequestKinds DEF AdvanceCommit, Advances
  <2>1. /\ r \in Advances
        /\ \A e \in Doc \ {c} : approval'[e] = approval[e]
        /\ approval'[c].eligibility = approval[c].eligibility
        /\ approval[c].step = r.step /\ r.action = "approve" => approval'[c].step = r.step + 1
        /\ approval'[c].overall = "approved" =>
             \/ approval[c].overall = "approved"
             \/ r.action = "approve" /\ r.step + 1 = Complete
    BY <1>2, <2>0, AdvanceWrites
  <2>2. c \in Doc /\ Working(q, c)
    BY <1>0, <2>0 DEF Working
  <2>3. ASSUME c \notin raced.docs PROVE Settled(c)'
    <3>1. Settled(c) /\ approval[c].step = r.step /\ r.step < Complete
      BY <1>0, <1>2, <2>0, <2>2, <2>3 DEF AgreeInv, Live, Loaded
    <3>2. approval[c].overall # "approved"
      BY <3>1 DEF Settled, Complete
    <3>3. approval'[c].overall = "approved" => approval'[c].step = Complete
      BY <2>1, <3>1, <3>2
    <3>4. ~document[c].eligible /\ Agree(c)
      BY <3>1, <3>2 DEF Settled, Agree
    <3> QED BY <1>0, <2>1, <3>3, <3>4 DEF Settled, Agree
  <2>4. \A e \in Doc \ {c} : Unchanged(e)
    BY <1>0, <2>1 DEF Unchanged
  <2>5. WorkKept /\ (c \in raced.docs \/ \A p \in Client : ~Working(p, c)')
    BY <1>0, <2>2, AnsweredAlone
  <2>6. \A p \in Client, e \in Doc : Inserting(p, e)' => Clean(e)'
    BY <1>0, NoRequestIdle, OthersInsert
  <2> QED BY <1>0, <2>3, <2>4, <2>5, <2>6, AgreeKept
<1> QED BY <1>1, <1>2

\* A decision writes all three records, from what they are.
LEMMA AgreeDecided ==
  ASSUME TypeOK, FreshInv, AgreeInv, NEW q \in Client, DecideCommit(q)
  PROVE  AgreeInv'
<1> DEFINE r == request[q]
           d == r.doc
<1>0. Answered(q) /\ r.op = "decide" /\ r.stage = "commit" /\ raced' = raced
  BY DEF DecideCommit
<1>1. CASE ~(Live(d) /\ Stored(d))
  <2>1. document' = document /\ \A e \in Doc : Unchanged(e)
    BY <1>1 DEF DecideCommit, Unchanged
  <2> QED BY <1>0, <2>1, NoRequestIdle, AgreeIdle
<1>2. CASE Live(d) /\ Stored(d)
  <2>0. PICK c \in Doc : c = d
    BY RequestTyped, RequestKinds DEF DecideCommit, Decisions
  <2>1. /\ r \in Decisions
        /\ \A e \in Doc \ {c} : approval'[e] = approval[e] /\ document'[e] = document[e]
        /\ approval'[c].step = approval[c].step /\ approval'[c].overall = approval[c].overall
        /\ approval'[c].eligibility = Flush(approval[c].eligibility, r.seen, r.decision)
        /\ document'[c].status = Flush(document[c].status, r.loaded.status,
                                       IF r.decision = "eligible" THEN "approved" ELSE "rejected")
        /\ document'[c].eligible = Flush(document[c].eligible, r.loaded.eligible, r.decision = "eligible")
    BY <1>2, <2>0, DecideWrites
  <2>2. c \in Doc /\ r.decision \in {"eligible", "rejected"} /\ Working(q, c)
    BY <1>0, <2>0, <2>1 DEF Decisions, Working
  <2>3. ASSUME c \notin raced.docs PROVE Settled(c)'
    <3>1. /\ Settled(c) /\ approval[c].eligibility = r.seen
          /\ (r.decision = "eligible" => approval[c].overall = "approved")
          /\ r.loaded = document[c]
      BY <1>0, <1>2, <2>0, <2>2, <2>3 DEF AgreeInv, Live, Loaded
    <3>2. /\ approval'[c].eligibility = r.decision
          /\ document'[c].status = IF r.decision = "eligible" THEN "approved" ELSE "rejected"
          /\ document'[c].eligible = (r.decision = "eligible")
      BY <2>1, <3>1 DEF Flush
    <3>3. ASSUME NEW e \in Doc, e = c PROVE Agree(e)'
      <4>1. CASE r.decision = "eligible"
        <5>1. document'[e].eligible = TRUE
          BY <3>2, <3>3, <4>1
        <5>2. approval'[e].eligibility = "eligible" /\ document'[e].status = "approved"
          BY <3>2, <3>3, <4>1
        <5>3. approval'[e].overall = "approved"
          BY <2>1, <3>1, <3>3, <4>1
        <5> QED BY <5>1, <5>2, <5>3 DEF Agree
      <4>2. CASE r.decision = "rejected"
        <5>1. document'[e].eligible = FALSE
          BY <3>2, <3>3, <4>2
        <5>2. approval'[e].eligibility = "rejected" /\ document'[e].status = "rejected"
          BY <3>2, <3>3, <4>2
        <5> QED BY <5>1, <5>2 DEF Agree
      <4> QED BY <2>2, <4>1, <4>2
    <3>4. approval'[c].overall = "approved" => approval'[c].step = Complete
      BY <2>1, <3>1 DEF Settled
    <3> QED BY <2>2, <3>3, <3>4 DEF Settled
  <2>4. \A e \in Doc \ {c} : Unchanged(e)
    BY <2>1 DEF Unchanged
  <2>5. WorkKept /\ (c \in raced.docs \/ \A p \in Client : ~Working(p, c)')
    BY <1>0, <2>2, AnsweredAlone
  <2>6. ASSUME NEW p \in Client, NEW e \in Doc, Inserting(p, e)' PROVE Clean(e)'
    <3>1. Inserting(p, e)
      <4>1. request'[q] = NoRequest /\ \A o \in Client \ {q} : request'[o] = request[o]
        BY <1>0, OwnReferences
      <4> QED BY <2>6, <4>1, NoRequestIdle DEF Inserting, Generating
    <3>2. e # c
      BY <1>2, <2>0, <3>1, NoneInserting DEF Live
    <3> QED BY <2>1, <3>1, <3>2 DEF AgreeInv, Clean
  <2> QED BY <1>0, <2>3, <2>4, <2>5, <2>6, AgreeKept
<1> QED BY <1>1, <1>2

\* What has to do with sessions alone touches no records; a generation ends with
\* approvals of documents that nobody has decided about.
LEMMA AgreeGenerating ==
  ASSUME TypeOK, HeldInv, AgreeInv, NEW q \in Client,
         \/ \E s \in Session, op \in {"answer", "complete"} : Visit(q, s, op)
         \/ \E s \in Session : Generate(q, s) \/ \E p \in demand.plans : StartDraft(q, s, p)
         \/ AnswerCommit(q) \/ CompleteCommit(q) \/ SaveRead(q) \/ SaveFails(q) \/ RollBack(q)
         \/ GenerateCommit(q) /\ Open(request[q].session)
  PROVE  AgreeInv'
<1>1. document' = document
  BY Zenon DEF Visit, Generate, StartDraft, AnswerCommit, CompleteCommit, SaveRead, SaveFails, RollBack, GenerateCommit
<1>2. raced.docs \subseteq raced'.docs
  <2>1. raced' = raced \/ \E s \in Session : MeetOn(s)
    BY Zenon DEF Visit, Generate, StartDraft, AnswerCommit, CompleteCommit, SaveRead, SaveFails, RollBack, GenerateCommit
  <2> QED BY <2>1, MeetDocs
<1>3. \A d \in Doc : Unchanged(d)
  <2>2. ASSUME NEW S, approval' = [d \in Doc |-> IF d \in S THEN NoApproval ELSE approval[d]]
        PROVE  \A d \in Doc : Unchanged(d)
    <3>1. NoApproval.row = "none"
      BY DEF NoApproval
    <3> QED BY <1>1, <2>2, <3>1 DEF Unchanged
  <2>3. ASSUME NEW S, approval' = [d \in Doc |-> IF d \in S THEN [approval[d] EXCEPT !.row = "live"] ELSE approval[d]],
               \A d \in S : approval[d].row = "held"
        PROVE  \A d \in Doc : Unchanged(d)
    <3> SUFFICES ASSUME NEW d \in Doc PROVE Unchanged(d)
      OBVIOUS
    <3>1. approval[d] \in Approvals
      BY DEF TypeOK
    <3> QED BY <1>1, <2>3, <3>1 DEF Unchanged, Approvals
  <2>4. ASSUME approval' = approval PROVE \A d \in Doc : Unchanged(d)
    BY <1>1, <2>4 DEF Unchanged
  <2>5. CASE GenerateCommit(q) /\ Open(request[q].session)
    <3> DEFINE r == request[q]
    <3>1. r \in Generations /\ r.op = "generate"
      BY <2>5, GenerationOf DEF GenerateCommit, Generating
    <3>2. \A d \in r.new : approval[d].row = "held"
      BY <3>1 DEF HeldInv, Holding, Generations
    <3>3. approval' = [d \in Doc |-> IF d \in r.new THEN [approval[d] EXCEPT !.row = "live"] ELSE approval[d]]
      BY <2>5 DEF GenerateCommit
    <3> QED BY <2>3, <3>2, <3>3
  <2>6. CASE RollBack(q)
    BY <2>2, <2>4, <2>6 DEF RollBack
  <2>7. (GenerateCommit(q) /\ Open(request[q].session)) \/ RollBack(q) \/ approval' = approval
    BY Zenon DEF Visit, Generate, StartDraft, AnswerCommit, CompleteCommit, SaveRead, SaveFails
  <2> QED BY <2>4, <2>5, <2>6, <2>7
<1>4. \E r : /\ Ask(q, r) \/ Proceed(q, r) \/ (Answered(q) /\ r = NoRequest)
             /\ r.op \notin {"advance", "decide"}
             /\ r.op = "generate" => r.stage # "insert"
  <2>1. CASE Answered(q)
    BY <2>1, NoRequestIdle
  <2>2. ASSUME NEW s \in Session, NEW op \in {"answer", "complete"}, Visit(q, s, op)
        PROVE  \E r : Ask(q, r) /\ r.op \notin {"advance", "decide", "generate"}
    <3> DEFINE r == [op |-> op, session |-> s, seen |-> session[s]]
    <3>1. Ask(q, r) /\ r.op = op
      BY <2>2 DEF Visit
    <3> HIDE DEF r
    <3> QED BY <3>1
  <2>3. CASE \E s \in Session : Generate(q, s) \/ \E p \in demand.plans : StartDraft(q, s, p)
    <3>1. \E s, chain, p, seen, ids : Ask(q, Generation(s, chain, p, seen, ids))
      BY <2>3 DEF Generate, StartDraft
    <3>2. \A s, chain, p, seen, ids : /\ Generation(s, chain, p, seen, ids).op = "generate"
                                      /\ Generation(s, chain, p, seen, ids).stage = "read"
      BY DEF Generation
    <3> QED BY <3>1, <3>2
  <2>4. CASE SaveRead(q) \/ SaveFails(q)
    <3>1. request[q].op = "generate" /\ request[q] \in Generations
      BY <2>4, GenerationOf DEF SaveRead, SaveFails, Generating
    <3>2. CASE SaveRead(q)
      <4> DEFINE r == [request[q] EXCEPT !.stage = "save",
                                         !.old = {d \in Doc : Earlier(d, Head(request[q].todo))}]
      <4>1. r.op = "generate" /\ r.stage = "save"
        BY <3>1 DEF Generations
      <4>2. Proceed(q, r)
        BY <3>2 DEF SaveRead
      <4> HIDE DEF r
      <4> QED BY <4>1, <4>2
    <3>3. CASE SaveFails(q)
      <4> DEFINE r == [request[q] EXCEPT !.stage = "read", !.todo = Tail(@), !.old = {}, !.doc = NoDoc]
      <4>1. r.op = "generate" /\ r.stage = "read"
        BY <3>1 DEF Generations
      <4>2. Proceed(q, r)
        BY <3>3 DEF SaveFails
      <4> HIDE DEF r
      <4> QED BY <4>1, <4>2
    <3> QED BY <2>4, <3>2, <3>3
  <2> QED BY <2>1, <2>2, <2>3, <2>4 DEF AnswerCommit, CompleteCommit, RollBack, GenerateCommit
<1> QED BY <1>1, <1>2, <1>3, <1>4, AgreeIdle

\* Saving a document makes a draft, and takes the approvals of its earlier versions.
LEMMA AgreeSave ==
  ASSUME TypeOK, FreshInv, AgreeInv, NEW q \in Client, SaveCommit(q)
  PROVE  AgreeInv'
<1> DEFINE r == request[q]
<1>1. r \in Generations /\ r.op = "generate"
  BY GenerationOf DEF SaveCommit, Generating
<1>2. approval' = [d \in Doc |-> IF d \in r.old THEN NoApproval ELSE approval[d]] /\ raced' = raced
  BY DEF SaveCommit
<1>3. PICK new \in Doc :
        /\ \A d \in Doc : document[d].status = "none" <=> d >= new
        /\ document' = [d \in Doc |->
              IF d = new          THEN [file |-> Head(r.todo), status |-> "draft", eligible |-> FALSE]
              ELSE IF d \in r.old THEN [NoDocument EXCEPT !.status = "deleted"]
              ELSE document[d]]
        /\ Proceed(q, [r EXCEPT !.stage = "insert", !.doc = new, !.old = {}])
  BY DEF SaveCommit
<1>4. document[new].status = "none" /\ approval[new].row = "none"
  <2>1. new >= new
    BY DocAssumption
  <2> QED BY <1>3, <2>1 DEF FreshInv, Unreferred
<1>5. \A d \in Doc : Unchanged(d)
  <2>1. NoApproval.row = "none"
    BY DEF NoApproval
  <2> QED BY <1>2, <1>3, <1>4, <2>1 DEF Unchanged
<1> DEFINE n == [r EXCEPT !.stage = "insert", !.doc = new, !.old = {}]
<1>7. n.op = "generate" /\ n.doc = new
  BY <1>1 DEF Generations
<1>8. Proceed(q, n)
  BY <1>3
<1> HIDE DEF n
<1>9. request'[q] = n /\ \A p \in Client \ {q} : request'[p] = request[p]
  BY <1>8, OwnReferences
<1>10. WorkKept
  BY <1>7, <1>8, OthersWork
<1>11. ASSUME NEW p \in Client, NEW d \in Doc, Inserting(p, d)' PROVE Clean(d)'
  <2>1. d = new \/ Inserting(p, d)
    BY <1>7, <1>9, <1>11 DEF Inserting, Generating
  <2>2. \/ document'[d] = [file |-> Head(r.todo), status |-> "draft", eligible |-> FALSE]
        \/ document'[d] = [NoDocument EXCEPT !.status = "deleted"]
        \/ document'[d] = document[d] /\ Inserting(p, d)
    BY <1>3, <2>1
  <2> QED BY <2>2 DEF Clean, NoDocument, AgreeInv
<1> QED BY <1>2, <1>5, <1>10, <1>11, AgreeKept

\* An approval is inserted as a draft, for a document that is no evidence and that
\* nobody is at work on.
LEMMA AgreeInsert ==
  ASSUME TypeOK, FreshInv, AgreeInv, NEW q \in Client, InsertApproval(q),
         Stored(request[q].doc), Open(request[q].session)
  PROVE  AgreeInv'
<1> DEFINE r == request[q]
           row == [NoApproval EXCEPT !.row = "held", !.session = r.session, !.chain = r.chain, !.step = 1]
           new == [r EXCEPT !.stage = "read", !.todo = Tail(@), !.doc = NoDoc,
                            !.new = @ \cup {r.doc}, !.listed = @ \cup {r.doc}]
<1>0. PICK c \in Doc : c = r.doc
  BY GenerationOf DEF InsertApproval, Generating, Generations
<1>1. r \in Generations /\ r.op = "generate" /\ Inserting(q, c)
  BY <1>0, GenerationOf DEF InsertApproval, Generating, Inserting
<1>2. /\ document' = document /\ approval' = [approval EXCEPT ![c] = row]
      /\ Proceed(q, new) /\ raced' = raced
  BY <1>0 DEF InsertApproval
<1>3. row.eligibility = "draft" /\ row.overall = "pending_review"
  BY DEF NoApproval
<1>4. new.op = "generate" /\ new.stage = "read"
  BY <1>1 DEF Generations
<1> HIDE DEF row, new
<1>5. request'[q] = new /\ \A p \in Client \ {q} : request'[p] = request[p]
  BY <1>2, OwnReferences
<1>6. approval'[c] = row /\ \A d \in Doc \ {c} : approval'[d] = approval[d]
  BY <1>1, <1>2 DEF TypeOK
<1>7. Settled(c)'
  <2>1. Clean(c)
    BY <1>1 DEF AgreeInv
  <2> QED BY <1>2, <1>3, <1>6, <2>1 DEF Settled, Agree, Clean
<1>8. \A p \in Client : ~Working(p, c)'
  <2>1. \A p \in Client : ~Working(p, c)
    BY <1>1 DEF FreshInv, Unreferred
  <2> QED BY <1>4, <1>5, <2>1 DEF Working
<1>9. \A d \in Doc \ {c} : Unchanged(d)
  BY <1>2, <1>6 DEF Unchanged
<1>10. WorkKept
  BY <1>2, <1>4, OthersWork
<1>11. \A p \in Client, d \in Doc : Inserting(p, d)' => Clean(d)'
  BY <1>2, <1>4, OthersInsert
<1> QED BY <1>2, <1>7, <1>8, <1>9, <1>10, <1>11, AgreeKept

\* Deleting a session leaves no approval that could disagree.
LEMMA AgreeSession ==
  ASSUME TypeOK, AgreeInv, NEW s \in Session, Start(s) \/ Delete(s)
  PROVE  AgreeInv'
<1>1. document' = document /\ request' = request /\ raced' = raced
  BY DEF Start, Delete
<1>2. \A d \in Doc : approval'[d] \in {approval[d], NoApproval}
  BY DEF Start, Delete
<1>3. NoApproval.row = "none"
  BY DEF NoApproval
<1>4. \A d \in Doc : Unchanged(d)
  BY <1>1, <1>2, <1>3 DEF Unchanged
<1>5. WorkKept
  BY <1>1 DEF WorkKept
<1>6. \A p \in Client, d \in Doc : Inserting(p, d)' => Clean(d)'
  BY <1>1 DEF Inserting, Generating, Clean, AgreeInv
<1> QED BY <1>1, <1>4, <1>5, <1>6, AgreeKept

\* Both hold of every step.
LEMMA ApprovalStep ==
  ASSUME TypeOK, TypeOK', FreshInv, HeldInv, HeldInv', ListedInv, AgreeInv, [Next]_vars
  PROVE  ListedInv' /\ AgreeInv'
<1>1. ASSUME NEW s \in Session, Start(s) \/ Delete(s) PROVE ListedInv' /\ AgreeInv'
  BY <1>1, ListedSession, AgreeSession
<1>2. ASSUME NEW q \in Client, NEW s \in Session, Generate(q, s) \/ \E p \in demand.plans : StartDraft(q, s, p)
      PROVE  ListedInv' /\ AgreeInv'
  BY <1>2, ListedBegin, AgreeGenerating
<1>3. ASSUME NEW q \in Client,
             \/ \E s \in Session, op \in {"answer", "complete"} : Visit(q, s, op)
             \/ AnswerCommit(q) \/ CompleteCommit(q)
      PROVE  ListedInv' /\ AgreeInv'
  BY <1>3, ListedOther, AgreeGenerating
<1>4. ASSUME NEW q \in Client,
             \/ AdvanceCommit(q) \/ DecideLoad(q) \/ DecideCommit(q)
             \/ \E d \in Doc : \/ \E role \in Staffed, action \in {"approve", "reject"} : AdvanceCheck(q, d, role, action)
                               \/ \E decision \in {"eligible", "rejected"} : DecideCheck(q, d, decision)
      PROVE  ListedInv' /\ AgreeInv'
  BY <1>4, ListedOther, AgreeAdvance, AgreeDecide, AgreeSigned, AgreeDecided
<1>5. ASSUME NEW q \in Client, SaveRead(q) \/ SaveFails(q) \/ RollBack(q) PROVE ListedInv' /\ AgreeInv'
  BY <1>5, ListedGenerating, AgreeGenerating
<1>6. ASSUME NEW q \in Client, SaveCommit(q) PROVE ListedInv' /\ AgreeInv'
  BY <1>6, ListedGenerating, AgreeSave
<1>7. ASSUME NEW q \in Client, InsertApproval(q) PROVE ListedInv' /\ AgreeInv'
  <2>1. CASE Stored(request[q].doc) /\ Open(request[q].session)
    BY <1>7, <2>1, ListedInsert, AgreeInsert
  <2>2. CASE ~(Stored(request[q].doc) /\ Open(request[q].session))
    BY <1>5, <1>7, <2>2 DEF InsertApproval
  <2> QED BY <2>1, <2>2
<1>8. ASSUME NEW q \in Client, GenerateCommit(q) PROVE ListedInv' /\ AgreeInv'
  <2>1. CASE Open(request[q].session)
    BY <1>8, <2>1, ListedCommit, AgreeGenerating
  <2>2. CASE ~Open(request[q].session)
    BY <1>5, <1>8, <2>2 DEF GenerateCommit
  <2> QED BY <2>1, <2>2
<1>9. CASE UNCHANGED vars
  <2>1. ListedInv'
    BY <1>9, ListedKept DEF vars, Unmade, Live, GoesOn
  <2>2. AgreeInv'
    <3>1. document' = document /\ request' = request /\ raced' = raced /\ approval' = approval
      BY <1>9 DEF vars
    <3>2. (\A d \in Doc : Unchanged(d)) /\ WorkKept
      BY <3>1 DEF Unchanged, WorkKept
    <3>3. \A p \in Client, d \in Doc : Inserting(p, d)' => Clean(d)'
      BY <3>1 DEF Inserting, Generating, Clean, AgreeInv
    <3> QED BY <3>1, <3>2, <3>3, AgreeKept
  <2> QED BY <2>1, <2>2
<1> QED BY <1>1, <1>2, <1>3, <1>4, <1>5, <1>6, <1>7, <1>8, <1>9, Zenon DEF Next, Serve, Die

\* ListedInv and AgreeInv are inductive, beside the invariant of the chain.
THEOREM ApprovalInvariant == Spec => [](ListedInv /\ AgreeInv)
<1> DEFINE Known == TypeOK /\ FreshInv /\ HeldInv /\ ChainInv
           Inv == ListedInv /\ AgreeInv
<1>1. Init => Inv
  <2> SUFFICES ASSUME Init PROVE Inv
    OBVIOUS
  <2>1. \A d \in Doc : approval[d].row = "none"
    BY DEF Init, NoApproval
  <2>2. \A q \in Client : request[q].op = "none"
    BY DEF Init, NoRequest
  <2>3. ListedInv
    BY <2>1, <2>2 DEF Init, ListedInv, ApprovalsListed, Live, GeneratingFor
  <2> QED BY <2>1, <2>2, <2>3 DEF AgreeInv, Inserting, Generating, Working
<1>2. Known /\ Known' /\ Inv /\ [Next]_vars => Inv'
  BY ApprovalStep
<1> HIDE DEF Known, Inv
<1>3. Spec => []Known
  BY ChainInvariant DEF Known
<1>4. Spec => []Inv
  BY <1>1, <1>2, <1>3, PTL DEF Spec
<1> QED BY <1>4 DEF Inv

\* ApprovalsListed: every artifact that awaits or has an approval is listed by its
\* session, unless two generations were at work on the session together.
THEOREM ApprovalsAreListed == Spec => []ApprovalsListed
<1>1. ListedInv /\ AgreeInv => ApprovalsListed
  BY DEF ListedInv
<1> QED BY <1>1, ApprovalInvariant, PTL

\* DecisionsAgree: approval, document and pipeline do not disagree about what is evidence,
\* unless two signatures or decisions were at work on the document together.
THEOREM RecordsOfDecision == Spec => []DecisionsAgree
<1>1. ListedInv /\ AgreeInv => DecisionsAgree
  BY DEF AgreeInv, DecisionsAgree, Live, Settled
<1> QED BY <1>1, ApprovalInvariant, PTL
=============================================================================
