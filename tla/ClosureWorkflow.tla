-------------------------- MODULE ClosureWorkflow --------------------------
(***************************************************************************)
(* Closing a weak control: closure sessions, the artifacts generated for   *)
(* them, the approval chain of each artifact and the decision that makes   *)
(* it evidence (services/closure_service.py, api/closure.py, and           *)
(* _save_document in services/remediation_service.py).                     *)
(*                                                                         *)
(* A request loads rows in its own session and writes them back later; the *)
(* session writes only columns whose value differs from the one it loaded. *)
(* Generation is a long transaction: it inserts approvals as it goes,      *)
(* saves each document in a second session that commits at once, and       *)
(* commits the approvals at the end.                                       *)
(***************************************************************************)
EXTENDS Naturals, Sequences, FiniteSets

CONSTANTS
    Session,        \* closure sessions people may start
    File,           \* file names of generated artifacts (safe_name, at most 60 characters)
    Doc,            \* ids of generated documents
    Staffed,        \* the roles that some account holds
    Client,         \* API requests that may be in flight together
    Demands         \* bounds: what may happen: which sessions and requests there are, what a
                    \* session may recommend (the names of its artifacts, in order), and how
                    \* many generations, signatures with decisions, and dead requests

Roles == {"system_owner", "reviewer", "assessor", "security_officer", "system_admin"}
NoSession == "no session"
NoFile == "no file"
NoDoc == 0

Asks == [sessions : SUBSET Session, clients : SUBSET Client, plans : SUBSET Seq(File),
         generations : Nat, decisions : Nat, faults : Nat]
ASSUME DemandAssumption == Demands \subseteq Asks
ASSUME StaffAssumption == Staffed \subseteq Roles
ASSUME FreshAssumption == NoSession \notin Session /\ NoFile \notin File
ASSUME DocAssumption == Doc \subseteq Nat \ {0}

VARIABLES
    session,     \* ControlClosureSession.session_status; "none" and "deleted" without a row
    plan,        \* recommended_artifacts
    listed,      \* generated_artifact_ids
    document,    \* documents: file name, artifact_status, evidence_eligible
    approval,    \* artifact_approvals, by their document
    request,     \* what each API request has loaded and what it still has to do
    demand,      \* bound: what is left of a member of Demands
    signed,      \* history: for each document, who approved which step
    raced        \* history: documents that two signatures or decisions were at work on
                 \* together, and sessions that two generations were

rows == <<session, plan, listed, document, approval>>
vars == <<rows, request, demand, signed, raced>>

Step == 1..3                       \* step 0, the preparer, is approved from the start
Complete == 4                      \* len(chain)

\* The roles of the steps: _default_approval_chain, _draft_package_approval_chain.
ChainRole(chain, k) ==
    IF chain = "draft" THEN <<"control_owner", "reviewer", "isso">>[k]
                       ELSE <<"reviewer", "isso", "system_owner">>[k]

\* (seeded fault: every role that passes the route's own check may sign)
MayAdvanceAnybody(step, role) == role \in Roles

\* _can_advance_artifact_approval.
MayAdvance(step, role) ==
    role \in CASE step = "control_owner" -> Roles
               [] step = "reviewer"      -> Roles \ {"system_owner"}
               [] step = "isso"          -> {"security_officer", "system_admin"}
               [] OTHER                  -> {"system_admin"}

NoDocument == [file |-> NoFile, status |-> "none", eligible |-> FALSE]
Unmarked == [k \in Step |-> "pending"]
NoApproval == [row |-> "none", session |-> NoSession, chain |-> "default", step |-> 0,
               overall |-> "pending_review", eligibility |-> "draft", marks |-> Unmarked]
NoRequest == [op |-> "none"]

Open(s) == session[s] \notin {"none", "deleted"}
Stored(d) == document[d].status \notin {"none", "deleted"}
Live(d) == approval[d].row = "live"

Init ==
    /\ session = [s \in Session |-> "none"]
    /\ plan = [s \in Session |-> <<>>]
    /\ listed = [s \in Session |-> {}]
    /\ document = [d \in Doc |-> NoDocument]
    /\ approval = [d \in Doc |-> NoApproval]
    /\ request = [q \in Client |-> NoRequest]
    /\ demand \in Demands
    /\ signed = [d \in Doc |-> [k \in Step |-> {}]]
    /\ raced = [docs |-> {}, sessions |-> {}]

Ask(q, r) == q \in demand.clients /\ request[q] = NoRequest /\ request' = [request EXCEPT ![q] = r]
Spend(what) == demand[what] > 0 /\ demand' = [demand EXCEPT ![what] = @ - 1]
Proceed(q, r) == request' = [request EXCEPT ![q] = r]
Answered(q) == request' = [request EXCEPT ![q] = NoRequest]

\* For the history: who is at work on a document, and on the artifacts of a session.
Working(q, d) == request[q].op \in {"advance", "decide"} /\ request[q].doc = d
GeneratingFor(q, s) == request[q].op = "generate" /\ request[q].session = s
Meet(d) == raced' = IF \E p \in Client : Working(p, d) THEN [raced EXCEPT !.docs = @ \cup {d}]
                    ELSE raced
MeetOn(s) == raced' = IF \E p \in Client : GeneratingFor(p, s)
                      THEN [raced EXCEPT !.sessions = @ \cup {s}] ELSE raced

\* A column is written only if its value differs from the one that was loaded.
Flush(stored, loaded, new) == IF new = loaded THEN stored ELSE new

----------------------------------------------------------------------------
(* Sessions: the interview, its end, and its deletion.                     *)

\* start_session: a finding that is not compliant gets an interview.
Start(s) ==
    /\ s \in demand.sessions /\ session[s] = "none"
    /\ session' = [session EXCEPT ![s] = "active"]
    /\ UNCHANGED <<plan, listed, document, approval, request, demand, signed, raced>>

\* submit_answers and complete_session load the session.
Visit(q, s, op) ==
    /\ Open(s)
    /\ Ask(q, [op |-> op, session |-> s, seen |-> session[s]])
    /\ UNCHANGED <<rows, demand, signed, raced>>

\* submit_answers, after the model has answered: with follow-up questions only
\* the steps change, otherwise the session has a plan.
AnswerCommit(q) ==
    /\ request[q].op = "answer"
    /\ LET s == request[q].session
       IN IF Open(s)
            THEN \/ UNCHANGED <<session, plan>>
                 \/ /\ \E p \in demand.plans : plan' = [plan EXCEPT ![s] = p]
                    /\ session' = [session EXCEPT ![s] =
                                     Flush(@, request[q].seen, "artifact_pending")]
            ELSE UNCHANGED <<session, plan>>
    /\ Answered(q)
    /\ UNCHANGED <<listed, document, approval, demand, signed, raced>>

\* complete_session asks nothing of the approvals.
CompleteCommit(q) ==
    /\ request[q].op = "complete"
    /\ LET s == request[q].session
       IN session' = IF Open(s)
                       THEN [session EXCEPT ![s] = Flush(@, request[q].seen, "closed")]
                       ELSE session
    /\ Answered(q)
    /\ UNCHANGED <<plan, listed, document, approval, demand, signed, raced>>

\* delete_session: the approvals go with it, the documents stay.  It waits for
\* a generation that has inserted approvals.
Delete(s) ==
    /\ Open(s)
    /\ \A d \in Doc : approval[d].row = "held" => approval[d].session # s
    /\ session' = [session EXCEPT ![s] = "deleted"]
    /\ plan' = [plan EXCEPT ![s] = <<>>]
    /\ listed' = [listed EXCEPT ![s] = {}]
    /\ approval' = [d \in Doc |-> IF approval[d].session = s THEN NoApproval ELSE approval[d]]
    /\ UNCHANGED <<document, request, demand, signed, raced>>

----------------------------------------------------------------------------
(* Generation of artifacts.                                                *)

\* (seeded fault: the list of generated documents starts empty)
GenerationFresh(s, chain, p, seen, ids) ==
    [op |-> "generate", stage |-> "read", session |-> s, chain |-> chain, todo |-> p,
     seen |-> seen, listed |-> {}, old |-> {}, new |-> {}, doc |-> NoDoc]

\* A generation as it starts: what it loaded, what it still has to write, the
\* documents it replaces, and those it has written so far.
Generation(s, chain, p, seen, ids) ==
    [op |-> "generate", stage |-> "read", session |-> s, chain |-> chain, todo |-> p,
     seen |-> seen, listed |-> ids, old |-> {}, new |-> {}, doc |-> NoDoc]

\* generate_artifacts loads a session that has a plan, whatever its status.
Generate(q, s) ==
    /\ Spend("generations")
    /\ Open(s) /\ plan[s] # <<>>
    /\ Ask(q, Generation(s, "default", plan[s], session[s], listed[s]))
    /\ MeetOn(s)
    /\ UNCHANGED <<rows, signed>>

\* generate_control_draft_package commits a session of its own, keeps it loaded
\* and generates from it.
StartDraft(q, s, p) ==
    /\ Spend("generations")
    /\ s \in demand.sessions /\ session[s] = "none" /\ p # <<>>
    /\ session' = [session EXCEPT ![s] = "artifact_pending"]
    /\ plan' = [plan EXCEPT ![s] = p]
    /\ Ask(q, Generation(s, "draft", p, "artifact_pending", {}))
    /\ UNCHANGED <<listed, document, approval, signed, raced>>

Generating(q, stage) == request[q].op = "generate" /\ request[q].stage = stage

\* (seeded fault: the query for earlier versions lacks the file name)
EarlierAny(d, file) == Stored(d)
Earlier(d, file) == Stored(d) /\ document[d].file = file

\* After the model has written the next artifact, _save_document looks for
\* generated documents of the same name ...
SaveRead(q) ==
    /\ Generating(q, "read") /\ request[q].todo # <<>>
    /\ Proceed(q, [request[q] EXCEPT
                     !.stage = "save",
                     !.old = {d \in Doc : Earlier(d, Head(request[q].todo))}])
    /\ UNCHANGED <<rows, demand, signed, raced>>

\* ... and replaces them, with their approvals, in one commit.  Deleting a
\* document waits for the transaction that has inserted its approval.
SaveCommit(q) ==
    /\ Generating(q, "save")
    /\ LET r == request[q]
       IN /\ \A d \in r.old : approval[d].row # "held"
          /\ \E new \in Doc :
               /\ \A d \in Doc : document[d].status = "none" <=> d >= new
               /\ document' = [d \in Doc |->
                     IF d = new        THEN [file |-> Head(r.todo), status |-> "draft", eligible |-> FALSE]
                     ELSE IF d \in r.old THEN [NoDocument EXCEPT !.status = "deleted"]
                     ELSE document[d]]
               /\ Proceed(q, [r EXCEPT !.stage = "insert", !.doc = new, !.old = {}])
          /\ approval' = [d \in Doc |-> IF d \in r.old THEN NoApproval ELSE approval[d]]
    /\ UNCHANGED <<session, plan, listed, demand, signed, raced>>

\* An artifact whose saving raises, before or after its commit, is skipped.
SaveFails(q) ==
    /\ Generating(q, "save") \/ Generating(q, "insert")
    /\ Spend("faults")
    /\ Proceed(q, [request[q] EXCEPT !.stage = "read", !.todo = Tail(@), !.old = {},
                                    !.doc = NoDoc])
    /\ UNCHANGED <<rows, signed, raced>>

\* The request is rolled back: approvals that it inserted were never there,
\* documents that it saved stay.
RollBack(q) ==
    /\ Answered(q)
    /\ approval' = IF request[q].op = "generate"
                     THEN [d \in Doc |-> IF d \in request[q].new THEN NoApproval ELSE approval[d]]
                     ELSE approval
    /\ UNCHANGED <<session, plan, listed, document, signed, raced>>

\* The next query flushes the approval: inserted, not yet committed.  It refers
\* to the document and to the session.
InsertApproval(q) ==
    /\ Generating(q, "insert")
    /\ LET r == request[q]
           row == [NoApproval EXCEPT !.row = "held", !.session = r.session,
                                     !.chain = r.chain, !.step = 1]
       IN IF Stored(r.doc) /\ Open(r.session)
            THEN /\ approval' = [approval EXCEPT ![r.doc] = row]
                 /\ Proceed(q, [r EXCEPT !.stage = "read", !.todo = Tail(@), !.doc = NoDoc,
                                         !.new = @ \cup {r.doc}, !.listed = @ \cup {r.doc}])
                 /\ UNCHANGED <<session, plan, listed, document, signed, raced>>
            ELSE RollBack(q)
    /\ UNCHANGED demand

\* After the last artifact everything is committed.
GenerateCommit(q) ==
    /\ Generating(q, "read") /\ request[q].todo = <<>>
    /\ LET r == request[q]
           s == r.session
       IN IF Open(s)
            THEN /\ session' = [session EXCEPT ![s] = Flush(@, r.seen, "in_approval")]
                 /\ listed' = [listed EXCEPT ![s] = IF r.new = {} THEN @ ELSE r.listed]
                 /\ approval' = [d \in Doc |-> IF d \in r.new THEN [approval[d] EXCEPT !.row = "live"]
                                                              ELSE approval[d]]
                 /\ Answered(q)
                 /\ UNCHANGED <<plan, document, signed, raced>>
            ELSE RollBack(q)
    /\ UNCHANGED demand

\* A request dies: a database error, or the API process does.
Die(q) ==
    /\ request[q] # NoRequest
    /\ Spend("faults")
    /\ RollBack(q)

----------------------------------------------------------------------------
(* The approval chain.                                                     *)

\* api advance_approval: the account holds a role that may sign the current step.
AdvanceCheck(q, d, role, action) ==
    /\ Spend("decisions")
    /\ Live(d) /\ approval[d].step < Complete
    /\ MayAdvance(ChainRole(approval[d].chain, approval[d].step), role)
    /\ Ask(q, [op |-> "advance", doc |-> d, by |-> role, action |-> action,
               step |-> approval[d].step, seen |-> approval[d].overall,
               marks |-> approval[d].marks])
    /\ Meet(d)
    /\ UNCHANGED <<rows, signed>>

\* closure_service.advance_approval changes the step inside the list that the
\* row was loaded with (list() copies only the outer list), so the value it
\* assigns to the column equals the loaded one.
AdvanceCommit(q) ==
    /\ request[q].op = "advance"
    /\ LET r == request[q]
           d == r.doc
           reject == r.action = "reject"
           next == IF reject THEN r.step ELSE r.step + 1
           overall == CASE reject          -> "rejected"
                        [] next = Complete -> "approved"
                        [] OTHER           -> "in_review"
           mutated == [r.marks EXCEPT ![r.step] = IF reject THEN "rejected" ELSE "approved"]
       IN IF Live(d)
            THEN /\ approval' = [approval EXCEPT
                                   ![d].step = Flush(@, r.step, next),
                                   ![d].overall = Flush(@, r.seen, overall),
                                   ![d].marks = Flush(@, mutated, mutated)]
                 /\ signed' = IF reject THEN signed
                              ELSE [signed EXCEPT ![d][r.step] = @ \cup {r.by}]
            ELSE UNCHANGED <<approval, signed>>
    /\ Answered(q)
    /\ UNCHANGED <<session, plan, listed, document, demand, raced>>

----------------------------------------------------------------------------
(* Evidence eligibility: decide_evidence_eligibility.                      *)

\* (seeded fault: the chain is not consulted)
DecidableAny(d, decision) == Live(d)
Decidable(d, decision) == Live(d) /\ (decision = "eligible" => approval[d].overall = "approved")

DecideCheck(q, d, decision) ==
    /\ Spend("decisions")
    /\ Decidable(d, decision)
    /\ Ask(q, [op |-> "decide", stage |-> "document", doc |-> d, decision |-> decision,
               seen |-> approval[d].eligibility])
    /\ Meet(d)
    /\ UNCHANGED <<rows, signed>>

\* The document is loaded by a query of its own.
DecideLoad(q) ==
    /\ request[q].op = "decide" /\ request[q].stage = "document"
    /\ LET r == request[q]
       IN IF Stored(r.doc)
            THEN Proceed(q, [op |-> "decide", stage |-> "commit", doc |-> r.doc,
                             decision |-> r.decision, seen |-> r.seen,
                             loaded |-> document[r.doc]])
            ELSE Answered(q)
    /\ UNCHANGED <<rows, demand, signed, raced>>

DecideCommit(q) ==
    /\ request[q].op = "decide" /\ request[q].stage = "commit"
    /\ LET r == request[q]
           d == r.doc
           status == IF r.decision = "eligible" THEN "approved" ELSE "rejected"
       IN IF Live(d) /\ Stored(d)
            THEN /\ approval' = [approval EXCEPT ![d].eligibility = Flush(@, r.seen, r.decision)]
                 /\ document' = [document EXCEPT
                       ![d].status = Flush(@, r.loaded.status, status),
                       ![d].eligible = Flush(@, r.loaded.eligible, r.decision = "eligible")]
            ELSE UNCHANGED <<approval, document>>
    /\ Answered(q)
    /\ UNCHANGED <<session, plan, listed, demand, signed, raced>>

----------------------------------------------------------------------------

\* What the server does by itself once a request has come in.
Serve(q) ==
    \/ AnswerCommit(q) \/ CompleteCommit(q)
    \/ SaveRead(q) \/ SaveCommit(q) \/ InsertApproval(q) \/ GenerateCommit(q)
    \/ AdvanceCommit(q) \/ DecideLoad(q) \/ DecideCommit(q)

Next ==
    \/ \E s \in Session : Start(s) \/ Delete(s)
    \/ \E q \in Client, s \in Session :
         \/ \E op \in {"answer", "complete"} : Visit(q, s, op)
         \/ Generate(q, s)
         \/ \E p \in demand.plans : StartDraft(q, s, p)
    \/ \E q \in Client, d \in Doc :
         \/ \E role \in Staffed, action \in {"approve", "reject"} : AdvanceCheck(q, d, role, action)
         \/ \E decision \in {"eligible", "rejected"} : DecideCheck(q, d, decision)
    \/ \E q \in Client : Serve(q) \/ SaveFails(q) \/ Die(q)

Spec == Init /\ [][Next]_vars

\* The event loop carries every request on; nobody has to ask for anything.
Fairness == \A q \in Client : WF_vars(Serve(q))
FairSpec == Spec /\ Fairness

----------------------------------------------------------------------------
(* Properties.                                                             *)

Statuses == {"active", "artifact_pending", "in_approval", "closed"}
Overalls == {"pending_review", "in_review", "approved", "rejected"}
Eligibilities == {"draft", "eligible", "rejected"}
Marks == [Step -> {"pending", "approved", "rejected"}]
Approvals == [row : {"none", "held", "live"}, session : Session \cup {NoSession},
              chain : {"draft", "default"}, step : 0..Complete,
              overall : Overalls, eligibility : Eligibilities, marks : Marks]
Documents == [file : File \cup {NoFile}, status : {"none", "draft", "approved", "rejected", "deleted"},
              eligible : BOOLEAN]
Visits == [op : {"answer", "complete"}, session : Session, seen : Statuses]
Generations ==
    {r \in [op : {"generate"}, stage : {"read", "save", "insert"}, session : Session,
            chain : {"draft", "default"}, todo : Seq(File), seen : Statuses, listed : SUBSET Doc,
            old : SUBSET Doc, new : SUBSET Doc, doc : Doc \cup {NoDoc}] :
        /\ r.stage # "read" => r.todo # <<>>
        /\ r.stage = "insert" => r.doc # NoDoc}
Advances == [op : {"advance"}, doc : Doc, by : Staffed, action : {"approve", "reject"},
             step : 0..3, seen : Overalls, marks : Marks]
Decisions ==
    [op : {"decide"}, stage : {"document"}, doc : Doc, decision : {"eligible", "rejected"},
     seen : Eligibilities]
    \cup [op : {"decide"}, stage : {"commit"}, doc : Doc, decision : {"eligible", "rejected"},
          seen : Eligibilities, loaded : Documents]
Requests == {NoRequest} \cup Visits \cup Generations \cup Advances \cup Decisions

\* Every variable has its type: the status columns hold the values that the
\* handlers write, and a chain's current step lies within the chain or at its end.
TypeOK ==
    /\ session \in [Session -> {"none", "deleted"} \cup Statuses]
    /\ plan \in [Session -> Seq(File)]
    /\ listed \in [Session -> SUBSET Doc]
    /\ document \in [Doc -> Documents]
    /\ approval \in [Doc -> Approvals]
    /\ request \in [Client -> Requests]
    /\ demand \in Asks
    /\ signed \in [Doc -> [Step -> SUBSET Staffed]]
    /\ raced \in [docs : SUBSET Doc, sessions : SUBSET Session]

IssoLevel == {"security_officer", "system_admin"}

\* Each step was approved at some time, and an ISSO-level role is among the signers.
FullySigned(d) ==
    /\ \A k \in Step : signed[d][k] # {}
    /\ \E k \in Step : signed[d][k] \cap IssoLevel # {}

\* No artifact counts as approved, and none is used as evidence, unless every
\* step of its chain was approved and a security officer or an administrator is
\* among those who did, although signatures, rejections and decisions commit
\* over rows that others have changed since they loaded them.
EvidenceFullySigned ==
    \A d \in Doc : document[d].eligible \/ approval[d].overall = "approved" => FullySigned(d)

\* The session lists every artifact that awaits or has an approval: the control's
\* package and the remediation report show only listed documents.  Over regenerations,
\* failed saves, dead requests and other sessions that replace its documents, unless
\* two generations were at work on the session together: the list of the later commit
\* wins then.
ApprovalsListed ==
    \A d \in Doc : Live(d) /\ approval[d].session \notin raced.sessions =>
        d \in listed[approval[d].session]

\* The three records of a decision agree: what the approval says, the document's
\* status, and whether the pipeline may use it, which it may only while the chain
\* stands approved.  Whatever else goes on, unless two signatures or decisions were at
\* work on the document together: each writes the columns that it found different.
Agree(d) ==
    /\ document[d].eligible <=> approval[d].eligibility = "eligible"
    /\ document[d].status = "rejected" <=> approval[d].eligibility = "rejected"
    /\ document[d].eligible => approval[d].overall = "approved"
DecisionsAgree == \A d \in Doc : Live(d) /\ d \notin raced.docs => Agree(d)

\* A generation comes to its end, although saving a document may have to wait
\* for other generations: as long as the plans name different files in one order.
GenerationEnds ==
    \A q \in Client : (request[q].op = "generate") ~> (request[q].op # "generate")
----------------------------------------------------------------------------
(* Inductive invariant, for the proofs.                                    *)

\* The steps of the chain before step k were approved, the ISSO's by its level.
Passed(d, chain, k) ==
    \A j \in Step : j < k =>
        /\ signed[d][j] # {}
        /\ ChainRole(chain, j) = "isso" => signed[d][j] \cap IssoLevel # {}

Inserting(q, d) == Generating(q, "insert") /\ request[q].doc = d
Advancing(q, d) == request[q].op = "advance" /\ request[q].doc = d

\* Nothing refers yet to a document id that is unused or just saved: an id gets
\* one approval in its life.
Unreferred(d) == approval[d].row = "none" /\ \A q \in Client : ~Working(q, d)
FreshInv ==
    /\ \A d \in Doc : document[d].status = "none" =>
          Unreferred(d) /\ \A q \in Client : ~Inserting(q, d)
    /\ \A d \in Doc, q \in Client : Inserting(q, d) =>
          Unreferred(d) /\ \A p \in Client \ {q} : ~Inserting(p, d)

\* The approvals that a generation has inserted are held, by it alone, until it ends.
Holding(q, d) == request[q].op = "generate" /\ d \in request[q].new
HeldInv ==
    \A q \in Client, d \in Doc : Holding(q, d) =>
        approval[d].row = "held" /\ \A p \in Client \ {q} : ~Holding(p, d)

\* The strengthening of EvidenceFullySigned: the current step, and the step that a
\* request has loaded, lie behind signatures; those are never taken back.
ChainInv ==
    /\ EvidenceFullySigned
    /\ \A d \in Doc : approval[d].row # "none" => Passed(d, approval[d].chain, approval[d].step)
    /\ \A q \in Client, d \in Doc : Advancing(q, d) /\ approval[d].row # "none" =>
          /\ Passed(d, approval[d].chain, request[q].step)
          /\ MayAdvance(ChainRole(approval[d].chain, request[q].step), request[q].by)
    /\ \A q \in Client : request[q].op = "decide" /\ request[q].decision = "eligible" =>
          FullySigned(request[q].doc)

\* The strengthening of ApprovalsListed: what a generation will list is what its session
\* lists already and what it has inserted itself -
ListedInv ==
    /\ ApprovalsListed
    /\ \A d \in Doc : approval[d].row # "none" => approval[d].session \in Session
    /\ \A s \in Session : session[s] = "none" => listed[s] = {}
    /\ \A q \in Client : request[q].op = "generate" =>
          /\ session[request[q].session] # "none"
          /\ \A d \in request[q].new : approval[d].session = request[q].session
          /\ Open(request[q].session) /\ request[q].session \notin raced.sessions =>
                request[q].listed = listed[request[q].session] \cup request[q].new
    /\ \A p, q \in Client, s \in Session :
          GeneratingFor(p, s) /\ GeneratingFor(q, s) => p = q \/ s \in raced.sessions

\* and that of DecisionsAgree: what a signature or a decision has loaded still stands
\* when it commits, unless the session was deleted.
Clean(d) == ~document[d].eligible /\ document[d].status # "rejected"
Settled(d) == Agree(d) /\ (approval[d].overall = "approved" => approval[d].step = Complete)
Loaded(q, d) ==
    /\ request[q].op = "advance" =>
          /\ approval[d].step = request[q].step /\ approval[d].overall = request[q].seen
          /\ request[q].step < Complete
    /\ request[q].op = "decide" =>
          /\ approval[d].eligibility = request[q].seen
          /\ request[q].decision = "eligible" => approval[d].overall = "approved"
          /\ request[q].stage = "commit" /\ Stored(d) => request[q].loaded = document[d]
AgreeInv ==
    /\ \A d \in Doc : approval[d].row # "none" /\ d \notin raced.docs =>
          Settled(d) /\ \A q \in Client : Working(q, d) => Loaded(q, d)
    /\ \A q \in Client, d \in Doc : Inserting(q, d) => Clean(d)
    /\ \A p, q \in Client, d \in Doc :
          Working(p, d) /\ Working(q, d) => p = q \/ d \in raced.docs
=============================================================================
