-------------------------- MODULE AnalysisRunsProofs --------------------------
(***************************************************************************)
(* Proofs about AnalysisRuns, for any targets, positions, reviewers,       *)
(* clients and failing writes: what the approvals promise in it, that an   *)
(* outcome stands, and that every listener is told it.                     *)
(***************************************************************************)
EXTENDS AnalysisRuns, TLAPS

Decided == {"notifying", "gone", "lost"}

(* What the properties rest on: a known decision carries the verdict of the *)
(* rules, was taken at the end of the task, and precedes its approval row   *)
(* and every report on it.                                                  *)
ReviewOrder ==
  /\ decision.known =>
       /\ decision.target \in Int /\ decision.target <= 100
       /\ verdict = (IF NeedsApproval(decision) THEN "pending" ELSE "not_required")
       /\ task \in Decided
  /\ asked \in Int
  /\ approval.status \in {"none", "pending"} \union Final
  /\ approval.status # "none" => decision.known
  /\ execution.reason = "waiting for approval" => decision.known

LEMMA InitReviewOrder == Init => ReviewOrder
<1> SUFFICES ASSUME Init PROVE ReviewOrder
  OBVIOUS
<1>1. ApprovalInit
  BY DEF Init
<1>2. asked \in Int
  BY <1>1, ApprovalAssumption DEF ApprovalInit, PositionNamed
<1> QED
  BY <1>1, <1>2 DEF ApprovalInit, ReviewOrder, NoDecision, NoApproval, NoReport, Final, PositionNamed

(* The steps beside the decision and its review leave both alone, and the   *)
(* task does not come back from its end.                                    *)
LEMMA OthersKeepApprovals ==
  ASSUME [Next]_vars,
         ~Review,
         ~\E action \in Actions, target \in Targets, confident, stored \in BOOLEAN :
            Finish(action, target, confident, stored)
  PROVE UNCHANGED approvalVars /\ (task \in Decided => task' \in Decided)
<1>1. ASSUME NEW c \in Clients, Request(c) \/ Join(c)
      PROVE UNCHANGED approvalVars /\ (task \in Decided => task' \in Decided)
  BY <1>1 DEF Request, Join, Decided
<1>2. ASSUME Delete \/ Work \/ Stop
      PROVE UNCHANGED approvalVars /\ (task \in Decided => task' \in Decided)
  BY <1>2 DEF Delete, Work, Stop, Decided
<1>3. ASSUME Start \/ Timeout \/ Record \/ WorkerRaised \/ Notified
      PROVE UNCHANGED approvalVars /\ (task \in Decided => task' \in Decided)
  BY <1>3 DEF Start, Timeout, Record, WorkerRaised, Notified, Await, Close, Decided
<1>4. ASSUME UNCHANGED vars
      PROVE UNCHANGED approvalVars /\ (task \in Decided => task' \in Decided)
  BY <1>4 DEF vars, runVars, Decided
<1> QED
  BY <1>1, <1>2, <1>3, <1>4 DEF Next, Task

LEMMA FinishKeepsReviewOrder ==
  ASSUME ReviewOrder,
         NEW action \in Actions, NEW target \in Targets,
         NEW confident \in BOOLEAN, NEW stored \in BOOLEAN,
         Finish(action, target, confident, stored)
  PROVE ReviewOrder'
<1> DEFINE d == [action |-> action, target |-> target, confident |-> confident, known |-> TRUE]
<1>1. Propose(d, stored) /\ task = "awaiting" /\ task' \in Decided
  BY DEF Finish, Await, Stumble, Close, Decided
<1>2. decision' = d /\ d.known /\ d.target \in Int /\ d.target <= 100
  BY <1>1, ApprovalAssumption DEF Propose
<1>3. asked' = asked /\ execution' = execution /\ NeedsApproval(d)' = NeedsApproval(d)
  BY <1>1 DEF Propose, NeedsApproval, Clamped, Distance
<1>4. verdict' = (IF NeedsApproval(d) THEN "pending" ELSE "not_required")
  BY <1>1 DEF Propose
<1>5. approval' \in {approval, [NoApproval EXCEPT !.status = "pending"]}
  BY <1>1 DEF Propose, CreateApproval
<1>6. approval'.status \in {"none", "pending"} \union Final
  BY <1>5 DEF ReviewOrder, NoApproval
<1>7. NeedsApproval(decision)' = NeedsApproval(d)
  BY <1>2, <1>3 DEF NeedsApproval, Clamped, Distance
<1> QED
  BY <1>1, <1>2, <1>3, <1>4, <1>6, <1>7 DEF ReviewOrder

LEMMA ReviewKeepsReviewOrder ==
  ASSUME ReviewOrder, Review
  PROVE ReviewOrder'
<1>1. UNCHANGED <<asked, decision, verdict, task>>
  BY DEF Review, runVars, ApprovalNext, Decide, Execute, ExecuteLater, ExecutionNode
<1>2. NeedsApproval(decision)' = NeedsApproval(decision)
  BY <1>1 DEF NeedsApproval, Clamped, Distance
<1>3. CASE \E r \in Reviewers, status \in Final \ {"timed_out"}, target \in Targets :
             Decide(r, status, target)
  <2>1. approval.status = "pending" /\ approval'.status \in Final /\ UNCHANGED execution
    BY <1>3 DEF Decide, CanTransition, UpdateApproval, ApplyDecision
  <2> QED
    BY <1>1, <1>2, <2>1 DEF ReviewOrder
<1>4. CASE Execute \/ ExecuteLater
  <2>1. decision.known /\ UNCHANGED approval
    BY <1>4 DEF Execute, ExecuteLater, ExecutionNode, ReviewOrder
  <2> QED
    BY <1>1, <1>2, <2>1 DEF ReviewOrder
<1> QED
  BY <1>3, <1>4 DEF Review, ApprovalNext

LEMMA StepKeepsReviewOrder == ReviewOrder /\ [Next]_vars => ReviewOrder'
<1> SUFFICES ASSUME ReviewOrder, [Next]_vars PROVE ReviewOrder'
  OBVIOUS
<1>1. ASSUME UNCHANGED approvalVars, task \in Decided => task' \in Decided
      PROVE ReviewOrder'
  <2>1. NeedsApproval(decision)' = NeedsApproval(decision)
    BY <1>1 DEF approvalVars, NeedsApproval, Clamped, Distance
  <2> QED
    BY <1>1, <2>1 DEF ReviewOrder, approvalVars
<1> QED
  BY <1>1, OthersKeepApprovals, FinishKeepsReviewOrder, ReviewKeepsReviewOrder
-----------------------------------------------------------------------------
(* A fill: nothing blocked the node, so the decision needed no review or a  *)
(* reviewer let it pass, and the account holds what was decided last.       *)
LEMMA FillIsReviewed ==
  ASSUME ReviewOrder, ExecutionNode, decision.known,
         Executes \/ shares' # shares
  PROVE /\ Reviewed \/ (approval.status = "none" /\ ~NeedsApproval(decision))
        /\ decision.action # "HOLD"
        /\ shares' = (IF approval.status = "modified" THEN approval.modified ELSE decision.target)
        /\ execution'.snapshot = ApprovalSnapshot
<1>1. PICK enabled \in BOOLEAN :
        IF Blocked(enabled) # NoReport THEN execution' = Blocked(enabled) /\ UNCHANGED shares ELSE Trade
  BY DEF ExecutionNode
<1>2. Blocked(enabled).status # "executed"
  BY DEF Blocked, Skipped, NoReport, StatusReport
<1>3. Blocked(enabled) = NoReport /\ Trade
  BY <1>1, <1>2 DEF Executes
<1>4. ApprovalStatus \notin {"pending", "rejected", "timed_out"} /\ decision.action # "HOLD"
  BY <1>3 DEF Blocked, Skipped, NoReport, StatusReport
<1>5. execution'.snapshot = ApprovalSnapshot /\ shares' = ExecutionTarget
  <2>1. ASSUME NEW status \in {"failed", "held"}, NEW reason,
               execution' = StatusReport(status, reason), UNCHANGED shares
        PROVE FALSE
    <3>1. execution'.status = status
      BY <2>1 DEF StatusReport
    <3> QED
      BY <2>1, <3>1 DEF Executes
  <2>2. PICK order \in {"FILLED", "NEW", "REJECTED", "CANCELED"} :
          /\ execution' = OrderReport(StatusOf(order))
          /\ shares' = IF order = "FILLED" THEN ExecutionTarget ELSE shares
    BY <1>3, <2>1 DEF Trade
  <2>3. order = "FILLED"
    BY <2>2 DEF Executes, OrderReport, StatusReport, StatusOf
  <2> QED
    BY <2>2, <2>3 DEF OrderReport, StatusReport
<1>6. Reviewed \/ (approval.status = "none" /\ ~NeedsApproval(decision))
  BY <1>4 DEF ApprovalStatus, ReviewOrder, Reviewed, Final
<1>7. ApprovalStatus = "modified" <=> approval.status = "modified"
  BY <1>4 DEF ApprovalStatus, ReviewOrder
<1> QED
  BY <1>4, <1>5, <1>6, <1>7 DEF ExecutionTarget

LEMMA FillsComeFromTheNode ==
  ASSUME ReviewOrder, [Next]_vars, Executes \/ shares' # shares
  PROVE ExecutionNode /\ decision.known /\ UNCHANGED approval
<1>1. Review
  <2> SUFFICES ASSUME ~Review PROVE FALSE
    OBVIOUS
  <2>1. ASSUME NEW action \in Actions, NEW target \in Targets,
               NEW confident \in BOOLEAN, NEW stored \in BOOLEAN,
               Finish(action, target, confident, stored)
        PROVE UNCHANGED <<execution, shares>>
    BY <2>1 DEF Finish, Propose
  <2> QED
    BY <2>1, OthersKeepApprovals DEF approvalVars, Executes
<1>2. Execute \/ ExecuteLater
  BY <1>1 DEF Review, ApprovalNext, Decide, Executes
<1> QED
  BY <1>2 DEF Execute, ExecuteLater, ExecutionNode, ReviewOrder

(* A large or weakly founded long decision needs approval.                  *)
LEMMA LargeNeedsApproval ==
  ASSUME ReviewOrder, decision.known, decision.target >= 0, decision.action # "HOLD",
         LargeChange(asked) \/ ~decision.confident
  PROVE NeedsApproval(decision)
<1>1. Clamped(decision.target) = decision.target
  BY DEF ReviewOrder, Clamped
<1> QED
  BY <1>1 DEF ReviewOrder, NeedsApproval, LargeChange

(* No decision with a long target is executed beyond the thresholds or on   *)
(* weak confidence unless a reviewer approved or modified it, for any       *)
(* targets, positions and reviewers, though the approval row may fail to be *)
(* stored (analyze.py, rules.py, execution_node.py).                        *)
THEOREM LongsStayReviewed == Spec => LongsAreReviewed
<1>1. ASSUME ReviewOrder, [Next]_vars
      PROVE [Executes /\ decision.target >= 0 /\ (LargeChange(asked) \/ ~decision.confident)
               => Reviewed]_approvalVars
  BY <1>1, FillsComeFromTheNode, FillIsReviewed, LargeNeedsApproval
<1> QED
  BY <1>1, InitReviewOrder, StepKeepsReviewOrder, PTL DEF Spec, LongsAreReviewed
-----------------------------------------------------------------------------
(* A row that a reviewer decided stays as it is.                            *)
LEMMA DecidedRowsStay ==
  ASSUME ReviewOrder, [Next]_vars, approval.status \in Final
  PROVE UNCHANGED approval
<1>1. ASSUME NEW action \in Actions, NEW target \in Targets,
             NEW confident \in BOOLEAN, NEW stored \in BOOLEAN,
             Finish(action, target, confident, stored)
      PROVE FALSE
  <2>1. task \in Decided
    BY DEF ReviewOrder, Final
  <2> QED
    BY <1>1, <2>1 DEF Finish, Await, Decided
<1>2. Review => UNCHANGED approval
  BY DEF Review, ApprovalNext, Decide, CanTransition, Execute, ExecuteLater, ExecutionNode, Final
<1> QED
  BY <1>1, <1>2, OthersKeepApprovals DEF approvalVars

(* What is traded is what was decided last, and the report of it names the  *)
(* review in force (execution_node.py, state_machine.py).                   *)
THEOREM TradesFollowTheDecision == Spec => TradedAsDecided
<1>1. ASSUME ReviewOrder, [Next]_vars
      PROVE /\ shares' # shares =>
                 /\ approval.status \notin {"pending", "rejected", "timed_out"}
                 /\ shares' = IF approval.status = "modified" THEN approval.modified
                                                              ELSE decision.target
            /\ approval.status \in Final => approval' = approval
            /\ Executes /\ execution'.snapshot # NoSnapshot =>
                 /\ execution'.snapshot.status = approval.status
                 /\ execution'.snapshot.modified = shares'
  <2>1. ASSUME Executes \/ shares' # shares
        PROVE /\ ExecutionNode /\ decision.known
              /\ Reviewed \/ (approval.status = "none" /\ ~NeedsApproval(decision))
              /\ shares' = (IF approval.status = "modified" THEN approval.modified ELSE decision.target)
              /\ execution'.snapshot = ApprovalSnapshot
    BY <1>1, <2>1, FillsComeFromTheNode, FillIsReviewed
  <2>2. ASSUME Executes, ApprovalSnapshot # NoSnapshot
        PROVE approval.status = "modified" /\ ApprovalSnapshot.status = "modified"
              /\ ApprovalSnapshot.modified = approval.modified
    BY <1>1, <2>1, <2>2 DEF ReviewOrder, ApprovalSnapshot, ApprovalStatus, Reviewed
  <2> QED
    BY <1>1, <2>1, <2>2, DecidedRowsStay DEF Reviewed
<1> QED
  BY <1>1, InitReviewOrder, StepKeepsReviewOrder, PTL DEF Spec, TradedAsDecided
-----------------------------------------------------------------------------
(* Until the task has an outcome the snapshot has none, and what was told   *)
(* is what was stored.                                                      *)
OutcomeOrder ==
  /\ outcome \in Outcomes \union {"none"}
  /\ deleted => snapshot = "none"
  /\ task = "idle" => snapshot = "none" /\ ~deleted
  /\ task \in {"idle", "created", "awaiting"} => outcome = "none"
  /\ snapshot \in {"none", "running"} \/ (snapshot = "completed" /\ outcome = "result")
                                      \/ (snapshot = "failed" /\ outcome = "error")

(* The task's failures: the outcome is told and stored, or nothing but the  *)
(* end of the run is left.                                                  *)
Fails ==
  \/ /\ snapshot' = Stored("failed") /\ clients' = Publish("error") /\ outcome' = "error"
     /\ task' = "notifying"
  \/ Close /\ UNCHANGED <<snapshot, outcome>>

LEMMA FailFails == (\E attempts \in Nat : Fail(attempts)) => Fails
BY DEF Fail, Fails

LEMMA StumbleFails == Stumble => Fails
BY DEF Stumble, Fails, Stored

(* Every step of the task changes the clients in one of these ways.         *)
LEMMA TaskMoves ==
  ASSUME Task
  PROVE \/ /\ task \in {"created", "awaiting"} /\ task' = "awaiting"
           /\ UNCHANGED <<snapshot, outcome, clients, deleted>>
        \/ task \in {"created", "awaiting"} /\ Fails /\ UNCHANGED deleted
        \/ /\ task = "awaiting" /\ UNCHANGED deleted
           /\ snapshot' = Stored("completed") /\ clients' = Publish("result") /\ outcome' = "result"
           /\ task' = "notifying"
        \/ task = "notifying" /\ Close /\ UNCHANGED <<snapshot, outcome, deleted>>
<1>1. CASE Start
  BY <1>1, StumbleFails DEF Start
<1>2. CASE Timeout \/ WorkerRaised
  BY <1>2, FailFails DEF Timeout, WorkerRaised, Await
<1>3. CASE Record
  BY <1>3, StumbleFails DEF Record, Await
<1>4. CASE Notified
  BY <1>4 DEF Notified
<1>5. CASE \E action \in Actions, target \in Targets, confident, stored \in BOOLEAN :
             Finish(action, target, confident, stored)
  BY <1>5, StumbleFails DEF Finish, Await
<1> QED
  BY <1>1, <1>2, <1>3, <1>4, <1>5 DEF Task

LEMMA InitOutcomeOrder == Init => OutcomeOrder
BY DEF Init, OutcomeOrder

LEMMA StepKeepsOutcomeOrder ==
  ASSUME OutcomeOrder, [Next]_vars
  PROVE /\ OutcomeOrder'
        /\ deleted => deleted' /\ snapshot' = "none"
        /\ snapshot \in {"completed", "failed"} => snapshot' \in {snapshot, "none"}
        /\ outcome # "none" => outcome' = outcome
<1>1. CASE \E c \in Clients : Request(c)
  BY <1>1 DEF Request, OutcomeOrder, Outcomes
<1>2. CASE \E c \in Clients : Join(c)
  BY <1>2 DEF Join, OutcomeOrder, Outcomes
<1>3. CASE Delete
  BY <1>3 DEF Delete, OutcomeOrder, Outcomes
<1>4. CASE Work
  BY <1>4 DEF Work, OutcomeOrder, Outcomes
<1>5. CASE Stop
  BY <1>5 DEF Stop, OutcomeOrder, Outcomes
<1>6. CASE Review \/ UNCHANGED vars
  BY <1>6 DEF Review, vars, runVars, OutcomeOrder, Outcomes
<1>7. CASE Task
  <2>1. CASE UNCHANGED <<snapshot, outcome, deleted>> /\ task' \notin {"idle", "created"}
             /\ (task' = "awaiting" => task \in {"created", "awaiting"})
    BY <2>1 DEF OutcomeOrder, Outcomes
  <2>2. CASE /\ task \in {"created", "awaiting"} /\ UNCHANGED deleted /\ task' = "notifying"
             /\ \/ snapshot' = Stored("failed") /\ outcome' = "error"
                \/ snapshot' = Stored("completed") /\ outcome' = "result"
    BY <2>2 DEF Stored, OutcomeOrder, Outcomes
  <2> QED
    BY <1>7, <2>1, <2>2, TaskMoves DEF Fails, Close
<1> QED
  BY <1>1, <1>2, <1>3, <1>4, <1>5, <1>6, <1>7 DEF Next

(* A deleted analysis stays deleted and an outcome is never replaced,       *)
(* whatever the task, its late thread and other requests still do           *)
(* (analysis_runs.py, analyze.py).                                          *)
THEOREM OutcomesStand == Spec => OutcomeStands
<1>1. OutcomeOrder /\ [Next]_vars => OutcomeOrder'
  BY StepKeepsOutcomeOrder
<1>2. OutcomeOrder /\ [Next]_vars =>
        [/\ deleted => deleted' /\ snapshot' = "none"
         /\ snapshot \in {"completed", "failed"} => snapshot' \in {snapshot, "none"}
         /\ outcome # "none" => outcome' = outcome]_vars
  BY StepKeepsOutcomeOrder
<1> QED
  BY <1>1, <1>2, InitOutcomeOrder, PTL DEF Spec, OutcomeStands
-----------------------------------------------------------------------------
(* What a client was told at any time, and when its stream may have ended.  *)
ClientOK(client) ==
  /\ client.joined \in {"no", "closing"} => client.told = {}
  /\ client.joined = "closing" => outcome # "none"
  /\ client.joined = "open" => client.told = {outcome} \ {"none"}
  /\ client.joined = "late" => client.told \subseteq {outcome} \ {"none"}
  /\ client.joined \in {"open", "closing"} /\ client.ended => task \in {"gone", "lost"}

Client == [joined : {"no", "open", "closing", "late"}, told : SUBSET Outcomes, ended : BOOLEAN]

ListenersOK ==
  /\ clients \in [Clients -> Client]
  /\ \A c \in Clients : ClientOK(clients[c])
  /\ task = "idle" => \A c \in Clients : clients[c] = Absent

LEMMA InitListenersOK == Init => ListenersOK
BY DEF Init, ListenersOK, ClientOK, Client, Absent

LEMMA PublishKeepsListeners ==
  ASSUME OutcomeOrder, ListenersOK, NEW event \in Outcomes,
         task \in {"created", "awaiting"},
         task' = "notifying", clients' = Publish(event), outcome' = event
  PROVE ListenersOK'
<1>1. outcome = "none" /\ event # "none"
  BY DEF OutcomeOrder, Outcomes
<1>2. ASSUME NEW c \in Clients
      PROVE clients'[c] \in Client /\ ClientOK(clients[c])'
  <2>1. clients[c] \in Client /\ ClientOK(clients[c])
    BY DEF ListenersOK
  <2>2. CASE Listening(c)
    <3>1. clients'[c] = [clients[c] EXCEPT !.told = @ \union {event}]
      BY <2>2 DEF Publish
    <3>2. clients[c].joined = "open" /\ clients[c].told = {} /\ clients[c].ended = FALSE
      BY <1>1, <2>1, <2>2 DEF Listening, ClientOK, Client
    <3>3. /\ clients'[c].joined = "open" /\ clients'[c].told = {event}
          /\ clients'[c].ended = FALSE /\ clients'[c] \in Client
      BY <2>1, <3>1, <3>2 DEF Client
    <3> QED
      BY <1>1, <3>3 DEF ClientOK
  <2>3. CASE ~Listening(c)
    <3>1. clients'[c] = clients[c] /\ clients[c].joined \in {"no", "late"}
      BY <1>1, <2>1, <2>3 DEF Publish, Listening, ClientOK, Client
    <3> QED
      BY <1>1, <2>1, <3>1 DEF ClientOK
  <2> QED
    BY <2>2, <2>3
<1> QED
  BY <1>2 DEF ListenersOK, Publish

LEMMA CloseKeepsListeners ==
  ASSUME ListenersOK, Close, UNCHANGED outcome
  PROVE ListenersOK'
<1>1. ASSUME NEW c \in Clients
      PROVE clients'[c] \in Client /\ ClientOK(clients[c])'
  <2>1. clients[c] \in Client /\ ClientOK(clients[c])
    BY DEF ListenersOK
  <2>2. clients'[c] \in {clients[c], [clients[c] EXCEPT !.ended = TRUE]}
    BY DEF Close
  <2>3. /\ clients'[c].joined = clients[c].joined /\ clients'[c].told = clients[c].told
        /\ clients'[c] \in Client
    BY <2>1, <2>2 DEF Client
  <2> QED
    BY <2>1, <2>3 DEF ClientOK, Close
<1> QED
  BY <1>1 DEF ListenersOK, Close

LEMMA ReplacingKeepsListeners ==
  ASSUME ListenersOK, UNCHANGED outcome, task' # "idle",
         task \in {"gone", "lost"} => task' \in {"gone", "lost"},
         NEW c \in Clients, NEW client \in Client, ClientOK(client)',
         clients' = [clients EXCEPT ![c] = client]
  PROVE ListenersOK'
BY DEF ListenersOK, ClientOK

LEMMA StepKeepsListeners ==
  ASSUME OutcomeOrder, ListenersOK, [Next]_vars
  PROVE ListenersOK'
<1>1. ASSUME UNCHANGED <<clients, outcome>>, task' = "idle" => task = "idle",
             task \in {"gone", "lost"} => task' \in {"gone", "lost"}
      PROVE ListenersOK'
  BY <1>1 DEF ListenersOK, ClientOK
<1>2. ASSUME NEW c \in Clients, Request(c) PROVE ListenersOK'
  <2>1. /\ task = "idle" /\ task' = "created" /\ outcome = "none" /\ UNCHANGED outcome
        /\ clients[c] = Absent /\ clients' = [clients EXCEPT ![c].joined = "open"]
    BY <1>2 DEF Request, OutcomeOrder, ListenersOK
  <2>2. PICK client \in Client :
          /\ client.joined = "open" /\ client.told = {} /\ client.ended = FALSE
          /\ clients' = [clients EXCEPT ![c] = client]
    <3> DEFINE listener == [clients[c] EXCEPT !.joined = "open"]
    <3>1. clients[c] \in Client /\ clients[c].told = {} /\ clients[c].ended = FALSE
      <4>1. Absent.told = {} /\ Absent.ended = FALSE
        BY DEF Absent
      <4>2. clients[c] \in Client
        BY DEF ListenersOK
      <4> QED
        BY <2>1, <4>1, <4>2
    <3>2. listener \in Client
      BY <3>1 DEF Client
    <3>3. listener.joined = "open" /\ listener.told = {} /\ listener.ended = FALSE
      BY <3>1 DEF Client
    <3>4. clients' = [clients EXCEPT ![c] = listener]
      BY <2>1
    <3> HIDE DEF listener
    <3> QED
      BY <3>2, <3>3, <3>4
  <2>3. ClientOK(client)'
    BY <2>1, <2>2 DEF ClientOK
  <2> QED
    BY <2>1, <2>2, <2>3, ReplacingKeepsListeners
<1>3. ASSUME NEW c \in Clients, Join(c) PROVE ListenersOK'
  <2> DEFINE joining == [Absent EXCEPT !.joined = IF outcome = "none" THEN "open" ELSE "closing"]
             told == CASE snapshot = "completed" -> {"result"}
                       [] snapshot = "failed" -> {"error"} [] OTHER -> {}
             late == [joined |-> "late", ended |-> TRUE, told |-> told]
  <2>1. /\ UNCHANGED <<outcome, task>> /\ task # "idle"
        /\ clients' = [clients EXCEPT ![c] = IF open THEN joining ELSE late]
    BY <1>3 DEF Join
  <2>2. told \subseteq {outcome} \ {"none"} /\ told \subseteq Outcomes
    BY DEF OutcomeOrder, Outcomes
  <2>3. PICK client \in Client :
          /\ clients' = [clients EXCEPT ![c] = client]
          /\ \/ client.told = {} /\ client.ended = FALSE /\ client.joined = "open" /\ outcome = "none"
             \/ client.told = {} /\ client.ended = FALSE /\ client.joined = "closing" /\ outcome # "none"
             \/ client.joined = "late" /\ client.told \subseteq {outcome} \ {"none"}
    <3> HIDE DEF told
    <3>1. joining \in Client /\ late \in Client
      BY <2>2 DEF Client, Absent
    <3>2. joining.told = {} /\ joining.ended = FALSE
          /\ joining.joined = (IF outcome = "none" THEN "open" ELSE "closing")
      BY DEF Absent
    <3>3. late.joined = "late" /\ late.told = told
      OBVIOUS
    <3> HIDE DEF joining, late
    <3> QED
      BY <2>1, <2>2, <3>1, <3>2, <3>3
  <2>4. ClientOK(client)'
    BY <2>1, <2>3 DEF ClientOK
  <2> QED
    BY <2>1, <2>3, <2>4, ReplacingKeepsListeners
<1>4. CASE Stop
  <2>1. task' = "lost" /\ UNCHANGED outcome
    BY <1>4 DEF Stop
  <2>2. ASSUME NEW c \in Clients
        PROVE clients'[c] \in Client /\ ClientOK(clients[c])'
    <3>1. CASE clients'[c] = clients[c]
      BY <2>1, <3>1 DEF ListenersOK, ClientOK
    <3>2. CASE clients'[c] = Absent
      BY <2>1, <3>2 DEF ClientOK, Client, Absent
    <3> QED
      BY <1>4, <3>1, <3>2 DEF Stop
  <2> QED
    BY <1>4, <2>2 DEF Stop, ListenersOK
<1>5. CASE Delete \/ Work \/ Review \/ UNCHANGED vars
  BY <1>1, <1>5 DEF Delete, Work, Review, vars, runVars
<1>6. CASE Task
  BY <1>1, <1>6, TaskMoves, PublishKeepsListeners, CloseKeepsListeners DEF Fails, Outcomes
<1> QED
  BY <1>2, <1>3, <1>4, <1>5, <1>6 DEF Next

(* A client that listened before the outcome is told it before its stream   *)
(* ends, whichever writes of the snapshot fail, and a late one is told only *)
(* what was published (analysis_runs.py, analyze.py).                       *)
THEOREM ListenersAreTold == Spec => []EveryListenerIsTold
<1>1. ListenersOK => EveryListenerIsTold
  BY DEF ListenersOK, ClientOK, Client, EveryListenerIsTold
<1>2. OutcomeOrder /\ [Next]_vars => OutcomeOrder'
  BY StepKeepsOutcomeOrder
<1>3. OutcomeOrder /\ ListenersOK /\ [Next]_vars => ListenersOK'
  BY StepKeepsListeners
<1> QED
  BY <1>1, <1>2, <1>3, InitOutcomeOrder, InitListenersOK, PTL DEF Spec
-----------------------------------------------------------------------------
(* How far the graph is at each node: who has reported and how often the    *)
(* two teams have spoken.                                                   *)
AfterDebate == AnalystSet \union Debaters \union {"research_manager"}
AfterTrader == AfterDebate \union {"trader"}

GraphOrder ==
  /\ mode \in {"fast", "standard", "deep"}
  /\ node = "market_analyst" => reports = {}
  /\ node = "sentiment_analyst" => reports = {"market_analyst"}
  /\ node = "news_analyst" => reports = {"market_analyst", "sentiment_analyst"}
  /\ node = "fundamentals_analyst" => reports = AnalystSet \ {"fundamentals_analyst"}
  /\ node \in Debaters =>
       /\ AnalystSet \subseteq reports /\ reports \subseteq AnalystSet \union Debaters
       /\ debate < 2 * Rounds
  /\ node = "bull_researcher" =>
       debate \in {0, 2, 4} /\ (debate > 0 => Debaters \subseteq reports)
  /\ node = "bear_researcher" => debate \in {1, 3, 5} /\ "bull_researcher" \in reports
  /\ node = "research_manager" => reports = AnalystSet \union Debaters
  /\ node = "trader" => reports = AfterDebate
  /\ node \in RiskSet =>
       /\ AfterTrader \subseteq reports /\ reports \subseteq AfterTrader \union RiskSet
       /\ risk < 3 * Rounds
  /\ node = "aggressive_analyst" => risk \in {0, 3, 6}
  /\ node = "conservative_analyst" => risk \in {1, 4, 7} /\ "aggressive_analyst" \in reports
  /\ node = "neutral_analyst" =>
       risk \in {2, 5, 8} /\ {"aggressive_analyst", "conservative_analyst"} \subseteq reports
  /\ node = "risk_analyst" => reports = AfterTrader \union RiskSet
  /\ node = "PM_agent" =>
       reports = IF mode = "fast" THEN AnalystSet ELSE Nodes \ {"PM_agent"}
  /\ node \in AnalystSet => debate = 0
  /\ node \in AnalystSet \union Debaters \union {"research_manager", "trader"} => risk = 0
  /\ node \in {"research_manager", "trader"} \union RiskSet => debate = 2 * Rounds
  /\ node \in Debaters \union {"research_manager", "trader", "risk_analyst"} \union RiskSet => mode # "fast"
  /\ node \in {"risk_analyst", "PM_agent"} => debate = 2 * Rounds /\ risk = 3 * Rounds
  /\ DecidedOnAllReports

LEMMA RoundsOf ==
  mode \in {"fast", "standard", "deep"} =>
    Rounds = IF mode = "fast" THEN 0 ELSE IF mode = "standard" THEN 1 ELSE 3
BY DEF Rounds

LEMMA TeamsOf ==
  /\ AnalystSet = {"market_analyst", "sentiment_analyst", "news_analyst", "fundamentals_analyst"}
  /\ RiskSet = {"aggressive_analyst", "conservative_analyst", "neutral_analyst"}
BY DEF AnalystSet, Analysts, RiskSet, RiskTeam

LEMMA AnalystsInTurn ==
  /\ AfterAnalyst("market_analyst") = "sentiment_analyst"
  /\ AfterAnalyst("sentiment_analyst") = "news_analyst"
  /\ AfterAnalyst("news_analyst") = "fundamentals_analyst"
  /\ AfterAnalyst("fundamentals_analyst") = IF mode = "fast" THEN "PM_agent" ELSE "bull_researcher"
<1>1. /\ DOMAIN Analysts = 1 .. 4 /\ Len(Analysts) = 4
      /\ Analysts[1] = "market_analyst" /\ Analysts[2] = "sentiment_analyst"
      /\ Analysts[3] = "news_analyst" /\ Analysts[4] = "fundamentals_analyst"
  BY DEF Analysts
<1>2. /\ Place(Analysts, "market_analyst") = 1 /\ Place(Analysts, "sentiment_analyst") = 2
      /\ Place(Analysts, "news_analyst") = 3 /\ Place(Analysts, "fundamentals_analyst") = 4
  BY <1>1 DEF Place
<1>3. QED
  BY <1>1, <1>2 DEF AfterAnalyst

LEMMA RiskTeamInTurn ==
  /\ DOMAIN RiskTeam = 1 .. 3 /\ Len(RiskTeam) = 3
  /\ Place(RiskTeam, "aggressive_analyst") = 1 /\ Place(RiskTeam, "conservative_analyst") = 2
  /\ Place(RiskTeam, "neutral_analyst") = 3
  /\ RiskTeam[2] = "conservative_analyst" /\ RiskTeam[3] = "neutral_analyst"
<1>1. /\ DOMAIN RiskTeam = 1 .. 3 /\ Len(RiskTeam) = 3
      /\ RiskTeam[1] = "aggressive_analyst" /\ RiskTeam[2] = "conservative_analyst"
      /\ RiskTeam[3] = "neutral_analyst"
  BY DEF RiskTeam
<1>2. /\ Place(RiskTeam, "aggressive_analyst") = 1 /\ Place(RiskTeam, "conservative_analyst") = 2
      /\ Place(RiskTeam, "neutral_analyst") = 3
  BY <1>1 DEF Place
<1>3. QED
  BY <1>1, <1>2

LEMMA InitGraphOrder == Init => GraphOrder
BY TeamsOf DEF Init, GraphInit, GraphOrder, Analysts, Debaters, DecidedOnAllReports

LEMMA StepKeepsGraphOrder ==
  ASSUME GraphOrder, [Next]_vars
  PROVE  GraphOrder'
<1> USE RoundsOf, TeamsOf DEF Debaters
<1>0. mode' = mode => Rounds' = Rounds
  BY DEF Rounds
<1>1. CASE UNCHANGED graphVars
  BY <1>0, <1>1 DEF graphVars, GraphOrder, DecidedOnAllReports
<1>2. CASE GraphNext
  <2>1. ASSUME NEW n \in AnalystSet, Analyse(n) PROVE GraphOrder'
    BY <1>0, <2>1, AnalystsInTurn DEF Analyse, GraphOrder, DecidedOnAllReports, Nodes, Single
  <2>2. ASSUME NEW n \in Debaters, Debate(n) PROVE GraphOrder'
    BY <1>0, <2>2 DEF Debate, DebateNext, GraphOrder, DecidedOnAllReports
  <2>3. ASSUME NEW n \in RiskSet, Discuss(n) PROVE GraphOrder'
    BY <1>0, <2>3, RiskTeamInTurn DEF Discuss, RiskNext, GraphOrder, DecidedOnAllReports, AfterTrader, AfterDebate
  <2>4. ASSUME NEW n \in Single, Conclude(n) PROVE GraphOrder'
    BY <1>0, <2>4 DEF Conclude, Successor, Single, GraphOrder, DecidedOnAllReports, AfterTrader,
      AfterDebate, Nodes
  <2>5. CASE Raise
    BY <1>0, <2>5 DEF Raise, GraphOrder, DecidedOnAllReports, Nodes, Single
  <2>6. QED
    BY <1>2, <2>1, <2>2, <2>3, <2>4, <2>5 DEF GraphNext
<1>3. GraphNext \/ UNCHANGED graphVars
  BY DEF Next, vars, Request, Join, Delete, Work, Stop, Review, Task, Start, Timeout, Record,
    WorkerRaised, Notified, Finish, Await
<1>4. QED
  BY <1>1, <1>2, <1>3

-----------------------------------------------------------------------------
(* From the graph to the decision: the thread reports "done" only of a graph*)
(* that ended, which takes no further step, and the task decides on that    *)
(* report only.                                                             *)
DecisionOrder ==
  /\ queue \in Seq(Nodes \union {"done", "error"})
  /\ (\E i \in DOMAIN queue : queue[i] = "done") => node = "end"
  /\ decision.known => node = "end"

LEMMA NamesOfNodes == "done" \notin Nodes /\ "error" \notin Nodes /\ "end" \notin Nodes
BY TeamsOf DEF Nodes, Single, Debaters

LEMMA InitDecisionOrder == Init => DecisionOrder
BY DEF Init, ApprovalInit, NoDecision, DecisionOrder

(* A step of the graph starts at a node and adds one report at most.        *)
LEMMA GraphSteps ==
  ASSUME GraphNext
  PROVE  /\ node \in Nodes
         /\ reports' = reports \/ \E n \in Nodes : reports' = reports \union {n}
BY DEF GraphNext, Analyse, Debate, Discuss, Conclude, Raise, Nodes

LEMMA WorkReports ==
  ASSUME GraphNext, queue \in Seq(Nodes \union {"done", "error"}),
         \A i \in DOMAIN queue : queue[i] # "done"
  PROVE  /\ Reports \in Seq(Nodes \union {"done", "error"})
         /\ (\E i \in DOMAIN Reports : Reports[i] = "done") => node' = "end"
<1> DEFINE Told == Nodes \union {"done", "error"}
           New == CHOOSE n \in reports' : n \notin reports
           Spoken == IF reports' # reports THEN <<New>> ELSE <<>>
           Last == CASE node' = "end" -> <<"done">> [] node' = "raised" -> <<"error">> [] OTHER -> <<>>
<1>1. reports' # reports => New \in Nodes
  BY GraphSteps
<1>2. Spoken \in Seq(Told) /\ \A i \in DOMAIN Spoken : Spoken[i] # "done"
  <2>1. CASE reports' = reports
    <3>1. Spoken = <<>>
      BY <2>1
    <3> QED
      BY <3>1
  <2>2. CASE reports' # reports
    <3>1. Spoken = <<New>>
      BY <2>2
    <3>2. New \in Nodes /\ New # "done"
      BY <1>1, <2>2, NamesOfNodes
    <3> HIDE DEF New, Spoken
    <3> QED
      BY <3>1, <3>2
  <2> QED
    BY <2>1, <2>2
<1>3. Last \in Seq(Told) /\ ((\E i \in DOMAIN Last : Last[i] = "done") => node' = "end")
  <2>1. CASE node' = "end"
    <3>1. Last = <<"done">>
      BY <2>1
    <3> QED
      BY <2>1, <3>1
  <2>2. CASE node' = "raised"
    <3>1. Last = <<"error">>
      BY <2>2
    <3> QED
      BY <3>1
  <2>3. CASE node' \notin {"end", "raised"}
    <3>1. Last = <<>>
      BY <2>3
    <3> QED
      BY <3>1
  <2> QED
    BY <2>1, <2>2, <2>3
<1>4. Reports = queue \o Spoken \o Last
  BY DEF Reports
<1> HIDE DEF Spoken, Last, Told
<1>5. /\ queue \o Spoken \in Seq(Told)
      /\ \A i \in DOMAIN (queue \o Spoken) : (queue \o Spoken)[i] # "done"
  BY <1>2 DEF Told
<1> DEFINE Before == queue \o Spoken
<1> HIDE DEF Before
<1>6. Before \in Seq(Told) /\ \A i \in DOMAIN Before : Before[i] # "done"
  BY <1>5 DEF Before
<1>7. /\ Before \o Last \in Seq(Told)
      /\ (\E i \in DOMAIN (Before \o Last) : (Before \o Last)[i] = "done") => node' = "end"
  BY <1>3, <1>6
<1> QED
  BY <1>4, <1>7 DEF Before, Told

LEMMA StepKeepsDecisionOrder ==
  ASSUME DecisionOrder, [Next]_vars
  PROVE  DecisionOrder'
<1>1. CASE UNCHANGED <<node, queue, decision>>
  BY <1>1 DEF DecisionOrder
<1>2. CASE Work
  <2>1. node # "end"
    BY <1>2, GraphSteps, NamesOfNodes DEF Work
  <2>2. CASE queue' = Reports
    BY <1>2, <2>1, <2>2, WorkReports DEF Work, DecisionOrder, approvalVars
  <2>3. CASE queue' = queue
    BY <1>2, <2>1, <2>3 DEF Work, DecisionOrder, approvalVars
  <2> QED
    BY <1>2, <2>2, <2>3 DEF Work
<1>3. CASE /\ queue # <<>> /\ queue' = Tail(queue) /\ node' = node
           /\ decision' = decision \/ Head(queue) = "done"
  BY <1>3 DEF DecisionOrder
<1>4. CASE Stop
  BY <1>4 DEF Stop, DecisionOrder, graphVars, approvalVars
<1>5. CASE Review
  BY <1>1, <1>5 DEF Review, runVars, graphVars, ApprovalNext, Decide, Execute, ExecuteLater, ExecutionNode
<1>6. CASE Task
  BY <1>1, <1>3, <1>6 DEF Task, Start, Timeout, Record, WorkerRaised, Notified, Finish, Await,
    graphVars, approvalVars
<1>7. CASE Delete \/ \E c \in Clients : Request(c) \/ Join(c)
  BY <1>1, <1>7 DEF Delete, Request, Join, graphVars, approvalVars
<1>8. CASE UNCHANGED vars
  BY <1>1, <1>8 DEF vars, runVars, graphVars, approvalVars
<1> QED
  BY <1>2, <1>4, <1>5, <1>6, <1>7, <1>8 DEF Next

(* A decision, which the approval rules, the reviewers and the execution    *)
(* node act on, is known only once the graph has ended, and then every agent*)
(* of its mode has reported and both debates ran their rounds, for any bound*)
(* of tool rounds, though nodes raise, the task gives up or the process     *)
(* stops (orchestrator.py, analysis_runs.py, analyze.py).                   *)
THEOREM DecisionsRestOnAllReports ==
  Spec => [](DecidedOnAllReports /\ (decision.known => node = "end"))
<1>1. GraphOrder /\ [Next]_vars => GraphOrder'
  BY StepKeepsGraphOrder
<1>2. DecisionOrder /\ [Next]_vars => DecisionOrder'
  BY StepKeepsDecisionOrder
<1>3. GraphOrder /\ DecisionOrder => DecidedOnAllReports /\ (decision.known => node = "end")
  BY DEF GraphOrder, DecisionOrder
<1>4. QED
  BY <1>1, <1>2, <1>3, InitGraphOrder, InitDecisionOrder, PTL DEF Spec
=============================================================================
