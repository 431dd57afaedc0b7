------------------------------ MODULE Approvals ------------------------------
(***************************************************************************)
(* What becomes of one decision of the portfolio manager: the approval     *)
(* rules (hitl/rules.py), the approval row and the reviewers' requests     *)
(* (server/routes/approvals.py, hitl/state_machine.py) and the execution   *)
(* node that turns it into an order (quick_ask/execution_node.py).         *)
(*                                                                         *)
(* Percentages are integers; a price of 1 and an equity of 100 make one    *)
(* per cent one share.  Who calls the execution node is outside the code:  *)
(* the caller passes it the result's approval_status or, once there is a   *)
(* row, the row's.                                                         *)
(***************************************************************************)
EXTENDS Integers

CONSTANTS
  Targets,    \* target positions a decision or a reviewer may name, in per cent
  Positions,  \* positions the account may hold before
  Reviewers

ASSUME ApprovalAssumption == Targets \subseteq -100 .. 100 /\ Positions \subseteq -100 .. 100

VARIABLES
  asked,      \* current_position_pct of the request: 0 unless the caller says
  decision,   \* the decision of the analysis, NoDecision before
  verdict,    \* approval_status in the result of the analysis
  approval,   \* the row of approvals, NoApproval before
  execution,  \* the last execution report, NoReport before
  shares      \* the account's position

approvalVars == <<asked, decision, verdict, approval, execution, shares>>
-----------------------------------------------------------------------------
Actions == {"BUY", "SELL", "HOLD"}
NoDecision == [action |-> "HOLD", target |-> 0, confident |-> TRUE, known |-> FALSE]
NoApproval == [status |-> "none", modified |-> 0, reviewer |-> "none"]
NoSnapshot == [status |-> "none", original |-> 0, modified |-> 0]
NoReport == [status |-> "none", reason |-> "none", snapshot |-> NoSnapshot, event |-> "none"]
Final == {"approved", "rejected", "modified", "timed_out"}

ApprovalTypeOK ==
  /\ decision \in [action : Actions, target : Int, confident : BOOLEAN, known : BOOLEAN]
  /\ verdict \in {"none", "not_required", "pending"}
  /\ approval \in [status : {"none", "pending"} \union Final, modified : Int,
                   reviewer : Reviewers \union {"none"}]
  /\ execution \in [status : {"none", "skipped", "pending", "rejected", "held", "failed", "executed"},
                   reason : STRING,
                   snapshot : [status : {"none", "pending"} \union Final, original : Int, modified : Int],
                   event : {"none", "pending", "rejected", "failed"}]
  /\ asked \in Int /\ shares \in Int

(* AnalyzeRequest: 0 when the caller does not say what is held.             *)
PositionNamed(held) == {0, held}

ApprovalInit ==
  /\ decision = NoDecision /\ verdict = "none" /\ approval = NoApproval
  /\ execution = NoReport
  /\ shares \in Positions /\ asked \in PositionNamed(shares)
-----------------------------------------------------------------------------
PositionThreshold == 20
ConcentrationLimit == 30

(* Clamped as _build_result_payload clamps the target it shows to the rules.*)
Clamped(target) == IF target < 0 THEN 0 ELSE IF target > 100 THEN 100 ELSE target
Distance(a, b) == IF a >= b THEN a - b ELSE b - a

(* HITLRuleEngine.evaluate: against the position the request names.         *)
NeedsApproval(d) ==
  LET target == Clamped(d.target)
  IN /\ ~(d.action = "HOLD" /\ target = 0)
     /\ \/ Distance(target, asked) > PositionThreshold
        \/ ~d.confident
        \/ target > ConcentrationLimit

(* Mutant: the status is set after the row is stored. *)
ProposeFailOpen(d, stored) ==
  /\ decision' = d
  /\ verdict' = IF NeedsApproval(d) /\ stored THEN "pending" ELSE "not_required"
  /\ approval' = IF NeedsApproval(d) /\ stored THEN [NoApproval EXCEPT !.status = "pending"]
                                               ELSE approval
  /\ UNCHANGED <<asked, execution, shares>>

(* create_approval, which may raise: the failure is logged.                 *)
CreateApproval(stored) ==
  approval' = IF stored THEN [NoApproval EXCEPT !.status = "pending"] ELSE approval

(* The end of an analysis: a decision that needs approval is stored with a  *)
(* pending row, and its result says pending even if the store raised.       *)
Propose(d, stored) ==
  /\ decision' = d
  /\ verdict' = IF NeedsApproval(d) THEN "pending" ELSE "not_required"
  /\ IF NeedsApproval(d) THEN CreateApproval(stored) ELSE UNCHANGED approval
  /\ UNCHANGED <<asked, execution, shares>>

(* ApprovalStateMachine.VALID_TRANSITIONS                                   *)
CanTransition(from, to) == from = "pending" /\ to \in Final

(* Mutant: the transition is not checked. *)
DecideAgain(r, status, target) ==
  /\ approval.status # "none"
  /\ approval' = [status |-> status, reviewer |-> r,
                  modified |-> IF status = "modified" THEN target ELSE approval.modified]
  /\ UNCHANGED <<asked, decision, verdict, execution, shares>>

(* apply_decision, and update_approval_status, which leaves a target that   *)
(* is not given as it was.                                                  *)
ApplyDecision(r, status, target) ==
  [status |-> status, reviewer |-> r, modified |-> IF status = "modified" THEN target ELSE 0]
UpdateApproval(request) ==
  approval' = [request EXCEPT !.modified =
                 IF request.status = "modified" THEN @ ELSE approval.modified]

(* approve, reject, modify: one handler without an await up to its commit.  *)
(* It raises where the transition is not valid.                             *)
Decide(r, status, target) ==
  /\ CanTransition(approval.status, status)
  /\ status = "modified" => target >= 0
  /\ UpdateApproval(ApplyDecision(r, status, target))
  /\ UNCHANGED <<asked, decision, verdict, execution, shares>>
-----------------------------------------------------------------------------
(* The approval status the execution node is called with.                   *)
ApprovalStatus == IF approval.status # "none" THEN approval.status ELSE verdict

ExecutionTarget == IF ApprovalStatus = "modified" THEN approval.modified ELSE decision.target

(* _approval_snapshot: what a report says of the review, nothing where none *)
(* was needed or the decision was approved as it is.                        *)
ApprovalSnapshot ==
  IF ApprovalStatus \in {"not_required", "approved"} THEN NoSnapshot
  ELSE [status |-> ApprovalStatus, original |-> decision.target,
        modified |-> IF ApprovalStatus = "modified" THEN approval.modified ELSE 0]

(* The execution event the node publishes: none when an order was filled,   *)
(* of which the broker tells, or none was needed.                           *)
EventOf(status) == IF status \in {"pending", "rejected", "failed"} THEN status ELSE "none"

(* A report without an order, and one with.                                 *)
StatusReport(status, reason) ==
  [status |-> status, reason |-> reason, snapshot |-> ApprovalSnapshot, event |-> EventOf(status)]
OrderReport(status) ==
  StatusReport(status, IF status = "rejected" THEN "broker rejected order" ELSE "none")

(* The reports that end the node before it looks at the market.             *)
Skipped == [NoReport EXCEPT !.status = "skipped", !.reason = "execution disabled"]
Blocked(enabled) ==
  IF ~enabled THEN Skipped
  ELSE IF ApprovalStatus = "pending" THEN StatusReport("pending", "waiting for approval")
  ELSE IF ApprovalStatus \in {"rejected", "timed_out"} THEN StatusReport("rejected", "approval rejected")
  ELSE IF decision.action = "HOLD" THEN StatusReport("held", "PM held") ELSE NoReport

(* The status of the order the broker filled, kept, rejected or cancelled.  *)
StatusOf(order) ==
  CASE order = "FILLED" -> "executed" [] order = "NEW" -> "pending"
    [] order = "REJECTED" -> "rejected" [] order = "CANCELED" -> "failed"

(* Without a price the node fails; else a market order covers the distance  *)
(* to the target.                                                           *)
Trade ==
  \/ execution' = StatusReport("failed", "missing market price") /\ UNCHANGED shares
  \/ /\ ExecutionTarget = shares
     /\ execution' = StatusReport("held", "target already satisfied") /\ UNCHANGED shares
  \/ /\ ExecutionTarget # shares
     /\ \E order \in {"FILLED", "NEW", "REJECTED", "CANCELED"} :
          /\ execution' = OrderReport(StatusOf(order))
          /\ shares' = IF order = "FILLED" THEN ExecutionTarget ELSE shares

ExecutionNode ==
  /\ \E enabled \in BOOLEAN :
       IF Blocked(enabled) # NoReport THEN execution' = Blocked(enabled) /\ UNCHANGED shares ELSE Trade
  /\ UNCHANGED <<asked, decision, verdict, approval>>

Execute == decision.known /\ execution = NoReport /\ ExecutionNode

(* The node is called again for a decision that waited for approval.        *)
ExecuteLater == execution.reason = "waiting for approval" /\ ExecutionNode

ApprovalNext ==
  \/ \E r \in Reviewers, status \in Final \ {"timed_out"}, target \in Targets :
       Decide(r, status, target)
  \/ Execute \/ ExecuteLater
-----------------------------------------------------------------------------
(* "Trigger approval when position change exceeds this percentage" and "...  *)
(* when single-ticker target position exceeds this percentage".             *)
LargeChange(from) ==
  \/ Distance(decision.target, from) > PositionThreshold
  \/ decision.target > ConcentrationLimit

Executes == execution.status # "executed" /\ execution'.status = "executed"
Reviewed == approval.status \in {"approved", "modified"}

(* A decision with a long target is never executed beyond the thresholds,   *)
(* taken from the position the request named, or on weak confidence, unless *)
(* a reviewer approved or modified it; a row that could not be stored does  *)
(* not let it pass (analyze.py, rules.py, execution_node.py).               *)
LongsAreReviewed ==
  [][Executes /\ decision.target >= 0 /\ (LargeChange(asked) \/ ~decision.confident)
       => Reviewed]_approvalVars

(* What is traded is what was decided last: the reviewer's target after a   *)
(* modification, else the manager's, and what a reviewer decided is not     *)
(* decided again; a report that names a review names the one in force, with *)
(* the target traded (execution_node.py, state_machine.py).                 *)
TradedAsDecided ==
  [][/\ shares' # shares =>
          /\ approval.status \notin {"pending", "rejected", "timed_out"}
          /\ shares' = IF approval.status = "modified" THEN approval.modified ELSE decision.target
     /\ approval.status \in Final => approval' = approval
     /\ Executes /\ execution'.snapshot # NoSnapshot =>
          /\ execution'.snapshot.status = approval.status
          /\ execution'.snapshot.modified = shares']_approvalVars
=============================================================================
