----------------------------- MODULE AnalysisRuns -----------------------------
(***************************************************************************)
(* One analysis from the request to its end (server/analysis_runs.py,      *)
(* server/routes/analyze.py): the snapshot file, the clients that listen,  *)
(* the task on the event loop and the thread that runs the graph.          *)
(*                                                                         *)
(* The thread runs AnalysisGraph and only fills `queue`.  The task empties *)
(* it, writes the snapshot and tells the clients; its steps end at each    *)
(* await, so the handlers of other requests run in between.  The decision  *)
(* goes through Approvals.                                                 *)
(***************************************************************************)
EXTENDS AnalysisGraph, Approvals, FiniteSets

CONSTANTS
  Clients,   \* who may listen to the run
  Faults     \* bound on the writes of the snapshot that fail

ASSUME RunAssumption == Faults \in Nat

VARIABLES
  snapshot,   \* status in the snapshot file, "none" without a file
  deleted,    \* the deletion marker exists
  open,       \* the session is in _subscribers
  task,       \* where _execute_analysis_run awaits
  queue,      \* worker's queue: agents that reported, "done", "error"
  recorded,   \* progress_events: the agents recorded as completed
  outcome,    \* the outcome that was published, "none" before
  clients,    \* [joined, told, ended] of each client
  faults      \* writes that failed so far

runVars == <<snapshot, deleted, open, task, queue, recorded, outcome, clients, faults>>
vars == <<graphVars, approvalVars, runVars>>
-----------------------------------------------------------------------------
Outcomes == {"result", "error"}
Absent == [joined |-> "no", told |-> {}, ended |-> FALSE]

TypeOK ==
  /\ GraphTypeOK /\ ApprovalTypeOK
  /\ snapshot \in {"none", "running", "completed", "failed"}
  /\ deleted \in BOOLEAN /\ open \in BOOLEAN
  /\ task \in {"idle", "created", "awaiting", "notifying", "gone", "lost"}
  /\ queue \in Seq(Nodes \union {"done", "error"})
  /\ recorded \subseteq Nodes
  /\ outcome \in Outcomes \union {"none"}
  /\ clients \in [Clients -> [joined : {"no", "open", "closing", "late"},
                              told : SUBSET Outcomes, ended : BOOLEAN]]
  /\ faults \in 0 .. Faults

Init ==
  /\ GraphInit /\ ApprovalInit
  /\ snapshot = "none" /\ deleted = FALSE /\ open = FALSE
  /\ task = "idle" /\ queue = <<>> /\ recorded = {}
  /\ outcome = "none" /\ clients = [c \in Clients |-> Absent] /\ faults = 0
-----------------------------------------------------------------------------
Listening(c) == clients[c].joined \in {"open", "closing"} /\ ~clients[c].ended

(* publish_run_event: the queue of every subscriber gets the event.         *)
Publish(event) ==
  [c \in Clients |-> IF Listening(c) THEN [clients[c] EXCEPT !.told = @ \union {event}]
                                      ELSE clients[c]]

(* close_run: the subscribers are taken and each gets the end.              *)
Close ==
  /\ clients' = [c \in Clients |-> IF Listening(c) THEN [clients[c] EXCEPT !.ended = TRUE]
                                                   ELSE clients[c]]
  /\ open' = FALSE /\ task' = "gone"

(* Mutant: a write after the deletion brings the file back. *)
StoredAnyway(status) == status

(* _write_snapshot and its callers do nothing once the marker exists.       *)
Stored(status) == IF deleted THEN snapshot ELSE status

(* That many writes of the snapshot raise.                                  *)
Raises(n) ==
  /\ faults + n <= Faults /\ (n > 0 => ~deleted)
  /\ faults' = faults + n

(* analyze: the running snapshot, the run, its first subscriber, the task.  *)
Request(c) ==
  /\ task = "idle" /\ task' = "created"
  /\ snapshot' = "running" /\ open' = TRUE
  /\ clients' = [clients EXCEPT ![c].joined = "open"]
  /\ UNCHANGED <<graphVars, approvalVars, deleted, queue, recorded, outcome, faults>>

(* subscribe_analysis_run: 404 for what has_run does not know; an open run  *)
(* adds the queue; a stored one is told its outcome and the end at once.    *)
Join(c) ==
  /\ clients[c] = Absent /\ task # "idle"
  /\ ~deleted /\ (open \/ snapshot # "none")
  /\ clients' = [clients EXCEPT ![c] =
       IF open THEN [@ EXCEPT !.joined = IF outcome = "none" THEN "open" ELSE "closing"]
       ELSE [joined |-> "late", ended |-> TRUE,
             told |-> CASE snapshot = "completed" -> {"result"}
                        [] snapshot = "failed" -> {"error"} [] OTHER -> {}]]
  /\ UNCHANGED <<graphVars, approvalVars, snapshot, deleted, open, task, queue, recorded, outcome, faults>>

(* delete_history: the marker, then the file.                               *)
Delete ==
  /\ snapshot # "none"
  /\ deleted' = TRUE /\ snapshot' = "none"
  /\ UNCHANGED <<graphVars, approvalVars, open, task, queue, recorded, outcome, clients, faults>>
-----------------------------------------------------------------------------
(* The thread: a step of the graph, and what the task will read of it.      *)
Reports ==
  queue \o (IF reports' # reports THEN <<CHOOSE n \in reports' : n \notin reports>> ELSE <<>>)
        \o (CASE node' = "end" -> <<"done">> [] node' = "raised" -> <<"error">> [] OTHER -> <<>>)

(* Once the task has left the loop nobody reads the queue.                  *)
Work ==
  /\ task \in {"awaiting", "notifying", "gone"}
  /\ GraphNext
  /\ queue' = IF task = "awaiting" THEN Reports ELSE queue
  /\ UNCHANGED <<approvalVars, snapshot, deleted, open, task, recorded, outcome, clients, faults>>
-----------------------------------------------------------------------------
(* Mutant: a failure that cannot be stored is not told, and the run closed  *)
(* before it is told. *)
FailClosed(attempts) ==
  \/ \E n \in 0 .. attempts - 1 :
       /\ Raises(n)
       /\ snapshot' = Stored("failed") /\ outcome' = "error" /\ Close
  \/ /\ Raises(attempts)
     /\ Close /\ UNCHANGED <<snapshot, outcome>>

(* _fail_analysis_run: the failure is stored, told, and its notification    *)
(* awaited.  When the store raises, the run's except clause tries it once   *)
(* more, and when that raises too only close_run is left.                   *)
Fail(attempts) ==
  \/ \E n \in 0 .. attempts - 1 :
       /\ Raises(n)
       /\ snapshot' = Stored("failed")
       /\ clients' = Publish("error") /\ outcome' = "error"
       /\ task' = "notifying" /\ UNCHANGED open
  \/ /\ Raises(attempts)
     /\ Close /\ UNCHANGED <<snapshot, outcome>>

(* A write of the loop or of the result raises: the except clause fails the *)
(* run.                                                                     *)
Stumble ==
  /\ faults < Faults /\ ~deleted
  /\ \/ /\ faults' = faults + 1
        /\ snapshot' = "failed"
        /\ clients' = Publish("error") /\ outcome' = "error"
        /\ task' = "notifying" /\ UNCHANGED open
     \/ Raises(2) /\ Close /\ UNCHANGED <<snapshot, outcome>>

(* The task records "started" and starts the thread.                        *)
Start ==
  /\ task = "created"
  /\ \/ task' = "awaiting" /\ UNCHANGED <<snapshot, open, outcome, clients, faults>>
     \/ Stumble
  /\ UNCHANGED <<graphVars, approvalVars, deleted, queue, recorded>>

Await == task = "awaiting" /\ UNCHANGED <<graphVars, deleted>>

(* Mutant: an empty queue is waited for again. *)
TimeoutIgnored ==
  /\ Await /\ queue = <<>>
  /\ UNCHANGED <<approvalVars, runVars>>

(* The queue stayed empty for 120 seconds.                                  *)
Timeout ==
  /\ Await /\ queue = <<>>
  /\ Fail(2)
  /\ UNCHANGED <<approvalVars, queue, recorded>>

Record ==
  /\ Await /\ queue # <<>> /\ Head(queue) \in Nodes
  /\ queue' = Tail(queue)
  /\ \/ /\ recorded' = recorded \union {Head(queue)}
        /\ UNCHANGED <<snapshot, open, task, outcome, clients, faults>>
     \/ Stumble /\ UNCHANGED recorded
  /\ UNCHANGED approvalVars

WorkerRaised ==
  /\ Await /\ queue # <<>> /\ Head(queue) = "error"
  /\ queue' = Tail(queue)
  /\ Fail(2)
  /\ UNCHANGED <<approvalVars, recorded>>

(* The decision goes through the approval rules, the result is stored and   *)
(* told: one step, whether or not the approval row or the result is stored. *)
Finish(action, target, confident, stored) ==
  /\ Await /\ queue # <<>> /\ Head(queue) = "done"
  /\ queue' = Tail(queue) /\ UNCHANGED recorded
  /\ Propose([action |-> action, target |-> target, confident |-> confident, known |-> TRUE], stored)
  /\ \/ /\ snapshot' = Stored("completed")
        /\ clients' = Publish("result") /\ outcome' = "result"
        /\ task' = "notifying" /\ UNCHANGED <<open, faults>>
     \/ Stumble

(* The notification was sent, or failed: finally, close_run.                *)
Notified ==
  /\ task = "notifying"
  /\ Close
  /\ UNCHANGED <<graphVars, approvalVars, snapshot, deleted, queue, recorded, outcome, faults>>

(* The process stops: subscribers, queue, task and thread are gone.  Nothing*)
(* at the next start looks for a snapshot that still says running.          *)
Stop ==
  /\ task \in {"created", "awaiting", "notifying"}
  /\ task' = "lost" /\ open' = FALSE /\ queue' = <<>>
  /\ clients' = [c \in Clients |-> IF Listening(c) THEN Absent ELSE clients[c]]
  /\ UNCHANGED <<graphVars, approvalVars, snapshot, deleted, recorded, outcome, faults>>

Task ==
  \/ Start \/ Timeout \/ Record \/ WorkerRaised \/ Notified
  \/ \E action \in Actions, target \in Targets, confident, stored \in BOOLEAN :
       Finish(action, target, confident, stored)

(* Reviewers and the execution node.                                        *)
Review == ApprovalNext /\ UNCHANGED <<graphVars, runVars>>

Next ==
  \/ \E c \in Clients : Request(c) \/ Join(c)
  \/ Delete \/ Work \/ Task \/ Stop \/ Review

Spec == Init /\ [][Next]_vars

(* The event loop runs the task whenever it is ready, and queue.get gives up*)
(* after its timeout.  Nothing is assumed of the thread, which may hang in a*)
(* call of the model for ever.                                              *)
FairSpec == Spec /\ WF_vars(Task)
-----------------------------------------------------------------------------
(* A client that listened before the outcome was told exactly the outcome   *)
(* before its stream ended; one that came later reads it from the snapshot. *)
EveryListenerIsTold ==
  \A c \in Clients : clients[c].ended =>
    CASE clients[c].joined = "open" -> clients[c].told = {outcome} \ {"none"}
      [] clients[c].joined = "late" -> clients[c].told \subseteq {outcome}
      [] OTHER -> clients[c].told = {}

(* A deleted analysis does not come back, whatever its task still writes,   *)
(* and an outcome once told or stored is not replaced.                      *)
OutcomeStands ==
  [][/\ deleted => deleted' /\ snapshot' = "none"
     /\ snapshot \in {"completed", "failed"} => snapshot' \in {snapshot, "none"}
     /\ outcome # "none" => outcome' = outcome]_vars

(* Every stream ends, though the model may never answer, unless the process *)
(* stopped.                                                                 *)
StreamsEnd == \A c \in Clients : Listening(c) ~> (~Listening(c) \/ task = "lost")
=============================================================================
