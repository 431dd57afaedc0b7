---------------------------- MODULE BacktestJobs ----------------------------
(***************************************************************************)
(* The durable backtest jobs: agent/backtest_jobs.py over the tables       *)
(* backtest_jobs, backtest_decisions and backtest_input_snapshots of       *)
(* storage/store.py.                                                       *)
(*                                                                         *)
(* An HTTP handler inserts a row and submits a task to a thread pool of    *)
(* MaxWorkers threads; the thread claims the row, prepares market data,    *)
(* binds the content-addressed input snapshot, walks the bars recording    *)
(* one decision at a time, then re-reads what was stored and completes the *)
(* row.  Every store call is one committed transaction and may raise; the  *)
(* process may crash between any two of them, and startup marks whatever   *)
(* is still open as failed.  A client polls one job at a time; the poll    *)
(* reads the row and the decisions in two statements.                      *)
(***************************************************************************)
EXTENDS Naturals, Sequences, FiniteSets

CONSTANTS
  Jobs,          \* job identifiers (uuid4 hex)
  Snapshots,     \* content hashes of canonical input snapshots
  Null,          \* SQL NULL
  Watched,       \* the jobs some client polls
  MaxDecisions,  \* bound: decision dates of a run
  MaxWorkers,    \* threads of the executor
  MaxCrashes,    \* bound: process crashes
  MaxFaults,     \* bound: store calls that raise
  MaxIntruders   \* bound: startups of another process on the same data directory

ASSUME JobsAssumption ==
  /\ Null \notin Snapshots \union Jobs
  /\ Watched \subseteq Jobs
  /\ MaxDecisions \in Nat
  /\ MaxWorkers \in Nat \ {0}
  /\ MaxCrashes \in Nat /\ MaxFaults \in Nat /\ MaxIntruders \in Nat

VARIABLES
  rows,       \* rows[j]: the row of j in backtest_jobs
  snapshots,  \* content hashes stored in backtest_input_snapshots
  decisions,  \* decisions[j][n]: decision n of j in backtest_decisions
  server,     \* the server process: up, draining its executor, or down
  queue,      \* tasks submitted to the executor and not taken by a thread
  pc,         \* pc[j]: what the handler or the thread that holds j does next
  origin,     \* origin[j]: the snapshot a replay task was submitted with, or Null
  seq,        \* seq[j]: decision_sequence of the run
  pend,       \* pend[j]: sequence of pending_intent, 0 if none
  code,       \* code[j]: the error code the thread is about to persist
  held,       \* held[j]: the result built in memory from what was re-read
  poll,       \* the poll in progress: the job and the row it has read
  told,       \* told[j]: the last status a client was given for j
  budget      \* what is left of the three bounds

durable == <<rows, snapshots, decisions>>
run == <<seq, pend, code, held>>
vars == <<rows, snapshots, decisions, server, queue, pc, origin, seq, pend,
          code, held, poll, told, budget>>
-----------------------------------------------------------------------------
Sequences1 == 1 .. MaxDecisions
DecisionStates == {"none", "not_ready", "completed", "executed", "failed"}
Evidence == [Sequences1 -> DecisionStates]
NoEvidence == [n \in Sequences1 |-> "none"]
Hashes == Snapshots \union {Null}
Results == [hash : Hashes, decisions : Evidence]
NoResult == [hash |-> Null, decisions |-> NoEvidence]
ErrorCodes == {"market_data_unavailable", "insufficient_history", "decision_failed",
               "execution_failed", "backtest_failed", "interrupted"}
OpenStatus == {"pending", "running"}
Rows == [status : {"absent", "completed", "failed"} \union OpenStatus,
         hash : Hashes, result : Results, error : ErrorCodes \union {""}]
NoRow == [status |-> "absent", hash |-> Null, result |-> NoResult, error |-> ""]

(* Where a thread of the executor can be while it holds a task. *)
ThreadAt == {"rebind", "data", "bind", "bars", "undecided", "collect", "complete",
             "failing"}
(* "lost": a store call raised outside the try blocks, so the Future holds  *)
(* the exception and nobody will touch the row again.                       *)
Places == {"none", "creating", "queued", "done", "lost"} \union ThreadAt

NoPoll == [job |-> Null, row |-> NoRow]
Answers == {"none", "pending", "running", "completed", "failed", "storage_corrupt"}

TypeOK ==
  /\ rows \in [Jobs -> Rows]
  /\ snapshots \in SUBSET Snapshots
  /\ decisions \in [Jobs -> Evidence]
  /\ server \in {"up", "draining", "down"}
  /\ queue \in Seq(Jobs)
  /\ pc \in [Jobs -> Places]
  /\ origin \in [Jobs -> Hashes]
  /\ seq \in [Jobs -> 0 .. MaxDecisions]
  /\ pend \in [Jobs -> 0 .. MaxDecisions]
  /\ code \in [Jobs -> ErrorCodes \union {""}]
  /\ held \in [Jobs -> Results]
  /\ poll \in [job : Jobs \union {Null}, row : Rows]
  /\ told \in [Jobs -> Answers]
  /\ budget \in [crashes : Nat, faults : Nat, intruders : Nat]

Init ==
  /\ rows = [j \in Jobs |-> NoRow]
  /\ snapshots = {}
  /\ decisions = [j \in Jobs |-> NoEvidence]
  /\ server = "up"
  /\ queue = <<>>
  /\ pc = [j \in Jobs |-> "none"]
  /\ origin = [j \in Jobs |-> Null]
  /\ seq = [j \in Jobs |-> 0]
  /\ pend = [j \in Jobs |-> 0]
  /\ code = [j \in Jobs |-> ""]
  /\ held = [j \in Jobs |-> NoResult]
  /\ poll = NoPoll
  /\ told = [j \in Jobs |-> "none"]
  /\ budget = [crashes |-> MaxCrashes, faults |-> MaxFaults, intruders |-> MaxIntruders]
-----------------------------------------------------------------------------
(* The statements of storage/store.py.                                      *)

(* UPDATE ... SET status = 'running' ... WHERE status = 'pending' *)
MarkRunning(j) == rows' = [rows EXCEPT ![j].status = "running"]
CanMarkRunning(j) == rows[j].status = "pending"

(* Mutant: the WHERE clause on the status is lost. *)
FailedRowAlways(row, error) == [row EXCEPT !.status = "failed", !.error = error]

(* UPDATE ... SET status = 'failed' ... WHERE status IN ('pending', 'running') *)
FailedRow(row, error) ==
  IF row.status \in OpenStatus
    THEN [row EXCEPT !.status = "failed", !.error = error]
    ELSE row

(* Mutant: completion no longer requires a running row. *)
CompletedRowAlways(row, result) ==
  IF row.hash # Null
    THEN [row EXCEPT !.status = "completed", !.result = result, !.error = ""]
    ELSE row

(* UPDATE ... SET status = 'completed' ... WHERE status = 'running' AND     *)
(* input_snapshot_hash IS NOT NULL                                          *)
CompletedRow(row, result) ==
  IF row.status = "running" /\ row.hash # Null
    THEN [row EXCEPT !.status = "completed", !.result = result, !.error = ""]
    ELSE row

(* Mutant: recovery settles the running rows and forgets the pending ones. *)
RecoverRunningOnly ==
  rows' = [j \in Jobs |-> IF rows[j].status = "running"
                             THEN FailedRow(rows[j], "interrupted") ELSE rows[j]]

(* UPDATE of every pending or running row to 'failed'/'interrupted'. *)
RecoverInterrupted ==
  rows' = [j \in Jobs |-> FailedRow(rows[j], "interrupted")]

(* Mutant: the row is bound and the payload is not inserted. *)
BindWithoutPayload(j, s) ==
  /\ rows' = [rows EXCEPT ![j].hash = s]
  /\ UNCHANGED snapshots

(* bind_backtest_input_snapshot refuses a second, different snapshot. *)
CanBind(j, s) == rows[j].hash \in {Null, s}
Bind(j, s) ==
  /\ snapshots' = snapshots \union {s}
  /\ rows' = [rows EXCEPT ![j].hash = s]

(* A stored snapshot is read back and decoded.                              *)
HasSnapshot(hash) == hash \in snapshots

(* The upsert into backtest_decisions requires a bound snapshot. *)
CanRecord(j) == rows[j].hash # Null
Record(j, n, state) == decisions' = [decisions EXCEPT ![j][n] = state]
-----------------------------------------------------------------------------
(* HTTP handlers: POST /agent/backtest and POST /agent/backtest/{id}/replay.*)
(* They, and the poll below, are coroutines without an await: no two are    *)
(* inside together, but threads and the rest of the world run beside them.  *)
HandlersIdle == poll.job = Null /\ \A k \in Jobs : pc[k] # "creating"

Insert(j, s) ==
  /\ server = "up" /\ HandlersIdle
  /\ rows[j].status = "absent" /\ pc[j] = "none"
  /\ rows' = [rows EXCEPT ![j].status = "pending"]
  /\ origin' = [origin EXCEPT ![j] = s]
  /\ pc' = [pc EXCEPT ![j] = "creating"]
  /\ UNCHANGED <<snapshots, decisions, server, queue, run, poll, told, budget>>

Create(j) == Insert(j, Null)

(* replay() accepts any v1 source whose snapshot is bound and stored. *)
CreateReplay(j) ==
  \E source \in Jobs :
    /\ rows[source].hash # Null
    /\ HasSnapshot(rows[source].hash)
    /\ Insert(j, rows[source].hash)

Submit(j) ==
  /\ pc[j] = "creating"
  /\ queue' = Append(queue, j)
  /\ pc' = [pc EXCEPT ![j] = "queued"]
  /\ UNCHANGED <<durable, server, origin, run, poll, told, budget>>
-----------------------------------------------------------------------------
(* A thread of the executor.                                                *)
Busy == {j \in Jobs : pc[j] \in ThreadAt}

Goto(j, place) == pc' = [pc EXCEPT ![j] = place]

FailWith(j, error) ==
  /\ Goto(j, "failing")
  /\ code' = [code EXCEPT ![j] = error]

(* Mutant: a replay task runs like a fresh one and fetches its data again. *)
StartFresh(j) ==
  /\ queue # <<>> /\ Head(queue) = j /\ Cardinality(Busy) < MaxWorkers
  /\ queue' = Tail(queue)
  /\ CanMarkRunning(j)
  /\ MarkRunning(j)
  /\ Goto(j, "data")
  /\ UNCHANGED <<snapshots, decisions, server, origin, run, poll, told, budget>>

(* _run_persisted_job starts by claiming the row; a row that recovery has   *)
(* settled meanwhile is left alone.                                         *)
Start(j) ==
  /\ queue # <<>> /\ Head(queue) = j /\ Cardinality(Busy) < MaxWorkers
  /\ queue' = Tail(queue)
  /\ \/ /\ CanMarkRunning(j)
        /\ MarkRunning(j)
        /\ Goto(j, IF origin[j] = Null THEN "data" ELSE "rebind")
     \/ /\ ~ CanMarkRunning(j)
        /\ Goto(j, "done")
        /\ UNCHANGED rows
  /\ UNCHANGED <<snapshots, decisions, server, origin, run, poll, told, budget>>

(* A replay binds the snapshot it was submitted with before it runs. *)
RebindReplay(j) ==
  /\ pc[j] = "rebind"
  /\ \/ /\ CanBind(j, origin[j])
        /\ Bind(j, origin[j])
        /\ Goto(j, "data")
        /\ UNCHANGED code
     \/ /\ ~ CanBind(j, origin[j])
        /\ FailWith(j, "execution_failed")
        /\ UNCHANGED <<rows, snapshots>>
  /\ UNCHANGED <<decisions, server, queue, origin, seq, pend, held, poll, told, budget>>

(* A fresh job fetches the history of its target and of its benchmark.      *)
LoadData(j) ==
  /\ origin[j] = Null
  /\ Goto(j, "bind")
  /\ UNCHANGED code

(* The payload of a replay does not decode to what its header says.         *)
Unreadable(j) == FailWith(j, "market_data_unavailable")

(* A replay decodes the frames of the payload it was submitted with; one    *)
(* whose shape, provenance or window is not what its spec says fails.       *)
ReadFrames(j) ==
  /\ origin[j] # Null
  /\ \/ Goto(j, "bind") /\ UNCHANGED code
     \/ Unreadable(j)

PrepareData(j) ==
  /\ pc[j] = "data"
  /\ LoadData(j) \/ ReadFrames(j)
  /\ UNCHANGED <<durable, server, queue, origin, seq, pend, held, poll, told, budget>>

(* Frames with other columns than the canonical ones, or with a value that  *)
(* is not finite, have no canonical form.                                   *)
NotCanonical(j) == FailWith(j, "market_data_unavailable")

(* The runner binds the canonical form of the frames it is about to use:    *)
(* whatever the provider returned, or the re-encoded replay frames.         *)
BindInputSnapshot(j) ==
  /\ pc[j] = "bind"
  /\ \/ \E s \in Snapshots :
          \/ /\ CanBind(j, s)
             /\ Bind(j, s)
             /\ Goto(j, "bars")
             /\ UNCHANGED code
          \/ /\ ~ CanBind(j, s)
             /\ FailWith(j, "execution_failed")
             /\ UNCHANGED <<rows, snapshots>>
     \/ NotCanonical(j) /\ UNCHANGED <<rows, snapshots>>
  /\ UNCHANGED <<decisions, server, queue, origin, seq, pend, held, poll, told, budget>>

(* The bar after a decision: the intent is placed (record_execution) or its *)
(* share delta is exactly zero and no order exists.                         *)
RecordExecution(j) ==
  /\ pc[j] = "bars" /\ pend[j] # 0
  /\ \/ /\ decisions[j][pend[j]] = "completed"
        /\ Record(j, pend[j], "executed")
     \/ UNCHANGED decisions
  /\ pend' = [pend EXCEPT ![j] = 0]
  /\ UNCHANGED <<rows, snapshots, server, queue, pc, origin, seq, code, held, poll,
                 told, budget>>

(* The sink's record of a decision that returned, under the sequence it was *)
(* begun with.                                                              *)
RecordDecision(j, state) == Record(j, seq[j] + 1, state)

(* A decision date: begin_decision, decide, record_decision. *)
Decide(j) ==
  /\ pc[j] = "bars" /\ pend[j] = 0 /\ seq[j] < MaxDecisions
  /\ seq' = [seq EXCEPT ![j] = @ + 1]
  /\ \/ /\ CanRecord(j)
        /\ \/ /\ RecordDecision(j, "completed")
              /\ pend' = [pend EXCEPT ![j] = seq[j] + 1]
           \/ /\ RecordDecision(j, "not_ready")
              /\ UNCHANGED pend
        /\ UNCHANGED <<pc, code>>
     \/ /\ ~ CanRecord(j)
        /\ FailWith(j, "execution_failed")
        /\ UNCHANGED <<decisions, pend>>
  /\ UNCHANGED <<rows, snapshots, server, queue, origin, held, poll, told, budget>>

(* decide() raised BacktestDecisionError with the decision begun.           *)
DecisionError(j) ==
  /\ pc[j] = "bars" /\ pend[j] = 0 /\ seq[j] < MaxDecisions
  /\ seq' = [seq EXCEPT ![j] = @ + 1]
  /\ Goto(j, "undecided")
  /\ UNCHANGED <<durable, server, queue, origin, pend, code, held, poll, told, budget>>

RecordFailure(j) ==
  /\ pc[j] = "undecided"
  /\ \/ /\ CanRecord(j)
        /\ Record(j, seq[j], "failed")
        /\ FailWith(j, "decision_failed")
     \/ /\ ~ CanRecord(j)
        /\ FailWith(j, "backtest_failed")
        /\ UNCHANGED decisions
  /\ UNCHANGED <<rows, snapshots, server, queue, origin, seq, pend, held, poll, told,
                 budget>>

(* The last bar is behind: a run none of whose decisions was ready fails.   *)
NeverReady(j) ==
  /\ seq[j] > 0
  /\ \A n \in Sequences1 : decisions[j][n] \in {"none", "not_ready"}

FinishBars(j) ==
  /\ pc[j] = "bars" /\ pend[j] = 0
  /\ \/ /\ NeverReady(j)
        /\ FailWith(j, "insufficient_history")
     \/ /\ ~ NeverReady(j)
        /\ Goto(j, "collect")
        /\ UNCHANGED code
  /\ UNCHANGED <<durable, server, queue, origin, seq, pend, held, poll, told, budget>>

(* No market data, or any other exception inside the run. *)
RunRaises(j) ==
  /\ \/ pc[j] = "data" /\ FailWith(j, "market_data_unavailable")
     \/ pc[j] \in {"data", "bars"} /\ FailWith(j, "execution_failed")
  /\ UNCHANGED <<durable, server, queue, origin, seq, pend, held, poll, told, budget>>

(* The result as it is hashed and stored: its configuration carries the     *)
(* hash of its input, its public part the evidence of its decisions.        *)
SnapshotBound(hash, evidence) == [hash |-> hash, decisions |-> evidence]

(* Mutant: the result keeps the decisions as first recorded in memory,      *)
(* without the execution dates written later.                               *)
CollectFirstRecorded(j) ==
  /\ pc[j] = "collect"
  /\ held' = [held EXCEPT ![j] =
                SnapshotBound(rows[j].hash, [n \in Sequences1 |->
                   IF decisions[j][n] = "executed" THEN "completed" ELSE decisions[j][n]])]
  /\ Goto(j, "complete")
  /\ UNCHANGED <<durable, server, queue, origin, seq, pend, code, poll, told, budget>>

(* The row, its snapshot and its decisions are read back; the result that   *)
(* is hashed carries exactly these.                                         *)
Collect(j) ==
  /\ pc[j] = "collect"
  /\ \/ /\ HasSnapshot(rows[j].hash)
        /\ held' = [held EXCEPT ![j] = SnapshotBound(rows[j].hash, decisions[j])]
        /\ Goto(j, "complete")
        /\ UNCHANGED code
     \/ /\ ~ HasSnapshot(rows[j].hash)
        /\ FailWith(j, "backtest_failed")
        /\ UNCHANGED held
  /\ UNCHANGED <<durable, server, queue, origin, seq, pend, poll, told, budget>>

Complete(j) ==
  /\ pc[j] = "complete"
  /\ rows' = [rows EXCEPT ![j] = CompletedRow(rows[j], held[j])]
  /\ Goto(j, "done")
  /\ UNCHANGED <<snapshots, decisions, server, queue, origin, run, poll, told, budget>>

Fail(j) ==
  /\ pc[j] = "failing"
  /\ rows' = [rows EXCEPT ![j] = FailedRow(rows[j], code[j])]
  /\ Goto(j, "done")
  /\ UNCHANGED <<snapshots, decisions, server, queue, origin, run, poll, told, budget>>
-----------------------------------------------------------------------------
(* A store call raises (a locked database, a full disk).  Inside execute()  *)
(* the worker maps it to a failure code; inside record_failure it becomes   *)
(* backtest_failed; everywhere else nobody catches it.                      *)
StoreRaises(j) ==
  /\ budget.faults > 0
  /\ budget' = [budget EXCEPT !.faults = @ - 1]
  /\ \/ /\ pc[j] \in {"rebind", "bind", "bars"}
        /\ FailWith(j, "execution_failed")
     \/ /\ pc[j] = "undecided"
        /\ FailWith(j, "backtest_failed")
     \/ /\ pc[j] \in {"creating", "collect", "complete", "failing"}
        /\ Goto(j, "lost")
        /\ UNCHANGED code
  /\ UNCHANGED <<durable, server, queue, origin, seq, pend, held, poll, told>>

(* mark_backtest_job_running itself raises. *)
StartRaises(j) ==
  /\ budget.faults > 0
  /\ queue # <<>> /\ Head(queue) = j /\ Cardinality(Busy) < MaxWorkers
  /\ budget' = [budget EXCEPT !.faults = @ - 1]
  /\ queue' = Tail(queue)
  /\ Goto(j, "lost")
  /\ UNCHANGED <<durable, server, origin, run, poll, told>>
-----------------------------------------------------------------------------
(* The process.                                                             *)

(* The lifespan ends: no more requests, executor.shutdown(wait=True). *)
Shutdown ==
  /\ server = "up" /\ HandlersIdle
  /\ server' = "draining"
  /\ UNCHANGED <<durable, queue, pc, origin, run, poll, told, budget>>

Volatile ==
  /\ queue' = <<>>
  /\ pc' = [j \in Jobs |-> "none"]
  /\ seq' = [j \in Jobs |-> 0]
  /\ pend' = [j \in Jobs |-> 0]
  /\ code' = [j \in Jobs |-> ""]
  /\ held' = [j \in Jobs |-> NoResult]
  /\ poll' = NoPoll

Exit ==
  /\ server = "draining" /\ queue = <<>> /\ Busy = {}
  /\ server' = "down"
  /\ Volatile
  /\ UNCHANGED <<durable, origin, told, budget>>

Crash ==
  /\ server # "down" /\ budget.crashes > 0
  /\ budget' = [budget EXCEPT !.crashes = @ - 1]
  /\ server' = "down"
  /\ Volatile
  /\ UNCHANGED <<durable, origin, told>>

(* lifespan startup: recover_interrupted_backtest_jobs, then serve. *)
Startup ==
  /\ server = "down"
  /\ RecoverInterrupted
  /\ server' = "up"
  /\ UNCHANGED <<snapshots, decisions, queue, pc, origin, run, poll, told, budget>>

(* A second server started on the same data directory runs the same startup *)
(* before it discovers that the port is taken; nothing locks the directory. *)
OtherStartup ==
  /\ server # "down" /\ budget.intruders > 0
  /\ budget' = [budget EXCEPT !.intruders = @ - 1]
  /\ RecoverInterrupted
  /\ UNCHANGED <<snapshots, decisions, server, queue, pc, origin, run, poll, told>>
-----------------------------------------------------------------------------
(* GET /agent/backtest/{id}: the row, then the decisions and the snapshot.  *)
ReadRow(j) ==
  /\ server = "up" /\ HandlersIdle
  /\ rows[j].status # "absent"
  /\ poll' = [job |-> j, row |-> rows[j]]
  /\ UNCHANGED <<durable, server, queue, pc, origin, run, told, budget>>

(* _verified_completed_result: the stored decisions, the bound snapshot and *)
(* the hash recomputed over them must be those the result was built from.   *)
Verified(row, evidence) ==
  /\ row.hash # Null
  /\ HasSnapshot(row.hash)
  /\ row.result = SnapshotBound(row.hash, evidence)

Answer(row, evidence) ==
  IF row.status = "completed" /\ ~ Verified(row, evidence)
    THEN "storage_corrupt"
    ELSE row.status

(* The CSV and JSON exports: of a completed job, what its result says and   *)
(* what is stored of its decisions; of any other job nothing.               *)
ExportedResult(row, evidence) ==
  IF Answer(row, evidence) = "completed" THEN row.result ELSE NoResult
ExportedDecisions(row, evidence) ==
  IF Answer(row, evidence) = "completed" THEN evidence ELSE NoEvidence

Respond ==
  /\ poll.job # Null
  /\ told' = [told EXCEPT ![poll.job] = Answer(poll.row, decisions[poll.job])]
  /\ poll' = NoPoll
  /\ UNCHANGED <<durable, server, queue, pc, origin, run, budget>>
-----------------------------------------------------------------------------
ThreadStep(j) ==
  \/ Start(j) \/ RebindReplay(j) \/ PrepareData(j) \/ BindInputSnapshot(j)
  \/ RecordExecution(j) \/ Decide(j) \/ DecisionError(j) \/ RecordFailure(j)
  \/ FinishBars(j) \/ RunRaises(j) \/ Collect(j) \/ Complete(j) \/ Fail(j)

Environment ==
  \/ Shutdown \/ Exit \/ Crash \/ Startup \/ OtherStartup \/ Respond
  \/ \E j \in Jobs : StoreRaises(j) \/ StartRaises(j)
  \/ \E j \in Watched : ReadRow(j)

Next ==
  \/ \E j \in Jobs : Create(j) \/ CreateReplay(j) \/ Submit(j) \/ ThreadStep(j)
  \/ Environment

Spec == Init /\ [][Next]_vars

(* Threads of a live process run, a handler finishes, and an operator       *)
(* restarts a server that is down.  Nothing makes a crash, a fault, a       *)
(* shutdown or a request happen.                                            *)
Fairness ==
  /\ \A j \in Jobs : WF_vars(ThreadStep(j)) /\ WF_vars(Submit(j))
  /\ WF_vars(Exit) /\ WF_vars(Startup) /\ WF_vars(Respond)

FairSpec == Spec /\ Fairness
-----------------------------------------------------------------------------
(* Correctness.                                                             *)

(* The rows refine the write-once job register: a settled row keeps its     *)
(* status, result and error whatever threads, recovery and late statements  *)
(* do (the WHERE clauses of complete, fail and mark_running).               *)
Lifecycle == INSTANCE JobLifecycle
  WITH Outcomes <- (Results \X (ErrorCodes \union {""})) \ {<<NoResult, "">>},
       NoOutcome <- <<NoResult, "">>,
       status <- [j \in Jobs |-> rows[j].status],
       outcome <- [j \in Jobs |-> <<rows[j].result, rows[j].error>>]

WriteOnce == Lifecycle!LifecycleSpec

(* A completed row always passes the verification its readers apply: its    *)
(* snapshot is stored and its result carries exactly the stored decisions,  *)
(* although decisions and completion are written by separate transactions;  *)
(* the exports of its result and of its decisions agree.                    *)
CompletedIsVerifiable ==
  \A j \in Jobs :
    /\ rows[j].status = "completed" => Verified(rows[j], decisions[j])
    /\ ExportedResult(rows[j], decisions[j]).decisions =
         ExportedDecisions(rows[j], decisions[j])

(* What a poll answered stays true: no client is told storage_corrupt, and  *)
(* a final answer is the final status, though the poll reads in two parts.  *)
AnswersStand ==
  \A j \in Jobs :
    /\ told[j] # "storage_corrupt"
    /\ told[j] \in {"completed", "failed"} => rows[j].status = told[j]

(* Once a job is bound to an input snapshot the binding never changes.      *)
BoundForever ==
  [][\A j \in Jobs : rows[j].hash # Null => rows'[j].hash = rows[j].hash]_rows

(* A bound hash names a stored snapshot, and decisions exist only for a job *)
(* whose input is bound.                                                    *)
EvidenceHasSnapshot ==
  \A j \in Jobs :
    /\ rows[j].hash # Null => rows[j].hash \in snapshots
    /\ decisions[j] # NoEvidence => rows[j].hash # Null

(* A replay is only ever bound to the snapshot of the job it replays, even  *)
(* if re-encoding its frames were to give another hash.                     *)
ReplayFidelity ==
  \A j \in Jobs : origin[j] # Null => rows[j].hash \in {Null, origin[j]}

(* Every accepted job settles, unless a store call raised where the worker  *)
(* has no handler and the process goes on running.                          *)
OpenJobsSettle ==
  \A j \in Jobs :
    rows[j].status \in OpenStatus ~>
      (rows[j].status \in {"completed", "failed"} \/ pc[j] = "lost")
=============================================================================
