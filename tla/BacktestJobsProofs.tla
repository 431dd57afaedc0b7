------------------------- MODULE BacktestJobsProofs -------------------------
(***************************************************************************)
(* Machine-checked safety of the backtest jobs, for every set of jobs and  *)
(* snapshots and every bound.                                              *)
(***************************************************************************)
EXTENDS BacktestJobs, SequenceTheorems, TLAPS

(* The empty row, result and poll have the types of rows, results, polls.   *)
LEMMA EmptyTypes ==
  /\ NoEvidence \in Evidence
  /\ NoResult \in Results
  /\ NoRow \in Rows
  /\ NoPoll \in [job : Jobs \union {Null}, row : Rows]
<1>1. NoEvidence \in Evidence
  BY DEF NoEvidence, Evidence, DecisionStates
<1>2. NoResult \in Results
  BY <1>1 DEF NoResult, Results, Hashes
<1>3. NoRow \in Rows
  BY <1>2 DEF NoRow, Rows, Hashes
<1>4. QED
  BY <1>1, <1>2, <1>3 DEF NoPoll

(* The UPDATE statements that settle a row leave a well-formed row.         *)
LEMMA FailedRowType ==
  ASSUME NEW row \in Rows, NEW error \in ErrorCodes
  PROVE  FailedRow(row, error) \in Rows
BY DEF FailedRow, Rows

LEMMA CompletedRowType ==
  ASSUME NEW row \in Rows, NEW result \in Results
  PROVE  CompletedRow(row, result) \in Rows
BY DEF CompletedRow, Rows

LEMMA RecoverType ==
  ASSUME TypeOK, RecoverInterrupted
  PROVE  rows' \in [Jobs -> Rows]
<1>1. "interrupted" \in ErrorCodes
  BY DEF ErrorCodes
<1>2. QED
  BY <1>1, FailedRowType DEF TypeOK, RecoverInterrupted

LEMMA BindType ==
  ASSUME TypeOK, NEW j \in Jobs, NEW s \in Snapshots, Bind(j, s)
  PROVE  rows' \in [Jobs -> Rows] /\ snapshots' \in SUBSET Snapshots
<1>1. rows \in [Jobs -> Rows] /\ snapshots \in SUBSET Snapshots
  BY DEF TypeOK
<1>2. rows' = [rows EXCEPT ![j].hash = s] /\ snapshots' = snapshots \union {s}
  BY DEF Bind
<1>3. [rows[j] EXCEPT !.hash = s] \in Rows
  BY <1>1 DEF Rows, Hashes
<1>4. QED
  BY <1>1, <1>2, <1>3

LEMMA RecordType ==
  ASSUME TypeOK, NEW j \in Jobs, NEW n, NEW state \in DecisionStates, Record(j, n, state)
  PROVE  decisions' \in [Jobs -> Evidence]
<1>1. [decisions[j] EXCEPT ![n] = state] \in Evidence
  BY DEF TypeOK, Evidence
<1>2. decisions' = [decisions EXCEPT ![j] = [decisions[j] EXCEPT ![n] = state]]
  BY DEF Record
<1>3. QED
  BY <1>1, <1>2 DEF TypeOK

LEMMA GotoType ==
  ASSUME TypeOK, NEW j \in Jobs, NEW place \in Places, Goto(j, place)
  PROVE  pc' \in [Jobs -> Places]
BY DEF TypeOK, Goto

LEMMA FailWithType ==
  ASSUME TypeOK, NEW j \in Jobs, NEW error \in ErrorCodes, FailWith(j, error)
  PROVE  pc' \in [Jobs -> Places] /\ code' \in [Jobs -> ErrorCodes \union {""}]
<1>1. "failing" \in Places
  BY DEF Places, ThreadAt
<1>2. QED
  BY <1>1, GotoType DEF TypeOK, FailWith

LEMMA PlaceNames ==
  /\ {"none", "creating", "queued", "done", "lost"} \subseteq Places
  /\ {"rebind", "data", "bind", "bars", "undecided", "collect", "complete"} \subseteq Places
  /\ {"market_data_unavailable", "insufficient_history", "decision_failed",
      "execution_failed", "backtest_failed", "interrupted"} \subseteq ErrorCodes
  /\ {"not_ready", "completed", "executed", "failed"} \subseteq DecisionStates
BY DEF Places, ThreadAt, ErrorCodes, DecisionStates

Budgets == [crashes : Nat, faults : Nat, intruders : Nat]

(* Spending one unit of a bound leaves a budget. *)
LEMMA BudgetType ==
  ASSUME NEW b \in Budgets
  PROVE  /\ b.crashes > 0 => [b EXCEPT !.crashes = @ - 1] \in Budgets
         /\ b.faults > 0 => [b EXCEPT !.faults = @ - 1] \in Budgets
         /\ b.intruders > 0 => [b EXCEPT !.intruders = @ - 1] \in Budgets
BY DEF Budgets

(* Submitting and taking a task leave a queue of jobs. *)
LEMMA QueueType ==
  ASSUME NEW q \in Seq(Jobs), NEW j \in Jobs
  PROVE  /\ <<>> \in Seq(Jobs)
         /\ Append(q, j) \in Seq(Jobs)
         /\ q # <<>> => Tail(q) \in Seq(Jobs)
BY EmptySeq, AppendProperties, HeadTailProperties

(* The sequence counters stay within the schedule. *)
LEMMA CounterType ==
  ASSUME NEW f \in [Jobs -> 0 .. MaxDecisions], NEW j \in Jobs
  PROVE  /\ [f EXCEPT ![j] = 0] \in [Jobs -> 0 .. MaxDecisions]
         /\ f[j] < MaxDecisions => /\ f[j] + 1 \in 0 .. MaxDecisions
                                   /\ [f EXCEPT ![j] = @ + 1] \in [Jobs -> 0 .. MaxDecisions]
<1>1. MaxDecisions \in Nat
  BY JobsAssumption
<1>2. f[j] \in 0 .. MaxDecisions
  OBVIOUS
<1>3. 0 \in 0 .. MaxDecisions
  BY <1>1
<1>4. f[j] < MaxDecisions => f[j] + 1 \in 0 .. MaxDecisions
  BY <1>1, <1>2
<1>5. QED
  BY <1>3, <1>4

LEMMA ZeroCounters == [j \in Jobs |-> 0] \in [Jobs -> 0 .. MaxDecisions]
<1>1. 0 \in 0 .. MaxDecisions
  BY JobsAssumption
<1>2. QED
  BY <1>1

(* A thread that is about to bind a replay snapshot has one: only replay    *)
(* tasks go through that step.                                              *)
ReplayTasksHaveOrigin == \A j \in Jobs : pc[j] = "rebind" => origin[j] # Null

(* A poll in progress has read an existing row. *)
PollReadARow == poll.job # Null => poll.row.status # "absent"

TypeInv == TypeOK /\ ReplayTasksHaveOrigin /\ PollReadARow

(* No step moves a task to the rebind step except Start, and none but       *)
(* Insert touches origin.                                                   *)
LEMMA OriginKept ==
  ASSUME TypeInv, NEW j \in Jobs, NEW place \in Places, place # "rebind",
         Goto(j, place), UNCHANGED origin
  PROVE  ReplayTasksHaveOrigin'
BY DEF TypeInv, TypeOK, ReplayTasksHaveOrigin, Goto

LEMMA OriginKeptFailing ==
  ASSUME TypeInv, NEW j \in Jobs, NEW error, FailWith(j, error), UNCHANGED origin
  PROVE  ReplayTasksHaveOrigin'
BY OriginKept, PlaceNames DEF FailWith, Places, ThreadAt

(* Every variable keeps its type: rows, evidence, queue and the program     *)
(* places of handlers and threads (BacktestJobs!TypeOK).                    *)
THEOREM TypeInvariant == Spec => []TypeInv
<1>1. Init => TypeInv
  <2> SUFFICES ASSUME Init PROVE TypeInv
    OBVIOUS
  <2>1. /\ queue \in Seq(Jobs)
        /\ budget \in [crashes : Nat, faults : Nat, intruders : Nat]
        /\ seq \in [Jobs -> 0 .. MaxDecisions]
        /\ pend \in [Jobs -> 0 .. MaxDecisions]
    BY JobsAssumption, ZeroCounters, EmptySeq DEF Init
  <2>2. /\ rows \in [Jobs -> Rows]
        /\ decisions \in [Jobs -> Evidence]
        /\ held \in [Jobs -> Results]
        /\ poll \in [job : Jobs \union {Null}, row : Rows]
    BY EmptyTypes DEF Init
  <2>3. /\ pc \in [Jobs -> Places]
        /\ origin \in [Jobs -> Hashes]
        /\ code \in [Jobs -> ErrorCodes \union {""}]
        /\ told \in [Jobs -> Answers]
    BY PlaceNames DEF Init, Hashes, Answers
  <2>4. ReplayTasksHaveOrigin /\ PollReadARow
    BY DEF Init, ReplayTasksHaveOrigin, PollReadARow, NoPoll
  <2>5. QED
    BY <2>1, <2>2, <2>3, <2>4 DEF Init, TypeInv, TypeOK
<1>2. TypeInv /\ [Next]_vars => TypeInv'
  <2> SUFFICES ASSUME TypeInv, [Next]_vars PROVE TypeInv'
    OBVIOUS
  <2>0. TypeOK /\ ReplayTasksHaveOrigin /\ PollReadARow
    BY DEF TypeInv
  <2> USE <2>0 DEF durable, run
  <2>1. ASSUME NEW j \in Jobs, NEW s \in Hashes, Insert(j, s) PROVE TypeInv'
    <3>1. rows' \in [Jobs -> Rows]
      <4>1. rows \in [Jobs -> Rows]
        BY DEF TypeOK
      <4>2. [rows[j] EXCEPT !.status = "pending"] \in Rows
        BY <4>1 DEF Rows, OpenStatus
      <4>3. rows' = [rows EXCEPT ![j].status = "pending"]
        BY <2>1 DEF Insert
      <4>4. QED
        BY <4>1, <4>2, <4>3
    <3>2. pc' \in [Jobs -> Places] /\ origin' \in [Jobs -> Hashes]
      BY <2>1, PlaceNames DEF Insert, TypeOK
    <3>3. ReplayTasksHaveOrigin'
      BY <2>1 DEF Insert, TypeOK, ReplayTasksHaveOrigin
    <3>4. QED
      BY <2>1, <3>1, <3>2, <3>3 DEF Insert, TypeInv, PollReadARow, TypeOK
  <2>2. ASSUME NEW j \in Jobs, Create(j) PROVE TypeInv'
    BY <2>2, <2>1 DEF Create, Hashes
  <2>3. ASSUME NEW j \in Jobs, CreateReplay(j) PROVE TypeInv'
    BY <2>3, <2>1 DEF CreateReplay, TypeOK, Rows, HasSnapshot
  <2>4. ASSUME NEW j \in Jobs, Submit(j) PROVE TypeInv'
    <3>1. pc' \in [Jobs -> Places] /\ queue' \in Seq(Jobs)
      BY <2>4, PlaceNames, QueueType DEF Submit, TypeOK
    <3>2. ReplayTasksHaveOrigin'
      BY <2>4 DEF Submit, TypeOK, ReplayTasksHaveOrigin
    <3>3. QED
      BY <2>4, <3>1, <3>2 DEF Submit, TypeInv, PollReadARow, TypeOK
  <2>5. ASSUME NEW j \in Jobs, Start(j) PROVE TypeInv'
    <3>1. queue' \in Seq(Jobs)
      BY <2>5, QueueType DEF Start, TypeOK
    <3>2. rows' \in [Jobs -> Rows]
      <4>1. [rows[j] EXCEPT !.status = "running"] \in Rows
        BY DEF TypeOK, Rows, OpenStatus
      <4>2. QED
        BY <2>5, <4>1 DEF Start, MarkRunning, TypeOK
    <3>3. pc' \in [Jobs -> Places]
      BY <2>5, PlaceNames, GotoType DEF Start
    <3>4. ReplayTasksHaveOrigin'
      BY <2>5 DEF Start, Goto, TypeOK, ReplayTasksHaveOrigin
    <3>5. QED
      BY <2>5, <3>1, <3>2, <3>3, <3>4 DEF Start, TypeInv, PollReadARow, TypeOK
  <2>6. ASSUME NEW j \in Jobs, RebindReplay(j) PROVE TypeInv'
    <3>1. origin[j] \in Snapshots
      BY <2>6 DEF RebindReplay, ReplayTasksHaveOrigin, TypeOK, Hashes
    <3>2. rows' \in [Jobs -> Rows] /\ snapshots' \in SUBSET Snapshots
      BY <2>6, <3>1, BindType DEF RebindReplay, TypeOK
    <3>3. pc' \in [Jobs -> Places] /\ code' \in [Jobs -> ErrorCodes \union {""}]
      BY <2>6, PlaceNames, GotoType, FailWithType DEF RebindReplay, TypeOK
    <3>4. ReplayTasksHaveOrigin'
      BY <2>6, PlaceNames, OriginKept, OriginKeptFailing DEF RebindReplay
    <3>5. QED
      BY <2>6, <3>2, <3>3, <3>4 DEF RebindReplay, TypeInv, PollReadARow, TypeOK
  <2>7. ASSUME NEW j \in Jobs, PrepareData(j) PROVE TypeInv'
    <3>1. \/ Goto(j, "bind") /\ UNCHANGED code
          \/ FailWith(j, "market_data_unavailable")
      BY <2>7 DEF PrepareData, LoadData, ReadFrames, Unreadable
    <3>2. pc' \in [Jobs -> Places] /\ code' \in [Jobs -> ErrorCodes \union {""}]
      BY <3>1, PlaceNames, GotoType, FailWithType DEF TypeOK
    <3>3. ReplayTasksHaveOrigin'
      BY <2>7, <3>1, PlaceNames, OriginKept, OriginKeptFailing DEF PrepareData
    <3>4. QED
      BY <2>7, <3>2, <3>3 DEF PrepareData, TypeInv, PollReadARow, TypeOK
  <2>8. ASSUME NEW j \in Jobs, BindInputSnapshot(j) PROVE TypeInv'
    <3>1. rows' \in [Jobs -> Rows] /\ snapshots' \in SUBSET Snapshots
      BY <2>8, BindType DEF BindInputSnapshot, NotCanonical, TypeOK
    <3>2. pc' \in [Jobs -> Places] /\ code' \in [Jobs -> ErrorCodes \union {""}]
      BY <2>8, PlaceNames, GotoType, FailWithType DEF BindInputSnapshot, NotCanonical, TypeOK
    <3>3. ReplayTasksHaveOrigin'
      BY <2>8, PlaceNames, OriginKept, OriginKeptFailing DEF BindInputSnapshot, NotCanonical
    <3>4. QED
      BY <2>8, <3>1, <3>2, <3>3 DEF BindInputSnapshot, NotCanonical, TypeInv, PollReadARow, TypeOK
  <2>9. ASSUME NEW j \in Jobs, RecordExecution(j) PROVE TypeInv'
    <3>1. decisions' \in [Jobs -> Evidence]
      BY <2>9, PlaceNames, RecordType DEF RecordExecution, TypeOK
    <3>2. pend' \in [Jobs -> 0 .. MaxDecisions]
      BY <2>9, CounterType DEF RecordExecution, TypeOK
    <3>3. QED
      BY <2>9, <3>1, <3>2 DEF RecordExecution, TypeInv, PollReadARow, TypeOK, ReplayTasksHaveOrigin
  <2>10. ASSUME NEW j \in Jobs, Decide(j) PROVE TypeInv'
    <3>1. decisions' \in [Jobs -> Evidence]
      BY <2>10, PlaceNames, RecordType DEF Decide, RecordDecision, TypeOK
    <3>2. seq' \in [Jobs -> 0 .. MaxDecisions] /\ pend' \in [Jobs -> 0 .. MaxDecisions]
      <4>1. /\ seq[j] + 1 \in 0 .. MaxDecisions
            /\ [seq EXCEPT ![j] = @ + 1] \in [Jobs -> 0 .. MaxDecisions]
        BY <2>10, CounterType DEF Decide, RecordDecision, TypeOK
      <4>2. [pend EXCEPT ![j] = seq[j] + 1] \in [Jobs -> 0 .. MaxDecisions]
        BY <4>1 DEF TypeOK
      <4>3. QED
        BY <2>10, <4>1, <4>2 DEF Decide, RecordDecision, TypeOK
    <3>3. pc' \in [Jobs -> Places] /\ code' \in [Jobs -> ErrorCodes \union {""}]
      BY <2>10, PlaceNames, FailWithType DEF Decide, RecordDecision, TypeOK
    <3>4. ReplayTasksHaveOrigin'
      BY <2>10, OriginKeptFailing DEF Decide, RecordDecision, ReplayTasksHaveOrigin
    <3>5. QED
      BY <2>10, <3>1, <3>2, <3>3, <3>4 DEF Decide, RecordDecision, TypeInv, PollReadARow, TypeOK
  <2>11. ASSUME NEW j \in Jobs, DecisionError(j) PROVE TypeInv'
    <3>1. seq' \in [Jobs -> 0 .. MaxDecisions]
      BY <2>11, CounterType DEF DecisionError, TypeOK
    <3>2. QED
      BY <2>11, <3>1, PlaceNames, GotoType, OriginKept DEF DecisionError, TypeInv, PollReadARow, TypeOK
  <2>12. ASSUME NEW j \in Jobs, RecordFailure(j) PROVE TypeInv'
    <3>1. pc' \in [Jobs -> Places] /\ code' \in [Jobs -> ErrorCodes \union {""}]
      BY <2>12, PlaceNames, GotoType, FailWithType DEF RecordFailure, TypeOK
    <3>2. ReplayTasksHaveOrigin'
      BY <2>12, PlaceNames, OriginKept, OriginKeptFailing DEF RecordFailure
    <3>3. QED
      BY <2>12, <3>1, <3>2, PlaceNames, RecordType DEF RecordFailure, TypeInv, PollReadARow, TypeOK
  <2>13. ASSUME NEW j \in Jobs, FinishBars(j) PROVE TypeInv'
    <3>1. pc' \in [Jobs -> Places] /\ code' \in [Jobs -> ErrorCodes \union {""}]
      BY <2>13, PlaceNames, GotoType, FailWithType DEF FinishBars, TypeOK
    <3>2. ReplayTasksHaveOrigin'
      BY <2>13, PlaceNames, OriginKept, OriginKeptFailing DEF FinishBars
    <3>3. QED
      BY <2>13, <3>1, <3>2 DEF FinishBars, TypeInv, PollReadARow, TypeOK
  <2>14. ASSUME NEW j \in Jobs, RunRaises(j) PROVE TypeInv'
    <3>1. pc' \in [Jobs -> Places] /\ code' \in [Jobs -> ErrorCodes \union {""}]
      BY <2>14, PlaceNames, GotoType, FailWithType DEF RunRaises, TypeOK
    <3>2. ReplayTasksHaveOrigin'
      BY <2>14, PlaceNames, OriginKept, OriginKeptFailing DEF RunRaises
    <3>3. QED
      BY <2>14, <3>1, <3>2 DEF RunRaises, TypeInv, PollReadARow, TypeOK
  <2>15. ASSUME NEW j \in Jobs, Collect(j) PROVE TypeInv'
    <3>1. pc' \in [Jobs -> Places] /\ code' \in [Jobs -> ErrorCodes \union {""}]
      BY <2>15, PlaceNames, GotoType, FailWithType DEF Collect, SnapshotBound, TypeOK, HasSnapshot
    <3>2. ReplayTasksHaveOrigin'
      BY <2>15, PlaceNames, OriginKept, OriginKeptFailing DEF Collect, HasSnapshot
    <3>3. [hash |-> rows[j].hash, decisions |-> decisions[j]] \in Results
      BY DEF TypeOK, Rows, Results
    <3>4. held' \in [Jobs -> Results]
      BY <2>15, <3>3 DEF Collect, SnapshotBound, TypeOK, HasSnapshot
    <3>5. QED
      BY <2>15, <3>1, <3>2, <3>4 DEF Collect, SnapshotBound, TypeInv, PollReadARow, TypeOK, HasSnapshot
  <2>16. ASSUME NEW j \in Jobs, Complete(j) PROVE TypeInv'
    <3>1. rows' \in [Jobs -> Rows]
      BY <2>16, CompletedRowType DEF Complete, TypeOK
    <3>2. QED
      BY <2>16, <3>1, PlaceNames, GotoType, OriginKept DEF Complete, TypeInv, PollReadARow, TypeOK
  <2>17. ASSUME NEW j \in Jobs, Fail(j) PROVE TypeInv'
    <3>1. rows' \in [Jobs -> Rows]
      <4>1. rows' = [rows EXCEPT ![j] = FailedRow(rows[j], code[j])] /\ pc[j] = "failing"
        BY <2>17 DEF Fail
      <4>2. rows[j] \in Rows /\ rows \in [Jobs -> Rows]
        BY DEF TypeOK
      <4>3. FailedRow(rows[j], code[j]) \in Rows
        BY <4>2 DEF FailedRow, Rows, TypeOK
      <4>4. QED
        BY <4>1, <4>2, <4>3
    <3>2. QED
      BY <2>17, <3>1, PlaceNames, GotoType, OriginKept DEF Fail, TypeInv, PollReadARow, TypeOK
  <2>18. ASSUME NEW j \in Jobs, StoreRaises(j) PROVE TypeInv'
    <3>1. pc' \in [Jobs -> Places] /\ code' \in [Jobs -> ErrorCodes \union {""}]
      BY <2>18, PlaceNames, GotoType, FailWithType DEF StoreRaises, TypeOK
    <3>2. ReplayTasksHaveOrigin'
      BY <2>18, PlaceNames, OriginKept, OriginKeptFailing DEF StoreRaises
    <3>3. budget' \in [crashes : Nat, faults : Nat, intruders : Nat]
      BY <2>18, BudgetType DEF StoreRaises, TypeOK, Budgets
    <3>4. QED
      BY <2>18, <3>1, <3>2, <3>3 DEF StoreRaises, TypeInv, PollReadARow, TypeOK
  <2>19. ASSUME NEW j \in Jobs, StartRaises(j) PROVE TypeInv'
    <3>1. budget' \in [crashes : Nat, faults : Nat, intruders : Nat]
      BY <2>19, BudgetType DEF StartRaises, TypeOK, Budgets
    <3>2. queue' \in Seq(Jobs)
      BY <2>19, QueueType DEF StartRaises, TypeOK
    <3>3. QED
      BY <2>19, <3>1, <3>2, PlaceNames, GotoType, OriginKept DEF StartRaises, TypeInv, PollReadARow, TypeOK
  <2>20. ASSUME Shutdown PROVE TypeInv'
    BY <2>20 DEF Shutdown, TypeInv, PollReadARow, TypeOK, ReplayTasksHaveOrigin
  <2>21. ASSUME Volatile /\ UNCHANGED <<durable, origin, told>>
                /\ server' \in {"up", "draining", "down"}
                /\ budget' \in [crashes : Nat, faults : Nat, intruders : Nat] PROVE TypeInv'
    <3>1. /\ queue' \in Seq(Jobs)
          /\ pc' \in [Jobs -> Places]
          /\ code' \in [Jobs -> ErrorCodes \union {""}]
      BY <2>21, PlaceNames, EmptySeq DEF Volatile
    <3>2. /\ seq' \in [Jobs -> 0 .. MaxDecisions]
          /\ pend' \in [Jobs -> 0 .. MaxDecisions]
      BY <2>21, ZeroCounters DEF Volatile
    <3>3. /\ held' \in [Jobs -> Results]
          /\ poll' \in [job : Jobs \union {Null}, row : Rows]
      BY <2>21, EmptyTypes DEF Volatile
    <3>4. ReplayTasksHaveOrigin' /\ PollReadARow'
      BY <2>21 DEF Volatile, ReplayTasksHaveOrigin, PollReadARow, NoPoll
    <3>5. QED
      BY <2>21, <3>1, <3>2, <3>3, <3>4 DEF TypeInv, TypeOK
  <2>22. ASSUME Exit PROVE TypeInv'
    BY <2>22, <2>21 DEF Exit, TypeOK
  <2>23. ASSUME Crash PROVE TypeInv'
    <3>1. budget' \in [crashes : Nat, faults : Nat, intruders : Nat]
      BY <2>23, BudgetType DEF Crash, TypeOK, Budgets
    <3>2. QED
      BY <2>23, <2>21, <3>1 DEF Crash
  <2>24. ASSUME Startup PROVE TypeInv'
    BY <2>24, RecoverType DEF Startup, TypeInv, PollReadARow, TypeOK, ReplayTasksHaveOrigin
  <2>25. ASSUME OtherStartup PROVE TypeInv'
    <3>1. budget' \in [crashes : Nat, faults : Nat, intruders : Nat]
      BY <2>25, BudgetType DEF OtherStartup, TypeOK, Budgets
    <3>2. QED
      BY <2>25, <3>1, RecoverType DEF OtherStartup, TypeInv, PollReadARow, TypeOK, ReplayTasksHaveOrigin
  <2>26. ASSUME NEW j \in Jobs, ReadRow(j) PROVE TypeInv'
    BY <2>26 DEF ReadRow, TypeInv, PollReadARow, TypeOK, ReplayTasksHaveOrigin
  <2>27. ASSUME Respond PROVE TypeInv'
    <3>1. Answer(poll.row, decisions[poll.job]) \in Answers
      BY <2>27 DEF Respond, PollReadARow, Answer, Answers, TypeOK, Rows, OpenStatus
    <3>2. told' \in [Jobs -> Answers]
      BY <2>27, <3>1 DEF Respond, TypeOK
    <3>3. poll' \in [job : Jobs \union {Null}, row : Rows] /\ PollReadARow'
      BY <2>27, EmptyTypes DEF Respond, PollReadARow, NoPoll
    <3>4. QED
      BY <2>27, <3>2, <3>3 DEF Respond, TypeInv, TypeOK, ReplayTasksHaveOrigin
  <2>28. CASE UNCHANGED vars
    BY <2>28 DEF vars, TypeInv, PollReadARow, TypeOK, ReplayTasksHaveOrigin
  <2>29. QED
    BY <2>2, <2>3, <2>4, <2>5, <2>6, <2>7, <2>8, <2>9, <2>10, <2>11, <2>12, <2>13, <2>14, <2>15, <2>16, <2>17, <2>18, <2>19, <2>20, <2>22, <2>23, <2>24, <2>25, <2>26, <2>27, <2>28, JobsAssumption
    DEF Next, ThreadStep, Environment
<1>3. QED
  BY <1>1, <1>2, PTL DEF Spec

THEOREM TypeCorrect == Spec => []TypeOK
BY TypeInvariant, PTL DEF TypeInv
-----------------------------------------------------------------------------
(***************************************************************************)
(* The safety of the backtest jobs: one inductive invariant, JobInv, stated*)
(* per job, from which the properties of BacktestJobs follow.              *)
(***************************************************************************)

(* A handler or a thread has the job in its hands. *)
Active == ThreadAt \union {"creating"}

(* What is stored for job k, as a result carries it. *)
Stored(k) == [hash |-> rows[k].hash, decisions |-> decisions[k]]

Evident(k) ==
  /\ rows[k].hash # Null => rows[k].hash \in snapshots
  /\ decisions[k] # NoEvidence => rows[k].hash # Null

Placed(k) ==
  /\ pc[k] \in Active => rows[k].status \notin {"absent", "completed"}
  /\ rows[k].status = "absent" => rows[k].hash = Null
  /\ pc[k] = "failing" => code[k] # ""

Unsettled(k) ==
  rows[k].status \notin {"completed", "failed"} =>
    rows[k].result = NoResult /\ rows[k].error = ""

Faithful(k) ==
  /\ rows[k].status = "completed" => rows[k].hash # Null /\ rows[k].result = Stored(k)
  /\ pc[k] = "complete" => rows[k].hash # Null /\ held[k] = Stored(k)

Replayed(k) ==
  /\ origin[k] # Null => rows[k].hash \in {Null, origin[k]}
  /\ origin[k] # Null /\ pc[k] \in {"data", "bind"} => rows[k].hash = origin[k]

JobInv(k) == Evident(k) /\ Placed(k) /\ Unsettled(k) /\ Faithful(k) /\ Replayed(k)

AllJobs == \A k \in Jobs : JobInv(k)
-----------------------------------------------------------------------------
(* What the primitives of the model do to one job and not to the others.    *)

LEMMA GotoEffect ==
  ASSUME TypeOK, NEW j \in Jobs, NEW place, Goto(j, place)
  PROVE  pc'[j] = place /\ \A k \in Jobs \ {j} : pc'[k] = pc[k]
BY DEF TypeOK, Goto

LEMMA FailWithEffect ==
  ASSUME TypeOK, NEW j \in Jobs, NEW error, FailWith(j, error)
  PROVE  /\ pc'[j] = "failing" /\ code'[j] = error
         /\ \A k \in Jobs \ {j} : pc'[k] = pc[k] /\ code'[k] = code[k]
BY DEF TypeOK, Goto, FailWith

LEMMA BindEffect ==
  ASSUME TypeOK, NEW j \in Jobs, NEW s \in Snapshots, Bind(j, s)
  PROVE  /\ rows'[j].hash = s
         /\ rows'[j].status = rows[j].status
         /\ rows'[j].result = rows[j].result
         /\ rows'[j].error = rows[j].error
         /\ \A k \in Jobs \ {j} : rows'[k] = rows[k]
         /\ s \in snapshots' /\ snapshots \subseteq snapshots'
BY DEF TypeOK, Bind, Rows

LEMMA StatusEffect ==
  ASSUME TypeOK, NEW j \in Jobs, NEW status, rows' = [rows EXCEPT ![j].status = status]
  PROVE  /\ rows'[j].status = status
         /\ rows'[j].hash = rows[j].hash
         /\ rows'[j].result = rows[j].result
         /\ rows'[j].error = rows[j].error
         /\ \A k \in Jobs \ {j} : rows'[k] = rows[k]
BY DEF TypeOK, Rows

LEMMA RecordEffect ==
  ASSUME TypeOK, NEW j \in Jobs, NEW n, NEW state, Record(j, n, state)
  PROVE  \A k \in Jobs \ {j} : decisions'[k] = decisions[k]
BY DEF TypeOK, Record

LEMMA FailedRowEffect ==
  ASSUME NEW row \in Rows, NEW error
  PROVE  /\ FailedRow(row, error).hash = row.hash
         /\ FailedRow(row, error).result = row.result
         /\ row.status \notin OpenStatus => FailedRow(row, error) = row
         /\ row.status \in OpenStatus => /\ FailedRow(row, error).status = "failed"
                                         /\ FailedRow(row, error).error = error
BY DEF FailedRow, Rows

LEMMA CompletedRowEffect ==
  ASSUME NEW row \in Rows, NEW result
  PROVE  /\ CompletedRow(row, result).hash = row.hash
         /\ row.status = "running" /\ row.hash # Null =>
              /\ CompletedRow(row, result).status = "completed"
              /\ CompletedRow(row, result).result = result
         /\ ~(row.status = "running" /\ row.hash # Null) => CompletedRow(row, result) = row
BY DEF CompletedRow, Rows
-----------------------------------------------------------------------------
(* Only j is touched, and no snapshot is deleted. *)
Frame(j) ==
  /\ snapshots \subseteq snapshots'
  /\ \A k \in Jobs \ {j} :
       /\ rows'[k] = rows[k] /\ decisions'[k] = decisions[k] /\ pc'[k] = pc[k]
       /\ origin'[k] = origin[k] /\ code'[k] = code[k] /\ held'[k] = held[k]

(* The jobs a step does not touch keep their invariant. *)
LEMMA FrameKeeps ==
  ASSUME AllJobs, NEW j \in Jobs, Frame(j), JobInv(j)'
  PROVE  AllJobs'
<1> SUFFICES ASSUME NEW k \in Jobs \ {j}, JobInv(k) PROVE JobInv(k)'
  BY DEF AllJobs
<1>1. Evident(k)'
  BY DEF JobInv, Evident, Frame
<1>2. Placed(k)'
  BY DEF JobInv, Placed, Frame
<1>3. Unsettled(k)'
  BY DEF JobInv, Unsettled, Frame
<1>4. Faithful(k)'
  BY DEF JobInv, Faithful, Stored, Frame
<1>5. Replayed(k)'
  BY DEF JobInv, Replayed, Frame
<1>6. QED
  BY <1>1, <1>2, <1>3, <1>4, <1>5 DEF JobInv

(* A step of control: only the place of j, its error code and the result it *)
(* holds in memory may change.                                              *)
LEMMA ControlKeeps ==
  ASSUME AllJobs, NEW j \in Jobs, UNCHANGED <<rows, snapshots, decisions, origin>>,
         \A k \in Jobs \ {j} : pc'[k] = pc[k] /\ code'[k] = code[k] /\ held'[k] = held[k],
         pc'[j] \in Active => pc[j] \in Active,
         pc'[j] = "failing" => code'[j] # "",
         pc'[j] = "complete" => rows[j].hash # Null /\ held'[j] = Stored(j),
         pc'[j] \in {"data", "bind"} => pc[j] = "data"
  PROVE  AllJobs'
<1>0. JobInv(j)
  BY DEF AllJobs
<1>1. Frame(j)
  BY DEF Frame
<1>2. Evident(j)'
  BY <1>0 DEF JobInv, Evident
<1>3. Placed(j)'
  BY <1>0 DEF JobInv, Placed
<1>4. Unsettled(j)'
  BY <1>0 DEF JobInv, Unsettled
<1>5. Faithful(j)'
  BY <1>0 DEF JobInv, Faithful, Stored
<1>6. Replayed(j)'
  BY <1>0 DEF JobInv, Replayed
<1>7. QED
  BY <1>1, <1>2, <1>3, <1>4, <1>5, <1>6, FrameKeeps DEF JobInv

(* A thread that gives up with an error code. *)
LEMMA FailKeeps ==
  ASSUME TypeOK, AllJobs, NEW j \in Jobs, NEW error \in ErrorCodes, FailWith(j, error),
         pc[j] \in Active, UNCHANGED <<rows, snapshots, decisions, origin, held>>
  PROVE  AllJobs'
<1>1. /\ pc'[j] = "failing" /\ code'[j] = error
      /\ \A k \in Jobs \ {j} : pc'[k] = pc[k] /\ code'[k] = code[k]
  BY FailWithEffect
<1>2. error # ""
  BY DEF ErrorCodes
<1>3. QED
  BY <1>1, <1>2, ControlKeeps

(* A thread that moves on without touching what is stored. *)
LEMMA MoveKeeps ==
  ASSUME TypeOK, AllJobs, NEW j \in Jobs, NEW place, Goto(j, place),
         place \in Active => pc[j] \in Active,
         place \notin {"failing", "complete"},
         place \in {"data", "bind"} => pc[j] = "data",
         UNCHANGED <<rows, snapshots, decisions, origin, code, held>>
  PROVE  AllJobs'
<1>1. pc'[j] = place /\ \A k \in Jobs \ {j} : pc'[k] = pc[k]
  BY GotoEffect
<1>2. QED
  BY <1>1, ControlKeeps

(* A thread that binds a snapshot the row accepts. *)
LEMMA BindKeeps ==
  ASSUME TypeOK, AllJobs, NEW j \in Jobs, NEW s \in Snapshots, CanBind(j, s), Bind(j, s),
         NEW place \in {"data", "bars"}, Goto(j, place),
         pc[j] \in Active, origin[j] # Null => s = origin[j],
         UNCHANGED <<decisions, origin, code, held>>
  PROVE  AllJobs'
<1>0. JobInv(j)
  BY DEF AllJobs
<1>1. pc'[j] = place /\ \A k \in Jobs \ {j} : pc'[k] = pc[k]
  BY GotoEffect
<1>2. /\ rows'[j].hash = s
      /\ rows'[j].status = rows[j].status
      /\ rows'[j].result = rows[j].result
      /\ rows'[j].error = rows[j].error
      /\ \A k \in Jobs \ {j} : rows'[k] = rows[k]
      /\ s \in snapshots' /\ snapshots \subseteq snapshots'
  BY BindEffect
<1>3. s # Null
  BY JobsAssumption
<1>4. Frame(j)
  BY <1>1, <1>2 DEF Frame
<1>5. Evident(j)'
  BY <1>2, <1>3 DEF Evident
<1>6. Placed(j)'
  BY <1>0, <1>1, <1>2 DEF JobInv, Placed
<1>7. Unsettled(j)'
  BY <1>0, <1>2 DEF JobInv, Unsettled
<1>8. Faithful(j)'
  BY <1>0, <1>1, <1>2 DEF JobInv, Placed, Faithful
<1>9. Replayed(j)'
  BY <1>2 DEF Replayed
<1>10. QED
  BY <1>4, <1>5, <1>6, <1>7, <1>8, <1>9, FrameKeeps DEF JobInv

(* A thread that writes a decision of its bound, uncompleted job. *)
LEMMA RecordKeeps ==
  ASSUME TypeOK, AllJobs, NEW j \in Jobs, NEW n, NEW state, Record(j, n, state),
         rows[j].hash # Null, pc[j] \in Active \ {"complete", "failing"},
         \/ UNCHANGED <<pc, code>>
         \/ \E error \in ErrorCodes : FailWith(j, error),
         UNCHANGED <<rows, snapshots, origin, held>>
  PROVE  AllJobs'
<1>0. JobInv(j)
  BY DEF AllJobs
<1>1. \A k \in Jobs \ {j} : decisions'[k] = decisions[k]
  BY RecordEffect
<1>2. \A k \in Jobs \ {j} : pc'[k] = pc[k] /\ code'[k] = code[k]
  BY FailWithEffect
<1>3. \/ pc'[j] = pc[j]
      \/ pc'[j] = "failing" /\ code'[j] # ""
  BY FailWithEffect DEF ErrorCodes
<1>4. Frame(j)
  BY <1>1, <1>2 DEF Frame
<1>5. Evident(j)'
  BY <1>0 DEF JobInv, Evident
<1>6. Placed(j)'
  BY <1>0, <1>3 DEF JobInv, Placed
<1>7. Unsettled(j)'
  BY <1>0 DEF JobInv, Unsettled
<1>8. Faithful(j)'
  BY <1>0, <1>3 DEF JobInv, Placed, Faithful
<1>9. Replayed(j)'
  BY <1>0, <1>3 DEF JobInv, Replayed
<1>10. QED
  BY <1>4, <1>5, <1>6, <1>7, <1>8, <1>9, FrameKeeps DEF JobInv

(* A row inserted by a handler is pending, unbound and in its hands. *)
LEMMA InsertKeeps ==
  ASSUME TypeOK, AllJobs, NEW j \in Jobs, NEW s \in Hashes, Insert(j, s)
  PROVE  AllJobs'
<1>0. JobInv(j)
  BY DEF AllJobs
<1>1. /\ rows[j].status = "absent"
      /\ UNCHANGED <<snapshots, decisions, code, held>>
  BY DEF Insert, run
<1>2. /\ rows'[j].status = "pending"
      /\ rows'[j].hash = rows[j].hash
      /\ rows'[j].result = rows[j].result
      /\ rows'[j].error = rows[j].error
      /\ \A k \in Jobs \ {j} : rows'[k] = rows[k]
  BY StatusEffect DEF Insert
<1>3. /\ pc'[j] = "creating"
      /\ \A k \in Jobs \ {j} : pc'[k] = pc[k] /\ origin'[k] = origin[k]
  BY DEF Insert, TypeOK
<1>4. rows'[j].hash = Null
  BY <1>0, <1>1, <1>2 DEF JobInv, Placed
<1>5. Frame(j)
  BY <1>1, <1>2, <1>3 DEF Frame
<1>6. Evident(j)'
  BY <1>0, <1>1, <1>2 DEF JobInv, Evident
<1>7. Placed(j)'
  BY <1>2, <1>3 DEF Placed
<1>8. Unsettled(j)'
  BY <1>0, <1>1, <1>2 DEF JobInv, Unsettled
<1>9. Faithful(j)'
  BY <1>2, <1>3 DEF Faithful
<1>10. Replayed(j)'
  BY <1>3, <1>4 DEF Replayed
<1>11. QED
  BY <1>5, <1>6, <1>7, <1>8, <1>9, <1>10, FrameKeeps DEF JobInv

(* A thread that claims a pending row. *)
LEMMA ClaimKeeps ==
  ASSUME TypeOK, AllJobs, NEW j \in Jobs, CanMarkRunning(j), MarkRunning(j),
         Goto(j, IF origin[j] = Null THEN "data" ELSE "rebind"),
         UNCHANGED <<snapshots, decisions, origin, code, held>>
  PROVE  AllJobs'
<1>0. JobInv(j)
  BY DEF AllJobs
<1>1. /\ pc'[j] = (IF origin[j] = Null THEN "data" ELSE "rebind")
      /\ \A k \in Jobs \ {j} : pc'[k] = pc[k]
  BY GotoEffect
<1>2. /\ rows'[j].status = "running"
      /\ rows'[j].hash = rows[j].hash
      /\ rows'[j].result = rows[j].result
      /\ rows'[j].error = rows[j].error
      /\ \A k \in Jobs \ {j} : rows'[k] = rows[k]
  BY StatusEffect DEF MarkRunning
<1>3. Frame(j)
  BY <1>1, <1>2 DEF Frame
<1>4. Evident(j)'
  BY <1>0, <1>2 DEF JobInv, Evident
<1>5. Placed(j)'
  BY <1>1, <1>2 DEF Placed
<1>6. Unsettled(j)'
  BY <1>0, <1>2 DEF JobInv, Unsettled, CanMarkRunning
<1>7. Faithful(j)'
  BY <1>1, <1>2 DEF Faithful
<1>8. Replayed(j)'
  BY <1>0, <1>1, <1>2 DEF JobInv, Replayed
<1>9. QED
  BY <1>3, <1>4, <1>5, <1>6, <1>7, <1>8, FrameKeeps DEF JobInv

(* Completion writes the result that was built from what is stored. *)
LEMMA CompleteKeeps ==
  ASSUME TypeOK, AllJobs, NEW j \in Jobs, Complete(j)
  PROVE  AllJobs'
<1>0. JobInv(j) /\ rows[j] \in Rows
  BY DEF AllJobs, TypeOK
<1>1. /\ pc[j] = "complete"
      /\ UNCHANGED <<snapshots, decisions, origin, code, held>>
  BY DEF Complete, run
<1>2. pc'[j] = "done" /\ \A k \in Jobs \ {j} : pc'[k] = pc[k]
  BY GotoEffect DEF Complete
<1>3. /\ rows'[j] = CompletedRow(rows[j], held[j])
      /\ \A k \in Jobs \ {j} : rows'[k] = rows[k]
  BY DEF Complete, TypeOK
<1>4. rows[j].hash # Null /\ held[j] = Stored(j)
  BY <1>0, <1>1 DEF JobInv, Faithful
<1>5. rows[j].status \notin {"absent", "completed"}
  BY <1>0, <1>1 DEF JobInv, Placed, Active, ThreadAt
<1>6. rows'[j].hash = rows[j].hash
  BY <1>0, <1>3, CompletedRowEffect
<1>7. \/ rows'[j].status = "completed" /\ rows'[j].result = held[j]
      \/ rows'[j] = rows[j]
  BY <1>0, <1>3, CompletedRowEffect
<1>8. Frame(j)
  BY <1>1, <1>2, <1>3 DEF Frame
<1>9. Evident(j)'
  BY <1>0, <1>1, <1>6 DEF JobInv, Evident
<1>10. Placed(j)'
  BY <1>2, <1>5, <1>7 DEF Placed, Active, ThreadAt
<1>11. Unsettled(j)'
  BY <1>0, <1>7 DEF JobInv, Unsettled
<1>12. Stored(j)' = Stored(j)
  BY <1>1, <1>6 DEF Stored
<1>13. Faithful(j)'
  BY <1>2, <1>4, <1>5, <1>6, <1>7, <1>12 DEF Faithful
<1>14. Replayed(j)'
  BY <1>0, <1>1, <1>2, <1>6 DEF JobInv, Replayed
<1>15. QED
  BY <1>8, <1>9, <1>10, <1>11, <1>13, <1>14, FrameKeeps DEF JobInv

(* The failure of a row leaves its evidence and any earlier result alone. *)
LEMMA SettleFailed ==
  ASSUME TypeOK, NEW k \in Jobs, JobInv(k), NEW error \in ErrorCodes,
         rows'[k] = FailedRow(rows[k], error),
         UNCHANGED <<snapshots, decisions, origin, held>>,
         UNCHANGED <<pc, code>> \/ pc'[k] \notin Active
  PROVE  JobInv(k)'
<1>0. rows[k] \in Rows
  BY DEF TypeOK
<1>1. rows'[k].hash = rows[k].hash /\ rows'[k].result = rows[k].result
  BY <1>0, FailedRowEffect
<1>2. \/ rows'[k] = rows[k]
      \/ rows'[k].status = "failed"
  BY <1>0, FailedRowEffect
<1>3. Evident(k)'
  BY <1>1 DEF JobInv, Evident
<1>4. Placed(k)'
  BY <1>1, <1>2 DEF JobInv, Placed, Active, ThreadAt
<1>5. Unsettled(k)'
  BY <1>2 DEF JobInv, Unsettled
<1>6. Stored(k)' = Stored(k)
  BY <1>1 DEF Stored
<1>7. Faithful(k)'
  BY <1>1, <1>2, <1>6 DEF JobInv, Faithful, Active, ThreadAt
<1>8. Replayed(k)'
  BY <1>1 DEF JobInv, Replayed, Active, ThreadAt
<1>9. QED
  BY <1>3, <1>4, <1>5, <1>7, <1>8 DEF JobInv

LEMMA RecoverKeeps ==
  ASSUME TypeOK, AllJobs, RecoverInterrupted,
         UNCHANGED <<snapshots, decisions, origin, pc, code, held>>
  PROVE  AllJobs'
<1>1. "interrupted" \in ErrorCodes
  BY DEF ErrorCodes
<1>2. ASSUME NEW k \in Jobs PROVE JobInv(k)'
  <2>1. rows'[k] = FailedRow(rows[k], "interrupted")
    BY DEF RecoverInterrupted
  <2>2. JobInv(k)
    BY DEF AllJobs
  <2>3. QED
    BY <1>1, <2>1, <2>2, SettleFailed
<1>3. QED
  BY <1>2 DEF AllJobs

LEMMA FailStepKeeps ==
  ASSUME TypeOK, AllJobs, NEW j \in Jobs, Fail(j)
  PROVE  AllJobs'
<1>1. /\ pc[j] = "failing"
      /\ UNCHANGED <<snapshots, decisions, origin, code, held>>
  BY DEF Fail, run
<1>2. pc'[j] = "done" /\ \A k \in Jobs \ {j} : pc'[k] = pc[k]
  BY GotoEffect DEF Fail
<1>3. /\ rows'[j] = FailedRow(rows[j], code[j])
      /\ \A k \in Jobs \ {j} : rows'[k] = rows[k]
  BY DEF Fail, TypeOK
<1>4. JobInv(j)
  BY DEF AllJobs
<1>5. code[j] \in ErrorCodes
  BY <1>1, <1>4 DEF JobInv, Placed, TypeOK
<1>6. pc'[j] \notin Active
  BY <1>2 DEF Active, ThreadAt
<1>7. JobInv(j)'
  BY <1>1, <1>3, <1>4, <1>5, <1>6, SettleFailed
<1>8. Frame(j)
  BY <1>1, <1>2, <1>3 DEF Frame
<1>9. QED
  BY <1>7, <1>8, FrameKeeps

(* The end of the process forgets what threads held and nothing stored. *)
LEMMA VolatileKeeps ==
  ASSUME AllJobs, Volatile, UNCHANGED <<durable, origin>>
  PROVE  AllJobs'
<1> SUFFICES ASSUME NEW k \in Jobs PROVE JobInv(k)'
  BY DEF AllJobs
<1>1. JobInv(k)
  BY DEF AllJobs
<1>2. pc'[k] = "none"
  BY DEF Volatile
<1>3. UNCHANGED <<rows, snapshots, decisions>>
  BY DEF durable
<1>4. Evident(k)'
  BY <1>1, <1>3 DEF JobInv, Evident
<1>5. Placed(k)'
  BY <1>1, <1>2, <1>3 DEF JobInv, Placed, Active, ThreadAt
<1>6. Unsettled(k)'
  BY <1>1, <1>3 DEF JobInv, Unsettled
<1>7. Faithful(k)'
  BY <1>1, <1>2, <1>3 DEF JobInv, Faithful, Stored
<1>8. Replayed(k)'
  BY <1>1, <1>2, <1>3 DEF JobInv, Replayed
<1>9. QED
  BY <1>4, <1>5, <1>6, <1>7, <1>8 DEF JobInv
-----------------------------------------------------------------------------
(* Every step keeps the invariant of every job: one step per action. *)
LEMMA StepKeeps ==
  ASSUME TypeInv, AllJobs, [Next]_vars
  PROVE  AllJobs'
<1>0. TypeOK /\ ReplayTasksHaveOrigin
  BY DEF TypeInv
<1> USE <1>0 DEF durable, run
<1>1. ASSUME NEW j \in Jobs, Create(j) PROVE AllJobs'
  BY <1>1, InsertKeeps DEF Create, Hashes
<1>2. ASSUME NEW j \in Jobs, CreateReplay(j) PROVE AllJobs'
  <2>1. PICK source \in Jobs : Insert(j, rows[source].hash)
    BY <1>2 DEF CreateReplay, Stored, HasSnapshot
  <2>2. rows[source].hash \in Hashes
    BY DEF TypeOK, Rows
  <2>3. QED
    BY <2>1, <2>2, InsertKeeps
<1>3. ASSUME NEW j \in Jobs, Submit(j) PROVE AllJobs'
  <2>1. Goto(j, "queued")
    BY <1>3 DEF Submit, Goto
  <2>2. QED
    BY <1>3, <2>1, MoveKeeps DEF Submit, Active, ThreadAt
<1>4. ASSUME NEW j \in Jobs, Start(j) PROVE AllJobs'
  <2>1. CASE CanMarkRunning(j)
    BY <1>4, <2>1, ClaimKeeps DEF Start
  <2>2. CASE ~ CanMarkRunning(j)
    BY <1>4, <2>2, MoveKeeps DEF Start, Active, ThreadAt
  <2>3. QED
    BY <2>1, <2>2
<1>5. ASSUME NEW j \in Jobs, RebindReplay(j) PROVE AllJobs'
  <2>1. origin[j] \in Snapshots
    BY <1>5 DEF RebindReplay, ReplayTasksHaveOrigin, TypeOK, Hashes
  <2>2. pc[j] \in Active
    BY <1>5 DEF RebindReplay, Active, ThreadAt
  <2>3. CASE CanBind(j, origin[j])
    BY <1>5, <2>1, <2>2, <2>3, BindKeeps DEF RebindReplay
  <2>4. CASE ~ CanBind(j, origin[j])
    BY <1>5, <2>2, <2>4, FailKeeps, PlaceNames DEF RebindReplay
  <2>5. QED
    BY <2>3, <2>4
<1>6. ASSUME NEW j \in Jobs, PrepareData(j) PROVE AllJobs'
  <2>1. pc[j] = "data" /\ pc[j] \in Active
    BY <1>6 DEF PrepareData, Active, ThreadAt
  <2>2. UNCHANGED <<rows, snapshots, decisions, origin, held>>
    BY <1>6 DEF PrepareData
  <2>3. \/ Goto(j, "bind") /\ UNCHANGED code
        \/ FailWith(j, "market_data_unavailable")
    BY <1>6 DEF PrepareData, LoadData, ReadFrames, Unreadable
  <2>4. CASE Goto(j, "bind") /\ UNCHANGED code
    BY <2>1, <2>2, <2>4, MoveKeeps
  <2>5. CASE FailWith(j, "market_data_unavailable")
    BY <2>1, <2>2, <2>5, FailKeeps, PlaceNames
  <2>6. QED
    BY <2>3, <2>4, <2>5
<1>7. ASSUME NEW j \in Jobs, BindInputSnapshot(j) PROVE AllJobs'
  <2>1. pc[j] \in Active
    BY <1>7 DEF BindInputSnapshot, NotCanonical, Active, ThreadAt
  <2>2. UNCHANGED <<decisions, origin, held>>
    BY <1>7 DEF BindInputSnapshot, NotCanonical
  <2>3. CASE FailWith(j, "market_data_unavailable") /\ UNCHANGED <<rows, snapshots>>
    BY <2>1, <2>2, <2>3, FailKeeps, PlaceNames
  <2>4. ASSUME NEW s \in Snapshots,
               \/ CanBind(j, s) /\ Bind(j, s) /\ Goto(j, "bars") /\ UNCHANGED code
               \/ ~ CanBind(j, s) /\ FailWith(j, "execution_failed") /\ UNCHANGED <<rows, snapshots>>
        PROVE AllJobs'
    <3>1. CASE CanBind(j, s)
      <4>1. origin[j] # Null => rows[j].hash = origin[j]
        BY <1>7 DEF BindInputSnapshot, AllJobs, JobInv, Replayed
      <4>2. origin[j] # Null => s = origin[j]
        BY <3>1, <4>1 DEF CanBind
      <4>3. QED
        BY <2>1, <2>2, <2>4, <3>1, <4>2, BindKeeps
    <3>2. CASE ~ CanBind(j, s)
      BY <2>1, <2>2, <2>4, <3>2, FailKeeps, PlaceNames
    <3>3. QED
      BY <3>1, <3>2
  <2>5. QED
    BY <1>7, <2>3, <2>4 DEF BindInputSnapshot, NotCanonical
<1>8. ASSUME NEW j \in Jobs, RecordExecution(j) PROVE AllJobs'
  <2>1. CASE UNCHANGED decisions
    BY <1>8, <2>1, ControlKeeps DEF RecordExecution
  <2>2. CASE decisions[j][pend[j]] = "completed" /\ Record(j, pend[j], "executed")
    <3>1. decisions[j] # NoEvidence
      <4>1. pend[j] \in Sequences1
        <5>1. pend[j] \in 0 .. MaxDecisions /\ pend[j] # 0
          BY <1>8 DEF RecordExecution, TypeOK
        <5>2. QED
          BY <5>1, JobsAssumption DEF Sequences1
      <4>2. NoEvidence[pend[j]] = "none"
        BY <4>1 DEF NoEvidence
      <4>3. QED
        BY <2>2, <4>2
    <3>2. rows[j].hash # Null
      BY <3>1 DEF AllJobs, JobInv, Evident
    <3>3. pc[j] \in Active \ {"complete", "failing"}
      BY <1>8 DEF RecordExecution, Active, ThreadAt
    <3>4. QED
      BY <1>8, <2>2, <3>2, <3>3, RecordKeeps DEF RecordExecution
  <2>3. QED
    BY <1>8, <2>1, <2>2 DEF RecordExecution
<1>9. ASSUME NEW j \in Jobs, Decide(j) PROVE AllJobs'
  <2>1. pc[j] \in Active \ {"complete", "failing"}
    BY <1>9 DEF Decide, RecordDecision, Active, ThreadAt
  <2>2. CASE CanRecord(j)
    <3>1. \E state : Record(j, seq[j] + 1, state)
      BY <1>9, <2>2 DEF Decide, RecordDecision
    <3>2. UNCHANGED <<pc, code>>
      BY <1>9, <2>2 DEF Decide, RecordDecision
    <3>3. QED
      BY <1>9, <2>1, <2>2, <3>1, <3>2, RecordKeeps DEF Decide, RecordDecision, CanRecord
  <2>3. CASE ~ CanRecord(j)
    BY <1>9, <2>1, <2>3, FailKeeps, PlaceNames DEF Decide, RecordDecision
  <2>4. QED
    BY <2>2, <2>3
<1>10. ASSUME NEW j \in Jobs, DecisionError(j) PROVE AllJobs'
  BY <1>10, MoveKeeps DEF DecisionError, Active, ThreadAt
<1>11. ASSUME NEW j \in Jobs, RecordFailure(j) PROVE AllJobs'
  <2>1. pc[j] \in Active \ {"complete", "failing"}
    BY <1>11 DEF RecordFailure, Active, ThreadAt
  <2>2. CASE CanRecord(j)
    BY <1>11, <2>1, <2>2, RecordKeeps, PlaceNames DEF RecordFailure, CanRecord
  <2>3. CASE ~ CanRecord(j)
    BY <1>11, <2>1, <2>3, FailKeeps, PlaceNames DEF RecordFailure
  <2>4. QED
    BY <2>2, <2>3
<1>12. ASSUME NEW j \in Jobs, FinishBars(j) PROVE AllJobs'
  <2>1. pc[j] \in Active
    BY <1>12 DEF FinishBars, Active, ThreadAt
  <2>2. CASE NeverReady(j)
    BY <1>12, <2>1, <2>2, FailKeeps, PlaceNames DEF FinishBars
  <2>3. CASE ~ NeverReady(j)
    BY <1>12, <2>1, <2>3, MoveKeeps DEF FinishBars
  <2>4. QED
    BY <2>2, <2>3
<1>13. ASSUME NEW j \in Jobs, RunRaises(j) PROVE AllJobs'
  <2>1. pc[j] \in Active
    BY <1>13 DEF RunRaises, Active, ThreadAt
  <2>2. QED
    BY <1>13, <2>1, FailKeeps, PlaceNames DEF RunRaises
<1>14. ASSUME NEW j \in Jobs, Collect(j) PROVE AllJobs'
  <2>1. pc[j] \in Active
    BY <1>14 DEF Collect, Active, ThreadAt, Stored, HasSnapshot
  <2>2. CASE rows[j].hash \in snapshots
    <3>1. rows[j].hash # Null
      BY <2>2, JobsAssumption DEF TypeOK
    <3>2. /\ held'[j] = Stored(j)
          /\ \A k \in Jobs \ {j} : held'[k] = held[k]
      BY <1>14, <2>2 DEF Collect, SnapshotBound, Stored, TypeOK, HasSnapshot
    <3>3. pc'[j] = "complete" /\ \A k \in Jobs \ {j} : pc'[k] = pc[k]
      BY <1>14, <2>2, GotoEffect DEF Collect, Stored, HasSnapshot
    <3>4. UNCHANGED <<rows, snapshots, decisions, origin, code>>
      BY <1>14, <2>2 DEF Collect, Stored, HasSnapshot
    <3>5. QED
      BY <2>1, <3>1, <3>2, <3>3, <3>4, ControlKeeps
  <2>3. CASE rows[j].hash \notin snapshots
    BY <1>14, <2>1, <2>3, FailKeeps, PlaceNames DEF Collect, Stored, HasSnapshot
  <2>4. QED
    BY <2>2, <2>3
<1>15. ASSUME NEW j \in Jobs, StoreRaises(j) PROVE AllJobs'
  <2>1. pc[j] \in Active
    BY <1>15 DEF StoreRaises, Active, ThreadAt
  <2>2. UNCHANGED <<rows, snapshots, decisions, origin, held>>
    BY <1>15 DEF StoreRaises
  <2>3. \/ \E error \in ErrorCodes : FailWith(j, error)
        \/ Goto(j, "lost") /\ UNCHANGED code
    BY <1>15, PlaceNames DEF StoreRaises
  <2>4. QED
    BY <2>1, <2>2, <2>3, FailKeeps, MoveKeeps DEF Active, ThreadAt
<1>16. ASSUME NEW j \in Jobs, StartRaises(j) PROVE AllJobs'
  BY <1>16, MoveKeeps DEF StartRaises, Active, ThreadAt
<1>17. ASSUME UNCHANGED <<rows, snapshots, decisions, origin, pc, code, held>> PROVE AllJobs'
  <2>1. ASSUME NEW k \in Jobs PROVE JobInv(k)'
    <3>1. JobInv(k)
      BY DEF AllJobs
    <3>2. JobInv(k)' <=> JobInv(k)
      BY <1>17 DEF JobInv, Evident, Placed, Unsettled, Faithful, Replayed, Stored
    <3>3. QED
      BY <3>1, <3>2
  <2>2. QED
    BY <2>1 DEF AllJobs
<1>18. CASE Shutdown
  BY <1>17, <1>18 DEF Shutdown
<1>19. CASE Exit
  BY <1>19, VolatileKeeps DEF Exit
<1>20. CASE Crash
  BY <1>20, VolatileKeeps DEF Crash
<1>21. CASE Startup
  BY <1>21, RecoverKeeps DEF Startup
<1>22. CASE OtherStartup
  BY <1>22, RecoverKeeps DEF OtherStartup
<1>23. ASSUME NEW j \in Jobs, ReadRow(j) PROVE AllJobs'
  BY <1>17, <1>23 DEF ReadRow
<1>24. CASE Respond
  BY <1>17, <1>24 DEF Respond
<1>25. CASE UNCHANGED vars
  BY <1>17, <1>25 DEF vars
<1>26. QED
  BY <1>1, <1>2, <1>3, <1>4, <1>5, <1>6, <1>7, <1>8, <1>9, <1>10, <1>11, <1>12, <1>13,
     <1>14, <1>15, <1>16, <1>18, <1>19, <1>20, <1>21, <1>22, <1>23, <1>24, <1>25,
     CompleteKeeps, FailStepKeeps, JobsAssumption
  DEF Next, ThreadStep, Environment

LEMMA InitSafe == Init => AllJobs
<1> SUFFICES ASSUME Init, NEW k \in Jobs PROVE JobInv(k)
  BY DEF AllJobs
<1>1. /\ rows[k].status = "absent" /\ rows[k].hash = Null
      /\ rows[k].result = NoResult /\ rows[k].error = ""
  BY DEF Init, NoRow
<1>2. decisions[k] = NoEvidence /\ pc[k] = "none" /\ origin[k] = Null
  BY DEF Init
<1>3. Evident(k)
  BY <1>1, <1>2 DEF Evident
<1>4. Placed(k)
  BY <1>1, <1>2 DEF Placed, Active, ThreadAt
<1>5. Unsettled(k) /\ Faithful(k) /\ Replayed(k)
  BY <1>1, <1>2 DEF Unsettled, Faithful, Replayed
<1>6. QED
  BY <1>3, <1>4, <1>5 DEF JobInv

(* The invariant of every job holds in every reachable state. *)
THEOREM JobInvariant == Spec => [](TypeInv /\ AllJobs)
<1>1. TypeInv /\ AllJobs /\ [Next]_vars => AllJobs'
  BY StepKeeps
<1>2. QED
  BY <1>1, InitSafe, TypeInvariant, PTL DEF Spec
-----------------------------------------------------------------------------
(* The properties the runs check, for every instance.                       *)

(* A completed row passes the verification of its readers: its snapshot is  *)
(* stored and its result carries exactly the stored decisions.              *)
THEOREM CompletedRowsVerify == Spec => []CompletedIsVerifiable
<1>1. TypeInv /\ AllJobs => CompletedIsVerifiable
  BY DEF AllJobs, JobInv, Evident, Faithful, Stored, CompletedIsVerifiable, Verified,
    SnapshotBound, ExportedResult, ExportedDecisions, Answer, NoResult, HasSnapshot
<1>2. QED
  BY <1>1, JobInvariant, PTL

(* A bound hash names a stored snapshot; decisions need a bound input.      *)
THEOREM EvidenceIsGrounded == Spec => []EvidenceHasSnapshot
<1>1. TypeInv /\ AllJobs => EvidenceHasSnapshot
  BY DEF AllJobs, JobInv, Evident, EvidenceHasSnapshot
<1>2. QED
  BY <1>1, JobInvariant, PTL

(* A replay is bound to the snapshot of its source or to none.              *)
THEOREM ReplaysAreFaithful == Spec => []ReplayFidelity
<1>1. TypeInv /\ AllJobs => ReplayFidelity
  BY DEF AllJobs, JobInv, Replayed, ReplayFidelity
<1>2. QED
  BY <1>1, JobInvariant, PTL
-----------------------------------------------------------------------------
(* The only ways a row of backtest_jobs changes. *)
RowStep(j) ==
  \/ rows[j].status = "absent" /\ rows' = [rows EXCEPT ![j].status = "pending"]
  \/ CanMarkRunning(j) /\ MarkRunning(j)
  \/ /\ rows[j].status \notin {"absent", "completed"}
     /\ \E s \in Snapshots : CanBind(j, s) /\ rows' = [rows EXCEPT ![j].hash = s]
  \/ /\ held[j] \in Results \ {NoResult}
     /\ rows' = [rows EXCEPT ![j] = CompletedRow(rows[j], held[j])]
  \/ \E error \in ErrorCodes : rows' = [rows EXCEPT ![j] = FailedRow(rows[j], error)]

LEMMA RowSteps ==
  ASSUME TypeInv, AllJobs, [Next]_vars
  PROVE  UNCHANGED rows \/ RecoverInterrupted \/ \E j \in Jobs : RowStep(j)
<1>0. TypeOK /\ ReplayTasksHaveOrigin
  BY DEF TypeInv
<1> USE <1>0 DEF durable
<1>1. ASSUME NEW j \in Jobs, Create(j) \/ CreateReplay(j) PROVE RowStep(j)
  BY <1>1 DEF Create, CreateReplay, Insert, RowStep, Stored, HasSnapshot
<1>2. ASSUME NEW j \in Jobs, Start(j) PROVE UNCHANGED rows \/ RowStep(j)
  BY <1>2 DEF Start, RowStep
<1>3. ASSUME NEW j \in Jobs, RebindReplay(j) PROVE UNCHANGED rows \/ RowStep(j)
  <2>1. origin[j] \in Snapshots
    BY <1>3 DEF RebindReplay, ReplayTasksHaveOrigin, TypeOK, Hashes
  <2>2. rows[j].status \notin {"absent", "completed"}
    BY <1>3 DEF RebindReplay, AllJobs, JobInv, Placed, Active, ThreadAt
  <2>3. QED
    BY <1>3, <2>1, <2>2 DEF RebindReplay, Bind, RowStep
<1>4. ASSUME NEW j \in Jobs, BindInputSnapshot(j) PROVE UNCHANGED rows \/ RowStep(j)
  <2>1. rows[j].status \notin {"absent", "completed"}
    BY <1>4 DEF BindInputSnapshot, NotCanonical, AllJobs, JobInv, Placed, Active, ThreadAt
  <2>2. QED
    BY <1>4, <2>1 DEF BindInputSnapshot, NotCanonical, Bind, RowStep
<1>5. ASSUME NEW j \in Jobs, Complete(j) PROVE RowStep(j)
  <2>1. rows[j].hash # Null /\ held[j] = Stored(j)
    BY <1>5 DEF Complete, AllJobs, JobInv, Faithful
  <2>2. held[j].hash # NoResult.hash
    BY <2>1 DEF Stored, NoResult
  <2>3. held[j] \in Results \ {NoResult}
    BY <2>2 DEF TypeOK
  <2>4. QED
    BY <1>5, <2>3 DEF Complete, RowStep
<1>6. ASSUME NEW j \in Jobs, Fail(j) PROVE RowStep(j)
  <2>1. code[j] \in ErrorCodes
    BY <1>6 DEF Fail, AllJobs, JobInv, Placed, TypeOK
  <2>2. QED
    BY <1>6, <2>1 DEF Fail, RowStep
<1>7. ASSUME NEW j \in Jobs,
             \/ Submit(j) \/ PrepareData(j) \/ RecordExecution(j) \/ Decide(j)
             \/ DecisionError(j) \/ RecordFailure(j) \/ FinishBars(j) \/ RunRaises(j)
             \/ Collect(j) \/ StoreRaises(j) \/ StartRaises(j) \/ ReadRow(j)
      PROVE  UNCHANGED rows
  BY <1>7 DEF Submit, PrepareData, RecordExecution, Decide, RecordDecision, DecisionError, RecordFailure,
    FinishBars, RunRaises, LoadData, ReadFrames, Unreadable, Collect, StoreRaises, StartRaises, ReadRow, Stored, HasSnapshot
<1>8. CASE Shutdown \/ Exit \/ Crash \/ Respond \/ UNCHANGED vars
  BY <1>8 DEF Shutdown, Exit, Crash, Respond, vars
<1>9. CASE Startup \/ OtherStartup
  BY <1>9 DEF Startup, OtherStartup
<1>10. QED
  BY <1>1, <1>2, <1>3, <1>4, <1>5, <1>6, <1>7, <1>8, <1>9, JobsAssumption
  DEF Next, ThreadStep, Environment

(* A settled row never leaves its status, a completed one never changes,    *)
(* and no statement rebinds a bound row.                                    *)
RowAdvances(k) ==
  /\ rows[k].status = "failed" => rows'[k].status = "failed"
  /\ rows[k].status = "completed" => rows'[k] = rows[k]
  /\ rows[k].hash # Null => rows'[k].hash = rows[k].hash

LEMMA RowsAdvance ==
  ASSUME TypeInv, AllJobs, [Next]_vars, NEW k \in Jobs
  PROVE  RowAdvances(k)
<1>0. TypeOK /\ rows[k] \in Rows
  BY DEF TypeInv, TypeOK
<1>1. CASE UNCHANGED rows
  BY <1>1 DEF RowAdvances
<1>2. ASSUME NEW error \in ErrorCodes, rows'[k] = FailedRow(rows[k], error)
      PROVE  RowAdvances(k)
  BY <1>0, <1>2, FailedRowEffect DEF RowAdvances, OpenStatus
<1>3. CASE RecoverInterrupted
  <2>1. rows'[k] = FailedRow(rows[k], "interrupted") /\ "interrupted" \in ErrorCodes
    BY <1>3 DEF RecoverInterrupted, ErrorCodes
  <2>2. QED
    BY <1>2, <2>1
<1>4. ASSUME NEW j \in Jobs, RowStep(j), j # k PROVE RowAdvances(k)
  <2>1. rows'[k] = rows[k]
    BY <1>0, <1>4 DEF RowStep, MarkRunning, TypeOK
  <2>2. QED
    BY <2>1 DEF RowAdvances
<1>5. CASE RowStep(k)
  <2>1. CASE \/ rows[k].status = "absent" /\ rows' = [rows EXCEPT ![k].status = "pending"]
             \/ CanMarkRunning(k) /\ MarkRunning(k)
    BY <1>0, <2>1, StatusEffect DEF CanMarkRunning, MarkRunning, RowAdvances
  <2>2. ASSUME NEW s \in Snapshots, rows[k].status # "completed", CanBind(k, s),
               rows' = [rows EXCEPT ![k].hash = s]
        PROVE  RowAdvances(k)
    <3>1. rows'[k].hash = s /\ rows'[k].status = rows[k].status
      BY <1>0, <2>2 DEF TypeOK, Rows
    <3>2. QED
      BY <2>2, <3>1 DEF CanBind, RowAdvances
  <2>3. CASE rows' = [rows EXCEPT ![k] = CompletedRow(rows[k], held[k])]
    <3>1. rows'[k] = CompletedRow(rows[k], held[k])
      BY <1>0, <2>3 DEF TypeOK
    <3>2. QED
      BY <1>0, <3>1, CompletedRowEffect DEF RowAdvances
  <2>4. ASSUME NEW error \in ErrorCodes, rows' = [rows EXCEPT ![k] = FailedRow(rows[k], error)]
        PROVE  RowAdvances(k)
    <3>1. rows'[k] = FailedRow(rows[k], error)
      BY <1>0, <2>4 DEF TypeOK
    <3>2. QED
      BY <1>2, <3>1
  <2>5. QED
    BY <1>5, <2>1, <2>2, <2>3, <2>4 DEF RowStep
<1>6. QED
  BY <1>1, <1>3, <1>4, <1>5, RowSteps

(* Once a job is bound to an input snapshot the binding never changes.      *)
THEOREM BindingIsForever == Spec => BoundForever
<1>1. TypeInv /\ AllJobs /\ [Next]_vars =>
        [\A j \in Jobs : rows[j].hash # Null => rows'[j].hash = rows[j].hash]_rows
  BY RowsAdvance DEF RowAdvances
<1>2. QED
  BY <1>1, JobInvariant, PTL DEF Spec, BoundForever
-----------------------------------------------------------------------------
(* The row a poll has read is still the row, once it is settled. *)
PollIsCurrent ==
  poll.job # Null =>
    /\ poll.row.status = "failed" => rows[poll.job].status = "failed"
    /\ poll.row.status = "completed" => rows[poll.job] = poll.row

(* Only a poll reads a row, and only its response tells a client.           *)
LEMMA PollMoves ==
  ASSUME [Next]_vars
  PROVE  \/ UNCHANGED <<poll, told>>
         \/ poll' = NoPoll /\ UNCHANGED told
         \/ Respond
         \/ \E j \in Jobs : ReadRow(j)
<1>1. ASSUME NEW j \in Jobs, Create(j) \/ CreateReplay(j) \/ Submit(j)
      PROVE  UNCHANGED <<poll, told>>
  BY <1>1 DEF Create, CreateReplay, Insert, Submit
<1>2. ASSUME NEW j \in Jobs,
             Start(j) \/ RebindReplay(j) \/ PrepareData(j) \/ BindInputSnapshot(j)
      PROVE  UNCHANGED <<poll, told>>
  BY <1>2 DEF Start, RebindReplay, PrepareData, BindInputSnapshot, NotCanonical, LoadData,
    ReadFrames, Unreadable, Stored, HasSnapshot
<1>3. ASSUME NEW j \in Jobs,
             RecordExecution(j) \/ Decide(j) \/ DecisionError(j) \/ RecordFailure(j)
      PROVE  UNCHANGED <<poll, told>>
  BY <1>3 DEF RecordExecution, Decide, RecordDecision, DecisionError, RecordFailure
<1>4. ASSUME NEW j \in Jobs,
             FinishBars(j) \/ RunRaises(j) \/ Collect(j) \/ Complete(j) \/ Fail(j)
      PROVE  UNCHANGED <<poll, told>>
  BY <1>4 DEF FinishBars, RunRaises, Collect, Complete, Fail
<1>5. ASSUME NEW j \in Jobs, StoreRaises(j) \/ StartRaises(j) PROVE UNCHANGED <<poll, told>>
  BY <1>5 DEF StoreRaises, StartRaises
<1>6. ASSUME Shutdown \/ Exit \/ Crash \/ Startup \/ OtherStartup
      PROVE  UNCHANGED <<poll, told>> \/ (poll' = NoPoll /\ UNCHANGED told)
  BY <1>6 DEF Shutdown, Exit, Crash, Volatile, Startup, OtherStartup
<1>7. ASSUME NEW j \in Watched, ReadRow(j) PROVE \E k \in Jobs : ReadRow(k)
  BY <1>7, JobsAssumption
<1>8. CASE UNCHANGED vars
  BY <1>8 DEF vars
<1>9. ASSUME NEW j \in Jobs, ThreadStep(j) PROVE UNCHANGED <<poll, told>>
  BY <1>2, <1>3, <1>4, <1>9 DEF ThreadStep
<1>10. QED
  BY <1>1, <1>5, <1>6, <1>7, <1>8, <1>9 DEF Next, Environment

LEMMA PollStays ==
  ASSUME TypeInv, AllJobs, [Next]_vars, PollIsCurrent
  PROVE  PollIsCurrent'
<1>1. CASE UNCHANGED poll
  <2> SUFFICES ASSUME poll.job # Null
               PROVE  /\ poll.row.status = "failed" => rows'[poll.job].status = "failed"
                      /\ poll.row.status = "completed" => rows'[poll.job] = poll.row
    BY <1>1 DEF PollIsCurrent
  <2>1. poll.job \in Jobs
    BY DEF TypeInv, TypeOK
  <2>2. RowAdvances(poll.job)
    BY <2>1, RowsAdvance
  <2>3. QED
    BY <2>2 DEF RowAdvances, PollIsCurrent
<1>2. CASE poll' = NoPoll
  BY <1>2 DEF PollIsCurrent, NoPoll
<1>3. ASSUME NEW j \in Jobs, ReadRow(j) PROVE PollIsCurrent'
  BY <1>3 DEF ReadRow, durable, PollIsCurrent
<1>4. UNCHANGED poll \/ poll' = NoPoll \/ \E j \in Jobs : ReadRow(j)
  BY PollMoves DEF Respond
<1>5. QED
  BY <1>1, <1>2, <1>3, <1>4

(* What a poll answered stays true, and nobody is told storage_corrupt.     *)
THEOREM AnswersAreFinal == Spec => []AnswersStand
<1>1. Init => PollIsCurrent /\ AnswersStand
  <2> SUFFICES ASSUME Init PROVE PollIsCurrent /\ AnswersStand
    OBVIOUS
  <2>1. PollIsCurrent
    BY DEF Init, PollIsCurrent, NoPoll
  <2>2. \A j \in Jobs : told[j] = "none"
    BY DEF Init
  <2>3. QED
    BY <2>1, <2>2 DEF AnswersStand
<1>2. TypeInv /\ AllJobs /\ PollIsCurrent /\ AnswersStand /\ [Next]_vars
        => PollIsCurrent' /\ AnswersStand'
  <2> SUFFICES ASSUME TypeInv, AllJobs, PollIsCurrent, AnswersStand, [Next]_vars
               PROVE  AnswersStand'
    BY PollStays
  <2>1. ASSUME NEW j \in Jobs, told'[j] = told[j]
        PROVE  /\ told'[j] # "storage_corrupt"
               /\ told'[j] \in {"completed", "failed"} => rows'[j].status = told'[j]
    BY <2>1, RowsAdvance DEF AnswersStand, RowAdvances
  <2>2. CASE UNCHANGED told
    BY <2>1, <2>2 DEF AnswersStand
  <2>3. CASE Respond
    <3>1. poll.job \in Jobs /\ rows' = rows
      BY <2>3 DEF Respond, durable, TypeInv, TypeOK
    <3>2. /\ told'[poll.job] = Answer(poll.row, decisions[poll.job])
          /\ \A j \in Jobs \ {poll.job} : told'[j] = told[j]
      BY <2>3, <3>1 DEF Respond, TypeInv, TypeOK
    <3>3. /\ poll.row.status = "failed" => rows[poll.job].status = "failed"
          /\ poll.row.status = "completed" => rows[poll.job] = poll.row
      BY <2>3 DEF Respond, PollIsCurrent
    <3>4. poll.row.status = "completed" => Verified(poll.row, decisions[poll.job])
      BY <3>1, <3>3 DEF AllJobs, JobInv, Evident, Faithful, Stored, Verified, SnapshotBound, HasSnapshot
    <3>5. told'[poll.job] = poll.row.status
      BY <3>2, <3>4 DEF Answer
    <3>6. poll.row.status # "storage_corrupt"
      BY DEF TypeInv, TypeOK, Rows, OpenStatus
    <3>7. QED
      BY <2>1, <3>1, <3>2, <3>3, <3>5, <3>6 DEF AnswersStand
  <2>4. UNCHANGED told \/ Respond
    BY PollMoves DEF ReadRow
  <2>5. QED
    BY <2>2, <2>3, <2>4
<1>3. QED
  BY <1>1, <1>2, JobInvariant, PTL DEF Spec
-----------------------------------------------------------------------------
(* Refinement of the write-once register. *)
LStatus == [j \in Jobs |-> rows[j].status]
LOutcome == [j \in Jobs |-> <<rows[j].result, rows[j].error>>]
LNoOutcome == <<NoResult, "">>
LOutcomes == (Results \X (ErrorCodes \union {""})) \ {LNoOutcome}

LEMMA RefinesRecovery ==
  ASSUME TypeOK, AllJobs, RecoverInterrupted
  PROVE  Lifecycle!RecoverJobs
<1>1. ASSUME NEW k \in Jobs
      PROVE  /\ rows[k].status \in OpenStatus =>
                  /\ rows'[k].status = "failed"
                  /\ LOutcome'[k] \in LOutcomes
             /\ rows[k].status \notin OpenStatus => rows'[k] = rows[k]
  <2>1. rows[k] \in Rows
    BY DEF TypeOK
  <2>2. rows'[k] = FailedRow(rows[k], "interrupted")
    BY DEF RecoverInterrupted
  <2>3. rows[k].status \in OpenStatus =>
          rows'[k].status = "failed" /\ rows'[k].error = "interrupted"
    BY <2>1, <2>2, FailedRowEffect
  <2>4. rows'[k].result \in Results
    <3>1. rows[k].result \in Results
      BY <2>1 DEF Rows
    <3>2. QED
      BY <2>1, <2>2, <3>1, FailedRowEffect
  <2>5. rows'[k].error = "interrupted" => LOutcome'[k] \in LOutcomes
    BY <2>4 DEF LOutcome, LOutcomes, LNoOutcome, ErrorCodes
  <2>6. QED
    BY <2>1, <2>2, <2>3, <2>5, FailedRowEffect
<1>2. /\ \A k \in Jobs : LStatus[k] = rows[k].status
      /\ LStatus' = [k \in Jobs |-> rows'[k].status]
  BY DEF LStatus
<1>3. LStatus' = [k \in Jobs |-> IF LStatus[k] \in OpenStatus THEN "failed" ELSE LStatus[k]]
  BY <1>1, <1>2
<1>4. \A k \in Jobs : LStatus[k] \in OpenStatus => LOutcome'[k] \in LOutcomes
  BY <1>1, <1>2
<1>5. LOutcome' = [k \in Jobs |-> IF LStatus[k] \in OpenStatus THEN LOutcome'[k] ELSE LOutcome[k]]
  <2>1. \A k \in Jobs : LStatus[k] \notin OpenStatus => LOutcome'[k] = LOutcome[k]
    BY <1>1, <1>2 DEF LOutcome
  <2>2. QED
    BY <2>1 DEF LOutcome
<1>6. QED
  BY <1>3, <1>4, <1>5
  DEF Lifecycle!RecoverJobs, Lifecycle!Open, OpenStatus, LStatus, LOutcome, LOutcomes, LNoOutcome

(* One changed row, seen through the refinement mapping. *)
LEMMA Mapped ==
  ASSUME TypeOK, NEW j \in Jobs, NEW row, rows' = [rows EXCEPT ![j] = row]
  PROVE  /\ LStatus' = [LStatus EXCEPT ![j] = row.status]
         /\ LOutcome' = [LOutcome EXCEPT ![j] = <<row.result, row.error>>]
BY DEF TypeOK, LStatus, LOutcome

(* The steps of the register, on the two functions that implement it.       *)
LEMMA RegisterCreates ==
  ASSUME NEW j \in Jobs, LStatus[j] = "absent",
         LStatus' = [LStatus EXCEPT ![j] = "pending"], UNCHANGED LOutcome
  PROVE  Lifecycle!LifecycleNext
BY Zenon DEF Lifecycle!LifecycleNext, Lifecycle!CreateJob, LStatus, LOutcome

LEMMA RegisterStarts ==
  ASSUME NEW j \in Jobs, LStatus[j] = "pending",
         LStatus' = [LStatus EXCEPT ![j] = "running"], UNCHANGED LOutcome
  PROVE  Lifecycle!LifecycleNext
BY Zenon DEF Lifecycle!LifecycleNext, Lifecycle!StartJob, LStatus, LOutcome

LEMMA RegisterSettles ==
  ASSUME NEW j \in Jobs, NEW settled \in LOutcomes,
         LOutcome'[j] = settled, LOutcome' = [LOutcome EXCEPT ![j] = settled],
         \/ LStatus[j] = "running" /\ LStatus' = [LStatus EXCEPT ![j] = "completed"]
         \/ LStatus[j] \in OpenStatus /\ LStatus' = [LStatus EXCEPT ![j] = "failed"]
  PROVE  Lifecycle!LifecycleNext
<1>1. Lifecycle!SettlesWith(j)
  BY Zenon DEF Lifecycle!SettlesWith, LOutcome, LOutcomes, LNoOutcome
<1>2. Lifecycle!CompleteJob(j) \/ Lifecycle!FailJob(j)
  BY <1>1, Zenon DEF Lifecycle!CompleteJob, Lifecycle!FailJob, Lifecycle!Open, OpenStatus, LStatus
<1>3. QED
  BY <1>2, Zenon DEF Lifecycle!LifecycleNext

LEMMA RefinesRowStep ==
  ASSUME TypeOK, AllJobs, NEW j \in Jobs, RowStep(j)
  PROVE  [Lifecycle!LifecycleNext]_<<LStatus, LOutcome>>
<1>0. rows[j] \in Rows /\ LStatus[j] = rows[j].status
  BY DEF TypeOK, LStatus
<1>1. ASSUME NEW row, rows' = [rows EXCEPT ![j] = row],
             row.result = rows[j].result, row.error = rows[j].error
      PROVE  UNCHANGED LOutcome
  <2>1. LOutcome' = [LOutcome EXCEPT ![j] = <<row.result, row.error>>]
    BY <1>1, Mapped
  <2>2. LOutcome[j] = <<row.result, row.error>> /\ LOutcome = [k \in Jobs |-> LOutcome[k]]
    BY <1>1 DEF LOutcome
  <2>3. QED
    BY <2>1, <2>2
<1>2. ASSUME NEW row, rows' = [rows EXCEPT ![j] = row],
             row.result = rows[j].result, row.error = rows[j].error,
             row.status = rows[j].status
      PROVE  UNCHANGED <<LStatus, LOutcome>>
  <2>1. LStatus' = [LStatus EXCEPT ![j] = row.status]
    BY <1>2, Mapped
  <2>2. LStatus = [k \in Jobs |-> LStatus[k]]
    BY DEF LStatus
  <2>3. QED
    BY <1>0, <1>1, <1>2, <2>1, <2>2
<1>3. CASE rows[j].status = "absent" /\ rows' = [rows EXCEPT ![j].status = "pending"]
  <2> DEFINE row == [rows[j] EXCEPT !.status = "pending"]
  <2>1. /\ rows' = [rows EXCEPT ![j] = row]
        /\ row.result = rows[j].result /\ row.error = rows[j].error /\ row.status = "pending"
    BY <1>0, <1>3 DEF Rows
  <2> HIDE DEF row
  <2>2. LStatus' = [LStatus EXCEPT ![j] = "pending"] /\ UNCHANGED LOutcome
    <3>1. LStatus' = [LStatus EXCEPT ![j] = row.status]
      BY <2>1, Mapped
    <3>2. UNCHANGED LOutcome
      BY <1>1, <2>1
    <3>3. QED
      BY <2>1, <3>1, <3>2
  <2>3. QED
    BY <1>0, <1>3, <2>2, RegisterCreates
<1>4. CASE CanMarkRunning(j) /\ MarkRunning(j)
  <2> DEFINE row == [rows[j] EXCEPT !.status = "running"]
  <2>1. /\ rows' = [rows EXCEPT ![j] = row]
        /\ row.result = rows[j].result /\ row.error = rows[j].error /\ row.status = "running"
    BY <1>0, <1>4 DEF MarkRunning, Rows
  <2> HIDE DEF row
  <2>2. LStatus' = [LStatus EXCEPT ![j] = "running"] /\ UNCHANGED LOutcome
    <3>1. LStatus' = [LStatus EXCEPT ![j] = row.status]
      BY <2>1, Mapped
    <3>2. UNCHANGED LOutcome
      BY <1>1, <2>1
    <3>3. QED
      BY <2>1, <3>1, <3>2
  <2>3. QED
    BY <1>0, <1>4, <2>2, RegisterStarts DEF CanMarkRunning
<1>5. ASSUME NEW s \in Snapshots, rows' = [rows EXCEPT ![j].hash = s]
      PROVE  UNCHANGED <<LStatus, LOutcome>>
  <2> DEFINE row == [rows[j] EXCEPT !.hash = s]
  <2>1. /\ rows' = [rows EXCEPT ![j] = row]
        /\ row.result = rows[j].result /\ row.error = rows[j].error
        /\ row.status = rows[j].status
    BY <1>0, <1>5 DEF Rows
  <2>2. QED
    BY <1>2, <2>1
<1>6. CASE /\ held[j] \in Results \ {NoResult}
           /\ rows' = [rows EXCEPT ![j] = CompletedRow(rows[j], held[j])]
  <2>1. CASE rows[j].status = "running" /\ rows[j].hash # Null
    <3> DEFINE row == CompletedRow(rows[j], held[j])
    <3>1. row.status = "completed" /\ row.result = held[j] /\ row.error = ""
      BY <1>0, <2>1 DEF CompletedRow, Rows
    <3>2. /\ LStatus' = [LStatus EXCEPT ![j] = "completed"]
          /\ LOutcome' = [LOutcome EXCEPT ![j] = <<held[j], "">>]
      <4> HIDE DEF row
      <4>1. rows' = [rows EXCEPT ![j] = row]
        BY <1>6, Zenon DEF row
      <4>2. /\ LStatus' = [LStatus EXCEPT ![j] = row.status]
            /\ LOutcome' = [LOutcome EXCEPT ![j] = <<row.result, row.error>>]
        BY <4>1, Mapped
      <4>3. QED
        BY <3>1, <4>2
    <3>3. LOutcome'[j] = <<held[j], "">>
      BY <3>2 DEF LOutcome
    <3>4. <<held[j], "">> \in LOutcomes
      BY <1>6 DEF LOutcomes, LNoOutcome
    <3>5. QED
      BY <1>0, <2>1, <3>2, <3>3, <3>4, RegisterSettles
  <2>2. CASE ~(rows[j].status = "running" /\ rows[j].hash # Null)
    BY <1>0, <1>2, <1>6, <2>2, CompletedRowEffect
  <2>3. QED
    BY <2>1, <2>2
<1>7. ASSUME NEW error \in ErrorCodes, rows' = [rows EXCEPT ![j] = FailedRow(rows[j], error)]
      PROVE  [Lifecycle!LifecycleNext]_<<LStatus, LOutcome>>
  <2>1. CASE rows[j].status \in OpenStatus
    <3> DEFINE row == FailedRow(rows[j], error)
    <3>0. rows[j].result \in Results
      BY <1>0 DEF Rows
    <3>1. row.status = "failed" /\ row.result \in Results /\ row.error = error
      BY <1>0, <2>1, <3>0, FailedRowEffect
    <3> HIDE DEF row
    <3>2. /\ LStatus' = [LStatus EXCEPT ![j] = "failed"]
          /\ LOutcome' = [LOutcome EXCEPT ![j] = <<row.result, error>>]
      <4>1. rows' = [rows EXCEPT ![j] = row]
        BY <1>7 DEF row
      <4>2. /\ LStatus' = [LStatus EXCEPT ![j] = row.status]
            /\ LOutcome' = [LOutcome EXCEPT ![j] = <<row.result, row.error>>]
        BY <4>1, Mapped
      <4>3. QED
        BY <3>1, <4>2
    <3>3. LOutcome'[j] = <<row.result, error>>
      BY <3>2 DEF LOutcome
    <3>4. <<row.result, error>> \in LOutcomes
      BY <3>1 DEF LOutcomes, LNoOutcome, ErrorCodes
    <3>5. QED
      BY <1>0, <2>1, <3>2, <3>3, <3>4, RegisterSettles
  <2>2. CASE rows[j].status \notin OpenStatus
    BY <1>0, <1>2, <1>7, <2>2, FailedRowEffect
  <2>3. QED
    BY <2>1, <2>2
<1>8. QED
  BY <1>3, <1>4, <1>5, <1>6, <1>7 DEF RowStep

(* The job table implements the write-once register of JobLifecycle: a row  *)
(* settles once, with its outcome, whatever recovery and threads do.        *)
THEOREM RowsAreWriteOnce == Spec => WriteOnce
<1>1. Init => Lifecycle!LifecycleInit
  <2> SUFFICES ASSUME Init PROVE Lifecycle!LifecycleInit
    OBVIOUS
  <2>1. \A j \in Jobs : rows[j].status = "absent" /\ rows[j].result = NoResult /\ rows[j].error = ""
    BY DEF Init, NoRow
  <2>2. QED
    BY <2>1 DEF Lifecycle!LifecycleInit
<1>2. TypeInv /\ AllJobs /\ [Next]_vars
        => [Lifecycle!LifecycleNext]_<<LStatus, LOutcome>>
  <2> SUFFICES ASSUME TypeInv, AllJobs, [Next]_vars
               PROVE  [Lifecycle!LifecycleNext]_<<LStatus, LOutcome>>
    OBVIOUS
  <2>1. CASE UNCHANGED rows
    BY <2>1 DEF LStatus, LOutcome
  <2>2. CASE RecoverInterrupted
    BY <2>2, RefinesRecovery DEF TypeInv, Lifecycle!LifecycleNext
  <2>3. ASSUME NEW j \in Jobs, RowStep(j) PROVE [Lifecycle!LifecycleNext]_<<LStatus, LOutcome>>
    BY <2>3, RefinesRowStep DEF TypeInv
  <2>4. QED
    BY <2>1, <2>2, <2>3, RowSteps
<1>3. TypeInv /\ AllJobs /\ [Next]_vars => [Lifecycle!LifecycleNext]_(Lifecycle!lifecycleVars)
  BY <1>2 DEF Lifecycle!lifecycleVars, LStatus, LOutcome
<1>4. QED
  BY <1>1, <1>3, JobInvariant, PTL DEF Spec, WriteOnce, Lifecycle!LifecycleSpec
-----------------------------------------------------------------------------
(* What the register gives to the job table that implements it.             *)

RegisterInv ==
  /\ LStatus \in [Jobs -> {"absent", "completed", "failed"} \union OpenStatus]
  /\ LOutcome \in [Jobs -> LOutcomes \union {LNoOutcome}]
  /\ \A j \in Jobs :
       IF LStatus[j] \in {"completed", "failed"} THEN LOutcome[j] \in LOutcomes
                                                ELSE LOutcome[j] = LNoOutcome

RegisterHolds ==
  \A j \in Jobs : LStatus[j] \in {"completed", "failed"} =>
    LStatus'[j] = LStatus[j] /\ LOutcome'[j] = LOutcome[j]

LEMMA RegisterStep ==
  ASSUME RegisterInv, [Lifecycle!LifecycleNext]_<<LStatus, LOutcome>>
  PROVE  RegisterInv' /\ RegisterHolds
<1>0. LNoOutcome' = LNoOutcome /\ LOutcomes' = LOutcomes
  BY DEF LNoOutcome, LOutcomes
<1>1. ASSUME NEW j \in Jobs, Lifecycle!CreateJob(j) \/ Lifecycle!StartJob(j)
      PROVE  RegisterInv' /\ RegisterHolds
  <2>1. \E s \in {"pending", "running"} :
          /\ LStatus[j] \in {"absent", "pending"}
          /\ LStatus' = [LStatus EXCEPT ![j] = s] /\ LOutcome' = LOutcome
    BY <1>1 DEF Lifecycle!CreateJob, Lifecycle!StartJob, LStatus, LOutcome
  <2>2. QED
    BY <1>0, <2>1 DEF RegisterInv, RegisterHolds, OpenStatus
<1>2. ASSUME NEW j \in Jobs, Lifecycle!CompleteJob(j) \/ Lifecycle!FailJob(j)
      PROVE  RegisterInv' /\ RegisterHolds
  <2>1. \E s \in {"completed", "failed"} :
          /\ LStatus[j] \in {"pending", "running"}
          /\ LStatus' = [LStatus EXCEPT ![j] = s]
    BY <1>2 DEF Lifecycle!CompleteJob, Lifecycle!FailJob, Lifecycle!Open, LStatus
  <2>2. LOutcome'[j] \in LOutcomes /\ LOutcome' = [LOutcome EXCEPT ![j] = LOutcome'[j]]
    BY <1>2 DEF Lifecycle!CompleteJob, Lifecycle!FailJob, Lifecycle!SettlesWith, LOutcome,
      LOutcomes, LNoOutcome
  <2>3. QED
    BY <1>0, <2>1, <2>2 DEF RegisterInv, RegisterHolds, OpenStatus
<1>3. CASE Lifecycle!RecoverJobs
  <2>1. LStatus' = [j \in Jobs |-> IF LStatus[j] \in {"pending", "running"} THEN "failed"
                                                                          ELSE LStatus[j]]
    BY <1>3 DEF Lifecycle!RecoverJobs, Lifecycle!Open, LStatus
  <2>2. /\ \A j \in Jobs : LStatus[j] \in {"pending", "running"} => LOutcome'[j] \in LOutcomes
        /\ LOutcome' = [j \in Jobs |-> IF LStatus[j] \in {"pending", "running"} THEN LOutcome'[j]
                                                                            ELSE LOutcome[j]]
    BY <1>3 DEF Lifecycle!RecoverJobs, Lifecycle!Open, LStatus, LOutcome, LOutcomes, LNoOutcome
  <2>3. QED
    BY <1>0, <2>1, <2>2 DEF RegisterInv, RegisterHolds, OpenStatus
<1>4. CASE UNCHANGED <<LStatus, LOutcome>>
  BY <1>0, <1>4 DEF RegisterInv, RegisterHolds
<1>5. QED
  BY <1>1, <1>2, <1>3, <1>4 DEF Lifecycle!LifecycleNext

LEMMA RegisterInvariant == Lifecycle!LifecycleSpec => []RegisterInv /\ [][RegisterHolds]_<<LStatus, LOutcome>>
<1>1. Lifecycle!LifecycleInit => RegisterInv
  <2>1. Lifecycle!LifecycleInit =>
          LStatus = [j \in Jobs |-> "absent"] /\ LOutcome = [j \in Jobs |-> LNoOutcome]
    BY DEF Lifecycle!LifecycleInit, LStatus, LOutcome, LNoOutcome
  <2>2. QED
    BY <2>1 DEF RegisterInv
<1>2. RegisterInv /\ [Lifecycle!LifecycleNext]_<<LStatus, LOutcome>> => RegisterInv' /\ RegisterHolds
  BY RegisterStep
<1>3. [Lifecycle!LifecycleNext]_(Lifecycle!lifecycleVars)
        <=> [Lifecycle!LifecycleNext]_<<LStatus, LOutcome>>
  BY DEF Lifecycle!lifecycleVars, LStatus, LOutcome
<1>4. QED
  BY <1>1, <1>2, <1>3, PTL DEF Lifecycle!LifecycleSpec

(* A job has a result or an error exactly when it has settled: status and   *)
(* outcome are written by one statement.                                    *)
THEOREM SettledJobsHaveOutcomes == Spec => []Lifecycle!OutcomeWhenSettled
<1>1. RegisterInv => Lifecycle!OutcomeWhenSettled
  BY DEF RegisterInv, Lifecycle!OutcomeWhenSettled, Lifecycle!Settled, LStatus, LOutcome,
    LOutcomes, LNoOutcome
<1>2. QED
  BY <1>1, RegisterInvariant, RowsAreWriteOnce, PTL DEF WriteOnce

(* A settled job keeps its status and its outcome for ever.                 *)
THEOREM JobsSettleOnce == Spec => Lifecycle!SettledOnce
<1>1. [RegisterHolds]_<<LStatus, LOutcome>> =>
        [\A j \in Jobs : LStatus[j] \in Lifecycle!Settled
           => LStatus'[j] = LStatus[j] /\ LOutcome'[j] = LOutcome[j]]_(Lifecycle!lifecycleVars)
  BY DEF RegisterHolds, Lifecycle!Settled, Lifecycle!lifecycleVars, LStatus, LOutcome
<1>2. Lifecycle!LifecycleSpec => [][\A j \in Jobs : LStatus[j] \in Lifecycle!Settled
           => LStatus'[j] = LStatus[j] /\ LOutcome'[j] = LOutcome[j]]_(Lifecycle!lifecycleVars)
  BY <1>1, RegisterInvariant, PTL
<1>3. QED
  BY <1>2, RowsAreWriteOnce, PTL DEF WriteOnce, Lifecycle!SettledOnce, LStatus, LOutcome
=============================================================================
