----------------------------- MODULE MonitorRuns -----------------------------
(***************************************************************************)
(* The runs of one monitor task (server/routes/monitor.py, scheduler/,     *)
(* server/monitor_engine.py and the statements of storage/store.py).       *)
(*                                                                         *)
(* A run is triggered by a request (on the event loop, its execution in an *)
(* executor), by the monitor's cron job, or by the poll of MonitorRunner   *)
(* (each in a thread of its own).  Requests and cron threads look at       *)
(* run_status and at the set _running_tasks, then start; the poll looks at *)
(* last_run_at only.  Rows of different monitors share nothing, so one row *)
(* is modelled.                                                            *)
(***************************************************************************)
EXTENDS Naturals, FiniteSets

CONSTANTS
  Manual,      \* runs a request may trigger
  Cron,        \* runs the cron job may trigger
  Polled,      \* runs the poll may trigger
  NoRun,       \* no run
  MaxClock,    \* bound on the periods that pass
  MaxCrashes,  \* bound on crashes of the process
  MaxFaults,   \* bound on statements that raise
  MaxEdits     \* bound on updates of the monitor's configuration

Runs == Manual \union Cron \union Polled
Editor == "editor"   \* a handler that updates the configuration

ASSUME MonitorAssumption ==
  /\ Manual \intersect Cron = {} /\ Manual \intersect Polled = {} /\ Cron \intersect Polled = {}
  /\ NoRun \notin Runs /\ Editor \notin Runs \union {NoRun}
  /\ {MaxClock, MaxCrashes, MaxFaults, MaxEdits} \subseteq Nat

VARIABLES
  row,         \* the row of monitor_tasks
  registered,  \* the scheduler holds a cron job of the monitor
  busy,        \* the monitor is in _running_tasks
  loop,        \* the handler or coroutine on the event loop between two of its steps
  pc,          \* pc[r]: where run r is
  seen,        \* seen[r]: the run_status that r has read and not yet looked at
  edit,        \* the row an update is about to write back
  clock,       \* periods of the monitor's frequency passed so far
  began,       \* began[r]: period in which polled run r touched the row, 0 before
  server,
  budget

runVars == <<pc, seen, began>>
worldVars == <<clock, server, budget>>
vars == <<row, registered, busy, loop, edit, runVars, worldVars>>
-----------------------------------------------------------------------------
NoEdit == [cron |-> FALSE]
Places == {"idle", "spawned", "read", "cleared", "refused", "started", "running",
           "executing", "saved", "executed", "raised", "settled", "unsettled",
           "done", "lost", "dead"}
Ended == {"idle", "refused", "done", "lost", "dead"}
Row == [exists : BOOLEAN, status : {"idle", "running", "failed"}, run : Runs \union {NoRun},
        last : Nat, active : BOOLEAN, scheduled : BOOLEAN]

TypeOK ==
  /\ row \in Row
  /\ registered \in BOOLEAN /\ busy \in BOOLEAN
  /\ loop \in Manual \union {NoRun, Editor}
  /\ pc \in [Runs -> Places]
  /\ seen \in [Runs -> {"idle", "running", "failed"}]
  /\ edit \in IF loop = Editor THEN [row : Row, cron : BOOLEAN] ELSE {NoEdit}
  /\ clock \in 1 .. MaxClock + 1
  /\ began \in [Runs -> 0 .. MaxClock + 1]
  /\ server \in {"up", "down"}
  /\ budget \in [crashes : 0 .. MaxCrashes, faults : 0 .. MaxFaults, edits : 0 .. MaxEdits]

(* register_monitor                                                         *)
NewRow(scheduled) ==
  [exists |-> TRUE, status |-> "idle", run |-> NoRun, last |-> 0,
   active |-> TRUE, scheduled |-> scheduled]

(* create_monitor: the row, then its cron job.                              *)
Init ==
  /\ \E scheduled \in BOOLEAN :
       /\ row = NewRow(scheduled)
       /\ registered = scheduled
  /\ busy = FALSE
  /\ loop = NoRun
  /\ pc = [r \in Runs |-> "idle"]
  /\ seen = [r \in Runs |-> "idle"]
  /\ edit = NoEdit
  /\ clock = 1
  /\ began = [r \in Runs |-> 0]
  /\ server = "up"
  /\ budget = [crashes |-> MaxCrashes, faults |-> MaxFaults, edits |-> MaxEdits]
-----------------------------------------------------------------------------
(* The statements of storage/store.py.                                      *)

(* start_monitor_run: UPDATE ... SET run_status = 'running', current_run_id = r *)
StartRow(r) == row' = [row EXCEPT !.status = "running", !.run = r]

(* Mutant: a run is settled without looking at current_run_id. *)
SettleAnyRow(r, status, last) ==
  row' = [row EXCEPT !.status = status, !.run = NoRun, !.last = last]

(* finish_monitor_run and fail_monitor_run: ... WHERE current_run_id = r *)
SettleRow(r, status, last) ==
  row' = IF row.run = r
           THEN [row EXCEPT !.status = status, !.run = NoRun, !.last = last]
           ELSE row

(* Mutant: the poll's thread does not touch the row. *)
TouchNothing == UNCHANGED row

(* touch_monitor_run: UPDATE ... SET last_run_at = now *)
Touch == row' = [row EXCEPT !.last = IF row.exists THEN clock ELSE @]
-----------------------------------------------------------------------------
(* Handlers of the event loop run one at a time; a coroutine without an     *)
(* await keeps the loop over all its steps.  Threads do not need the loop.  *)
OnLoop(r) == r \in Manual => loop = r
TakesLoop(r) ==
  IF r \in Manual THEN loop \in {NoRun, r} /\ loop' = r ELSE UNCHANGED loop
LeavesLoop(r) == loop' = IF r \in Manual THEN NoRun ELSE loop

Goto(r, place) == pc' = [pc EXCEPT ![r] = place]

(* A thread of the monitor's cron job; nothing looks at the row's status.   *)
Spawn(r) ==
  /\ r \in Cron
  /\ server = "up" /\ registered /\ pc[r] = "idle"
  /\ Goto(r, "spawned")
  /\ UNCHANGED <<row, registered, busy, loop, seen, began, edit, worldVars>>

(* get_monitor: a request for a monitor that is gone is answered with 404. *)
Read(r) ==
  /\ \/ r \in Manual /\ pc[r] = "idle" /\ server = "up" /\ loop = NoRun /\ row.exists
     \/ r \in Cron /\ pc[r] = "spawned"
  /\ TakesLoop(r)
  /\ seen' = [seen EXCEPT ![r] = row.status]
  /\ Goto(r, IF row.exists THEN "read" ELSE "refused")
  /\ UNCHANGED <<row, registered, busy, began, edit, worldVars>>

(* Mutant: a run starts without looking for another one. *)
NothingKnown(r) == FALSE

(* Another run is known, from the set in memory or from the row as read. *)
KnownActive(r) == busy \/ seen[r] = "running"

Check(r) ==
  /\ pc[r] = "read" /\ OnLoop(r)
  /\ IF KnownActive(r)
       THEN Goto(r, "refused") /\ LeavesLoop(r)
       ELSE Goto(r, "cleared") /\ UNCHANGED loop
  /\ seen' = [seen EXCEPT ![r] = "idle"]
  /\ UNCHANGED <<row, registered, busy, began, edit, worldVars>>

Start(r) ==
  /\ pc[r] = "cleared" /\ OnLoop(r)
  /\ IF row.exists
       THEN StartRow(r) /\ Goto(r, "started") /\ UNCHANGED loop
       ELSE Goto(r, "refused") /\ LeavesLoop(r) /\ UNCHANGED row
  /\ UNCHANGED <<registered, busy, seen, began, edit, worldVars>>

(* _running_tasks.add; a request then creates the task that executes and    *)
(* answers, which gives the loop back.                                      *)
Add(r) ==
  /\ pc[r] = "started" /\ OnLoop(r)
  /\ busy' = TRUE
  /\ Goto(r, "running")
  /\ LeavesLoop(r)
  /\ UNCHANGED <<row, registered, seen, began, edit, worldVars>>
-----------------------------------------------------------------------------
(* MonitorRunner: every five minutes the active monitors without a cron     *)
(* expression whose last run is a period old get a thread each.             *)

(* Five minutes are enough for the threads of a poll to touch their rows,   *)
(* and a period is longer than the poll's interval.                         *)
AllTouched == \A r \in Polled : pc[r] # "spawned"

(* _should_run *)
Due == row.active /\ ~ row.scheduled /\ row.last < clock

Poll(r) ==
  /\ r \in Polled
  /\ server = "up" /\ AllTouched /\ pc[r] = "idle"
  /\ row.exists /\ Due
  /\ Goto(r, "spawned")
  /\ UNCHANGED <<row, registered, busy, loop, seen, began, edit, worldVars>>

(* The thread touches the row before it executes. *)
TouchFirst(r) ==
  /\ r \in Polled /\ pc[r] = "spawned"
  /\ Touch
  /\ began' = [began EXCEPT ![r] = clock]
  /\ Goto(r, "running")
  /\ UNCHANGED <<registered, busy, loop, seen, edit, worldVars>>
-----------------------------------------------------------------------------
(* monitor_engine.execute, in a thread for every kind of run.               *)

(* It reads the monitor, and raises when the row is gone. *)
Begin(r) ==
  /\ pc[r] = "running"
  /\ Goto(r, IF row.exists THEN "executing" ELSE "raised")
  /\ UNCHANGED <<row, registered, busy, loop, seen, began, edit, worldVars>>

(* Collecting and summarising may raise. *)
ExecuteRaises(r) ==
  /\ pc[r] = "executing"
  /\ Goto(r, "raised")
  /\ UNCHANGED <<row, registered, busy, loop, seen, began, edit, worldVars>>

(* The report is inserted, then last_run_at is set; an exception of either  *)
(* is logged and the execution counts as successful.                        *)
SaveReport(r) ==
  /\ pc[r] = "executing"
  /\ Goto(r, "saved")
  /\ UNCHANGED <<row, registered, busy, loop, seen, began, edit, worldVars>>

TouchAfter(r) ==
  /\ pc[r] = "saved"
  /\ Touch
  /\ Goto(r, "executed")
  /\ UNCHANGED <<registered, busy, loop, seen, began, edit, worldVars>>

SpendFault == budget.faults > 0 /\ budget' = [budget EXCEPT !.faults = @ - 1]

SaveRaises(r) ==
  /\ pc[r] \in {"executing", "saved"}
  /\ SpendFault
  /\ Goto(r, "executed")
  /\ UNCHANGED <<row, registered, busy, loop, seen, began, edit, clock, server>>
-----------------------------------------------------------------------------
(* The end of a run.  A polled run has nothing to settle.                   *)
PolledEnds(r) ==
  /\ r \in Polled /\ pc[r] \in {"executed", "raised"}
  /\ Goto(r, "done")
  /\ UNCHANGED <<row, registered, busy, loop, seen, began, edit, worldVars>>

Finish(r) ==
  /\ r \notin Polled /\ pc[r] = "executed"
  /\ TakesLoop(r)
  /\ SettleRow(r, "idle", clock)
  /\ Goto(r, "settled")
  /\ UNCHANGED <<registered, busy, seen, began, edit, worldVars>>

(* An exception of the statement is handled like one of the execution. *)
FinishRaises(r) ==
  /\ r \notin Polled /\ pc[r] = "executed"
  /\ TakesLoop(r)
  /\ SpendFault
  /\ Goto(r, "raised")
  /\ UNCHANGED <<row, registered, busy, seen, began, edit, clock, server>>

Fail(r) ==
  /\ r \notin Polled /\ pc[r] = "raised"
  /\ TakesLoop(r)
  /\ SettleRow(r, "failed", row.last)
  /\ Goto(r, "settled")
  /\ UNCHANGED <<registered, busy, seen, began, edit, worldVars>>

FailRaises(r) ==
  /\ r \notin Polled /\ pc[r] = "raised"
  /\ TakesLoop(r)
  /\ SpendFault
  /\ Goto(r, "unsettled")
  /\ UNCHANGED <<row, registered, busy, seen, began, edit, clock, server>>

(* finally: _running_tasks.discard *)
Discard(r) ==
  /\ pc[r] \in {"settled", "unsettled"} /\ OnLoop(r)
  /\ busy' = FALSE
  /\ Goto(r, IF pc[r] = "settled" THEN "done" ELSE "lost")
  /\ LeavesLoop(r)
  /\ UNCHANGED <<row, registered, seen, began, edit, worldVars>>
-----------------------------------------------------------------------------
(* PUT /monitors/{id}: update_monitor reads the row, merges the request and *)
(* writes back every configuration column and last_run_at.                  *)
EditRead ==
  /\ server = "up" /\ loop = NoRun /\ row.exists
  /\ budget.edits > 0 /\ budget' = [budget EXCEPT !.edits = @ - 1]
  /\ loop' = Editor
  /\ \E active, scheduled, cron \in BOOLEAN :
       /\ ~ cron => scheduled = row.scheduled
       /\ edit' = [cron |-> cron,
                   row |-> [row EXCEPT !.active = active, !.scheduled = scheduled]]
  /\ UNCHANGED <<row, registered, busy, runVars, clock, server>>

(* _register_job replaces the monitor's cron job, or removes it for an empty*)
(* expression.                                                              *)
RegisterJob(scheduled) == registered' = scheduled

(* The request must name a cron expression for it; the monitor's status     *)
(* plays no part.                                                           *)
EditWrite ==
  /\ loop = Editor
  /\ row' = [row EXCEPT !.active = edit.row.active, !.scheduled = edit.row.scheduled,
                        !.last = edit.row.last]
  /\ IF edit.cron THEN RegisterJob(edit.row.scheduled) ELSE UNCHANGED registered
  /\ edit' = NoEdit
  /\ loop' = NoRun
  /\ UNCHANGED <<busy, runVars, worldVars>>

(* DELETE /monitors/{id} *)
Delete ==
  /\ server = "up" /\ loop = NoRun /\ row.exists
  /\ row' = [row EXCEPT !.exists = FALSE, !.status = "idle", !.run = NoRun]
  /\ registered' = FALSE
  /\ UNCHANGED <<busy, loop, edit, runVars, worldVars>>
-----------------------------------------------------------------------------
Tick ==
  /\ clock <= MaxClock /\ AllTouched
  /\ clock' = clock + 1
  /\ UNCHANGED <<row, registered, busy, loop, edit, runVars, server, budget>>

(* The process dies with its threads, its scheduler and its set; the row is *)
(* what it was.                                                             *)
Crash ==
  /\ server = "up"
  /\ budget.crashes > 0 /\ budget' = [budget EXCEPT !.crashes = @ - 1]
  /\ server' = "down"
  /\ registered' = FALSE /\ busy' = FALSE /\ loop' = NoRun /\ edit' = NoEdit
  /\ pc' = [r \in Runs |-> IF pc[r] \in Ended THEN pc[r] ELSE "dead"]
  /\ UNCHANGED <<row, seen, began, clock>>

(* register_all_jobs: the active monitors with a cron expression. *)
Startup ==
  /\ server = "down"
  /\ server' = "up"
  /\ registered' = (row.exists /\ row.active /\ row.scheduled)
  /\ UNCHANGED <<row, busy, loop, edit, runVars, clock, budget>>
-----------------------------------------------------------------------------
Trigger(r) == Spawn(r) \/ Poll(r) \/ (pc[r] = "idle" /\ Read(r))

Proceed(r) ==
  \/ (pc[r] = "spawned" /\ Read(r)) \/ Check(r) \/ Start(r) \/ Add(r) \/ TouchFirst(r)
  \/ Begin(r) \/ ExecuteRaises(r) \/ SaveReport(r) \/ TouchAfter(r) \/ SaveRaises(r)
  \/ PolledEnds(r) \/ Finish(r) \/ FinishRaises(r) \/ Fail(r) \/ FailRaises(r) \/ Discard(r)

Next ==
  \/ \E r \in Runs : Trigger(r) \/ Proceed(r)
  \/ EditRead \/ EditWrite \/ Delete \/ Tick \/ Crash \/ Startup

Spec == Init /\ [][Next]_vars

(* Threads and handlers go on: the calls of an execution have timeouts, and *)
(* the event loop serves what is ready in order.  Nothing triggers a run.   *)
FairSpec ==
  /\ Spec
  /\ \A r \in Runs : SF_vars(Proceed(r))
  /\ WF_vars(EditWrite) /\ WF_vars(Startup)
-----------------------------------------------------------------------------
(* Correctness.                                                             *)
Working == {"started", "running", "executing", "saved", "executed", "raised"}

(* Until a cron run is triggered, two requests never execute the monitor at *)
(* the same time, whatever polled runs, edits and crashes do: the handler   *)
(* keeps the loop from its check to _running_tasks.add.                     *)
NoCronYet == \A c \in Cron : pc[c] = "idle"
ManualRunsExclude ==
  NoCronYet => \A r, s \in Manual : pc[r] \in Working /\ pc[s] \in Working => r = s

(* The row changes hands only by a start, and it is released only by the    *)
(* run it names: the late end of a run that was superseded leaves the       *)
(* status of its successor alone (WHERE current_run_id = ?).                *)
ReleasedByItsRun ==
  [][row.exists /\ row'.exists /\ row.run # NoRun /\ row'.run = NoRun =>
       pc[row.run] \in {"executed", "raised"} /\ pc'[row.run] = "settled"]_vars

(* A monitor is shown as running only for a run that has not ended in good  *)
(* order: every path of a run through its handlers releases the row, also   *)
(* when it was superseded or superseded another one.                        *)
RunningHasItsRun ==
  /\ row.status = "running" <=> row.run # NoRun
  /\ row.run # NoRun => pc[row.run] \notin {"idle", "refused", "settled", "done"}

(* "Touch last_run first to avoid duplicate execution": until the monitor   *)
(* is updated, no two polled runs begin in the same period, across crashes  *)
(* and beside the other runs.                                               *)
NotEdited == budget.edits = MaxEdits
OncePerPeriod ==
  NotEdited => \A r, s \in Polled : r # s /\ began[r] # 0 => began[r] # began[s]

(* "Task is already running. Please wait.": a monitor shown as running      *)
(* stops being so.                                                          *)
RunningEnds == \A r \in Runs : row.run = r ~> row.run # r
=============================================================================
