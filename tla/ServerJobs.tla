------------------------------ MODULE ServerJobs ------------------------------
(***************************************************************************)
(* The other durable jobs of the server: PDF reports (reporting/,          *)
(* server/routes/reports.py), insight generations                          *)
(* (server/routes/insights.py, server/morning_brief.py) and scan runs      *)
(* (server/routes/scanner.py), over their tables in storage/store.py.      *)
(*                                                                         *)
(* Reports and generations run on a pool of threads each; a scan runs in   *)
(* its request.  One ticker stands for all.                                *)
(***************************************************************************)
EXTENDS Naturals, Sequences, FiniteSets

CONSTANTS
  Reports, Generations, Scans,   \* identifiers
  Analyses,                      \* stored analyses, numbered in the order of their time
  Workers,                       \* max_workers of each pool
  MaxCrashes, MaxIntruders, MaxFaults   \* bounds on crashes, on starts of a
                                        \* second server, on database errors

ASSUME ServerAssumption ==
  /\ Analyses \subseteq Nat /\ Workers \in Nat \ {0}
  /\ Reports \intersect Generations = {}
  /\ {MaxCrashes, MaxIntruders, MaxFaults} \subseteq Nat

VARIABLES
  status,   \* status of the rows of report_jobs and insight_generations
  outcome,  \* artifact_name, result_insight_id or error of the row
  worker,   \* where the thread of a job is
  queues,   \* the jobs submitted to each pool that no thread took
  files,    \* the files of a report in artifact_root
  sources,  \* source_ids of a report
  briefs,   \* rows of daily_briefs each generation saved
  runs,     \* how often the pipeline of a generation was started
  scans,    \* status of the rows of scan_runs
  history,  \* the snapshot of each analysis
  server,   \* "up", "reports" or "insights" (to be recovered), "down"
  service,  \* _report_service is set
  budget    \* crashes, intruders, faults so far

jobVars == <<status, outcome, worker, queues>>
dataVars == <<files, sources, briefs, runs>>
otherVars == <<scans, history>>
serverVars == <<server, service, budget>>
vars == <<jobVars, dataVars, otherVars, serverVars>>
-----------------------------------------------------------------------------
Jobs == Reports \union Generations
Open == {"pending", "running"}
Pool(j) == IF j \in Reports THEN "reports" ELSE "insights"

RowStatus == {"absent", "completed", "failed"} \union Open
ReportRow == RowStatus \X {"none", "pdf", "error"}
GenerationRow == RowStatus \X {"none", "brief", "error"}
ScanRow == {"absent", "running", "completed", "failed"}

TypeOK ==
  /\ DOMAIN status = Jobs /\ DOMAIN outcome = Jobs
  /\ \A r \in Reports : <<status[r], outcome[r]>> \in ReportRow
  /\ \A g \in Generations : <<status[g], outcome[g]>> \in GenerationRow
  /\ worker \in [Jobs -> {"none", "queued", "started", "working", "placed", "done", "lost"}]
  /\ queues \in [{"reports", "insights"} -> Seq(Jobs)]
  /\ files \in [Reports -> SUBSET {"tmp", "pdf"}]
  /\ sources \in [Reports -> SUBSET Analyses]
  /\ briefs \in [Generations -> {"none", "saved", "deleted"}] /\ runs \in [Generations -> Nat]
  /\ scans \in [Scans -> ScanRow]
  /\ history \in [Analyses -> {"none", "running", "completed", "failed", "deleted"}]
  /\ server \in {"up", "reports", "insights", "down"} /\ service \in BOOLEAN
  /\ budget \in [crashes : 0 .. MaxCrashes, intruders : 0 .. MaxIntruders, faults : 0 .. MaxFaults]

Init ==
  /\ status = [j \in Jobs |-> "absent"] /\ outcome = [j \in Jobs |-> "none"]
  /\ worker = [j \in Jobs |-> "none"] /\ queues = [p \in {"reports", "insights"} |-> <<>>]
  /\ files = [r \in Reports |-> {}] /\ sources = [r \in Reports |-> {}]
  /\ briefs = [g \in Generations |-> "none"] /\ runs = [g \in Generations |-> 0]
  /\ scans = [s \in Scans |-> "absent"] /\ history = [a \in Analyses |-> "none"]
  /\ server = "up" /\ service = FALSE
  /\ budget = [crashes |-> 0, intruders |-> 0, faults |-> 0]
-----------------------------------------------------------------------------
(* The statements of the two tables.                                        *)
Settle(j, s, o) ==
  /\ status' = [status EXCEPT ![j] = s]
  /\ outcome' = [outcome EXCEPT ![j] = o]

(* fail_report_job, fail_insight_generation                                 *)
Failed(j) == IF status[j] \in Open THEN Settle(j, "failed", "error")
                                   ELSE UNCHANGED <<status, outcome>>

(* Mutant: recovery leaves the rows that never started. *)
RecoverRunning(table) ==
  /\ status' = [j \in Jobs |-> IF j \in table /\ status[j] = "running" THEN "failed" ELSE status[j]]
  /\ outcome' = [j \in Jobs |-> IF j \in table /\ status[j] = "running" THEN "error" ELSE outcome[j]]

Recover(table) ==
  /\ status' = [j \in Jobs |-> IF j \in table /\ status[j] \in Open THEN "failed" ELSE status[j]]
  /\ outcome' = [j \in Jobs |-> IF j \in table /\ status[j] \in Open THEN "error" ELSE outcome[j]]

(* create_report_job; create_insight_generation leaves a row there is.      *)
InsertReport(r) == status[r] = "absent" /\ status' = [status EXCEPT ![r] = "pending"]
InsertGeneration(g) == status' = [status EXCEPT ![g] = IF @ = "absent" THEN "pending" ELSE @]

Enqueue(j) ==
  /\ worker' = [worker EXCEPT ![j] = "queued"]
  /\ queues' = [queues EXCEPT ![Pool(j)] = Append(@, j)]

(* mark_report_job_running, mark_insight_generation_running                 *)
MarkRunning(j) == status[j] = "pending" /\ status' = [status EXCEPT ![j] = "running"]

Faults(n) ==
  /\ budget.faults + n <= MaxFaults
  /\ budget' = [budget EXCEPT !.faults = @ + n]
-----------------------------------------------------------------------------
(* An analysis starts, ends or is deleted: AnalysisRuns, as seen from here. *)
Analysis(a) ==
  /\ server = "up"
  /\ \/ history[a] = "none" /\ history' = [history EXCEPT ![a] = "running"]
     \/ history[a] = "running" /\ \E s \in {"completed", "failed"} : history' = [history EXCEPT ![a] = s]
     \/ history[a] # "none" /\ history' = [history EXCEPT ![a] = "deleted"]
  /\ UNCHANGED <<jobVars, dataVars, scans, serverVars>>

(* create_rule_scan, agent_scanner: the row, the scan, its end.  An error   *)
(* the handler does not name leaves the row running.                        *)
CreateScan(s) == scans[s] = "absent" /\ scans' = [scans EXCEPT ![s] = "running"]
CompleteScan(s) == scans[s] = "running" /\ scans' = [scans EXCEPT ![s] = "completed"]
FailScan(s) == scans[s] = "running" /\ scans' = [scans EXCEPT ![s] = "failed"]

Scan(s) ==
  /\ server = "up"
  /\ CreateScan(s) \/ CompleteScan(s) \/ FailScan(s)
  /\ UNCHANGED <<jobVars, dataVars, history, serverVars>>

(* _latest_snapshot: the completed analysis completed last.                 *)
Completed == {a \in Analyses : history[a] = "completed"}
Latest == {a \in Completed : \A b \in Completed : b <= a}

(* ReportSourceResolver: what a report may rest on.  A stock report names a *)
(* completed analysis, or takes the latest; a sector report takes the       *)
(* latest, or notes its absence, of a completed scan.                       *)
Sources ==
  {{a} : a \in Completed}
    \union {Latest : s \in {x \in Scans : scans[x] = "completed"}}

(* get_report_service, at the first request for a report.                   *)
OpenService ==
  /\ server = "up" /\ ~service
  /\ service' = TRUE /\ Recover(Reports)
  /\ UNCHANGED <<worker, queues, dataVars, otherVars, server, budget>>

SubmitReport(r) ==
  /\ server = "up" /\ service
  /\ \E ids \in Sources : sources' = [sources EXCEPT ![r] = ids]
  /\ InsertReport(r) /\ Enqueue(r)
  /\ UNCHANGED <<outcome, files, briefs, runs, otherVars, serverVars>>

(* generate_insight with the client's generation_id: a request repeated     *)
(* with it gets the row there is.                                           *)
Generate(g) ==
  /\ server = "up" /\ status[g] = "absent"
  /\ InsertGeneration(g) /\ Enqueue(g)
  /\ UNCHANGED <<outcome, dataVars, otherVars, serverVars>>

DeleteInsight(g) ==
  /\ server = "up" /\ briefs[g] = "saved"
  /\ briefs' = [briefs EXCEPT ![g] = "deleted"]
  /\ UNCHANGED <<jobVars, files, sources, runs, otherVars, serverVars>>
-----------------------------------------------------------------------------
Busy(p) == {j \in Jobs : Pool(j) = p /\ worker[j] \in {"started", "working", "placed"}}

(* Mutant: a job that is not pending is run all the same. *)
TakeAnyway(j) ==
  /\ queues[Pool(j)] # <<>> /\ Head(queues[Pool(j)]) = j /\ Cardinality(Busy(Pool(j))) < Workers
  /\ queues' = [queues EXCEPT ![Pool(j)] = Tail(@)]
  /\ status' = [status EXCEPT ![j] = "running"]
  /\ worker' = [worker EXCEPT ![j] = "started"]
  /\ runs' = IF j \in Generations THEN [runs EXCEPT ![j] = @ + 1] ELSE runs
  /\ UNCHANGED <<outcome, files, sources, briefs, otherVars, serverVars>>

(* A thread takes the next job; a row that is no longer pending ends it,    *)
(* and so does a database error, which leaves it pending.                   *)
Take(j) ==
  /\ queues[Pool(j)] # <<>> /\ Head(queues[Pool(j)]) = j /\ Cardinality(Busy(Pool(j))) < Workers
  /\ queues' = [queues EXCEPT ![Pool(j)] = Tail(@)]
  /\ \/ /\ MarkRunning(j)
        /\ worker' = [worker EXCEPT ![j] = "started"]
        /\ runs' = IF j \in Generations THEN [runs EXCEPT ![j] = @ + 1] ELSE runs
        /\ UNCHANGED budget
     \/ /\ status[j] # "pending"
        /\ worker' = [worker EXCEPT ![j] = "done"] /\ UNCHANGED <<status, runs, budget>>
     \/ /\ Faults(1)
        /\ worker' = [worker EXCEPT ![j] = "lost"] /\ UNCHANGED <<status, runs>>
  /\ UNCHANGED <<outcome, files, sources, briefs, otherVars, server, service>>

(* The except clause of a worker, reached by that many database errors; the *)
(* update that fails the row may raise too.                                 *)
GiveUp(j, errors) ==
  \/ Failed(j) /\ worker' = [worker EXCEPT ![j] = "done"] /\ Faults(errors)
  \/ /\ Faults(errors + 1)
     /\ worker' = [worker EXCEPT ![j] = "lost"] /\ UNCHANGED <<status, outcome>>

(* Rendering writes the temporary file, which is synced and checked.        *)
Render(r) ==
  /\ worker[r] = "started"
  /\ \/ /\ files' = [files EXCEPT ![r] = @ \union {"tmp"}]
        /\ worker' = [worker EXCEPT ![r] = "working"]
        /\ UNCHANGED <<status, outcome, budget>>
     \/ files' = [files EXCEPT ![r] = {}] /\ GiveUp(r, 0)
  /\ UNCHANGED <<queues, sources, briefs, runs, otherVars, server, service>>

(* Mutant: the row is completed before the file is in place. *)
PlaceAfterRow(r) ==
  /\ worker[r] = "working" /\ r \in Reports /\ status[r] = "running"
  /\ Settle(r, "completed", "pdf")
  /\ worker' = [worker EXCEPT ![r] = "placed"]
  /\ UNCHANGED <<files, queues, sources, briefs, runs, otherVars, serverVars>>

Place(r) ==
  /\ worker[r] = "working" /\ r \in Reports
  /\ files' = [files EXCEPT ![r] = {"pdf"}]
  /\ worker' = [worker EXCEPT ![r] = "placed"]
  /\ UNCHANGED <<status, outcome, queues, sources, briefs, runs, otherVars, serverVars>>

(* complete_report_job; when it raises or its row is no longer running, the *)
(* file is taken back.                                                      *)
CompleteReport(r) ==
  /\ worker[r] = "placed"
  /\ \/ /\ status[r] = "running" /\ Settle(r, "completed", "pdf")
        /\ worker' = [worker EXCEPT ![r] = "done"]
        /\ UNCHANGED <<files, budget>>
     \/ /\ files' = [files EXCEPT ![r] = {}]
        /\ GiveUp(r, IF status[r] = "running" THEN 1 ELSE 0)
  /\ UNCHANGED <<queues, sources, briefs, runs, otherVars, server, service>>

(* save_daily_brief                                                         *)
SaveBrief(g) == briefs' = [briefs EXCEPT ![g] = "saved"]

(* Mutant: a brief without an id completes its generation. *)
MorningBriefUnsaved(g) ==
  /\ worker[g] = "started" /\ g \in Generations
  /\ SaveBrief(g) \/ UNCHANGED briefs
  /\ worker' = [worker EXCEPT ![g] = "working"]
  /\ UNCHANGED <<status, outcome, queues, files, sources, runs, otherVars, serverVars>>

(* The pipeline collects, asks the model and saves the brief, or raises; a  *)
(* save that fails is only logged and leaves the brief without an id.       *)
MorningBrief(g) ==
  /\ worker[g] = "started" /\ g \in Generations
  /\ \/ /\ SaveBrief(g)
        /\ worker' = [worker EXCEPT ![g] = "working"]
        /\ UNCHANGED <<status, outcome, budget>>
     \/ GiveUp(g, 0) /\ UNCHANGED briefs
  /\ UNCHANGED <<queues, files, sources, runs, otherVars, server, service>>

(* The last progress, then complete_insight_generation: either may raise,   *)
(* and a row that is no longer running is left as it is.                    *)
CompleteGeneration(g) ==
  /\ worker[g] = "working" /\ g \in Generations
  /\ \/ /\ IF status[g] = "running" THEN Settle(g, "completed", "brief")
                                    ELSE UNCHANGED <<status, outcome>>
        /\ worker' = [worker EXCEPT ![g] = "done"] /\ UNCHANGED budget
     \/ GiveUp(g, 1)
  /\ UNCHANGED <<queues, dataVars, otherVars, server, service>>

Step(j) ==
  \/ Take(j)
  \/ j \in Reports /\ (Render(j) \/ Place(j) \/ CompleteReport(j))
  \/ j \in Generations /\ (MorningBrief(j) \/ CompleteGeneration(j))
-----------------------------------------------------------------------------
(* The process ends, its threads with it: waited for at a shutdown, or lost.*)
Idle == \A j \in Jobs : worker[j] \in {"none", "done", "lost"}

Exit ==
  /\ server # "down" /\ server' = "down" /\ service' = FALSE
  /\ \/ Idle /\ server = "up" /\ UNCHANGED budget
     \/ budget.crashes < MaxCrashes /\ budget' = [budget EXCEPT !.crashes = @ + 1]
  /\ worker' = [j \in Jobs |-> IF worker[j] = "none" THEN "none" ELSE "done"]
  /\ queues' = [p \in DOMAIN queues |-> <<>>]
  /\ UNCHANGED <<status, outcome, dataVars, otherVars>>

(* The lifespan of server/main.py recovers one table after the other.       *)
Start ==
  /\ server # "up"
  /\ \/ server = "down" /\ server' = "reports" /\ UNCHANGED <<status, outcome>>
     \/ server = "reports" /\ server' = "insights" /\ Recover(Reports)
     \/ server = "insights" /\ server' = "up" /\ Recover(Generations)
  /\ UNCHANGED <<worker, queues, dataVars, otherVars, service, budget>>

(* A second server starts on the same database.                             *)
OtherStart ==
  /\ budget.intruders < MaxIntruders
  /\ budget' = [budget EXCEPT !.intruders = @ + 1]
  /\ \E table \in {Reports, Generations} : Recover(table)
  /\ UNCHANGED <<worker, queues, dataVars, otherVars, server, service>>

Next ==
  \/ \E a \in Analyses : Analysis(a)
  \/ \E s \in Scans : Scan(s)
  \/ OpenService \/ \E r \in Reports : SubmitReport(r)
  \/ \E g \in Generations : Generate(g) \/ DeleteInsight(g)
  \/ \E j \in Jobs : Step(j)
  \/ Exit \/ Start \/ OtherStart

Spec == Init /\ [][Next]_vars

(* A thread of a pool goes on (rendering and the calls of the pipeline      *)
(* return or raise), and a server that went down is started again.          *)
FairSpec == Spec /\ WF_vars(Start) /\ \A j \in Jobs : WF_vars(Step(j))
-----------------------------------------------------------------------------
(* resolve_artifact and download_report.                                    *)
Artifact(r) ==
  IF status[r] # "completed" \/ outcome[r] # "pdf" \/ "pdf" \notin files[r] THEN "unavailable" ELSE "pdf"
Download(r) ==
  CASE status[r] = "absent" -> "not found"
    [] status[r] \notin {"absent", "completed"} -> "not completed"
    [] status[r] = "completed" -> Artifact(r)

(* A report that is listed as completed can be downloaded: its row says     *)
(* completed only while the PDF is in place, though the two are written one *)
(* after the other and another server may fail the row in between.          *)
CompletedHasItsPdf == \A r \in Reports : status[r] = "completed" => Download(r) = "pdf"

(* However often a client repeats its request, and however servers restart, *)
(* the pipeline of one generation_id runs once, and a completed generation  *)
(* saved its brief.                                                         *)
GeneratedOnce ==
  \A g \in Generations : runs[g] <= 1 /\ (status[g] = "completed" => briefs[g] # "none")

(* Both tables keep the promise of the job tables.                          *)
ReportLifecycle == INSTANCE JobLifecycle
  WITH Jobs <- Reports, Outcomes <- {"pdf", "error"}, NoOutcome <- "none",
       status <- [r \in Reports |-> status[r]], outcome <- [r \in Reports |-> outcome[r]]
InsightLifecycle == INSTANCE JobLifecycle
  WITH Jobs <- Generations, Outcomes <- {"brief", "error"}, NoOutcome <- "none",
       status <- [g \in Generations |-> status[g]], outcome <- [g \in Generations |-> outcome[g]]
JobsKeepTheirLifecycle == ReportLifecycle!LifecycleSpec /\ InsightLifecycle!LifecycleSpec

(* A job that was accepted settles, whatever stops in between, unless a     *)
(* database error keeps its worker from it: then it waits for the next start*)
JobsSettle ==
  \A j \in Jobs : status[j] \in Open ~> (status[j] \notin Open \/ worker[j] = "lost")
=============================================================================
