--------------------------- MODULE ServerJobsProofs ---------------------------
(***************************************************************************)
(* Proofs about ServerJobs, for any reports, generations, scans, analyses, *)
(* workers and bounds on what goes wrong: what a completed row promises,   *)
(* and that both tables keep the lifecycle of a job.                       *)
(***************************************************************************)
EXTENDS ServerJobs, SequenceTheorems, TLAPS

(* What a step may do to the row of j: nothing, or one of the statements.   *)
Result(j) == IF j \in Reports THEN "pdf" ELSE "brief"

RowStep(j) ==
  \/ status[j] = "absent" /\ status' = [status EXCEPT ![j] = "pending"] /\ UNCHANGED outcome
  \/ status[j] = "pending" /\ status' = [status EXCEPT ![j] = "running"] /\ UNCHANGED outcome
  \/ status[j] = "running" /\ Settle(j, "completed", Result(j))
  \/ status[j] \in Open /\ Settle(j, "failed", "error")

RowsStep ==
  \/ UNCHANGED <<status, outcome>>
  \/ \E j \in Jobs : RowStep(j)
  \/ Recover(Reports) \/ Recover(Generations)

LEMMA GiveUpRows ==
  ASSUME NEW j \in Jobs, NEW errors, GiveUp(j, errors)
  PROVE  UNCHANGED <<status, outcome>> \/ RowStep(j)
BY DEF GiveUp, Failed, RowStep

LEMMA StepsOfRows == [Next]_vars => RowsStep
<1> SUFFICES ASSUME [Next]_vars PROVE RowsStep
  OBVIOUS
<1>1. ASSUME NEW a \in Analyses, Analysis(a) PROVE RowsStep
  BY <1>1 DEF Analysis, jobVars, RowsStep
<1>2. ASSUME NEW s \in Scans, Scan(s) PROVE RowsStep
  BY <1>2 DEF Scan, jobVars, RowsStep
<1>3. CASE OpenService \/ OtherStart \/ Start
  BY <1>3 DEF OpenService, OtherStart, Start, RowsStep
<1>4. ASSUME NEW r \in Reports, SubmitReport(r) PROVE RowsStep
  BY <1>4 DEF SubmitReport, InsertReport, RowsStep, RowStep, Jobs
<1>5. ASSUME NEW g \in Generations, Generate(g) PROVE RowsStep
  BY <1>5 DEF Generate, InsertGeneration, RowsStep, RowStep, Jobs
<1>6. ASSUME NEW g \in Generations, DeleteInsight(g) PROVE RowsStep
  BY <1>6 DEF DeleteInsight, jobVars, RowsStep
<1>7. ASSUME NEW j \in Jobs, Take(j) PROVE RowsStep
  BY <1>7 DEF Take, MarkRunning, RowsStep, RowStep
<1>8. ASSUME NEW r \in Reports, Render(r) \/ Place(r) \/ CompleteReport(r) PROVE RowsStep
  BY <1>8, GiveUpRows DEF Render, Place, CompleteReport, RowsStep, RowStep, Result, Jobs
<1>9. ASSUME NEW g \in Generations, MorningBrief(g) \/ CompleteGeneration(g) PROVE RowsStep
  BY <1>9, GiveUpRows, ServerAssumption
  DEF MorningBrief, CompleteGeneration, RowsStep, RowStep, Result, Jobs
<1>10. CASE Exit \/ UNCHANGED vars
  BY <1>10 DEF Exit, vars, jobVars, RowsStep
<1>11. QED
  BY <1>1, <1>2, <1>3, <1>4, <1>5, <1>6, <1>7, <1>8, <1>9, <1>10 DEF Next, Step
-----------------------------------------------------------------------------
(* A row has the outcome its status says.                                   *)
RowOK(j) ==
  /\ status[j] \in RowStatus
  /\ outcome[j] = CASE status[j] = "completed" -> Result(j)
                    [] status[j] = "failed" -> "error"
                    [] OTHER -> "none"

RowsOK ==
  /\ DOMAIN status = Jobs /\ status = [j \in Jobs |-> status[j]]
  /\ DOMAIN outcome = Jobs /\ outcome = [j \in Jobs |-> outcome[j]]
  /\ \A j \in Jobs : RowOK(j)

LEMMA InitRowsOK == Init => RowsOK
BY DEF Init, RowsOK, RowOK, RowStatus

LEMMA StepKeepsRowsOK ==
  ASSUME RowsOK, [Next]_vars
  PROVE  RowsOK'
<1>0. \A j : Result(j)' = Result(j)
  BY DEF Result
<1>1. CASE UNCHANGED <<status, outcome>>
  BY <1>0, <1>1 DEF RowsOK, RowOK, Result
<1>2. ASSUME NEW j \in Jobs, RowStep(j) PROVE RowsOK'
  BY <1>0, <1>2 DEF RowsOK, RowOK, RowStep, Settle, RowStatus, Open
<1>3. ASSUME NEW table \in {Reports, Generations}, Recover(table) PROVE RowsOK'
  BY <1>0, <1>3 DEF RowsOK, RowOK, Recover, RowStatus, Open
<1>4. QED
  BY <1>1, <1>2, <1>3, StepsOfRows DEF RowsStep
-----------------------------------------------------------------------------
TypeInv == TypeOK /\ RowsOK

Budgets == [crashes : 0 .. MaxCrashes, intruders : 0 .. MaxIntruders, faults : 0 .. MaxFaults]
Places == [Jobs -> {"none", "queued", "started", "working", "placed", "done", "lost"}]

LEMMA NamedTypes == TypeOK => worker \in Places /\ budget \in Budgets
BY DEF TypeOK, Places, Budgets

LEMMA EnqueueType ==
  ASSUME TypeOK, NEW j \in Jobs, Enqueue(j)
  PROVE  /\ worker' \in Places
         /\ queues' \in [{"reports", "insights"} -> Seq(Jobs)]
<1>1. Pool(j) \in {"reports", "insights"}
  BY DEF Pool
<1>2. queues[Pool(j)] \in Seq(Jobs)
  BY <1>1 DEF TypeOK
<1>3. Append(queues[Pool(j)], j) \in Seq(Jobs)
  BY <1>2, AppendProperties
<1>4. QED
  BY <1>1, <1>3 DEF Enqueue, TypeOK, Places

LEMMA FaultsType ==
  ASSUME TypeOK, NEW n \in Nat, Faults(n)
  PROVE  budget' \in Budgets
<1>1. budget \in Budgets /\ budget.faults \in 0 .. MaxFaults /\ MaxFaults \in Nat
  BY NamedTypes, ServerAssumption DEF Budgets
<1>2. budget.faults + n \in 0 .. MaxFaults
  <2>1. budget.faults + n <= MaxFaults /\ budget.faults \in Nat
    BY <1>1 DEF Faults
  <2> QED
    BY <1>1, <2>1
<1>3. QED
  BY <1>1, <1>2 DEF Faults, Budgets

LEMMA GiveUpType ==
  ASSUME TypeOK, NEW j \in Jobs, NEW errors \in Nat, GiveUp(j, errors)
  PROVE  /\ budget' \in Budgets
         /\ worker' \in Places
<1>1. budget' \in Budgets
  BY FaultsType DEF GiveUp
<1>2. QED
  BY <1>1 DEF GiveUp, TypeOK, Places

(* The next state is typed when each of its parts is.                       *)
LEMMA TypedParts ==
  ASSUME DOMAIN status' = Jobs, DOMAIN outcome' = Jobs,
         \A r \in Reports : <<status'[r], outcome'[r]>> \in ReportRow,
         \A g \in Generations : <<status'[g], outcome'[g]>> \in GenerationRow,
         worker' \in Places, queues' \in [{"reports", "insights"} -> Seq(Jobs)],
         files' \in [Reports -> SUBSET {"tmp", "pdf"}], sources' \in [Reports -> SUBSET Analyses],
         briefs' \in [Generations -> {"none", "saved", "deleted"}], runs' \in [Generations -> Nat],
         scans' \in [Scans -> ScanRow],
         history' \in [Analyses -> {"none", "running", "completed", "failed", "deleted"}],
         server' \in {"up", "reports", "insights", "down"}, service' \in BOOLEAN,
         budget' \in Budgets
  PROVE  TypeOK'
BY Zenon DEF TypeOK, Places, Budgets

LEMMA StepKeepsType ==
  ASSUME TypeInv, [Next]_vars
  PROVE  TypeInv'
<1> USE DEF TypeInv
<1>0. RowsOK'
  BY StepKeepsRowsOK
<1>1. /\ DOMAIN status' = Jobs /\ DOMAIN outcome' = Jobs
      /\ \A r \in Reports : <<status'[r], outcome'[r]>> \in ReportRow
      /\ \A g \in Generations : <<status'[g], outcome'[g]>> \in GenerationRow
  BY <1>0, ServerAssumption DEF RowsOK, RowOK, Result, Jobs, ReportRow, GenerationRow, RowStatus
<1>2. ASSUME NEW a \in Analyses, Analysis(a) PROVE TypeInv'
  BY <1>0, <1>1, <1>2 DEF Analysis, TypeOK, jobVars, dataVars, serverVars
<1>3. ASSUME NEW s \in Scans, Scan(s) PROVE TypeInv'
  BY <1>0, <1>1, <1>3 DEF Scan, CreateScan, CompleteScan, FailScan, ScanRow, TypeOK, jobVars, dataVars,
    serverVars
<1>4. CASE OpenService \/ Start
  BY <1>0, <1>1, <1>4 DEF OpenService, Start, TypeOK, dataVars, otherVars
<1>5. CASE OtherStart
  <2>1. budget \in Budgets /\ budget.intruders + 1 \in 0 .. MaxIntruders
    BY <1>5, NamedTypes, ServerAssumption DEF OtherStart, Budgets
  <2>2. budget' \in Budgets
    BY <1>5, <2>1 DEF OtherStart, Budgets
  <2>3. QED
    BY <1>0, <1>1, <1>5, <2>2 DEF OtherStart, TypeOK, Budgets, dataVars, otherVars
<1>6. ASSUME NEW r \in Reports, SubmitReport(r) PROVE TypeInv'
  <2>1. \A ids \in Sources : ids \subseteq Analyses
    BY DEF Sources, Latest, Completed
  <2>2. sources' \in [Reports -> SUBSET Analyses]
    BY <1>6, <2>1 DEF SubmitReport, TypeOK
  <2>3. worker' \in Places /\ queues' \in [{"reports", "insights"} -> Seq(Jobs)]
    BY <1>6, EnqueueType DEF SubmitReport, Jobs
  <2>4. UNCHANGED <<files, briefs, runs, scans, history, server, service, budget>>
    BY <1>6 DEF SubmitReport, otherVars, serverVars
  <2>5. /\ files' \in [Reports -> SUBSET {"tmp", "pdf"}]
        /\ briefs' \in [Generations -> {"none", "saved", "deleted"}]
        /\ runs' \in [Generations -> Nat]
        /\ scans' \in [Scans -> ScanRow]
        /\ history' \in [Analyses -> {"none", "running", "completed", "failed", "deleted"}]
        /\ server' \in {"up", "reports", "insights", "down"} /\ service' \in BOOLEAN
        /\ budget' \in Budgets
    BY <2>4, NamedTypes DEF TypeOK
  <2>6. TypeOK'
    BY <1>1, <2>2, <2>3, <2>5, TypedParts
  <2>7. QED
    BY <1>0, <2>6
<1>7. ASSUME NEW g \in Generations, Generate(g) \/ DeleteInsight(g) PROVE TypeInv'
  <2>1. CASE Generate(g)
    <3>1. worker' \in Places /\ queues' \in [{"reports", "insights"} -> Seq(Jobs)]
      BY <2>1, EnqueueType DEF Generate, Jobs
    <3>2. UNCHANGED <<dataVars, otherVars, serverVars>>
      BY <2>1 DEF Generate
    <3> QED
      BY <1>0, <1>1, <3>1, <3>2 DEF TypeOK, Places, dataVars, otherVars, serverVars
  <2>2. CASE DeleteInsight(g)
    BY <1>0, <1>1, <2>2 DEF DeleteInsight, TypeOK, jobVars, otherVars, serverVars
  <2> QED
    BY <1>7, <2>1, <2>2
<1>8. ASSUME NEW j \in Jobs, Take(j) PROVE TypeInv'
  <2>1. Pool(j) \in {"reports", "insights"} /\ queues[Pool(j)] \in Seq(Jobs)
    BY DEF Pool, TypeOK
  <2>2. queues' \in [{"reports", "insights"} -> Seq(Jobs)]
    BY <1>8, <2>1, HeadTailProperties DEF Take, TypeOK
  <2>3. budget' \in Budgets
    BY <1>8, FaultsType, NamedTypes DEF Take
  <2>4. worker' \in Places
        /\ runs' \in [Generations -> Nat]
    <3>1. runs \in [Generations -> Nat]
      BY DEF TypeOK
    <3>2. runs' \in [Generations -> Nat]
      <4>1. CASE runs' = runs
        BY <3>1, <4>1
      <4>2. CASE j \in Generations /\ runs' = [runs EXCEPT ![j] = runs[j] + 1]
        BY <3>1, <4>2
      <4>3. QED
        BY <1>8, <4>1, <4>2 DEF Take
    <3>3. QED
      BY <1>8, <3>2 DEF Take, TypeOK, Places
  <2>5. QED
    BY <1>0, <1>1, <1>8, <2>2, <2>3, <2>4 DEF Take, TypeOK, Places, Budgets, otherVars
<1>9. ASSUME NEW r \in Reports, Render(r) \/ Place(r) \/ CompleteReport(r) PROVE TypeInv'
  <2>1. files' \in [Reports -> SUBSET {"tmp", "pdf"}]
    <3>1. \E v \in SUBSET {"tmp", "pdf"} : files' = [files EXCEPT ![r] = v] \/ files' = files
      BY <1>9 DEF Render, Place, CompleteReport, TypeOK
    <3>2. files \in [Reports -> SUBSET {"tmp", "pdf"}]
      BY DEF TypeOK
    <3>3. QED
      BY <3>1, <3>2
  <2>2. /\ budget' \in Budgets
        /\ worker' \in Places
    BY <1>9, GiveUpType, NamedTypes DEF Render, Place, CompleteReport, TypeOK, Places, Jobs, serverVars
  <2>3. QED
    BY <1>0, <1>1, <1>9, <2>1, <2>2 DEF Render, Place, CompleteReport, TypeOK, Places,
      Budgets, otherVars, serverVars
<1>10. ASSUME NEW g \in Generations, MorningBrief(g) \/ CompleteGeneration(g) PROVE TypeInv'
  <2>1. briefs' \in [Generations -> {"none", "saved", "deleted"}]
    BY <1>10 DEF MorningBrief, SaveBrief, CompleteGeneration, TypeOK, dataVars
  <2>2. /\ budget' \in Budgets
        /\ worker' \in Places
    BY <1>10, GiveUpType, NamedTypes DEF MorningBrief, CompleteGeneration, TypeOK, Places, Jobs
  <2>3. QED
    BY <1>0, <1>1, <1>10, <2>1, <2>2 DEF MorningBrief, CompleteGeneration, TypeOK, Places,
      Budgets, otherVars, dataVars
<1>11. CASE Exit
  <2>1. queues' \in [{"reports", "insights"} -> Seq(Jobs)]
    BY <1>11, EmptySeq DEF Exit, TypeOK
  <2>2. worker' \in Places
    BY <1>11 DEF Exit, Places
  <2>3. budget' \in Budgets
    BY <1>11, NamedTypes, ServerAssumption DEF Exit, Budgets
  <2>4. QED
    BY <1>0, <1>1, <1>11, <2>1, <2>2, <2>3 DEF Exit, TypeOK, Places, Budgets, dataVars, otherVars
<1>12. CASE UNCHANGED vars
  BY <1>0, <1>1, <1>12 DEF vars, jobVars, dataVars, otherVars, serverVars, TypeOK
<1>13. QED
  BY <1>2, <1>3, <1>4, <1>5, <1>6, <1>7, <1>8, <1>9, <1>10, <1>11, <1>12 DEF Next, Step

LEMMA InitType == Init => TypeInv
<1> SUFFICES ASSUME Init PROVE TypeInv
  OBVIOUS
<1>1. RowsOK
  BY InitRowsOK
<1>2. queues \in [{"reports", "insights"} -> Seq(Jobs)]
  BY EmptySeq DEF Init
<1>3. budget \in Budgets
  BY ServerAssumption DEF Init, Budgets
<1>4. \A j \in Jobs : status[j] = "absent" /\ outcome[j] = "none"
  BY DEF Init
<1>5. /\ \A r \in Reports : <<status[r], outcome[r]>> \in ReportRow
      /\ \A g \in Generations : <<status[g], outcome[g]>> \in GenerationRow
  BY <1>4 DEF Jobs, ReportRow, GenerationRow, RowStatus
<1>6. QED
  BY <1>1, <1>2, <1>3, <1>5 DEF Init, TypeInv, TypeOK, Budgets, ScanRow

(* Every variable keeps its type, and a row has the outcome of its status.  *)
THEOREM ServerTypeCorrect == Spec => []TypeInv
<1>1. TypeInv /\ [Next]_vars => TypeInv'
  BY StepKeepsType
<1>2. QED
  BY <1>1, InitType, PTL DEF Spec
-----------------------------------------------------------------------------
(* Why a completed report has its file: only a thread at work touches the   *)
(* files of a report, and nothing works on a completed one.                 *)
FileOK(r) ==
  /\ worker[r] = "placed" => "pdf" \in files[r]
  /\ status[r] = "completed" =>
       "pdf" \in files[r] /\ worker[r] \notin {"started", "working", "placed"}

(* Why a generation runs once: its pipeline starts as its row leaves        *)
(* pending, which no row enters twice; a completed one saved its brief.     *)
BriefOK(g) ==
  /\ runs[g] <= 1
  /\ status[g] \in {"absent", "pending"} => runs[g] = 0
  /\ worker[g] = "working" \/ status[g] = "completed" => briefs[g] # "none"

DataOK == (\A r \in Reports : FileOK(r)) /\ (\A g \in Generations : BriefOK(g))

LEMMA InitDataOK == Init => DataOK
BY DEF Init, DataOK, FileOK, BriefOK, Jobs

(* A step that leaves the data and the threads alone only settles rows that *)
(* are open, and completes none.                                            *)
LEMMA OthersKeepDataOK ==
  ASSUME TypeInv, DataOK, UNCHANGED <<worker, files, runs>>,
         \A g \in Generations : briefs[g] # "none" => briefs'[g] # "none",
         \A j \in Jobs : \/ status'[j] = status[j]
                         \/ status[j] \in Open /\ status'[j] = "failed"
  PROVE  DataOK'
BY DEF DataOK, FileOK, BriefOK, Open, Jobs

LEMMA GiveUpKeeps ==
  ASSUME TypeInv, NEW j \in Jobs, NEW errors, GiveUp(j, errors)
  PROVE  /\ worker' \in {[worker EXCEPT ![j] = "done"], [worker EXCEPT ![j] = "lost"]}
         /\ \A k \in Jobs : k # j => status'[k] = status[k]
         /\ status'[j] = status[j] \/ (status[j] \in Open /\ status'[j] = "failed")
BY DEF GiveUp, Failed, Settle, TypeInv, TypeOK

LEMMA StepKeepsDataOK ==
  ASSUME TypeInv, DataOK, [Next]_vars
  PROVE  DataOK'
<1>0. /\ worker \in [Jobs -> {"none", "queued", "started", "working", "placed", "done", "lost"}]
      /\ DOMAIN status = Jobs
      /\ files \in [Reports -> SUBSET {"tmp", "pdf"}] /\ runs \in [Generations -> Nat]
      /\ briefs \in [Generations -> {"none", "saved", "deleted"}]
  BY DEF TypeInv, TypeOK
<1>1. ASSUME NEW a \in Analyses, Analysis(a) PROVE DataOK'
  BY <1>1, OthersKeepDataOK DEF Analysis, jobVars, dataVars
<1>2. ASSUME NEW s \in Scans, Scan(s) PROVE DataOK'
  BY <1>2, OthersKeepDataOK DEF Scan, jobVars, dataVars
<1>3. CASE OpenService \/ OtherStart \/ Start
  <2>1. UNCHANGED <<worker, files, runs, briefs>>
    BY <1>3 DEF OpenService, OtherStart, Start, dataVars
  <2>2. \A j \in Jobs : status'[j] = status[j] \/ (status[j] \in Open /\ status'[j] = "failed")
    BY <1>3 DEF OpenService, OtherStart, Start, Recover
  <2>3. QED
    BY <2>1, <2>2, OthersKeepDataOK
<1>4. ASSUME NEW r \in Reports, SubmitReport(r) PROVE DataOK'
  BY <1>0, <1>4 DEF SubmitReport, InsertReport, Enqueue, DataOK, FileOK, BriefOK, Jobs
<1>5. ASSUME NEW g \in Generations, Generate(g) PROVE DataOK'
  BY <1>0, <1>5 DEF Generate, InsertGeneration, Enqueue, dataVars, DataOK, FileOK, BriefOK, Jobs
<1>6. ASSUME NEW g \in Generations, DeleteInsight(g) PROVE DataOK'
  BY <1>0, <1>6, OthersKeepDataOK DEF DeleteInsight, jobVars
<1>7. ASSUME NEW j \in Jobs, Take(j) PROVE DataOK'
  <2>1. CASE /\ MarkRunning(j) /\ worker' = [worker EXCEPT ![j] = "started"]
             /\ runs' = IF j \in Generations THEN [runs EXCEPT ![j] = @ + 1] ELSE runs
    BY <1>0, <1>7, <2>1 DEF Take, MarkRunning, DataOK, FileOK, BriefOK, Jobs
  <2>2. CASE /\ worker' \in {[worker EXCEPT ![j] = "done"], [worker EXCEPT ![j] = "lost"]}
             /\ UNCHANGED <<status, runs>>
    BY <1>0, <1>7, <2>2 DEF Take, DataOK, FileOK, BriefOK, Jobs
  <2>3. QED
    BY <1>7, <2>1, <2>2 DEF Take
<1>8. ASSUME NEW r \in Reports, Render(r) PROVE DataOK'
  BY <1>0, <1>8, GiveUpKeeps, ServerAssumption DEF Render, DataOK, FileOK, BriefOK, Jobs, Open
<1>9. ASSUME NEW r \in Reports, Place(r) PROVE DataOK'
  BY <1>0, <1>9, ServerAssumption DEF Place, DataOK, FileOK, BriefOK, Jobs
<1>10. ASSUME NEW r \in Reports, CompleteReport(r) PROVE DataOK'
  <2>1. CASE /\ status[r] = "running" /\ Settle(r, "completed", "pdf")
             /\ worker' = [worker EXCEPT ![r] = "done"] /\ UNCHANGED files
    BY <1>0, <1>10, <2>1, ServerAssumption DEF CompleteReport, Settle, DataOK, FileOK, BriefOK, Jobs
  <2>2. CASE files' = [files EXCEPT ![r] = {}] /\ \E errors : GiveUp(r, errors)
    BY <1>0, <1>10, <2>2, GiveUpKeeps, ServerAssumption
    DEF CompleteReport, DataOK, FileOK, BriefOK, Jobs, Open
  <2>3. QED
    BY <1>10, <2>1, <2>2 DEF CompleteReport
<1>11. ASSUME NEW g \in Generations, MorningBrief(g) PROVE DataOK'
  BY <1>0, <1>11, GiveUpKeeps, ServerAssumption DEF MorningBrief, SaveBrief, DataOK, FileOK, BriefOK, Jobs, Open
<1>12. ASSUME NEW g \in Generations, CompleteGeneration(g) PROVE DataOK'
  <2>1. CASE GiveUp(g, 1)
    BY <1>0, <1>12, <2>1, GiveUpKeeps, ServerAssumption
    DEF CompleteGeneration, dataVars, DataOK, FileOK, BriefOK, Jobs, Open
  <2>2. CASE /\ worker' = [worker EXCEPT ![g] = "done"]
             /\ \/ status[g] = "running" /\ status' = [status EXCEPT ![g] = "completed"]
                \/ UNCHANGED status
    BY <1>0, <1>12, <2>2, ServerAssumption
    DEF CompleteGeneration, dataVars, DataOK, FileOK, BriefOK, Jobs
  <2>3. QED
    BY <1>12, <2>1, <2>2 DEF CompleteGeneration, Settle
<1>13. CASE Exit
  BY <1>0, <1>13 DEF Exit, dataVars, DataOK, FileOK, BriefOK, Jobs
<1>14. CASE UNCHANGED vars
  BY <1>14, OthersKeepDataOK DEF vars, jobVars, dataVars
<1>15. QED
  BY <1>1, <1>2, <1>3, <1>4, <1>5, <1>6, <1>7, <1>8, <1>9, <1>10, <1>11, <1>12, <1>13, <1>14
  DEF Next, Step

LEMMA DataInvariant == Spec => [](TypeInv /\ DataOK)
<1>1. Init => TypeInv /\ DataOK
  BY InitType, InitDataOK
<1>2. TypeInv /\ DataOK /\ [Next]_vars => (TypeInv /\ DataOK)'
  BY StepKeepsType, StepKeepsDataOK
<1>3. QED
  BY <1>1, <1>2, PTL DEF Spec

(* A report that is listed as completed can be downloaded, whatever stops   *)
(* between the file and its row, and whoever recovers the table             *)
(* (reporting/service.py, routes/reports.py).                               *)
THEOREM CompletedReportsDownload == Spec => []CompletedHasItsPdf
<1>1. TypeInv /\ DataOK => CompletedHasItsPdf
  BY DEF TypeInv, RowsOK, RowOK, Result, DataOK, FileOK, CompletedHasItsPdf, Download, Artifact, Jobs
<1>2. QED
  BY <1>1, DataInvariant, PTL

(* The pipeline of a generation_id runs once however often it is requested  *)
(* and however servers restart, and a completed generation saved its brief  *)
(* (routes/insights.py, morning_brief.py).                                  *)
THEOREM GenerationsRunOnce == Spec => []GeneratedOnce
<1>1. TypeInv /\ DataOK => GeneratedOnce
  BY DEF DataOK, BriefOK, GeneratedOnce
<1>2. QED
  BY <1>1, DataInvariant, PTL
-----------------------------------------------------------------------------
(* The refinement of the job register, for either table: the rows of one    *)
(* table as functions of their own.                                         *)
RowsOf(table) == [j \in table |-> status[j]]
OutcomesOf(table) == [j \in table |-> outcome[j]]

TableStep(table) ==
  \/ UNCHANGED <<RowsOf(table), OutcomesOf(table)>>
  \/ \E j \in table :
       \/ /\ RowsOf(table)[j] = "absent" /\ UNCHANGED OutcomesOf(table)
          /\ RowsOf(table)' = [RowsOf(table) EXCEPT ![j] = "pending"]
       \/ /\ RowsOf(table)[j] = "pending" /\ UNCHANGED OutcomesOf(table)
          /\ RowsOf(table)' = [RowsOf(table) EXCEPT ![j] = "running"]
       \/ /\ RowsOf(table)[j] = "running"
          /\ RowsOf(table)' = [RowsOf(table) EXCEPT ![j] = "completed"]
          /\ OutcomesOf(table)' = [OutcomesOf(table) EXCEPT ![j] = Result(j)]
       \/ /\ RowsOf(table)[j] \in Open
          /\ RowsOf(table)' = [RowsOf(table) EXCEPT ![j] = "failed"]
          /\ OutcomesOf(table)' = [OutcomesOf(table) EXCEPT ![j] = "error"]
  \/ /\ RowsOf(table)' = [j \in table |-> IF RowsOf(table)[j] \in Open THEN "failed"
                                                                     ELSE RowsOf(table)[j]]
     /\ OutcomesOf(table)' = [j \in table |-> IF RowsOf(table)[j] \in Open THEN "error"
                                                                        ELSE OutcomesOf(table)[j]]

LEMMA StepsOfTable ==
  ASSUME RowsOK, [Next]_vars, NEW table \in {Reports, Generations}
  PROVE  TableStep(table)
<1> DEFINE S == RowsOf(table)
           O == OutcomesOf(table)
<1>0. table \subseteq Jobs /\ DOMAIN status = Jobs /\ DOMAIN outcome = Jobs
  BY DEF Jobs, RowsOK
<1>1. CASE UNCHANGED <<status, outcome>>
  BY <1>1 DEF TableStep, RowsOf, OutcomesOf
<1>2. ASSUME NEW j \in Jobs, RowStep(j) PROVE TableStep(table)
  <2>1. CASE j \notin table
    <3>1. \A k \in table : status'[k] = status[k] /\ outcome'[k] = outcome[k]
      BY <1>0, <1>2, <2>1 DEF RowStep, Settle
    <3>2. QED
      BY <3>1 DEF TableStep, RowsOf, OutcomesOf
  <2>2. ASSUME j \in table, NEW s, status' = [status EXCEPT ![j] = s]
        PROVE  S' = [S EXCEPT ![j] = s] /\ S[j] = status[j]
    BY <1>0, <2>2 DEF RowsOf
  <2>3. ASSUME j \in table, NEW o, outcome' = [outcome EXCEPT ![j] = o]
        PROVE  O' = [O EXCEPT ![j] = o]
    BY <1>0, <2>3 DEF OutcomesOf
  <2>4. UNCHANGED outcome => UNCHANGED O
    BY DEF OutcomesOf
  <2>5. CASE j \in table
    BY <1>2, <2>2, <2>3, <2>4, <2>5 DEF RowStep, Settle, TableStep
  <2>6. QED
    BY <2>1, <2>5
<1>3. CASE Recover(table)
  <2>1. /\ S' = [j \in table |-> IF S[j] \in Open THEN "failed" ELSE S[j]]
        /\ O' = [j \in table |-> IF S[j] \in Open THEN "error" ELSE O[j]]
    BY <1>0, <1>3 DEF Recover, RowsOf, OutcomesOf
  <2>2. QED
    BY <2>1 DEF TableStep
<1>4. ASSUME NEW other \in {Reports, Generations}, other # table, Recover(other) PROVE TableStep(table)
  <2>1. \A k \in table : status'[k] = status[k] /\ outcome'[k] = outcome[k]
    BY <1>0, <1>4, ServerAssumption DEF Recover
  <2>2. QED
    BY <2>1 DEF TableStep, RowsOf, OutcomesOf
<1>5. QED
  BY <1>1, <1>2, <1>3, <1>4, StepsOfRows DEF RowsStep

LEMMA ReportTableRefines ==
  TableStep(Reports) => [ReportLifecycle!LifecycleNext]_(ReportLifecycle!lifecycleVars)
<1> USE DEF Result
<1>1. TableStep(Reports) => [ReportLifecycle!LifecycleNext]_<<RowsOf(Reports), OutcomesOf(Reports)>>
  <2> SUFFICES ASSUME TableStep(Reports)
               PROVE  [ReportLifecycle!LifecycleNext]_<<RowsOf(Reports), OutcomesOf(Reports)>>
    OBVIOUS
  <2> DEFINE S == RowsOf(Reports)
             O == OutcomesOf(Reports)
  <2>1. DOMAIN S = Reports /\ DOMAIN O = Reports
    BY DEF RowsOf, OutcomesOf
  <2>2. ASSUME NEW j \in Reports, S[j] = "absent", S' = [S EXCEPT ![j] = "pending"], O' = O
        PROVE  ReportLifecycle!CreateJob(j)
    BY <2>2 DEF ReportLifecycle!CreateJob, RowsOf, OutcomesOf
  <2>3. ASSUME NEW j \in Reports, S[j] = "pending", S' = [S EXCEPT ![j] = "running"], O' = O
        PROVE  ReportLifecycle!StartJob(j)
    BY <2>3 DEF ReportLifecycle!StartJob, RowsOf, OutcomesOf
  <2>4. ASSUME NEW j \in Reports, NEW o \in {"pdf", "error"}, O' = [O EXCEPT ![j] = o]
        PROVE  ReportLifecycle!SettlesWith(j)
    <3>1. O'[j] = o
      BY <2>1, <2>4
    <3>2. O'[j] \in {"pdf", "error"} /\ O' = [O EXCEPT ![j] = O'[j]]
      BY <2>4, <3>1
    <3>3. QED
      BY <3>2 DEF ReportLifecycle!SettlesWith, OutcomesOf
  <2>5. ASSUME NEW j \in Reports, S[j] = "running", S' = [S EXCEPT ![j] = "completed"],
               O' = [O EXCEPT ![j] = Result(j)]
        PROVE  ReportLifecycle!CompleteJob(j)
    BY <2>4, <2>5 DEF ReportLifecycle!CompleteJob, RowsOf
  <2>6. ASSUME NEW j \in Reports, S[j] \in Open, S' = [S EXCEPT ![j] = "failed"],
               O' = [O EXCEPT ![j] = "error"]
        PROVE  ReportLifecycle!FailJob(j)
    BY <2>4, <2>6 DEF ReportLifecycle!FailJob, ReportLifecycle!Open, Open, RowsOf
  <2>7. ASSUME S' = [j \in Reports |-> IF S[j] \in Open THEN "failed" ELSE S[j]],
               O' = [j \in Reports |-> IF S[j] \in Open THEN "error" ELSE O[j]]
        PROVE  ReportLifecycle!RecoverJobs
    <3>1. /\ \A j \in Reports : S[j] \in Open => O'[j] \in {"pdf", "error"}
          /\ O' = [j \in Reports |-> IF S[j] \in Open THEN O'[j] ELSE O[j]]
      BY <2>7
    <3>2. QED
      BY <2>7, <3>1 DEF ReportLifecycle!RecoverJobs, ReportLifecycle!Open, Open, RowsOf, OutcomesOf
  <2>8. QED
    BY <2>2, <2>3, <2>5, <2>6, <2>7 DEF TableStep, ReportLifecycle!LifecycleNext
<1>2. QED
  BY <1>1 DEF ReportLifecycle!lifecycleVars, RowsOf, OutcomesOf
LEMMA InsightTableRefines ==
  TableStep(Generations) => [InsightLifecycle!LifecycleNext]_(InsightLifecycle!lifecycleVars)
<1>0. \A g \in Generations : Result(g) = "brief"
  BY ServerAssumption DEF Result
<1>1. TableStep(Generations) => [InsightLifecycle!LifecycleNext]_<<RowsOf(Generations), OutcomesOf(Generations)>>
  <2> SUFFICES ASSUME TableStep(Generations)
               PROVE  [InsightLifecycle!LifecycleNext]_<<RowsOf(Generations), OutcomesOf(Generations)>>
    OBVIOUS
  <2> DEFINE S == RowsOf(Generations)
             O == OutcomesOf(Generations)
  <2>1. DOMAIN S = Generations /\ DOMAIN O = Generations
    BY DEF RowsOf, OutcomesOf
  <2>2. ASSUME NEW j \in Generations, S[j] = "absent", S' = [S EXCEPT ![j] = "pending"], O' = O
        PROVE  InsightLifecycle!CreateJob(j)
    BY <2>2 DEF InsightLifecycle!CreateJob, RowsOf, OutcomesOf
  <2>3. ASSUME NEW j \in Generations, S[j] = "pending", S' = [S EXCEPT ![j] = "running"], O' = O
        PROVE  InsightLifecycle!StartJob(j)
    BY <2>3 DEF InsightLifecycle!StartJob, RowsOf, OutcomesOf
  <2>4. ASSUME NEW j \in Generations, NEW o \in {"brief", "error"}, O' = [O EXCEPT ![j] = o]
        PROVE  InsightLifecycle!SettlesWith(j)
    <3>1. O'[j] = o
      BY <2>1, <2>4
    <3>2. O'[j] \in {"brief", "error"} /\ O' = [O EXCEPT ![j] = O'[j]]
      BY <2>4, <3>1
    <3>3. QED
      BY <3>2 DEF InsightLifecycle!SettlesWith, OutcomesOf
  <2>5. ASSUME NEW j \in Generations, S[j] = "running", S' = [S EXCEPT ![j] = "completed"],
               O' = [O EXCEPT ![j] = Result(j)]
        PROVE  InsightLifecycle!CompleteJob(j)
    BY <1>0, <2>4, <2>5 DEF InsightLifecycle!CompleteJob, RowsOf
  <2>6. ASSUME NEW j \in Generations, S[j] \in Open, S' = [S EXCEPT ![j] = "failed"],
               O' = [O EXCEPT ![j] = "error"]
        PROVE  InsightLifecycle!FailJob(j)
    BY <2>4, <2>6 DEF InsightLifecycle!FailJob, InsightLifecycle!Open, Open, RowsOf
  <2>7. ASSUME S' = [j \in Generations |-> IF S[j] \in Open THEN "failed" ELSE S[j]],
               O' = [j \in Generations |-> IF S[j] \in Open THEN "error" ELSE O[j]]
        PROVE  InsightLifecycle!RecoverJobs
    <3>1. /\ \A j \in Generations : S[j] \in Open => O'[j] \in {"brief", "error"}
          /\ O' = [j \in Generations |-> IF S[j] \in Open THEN O'[j] ELSE O[j]]
      BY <2>7
    <3>2. QED
      BY <2>7, <3>1 DEF InsightLifecycle!RecoverJobs, InsightLifecycle!Open, Open, RowsOf, OutcomesOf
  <2>8. QED
    BY <2>2, <2>3, <2>5, <2>6, <2>7 DEF TableStep, InsightLifecycle!LifecycleNext
<1>2. QED
  BY <1>1 DEF InsightLifecycle!lifecycleVars, RowsOf, OutcomesOf

(* Reports and generations keep the promise of the job tables: whatever     *)
(* workers, restarts, a second server and database errors do, a row settles *)
(* once, with its outcome in the same statement (store.py).                 *)
THEOREM BothTablesKeepTheirLifecycle == Spec => JobsKeepTheirLifecycle
<1>1. Init => ReportLifecycle!LifecycleInit /\ InsightLifecycle!LifecycleInit
  BY DEF Init, Jobs, ReportLifecycle!LifecycleInit, InsightLifecycle!LifecycleInit
<1>2. TypeInv /\ [Next]_vars => /\ [ReportLifecycle!LifecycleNext]_(ReportLifecycle!lifecycleVars)
                               /\ [InsightLifecycle!LifecycleNext]_(InsightLifecycle!lifecycleVars)
  BY StepsOfTable, ReportTableRefines, InsightTableRefines DEF TypeInv
<1>3. QED
  BY <1>1, <1>2, ServerTypeCorrect, PTL
  DEF Spec, JobsKeepTheirLifecycle, ReportLifecycle!LifecycleSpec, InsightLifecycle!LifecycleSpec
===============================================================================
