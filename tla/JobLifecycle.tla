---------------------------- MODULE JobLifecycle ----------------------------
(***************************************************************************)
(* What the durable job tables of storage/store.py promise (backtest_jobs, *)
(* report_jobs, insight_generations): a row is created pending, may start, *)
(* and settles once, as completed or failed, with an outcome that is       *)
(* written in the same statement and never changes again.  Startup         *)
(* recovery settles every open row at once.  The detailed job modules      *)
(* implement this specification.                                           *)
(***************************************************************************)
CONSTANTS
  Jobs,      \* identifiers of jobs
  Outcomes,  \* results and errors a job can settle with
  NoOutcome  \* the outcome of a job that has not settled

VARIABLES
  status,    \* status[j]: the persisted status of job j
  outcome    \* outcome[j]: the persisted result or error of job j

lifecycleVars == <<status, outcome>>

Open == {"pending", "running"}
Settled == {"completed", "failed"}
Statuses == {"absent"} \union Open \union Settled

LifecycleTypeOK ==
  /\ status \in [Jobs -> Statuses]
  /\ outcome \in [Jobs -> Outcomes \union {NoOutcome}]

LifecycleInit ==
  /\ status = [j \in Jobs |-> "absent"]
  /\ outcome = [j \in Jobs |-> NoOutcome]

CreateJob(j) ==
  /\ status[j] = "absent"
  /\ status' = [status EXCEPT ![j] = "pending"]
  /\ UNCHANGED outcome

StartJob(j) ==
  /\ status[j] = "pending"
  /\ status' = [status EXCEPT ![j] = "running"]
  /\ UNCHANGED outcome

(* Only j settles, with some outcome. *)
SettlesWith(j) ==
  /\ outcome'[j] \in Outcomes
  /\ outcome' = [outcome EXCEPT ![j] = outcome'[j]]

CompleteJob(j) ==
  /\ status[j] = "running"
  /\ status' = [status EXCEPT ![j] = "completed"]
  /\ SettlesWith(j)

FailJob(j) ==
  /\ status[j] \in Open
  /\ status' = [status EXCEPT ![j] = "failed"]
  /\ SettlesWith(j)

RecoverJobs ==
  /\ status' = [j \in Jobs |-> IF status[j] \in Open THEN "failed" ELSE status[j]]
  /\ \A j \in Jobs : status[j] \in Open => outcome'[j] \in Outcomes
  /\ outcome' = [j \in Jobs |-> IF status[j] \in Open THEN outcome'[j] ELSE outcome[j]]

LifecycleNext ==
  \/ \E j \in Jobs : CreateJob(j) \/ StartJob(j) \/ CompleteJob(j) \/ FailJob(j)
  \/ RecoverJobs

LifecycleSpec == LifecycleInit /\ [][LifecycleNext]_lifecycleVars

(* A settled job keeps its status and its outcome for ever. *)
SettledOnce ==
  [][\A j \in Jobs : status[j] \in Settled
       => status'[j] = status[j] /\ outcome'[j] = outcome[j]]_lifecycleVars

(* A job that has settled has one of the outcomes, any other has none.      *)
OutcomeWhenSettled ==
  \A j \in Jobs :
    IF status[j] \in Settled THEN outcome[j] \in Outcomes ELSE outcome[j] = NoOutcome
=============================================================================
