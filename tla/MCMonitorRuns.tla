---------------------------- MODULE MCMonitorRuns ----------------------------
(* Instances of MonitorRuns for TLC. *)
EXTENDS MonitorRuns, TLC

Symmetry == Permutations(Manual) \union Permutations(Cron) \union Permutations(Polled)
=============================================================================
