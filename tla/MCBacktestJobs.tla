--------------------------- MODULE MCBacktestJobs ---------------------------
(* Instances of BacktestJobs for TLC. *)
EXTENDS BacktestJobs, TLC

Symmetry == Permutations(Jobs) \union Permutations(Snapshots)
=============================================================================
