-------------------------- MODULE MCWatchlistAlerts --------------------------
(* Instances of WatchlistAlerts for TLC. *)
EXTENDS WatchlistAlerts, TLC

Symmetry == Permutations(Checks)
=============================================================================
