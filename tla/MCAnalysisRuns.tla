---------------------------- MODULE MCAnalysisRuns ----------------------------
EXTENDS AnalysisRuns, TLC

(* The thresholds are 20 and 30 per cent: below, between and above them, and *)
(* a short target.                                                           *)
MCTargets == {-30, 0, 25, 40}
MCPositions == {0, 40}
=============================================================================
