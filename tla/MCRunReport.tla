----------------------------- MODULE MCRunReport -----------------------------
(* Instances of TargetRun and RunReport for TLC. *)
EXTENDS RunReport

MCPrices == 1 .. 3
MCTargets == {0, 3, 5, 9, 10}
MCQuantities == 1 .. 20
=============================================================================
