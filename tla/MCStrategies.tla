---------------------------- MODULE MCStrategies ----------------------------
(* Instances of Strategies for TLC. *)
EXTENDS Strategies, TLC

Symmetry == Permutations(Jobs)
Quant == [status |-> "draft", type |-> "quant", rule |-> "momentum", target |-> 50, cap |-> 80,
          complete |-> TRUE]
MCConfigs == {Quant, [Quant EXCEPT !.type = "agent", !.rule = "none", !.target = 0],
              [Quant EXCEPT !.target = 100]}
MCUpdates == {[cap |-> 20], [target |-> 20, cap |-> 20], [type |-> "quant"], [type |-> "hitl"],
              [rule |-> "sma_crossover", target |-> 50], [status |-> "archived"],
              [status |-> "active", complete |-> FALSE]}
=============================================================================
