-------------------------- MODULE MCBacktestInputs --------------------------
(* Instances of BacktestInputs for TLC. *)
EXTENDS BacktestInputs

Symmetry == Permutations(Jobs)
MCListings == {[T |-> 1, B |-> 1], [T |-> 3, B |-> 1]}
MCPairs == {<<"T", "B">>}
MCRevisions ==
  << [T |-> <<1, 1, 2, 2, 1, 1>>, B |-> <<1, 1, 1, 1, 1, 1>>],
     [T |-> <<1, 1, 2, 2, 4, 1>>, B |-> <<1, 1, 1, 1, 1, 1>>] >>
(* The shortest windows the code accepts. *)
Momentum == [mode |-> "deterministic", rule |-> "momentum", target |-> 50,
             lookback |-> 2, fast |-> 0, slow |-> 0, entry |-> 50, exit |-> -60]
MCPolicies == {Momentum, [Momentum EXCEPT !.rule = "sma_crossover", !.fast = 2, !.slow = 3],
                [Momentum EXCEPT !.mode = "agent_experiment", !.rule = "none"]}
=============================================================================
