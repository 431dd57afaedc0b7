---------------------------- MODULE BacktestPolicy ----------------------------
(***************************************************************************)
(* What a frozen policy asks for and decides (agent/backtest_policy.py,    *)
(* agent/backtest_policy_executor.py).  Percentages are integers, and the  *)
(* averages and ratios of closes are compared without their divisions.     *)
(***************************************************************************)
EXTENDS Integers, Sequences, Functions, FiniteSetsExt

(* A frozen policy: its windows and thresholds are 0 where its rule has none.*)
Policy == [mode : {"deterministic", "agent_experiment"},
           rule : {"none", "momentum", "sma_crossover"}, target : 0 .. 100,
           lookback : Nat, fast : Nat, slow : Nat, entry : Int, exit : Int]

(* required_lookback_bars: the bars loaded before the evaluation window.    *)
RequiredBars(spec) ==
  IF spec.mode = "agent_experiment" THEN 0
  ELSE IF spec.rule = "momentum" THEN spec.lookback ELSE spec.slow

(* Mutant: one close more is asked for than is loaded. *)
MinimumClosesMore(spec) ==
  IF spec.mode = "agent_experiment" THEN 1
  ELSE IF spec.rule = "momentum" THEN spec.lookback + 2 ELSE spec.slow + 2

(* minimum_close_count: the closes a decision needs.                        *)
MinimumCloses(spec) ==
  IF spec.mode = "agent_experiment" THEN 1
  ELSE IF spec.rule = "momentum" THEN spec.lookback + 1 ELSE spec.slow

SumOfLast(closes, n) ==
  FoldFunctionOnSet(LAMBDA x, y : x + y, 0, closes, Len(closes) - n + 1 .. Len(closes))

(* _momentum_target: between the thresholds the last target is kept.        *)
MomentumTarget(spec, closes, last) ==
  LET base == closes[Len(closes) - spec.lookback]
      change == 100 * closes[Len(closes)] - 100 * base
  IN IF change >= spec.entry * base THEN spec.target
     ELSE IF change <= spec.exit * base THEN 0
     ELSE Min({last, spec.target})

(* _sma_target: the averages are compared without their division.           *)
SmaTarget(spec, closes) ==
  IF SumOfLast(closes, spec.fast) * spec.slow > SumOfLast(closes, spec.slow) * spec.fast
  THEN spec.target ELSE 0

PolicyTarget(spec, closes, last) ==
  IF spec.rule = "momentum" THEN MomentumTarget(spec, closes, last) ELSE SmaTarget(spec, closes)
=============================================================================
