------------------------------ MODULE TargetRun ------------------------------
(***************************************************************************)
(* A typed backtest over the broker: the bar loop of                       *)
(* broker/backtest_runner.py with decisions that are target positions.     *)
(*                                                                         *)
(* A decision taken at the close of one bar becomes an intent; at the open *)
(* of the next bar the intent is turned into a whole number of shares,     *)
(* placed as a market order, and filled by the broker's on_bar.  The       *)
(* broker runs with next_open timing and without short selling, on one     *)
(* ticker and on an account reset for the run.                             *)
(***************************************************************************)
EXTENDS Broker

CONSTANTS
  Ticker,    \* the ticker of the run
  Targets    \* target positions a decision may ask for, over Scale

ASSUME RunAssumption ==
  /\ Tickers = {Ticker} /\ NextOpen /\ ~ AllowShort
  /\ Targets \subseteq Nat
  /\ MaxPosition <= Scale
  \* a sale brings more than it costs, so the divisor of the sell formula is positive
  /\ Slippage * Scale + (Scale - Slippage) * Commission < Scale * Scale

VARIABLES
  phase,     \* where the loop over the bars is
  today,     \* the row of the frame being processed
  intent,    \* pending_intent: the target and the bar that signalled it
  placed,    \* the placement of this bar: its target and order (0 without one)
  signals    \* signals[i]: bar whose decision placed order i

runVars == <<phase, today, intent, placed, signals>>
vars == <<brokerVars, runVars>>
-----------------------------------------------------------------------------
(* Only market orders are placed, so the high and low of a row do not matter. *)
Row(o, c) ==
  [open |-> o, close |-> c, high |-> IF o < c THEN c ELSE o, low |-> IF o < c THEN o ELSE c]
SomePrice == CHOOSE p \in Prices : TRUE
NoIntent == [target |-> 0, bar |-> 0]
NoPlacement == [target |-> -1, order |-> 0]
Phases == {"open", "sweep", "close", "done", "failed"}

RunTypeOK ==
  /\ phase \in Phases
  /\ today \in Bars
  /\ intent \in [target : Nat, bar : 0 .. MaxBars]
  /\ placed \in [target : Nat \union {-1}, order : Nat]
  /\ signals \in Seq(1 .. MaxBars)

RunInit ==
  /\ BrokerInit
  /\ phase = "open"
  /\ today = Row(SomePrice, SomePrice)
  /\ intent = NoIntent
  /\ placed = NoPlacement
  /\ signals = <<>>
-----------------------------------------------------------------------------
(* _place_pending_target_order: the shares to hold after the open p.        *)
Held == shares[Ticker]
PrefillEquity(p) == cash + Held * p * Scale * Scale
SharePrice(p) == p * Scale * Scale
BuyCost(p) == p * Slippage * Scale + p * (Scale + Slippage) * Commission
SellCost(p) == p * Slippage * Scale + p * (Scale - Slippage) * Commission

UncostedShares(p, target) ==
  (PrefillEquity(p) * target) \div (Scale * SharePrice(p))
Affordable1(p) == cash \div (p * (Scale + Slippage) * (Scale + Commission))

BuyShares(p, target) ==
  (target * (PrefillEquity(p) + Held * BuyCost(p)))
    \div (Scale * SharePrice(p) + target * BuyCost(p))
SellShares(p, target) ==
  (target * (PrefillEquity(p) - Held * SellCost(p)))
    \div (Scale * SharePrice(p) - target * SellCost(p))

Least(m, n) == IF m < n THEN m ELSE n
Most(m, n) == IF m < n THEN n ELSE m

(* Mutant: the shares are sized without the costs of the trade. *)
DesiredUncosted(p, target) == UncostedShares(p, target)

(* Mutant: a purchase is sized with the formula of a sale. *)
DesiredAsSale(p, target) ==
  LET desired == Most(0, SellShares(p, target)) IN
    IF desired > Held THEN Least(desired, Held + Affordable1(p)) ELSE desired

Desired(p, target) ==
  LET sized == IF UncostedShares(p, target) >= Held
                 THEN BuyShares(p, target) ELSE SellShares(p, target)
      desired == Most(0, sized)
  IN IF desired > Held THEN Least(desired, Held + Affordable1(p)) ELSE desired

MarketRequest(delta) ==
  [ticker |-> Ticker, side |-> IF delta > 0 THEN "BUY" ELSE "SELL", type |-> "MARKET",
   qty |-> AbsInt(delta), limit |-> 0, client |-> NoClient]
-----------------------------------------------------------------------------
(* historical_order_submission: the order carries the date of its signal.   *)
Submitted == signals' = Append(signals, intent.bar)

(* Mutant: the intent is not cleared once it has been placed. *)
ConsumeNothing == UNCHANGED intent

Consume == intent' = NoIntent

(* A row is read and the intent of the previous decision, if any, becomes   *)
(* an order, unless the shares held are already the shares wanted.          *)
OpenBar ==
  /\ phase = "open" /\ bars < MaxBars
  /\ \E o, c \in Prices :
       LET delta == Desired(o, intent.target) - Held IN
         /\ today' = Row(o, c)
         /\ IF intent = NoIntent \/ delta = 0
              THEN /\ UNCHANGED <<brokerVars, signals>>
                   /\ placed' = IF intent = NoIntent THEN NoPlacement
                                ELSE [target |-> intent.target, order |-> 0]
              ELSE /\ PlaceOrder(MarketRequest(delta))
                   /\ Submitted
                   /\ placed' = [target |-> intent.target, order |-> Len(orders) + 1]
  /\ Consume
  /\ phase' = "sweep"

Sweep ==
  /\ phase = "sweep"
  /\ \/ ~ Sweeping /\ OnBarBegin([t \in {Ticker} |-> today]) /\ UNCHANGED phase
     \/ OnBarOrder /\ UNCHANGED phase
     \/ OnBarEnd /\ phase' = "close"
  /\ UNCHANGED <<today, intent, placed, signals>>

(* _decision_dates: the last bar is never a decision date; which of the     *)
(* others are depends on the frequency.                                     *)
CanDecide == bars < MaxBars

(* The end of a bar: a decision whose target is within the limit becomes    *)
(* the intent; one that is not ends the run.                                *)
CloseBar ==
  /\ phase = "close"
  /\ \/ /\ phase' = IF bars = MaxBars THEN "done" ELSE "open"
        /\ UNCHANGED intent
     \/ /\ CanDecide
        /\ \E target \in Targets :
             \/ /\ target <= MaxPosition
                /\ intent' = [target |-> target, bar |-> bars]
                /\ phase' = IF bars = MaxBars THEN "done" ELSE "open"
             \/ /\ target > MaxPosition
                /\ phase' = "failed"
                /\ UNCHANGED intent
  /\ UNCHANGED <<brokerVars, today, placed, signals>>

RunNext == OpenBar \/ Sweep \/ CloseBar

RunSpec == RunInit /\ [][RunNext]_vars
-----------------------------------------------------------------------------
(* Correctness.                                                             *)

(* The runner sizes with formulas of its own and the broker checks with     *)
(* others: the broker never rejects an order the runner sized.              *)
SizedOrdersFill == \A i \in DOMAIN orders : orders[i].status \in {"NEW", "FILLED"}

(* The order of a decision exists for one bar only, the one after its       *)
(* signal: it is neither executed at the prices it was decided on nor kept. *)
ExecutedOnTheNextBar ==
  \A i \in DOMAIN orders :
    orders[i].status = "NEW" =>
      phase = "sweep" /\ signals[i] = IF Sweeping THEN bars - 1 ELSE bars

(* The point of a bar where the intent has been executed at the open.       *)
Executed == Sweeping /\ sweep.next = Len(orders) + 1 /\ placed # NoPlacement

(* Costs included, the position is then not above the target, and no whole  *)
(* share more would do: to hold one more after a purchase breaks the target *)
(* or the cash, to sell one less breaks the target.                         *)
SoldToReach == placed.order # 0 /\ orders[placed.order].side = "SELL"
OneMoreBought ==
  /\ today.open * (Scale + Slippage) * (Scale + Commission) <= cash
  /\ (Held + 1) * SharePrice(today.open) * Scale
       <= placed.target * (Equity - BuyCost(today.open))
OneLessSold ==
  (Held + 1) * SharePrice(today.open) * Scale
    <= placed.target * (Equity + SellCost(today.open))
TargetReachedFromBelow ==
  Executed =>
    /\ Held * SharePrice(today.open) * Scale <= placed.target * Equity
    /\ IF SoldToReach THEN ~ OneLessSold ELSE ~ OneMoreBought
=============================================================================
