------------------------------- MODULE Broker -------------------------------
(***************************************************************************)
(* The mock broker: broker/engine.py with the checks of                    *)
(* broker/risk_checks.py, for one account.                                 *)
(*                                                                         *)
(* place_order, cancel_order and reset_account run to completion; on_bar   *)
(* visits the orders one at a time and each may fill, be rejected or wait, *)
(* spending the cash the next one is checked against.                      *)
(*                                                                         *)
(* Prices are positive integers.  Rates are integers over Scale, so a fill *)
(* price is an integer over Scale and money an integer over Scale * Scale: *)
(* the code's floats are taken as exact.                                   *)
(***************************************************************************)
EXTENDS Integers, Sequences, FiniteSets, FiniteSetsExt

CONSTANTS
  Tickers,        \* symbols
  Prices,         \* prices of bars
  Limits,         \* limit prices, which the order model does not validate
  Quantities,     \* order quantities (validated: positive)
  Clients,        \* pairs of strategy and client_order_id
  NoClient,       \* the empty client_order_id
  InitialCash,    \* initial_cash
  Scale,          \* denominator of the rates
  Commission,     \* commission_rate * Scale
  Slippage,       \* slippage_rate * Scale
  MaxPosition,    \* max_position_pct * Scale
  AllowShort,     \* allow_short
  NextOpen,       \* execution_timing = "next_open" (otherwise "close_bar")
  MaxOrders,      \* bound: orders of an account
  MaxBars         \* bound: calls of on_bar

ASSUME BrokerAssumption ==
  /\ IsFiniteSet(Tickers)
  /\ Prices \subseteq Nat \ {0} /\ Limits \subseteq Int
  /\ Quantities \subseteq Nat \ {0}
  /\ NoClient \notin Clients
  /\ InitialCash \in Nat /\ Scale \in Nat \ {0}
  /\ Commission \in 0 .. Scale /\ Slippage \in 0 .. Scale
  /\ MaxPosition \in Nat
  /\ AllowShort \in BOOLEAN /\ NextOpen \in BOOLEAN
  /\ MaxOrders \in Nat /\ MaxBars \in Nat

VARIABLES
  orders,  \* orders of the account in insertion order; an id is an index
  shares,  \* shares[t]: signed position, 0 when there is none
  cash,    \* cash, over Scale * Scale
  fills,   \* fills of the account
  events,  \* event_log of the account: pairs of event type and order
  marks,   \* marks[t]: close of the latest bar of t, 0 before the first one
  sweep,   \* the on_bar call in progress: its bars and the next order
  bars     \* calls of on_bar so far

account == <<orders, shares, cash, fills, events>>
brokerVars == <<orders, shares, cash, fills, events, marks, sweep, bars>>
-----------------------------------------------------------------------------
Status == {"NEW", "FILLED", "CANCELED", "REJECTED"}
Requests ==
  {r \in [ticker : Tickers, side : {"BUY", "SELL"}, type : {"MARKET", "LIMIT"},
          qty : Quantities, limit : Limits \union {0}, client : Clients \union {NoClient}] :
     IF r.type = "MARKET" THEN r.limit = 0 ELSE r.limit \in Limits}
Orders == [ticker : Tickers, side : {"BUY", "SELL"}, type : {"MARKET", "LIMIT"},
           qty : Quantities, limit : Limits \union {0}, client : Clients \union {NoClient},
           status : Status]
Stored(request) ==
  [ticker |-> request.ticker, side |-> request.side, type |-> request.type,
   qty |-> request.qty, limit |-> request.limit, client |-> request.client,
   status |-> "NEW"]

Bars == {b \in [open : Prices, high : Prices, low : Prices, close : Prices] :
           b.low <= b.open /\ b.low <= b.close /\ b.open <= b.high /\ b.close <= b.high}
EventTypes == {"order_placed", "order_filled", "order_canceled", "risk_check_failed",
               "order_rejected"}
Fill == [order : Nat \ {0}, price : Int, ticker : Tickers, signed : Int, fee : Int]
Event == EventTypes \X (Nat \ {0})
NewBars == UNION {[S -> Bars] : S \in SUBSET Tickers}
NoBars == [t \in {} |-> 0]
Idle == [bars |-> NoBars, next |-> 0]
Sweeping == sweep.next # 0

TypeOK ==
  /\ orders \in Seq(Orders)
  /\ shares \in [Tickers -> Int]
  /\ cash \in Int
  /\ fills \in Seq(Fill)
  /\ events \in Seq(Event)
  /\ marks \in [Tickers -> Prices \union {0}]
  /\ sweep \in [bars : NewBars, next : 0 .. Len(orders) + 1]
  /\ bars \in 0 .. MaxBars

NewAccount ==
  /\ orders = <<>> /\ fills = <<>> /\ events = <<>>
  /\ shares = [t \in Tickers |-> 0]
  /\ cash = InitialCash * Scale * Scale

BrokerInit ==
  /\ NewAccount
  /\ marks = [t \in Tickers |-> 0]
  /\ sweep = Idle
  /\ bars = 0
-----------------------------------------------------------------------------
(* Money.                                                                   *)
SideSign(o) == IF o.side = "BUY" THEN 1 ELSE -1
Signed(o) == SideSign(o) * o.qty
AbsInt(n) == IF n < 0 THEN -n ELSE n

(* Price of a fill over Scale: a market order slips against its side.       *)
FillPrice(o, ref) ==
  IF o.type = "MARKET" THEN ref * (Scale + SideSign(o) * Slippage) ELSE ref * Scale
Value(o, ref) == FillPrice(o, ref) * o.qty * Scale
Fee(o, ref) == FillPrice(o, ref) * o.qty * Commission
SlippageCost(o, ref) == AbsInt(FillPrice(o, ref) - ref * Scale) * o.qty * Scale

Equity ==
  cash + MapThenSumSet(LAMBDA t : shares[t] * marks[t] * Scale * Scale, Tickers)
-----------------------------------------------------------------------------
(* PreTradeRiskChecker.check against the reference price ref.               *)
LimitIsPositive(o) == o.type = "LIMIT" => o.limit > 0
Covered(o) == o.side = "SELL" /\ ~ AllowShort => o.qty <= shares[o.ticker]
Affordable(o, ref) == o.side = "BUY" => Value(o, ref) + Fee(o, ref) <= cash

ProjectedEquity(o, ref) == Equity - Fee(o, ref) - SlippageCost(o, ref)
WithinCap(o, ref) ==
  ProjectedEquity(o, ref) > 0 =>
    AbsInt(shares[o.ticker] + Signed(o)) * ref * Scale * Scale * Scale
      <= MaxPosition * ProjectedEquity(o, ref)

(* Mutant: a sell is not compared with the shares held. *)
PassedUncovered(o, ref) ==
  LimitIsPositive(o) /\ Affordable(o, ref) /\ WithinCap(o, ref)
(* Mutant: the cap is compared with the equity before costs. *)
PassedBeforeCosts(o, ref) ==
  /\ LimitIsPositive(o) /\ Covered(o) /\ Affordable(o, ref)
  /\ AbsInt(shares[o.ticker] + Signed(o)) * ref * Scale * Scale * Scale
       <= MaxPosition * Equity

Passed(o, ref) ==
  LimitIsPositive(o) /\ Covered(o) /\ Affordable(o, ref) /\ WithinCap(o, ref)
-----------------------------------------------------------------------------
(* What becomes of order i, given the orders and events before it.  Each    *)
(* change of an order is recorded in the event log.                         *)
SetStatus(os, i, status) == [os EXCEPT ![i].status = status]
Recorded(es, type, i) == Append(es, <<type, i>>)

Reject(i, os, es) ==
  /\ orders' = SetStatus(os, i, "REJECTED")
  /\ events' = Recorded(Recorded(es, "risk_check_failed", i), "order_rejected", i)
  /\ UNCHANGED <<shares, cash, fills>>

ExecuteFill(i, ref, os, es) ==
  LET o == os[i] IN
    /\ shares' = [shares EXCEPT ![o.ticker] = @ + Signed(o)]
    /\ cash' = cash - SideSign(o) * Value(o, ref) - Fee(o, ref)
    /\ fills' = Append(fills, [order |-> i, price |-> FillPrice(o, ref), ticker |-> o.ticker,
                               signed |-> Signed(o), fee |-> Fee(o, ref)])
    /\ orders' = SetStatus(os, i, "FILLED")
    /\ events' = Recorded(es, "order_filled", i)

(* Mutant: an accepted order is not checked again when it executes. *)
FillUnchecked(i, ref, os, es) == ExecuteFill(i, ref, os, es)

CheckAndFill(i, ref, os, es) ==
  \/ Passed(os[i], ref) /\ ExecuteFill(i, ref, os, es)
  \/ ~ Passed(os[i], ref) /\ Reject(i, os, es)
-----------------------------------------------------------------------------
(* place_order.  A client order id already used returns the order it names  *)
(* and changes nothing.                                                     *)
Known(request) ==
  request.client # NoClient /\ \E i \in DOMAIN orders : orders[i].client = request.client

PlaceOrder(request) ==
  LET o == Stored(request)
      i == Len(orders) + 1
      os == Append(orders, o)
      es == Recorded(events, "order_placed", i)
      ref == marks[o.ticker]
  IN /\ ~ Sweeping /\ Len(orders) < MaxOrders
     /\ ~ Known(request)
     /\ \/ /\ o.type = "MARKET" /\ NextOpen
           /\ orders' = os /\ events' = es
           /\ UNCHANGED <<shares, cash, fills>>
        \/ /\ o.type = "LIMIT" \/ ~ NextOpen
           /\ ref = 0
           /\ Reject(i, os, es)
        \/ /\ o.type = "LIMIT" /\ ref # 0
           /\ \/ /\ Passed(o, ref)
                 /\ orders' = os /\ events' = es
                 /\ UNCHANGED <<shares, cash, fills>>
              \/ ~ Passed(o, ref) /\ Reject(i, os, es)
        \/ /\ o.type = "MARKET" /\ ~ NextOpen /\ ref # 0
           /\ CheckAndFill(i, ref, os, es)
     /\ UNCHANGED <<marks, sweep, bars>>

(* Mutant: any order can be canceled. *)
CancelAnyOrder(i) ==
  /\ ~ Sweeping
  /\ orders' = SetStatus(orders, i, "CANCELED")
  /\ events' = Recorded(events, "order_canceled", i)
  /\ UNCHANGED <<shares, cash, fills, marks, sweep, bars>>

CancelOrder(i) ==
  /\ ~ Sweeping
  /\ orders[i].status = "NEW"
  /\ orders' = SetStatus(orders, i, "CANCELED")
  /\ events' = Recorded(events, "order_canceled", i)
  /\ UNCHANGED <<shares, cash, fills, marks, sweep, bars>>

(* reset_account forgets the account; the latest bars stay. *)
ResetAccount ==
  /\ ~ Sweeping /\ orders # <<>>
  /\ orders' = <<>> /\ fills' = <<>> /\ events' = <<>>
  /\ shares' = [t \in Tickers |-> 0]
  /\ cash' = InitialCash * Scale * Scale
  /\ UNCHANGED <<marks, sweep, bars>>
-----------------------------------------------------------------------------
(* on_bar.  Under next_open the account is marked at the opens while orders *)
(* are visited and at the closes afterwards.                                *)
OnBarBegin(newBars) ==
  /\ ~ Sweeping /\ bars < MaxBars
  /\ DOMAIN newBars # {}
  /\ bars' = bars + 1
  /\ sweep' = [bars |-> newBars, next |-> 1]
  /\ marks' = [t \in Tickers |->
                 IF t \notin DOMAIN newBars THEN marks[t]
                 ELSE IF NextOpen THEN newBars[t].open ELSE newBars[t].close]
  /\ UNCHANGED account

Triggered(o, bar) ==
  IF o.side = "BUY" THEN bar.low <= o.limit ELSE bar.high >= o.limit

Due(o) ==
  /\ o.status = "NEW" /\ o.ticker \in DOMAIN sweep.bars
  /\ \/ o.type = "MARKET" /\ NextOpen
     \/ o.type = "LIMIT" /\ Triggered(o, sweep.bars[o.ticker])

ExecutionPrice(o) == IF o.type = "MARKET" THEN sweep.bars[o.ticker].open ELSE o.limit

OnBarOrder ==
  LET i == sweep.next IN
    /\ i \in DOMAIN orders
    /\ \/ Due(orders[i]) /\ CheckAndFill(i, ExecutionPrice(orders[i]), orders, events)
       \/ ~ Due(orders[i]) /\ UNCHANGED account
    /\ sweep' = [sweep EXCEPT !.next = @ + 1]
    /\ UNCHANGED <<marks, bars>>

OnBarEnd ==
  /\ Sweeping /\ sweep.next = Len(orders) + 1
  /\ marks' = [t \in Tickers |->
                 IF t \in DOMAIN sweep.bars THEN sweep.bars[t].close ELSE marks[t]]
  /\ sweep' = Idle
  /\ UNCHANGED <<account, bars>>

OnBar ==
  \/ \E newBars \in NewBars : OnBarBegin(newBars)
  \/ OnBarOrder
  \/ OnBarEnd

BrokerNext ==
  \/ \E request \in Requests : PlaceOrder(request)
  \/ \E i \in DOMAIN orders : CancelOrder(i)
  \/ ResetAccount
  \/ OnBar

BrokerSpec == BrokerInit /\ [][BrokerNext]_brokerVars
-----------------------------------------------------------------------------
(* Correctness.                                                             *)

(* No sequence of orders overdraws the account: orders wait without any     *)
(* cash reserved for them, each was affordable when it was placed, and what *)
(* the check estimates is what the fill then takes.                         *)
CashNeverNegative == cash >= 0

(* When short selling is disabled no position is ever short, although       *)
(* several sells of the same shares may wait together.                      *)
NoShortPositions == ~ AllowShort => \A t \in Tickers : shares[t] >= 0

(* A retried placement never creates a second order for its client id.      *)
OneOrderPerClient ==
  \A i, k \in DOMAIN orders :
    orders[i].client # NoClient /\ orders[i].client = orders[k].client => i = k

(* A settled order never changes again, however many bars, cancellations    *)
(* and placements follow.                                                   *)
SettledForever ==
  [][\A i \in DOMAIN orders :
       orders[i].status # "NEW" /\ i \in DOMAIN orders' => orders'[i] = orders[i]]_brokerVars

(* A market fill leaves the position within max_position_pct of the equity  *)
(* that remains after its costs, at the price the account is marked at.     *)
NewFill == fills'[Len(fills')]
CapHoldsAfterMarketFill ==
  [][Len(fills') > Len(fills) /\ orders'[NewFill.order].type = "MARKET" /\ Equity' > 0 =>
       AbsInt(shares'[NewFill.ticker]) * marks'[NewFill.ticker] * Scale * Scale * Scale
         <= MaxPosition * Equity']_brokerVars
=============================================================================
