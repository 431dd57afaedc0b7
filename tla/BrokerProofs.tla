---------------------------- MODULE BrokerProofs ----------------------------
(***************************************************************************)
(* Theorems about Broker, and about the typed backtest that runs on it.    *)
(*                                                                         *)
(* The first part is about the broker by itself, under any sequence of     *)
(* requests: its types, the cash, the positions, the order book and the    *)
(* cap on a position.  The second is about TargetRun: an order the runner  *)
(* sized lives for one bar, passes the checks of the broker and leaves the *)
(* position at its target.  The invariant of the first does not carry over *)
(* to the second, where quantities are computed and not members of         *)
(* Quantities.  The third is about RunReport: its decisions and what they  *)
(* came to account for one another, its figures are right, and its ledger  *)
(* says of the fills what books kept of the same fills say.                *)
(*                                                                         *)
(* Everything holds for all prices, targets, quantities and rates that the *)
(* assumptions allow.                                                      *)
(***************************************************************************)
EXTENDS RunReport, SequenceTheorems, FiniteSetTheorems, TLAPS

EventSeq == Seq(EventTypes \X (Nat \ {0}))

-----------------------------------------------------------------------------
(* Arithmetic.                                                              *)

(* The product of two natural numbers is one. *)
LEMMA ProductNat == ASSUME NEW m \in Nat, NEW n \in Nat PROVE m * n \in Nat
  BY SMT

(* A larger rate of the same amount is a larger sum. *)
LEMMA ProductMonotone ==
  ASSUME NEW a \in Nat, NEW m \in Nat, NEW n \in Nat, m <= n
  PROVE  a * m <= a * n
<1>1. a * (n - m) \in Nat
  BY ProductNat, SMT
<1>2. a * (n - m) = a * n - a * m
  BY SMT
<1> QED
  BY <1>1, <1>2, SMT

(* Prices are natural numbers and limits are integers. *)
LEMMA PricesAreNumbers ==
  /\ \A p \in Prices : p \in Nat
  /\ \A p \in Prices \union {0} : p \in Nat
  /\ \A l \in Limits \union {0} : l \in Int
<1>1. Prices \subseteq Nat
  BY BrokerAssumption
<1>2. Limits \subseteq Int
  BY BrokerAssumption
<1> QED
  BY <1>1, <1>2

(* The money of a fill is a whole number of units. *)
LEMMA MoneyTypes ==
  ASSUME NEW o \in Orders, NEW ref \in Int
  PROVE  /\ SideSign(o) \in {1, -1}
         /\ Signed(o) \in Int
         /\ FillPrice(o, ref) \in Int
         /\ Value(o, ref) \in Int
         /\ Fee(o, ref) \in Int
<1> USE BrokerAssumption
<1>1. SideSign(o) \in {1, -1} /\ o.qty \in Nat
  BY DEF SideSign, Orders
<1>2. Signed(o) \in Int
  BY <1>1, SMT DEF Signed
<1>3. FillPrice(o, ref) \in Int
  <2>1. Scale + SideSign(o) * Slippage \in Int /\ Scale \in Int
    BY <1>1, SMT
  <2>2. ref * (Scale + SideSign(o) * Slippage) \in Int /\ ref * Scale \in Int
    BY <2>1, SMT
  <2> QED
    BY <2>2 DEF FillPrice
<1>4. FillPrice(o, ref) * o.qty \in Int
  BY <1>1, <1>3, SMT
<1>5. Value(o, ref) \in Int
  BY <1>4, SMT DEF Value
<1>6. Fee(o, ref) \in Int
  BY <1>4, SMT DEF Fee
<1> QED
  BY <1>1, <1>2, <1>3, <1>5, <1>6

(* A sale at a price that is not negative brings at least its fee.          *)
LEMMA SaleCoversItsFee ==
  ASSUME NEW o \in Orders, NEW ref \in Nat, o.side = "SELL"
  PROVE  Fee(o, ref) <= Value(o, ref)
<1> USE BrokerAssumption
<1>1. FillPrice(o, ref) \in Nat
  <2>1. Scale + SideSign(o) * Slippage = Scale - Slippage
    BY SMT DEF SideSign
  <2>2. Scale - Slippage \in Nat /\ Scale \in Nat
    BY SMT
  <2>3. ref * (Scale - Slippage) \in Nat /\ ref * Scale \in Nat
    BY <2>2, ProductNat
  <2> QED
    BY <2>1, <2>3 DEF FillPrice
<1>2. FillPrice(o, ref) * o.qty \in Nat
  BY <1>1, ProductNat DEF Orders
<1>3. Commission \in Nat /\ Scale \in Nat /\ Commission <= Scale
  BY SMT
<1> QED
  BY <1>2, <1>3, ProductMonotone DEF Fee, Value
-----------------------------------------------------------------------------
(* Type correctness.                                                        *)

(* A stored request is an order, NEW. *)
LEMMA StoredIsOrder ==
  ASSUME NEW request \in Requests
  PROVE  Stored(request) \in Orders /\ Stored(request).status = "NEW"
  BY DEF Requests, Orders, Stored, Status

(* Changing the status of an order leaves a sequence of orders of the same  *)
(* length, which differs at that order only.                                *)
LEMMA SetStatusEffect ==
  ASSUME NEW os \in Seq(Orders), NEW i \in DOMAIN os, NEW status \in Status
  PROVE  /\ SetStatus(os, i, status) \in Seq(Orders)
         /\ Len(SetStatus(os, i, status)) = Len(os)
         /\ DOMAIN SetStatus(os, i, status) = DOMAIN os
         /\ SetStatus(os, i, status)[i] = [os[i] EXCEPT !.status = status]
         /\ \A k \in DOMAIN os : k # i => SetStatus(os, i, status)[k] = os[k]
<1>1. os[i] \in Orders
  BY ElementOfSeq, LenProperties
<1>2. [os[i] EXCEPT !.status = status] \in Orders
  BY <1>1 DEF Orders
<1> QED
  BY <1>1, <1>2, ExceptSeq, LenProperties DEF SetStatus

(* The part of the type invariant that a rejection or a fill restores.      *)
AccountType ==
  /\ orders \in Seq(Orders)
  /\ shares \in [Tickers -> Int]
  /\ cash \in Int
  /\ fills \in Seq([order : Nat \ {0}, price : Int, ticker : Tickers, signed : Int, fee : Int])
  /\ events \in EventSeq

(* A rejection keeps the types and the number of orders. *)
LEMMA RejectType ==
  ASSUME AccountType, NEW os \in Seq(Orders), NEW es \in EventSeq, NEW i \in DOMAIN os,
         Reject(i, os, es)
  PROVE  AccountType' /\ Len(orders') = Len(os)
<1>1. orders' \in Seq(Orders) /\ Len(orders') = Len(os)
  BY SetStatusEffect DEF Reject, Status
<1>2. i \in Nat \ {0}
  BY LenProperties
<1>3. Recorded(es, "risk_check_failed", i) \in EventSeq
  BY <1>2, AppendProperties DEF Recorded, EventSeq, EventTypes
<1>4. events' \in EventSeq
  BY <1>2, <1>3, AppendProperties DEF Reject, Recorded, EventSeq, EventTypes
<1> QED
  BY <1>1, <1>4 DEF Reject, AccountType

(* A fill keeps the types and the number of orders. *)
LEMMA FillType ==
  ASSUME AccountType, NEW os \in Seq(Orders), NEW es \in EventSeq, NEW i \in DOMAIN os,
         NEW ref \in Int, ExecuteFill(i, ref, os, es)
  PROVE  AccountType' /\ Len(orders') = Len(os)
<1>1. orders' \in Seq(Orders) /\ Len(orders') = Len(os)
  BY SetStatusEffect DEF ExecuteFill, Status
<1>2. i \in Nat \ {0} /\ os[i] \in Orders
  BY LenProperties, ElementOfSeq
<1>3. events' \in EventSeq
  BY <1>2, AppendProperties DEF ExecuteFill, Recorded, EventSeq, EventTypes
<1> DEFINE o == os[i]
<1>4. /\ SideSign(o) \in {1, -1} /\ Signed(o) \in Int /\ FillPrice(o, ref) \in Int
      /\ Value(o, ref) \in Int /\ Fee(o, ref) \in Int
  BY <1>2, MoneyTypes
<1>5. o.ticker \in Tickers
  BY <1>2 DEF Orders
<1>6. shares' \in [Tickers -> Int]
  <2>1. shares[o.ticker] + Signed(o) \in Int
    BY <1>4, <1>5 DEF AccountType
  <2> QED
    BY <2>1 DEF ExecuteFill, AccountType
<1>7. cash' \in Int
  <2>1. SideSign(o) * Value(o, ref) \in Int
    BY <1>4, SMT
  <2>2. cash' = cash - SideSign(o) * Value(o, ref) - Fee(o, ref)
    BY DEF ExecuteFill
  <2> QED
    BY <2>1, <2>2, <1>4 DEF AccountType
<1>8. [order |-> i, price |-> FillPrice(o, ref), ticker |-> o.ticker,
       signed |-> Signed(o), fee |-> Fee(o, ref)]
        \in [order : Nat \ {0}, price : Int, ticker : Tickers, signed : Int, fee : Int]
  BY <1>2, <1>4, <1>5
<1>9. fills' \in Seq([order : Nat \ {0}, price : Int, ticker : Tickers, signed : Int, fee : Int])
  BY <1>8, AppendProperties DEF ExecuteFill, AccountType
<1> QED
  BY <1>1, <1>3, <1>6, <1>7, <1>9 DEF AccountType

(* Placing an order keeps every type. *)
LEMMA PlaceOrderType ==
  ASSUME TypeOK, NEW request \in Requests, PlaceOrder(request)
  PROVE  TypeOK'
<1> DEFINE o == Stored(request)
           i == Len(orders) + 1
           os == Append(orders, o)
           es == Recorded(events, "order_placed", i)
           ref == marks[o.ticker]
<1>1. AccountType
  BY DEF TypeOK, AccountType, EventSeq, Fill, Event
<1>2. o \in Orders /\ o.status = "NEW"
  BY StoredIsOrder
<1>3. os \in Seq(Orders) /\ Len(os) = Len(orders) + 1 /\ i \in DOMAIN os /\ os[i] = o
  BY <1>1, <1>2, AppendProperties, LenProperties DEF AccountType
<1>4. Len(orders) \in Nat /\ i \in Nat \ {0}
  BY <1>1, LenProperties DEF AccountType
<1>5. es \in EventSeq
  BY <1>1, <1>4, AppendProperties DEF AccountType, EventSeq, EventTypes, Recorded
<1>6. ref \in Nat
  <2>1. o.ticker \in Tickers
    BY <1>2 DEF Orders
  <2>2. marks[o.ticker] \in Prices \union {0}
    BY <2>1 DEF TypeOK, Fill, Event
  <2> QED
    BY <2>2, PricesAreNumbers
<1>7. AccountType' /\ Len(orders') = Len(orders) + 1
  <2> HIDE DEF o, i, os, es, ref
  <2>1. CASE orders' = os /\ events' = es /\ UNCHANGED <<shares, cash, fills>>
    BY <2>1, <1>1, <1>3, <1>5 DEF AccountType
  <2>2. CASE Reject(i, os, es)
    BY <2>2, <1>1, <1>3, <1>5, RejectType
  <2>3. CASE CheckAndFill(i, ref, os, es)
    <3>1. CASE ExecuteFill(i, ref, os, es)
      <4>1. ref \in Int
        BY <1>6
      <4> QED
        BY <3>1, <4>1, <1>1, <1>3, <1>5, FillType
    <3>2. CASE Reject(i, os, es)
      BY <3>2, <1>1, <1>3, <1>5, RejectType
    <3> QED
      BY <2>3, <3>1, <3>2 DEF CheckAndFill
  <2> QED
    BY <2>1, <2>2, <2>3 DEF PlaceOrder, o, i, os, es, ref
<1>8. sweep \in [bars : NewBars, next : 0 .. Len(orders')  + 1]
  BY <1>4, <1>7 DEF TypeOK, Fill, Event
<1>9. UNCHANGED <<marks, sweep, bars>>
  BY DEF PlaceOrder
<1> QED
  BY <1>7, <1>8, <1>9 DEF TypeOK, AccountType, EventSeq, Fill, Event

(* Executing a due order keeps every type. *)
LEMMA OnBarOrderType ==
  ASSUME TypeOK, OnBarOrder
  PROVE  TypeOK'
<1> DEFINE i == sweep.next
<1>1. AccountType
  BY DEF TypeOK, AccountType, EventSeq, Fill, Event
<1>2. i \in DOMAIN orders /\ i \in 1 .. Len(orders) /\ Len(orders) \in Nat
  BY <1>1, LenProperties DEF OnBarOrder, AccountType
<1>3. AccountType' /\ Len(orders') = Len(orders)
  <2>1. CASE UNCHANGED account
    BY <2>1, <1>1 DEF AccountType, account
  <2>2. CASE Due(orders[i]) /\ CheckAndFill(i, ExecutionPrice(orders[i]), orders, events)
    <3>1. ExecutionPrice(orders[i]) \in Int
      <4>1. orders[i] \in Orders
        BY <1>1, <1>2, ElementOfSeq DEF AccountType
      <4>2. sweep.bars \in NewBars /\ orders[i].ticker \in DOMAIN sweep.bars
        BY <2>2 DEF TypeOK, Due, Fill, Event
      <4>3. sweep.bars[orders[i].ticker] \in Bars
        BY <4>2 DEF NewBars
      <4>4. sweep.bars[orders[i].ticker].open \in Int
        BY <4>3, PricesAreNumbers DEF Bars
      <4>5. orders[i].limit \in Int
        BY <4>1, PricesAreNumbers DEF Orders
      <4> QED
        BY <4>4, <4>5 DEF ExecutionPrice
    <3>2. CASE ExecuteFill(i, ExecutionPrice(orders[i]), orders, events)
      BY <3>1, <3>2, <1>1, <1>2, FillType DEF AccountType
    <3>3. CASE Reject(i, orders, events)
      BY <3>3, <1>1, <1>2, RejectType DEF AccountType
    <3> QED
      BY <2>2, <3>2, <3>3 DEF CheckAndFill
  <2> QED
    BY <2>1, <2>2 DEF OnBarOrder
<1>4. sweep' \in [bars : NewBars, next : 0 .. Len(orders') + 1]
  <2>1. sweep' = [sweep EXCEPT !.next = @ + 1]
    BY DEF OnBarOrder
  <2>2. sweep.next + 1 \in 0 .. Len(orders) + 1
    BY <1>2
  <2> QED
    BY <2>1, <2>2, <1>3 DEF TypeOK, Fill, Event
<1>5. UNCHANGED <<marks, bars>>
  BY DEF OnBarOrder
<1> QED
  BY <1>3, <1>4, <1>5 DEF TypeOK, AccountType, EventSeq, Fill, Event

(* Every step keeps every type. *)
LEMMA TypeStep == TypeOK /\ [BrokerNext]_brokerVars => TypeOK'
<1> SUFFICES ASSUME TypeOK, [BrokerNext]_brokerVars PROVE TypeOK'
  OBVIOUS
<1> USE BrokerAssumption
<1>1. Len(orders) \in Nat
  BY LenProperties DEF TypeOK, Fill, Event
<1>2. ASSUME NEW request \in Requests, PlaceOrder(request) PROVE TypeOK'
  BY <1>2, PlaceOrderType
<1>3. ASSUME NEW i \in DOMAIN orders, CancelOrder(i) PROVE TypeOK'
  <2>1. orders' \in Seq(Orders) /\ Len(orders') = Len(orders)
    BY <1>3, SetStatusEffect DEF CancelOrder, Status, TypeOK, Fill, Event
  <2>2. <<"order_canceled", i>> \in EventTypes \X (Nat \ {0})
    BY LenProperties DEF TypeOK, EventTypes, Fill, Event
  <2>3. events' \in Seq(EventTypes \X (Nat \ {0}))
    BY <1>3, <2>2, AppendProperties DEF CancelOrder, Recorded, TypeOK, Fill, Event
  <2> QED
    BY <1>3, <2>1, <2>3 DEF CancelOrder, Recorded, TypeOK, Fill, Event
<1>4. CASE ResetAccount
  <2>1. orders' \in Seq(Orders) /\ Len(orders') = 0
    BY <1>4, EmptySeq DEF ResetAccount
  <2>2. /\ events' \in Seq(EventTypes \X (Nat \ {0}))
        /\ fills' \in Seq([order : Nat \ {0}, price : Int, ticker : Tickers,
                           signed : Int, fee : Int])
    BY <1>4, EmptySeq DEF ResetAccount
  <2>3. cash' \in Int /\ shares' \in [Tickers -> Int]
    BY <1>4 DEF ResetAccount
  <2>4. sweep' \in [bars : NewBars, next : 0 .. Len(orders') + 1]
    BY <1>4, <2>1 DEF ResetAccount, TypeOK, Sweeping, Fill, Event
  <2> QED
    BY <1>4, <2>1, <2>2, <2>3, <2>4 DEF ResetAccount, TypeOK, Fill, Event
<1>5. ASSUME NEW newBars \in NewBars, OnBarBegin(newBars) PROVE TypeOK'
  <2>1. \A t \in DOMAIN newBars : newBars[t] \in Bars
    BY DEF NewBars
  <2>2. marks' \in [Tickers -> Prices \union {0}]
    BY <1>5, <2>1 DEF OnBarBegin, TypeOK, Bars, Fill, Event
  <2>3. sweep' \in [bars : NewBars, next : 0 .. Len(orders') + 1]
    BY <1>1, <1>5 DEF OnBarBegin, account
  <2>4. bars' \in 0 .. MaxBars
    BY <1>5 DEF OnBarBegin, TypeOK, Fill, Event
  <2> QED
    BY <1>5, <2>2, <2>3, <2>4 DEF OnBarBegin, TypeOK, account, Fill, Event
<1>6. CASE OnBarOrder
  BY <1>6, OnBarOrderType
<1>7. CASE OnBarEnd
  <2>1. sweep.bars \in NewBars
    BY DEF TypeOK, Fill, Event
  <2>2. \A t \in DOMAIN sweep.bars : sweep.bars[t] \in Bars
    BY <2>1 DEF NewBars
  <2>3. marks' \in [Tickers -> Prices \union {0}]
    BY <1>7, <2>2 DEF OnBarEnd, TypeOK, Bars, Fill, Event
  <2>4. NoBars \in NewBars
    <3>1. NoBars \in [{} -> Bars]
      BY DEF NoBars
    <3> QED
      BY <3>1 DEF NewBars
  <2>5. sweep' \in [bars : NewBars, next : 0 .. Len(orders') + 1]
    BY <1>1, <1>7, <2>4 DEF OnBarEnd, Idle, account
  <2> QED
    BY <1>7, <2>3, <2>5 DEF OnBarEnd, TypeOK, account, Fill, Event
<1>8. CASE UNCHANGED brokerVars
  BY <1>8 DEF TypeOK, brokerVars, Fill, Event
<1> QED
  BY <1>2, <1>3, <1>4, <1>5, <1>6, <1>7, <1>8 DEF BrokerNext, OnBar

(* The initial state has every type. *)
LEMMA TypeInit == BrokerInit => TypeOK
<1> SUFFICES ASSUME BrokerInit PROVE TypeOK
  OBVIOUS
<1> USE BrokerAssumption DEF BrokerInit, NewAccount
<1>1. /\ orders \in Seq(Orders) /\ Len(orders) = 0
      /\ events \in Seq(EventTypes \X (Nat \ {0}))
      /\ fills \in Seq([order : Nat \ {0}, price : Int, ticker : Tickers,
                        signed : Int, fee : Int])
  BY EmptySeq
<1>2. cash \in Int /\ shares \in [Tickers -> Int] /\ bars \in 0 .. MaxBars
  OBVIOUS
<1>3. NoBars \in NewBars
  <2>1. NoBars \in [{} -> Bars]
    BY DEF NoBars
  <2> QED
    BY <2>1 DEF NewBars
<1>4. sweep \in [bars : NewBars, next : 0 .. Len(orders) + 1]
  BY <1>1, <1>3 DEF Idle
<1>5. marks \in [Tickers -> Prices \union {0}]
  OBVIOUS
<1> QED
  BY <1>1, <1>2, <1>4, <1>5 DEF TypeOK, Fill, Event

(* Every variable of the broker keeps its type, whatever is placed,         *)
(* cancelled or delivered by on_bar.                                        *)
THEOREM BrokerTypeCorrect == BrokerSpec => []TypeOK
  BY TypeInit, TypeStep, PTL DEF BrokerSpec
-----------------------------------------------------------------------------
(* The money.  Cash and shares only move in fills, every fill passed the    *)
(* checks in the state it executes in, and its reference price is positive  *)
(* or that of a bar.                                                        *)
CheckedFill(i, ref, os, es) == Passed(os[i], ref) /\ ExecuteFill(i, ref, os, es)

MoneyStep ==
  \/ UNCHANGED <<shares, cash>>
  \/ ResetAccount
  \/ \E os \in Seq(Orders) : \E i \in DOMAIN os : \E ref \in Nat, es \in EventSeq :
       CheckedFill(i, ref, os, es)

(* An order that passes is executed at a price that is not negative. *)
LEMMA ExecutedAtNat ==
  ASSUME TypeOK, NEW o \in Orders, Due(o), LimitIsPositive(o)
  PROVE  ExecutionPrice(o) \in Nat
<1>1. CASE o.type = "MARKET"
  <2>1. sweep.bars[o.ticker] \in Bars
    BY DEF Due, TypeOK, NewBars, Fill, Event
  <2>2. sweep.bars[o.ticker].open \in Nat
    BY <2>1, PricesAreNumbers DEF Bars
  <2> QED
    BY <1>1, <2>2 DEF ExecutionPrice
<1>2. CASE o.type = "LIMIT"
  <2>1. o.limit \in Int /\ o.limit > 0
    BY <1>2, PricesAreNumbers DEF Orders, LimitIsPositive
  <2>2. ExecutionPrice(o) = o.limit
    BY <1>2 DEF ExecutionPrice
  <2> QED
    BY <2>1, <2>2
<1> QED
  BY <1>1, <1>2 DEF Orders

(* Money moves in checked fills and resets only. *)
LEMMA MoneyMovesInFills ==
  ASSUME TypeOK, [BrokerNext]_brokerVars
  PROVE  MoneyStep
<1>1. AccountType
  BY DEF TypeOK, AccountType, EventSeq, Fill, Event
<1>2. ASSUME NEW request \in Requests, PlaceOrder(request) PROVE MoneyStep
  <2> DEFINE o == Stored(request)
             i == Len(orders) + 1
             os == Append(orders, o)
             es == Recorded(events, "order_placed", i)
             ref == marks[o.ticker]
  <2>1. o \in Orders
    BY StoredIsOrder
  <2>2. os \in Seq(Orders) /\ i \in DOMAIN os /\ i \in Nat \ {0}
    BY <1>1, <2>1, AppendProperties, LenProperties DEF AccountType
  <2>3. es \in EventSeq
    BY <1>1, <2>2, AppendProperties DEF AccountType, EventSeq, EventTypes, Recorded
  <2>4. ref \in Nat
    <3>1. marks[o.ticker] \in Prices \union {0}
      BY <2>1 DEF TypeOK, Orders, Fill, Event
    <3> QED
      BY <3>1, PricesAreNumbers
  <2> HIDE DEF o, i, os, es, ref
  <2>5. CASE UNCHANGED <<shares, cash>>
    BY <2>5 DEF MoneyStep
  <2>6. CASE Reject(i, os, es)
    BY <2>6 DEF MoneyStep, Reject
  <2>7. CASE CheckAndFill(i, ref, os, es)
    <3>1. CASE CheckedFill(i, ref, os, es)
      BY <3>1, <2>2, <2>3, <2>4 DEF MoneyStep
    <3> QED
      BY <2>6, <2>7, <3>1 DEF CheckAndFill, CheckedFill
  <2> QED
    BY <1>2, <2>5, <2>6, <2>7 DEF PlaceOrder, o, i, os, es, ref
<1>3. CASE OnBarOrder
  <2> DEFINE i == sweep.next
             ref == ExecutionPrice(orders[i])
  <2>1. i \in DOMAIN orders /\ orders[i] \in Orders
    BY <1>1, <1>3, ElementOfSeq, LenProperties DEF OnBarOrder, AccountType
  <2>2. CASE Due(orders[i]) /\ CheckAndFill(i, ref, orders, events)
    <3>1. CASE Reject(i, orders, events)
      BY <3>1 DEF MoneyStep, Reject
    <3>2. CASE CheckedFill(i, ref, orders, events)
      <4>1. LimitIsPositive(orders[i])
        BY <3>2 DEF CheckedFill, Passed
      <4>2. ref \in Nat
        BY <2>1, <2>2, <4>1, ExecutedAtNat
      <4> QED
        BY <3>2, <4>2, <2>1, <1>1 DEF MoneyStep, AccountType
    <3> QED
      BY <2>2, <3>1, <3>2 DEF CheckAndFill, CheckedFill
  <2>3. CASE UNCHANGED account
    BY <2>3 DEF account, MoneyStep
  <2> QED
    BY <1>3, <2>2, <2>3 DEF OnBarOrder
<1>4. ASSUME NEW i \in DOMAIN orders, CancelOrder(i) PROVE MoneyStep
  BY <1>4 DEF CancelOrder, MoneyStep
<1>5. ASSUME NEW newBars \in NewBars, OnBarBegin(newBars) PROVE MoneyStep
  BY <1>5 DEF OnBarBegin, account, MoneyStep
<1>6. CASE OnBarEnd
  BY <1>6 DEF OnBarEnd, account, MoneyStep
<1>7. CASE ResetAccount
  BY <1>7 DEF MoneyStep
<1>8. CASE UNCHANGED brokerVars
  BY <1>8 DEF brokerVars, MoneyStep
<1> QED
  BY <1>2, <1>3, <1>4, <1>5, <1>6, <1>7, <1>8 DEF BrokerNext, OnBar

(* A checked fill takes no more cash than there is: a purchase was          *)
(* affordable, and a sale brings at least its fee.                          *)
LEMMA FillKeepsCash ==
  ASSUME AccountType, cash >= 0, NEW os \in Seq(Orders), NEW i \in DOMAIN os,
         NEW ref \in Nat, NEW es, CheckedFill(i, ref, os, es)
  PROVE  cash' >= 0
<1> DEFINE o == os[i]
<1>1. o \in Orders
  BY ElementOfSeq, LenProperties
<1>2. Value(o, ref) \in Int /\ Fee(o, ref) \in Int
  BY <1>1, MoneyTypes
<1>3. cash' = cash - SideSign(o) * Value(o, ref) - Fee(o, ref)
  BY DEF CheckedFill, ExecuteFill
<1>4. CASE o.side = "BUY"
  <2>1. Value(o, ref) + Fee(o, ref) <= cash
    BY <1>4 DEF CheckedFill, Passed, Affordable
  <2>2. cash' = cash - Value(o, ref) - Fee(o, ref)
    BY <1>2, <1>3, <1>4 DEF SideSign
  <2> QED
    BY <2>1, <2>2, <1>2 DEF AccountType
<1>5. CASE o.side = "SELL"
  <2>1. Fee(o, ref) <= Value(o, ref)
    BY <1>1, <1>5, SaleCoversItsFee
  <2>2. cash' = cash + Value(o, ref) - Fee(o, ref)
    BY <1>2, <1>3, <1>5 DEF SideSign, AccountType
  <2> QED
    BY <2>1, <2>2, <1>2 DEF AccountType
<1> QED
  BY <1>1, <1>4, <1>5 DEF Orders

(* The account starts with cash that is not negative. *)
LEMMA InitialCashNat == InitialCash * Scale * Scale \in Nat
<1>1. InitialCash \in Nat /\ Scale \in Nat
  BY BrokerAssumption
<1> QED
  BY <1>1, ProductNat

(* No sequence of placements, cancellations, bars and resets overdraws the  *)
(* account, for all prices and rates: each fill is checked in the state it  *)
(* executes in, however many accepted orders were waiting for the same cash.*)
THEOREM CashStaysNonNegative == BrokerSpec => []CashNeverNegative
<1>1. BrokerInit => CashNeverNegative
  BY InitialCashNat DEF BrokerInit, NewAccount, CashNeverNegative
<1>2. TypeOK /\ CashNeverNegative /\ [BrokerNext]_brokerVars => CashNeverNegative'
  <2> SUFFICES ASSUME TypeOK, CashNeverNegative, [BrokerNext]_brokerVars
               PROVE  cash' >= 0
    BY DEF CashNeverNegative
  <2>1. AccountType
    BY DEF TypeOK, AccountType, EventSeq, Fill, Event
  <2>2. CASE UNCHANGED <<shares, cash>>
    BY <2>2 DEF CashNeverNegative
  <2>3. CASE ResetAccount
    BY <2>3, InitialCashNat DEF ResetAccount
  <2>4. ASSUME NEW os \in Seq(Orders), NEW i \in DOMAIN os, NEW ref \in Nat,
               NEW es \in EventSeq, CheckedFill(i, ref, os, es)
        PROVE  cash' >= 0
    BY <2>1, <2>4, FillKeepsCash DEF CashNeverNegative
  <2> QED
    BY <2>2, <2>3, <2>4, MoneyMovesInFills DEF MoneyStep
<1> QED
  BY <1>1, <1>2, BrokerTypeCorrect, PTL DEF BrokerSpec

(* Without short selling no position is ever short: a sell that waits is    *)
(* compared with the shares held when it executes, not when it was placed.  *)
THEOREM NoPositionIsShort == BrokerSpec => []NoShortPositions
<1>1. BrokerInit => NoShortPositions
  BY DEF BrokerInit, NewAccount, NoShortPositions
<1>2. TypeOK /\ NoShortPositions /\ [BrokerNext]_brokerVars => NoShortPositions'
  <2> SUFFICES ASSUME TypeOK, NoShortPositions, [BrokerNext]_brokerVars, ~ AllowShort,
                      NEW t \in Tickers
               PROVE  shares'[t] >= 0
    BY DEF NoShortPositions
  <2>1. AccountType /\ shares[t] >= 0 /\ shares[t] \in Int
    BY DEF TypeOK, AccountType, EventSeq, NoShortPositions, Fill, Event
  <2>2. CASE UNCHANGED <<shares, cash>>
    BY <2>1, <2>2
  <2>3. CASE ResetAccount
    BY <2>3 DEF ResetAccount
  <2>4. ASSUME NEW os \in Seq(Orders), NEW i \in DOMAIN os, NEW ref \in Nat,
               NEW es \in EventSeq, CheckedFill(i, ref, os, es)
        PROVE  shares'[t] >= 0
    <3> DEFINE o == os[i]
    <3>1. o \in Orders /\ o.qty \in Nat
      <4>1. o \in Orders
        BY ElementOfSeq, LenProperties
      <4>2. Quantities \subseteq Nat
        BY BrokerAssumption
      <4> QED
        BY <4>1, <4>2 DEF Orders
    <3>2. shares' = [shares EXCEPT ![o.ticker] = @ + Signed(o)]
      BY <2>4 DEF CheckedFill, ExecuteFill
    <3>3. CASE o.ticker # t
      BY <2>1, <3>2, <3>3
    <3>4. CASE o.ticker = t
      <4>1. shares'[t] = shares[t] + Signed(o)
        BY <2>1, <3>2, <3>4 DEF AccountType
      <4>2. CASE o.side = "BUY"
        <5>1. Signed(o) = o.qty
          BY <3>1, <4>2 DEF Signed, SideSign
        <5> QED
          BY <2>1, <3>1, <4>1, <5>1
      <4>3. CASE o.side = "SELL"
        <5>1. Signed(o) = -o.qty
          BY <3>1, <4>3 DEF Signed, SideSign
        <5>2. o.qty <= shares[t]
          BY <2>4, <3>4, <4>3 DEF CheckedFill, Passed, Covered
        <5> QED
          BY <2>1, <3>1, <4>1, <5>1, <5>2
      <4> QED
        BY <3>1, <4>2, <4>3 DEF Orders
    <3> QED
      BY <3>3, <3>4
  <2> QED
    BY <2>2, <2>3, <2>4, MoneyMovesInFills DEF MoneyStep
<1> QED
  BY <1>1, <1>2, BrokerTypeCorrect, PTL DEF BrokerSpec
-----------------------------------------------------------------------------
(* The order book.  A step other than a reset keeps every order where it    *)
(* is, changes the status of a NEW one only, and adds at most one order,    *)
(* whose client id is new.                                                  *)
OrdersKept ==
  \A k \in DOMAIN orders :
    /\ k \in DOMAIN orders'
    /\ orders'[k].client = orders[k].client
    /\ orders[k].status # "NEW" => orders'[k] = orders[k]

OrdersAdded ==
  \A n \in DOMAIN orders' \ DOMAIN orders :
    /\ n = Len(orders) + 1
    /\ orders'[n].client # NoClient =>
         \A k \in DOMAIN orders : orders[k].client # orders'[n].client

BookStep == orders' = <<>> \/ (OrdersKept /\ OrdersAdded)

(* The orders after a step that leaves them as os or settles order i.       *)
Settles(os, i) == orders' = os \/ \E status \in Status : orders' = SetStatus(os, i, status)

(* Rejections and fills settle. *)
LEMMA CheckAndFillSettles ==
  ASSUME NEW os, NEW i, NEW ref, NEW es
  PROVE  /\ Reject(i, os, es) => Settles(os, i)
         /\ CheckAndFill(i, ref, os, es) => Settles(os, i)
  BY DEF CheckAndFill, Reject, ExecuteFill, Settles, Status

(* Settling order i changes no other order, and of i the status only.       *)
LEMMA SettlesEffect ==
  ASSUME NEW os \in Seq(Orders), NEW i \in DOMAIN os, Settles(os, i)
  PROVE  /\ DOMAIN orders' = DOMAIN os
         /\ \A k \in DOMAIN os : k # i => orders'[k] = os[k]
         /\ \A k \in DOMAIN os : orders'[k].client = os[k].client
<1>1. CASE orders' = os
  BY <1>1
<1>2. ASSUME NEW status \in Status, orders' = SetStatus(os, i, status)
      PROVE  /\ DOMAIN orders' = DOMAIN os
             /\ \A k \in DOMAIN os : k # i => orders'[k] = os[k]
             /\ orders'[i].client = os[i].client
  <2>1. os[i] \in Orders
    BY ElementOfSeq, LenProperties
  <2>2. [os[i] EXCEPT !.status = status].client = os[i].client
    BY <2>1 DEF Orders
  <2>3. /\ DOMAIN SetStatus(os, i, status) = DOMAIN os
        /\ SetStatus(os, i, status)[i] = [os[i] EXCEPT !.status = status]
        /\ \A k \in DOMAIN os : k # i => SetStatus(os, i, status)[k] = os[k]
    BY SetStatusEffect
  <2> QED
    BY <1>2, <2>2, <2>3, Zenon
<1> QED
  BY <1>1, <1>2 DEF Settles

(* Every step is a BookStep. *)
LEMMA BookSteps ==
  ASSUME TypeOK, [BrokerNext]_brokerVars
  PROVE  BookStep
<1>1. orders \in Seq(Orders)
  BY DEF TypeOK, Fill, Event
<1>2. ASSUME NEW request \in Requests, PlaceOrder(request) PROVE BookStep
  <2> DEFINE o == Stored(request)
             i == Len(orders) + 1
             os == Append(orders, o)
             es == Recorded(events, "order_placed", i)
             ref == marks[o.ticker]
  <2>1. o \in Orders /\ o.client = request.client
    BY StoredIsOrder DEF Stored
  <2>2. /\ os \in Seq(Orders) /\ os[i] = o
        /\ \A k \in DOMAIN orders : os[k] = orders[k]
        /\ DOMAIN os = DOMAIN orders \union {i} /\ i \notin DOMAIN orders
    BY <1>1, <2>1, AppendProperties, LenProperties
  <2>3. i = Len(orders) + 1
    OBVIOUS
  <2>4. request.client # NoClient => \A k \in DOMAIN orders : orders[k].client # request.client
    BY <1>2 DEF PlaceOrder, Known
  <2> HIDE DEF o, i, os, es, ref
  <2>5. Settles(os, i)
    <3>1. orders' = os \/ Reject(i, os, es) \/ CheckAndFill(i, ref, os, es)
      BY <1>2 DEF PlaceOrder, o, i, os, es, ref
    <3> QED
      BY <3>1, CheckAndFillSettles DEF Settles
  <2>6. /\ DOMAIN orders' = DOMAIN os
        /\ \A k \in DOMAIN os : k # i => orders'[k] = os[k]
        /\ \A k \in DOMAIN os : orders'[k].client = os[k].client
    BY <2>2, <2>5, SettlesEffect
  <2>7. OrdersKept
    BY <2>2, <2>6 DEF OrdersKept
  <2>8. OrdersAdded
    BY <2>1, <2>2, <2>3, <2>4, <2>6 DEF OrdersAdded
  <2> QED
    BY <2>7, <2>8 DEF BookStep
<1>3. ASSUME NEW i \in DOMAIN orders, orders[i].status = "NEW", Settles(orders, i)
      PROVE  BookStep
  <2>1. /\ DOMAIN orders' = DOMAIN orders
        /\ \A k \in DOMAIN orders : k # i => orders'[k] = orders[k]
        /\ \A k \in DOMAIN orders : orders'[k].client = orders[k].client
    BY <1>1, <1>3, SettlesEffect
  <2> QED
    BY <1>3, <2>1 DEF BookStep, OrdersKept, OrdersAdded
<1>4. ASSUME NEW i \in DOMAIN orders, CancelOrder(i) PROVE BookStep
  BY <1>3, <1>4 DEF CancelOrder, Settles, Status
<1>5. CASE UNCHANGED orders
  BY <1>5 DEF BookStep, OrdersKept, OrdersAdded
<1>6. CASE OnBarOrder
  <2> DEFINE i == sweep.next
  <2>1. i \in DOMAIN orders
    BY <1>6 DEF OnBarOrder
  <2>2. CASE Due(orders[i]) /\ CheckAndFill(i, ExecutionPrice(orders[i]), orders, events)
    <3>1. Settles(orders, i)
      BY <2>2, CheckAndFillSettles
    <3> QED
      BY <1>3, <2>1, <2>2, <3>1 DEF Due
  <2> QED
    BY <1>5, <1>6, <2>2 DEF OnBarOrder, account
<1>7. CASE ResetAccount
  BY <1>7 DEF ResetAccount, BookStep
<1>8. ASSUME NEW newBars \in NewBars, OnBarBegin(newBars) PROVE BookStep
  BY <1>5, <1>8 DEF OnBarBegin, account
<1>9. CASE OnBarEnd
  BY <1>5, <1>9 DEF OnBarEnd, account
<1>10. CASE UNCHANGED brokerVars
  BY <1>5, <1>10 DEF brokerVars
<1> QED
  BY <1>2, <1>4, <1>6, <1>7, <1>8, <1>9, <1>10 DEF BrokerNext, OnBar

(* A filled, cancelled or rejected order never changes again until the      *)
(* account is reset.                                                        *)
THEOREM SettledOrdersStay == BrokerSpec => SettledForever
<1>1. TypeOK /\ [BrokerNext]_brokerVars =>
        [\A i \in DOMAIN orders :
           orders[i].status # "NEW" /\ i \in DOMAIN orders' => orders'[i] = orders[i]]_brokerVars
  <2>1. ASSUME TypeOK, [BrokerNext]_brokerVars, NEW i \in DOMAIN orders,
               orders[i].status # "NEW", i \in DOMAIN orders'
        PROVE  orders'[i] = orders[i]
    <3>1. orders' # <<>>
      BY <2>1
    <3> QED
      BY <2>1, <3>1, BookSteps DEF BookStep, OrdersKept
  <2> QED
    BY <2>1
<1> QED
  BY <1>1, BrokerTypeCorrect, PTL DEF BrokerSpec, SettledForever

(* However often a placement is retried with its client order id, one order *)
(* exists for it.                                                           *)
THEOREM RetriesPlaceOnce == BrokerSpec => []OneOrderPerClient
<1>1. BrokerInit => OneOrderPerClient
  BY DEF BrokerInit, NewAccount, OneOrderPerClient
<1>2. TypeOK /\ OneOrderPerClient /\ [BrokerNext]_brokerVars => OneOrderPerClient'
  <2> SUFFICES ASSUME TypeOK, OneOrderPerClient, [BrokerNext]_brokerVars,
                      NEW i \in DOMAIN orders', NEW k \in DOMAIN orders',
                      orders'[i].client # NoClient, orders'[i].client = orders'[k].client
               PROVE  i = k
    BY DEF OneOrderPerClient
  <2>1. OrdersKept /\ OrdersAdded
    <3>1. orders' # <<>>
      OBVIOUS
    <3> QED
      BY <3>1, BookSteps DEF BookStep
  <2>2. CASE i \in DOMAIN orders /\ k \in DOMAIN orders
    BY <2>1, <2>2 DEF OrdersKept, OneOrderPerClient
  <2>3. CASE i \in DOMAIN orders /\ k \notin DOMAIN orders
    BY <2>1, <2>3 DEF OrdersKept, OrdersAdded
  <2>4. CASE i \notin DOMAIN orders /\ k \in DOMAIN orders
    BY <2>1, <2>4 DEF OrdersKept, OrdersAdded
  <2>5. CASE i \notin DOMAIN orders /\ k \notin DOMAIN orders
    BY <2>1, <2>5 DEF OrdersAdded
  <2> QED
    BY <2>2, <2>3, <2>4, <2>5
<1> QED
  BY <1>1, <1>2, BrokerTypeCorrect, PTL DEF BrokerSpec
-----------------------------------------------------------------------------
(* The equity.  It is a fold over a set of tickers; SumStep is one step of  *)
(* it.  What a fill does to one ticker it does to the sum.                  *)

(* A set of natural numbers has a least member. *)
LEMMA LeastMember ==
  ASSUME NEW S \in SUBSET Nat, S # {}
  PROVE  \E n \in S : \A m \in S : n <= m
<1> DEFINE R == OpToRel(<, Nat)
<1>1. \A m, n \in Nat : <<m, n>> \in R <=> m < n
  BY Zenon DEF OpToRel
<1>2. IsWellFoundedOn(R, Nat)
  BY NatLessThanWellFounded, Zenon
<1> HIDE DEF R
<1>3. PICK n \in S : \A m \in S : ~ (<<m, n>> \in R)
  BY <1>2, WFMin, Zenon
<1>4. n \in Nat /\ \A m \in S : m \in Nat /\ ~ (m < n)
  BY <1>1, <1>3
<1> QED
  BY <1>4, SMT

Picked(s) == CHOOSE x \in s : TRUE
SumStep(v, f, s) == f[s] = IF s = {} THEN 0 ELSE v[Picked(s)] + f[s \ {Picked(s)}]

(* Without its picked member a set is smaller. *)
LEMMA PickedOut ==
  ASSUME NEW s, IsFiniteSet(s), s # {}
  PROVE  /\ Picked(s) \in s /\ IsFiniteSet(s \ {Picked(s)})
         /\ Cardinality(s) \in Nat \ {0}
         /\ Cardinality(s \ {Picked(s)}) = Cardinality(s) - 1
<1>1. Picked(s) \in s
  BY DEF Picked
<1>2. Cardinality(s) \in Nat /\ Cardinality(s) # 0
  BY FS_CardinalityType, FS_EmptySet
<1> QED
  BY <1>1, <1>2, FS_RemoveElement

(* The recursion of the fold has a solution on the subsets of a finite set. *)
LEMMA SumExists ==
  ASSUME NEW T, IsFiniteSet(T), NEW v
  PROVE  \E f : f = [s \in SUBSET T |-> f[s]] /\ \A s \in SUBSET T : SumStep(v, f, s)
<1> DEFINE P(k) == \E f : /\ f = [s \in SUBSET T |-> f[s]]
                          /\ \A s \in SUBSET T : Cardinality(s) <= k => SumStep(v, f, s)
           bad == {k \in Nat : ~ P(k)}
<1>1. \A s \in SUBSET T : IsFiniteSet(s) /\ Cardinality(s) \in Nat /\ Cardinality(s) <= Cardinality(T)
  BY FS_Subset, FS_CardinalityType
<1>2. bad = {}
  <2>1. SUFFICES ASSUME bad # {} PROVE FALSE
    OBVIOUS
  <2>2. PICK k \in bad : \A m \in bad : k <= m
    <3> HIDE DEF P
    <3> QED
      BY <2>1, LeastMember
  <2>3. k \in Nat
    OBVIOUS
  <2>4. \E g : \A s \in SUBSET T : Cardinality(s) < k => SumStep(v, g, s)
    <3>1. CASE k = 0
      BY <1>1, <3>1
    <3>2. CASE k # 0
      <4>1. k - 1 \in Nat /\ ~ (k <= k - 1)
        BY <2>3, <3>2
      <4>2. P(k - 1)
        <5> HIDE DEF P
        <5> QED
          BY <2>2, <4>1
      <4>3. PICK g : \A s \in SUBSET T : Cardinality(s) <= k - 1 => SumStep(v, g, s)
        BY <4>2
      <4>4. \A s \in SUBSET T : Cardinality(s) < k => Cardinality(s) <= k - 1
        BY <1>1, <2>3
      <4> QED
        BY <4>3, <4>4
    <3> QED
      BY <3>1, <3>2
  <2>5. PICK g : \A s \in SUBSET T : Cardinality(s) < k => SumStep(v, g, s)
    BY <2>4
  <2> DEFINE Next1(s) == IF s = {} THEN 0 ELSE v[Picked(s)] + g[s \ {Picked(s)}]
             f == [s \in SUBSET T |-> IF Cardinality(s) < k THEN g[s] ELSE Next1(s)]
  <2>6. ASSUME NEW s \in SUBSET T, Cardinality(s) <= k PROVE SumStep(v, f, s)
    <3>1. f[s] = Next1(s)
      <4>1. CASE Cardinality(s) < k
        BY <2>5, <4>1 DEF SumStep
      <4>2. CASE ~ (Cardinality(s) < k)
        BY <4>2
      <4> QED
        BY <4>1, <4>2
    <3>2. CASE s = {}
      BY <3>1, <3>2 DEF SumStep
    <3>3. CASE s # {}
      <4>1. /\ s \ {Picked(s)} \in SUBSET T
            /\ Cardinality(s \ {Picked(s)}) < k
        <5>1. Cardinality(s) \in Nat /\ Cardinality(s \ {Picked(s)}) = Cardinality(s) - 1
          BY <1>1, <3>3, PickedOut
        <5> QED
          BY <2>3, <2>6, <5>1
      <4>2. f[s \ {Picked(s)}] = g[s \ {Picked(s)}]
        BY <4>1
      <4> HIDE DEF f
      <4> QED
        BY <3>1, <3>3, <4>2 DEF SumStep
    <3> QED
      BY <3>2, <3>3
  <2>7. f = [s \in SUBSET T |-> f[s]]
    OBVIOUS
  <2>8. P(k)
    <3> HIDE DEF f
    <3> QED
      BY <2>6, <2>7
  <2> QED
    BY <2>8
<1>3. P(Cardinality(T))
  <2>1. Cardinality(T) \in Nat
    BY FS_CardinalityType
  <2> HIDE DEF P
  <2> QED
    BY <1>2, <2>1
<1> QED
  BY <1>1, <1>3

(* Two sums whose summands differ in one place differ by as much.           *)
LEMMA SumsDiffer ==
  ASSUME NEW T, IsFiniteSet(T), NEW t \in T,
         NEW v \in [T -> Int], NEW w \in [T -> Int], \A x \in T : x # t => w[x] = v[x],
         NEW f, \A s \in SUBSET T : SumStep(v, f, s),
         NEW g, \A s \in SUBSET T : SumStep(w, g, s)
  PROVE  f[T] \in Int /\ g[T] = f[T] + (w[t] - v[t])
<1> DEFINE P(s) == f[s] \in Int /\ g[s] = f[s] + (IF t \in s THEN w[t] - v[t] ELSE 0)
           bad == {n \in Nat : \E s \in SUBSET T : Cardinality(s) = n /\ ~ P(s)}
<1>1. \A s \in SUBSET T : IsFiniteSet(s) /\ Cardinality(s) \in Nat
  BY FS_Subset, FS_CardinalityType
<1>2. bad = {}
  <2>1. SUFFICES ASSUME bad # {} PROVE FALSE
    OBVIOUS
  <2>2. PICK n \in bad : \A m \in bad : n <= m
    <3> HIDE DEF P
    <3> QED
      BY <2>1, LeastMember
  <2>3. PICK s \in SUBSET T : Cardinality(s) = n /\ ~ P(s)
    <3> HIDE DEF P
    <3> QED
      OBVIOUS
  <2>4. CASE s = {}
    <3>1. f[s] = 0 /\ g[s] = 0 /\ t \notin s
      BY <2>4 DEF SumStep
    <3> QED
      BY <2>3, <3>1
  <2>5. CASE s # {}
    <3> DEFINE x == Picked(s)
               r == s \ {x}
    <3>1. x \in s /\ x \in T /\ r \in SUBSET T /\ Cardinality(r) = n - 1 /\ n \in Nat \ {0}
      BY <1>1, <2>3, <2>5, PickedOut
    <3>2. P(r)
      <4>1. n - 1 \in Nat /\ ~ (n <= n - 1)
        BY <3>1
      <4> HIDE DEF P, r, x
      <4> QED
        BY <2>2, <3>1, <4>1
    <3>3. f[s] = v[x] + f[r] /\ g[s] = w[x] + g[r]
      BY <2>5 DEF SumStep
    <3>4. v[x] \in Int /\ w[x] \in Int /\ v[t] \in Int /\ w[t] \in Int
      BY <3>1
    <3>5. IF x = t THEN t \notin r /\ t \in s ELSE w[x] = v[x] /\ (t \in r <=> t \in s)
      BY <3>1
    <3> HIDE DEF x, r
    <3>6. P(s)
      BY <3>2, <3>3, <3>4, <3>5
    <3> QED
      BY <2>3, <3>6
  <2> QED
    BY <2>4, <2>5
<1>3. P(T)
  <2>1. T \in SUBSET T /\ Cardinality(T) \in Nat
    BY <1>1
  <2> HIDE DEF P
  <2> QED
    BY <1>2, <2>1
<1> QED
  BY <1>3

(* The equity is the cash and the sum of the values of the positions.       *)
Values == [t \in Tickers |-> shares[t] * marks[t] * Scale * Scale]
EquityIsSum ==
  \E f : /\ \A s \in SUBSET Tickers : SumStep(Values, f, s)
         /\ Equity = cash + f[Tickers]
LEMMA EquitySums == EquityIsSum
<1> DEFINE F(g) == [s \in SUBSET Tickers |->
                      IF s = {} THEN 0
                      ELSE LET x == CHOOSE z \in s : TRUE
                           IN shares[x] * marks[x] * Scale * Scale + g[s \ {x}]]
           iter == CHOOSE g : g = F(g)
<1>1. Equity = cash + iter[Tickers]
  BY Zenon DEF Equity, MapThenSumSet, MapThenFoldSet
<1>2. \A g : \A s \in SUBSET Tickers :
         F(g)[s] = IF s = {} THEN 0 ELSE Values[Picked(s)] + g[s \ {Picked(s)}]
  <2>1. \A s \in SUBSET Tickers : s # {} => Picked(s) \in Tickers
    BY DEF Picked
  <2> QED
    BY <2>1 DEF Values, Picked
<1>3. \E g : g = F(g)
  <2>1. PICK f : f = [s \in SUBSET Tickers |-> f[s]] /\ \A s \in SUBSET Tickers : SumStep(Values, f, s)
    BY BrokerAssumption, SumExists
  <2>2. \A s \in SUBSET Tickers : f[s] = F(f)[s]
    BY <1>2, <2>1 DEF SumStep
  <2>3. F(f) = [s \in SUBSET Tickers |-> F(f)[s]]
    OBVIOUS
  <2> HIDE DEF F
  <2>4. f = F(f)
    BY <2>1, <2>2, <2>3
  <2> QED
    BY <2>4
<1>4. iter = F(iter)
  BY <1>3, Zenon
<1>5. \A s \in SUBSET Tickers : SumStep(Values, iter, s)
  <2> HIDE DEF iter, F
  <2> QED
    BY <1>2, <1>4 DEF SumStep
<1> HIDE DEF iter
<1> QED
  BY <1>1, <1>5 DEF EquityIsSum
-----------------------------------------------------------------------------
(* The cap.  While orders are visited under next_open, the account is       *)
(* marked at the price at which a market order executes.                    *)
SweepMarks ==
  Sweeping /\ NextOpen => \A t \in DOMAIN sweep.bars : marks[t] = sweep.bars[t].open

LEMMA SweepMarksInit == BrokerInit => SweepMarks
  BY DEF BrokerInit, SweepMarks, Sweeping, Idle

LEMMA SweepMarksStep == TypeOK /\ SweepMarks /\ [BrokerNext]_brokerVars => SweepMarks'
<1> SUFFICES ASSUME TypeOK, SweepMarks, [BrokerNext]_brokerVars PROVE SweepMarks'
  OBVIOUS
<1>1. CASE UNCHANGED <<marks, sweep>>
  BY <1>1 DEF SweepMarks, Sweeping
<1>2. ASSUME NEW newBars \in NewBars, OnBarBegin(newBars) PROVE SweepMarks'
  <2>1. DOMAIN newBars \subseteq Tickers
    BY DEF NewBars
  <2> QED
    BY <1>2, <2>1 DEF OnBarBegin, SweepMarks
<1>3. CASE OnBarOrder
  <2>1. marks' = marks /\ sweep'.bars = sweep.bars /\ Sweeping
    <3>1. Len(orders) \in Nat /\ DOMAIN orders = 1 .. Len(orders)
      BY LenProperties DEF TypeOK
    <3> QED
      BY <1>3, <3>1, SMT DEF OnBarOrder, TypeOK, Sweeping
  <2> QED
    BY <2>1 DEF SweepMarks
<1>4. CASE OnBarEnd
  BY <1>4 DEF OnBarEnd, SweepMarks, Sweeping, Idle
<1>5. ASSUME NEW request \in Requests, PlaceOrder(request) PROVE SweepMarks'
  BY <1>1, <1>5 DEF PlaceOrder
<1>6. ASSUME NEW i \in DOMAIN orders, CancelOrder(i) PROVE SweepMarks'
  BY <1>1, <1>6 DEF CancelOrder
<1>7. CASE ResetAccount
  BY <1>1, <1>7 DEF ResetAccount
<1>8. CASE UNCHANGED brokerVars
  BY <1>1, <1>8 DEF brokerVars
<1> QED
  BY <1>2, <1>3, <1>4, <1>5, <1>6, <1>7, <1>8 DEF BrokerNext, OnBar

(* A step that adds the fill of a market order fills one that passed the    *)
(* checks at the price its ticker is marked at.                             *)
MarketFill(o) ==
  /\ o.type = "MARKET" /\ marks' = marks
  /\ Passed(o, marks[o.ticker])
  /\ shares' = [shares EXCEPT ![o.ticker] = @ + Signed(o)]
  /\ cash' = cash - SideSign(o) * Value(o, marks[o.ticker]) - Fee(o, marks[o.ticker])
  /\ NewFill.ticker = o.ticker

LEMMA NewFillIs ==
  ASSUME fills \in Seq(Fill), NEW os \in Seq(Orders), NEW i \in DOMAIN os, NEW es, NEW ref \in Int,
         Passed(os[i], ref), ExecuteFill(i, ref, os, es), marks' = marks,
         os[i].type = "MARKET" => ref = marks[os[i].ticker],
         orders'[NewFill.order].type = "MARKET"
  PROVE  os[i] \in Orders /\ MarketFill(os[i])
<1> DEFINE o == os[i]
           fill == [order |-> i, price |-> FillPrice(o, ref), ticker |-> o.ticker,
                    signed |-> Signed(o), fee |-> Fee(o, ref)]
<1>1. o \in Orders /\ i \in Nat \ {0}
  BY ElementOfSeq, LenProperties
<1>2. fill \in Fill
  BY <1>1, MoneyTypes DEF Fill, Orders
<1>3. fills' = Append(fills, fill)
  BY DEF ExecuteFill
<1>4. NewFill = fill
  <2> HIDE DEF fill
  <2>1. Len(fills') = Len(fills) + 1 /\ fills'[Len(fills) + 1] = fill
    BY <1>2, <1>3, AppendProperties
  <2> QED
    BY <2>1 DEF NewFill
<1>5. NewFill.order = i /\ NewFill.ticker = o.ticker
  BY <1>4
<1>6. orders'[i] = [o EXCEPT !.status = "FILLED"]
  BY SetStatusEffect DEF ExecuteFill, Status
<1>7. o.type = "MARKET"
  BY <1>1, <1>5, <1>6 DEF Orders
<1> QED
  BY <1>1, <1>5, <1>7 DEF ExecuteFill, MarketFill

LEMMA MarketFillsPass ==
  ASSUME TypeOK, SweepMarks, [BrokerNext]_brokerVars,
         Len(fills') > Len(fills), orders'[NewFill.order].type = "MARKET"
  PROVE  \E o \in Orders : MarketFill(o)
<1>1. /\ fills \in Seq(Fill) /\ orders \in Seq(Orders) /\ Len(fills) \in Nat
      /\ Len(orders) \in Nat /\ DOMAIN orders = 1 .. Len(orders)
  BY LenProperties DEF TypeOK
<1>2. fills' # fills /\ fills' # <<>>
  BY <1>1, EmptySeq, SMT
<1>3. ASSUME NEW request \in Requests, PlaceOrder(request)
      PROVE  \E o \in Orders : MarketFill(o)
  <2> DEFINE o == Stored(request)
             i == Len(orders) + 1
             os == Append(orders, o)
             es == Recorded(events, "order_placed", i)
             ref == marks[o.ticker]
  <2>1. o \in Orders
    BY StoredIsOrder
  <2>2. os \in Seq(Orders) /\ i \in DOMAIN os /\ os[i] = o
    BY <1>1, <2>1, AppendProperties, LenProperties
  <2>3. ref \in Int
    BY <2>1, PricesAreNumbers DEF TypeOK, Orders
  <2>4. marks' = marks /\ CheckAndFill(i, ref, os, es)
    BY <1>2, <1>3 DEF PlaceOrder, Reject
  <2>5. Passed(os[i], ref) /\ ExecuteFill(i, ref, os, es)
    BY <1>2, <2>4 DEF CheckAndFill, Reject
  <2> HIDE DEF i, os, es
  <2> QED
    BY <1>1, <2>2, <2>3, <2>4, <2>5, NewFillIs
<1>4. CASE OnBarOrder
  <2> DEFINE i == sweep.next
             o == orders[i]
             ref == ExecutionPrice(o)
  <2>1. i \in DOMAIN orders /\ o \in Orders /\ marks' = marks /\ Sweeping
    BY <1>1, <1>4, ElementOfSeq, SMT DEF OnBarOrder, Sweeping
  <2>2. Due(o) /\ Passed(o, ref) /\ ExecuteFill(i, ref, orders, events)
    BY <1>2, <1>4 DEF OnBarOrder, CheckAndFill, Reject, account
  <2>3. ref \in Int
    <3>1. ref \in Nat
      BY <2>1, <2>2, ExecutedAtNat DEF Passed
    <3> QED
      BY <3>1
  <2>4. o.type = "MARKET" => ref = marks[o.ticker]
    BY <2>1, <2>2 DEF Due, ExecutionPrice, SweepMarks
  <2> HIDE DEF i, ref
  <2> QED
    BY <1>1, <2>1, <2>2, <2>3, <2>4, NewFillIs
<1>5. ASSUME NEW i \in DOMAIN orders, CancelOrder(i) PROVE FALSE
  BY <1>2, <1>5 DEF CancelOrder
<1>6. ASSUME NEW newBars \in NewBars, OnBarBegin(newBars) PROVE FALSE
  BY <1>2, <1>6 DEF OnBarBegin, account
<1>7. CASE OnBarEnd
  BY <1>2, <1>7 DEF OnBarEnd, account
<1>8. CASE ResetAccount
  BY <1>2, <1>8 DEF ResetAccount
<1>9. CASE UNCHANGED brokerVars
  BY <1>2, <1>9 DEF brokerVars
<1> QED
  BY <1>3, <1>4, <1>5, <1>6, <1>7, <1>8, <1>9 DEF BrokerNext, OnBar

(* The arithmetic of a fill: what it costs, less what the shares are worth. *)
LEMMA BalanceOfAFill ==
  ASSUME NEW money \in Int, NEW total \in Int, NEW moved \in Int, NEW slip \in Int,
         NEW gained \in Int, NEW fee \in Int, moved - slip = gained
  PROVE  (money - moved - fee) + (total + gained) = (money + total) - fee - slip
OBVIOUS

LEMMA PaidOrReceived ==
  ASSUME NEW sign \in Int, NEW value \in Int, NEW slip \in Int, NEW gained \in Int, NEW a \in Int,
         \/ sign = 1 /\ value = a + slip /\ gained = a
         \/ sign = -1 /\ value = a - slip /\ gained = - a
  PROVE  sign * value - slip = gained
OBVIOUS

(* The equity after a fill is what the check projected: the fee and the     *)
(* slippage are what is lost.                                               *)
LEMMA EquityIsProjected ==
  ASSUME TypeOK, TypeOK', NEW o \in Orders, MarketFill(o), EquityIsSum, EquityIsSum'
  PROVE  Equity' = ProjectedEquity(o, marks[o.ticker])
<1> DEFINE t == o.ticker
           ref == marks[t]
           unit == Scale * Scale
           v == Values
           w == Values'
<1>1. /\ Scale \in Nat /\ Slippage \in Nat /\ Commission \in Nat
      /\ ref \in Nat /\ t \in Tickers /\ o.qty \in Nat /\ cash \in Int /\ shares[t] \in Int
      /\ SideSign(o) \in {1, -1} /\ Signed(o) \in Int /\ Fee(o, ref) \in Int
      /\ FillPrice(o, ref) \in Int
  <2>1. t \in Tickers /\ o.qty \in Nat
    BY BrokerAssumption DEF Orders
  <2>2. marks \in [Tickers -> Prices \union {0}] /\ shares \in [Tickers -> Int] /\ cash \in Int
    BY DEF TypeOK
  <2>3. ref \in Nat
    BY <2>1, <2>2, PricesAreNumbers
  <2>4. Scale \in Nat /\ Slippage \in Nat /\ Commission \in Nat
    BY BrokerAssumption, SMT
  <2> HIDE DEF ref
  <2>5. /\ SideSign(o) \in {1, -1} /\ Signed(o) \in Int /\ Fee(o, ref) \in Int
        /\ FillPrice(o, ref) \in Int
    BY <2>3, MoneyTypes
  <2> QED
    BY <2>1, <2>2, <2>3, <2>4, <2>5
<1>2. /\ v \in [Tickers -> Int] /\ w \in [Tickers -> Int]
      /\ \A x \in Tickers : x # t => w[x] = v[x]
      /\ v[t] = shares[t] * ref * Scale * Scale
      /\ w[t] = (shares[t] + Signed(o)) * ref * Scale * Scale
  <2>1. \A x \in Tickers : /\ shares[x] \in Int /\ shares'[x] \in Int
                           /\ marks[x] \in Int /\ marks'[x] = marks[x]
                           /\ x # t => shares'[x] = shares[x]
                           /\ x = t => shares'[x] = shares[x] + Signed(o)
    <3>1. /\ \A x \in Tickers : shares[x] \in Int /\ shares'[x] \in Int
          /\ \A x \in Tickers : marks[x] \in Prices \union {0} /\ marks'[x] = marks[x]
      BY DEF TypeOK, MarketFill
    <3>2. shares' = [shares EXCEPT ![t] = @ + Signed(o)] /\ shares \in [Tickers -> Int]
      BY DEF TypeOK, MarketFill
    <3>3. \A x \in Tickers : /\ x # t => shares'[x] = shares[x]
                             /\ x = t => shares'[x] = shares[x] + Signed(o)
      BY <3>2, Zenon
    <3>4. \A x \in Tickers : marks[x] \in Int
      BY <3>1, PricesAreNumbers
    <3> QED
      BY <3>1, <3>3, <3>4
  <2>2. \A x \in Tickers : /\ shares[x] * marks[x] * Scale * Scale \in Int
                           /\ shares'[x] * marks'[x] * Scale * Scale \in Int
    <3> SUFFICES ASSUME NEW x \in Tickers
                 PROVE  /\ shares[x] * marks[x] * Scale * Scale \in Int
                        /\ shares'[x] * marks'[x] * Scale * Scale \in Int
      OBVIOUS
    <3>1. shares[x] * marks[x] \in Int /\ shares'[x] * marks'[x] \in Int
      BY <2>1, SMT
    <3>2. shares[x] * marks[x] * Scale \in Int /\ shares'[x] * marks'[x] * Scale \in Int
      BY <1>1, <3>1, SMT
    <3> QED
      BY <1>1, <3>2, SMT
  <2> QED
    BY <1>1, <2>1, <2>2 DEF Values
<1>3. PICK f : /\ \A s \in SUBSET Tickers : SumStep(v, f, s)
               /\ Equity = cash + f[Tickers]
  BY DEF EquityIsSum
<1>4. PICK g : /\ \A s \in SUBSET Tickers : SumStep(w, g, s)
               /\ Equity' = cash' + g[Tickers]
  BY DEF EquityIsSum, SumStep
<1> HIDE DEF v, w
<1>5. f[Tickers] \in Int /\ g[Tickers] = f[Tickers] + (w[t] - v[t])
  <2>1. IsFiniteSet(Tickers) /\ t \in Tickers
    BY <1>1, BrokerAssumption
  <2> HIDE DEF t
  <2>2. /\ v \in [Tickers -> Int] /\ w \in [Tickers -> Int]
        /\ \A x \in Tickers : x # t => w[x] = v[x]
        /\ \A s \in SUBSET Tickers : SumStep(v, f, s)
        /\ \A s \in SUBSET Tickers : SumStep(w, g, s)
    BY <1>2, <1>3, <1>4
  <2> QED
    BY <2>1, <2>2, SumsDiffer
<1>6. w[t] - v[t] = Signed(o) * ref * Scale * Scale
  <2>1. shares[t] * ref \in Int /\ Signed(o) * ref \in Int
        /\ (shares[t] + Signed(o)) * ref = shares[t] * ref + Signed(o) * ref
    BY <1>1, SMT
  <2> QED
    BY <1>1, <1>2, <2>1, SMT
<1>7. SideSign(o) * Value(o, ref) - SlippageCost(o, ref) = Signed(o) * ref * Scale * Scale
  <2>1. FillPrice(o, ref) = ref * Scale + SideSign(o) * (ref * Slippage)
    BY <1>1, SMT DEF FillPrice, MarketFill
  <2>2. ref * Slippage \in Nat /\ ref * Scale \in Nat
    BY <1>1, ProductNat
  <2>3. AbsInt(FillPrice(o, ref) - ref * Scale) = ref * Slippage
    BY <1>1, <2>1, <2>2, SMT DEF AbsInt
  <2>4. SlippageCost(o, ref) = ref * Slippage * o.qty * Scale
    BY <2>3 DEF SlippageCost
  <2>5. ref * Slippage * o.qty \in Nat /\ ref * Scale * o.qty \in Nat
    BY <1>1, <2>2, ProductNat
  <2> DEFINE a == ref * Scale * o.qty * Scale
             b == ref * Slippage * o.qty * Scale
  <2>8. a \in Int /\ b \in Int /\ SlippageCost(o, ref) = b
    BY <1>1, <2>4, <2>5, SMT
  <2>6. Value(o, ref) \in Int /\ Signed(o) * ref * Scale * Scale \in Int /\ SideSign(o) \in Int
    <3>1. Value(o, ref) \in Int /\ SideSign(o) \in Int
      BY <1>1, MoneyTypes
    <3>2. Signed(o) * ref \in Int
      BY <1>1, SMT
    <3>3. Signed(o) * ref * Scale \in Int
      BY <1>1, <3>2, SMT
    <3> QED
      BY <1>1, <3>1, <3>3, SMT
  <2>7. \/ SideSign(o) = 1 /\ Value(o, ref) = a + b /\ Signed(o) * ref * Scale * Scale = a
        \/ SideSign(o) = -1 /\ Value(o, ref) = a - b /\ Signed(o) * ref * Scale * Scale = - a
    <3>1. CASE SideSign(o) = 1
      <4>1. Value(o, ref) = a + b
        BY <1>1, <2>1, <2>2, <2>5, <3>1, SMT DEF Value
      <4>2. Signed(o) * ref * Scale * Scale = a
        BY <1>1, <2>5, <3>1, SMT DEF Signed
      <4> QED
        BY <3>1, <4>1, <4>2, Zenon
    <3>2. CASE SideSign(o) = -1
      <4>1. Value(o, ref) = a - b
        BY <1>1, <2>1, <2>2, <2>5, <3>2, SMT DEF Value
      <4>2. Signed(o) * ref * Scale * Scale = - a
        BY <1>1, <2>5, <3>2, SMT DEF Signed
      <4> QED
        BY <3>2, <4>1, <4>2, Zenon
    <3> QED
      BY <1>1, <3>1, <3>2, Zenon
  <2> DEFINE gained == Signed(o) * ref * Scale * Scale
             value == Value(o, ref)
             slip == SlippageCost(o, ref)
             sign == SideSign(o)
  <2>9. /\ sign \in Int /\ value \in Int /\ slip \in Int /\ gained \in Int /\ a \in Int
        /\ \/ sign = 1 /\ value = a + slip /\ gained = a
           \/ sign = -1 /\ value = a - slip /\ gained = - a
    <3>1. b = slip
      BY <2>8
    <3> HIDE DEF a, b, gained, value, sign
    <3> QED
      BY <2>6, <2>7, <2>8, <3>1, Zenon DEF gained, value, sign
  <2> HIDE DEF a, gained, value, slip, sign
  <2>10. sign * value - slip = gained
    BY <2>9, PaidOrReceived
  <2> QED
    BY <2>10 DEF gained, value, slip, sign
<1>8. cash' = cash - SideSign(o) * Value(o, ref) - Fee(o, ref)
  BY DEF MarketFill
<1>9. SideSign(o) * Value(o, ref) \in Int /\ SlippageCost(o, ref) \in Int
      /\ Signed(o) * ref * Scale * Scale \in Int
  <2>1. Value(o, ref) \in Int
    BY <1>1, MoneyTypes
  <2>2. SideSign(o) * Value(o, ref) \in Int
    BY <1>1, <2>1, SMT
  <2>3. Signed(o) * ref * Scale \in Int
    <3>1. Signed(o) * ref \in Int
      BY <1>1, SMT
    <3> QED
      BY <1>1, <3>1, SMT
  <2>4. SlippageCost(o, ref) \in Int
    <3>1. ref * Scale \in Int
      BY <1>1, SMT
    <3>2. AbsInt(FillPrice(o, ref) - ref * Scale) \in Int
      BY <1>1, <3>1, SMT DEF AbsInt
    <3>3. AbsInt(FillPrice(o, ref) - ref * Scale) * o.qty \in Int
      BY <1>1, <3>2, SMT
    <3> QED
      BY <1>1, <3>3, SMT DEF SlippageCost
  <2> QED
    BY <1>1, <2>2, <2>3, <2>4, SMT
<1>10. ProjectedEquity(o, ref) = Equity - Fee(o, ref) - SlippageCost(o, ref)
  BY DEF ProjectedEquity
<1> DEFINE moved == SideSign(o) * Value(o, ref)
           gained == Signed(o) * ref * Scale * Scale
           fee == Fee(o, ref)
           slip == SlippageCost(o, ref)
<1>11. /\ moved \in Int /\ slip \in Int /\ gained \in Int /\ fee \in Int /\ cash \in Int
       /\ moved - slip = gained
       /\ cash' = cash - moved - fee /\ w[t] - v[t] = gained
       /\ f[Tickers] \in Int /\ g[Tickers] = f[Tickers] + (w[t] - v[t])
       /\ ProjectedEquity(o, ref) = Equity - fee - slip
  BY <1>1, <1>5, <1>6, <1>7, <1>8, <1>9, <1>10
<1> HIDE DEF moved, gained, fee, slip
<1>12. Equity' = (cash - moved - fee) + (f[Tickers] + gained)
  BY <1>4, <1>11
<1>13. Equity = cash + f[Tickers]
  BY <1>3
<1>14. /\ moved \in Int /\ slip \in Int /\ gained \in Int /\ fee \in Int
       /\ cash \in Int /\ f[Tickers] \in Int /\ moved - slip = gained
  BY <1>11
<1> DEFINE total == f[Tickers]
<1> HIDE DEF total
<1>15. (cash - moved - fee) + (total + gained) = (cash + total) - fee - slip
  BY <1>14, BalanceOfAFill DEF total
<1> QED
  BY <1>11, <1>12, <1>13, <1>15, Zenon DEF total

(* A market order never leaves its position above the cap: what the check   *)
(* projected before the fill is the equity after it, costs included, for    *)
(* any number of tickers held.                                              *)
THEOREM FillsRespectTheCap == BrokerSpec => CapHoldsAfterMarketFill
<1>1. TypeOK /\ TypeOK' /\ SweepMarks /\ [BrokerNext]_brokerVars /\ EquityIsSum /\ EquityIsSum'
        => (Len(fills') > Len(fills) /\ orders'[NewFill.order].type = "MARKET" /\ Equity' > 0 =>
              AbsInt(shares'[NewFill.ticker]) * marks'[NewFill.ticker] * Scale * Scale * Scale
                <= MaxPosition * Equity')
  <2> SUFFICES ASSUME TypeOK, TypeOK', SweepMarks, [BrokerNext]_brokerVars,
                      EquityIsSum, EquityIsSum',
                      Len(fills') > Len(fills), orders'[NewFill.order].type = "MARKET", Equity' > 0
               PROVE  AbsInt(shares'[NewFill.ticker]) * marks'[NewFill.ticker]
                        * Scale * Scale * Scale <= MaxPosition * Equity'
    OBVIOUS
  <2>1. PICK o \in Orders : MarketFill(o)
    BY MarketFillsPass
  <2>2. Equity' = ProjectedEquity(o, marks[o.ticker])
    BY <2>1, EquityIsProjected
  <2>3. AbsInt(shares[o.ticker] + Signed(o)) * marks[o.ticker] * Scale * Scale * Scale
          <= MaxPosition * Equity'
    BY <2>1, <2>2 DEF MarketFill, Passed, WithinCap
  <2>4. /\ NewFill.ticker = o.ticker /\ marks' = marks
        /\ shares'[o.ticker] = shares[o.ticker] + Signed(o)
    BY <2>1 DEF MarketFill, TypeOK, Orders
  <2> QED
    BY <2>3, <2>4
<1>2. BrokerSpec => [](TypeOK /\ SweepMarks)
  BY SweepMarksInit, SweepMarksStep, BrokerTypeCorrect, PTL DEF BrokerSpec
<1> QED
  BY <1>1, <1>2, EquitySums, PTL DEF BrokerSpec, CapHoldsAfterMarketFill
-----------------------------------------------------------------------------
(* The run: the arithmetic of sizing.                                       *)

(* Floor division is between the division and the division less one. *)
LEMMA FloorDivision ==
  ASSUME NEW a \in Int, NEW b \in Int, b > 0
  PROVE  a \div b \in Int /\ (a \div b) * b <= a /\ a < ((a \div b) + 1) * b
  BY SMT

(* A whole number is within a quotient when its product is. *)
LEMMA WithinQuotient ==
  ASSUME NEW a \in Int, NEW b \in Int, b > 0, NEW n \in Int
  PROVE  n <= a \div b <=> n * b <= a
  BY SMT

(* The formula of a purchase from h to d shares that cost k each, and of a  *)
(* sale, say that d shares are worth at most t of the equity that is left.  *)
LEMMA BuyRule ==
  ASSUME NEW d \in Int, NEW h \in Int, NEW t \in Int, NEW w \in Int, NEW e \in Int, NEW k \in Int
  PROVE  d * (w + t * k) <= t * (e + h * k)  <=>  d * w <= t * (e - (d - h) * k)
  BY SMT

LEMMA SellRule ==
  ASSUME NEW d \in Int, NEW h \in Int, NEW t \in Int, NEW w \in Int, NEW e \in Int, NEW k \in Int
  PROVE  d * (w - t * k) <= t * (e - h * k)  <=>  d * w <= t * (e - (h - d) * k)
  BY SMT
-----------------------------------------------------------------------------
(* Money of the run, at an open p.                                          *)
ShareWeight(p) == SharePrice(p) * Scale
UnitCash(p) == p * (Scale + Slippage) * (Scale + Commission)

(* What a share costs to buy and to sell is less than what it is worth.     *)
LEMMA UnitMoney ==
  ASSUME NEW p \in Nat \ {0}
  PROVE  /\ Scale \in Nat \ {0} /\ Slippage \in Nat /\ Commission \in Nat
         /\ SharePrice(p) \in Nat \ {0} /\ ShareWeight(p) \in Nat \ {0}
         /\ BuyCost(p) \in Nat
         /\ SellCost(p) \in Nat /\ SellCost(p) < SharePrice(p)
         /\ UnitCash(p) = SharePrice(p) + BuyCost(p)
         /\ UnitCash(p) \in Nat \ {0}
<1>1. /\ Scale \in Nat /\ Scale > 0 /\ Slippage \in Nat /\ Commission \in Nat
      /\ Scale - Slippage \in Nat
  BY BrokerAssumption, SMT
<1>2. Scale * Scale \in Nat /\ Scale * Scale > 0
  BY <1>1, SMT
<1>3. p * (Scale * Scale) \in Nat /\ p * (Scale * Scale) > 0
  BY <1>2, SMT
<1>4. SharePrice(p) = p * (Scale * Scale)
  BY <1>1, SMT DEF SharePrice
<1>5. SharePrice(p) * Scale \in Nat /\ SharePrice(p) * Scale > 0
  BY <1>1, <1>3, <1>4, SMT
<1>6. /\ p * Slippage \in Nat /\ p * Slippage * Scale \in Nat
      /\ p * (Scale + Slippage) \in Nat /\ p * (Scale + Slippage) * Commission \in Nat
      /\ p * (Scale - Slippage) \in Nat /\ p * (Scale - Slippage) * Commission \in Nat
  <2>1. Scale + Slippage \in Nat
    BY <1>1, SMT
  <2>2. p * Slippage \in Nat /\ p * (Scale + Slippage) \in Nat /\ p * (Scale - Slippage) \in Nat
    BY <1>1, <2>1, ProductNat
  <2> QED
    BY <1>1, <2>2, ProductNat
<1>7. BuyCost(p) \in Nat /\ SellCost(p) \in Nat
  BY <1>6, SMT DEF BuyCost, SellCost
<1>8. SellCost(p) < SharePrice(p)
  <2> DEFINE rate == Slippage * Scale + (Scale - Slippage) * Commission
  <2>1. rate \in Int /\ rate < Scale * Scale
    BY <1>1, RunAssumption, SMT
  <2>2. SellCost(p) = p * rate
    BY <1>1, SMT DEF SellCost
  <2> HIDE DEF rate
  <2> QED
    BY <1>2, <1>4, <2>1, <2>2, SMT
<1>9. UnitCash(p) = SharePrice(p) + BuyCost(p)
  BY <1>1, SMT DEF UnitCash, SharePrice, BuyCost
<1> QED
  BY <1>1, <1>3, <1>4, <1>5, <1>7, <1>8, <1>9, SMT DEF ShareWeight

(* The number of shares to hold, d, against the rule of the target: with    *)
(* the costs of the trade taken off the equity, d shares are within the     *)
(* target and, unless the cash is short, d + 1 would not be.                *)
BoughtMoney(p, target, d) ==
  /\ d * ShareWeight(p) <= target * (PrefillEquity(p) - (d - Held) * BuyCost(p))
  /\ (d - Held) * UnitCash(p) <= cash
  /\ \/ (d + 1) * ShareWeight(p) > target * (PrefillEquity(p) - ((d + 1) - Held) * BuyCost(p))
     \/ ((d + 1) - Held) * UnitCash(p) > cash
SoldMoney(p, target, d) ==
  /\ d * ShareWeight(p) <= target * (PrefillEquity(p) - (Held - d) * SellCost(p))
  /\ (d + 1) * ShareWeight(p) > target * (PrefillEquity(p) - (Held - d - 1) * SellCost(p))

(* The sizing formulas of the runner obey the rule, and never sell to get   *)
(* more shares.                                                             *)
LEMMA Sizing ==
  ASSUME NEW p \in Nat \ {0}, NEW target \in 0 .. MaxPosition,
         Held \in Nat, cash \in Nat
  PROVE  /\ Desired(p, target) \in Nat
         /\ Desired(p, target) >= Held => BoughtMoney(p, target, Desired(p, target))
         /\ Desired(p, target) < Held => SoldMoney(p, target, Desired(p, target))
<1> DEFINE w == ShareWeight(p)
           e == PrefillEquity(p)
           b == BuyCost(p)
           s == SellCost(p)
           u == UnitCash(p)
           d == Desired(p, target)
<1>1. /\ w \in Nat /\ w > 0 /\ b \in Nat /\ s \in Nat /\ u \in Nat /\ u > 0
      /\ SharePrice(p) \in Nat /\ SharePrice(p) > 0 /\ s < SharePrice(p)
      /\ Scale \in Nat /\ Scale > 0
  BY UnitMoney, SMT
<1>2. target \in Nat /\ target <= Scale
  BY BrokerAssumption, RunAssumption, SMT
<1>3. e = cash + Held * SharePrice(p) /\ e \in Nat
  <2>1. e = cash + Held * SharePrice(p)
    BY <1>1, SMT DEF PrefillEquity, SharePrice
  <2>2. Held * SharePrice(p) \in Nat
    BY <1>1, ProductNat
  <2> QED
    BY <2>1, <2>2, SMT
<1>4. Scale * SharePrice(p) = w
  BY <1>1, SMT DEF ShareWeight
<1>5. target * b \in Nat /\ target * s \in Nat /\ target * s < w
  <2>1. target * b \in Nat /\ target * s \in Nat
    BY <1>1, <1>2, ProductNat
  <2>2. target * s <= Scale * s
    BY <1>1, <1>2, SMT
  <2>3. Scale * s < Scale * SharePrice(p)
    BY <1>1, SMT
  <2> QED
    BY <1>1, <1>4, <2>1, <2>2, <2>3, SMT
<1>6. Affordable1(p) \in Int /\ Affordable1(p) >= 0
      /\ Affordable1(p) * u <= cash /\ cash < (Affordable1(p) + 1) * u
  <2>1. Affordable1(p) = cash \div u
    BY DEF Affordable1, UnitCash
  <2>2. cash \in Int
    BY SMT
  <2> HIDE DEF u
  <2>3. 0 * u <= cash
    BY <1>1, SMT
  <2> QED
    BY <1>1, <2>1, <2>2, <2>3, FloorDivision, WithinQuotient, SMT
<1>7. CASE UncostedShares(p, target) >= Held
  <2> DEFINE q == BuyShares(p, target)
  <2>1. Held * w <= e * target
    <3>1. UncostedShares(p, target) = (e * target) \div w
      BY <1>4 DEF UncostedShares
    <3>2. e * target \in Int
      BY <1>2, <1>3, SMT
    <3> HIDE DEF w, e
    <3> QED
      BY <1>1, <1>7, <3>1, <3>2, WithinQuotient, SMT
  <2>2. q = (target * (e + Held * b)) \div (w + target * b)
    BY <1>4 DEF BuyShares
  <2> HIDE DEF w, e, b, u, d, q
  <2>3. target * (e + Held * b) \in Int /\ w + target * b \in Int /\ w + target * b > 0
    BY <1>1, <1>2, <1>3, <1>5, SMT
  <2>4. q \in Int /\ q * (w + target * b) <= target * (e + Held * b)
        /\ target * (e + Held * b) < (q + 1) * (w + target * b)
    BY <2>2, <2>3, FloorDivision
  <2>5. Held <= q
    <3>1. Held * (w + target * b) = Held * w + Held * (target * b)
      BY <1>1, <1>5, SMT
    <3>2. target * (e + Held * b) = e * target + Held * (target * b)
      BY <1>1, <1>2, <1>3, SMT
    <3>3. Held * (target * b) \in Int /\ Held * w \in Int /\ e * target \in Int
      BY <1>1, <1>2, <1>3, <1>5, SMT
    <3>4. Held * (w + target * b) <= target * (e + Held * b)
      BY <2>1, <3>1, <3>2, <3>3, SMT
    <3> QED
      BY <2>2, <2>3, <3>4, WithinQuotient
  <2>6. /\ d \in Nat /\ d >= Held
        /\ d = q \/ (d <= q /\ d = Held + Affordable1(p))
        /\ d - Held <= Affordable1(p)
    <3>1. d = IF q > Held THEN Least(q, Held + Affordable1(p)) ELSE q
      BY <1>7, <2>4, <2>5, SMT DEF d, q, Desired, Most
    <3> QED
      BY <1>6, <2>4, <2>5, <3>1, SMT DEF Least
  <2>7. BoughtMoney(p, target, d)
    <3>1. d * w <= target * (e - (d - Held) * b)
      <4>1. d * (w + target * b) <= q * (w + target * b)
        BY <2>3, <2>4, <2>6, SMT
      <4>2. d * (w + target * b) \in Int /\ q * (w + target * b) \in Int
        BY <2>3, <2>4, <2>6, SMT
      <4>3. d * (w + target * b) <= target * (e + Held * b)
        BY <2>3, <2>4, <4>1, <4>2, SMT
      <4> QED
        BY <1>1, <1>2, <1>3, <2>6, <4>3, BuyRule, SMT
    <3>2. (d - Held) * u <= cash
      <4>1. (d - Held) * u <= Affordable1(p) * u
        BY <1>1, <1>6, <2>6, SMT
      <4>2. (d - Held) * u \in Int /\ Affordable1(p) * u \in Int
        BY <1>1, <1>6, <2>6, SMT
      <4> QED
        BY <1>6, <4>1, <4>2, SMT
    <3>3. CASE d = q
      <4>1. ~ ((d + 1) * (w + target * b) <= target * (e + Held * b))
        <5>1. (d + 1) * (w + target * b) \in Int
          BY <2>3, <2>6, SMT
        <5> QED
          BY <2>3, <2>4, <3>3, <5>1, SMT
      <4>2. ~ ((d + 1) * w <= target * (e - ((d + 1) - Held) * b))
        <5>1. d + 1 \in Int
          BY <2>6, SMT
        <5> QED
          BY <1>1, <1>2, <1>3, <4>1, <5>1, BuyRule, SMT
      <4>3. (d + 1) * w \in Int /\ target * (e - ((d + 1) - Held) * b) \in Int
        <5>1. ((d + 1) - Held) * b \in Int
          BY <1>1, <2>6, SMT
        <5> QED
          BY <1>1, <1>2, <1>3, <2>6, <5>1, SMT
      <4> QED
        BY <3>1, <3>2, <4>2, <4>3, SMT DEF BoughtMoney, w, e, b, u
    <3>4. CASE d = Held + Affordable1(p)
      <4>1. (d + 1) - Held = Affordable1(p) + 1
        BY <1>6, <3>4, SMT
      <4>2. (Affordable1(p) + 1) * u > cash
        <5>1. (Affordable1(p) + 1) * u \in Int
          BY <1>1, <1>6, SMT
        <5> QED
          BY <1>6, <5>1, SMT
      <4> QED
        BY <3>1, <3>2, <4>1, <4>2 DEF BoughtMoney, w, e, b, u
    <3> QED
      BY <2>6, <3>3, <3>4
  <2> QED
    BY <2>6, <2>7, SMT DEF d
<1>8. CASE ~ (UncostedShares(p, target) >= Held)
  <2> DEFINE q == SellShares(p, target)
             v == w - target * s
  <2>1. e * target < Held * w
    <3>1. UncostedShares(p, target) = (e * target) \div w
      BY <1>4 DEF UncostedShares
    <3>2. e * target \in Int /\ Held * w \in Int
      BY <1>1, <1>2, <1>3, SMT
    <3> HIDE DEF w, e
    <3>3. (e * target) \div w \in Int
      BY <1>1, <3>2, FloorDivision
    <3>4. ~ (Held <= (e * target) \div w)
      BY <1>8, <3>1, <3>3, SMT
    <3>5. ~ (Held * w <= e * target)
      BY <1>1, <3>2, <3>4, WithinQuotient, SMT
    <3> QED
      BY <3>2, <3>5, SMT
  <2>2. q = (target * (e - Held * s)) \div v
    BY <1>4 DEF SellShares
  <2>3. target * (e - Held * s) \in Int /\ v \in Int /\ v > 0
    <3>1. Held * s \in Int
      BY <1>1, SMT
    <3> HIDE DEF w, e, s
    <3> QED
      BY <1>1, <1>2, <1>3, <1>5, <3>1, SMT
  <2>4. q \in Int /\ q * v <= target * (e - Held * s) /\ target * (e - Held * s) < (q + 1) * v
    <3> HIDE DEF w, v, e, s, q, d, u
    <3> QED
      BY <2>2, <2>3, FloorDivision
  <2> HIDE DEF w, e, s, u, d, q
  <2>5. q < Held
    <3>1. Held * v = Held * w - Held * (target * s)
      BY <1>1, <1>5, SMT
    <3>2. target * (e - Held * s) = e * target - Held * (target * s)
      BY <1>1, <1>2, <1>3, SMT
    <3>3. Held * (target * s) \in Int /\ Held * w \in Int /\ e * target \in Int
      BY <1>1, <1>2, <1>3, <1>5, SMT
    <3>4. ~ (Held * v <= target * (e - Held * s))
      BY <2>1, <3>1, <3>2, <3>3, SMT
    <3> HIDE DEF v
    <3>5. ~ (Held <= q)
      BY <2>2, <2>3, <3>4, WithinQuotient
    <3> QED
      BY <2>4, <3>5, SMT
  <2>6. Held > 0
    <3>1. e * target \in Nat
      BY <1>2, <1>3, ProductNat
    <3>2. Held = 0 => Held * w = 0
      BY <1>1, SMT
    <3> QED
      BY <2>1, <3>1, <3>2, SMT
  <2>7. d = Most(0, q) /\ d \in Nat /\ d < Held
    <3>1. Most(0, q) \in Nat /\ Most(0, q) < Held
      BY <2>4, <2>5, <2>6, SMT DEF Most
    <3>2. d = IF Most(0, q) > Held THEN Least(Most(0, q), Held + Affordable1(p)) ELSE Most(0, q)
      BY <1>8 DEF d, q, Desired
    <3> QED
      BY <3>1, <3>2, SMT
  <2>8. d * v <= target * (e - Held * s) /\ target * (e - Held * s) < (d + 1) * v
    <3>1. q <= d /\ (d = q \/ (d = 0 /\ q < 0))
      BY <2>4, <2>7, SMT DEF Most
    <3> HIDE DEF v
    <3>2. d = 0 => d * v <= target * (e - Held * s)
      <4>1. Held * s <= Held * SharePrice(p)
        BY <1>1, SMT
      <4>2. Held * s \in Nat /\ Held * SharePrice(p) \in Nat
        BY <1>1, ProductNat
      <4>3. e - Held * s \in Nat
        BY <1>3, <4>1, <4>2, SMT
      <4>4. target * (e - Held * s) \in Nat
        BY <1>2, <4>3, ProductNat
      <4>5. d = 0 => d * v = 0
        BY <2>3, SMT
      <4> QED
        BY <4>4, <4>5, SMT
    <3>3. (q + 1) * v <= (d + 1) * v
      BY <2>3, <2>4, <2>7, <3>1, SMT
    <3>4. (q + 1) * v \in Int /\ (d + 1) * v \in Int
      BY <2>3, <2>4, <2>7, SMT
    <3>5. target * (e - Held * s) < (d + 1) * v
      BY <2>3, <2>4, <3>3, <3>4, SMT
    <3> QED
      BY <2>4, <3>1, <3>2, <3>5
  <2>9. SoldMoney(p, target, d)
    <3>1. d * w <= target * (e - (Held - d) * s)
      BY <1>1, <1>2, <1>3, <2>7, <2>8, SellRule, SMT
    <3>2. ~ ((d + 1) * v <= target * (e - Held * s))
      <4>1. (d + 1) * v \in Int
        BY <2>3, <2>7, SMT
      <4> QED
        BY <2>3, <2>8, <4>1, SMT
    <3>3. ~ ((d + 1) * w <= target * (e - (Held - (d + 1)) * s))
      <4>1. d + 1 \in Int
        BY <2>7, SMT
      <4> QED
        BY <1>1, <1>2, <1>3, <3>2, <4>1, SellRule, SMT
    <3>4. Held - (d + 1) = Held - d - 1
      BY <2>7, SMT
    <3>5. (d + 1) * w \in Int /\ target * (e - (Held - (d + 1)) * s) \in Int
      <4>1. (Held - (d + 1)) * s \in Int
        BY <1>1, <2>7, SMT
      <4> QED
        BY <1>1, <1>2, <1>3, <2>7, <4>1, SMT
    <3> QED
      BY <3>1, <3>3, <3>4, <3>5, SMT DEF SoldMoney, w, e, s
  <2> QED
    BY <2>7, <2>9, SMT DEF d
<1> QED
  BY <1>7, <1>8
-----------------------------------------------------------------------------
(* The order of a placement.                                                *)

(* The equity of an account with one ticker is its cash and that position.  *)
LEMMA EquityIs ==
  ASSUME shares[Ticker] * marks[Ticker] * Scale * Scale \in Int
  PROVE  Equity = cash + shares[Ticker] * marks[Ticker] * Scale * Scale
<1>1. PICK f : /\ \A s \in SUBSET Tickers : SumStep(Values, f, s)
               /\ Equity = cash + f[Tickers]
  BY EquitySums DEF EquityIsSum
<1>2. Tickers = {Ticker} /\ {} \in SUBSET Tickers /\ {Ticker} \in SUBSET Tickers
      /\ Picked({Ticker}) = Ticker /\ {Ticker} \ {Ticker} = {}
  BY RunAssumption DEF Picked
<1>3. f[{}] = 0 /\ f[{Ticker}] = Values[Ticker] + f[{}]
  BY <1>1, <1>2 DEF SumStep
<1>4. Values[Ticker] = shares[Ticker] * marks[Ticker] * Scale * Scale
  BY <1>2 DEF Values
<1> HIDE DEF Values
<1>5. f[Tickers] = shares[Ticker] * marks[Ticker] * Scale * Scale
  BY <1>2, <1>3, <1>4, SMT
<1> QED
  BY <1>1, <1>5

(* The money of a market order for a number of shares that is not 0.        *)
LEMMA OrderMoney ==
  ASSUME NEW p \in Nat \ {0}, NEW delta \in Int \ {0}
  PROVE  LET o == Stored(MarketRequest(delta)) IN
    /\ Signed(o) = delta
    /\ delta > 0 =>
         /\ o.side = "BUY"
         /\ SideSign(o) * Value(o, p) + Fee(o, p) = delta * UnitCash(p)
         /\ Value(o, p) + Fee(o, p) = delta * UnitCash(p)
         /\ Fee(o, p) + SlippageCost(o, p) = delta * BuyCost(p)
    /\ ~ (delta > 0) =>
         /\ o.side = "SELL"
         /\ SideSign(o) * Value(o, p) + Fee(o, p) = delta * (SharePrice(p) - SellCost(p))
         /\ Fee(o, p) + SlippageCost(o, p) = (-delta) * SellCost(p)
    /\ Value(o, p) \in Int /\ Fee(o, p) \in Int /\ SlippageCost(o, p) \in Int
<1> DEFINE o == Stored(MarketRequest(delta))
           x == p * Scale * Scale
           y == p * Slippage * Scale
           z == p * (Scale + Slippage) * Commission
           r == p * (Scale - Slippage) * Commission
<1>1. Scale \in Nat /\ Slippage \in Nat /\ Commission \in Nat /\ p \in Nat
  BY UnitMoney
<1>2. /\ o.type = "MARKET" /\ o.qty = AbsInt(delta)
      /\ o.side = IF delta > 0 THEN "BUY" ELSE "SELL"
  BY DEF Stored, MarketRequest
<1>3. p * Slippage \in Nat
  BY <1>1, ProductNat
<1>4. CASE delta > 0
  <2>1. o.side = "BUY" /\ o.qty = delta /\ SideSign(o) = 1
    BY <1>2, <1>4, SMT DEF SideSign, AbsInt
  <2>2. FillPrice(o, p) = p * (Scale + Slippage)
    BY <1>1, <1>2, <2>1, SMT DEF FillPrice
  <2>3. AbsInt(FillPrice(o, p) - p * Scale) = p * Slippage
    <3>1. FillPrice(o, p) - p * Scale = p * Slippage
      BY <1>1, <2>2, SMT
    <3> QED
      BY <1>3, <3>1, SMT DEF AbsInt
  <2> HIDE DEF o
  <2>4. Value(o, p) = p * (Scale + Slippage) * delta * Scale
    BY <2>1, <2>2 DEF Value
  <2>5. Fee(o, p) = p * (Scale + Slippage) * delta * Commission
    BY <2>1, <2>2 DEF Fee
  <2>6. SlippageCost(o, p) = p * Slippage * delta * Scale
    BY <2>1, <2>3 DEF SlippageCost
  <2>7. Value(o, p) + Fee(o, p) = delta * UnitCash(p)
    BY <1>1, <2>4, <2>5, SMT DEF UnitCash
  <2>8. Fee(o, p) + SlippageCost(o, p) = delta * BuyCost(p)
    BY <1>1, <2>5, <2>6, SMT DEF BuyCost
  <2>9. Signed(o) = delta /\ SideSign(o) * Value(o, p) = Value(o, p)
    BY <1>1, <2>1, <2>4, SMT DEF Signed
  <2>10. Value(o, p) \in Int /\ Fee(o, p) \in Int /\ SlippageCost(o, p) \in Int
    BY <1>1, <2>4, <2>5, <2>6, SMT
  <2> QED
    BY <1>4, <2>1, <2>7, <2>8, <2>9, <2>10 DEF o
<1>5. CASE ~ (delta > 0)
  <2> DEFINE n == -delta
  <2>1. o.side = "SELL" /\ o.qty = n /\ SideSign(o) = -1 /\ n \in Nat
    BY <1>2, <1>5, SMT DEF SideSign, AbsInt
  <2>2. FillPrice(o, p) = p * (Scale - Slippage)
    BY <1>1, <1>2, <2>1, SMT DEF FillPrice
  <2>3. AbsInt(FillPrice(o, p) - p * Scale) = p * Slippage
    <3>1. FillPrice(o, p) - p * Scale = - (p * Slippage)
      BY <1>1, <2>2, SMT
    <3> QED
      BY <1>3, <3>1, SMT DEF AbsInt
  <2> HIDE DEF o
  <2>4. Value(o, p) = p * (Scale - Slippage) * n * Scale
    BY <2>1, <2>2 DEF Value
  <2>5. Fee(o, p) = p * (Scale - Slippage) * n * Commission
    BY <2>1, <2>2 DEF Fee
  <2>6. SlippageCost(o, p) = p * Slippage * n * Scale
    BY <2>1, <2>3 DEF SlippageCost
  <2>7. SideSign(o) * Value(o, p) + Fee(o, p) = delta * (SharePrice(p) - SellCost(p))
    BY <1>1, <2>1, <2>4, <2>5, SMT DEF SharePrice, SellCost
  <2>8. Fee(o, p) + SlippageCost(o, p) = n * SellCost(p)
    BY <1>1, <2>1, <2>5, <2>6, SMT DEF SellCost
  <2>9. Signed(o) = delta
    BY <2>1, SMT DEF Signed
  <2>10. Value(o, p) \in Int /\ Fee(o, p) \in Int /\ SlippageCost(o, p) \in Int
    BY <1>1, <2>1, <2>4, <2>5, <2>6, SMT
  <2> QED
    BY <1>5, <2>1, <2>7, <2>8, <2>9, <2>10 DEF o
<1> QED
  BY <1>4, <1>5

(* The broker accepts the order that takes the position to the shares the   *)
(* runner wants, at the open the account is marked at.                      *)
Wanted(p, target) == Stored(MarketRequest(Desired(p, target) - Held))

LEMMA SizedPasses ==
  ASSUME NEW p \in Nat \ {0}, NEW target \in 0 .. MaxPosition,
         Held \in Nat, cash \in Nat, marks[Ticker] = p,
         Desired(p, target) # Held
  PROVE  Passed(Wanted(p, target), p)
<1> DEFINE d == Desired(p, target)
           delta == d - Held
           o == Wanted(p, target)
           e == PrefillEquity(p)
<1>1. d \in Nat /\ delta \in Int \ {0}
  <2>1. d \in Nat
    BY Sizing
  <2> HIDE DEF d
  <2> QED
    BY <2>1, SMT DEF d
<1>2. o.ticker = Ticker /\ o.type = "MARKET" /\ o.qty = AbsInt(delta)
  BY DEF Wanted, Stored, MarketRequest
<1>3. Equity = e /\ e \in Int
  <2>1. Held * p * Scale * Scale \in Int
    <3>1. Scale \in Nat
      BY UnitMoney
    <3> QED
      BY <3>1, SMT
  <2>2. Equity = cash + shares[Ticker] * marks[Ticker] * Scale * Scale
    BY <2>1, EquityIs DEF Held
  <2> QED
    BY <2>1, <2>2, SMT DEF PrefillEquity, Held
<1>4. Signed(o) = delta /\ AbsInt(Held + delta) = d
  <2>1. Signed(o) = delta
    BY <1>1, OrderMoney DEF Wanted
  <2>2. Held + delta = d
    BY <1>1, SMT
  <2> QED
    BY <1>1, <2>1, <2>2, SMT DEF AbsInt
<1>5. d * p * Scale * Scale * Scale = d * ShareWeight(p) /\ d * ShareWeight(p) \in Int
  <2>1. Scale \in Nat
    BY UnitMoney
  <2> HIDE DEF d
  <2> QED
    BY <1>1, <2>1, SMT DEF ShareWeight, SharePrice
<1>6. ASSUME NEW k \in Int, ProjectedEquity(o, p) = k,
             d * ShareWeight(p) <= target * k
      PROVE  WithinCap(o, p)
  <2>1. ASSUME k > 0
        PROVE  d * ShareWeight(p) <= MaxPosition * k
    <3>1. MaxPosition \in Nat /\ target \in Nat /\ target <= MaxPosition
      BY BrokerAssumption, SMT
    <3>2. target * k <= MaxPosition * k
      BY <1>6, <2>1, <3>1, SMT
    <3>3. target * k \in Int /\ MaxPosition * k \in Int
      BY <1>6, <3>1, SMT
    <3> QED
      BY <1>5, <1>6, <3>2, <3>3, SMT
  <2> HIDE DEF d, o
  <2> QED
    BY <1>2, <1>4, <1>5, <1>6, <2>1 DEF WithinCap, Held
<1>7. CASE delta > 0
  <2>1. BoughtMoney(p, target, d) /\ ~ (d < Held) /\ d >= Held
    <3>1. d >= Held /\ ~ (d < Held)
      BY <1>1, <1>7, SMT
    <3> QED
      BY <3>1, Sizing
  <2>2. o.side = "BUY" /\ Value(o, p) + Fee(o, p) = delta * UnitCash(p)
        /\ Fee(o, p) + SlippageCost(o, p) = delta * BuyCost(p)
        /\ Fee(o, p) \in Int /\ SlippageCost(o, p) \in Int
    <3> HIDE DEF delta
    <3> QED
      BY <1>1, <1>7, OrderMoney DEF Wanted, delta
  <2>3. Affordable(o, p)
    BY <2>1, <2>2 DEF Affordable, BoughtMoney
  <2>4. ProjectedEquity(o, p) = e - delta * BuyCost(p)
    <3> HIDE DEF o, e, delta
    <3>1. BuyCost(p) \in Int /\ delta * BuyCost(p) \in Int
      BY <1>1, UnitMoney, SMT
    <3> QED
      BY <1>3, <2>2, <3>1, SMT DEF ProjectedEquity
  <2>5. e - delta * BuyCost(p) \in Int
    <3> HIDE DEF e, delta
    <3> QED
      BY <1>1, <1>3, UnitMoney, SMT
  <2>6. WithinCap(o, p)
    BY <1>6, <2>1, <2>4, <2>5 DEF BoughtMoney
  <2> QED
    BY <1>2, <2>2, <2>3, <2>6 DEF Passed, LimitIsPositive, Covered
<1>8. CASE ~ (delta > 0)
  <2>1. SoldMoney(p, target, d) /\ d < Held
    <3>1. d < Held
      BY <1>1, <1>8, SMT
    <3> QED
      BY <3>1, Sizing
  <2>2. o.side = "SELL" /\ Fee(o, p) + SlippageCost(o, p) = (-delta) * SellCost(p)
        /\ Fee(o, p) \in Int /\ SlippageCost(o, p) \in Int
    <3> HIDE DEF delta
    <3> QED
      BY <1>1, <1>8, OrderMoney DEF Wanted, delta
  <2>3. -delta = Held - d /\ o.qty <= shares[Ticker]
    BY <1>1, <1>2, <1>8, SMT DEF AbsInt, Held
  <2>4. ProjectedEquity(o, p) = e - (Held - d) * SellCost(p)
    <3>1. SellCost(p) \in Int /\ (Held - d) * SellCost(p) \in Int
      BY <1>1, UnitMoney, SMT
    <3> HIDE DEF o, e, delta, d
    <3> QED
      BY <1>3, <2>2, <2>3, <3>1, SMT DEF ProjectedEquity
  <2>5. e - (Held - d) * SellCost(p) \in Int
    <3> HIDE DEF e, d
    <3> QED
      BY <1>1, <1>3, UnitMoney, SMT
  <2>6. WithinCap(o, p)
    BY <1>6, <2>1, <2>4, <2>5 DEF SoldMoney
  <2> QED
    BY <1>2, <2>2, <2>3, <2>6 DEF Passed, LimitIsPositive, Covered, Affordable
<1> QED
  BY <1>7, <1>8
(* The position is at the target: TargetReachedFromBelow at the open, with  *)
(* the equity written as the runner writes it.                              *)
AtTarget ==
  LET p == today.open IN
    /\ Held * SharePrice(p) * Scale <= placed.target * PrefillEquity(p)
    /\ IF SoldToReach
         THEN ~ ((Held + 1) * SharePrice(p) * Scale
                   <= placed.target * (PrefillEquity(p) + SellCost(p)))
         ELSE ~ /\ UnitCash(p) <= cash
                /\ (Held + 1) * SharePrice(p) * Scale
                     <= placed.target * (PrefillEquity(p) - BuyCost(p))

(* Nothing has to be traded to be at the target.                            *)
LEMMA AlreadyAtTarget ==
  ASSUME today.open \in Nat \ {0}, placed.target \in 0 .. MaxPosition,
         placed.order = 0, Held \in Nat, cash \in Nat,
         Desired(today.open, placed.target) = Held
  PROVE  AtTarget
<1> DEFINE p == today.open
           t == placed.target
           e == PrefillEquity(p)
           b == BuyCost(p)
           w == ShareWeight(p)
<1>1. BoughtMoney(p, t, Held)
  <2>1. Held >= Held
    BY SMT
  <2> QED
    BY <2>1, Sizing
<1>2. /\ w \in Nat /\ b \in Nat /\ UnitCash(p) \in Nat /\ SharePrice(p) \in Nat /\ Scale \in Nat
  BY UnitMoney
<1>3. e = cash + Held * SharePrice(p) /\ e \in Nat /\ t \in Nat
  <2>1. e = cash + Held * SharePrice(p)
    BY <1>2, SMT DEF PrefillEquity, SharePrice
  <2>2. Held * SharePrice(p) \in Nat
    BY <1>2, ProductNat
  <2> QED
    BY <2>1, <2>2, BrokerAssumption, SMT
<1> HIDE DEF e, b, w, t, p
<1>4. (Held - Held) * b = 0 /\ ((Held + 1) - Held) * b = b
      /\ ((Held + 1) - Held) * UnitCash(p) = UnitCash(p)
  BY <1>2, SMT
<1>5. /\ Held * w <= t * (e - (Held - Held) * b)
      /\ \/ (Held + 1) * w > t * (e - ((Held + 1) - Held) * b)
         \/ ((Held + 1) - Held) * UnitCash(p) > cash
  BY <1>1 DEF BoughtMoney, e, b, w
<1>6. /\ Held * w <= t * e
      /\ (Held + 1) * w > t * (e - b) \/ UnitCash(p) > cash
  <2>1. e - 0 = e
    BY <1>3, SMT
  <2> QED
    BY <1>4, <1>5, <2>1
<1>7. Held * w = Held * SharePrice(p) * Scale /\ (Held + 1) * w = (Held + 1) * SharePrice(p) * Scale
  BY <1>2, SMT DEF w, ShareWeight
<1>8. (Held + 1) * w \in Int /\ t * (e - b) \in Int
  BY <1>2, <1>3, SMT
<1>9. ~ SoldToReach
  BY DEF SoldToReach
<1>10. ~ (UnitCash(p) <= cash /\ (Held + 1) * w <= t * (e - b))
  BY <1>2, <1>6, <1>8, SMT
<1> QED
  BY <1>6, <1>7, <1>9, <1>10 DEF AtTarget, e, b, t, p

(* The fill of the order the runner wanted takes the position to the target *)
(* and never the cash below 0.                                              *)
LEMMA FillReachesTarget ==
  ASSUME NEW i, i = placed.order, i # 0, i \in DOMAIN orders,
         today.open \in Nat \ {0}, placed.target \in 0 .. MaxPosition,
         Held \in Nat, cash \in Nat, Ticker \in DOMAIN shares,
         Desired(today.open, placed.target) # Held,
         orders[i] = Wanted(today.open, placed.target),
         ExecuteFill(i, today.open, orders, events),
         UNCHANGED <<today, placed>>
  PROVE  Held' \in Nat /\ cash' \in Nat /\ AtTarget'  
<1> DEFINE p == today.open
           t == placed.target
           d == Desired(p, t)
           delta == d - Held
           o == Wanted(p, t)
           e == PrefillEquity(p)
           b == BuyCost(p)
           s == SellCost(p)
           w == ShareWeight(p)
           u == UnitCash(p)
           sp == SharePrice(p)
<1>1. d \in Nat /\ delta \in Int \ {0}
  <2>1. d \in Nat
    BY Sizing
  <2> HIDE DEF d
  <2> QED
    BY <2>1, SMT DEF d
<1>2. /\ w \in Nat /\ b \in Nat /\ s \in Nat /\ u \in Nat /\ sp \in Nat /\ Scale \in Nat
      /\ s < sp /\ u = sp + b
  BY UnitMoney
<1>3. e = cash + Held * sp /\ e \in Nat /\ t \in Nat
  <2>1. e = cash + Held * sp
    BY <1>2, SMT DEF PrefillEquity, SharePrice
  <2>2. Held * sp \in Nat
    BY <1>2, ProductNat
  <2> QED
    BY <2>1, <2>2, BrokerAssumption, SMT
<1>4. /\ Held' = d
      /\ cash' = cash - SideSign(o) * Value(o, p) - Fee(o, p)
      /\ Value(o, p) \in Int /\ Fee(o, p) \in Int
      /\ orders'[i].side = o.side
  <2>1. o.ticker = Ticker
    BY DEF Wanted, Stored, MarketRequest
  <2>2. Signed(o) = delta /\ Value(o, p) \in Int /\ Fee(o, p) \in Int
    BY <1>1, OrderMoney DEF Wanted
  <2>3. shares' = [shares EXCEPT ![Ticker] = @ + delta]
    BY <2>1, <2>2 DEF ExecuteFill
  <2>4. Held' = Held + delta
    BY <2>3 DEF Held
  <2>5. Held + delta = d
    BY <1>1, SMT
  <2>6. orders' = [orders EXCEPT ![i].status = "FILLED"]
    BY DEF ExecuteFill, SetStatus
  <2>7. orders'[i].side = o.side
    BY <2>6 DEF Wanted, Stored
  <2> QED
    BY <2>2, <2>4, <2>5, <2>7 DEF ExecuteFill
<1>5. /\ PrefillEquity(p)' = cash' + d * p * Scale * Scale
      /\ AtTarget' <=>
           /\ d * sp * Scale <= t * PrefillEquity(p)'
           /\ IF SoldToReach'
                THEN ~ ((d + 1) * sp * Scale <= t * (PrefillEquity(p)' + s))
                ELSE ~ (u <= cash' /\ (d + 1) * sp * Scale <= t * (PrefillEquity(p)' - b))
  <2>1. /\ BuyCost(today.open)' = b /\ SellCost(today.open)' = s
        /\ SharePrice(today.open)' = sp /\ UnitCash(today.open)' = u
        /\ placed'.target = t /\ today'.open = p
    BY DEF BuyCost, SellCost, SharePrice, UnitCash
  <2>2. PrefillEquity(today.open)' = cash' + Held' * p * Scale * Scale
    BY <2>1 DEF PrefillEquity
  <2>3. PrefillEquity(p)' = cash' + Held' * p * Scale * Scale
    BY <2>2
  <2> HIDE DEF d
  <2> QED
    BY <1>4, <2>1, <2>2 DEF AtTarget
<1>6. SoldToReach' <=> o.side = "SELL"
  BY <1>4 DEF SoldToReach
<1> HIDE DEF w, b, s, u, sp, e
<1>7. d * w = d * sp * Scale /\ (d + 1) * w = (d + 1) * sp * Scale
      /\ d * p * Scale * Scale = d * sp
  <2> HIDE DEF d
  <2> QED
    BY <1>1, <1>2, SMT DEF w, sp, ShareWeight, SharePrice
<1>8. CASE delta > 0
  <2>1. /\ d * w <= t * (e - delta * b)
        /\ delta * u <= cash
        /\ (d + 1) * w > t * (e - ((d + 1) - Held) * b) \/ ((d + 1) - Held) * u > cash
        /\ d > Held
    <3>1. d >= Held /\ ~ (d < Held) /\ d > Held
      BY <1>1, <1>8, SMT
    <3> QED
      BY <3>1, Sizing DEF BoughtMoney, w, e, b, u
  <2>2. o.side = "BUY" /\ SideSign(o) * Value(o, p) + Fee(o, p) = delta * u
    <3> HIDE DEF delta
    <3> QED
      BY <1>1, <1>8, OrderMoney DEF Wanted, delta, u
  <2>3. cash' = cash - delta * u
    <3>1. SideSign(o) * Value(o, p) \in Int
      BY <1>4, <2>2, SMT DEF SideSign
    <3> HIDE DEF o, delta
    <3> QED
      BY <1>4, <2>2, <3>1, SMT
  <2> HIDE DEF o, d, p, t
  <2>4. cash' \in Nat
    <3>1. delta * u \in Int
      BY <1>1, <1>2, SMT
    <3> QED
      BY <2>1, <2>3, <3>1, SMT
  <2>5. PrefillEquity(p)' = e - delta * b
    <3>1. cash' + d * sp = e - delta * b
      BY <1>1, <1>2, <1>3, <2>3, SMT
    <3> QED
      BY <1>5, <1>7, <3>1
  <2>6. ((d + 1) - Held) * b = delta * b + b /\ ((d + 1) - Held) * u = delta * u + u
    BY <1>1, <1>2, SMT
  <2>7. ~ (u <= cash' /\ (d + 1) * w <= t * ((e - delta * b) - b))
    <3>1. delta * b \in Int /\ delta * u \in Int
      BY <1>1, <1>2, SMT
    <3>2. e - (delta * b + b) = (e - delta * b) - b
      BY <1>2, <1>3, <3>1, SMT
    <3>3. t * ((e - delta * b) - b) \in Int /\ (d + 1) * w \in Int
      BY <1>1, <1>2, <1>3, <3>1, SMT
    <3>4. (d + 1) * w > t * ((e - delta * b) - b) \/ delta * u + u > cash
      BY <2>1, <2>6, <3>2
    <3> HIDE DEF delta
    <3>5. CASE delta * u + u > cash
      BY <1>2, <2>3, <3>1, <3>5, SMT
    <3>6. CASE (d + 1) * w > t * ((e - delta * b) - b)
      BY <3>3, <3>6, SMT
    <3> QED
      BY <3>4, <3>5, <3>6
  <2>8. ~ SoldToReach'
    BY <1>6, <2>2
  <2> QED
    BY <1>1, <1>4, <1>5, <1>7, <2>1, <2>4, <2>5, <2>7, <2>8 DEF d, p, t
<1>9. CASE ~ (delta > 0)
  <2>1. /\ d * w <= t * (e - (Held - d) * s)
        /\ (d + 1) * w > t * (e - (Held - d - 1) * s)
        /\ d < Held
    <3>1. d < Held
      BY <1>1, <1>9, SMT
    <3> QED
      BY <3>1, Sizing DEF SoldMoney, w, e, s
  <2>2. o.side = "SELL" /\ SideSign(o) * Value(o, p) + Fee(o, p) = delta * (sp - s)
    <3> HIDE DEF delta
    <3> QED
      BY <1>1, <1>9, OrderMoney DEF Wanted, delta, sp, s
  <2>3. cash' = cash - delta * (sp - s)
    <3>1. SideSign(o) * Value(o, p) \in Int
      BY <1>4, <2>2, SMT DEF SideSign
    <3>2. delta * (sp - s) \in Int
      BY <1>1, <1>2, SMT
    <3> HIDE DEF o, delta
    <3> QED
      BY <1>4, <2>2, <3>1, <3>2, SMT
  <2> HIDE DEF o, d, p, t
  <2>4. cash' = cash + (Held - d) * (sp - s) /\ cash' \in Nat
    <3>1. Held - d \in Nat /\ sp - s \in Nat
      BY <1>1, <1>2, <2>1, SMT
    <3>2. (Held - d) * (sp - s) \in Nat
      BY <3>1, ProductNat
    <3>3. delta * (sp - s) = - ((Held - d) * (sp - s))
      BY <1>1, <1>2, SMT
    <3> QED
      BY <2>3, <3>2, <3>3, SMT
  <2>5. PrefillEquity(p)' = e - (Held - d) * s
    <3>1. cash' + d * sp = e - (Held - d) * s
      BY <1>1, <1>2, <1>3, <2>4, SMT
    <3> QED
      BY <1>5, <1>7, <3>1
  <2>6. ~ ((d + 1) * w <= t * ((e - (Held - d) * s) + s))
    <3>1. e - (Held - d - 1) * s = (e - (Held - d) * s) + s
      BY <1>1, <1>2, <1>3, SMT
    <3>2. (Held - d) * s \in Int
      BY <1>1, <1>2, SMT
    <3>3. t * ((e - (Held - d) * s) + s) \in Int /\ (d + 1) * w \in Int
      BY <1>1, <1>2, <1>3, <3>2, SMT
    <3> QED
      BY <2>1, <3>1, <3>3, SMT
  <2>7. SoldToReach'
    BY <1>6, <2>2
  <2> QED
    BY <1>1, <1>4, <1>5, <1>7, <2>1, <2>4, <2>5, <2>6, <2>7 DEF d, p, t
<1> QED
  BY <1>8, <1>9
-----------------------------------------------------------------------------
(* The inductive invariant.                                                 *)
RunOrders ==
  [ticker : {Ticker}, side : {"BUY", "SELL"}, type : {"MARKET"}, qty : Nat, limit : {0},
   client : {NoClient}, status : {"NEW", "FILLED"}]

(* The order placed at this open has not been visited by on_bar. *)
Waiting == phase = "sweep" /\ placed.order # 0 /\ sweep.next <= Len(orders)

BookTyped ==
  /\ orders \in Seq(RunOrders)
  /\ signals \in Seq(Nat) /\ Len(signals) = Len(orders)
  /\ Ticker \in DOMAIN shares
  /\ bars \in Nat /\ sweep.next \in Nat
  /\ sweep = [bars |-> sweep.bars, next |-> sweep.next]

(* No short position and no debt. *)
AccountIsGood == Held \in Nat /\ cash \in Nat

(* An intent is of the bar that has just closed, and within the limit. *)
IntentIsFresh ==
  /\ phase \in {"sweep", "close"} => intent = NoIntent
  /\ phase = "open" =>
       intent = NoIntent \/ (intent.target \in 0 .. MaxPosition /\ intent.bar = bars)

(* Only the order of this bar can be open: it is the last one, it was       *)
(* decided on the bar before, and it is for the shares the runner wants.    *)
OneOpenOrder ==
  /\ \A i \in DOMAIN orders :
       orders[i].status = IF Waiting /\ i = Len(orders) THEN "NEW" ELSE "FILLED"
  /\ Waiting =>
       /\ Desired(today.open, placed.target) # Held
       /\ orders[Len(orders)] = Wanted(today.open, placed.target)
       /\ signals[Len(orders)] = IF Sweeping THEN bars - 1 ELSE bars

PlacementIs ==
  phase = "sweep" =>
    /\ today.open \in Nat \ {0}
    /\ placed = NoPlacement \/ (placed.target \in 0 .. MaxPosition
                                /\ placed.order \in {0, Len(orders)})

(* on_bar runs in phase "sweep", with the account marked at the open. *)
SweepIs ==
  Sweeping =>
    phase = "sweep" /\ marks[Ticker] = today.open /\ DOMAIN sweep.bars = {Ticker}
      /\ sweep.bars[Ticker] = today

TargetIs ==
  phase = "sweep" /\ placed # NoPlacement =>
    /\ placed.order = 0 => Desired(today.open, placed.target) = Held
    /\ placed.order # 0 /\ ~ Waiting => AtTarget

RunInv ==
  /\ BookTyped /\ AccountIsGood /\ IntentIsFresh /\ OneOpenOrder /\ PlacementIs
  /\ SweepIs /\ TargetIs
(* What the invariant says of the orders and of their number.               *)
LEMMA BookFacts ==
  ASSUME BookTyped
  PROVE  /\ Len(orders) \in Nat /\ DOMAIN orders = 1 .. Len(orders)
         /\ Len(signals) = Len(orders) /\ DOMAIN signals = 1 .. Len(orders)
         /\ \A i \in DOMAIN orders : orders[i] \in RunOrders
  BY LenProperties, ElementOfSeq DEF BookTyped

LEMMA InitRunInv == RunInit => RunInv
<1> SUFFICES ASSUME RunInit PROVE RunInv
  OBVIOUS
<1> USE DEF RunInit, BrokerInit, NewAccount
<1>1. BookTyped
  <2>1. orders = <<>> /\ signals = <<>> /\ <<>> \in Seq(RunOrders) /\ <<>> \in Seq(Nat)
    BY EmptySeq
  <2>2. Ticker \in DOMAIN shares
    BY RunAssumption
  <2> QED
    BY <2>1, <2>2 DEF BookTyped, Idle
<1>2. AccountIsGood
  <2>1. InitialCash \in Nat /\ Scale \in Nat
    BY BrokerAssumption
  <2>2. InitialCash * Scale * Scale \in Nat
    BY <2>1, ProductNat
  <2>3. Held = 0
    BY RunAssumption DEF Held
  <2> QED
    BY <2>2, <2>3 DEF AccountIsGood
<1>3. ~ Waiting /\ ~ Sweeping /\ phase = "open" /\ intent = NoIntent
  BY DEF Waiting, Sweeping, Idle
<1>4. DOMAIN orders = {}
  BY EmptySeq
<1> QED
  BY <1>1, <1>2, <1>3, <1>4
  DEF RunInv, IntentIsFresh, OneOpenOrder, PlacementIs, SweepIs, TargetIs

(* An order is placed with its signal, which is the bar that has closed.    *)
LEMMA OpenBarStep == RunInv /\ OpenBar => RunInv'
<1> SUFFICES ASSUME RunInv, OpenBar PROVE RunInv'
  OBVIOUS
<1> USE DEF RunInv
<1>1. PICK o \in Prices, c \in Prices :
         LET delta == Desired(o, intent.target) - Held IN
           /\ today' = Row(o, c)
           /\ IF intent = NoIntent \/ delta = 0
                THEN /\ UNCHANGED <<brokerVars, signals>>
                     /\ placed' = IF intent = NoIntent THEN NoPlacement
                                  ELSE [target |-> intent.target, order |-> 0]
                ELSE /\ PlaceOrder(MarketRequest(delta))
                     /\ Submitted
                     /\ placed' = [target |-> intent.target, order |-> Len(orders) + 1]
  BY DEF OpenBar
<1>2. /\ phase = "open" /\ phase' = "sweep" /\ intent' = NoIntent
      /\ today'.open = o /\ o \in Nat \ {0}
  BY <1>1, BrokerAssumption DEF OpenBar, Consume, Row
<1>3. ~ Sweeping /\ sweep.next = 0 /\ ~ Waiting
  BY <1>2 DEF SweepIs, Sweeping, Waiting
<1>4. Len(orders) \in Nat /\ DOMAIN orders = 1 .. Len(orders)
  BY BookFacts
<1>5. \A i \in DOMAIN orders : orders[i].status = "FILLED"
  BY <1>3 DEF OneOpenOrder
<1>6. IntentIsFresh'
  BY <1>2 DEF IntentIsFresh
<1>7. CASE intent = NoIntent
  <2>1. UNCHANGED <<brokerVars, signals>> /\ placed' = NoPlacement
    BY <1>1, <1>7
  <2>2. UNCHANGED <<orders, shares, cash, marks, sweep, bars>>
    BY <2>1 DEF brokerVars
  <2>3. ~ Waiting' /\ ~ Sweeping'
    BY <1>3, <2>1, <2>2 DEF Waiting, Sweeping, NoPlacement
  <2>4. BookTyped' /\ AccountIsGood'
    BY <2>1, <2>2 DEF BookTyped, AccountIsGood, Held
  <2> QED
    BY <1>2, <1>5, <1>6, <2>1, <2>2, <2>3, <2>4
    DEF OneOpenOrder, PlacementIs, SweepIs, TargetIs
<1>8. CASE intent # NoIntent
  <2> DEFINE target == intent.target
             d == Desired(o, target)
  <2>1. target \in 0 .. MaxPosition /\ intent.bar = bars
    BY <1>2, <1>8 DEF IntentIsFresh
  <2>2. d \in Nat /\ Held \in Nat
    BY <1>2, <2>1, Sizing DEF AccountIsGood
  <2>3. ASSUME UNCHANGED <<shares, cash>>, placed'.target = target
        PROVE  /\ Desired(today.open, placed.target)' = d
               /\ Held' = Held
               /\ Wanted(today.open, placed.target)' = Wanted(o, target)
    <3>1. Held' = Held /\ cash' = cash
      BY <2>3 DEF Held
    <3>2. Desired(today.open, placed.target)' = d
      BY <1>2, <2>3, <3>1
      DEF Desired, UncostedShares, BuyShares, SellShares, Affordable1, PrefillEquity,
          SharePrice, BuyCost, SellCost, Most, Least
    <3> QED
      BY <3>1, <3>2 DEF Wanted, Stored, MarketRequest
  <2>4. CASE d - Held = 0
    <3>1. UNCHANGED <<brokerVars, signals>> /\ placed' = [target |-> target, order |-> 0]
      BY <1>1, <1>8, <2>4
    <3>2. UNCHANGED <<orders, shares, cash, marks, sweep, bars>>
      BY <3>1 DEF brokerVars
    <3>3. ~ Waiting' /\ ~ Sweeping'
      BY <1>3, <3>1, <3>2 DEF Waiting, Sweeping
    <3>4. BookTyped' /\ AccountIsGood'
      BY <3>1, <3>2 DEF BookTyped, AccountIsGood, Held
    <3>5. d = Held
      <4> HIDE DEF d
      <4> QED
        BY <2>2, <2>4, SMT
    <3>6. TargetIs'
      BY <2>3, <3>1, <3>2, <3>5 DEF TargetIs
    <3> QED
      BY <1>2, <1>5, <1>6, <2>1, <3>1, <3>2, <3>3, <3>4, <3>6
      DEF OneOpenOrder, PlacementIs, SweepIs
  <2>5. CASE d - Held # 0
    <3> DEFINE new == Wanted(o, target)
    <3>1. /\ PlaceOrder(MarketRequest(d - Held)) /\ Submitted
          /\ placed' = [target |-> target, order |-> Len(orders) + 1]
      BY <1>1, <1>8, <2>5
    <3>2. /\ orders' = Append(orders, new)
          /\ UNCHANGED <<shares, cash, marks, sweep, bars>>
      <4>1. new.type = "MARKET" /\ NextOpen /\ Stored(MarketRequest(d - Held)) = new
        BY RunAssumption DEF Wanted, Stored, MarketRequest
      <4> HIDE DEF new, d
      <4> QED
        BY <3>1, <4>1 DEF PlaceOrder
    <3>3. signals' = Append(signals, bars)
      BY <2>1, <3>1 DEF Submitted
    <3>4. new \in RunOrders /\ new.status = "NEW"
      <4>1. AbsInt(d - Held) \in Nat
        <5> HIDE DEF d
        <5> QED
          BY <2>2, SMT DEF AbsInt
      <4> QED
        BY <4>1 DEF Wanted, Stored, MarketRequest, RunOrders
    <3> HIDE DEF new
    <3>5. /\ orders' \in Seq(RunOrders) /\ Len(orders') = Len(orders) + 1
          /\ DOMAIN orders' = 1 .. (Len(orders) + 1)
          /\ \A i \in DOMAIN orders : orders'[i] = orders[i]
          /\ orders'[Len(orders) + 1] = new
      BY <1>4, <3>2, <3>4, AppendProperties, LenProperties DEF BookTyped
    <3>6. /\ signals' \in Seq(Nat) /\ Len(signals') = Len(orders) + 1
          /\ signals'[Len(orders) + 1] = bars
      BY <3>3, AppendProperties DEF BookTyped
    <3>7. Waiting' /\ ~ Sweeping'
      <4>1. sweep'.next = 0 /\ placed'.order = Len(orders) + 1 /\ Len(orders') = Len(orders) + 1
        BY <1>3, <3>1, <3>2, <3>5
      <4> QED
        BY <1>2, <1>4, <4>1, SMT DEF Waiting, Sweeping
    <3>8. BookTyped'
      BY <3>2, <3>5, <3>6 DEF BookTyped
    <3>9. AccountIsGood'
      BY <3>2 DEF AccountIsGood, Held
    <3>10. OneOpenOrder'
      <4>1. \A i \in DOMAIN orders' :
               orders'[i].status = IF i = Len(orders') THEN "NEW" ELSE "FILLED"
        <5> SUFFICES ASSUME NEW i \in DOMAIN orders'
                     PROVE  orders'[i].status = IF i = Len(orders') THEN "NEW" ELSE "FILLED"
          OBVIOUS
        <5>1. CASE i = Len(orders) + 1
          BY <3>4, <3>5, <5>1
        <5>2. CASE i # Len(orders) + 1
          <6>1. i \in DOMAIN orders
            BY <1>4, <3>5, <5>2, SMT
          <6> QED
            BY <1>5, <3>5, <5>2, <6>1
        <5> QED
          BY <5>1, <5>2
      <4>2. d # Held
        <5> HIDE DEF d
        <5> QED
          BY <2>2, <2>5, SMT
      <4> HIDE DEF d
      <4> QED
        BY <2>3, <3>1, <3>2, <3>5, <3>6, <3>7, <4>1, <4>2 DEF OneOpenOrder, new
    <3>11. PlacementIs'
      BY <1>2, <2>1, <3>1, <3>5 DEF PlacementIs
    <3>12. SweepIs'
      BY <3>7 DEF SweepIs
    <3>13. TargetIs'
      <4>1. placed'.order # 0
        BY <1>4, <3>1, SMT
      <4> QED
        BY <3>7, <4>1 DEF TargetIs
    <3> QED
      BY <1>6, <3>8, <3>9, <3>10, <3>11, <3>12, <3>13
  <2> QED
    BY <2>4, <2>5
<1> QED
  BY <1>7, <1>8

(* on_bar begins: the account is marked at the open.                        *)
LEMMA OnBarBeginStep ==
  /\ RunInv /\ phase = "sweep" /\ OnBarBegin([t \in {Ticker} |-> today])
  /\ UNCHANGED <<phase, today, intent, placed, signals>>
  => RunInv'
<1> DEFINE rows == [t \in {Ticker} |-> today]
<1> SUFFICES ASSUME RunInv, phase = "sweep", OnBarBegin(rows),
                    UNCHANGED <<phase, today, intent, placed, signals>>
             PROVE  RunInv'
  OBVIOUS
<1> USE DEF RunInv
<1>1. /\ ~ Sweeping /\ bars' = bars + 1 /\ sweep' = [bars |-> rows, next |-> 1]
      /\ UNCHANGED <<orders, shares, cash>>
      /\ marks'[Ticker] = today.open
  <2>1. marks' = [t \in Tickers |->
                   IF t \notin DOMAIN rows THEN marks[t]
                   ELSE IF NextOpen THEN rows[t].open ELSE rows[t].close]
    BY DEF OnBarBegin
  <2>2. Ticker \in Tickers /\ NextOpen
    BY RunAssumption
  <2> QED
    BY <2>1, <2>2 DEF OnBarBegin, account
<1>2. Len(orders) \in Nat /\ bars \in Nat
  BY BookFacts DEF BookTyped
<1>3. sweep.next = 0 /\ Sweeping' /\ sweep'.next = 1
  BY <1>1 DEF Sweeping
<1>4. placed = NoPlacement \/ placed.order \in {0, Len(orders)}
  BY DEF PlacementIs
<1>5. Waiting' <=> Waiting
  <2>1. placed.order # 0 => placed.order = Len(orders) /\ 1 <= Len(orders) /\ 0 <= Len(orders)
    BY <1>2, <1>4, SMT DEF NoPlacement
  <2> QED
    BY <1>1, <1>3, <2>1 DEF Waiting
<1>6. BookTyped' /\ AccountIsGood' /\ IntentIsFresh'
  BY <1>1, <1>2, <1>3 DEF BookTyped, AccountIsGood, IntentIsFresh, Held
<1>7. /\ Desired(today.open, placed.target)' = Desired(today.open, placed.target)
      /\ Wanted(today.open, placed.target)' = Wanted(today.open, placed.target)
      /\ Held' = Held
  <2>1. Held' = Held /\ cash' = cash /\ today' = today /\ placed' = placed
    BY <1>1 DEF Held
  <2>2. Desired(today.open, placed.target)' = Desired(today.open, placed.target)
    BY <2>1
    DEF Desired, UncostedShares, BuyShares, SellShares, Affordable1, PrefillEquity,
        SharePrice, BuyCost, SellCost, Most, Least
  <2> QED
    BY <2>1, <2>2 DEF Wanted, Stored, MarketRequest
<1>8. OneOpenOrder'
  <2>1. bars' - 1 = bars
    BY <1>1, <1>2, SMT
  <2> QED
    BY <1>1, <1>3, <1>5, <1>7, <2>1 DEF OneOpenOrder, Sweeping
<1>9. PlacementIs'
  BY <1>1 DEF PlacementIs
<1>10. SweepIs'
  BY <1>1 DEF SweepIs
<1>11. TargetIs'
  <2>1. placed # NoPlacement /\ placed.order # 0 => Waiting
    <3>1. placed # NoPlacement /\ placed.order # 0 => 0 <= Len(orders)
      BY <1>2, SMT
    <3> QED
      BY <1>3, <3>1 DEF Waiting
  <2> QED
    BY <1>5, <1>7, <2>1 DEF TargetIs
<1> QED
  BY <1>6, <1>8, <1>9, <1>10, <1>11

(* The order of this bar is filled at the open when on_bar visits it; a     *)
(* visit of any other order changes nothing.                                *)
LEMMA VisitEffect ==
  ASSUME RunInv, phase = "sweep", OnBarOrder
  PROVE  \/ /\ Waiting /\ sweep.next = Len(orders)
            /\ ExecuteFill(sweep.next, today.open, orders, events)
         \/ ~ (Waiting /\ sweep.next = Len(orders)) /\ UNCHANGED account
<1> USE DEF RunInv
<1> DEFINE i == sweep.next
<1>1. /\ Len(orders) \in Nat /\ DOMAIN orders = 1 .. Len(orders)
      /\ i \in DOMAIN orders /\ i \in 1 .. Len(orders)
      /\ orders[i] \in RunOrders
  BY BookFacts DEF OnBarOrder
<1>2. Sweeping /\ marks[Ticker] = today.open /\ DOMAIN sweep.bars = {Ticker}
      /\ sweep.bars[Ticker] = today
  <2>1. Sweeping
    BY <1>1, SMT DEF Sweeping
  <2> QED
    BY <2>1 DEF SweepIs
<1>3. CASE Waiting /\ i = Len(orders)
  <2> DEFINE p == today.open
             t == placed.target
  <2>1. /\ placed = NoPlacement \/ (placed.target \in 0 .. MaxPosition
                                    /\ placed.order \in {0, Len(orders)})
        /\ p \in Nat \ {0}
    BY DEF PlacementIs
  <2>2. /\ t \in 0 .. MaxPosition /\ orders[i].status = "NEW"
        /\ Desired(p, t) # Held /\ orders[i] = Wanted(p, t)
    BY <1>1, <1>3, <2>1, SMT DEF Waiting, OneOpenOrder, NoPlacement
  <2>3. Due(orders[i]) /\ ExecutionPrice(orders[i]) = p
    <3>1. orders[i].ticker = Ticker /\ orders[i].type = "MARKET" /\ NextOpen
      BY <1>1, RunAssumption DEF RunOrders
    <3> QED
      BY <1>2, <2>2, <3>1 DEF Due, ExecutionPrice
  <2>4. Passed(orders[i], p)
    BY <1>2, <2>1, <2>2, SizedPasses DEF AccountIsGood
  <2> QED
    BY <1>3, <2>3, <2>4 DEF OnBarOrder, CheckAndFill
<1>4. CASE ~ (Waiting /\ i = Len(orders))
  <2>1. orders[i].status # "NEW"
    BY <1>1, <1>4 DEF OneOpenOrder
  <2> QED
    BY <1>4, <2>1 DEF OnBarOrder, Due
<1> QED
  BY <1>3, <1>4

(* on_bar visits an order: the one that waits is filled, the others stay.   *)
LEMMA OnBarOrderStep ==
  /\ RunInv /\ phase = "sweep" /\ OnBarOrder
  /\ UNCHANGED <<phase, today, intent, placed, signals>>
  => RunInv'
<1> SUFFICES ASSUME RunInv, phase = "sweep", OnBarOrder,
                    UNCHANGED <<phase, today, intent, placed, signals>>
             PROVE  RunInv'
  OBVIOUS
<1> USE DEF RunInv
<1> DEFINE i == sweep.next
<1>1. /\ Len(orders) \in Nat /\ DOMAIN orders = 1 .. Len(orders)
      /\ i \in DOMAIN orders /\ i \in 1 .. Len(orders)
      /\ orders[i] \in RunOrders
  BY BookFacts DEF OnBarOrder
<1>2. Sweeping /\ marks[Ticker] = today.open /\ DOMAIN sweep.bars = {Ticker}
      /\ sweep.bars[Ticker] = today
  <2>1. Sweeping
    BY <1>1, SMT DEF Sweeping
  <2> QED
    BY <2>1 DEF SweepIs
<1>3. /\ sweep' = [bars |-> sweep.bars, next |-> i + 1]
      /\ sweep'.next = i + 1 /\ sweep'.bars = sweep.bars
      /\ UNCHANGED <<marks, bars>>
  <2>1. sweep' = [sweep EXCEPT !.next = i + 1] /\ UNCHANGED <<marks, bars>>
    BY DEF OnBarOrder
  <2>2. sweep' = [bars |-> sweep.bars, next |-> i + 1]
    BY <2>1 DEF BookTyped
  <2> QED
    BY <2>1, <2>2
<1>4. Sweeping' /\ i + 1 \in Nat
  BY <1>1, <1>3, SMT DEF Sweeping
<1>5. IntentIsFresh' /\ SweepIs'
  BY <1>2, <1>3 DEF IntentIsFresh, SweepIs
<1>6. /\ placed = NoPlacement \/ (placed.target \in 0 .. MaxPosition
                                /\ placed.order \in {0, Len(orders)})
      /\ today.open \in Nat \ {0}
  BY DEF PlacementIs
<1>7. CASE Waiting /\ i = Len(orders)
  <2> DEFINE p == today.open
             t == placed.target
  <2>1. /\ placed.order = i /\ i # 0 /\ t \in 0 .. MaxPosition /\ placed # NoPlacement
        /\ orders[i].status = "NEW"
        /\ Desired(p, t) # Held /\ orders[i] = Wanted(p, t)
    BY <1>1, <1>6, <1>7, SMT DEF Waiting, OneOpenOrder, NoPlacement
  <2>2. Held \in Nat /\ cash \in Nat
    BY DEF AccountIsGood
  <2>5. ExecuteFill(i, p, orders, events)
    BY <1>7, VisitEffect
  <2>6. Held' \in Nat /\ cash' \in Nat /\ AtTarget'
    <3>1. Ticker \in DOMAIN shares
      BY DEF BookTyped
    <3> QED
      BY <1>1, <1>6, <2>1, <2>2, <2>5, <3>1, FillReachesTarget
  <2>7. /\ orders' \in Seq(RunOrders) /\ Len(orders') = Len(orders)
        /\ DOMAIN orders' = DOMAIN orders
        /\ \A k \in DOMAIN orders : k # i => orders'[k] = orders[k]
        /\ orders'[i].status = "FILLED"
    <3> DEFINE filled == [orders[i] EXCEPT !.status = "FILLED"]
    <3>1. orders' = [orders EXCEPT ![i] = filled]
      BY <2>5 DEF ExecuteFill, SetStatus
    <3>2. filled \in RunOrders /\ filled.status = "FILLED"
      BY <1>1 DEF RunOrders
    <3> HIDE DEF filled
    <3>3. orders \in Seq(RunOrders)
      BY DEF BookTyped
    <3> QED
      BY <1>1, <3>1, <3>2, <3>3, ExceptSeq, LenProperties
  <2>8. ~ Waiting'
    BY <1>1, <1>3, <1>7, <2>7, SMT DEF Waiting
  <2>9. BookTyped'
    <3>1. DOMAIN shares' = DOMAIN shares
      BY <2>5 DEF ExecuteFill
    <3> QED
      BY <1>3, <1>4, <2>7, <3>1 DEF BookTyped
  <2>10. OneOpenOrder'
    <3>1. \A k \in DOMAIN orders' : orders'[k].status = "FILLED"
      BY <1>7, <2>7 DEF OneOpenOrder
    <3> QED
      BY <2>8, <3>1 DEF OneOpenOrder
  <2>11. PlacementIs'
    BY <2>7 DEF PlacementIs
  <2>12. TargetIs'
    BY <2>1, <2>6 DEF TargetIs
  <2> QED
    BY <1>5, <2>6, <2>9, <2>10, <2>11, <2>12 DEF AccountIsGood
<1>8. CASE ~ (Waiting /\ i = Len(orders))
  <2>1. UNCHANGED account
    BY <1>8, VisitEffect
  <2>2. UNCHANGED <<orders, shares, cash>> /\ Held' = Held
    BY <2>1 DEF account, Held
  <2>3. Waiting' <=> Waiting
    <3>1. CASE placed.order = 0
      BY <3>1 DEF Waiting
    <3>2. CASE placed.order # 0
      <4>1. Waiting
        BY <1>1, <3>2, SMT DEF Waiting
      <4>2. sweep'.next <= Len(orders)
        BY <1>1, <1>3, <1>8, <4>1, SMT
      <4> QED
        BY <2>2, <4>1, <4>2 DEF Waiting
    <3> QED
      BY <3>1, <3>2
  <2>4. BookTyped' /\ AccountIsGood'
    BY <1>3, <1>4, <2>2 DEF BookTyped, AccountIsGood
  <2>5. /\ Desired(today.open, placed.target)' = Desired(today.open, placed.target)
        /\ Wanted(today.open, placed.target)' = Wanted(today.open, placed.target)
    <3>1. Desired(today.open, placed.target)' = Desired(today.open, placed.target)
      BY <2>2
      DEF Desired, UncostedShares, BuyShares, SellShares, Affordable1, PrefillEquity,
          SharePrice, BuyCost, SellCost, Most, Least
    <3> QED
      BY <2>2, <3>1 DEF Wanted, Stored, MarketRequest
  <2>6. OneOpenOrder'
    BY <1>2, <1>3, <1>4, <2>2, <2>3, <2>5 DEF OneOpenOrder
  <2>7. PlacementIs'
    BY <2>2 DEF PlacementIs
  <2>8. TargetIs'
    <3>1. placed.order # 0 => Waiting
      BY <1>1, SMT DEF Waiting
    <3> QED
      BY <2>2, <2>3, <2>5, <3>1 DEF TargetIs
  <2> QED
    BY <1>5, <2>4, <2>6, <2>7, <2>8
<1> QED
  BY <1>7, <1>8

(* on_bar ends: every order has been visited, and none is open.             *)
LEMMA OnBarEndStep ==
  /\ RunInv /\ phase = "sweep" /\ OnBarEnd /\ phase' = "close"
  /\ UNCHANGED <<today, intent, placed, signals>>
  => RunInv'
<1> SUFFICES ASSUME RunInv, phase = "sweep", OnBarEnd, phase' = "close",
                    UNCHANGED <<today, intent, placed, signals>>
             PROVE  RunInv'
  OBVIOUS
<1> USE DEF RunInv
<1>1. sweep' = Idle /\ UNCHANGED <<orders, shares, cash, bars>> /\ sweep.next = Len(orders) + 1
  BY DEF OnBarEnd, account
<1>2. ~ Waiting /\ ~ Waiting' /\ ~ Sweeping'
  <2>1. ~ (sweep.next <= Len(orders))
    BY <1>1, BookFacts, SMT
  <2> QED
    BY <1>1, <2>1 DEF Waiting, Sweeping, Idle
<1>3. BookTyped'
  BY <1>1 DEF BookTyped, Idle
<1>4. AccountIsGood' /\ IntentIsFresh'
  BY <1>1 DEF AccountIsGood, IntentIsFresh, Held
<1> QED
  BY <1>1, <1>2, <1>3, <1>4 DEF OneOpenOrder, PlacementIs, SweepIs, TargetIs

(* A decision at the end of a bar is an intent of that bar.                 *)
LEMMA CloseBarStep == RunInv /\ CloseBar => RunInv'
<1> SUFFICES ASSUME RunInv, CloseBar PROVE RunInv'
  OBVIOUS
<1> USE DEF RunInv
<1>1. /\ phase = "close" /\ phase' \in {"done", "open", "failed"}
      /\ UNCHANGED <<orders, shares, cash, marks, sweep, bars, today, placed, signals>>
  BY DEF CloseBar, brokerVars
<1>2. ~ Waiting /\ ~ Waiting' /\ ~ Sweeping /\ ~ Sweeping'
  BY <1>1 DEF Waiting, SweepIs, Sweeping
<1>3. BookTyped' /\ AccountIsGood'
  BY <1>1 DEF BookTyped, AccountIsGood, Held
<1>4. IntentIsFresh'
  <2>1. intent = NoIntent
    BY <1>1 DEF IntentIsFresh
  <2>2. CASE intent' = intent
    BY <1>1, <2>1, <2>2 DEF IntentIsFresh
  <2>3. CASE \E target \in Targets :
               target <= MaxPosition /\ intent' = [target |-> target, bar |-> bars]
    <3>1. PICK target \in Targets :
             target <= MaxPosition /\ intent' = [target |-> target, bar |-> bars]
      BY <2>3
    <3>2. target \in 0 .. MaxPosition
      <4>1. target \in Nat /\ MaxPosition \in Nat
        BY BrokerAssumption, RunAssumption
      <4> QED
        BY <3>1, <4>1, SMT
    <3> QED
      BY <1>1, <3>1, <3>2 DEF IntentIsFresh
  <2> QED
    BY <2>2, <2>3 DEF CloseBar
<1> QED
  BY <1>1, <1>2, <1>3, <1>4 DEF OneOpenOrder, PlacementIs, SweepIs, TargetIs

(* Every step of the run keeps the invariant. *)
LEMMA NextRunInv == RunInv /\ [RunNext]_vars => RunInv'
<1> SUFFICES ASSUME RunInv, [RunNext]_vars PROVE RunInv'
  OBVIOUS
<1>1. CASE OpenBar
  BY <1>1, OpenBarStep
<1>2. CASE Sweep
  <2>1. phase = "sweep" /\ UNCHANGED <<today, intent, placed, signals>>
    BY <1>2 DEF Sweep
  <2>2. CASE OnBarBegin([t \in {Ticker} |-> today]) /\ UNCHANGED phase
    BY <2>1, <2>2, OnBarBeginStep
  <2>3. CASE OnBarOrder /\ UNCHANGED phase
    BY <2>1, <2>3, OnBarOrderStep
  <2>4. CASE OnBarEnd /\ phase' = "close"
    BY <2>1, <2>4, OnBarEndStep
  <2> QED
    BY <1>2, <2>2, <2>3, <2>4 DEF Sweep
<1>3. CASE CloseBar
  BY <1>3, CloseBarStep
<1>4. CASE UNCHANGED vars
  <2>1. /\ BookTyped /\ AccountIsGood /\ IntentIsFresh /\ OneOpenOrder
        /\ PlacementIs /\ SweepIs /\ TargetIs
    BY DEF RunInv
  <2>2. /\ UNCHANGED <<orders, shares, cash, fills, events, marks, sweep, bars>>
        /\ UNCHANGED <<phase, today, intent, placed, signals>>
    BY <1>4 DEF vars, brokerVars, runVars
  <2>3. (Waiting' <=> Waiting) /\ (Sweeping' <=> Sweeping) /\ Held' = Held
    <3>1. Waiting' <=> Waiting
      BY <2>2, Zenon DEF Waiting
    <3>2. Sweeping' <=> Sweeping
      BY <2>2, Zenon DEF Sweeping
    <3> QED
      BY <2>2, <3>1, <3>2, Zenon DEF Held
  <2>4. \A p, target : /\ Desired(p, target)' = Desired(p, target)
                       /\ Wanted(p, target)' = Wanted(p, target)
    <3>1. Held' = Held /\ cash' = cash
      BY <2>2 DEF Held
    <3>2. \A p, target : Desired(p, target)' = Desired(p, target)
      BY <3>1 DEF Desired, UncostedShares, BuyShares, SellShares, Affordable1, PrefillEquity
    <3> QED
      BY <3>1, <3>2 DEF Wanted, Stored, MarketRequest
  <2>5. BookTyped' /\ AccountIsGood'
    BY <2>1, <2>2 DEF BookTyped, AccountIsGood, Held
  <2>6. IntentIsFresh'
    BY <2>1, <2>2 DEF IntentIsFresh
  <2>7. OneOpenOrder'
    BY <2>1, <2>2, <2>3, <2>4 DEF OneOpenOrder
  <2>8. SweepIs'
    BY <2>1, <2>2, <2>3 DEF SweepIs
  <2>9. PlacementIs'
    BY <2>1, <2>2, <2>3, <2>4 DEF PlacementIs
  <2>10. AtTarget' <=> AtTarget
    <3>1. SoldToReach' <=> SoldToReach
      BY <2>2 DEF SoldToReach
    <3>2. \A p : PrefillEquity(p)' = PrefillEquity(p)
      BY <2>2 DEF PrefillEquity, Held
    <3> QED
      BY <2>2, <2>3, <3>1, <3>2 DEF AtTarget
  <2>11. TargetIs'
    BY <2>1, <2>2, <2>3, <2>4, <2>10 DEF TargetIs
  <2> QED
    BY <2>5, <2>6, <2>7, <2>8, <2>9, <2>11 DEF RunInv
<1> QED
  BY <1>1, <1>2, <1>3, <1>4 DEF RunNext
-----------------------------------------------------------------------------
(* What the invariant says.                                                 *)

(* The invariant holds in every state of a run: a run never goes short or   *)
(* into debt, and at most the last order is open.                           *)
THEOREM RunInvariant == RunSpec => []RunInv
<1> QED
  BY InitRunInv, NextRunInv, PTL DEF RunSpec

(* The orders sized by the formulas of the runner always pass the checks of *)
(* the broker, which have formulas of their own: none is rejected.          *)
THEOREM SizedOrdersAlwaysFill == RunSpec => []SizedOrdersFill
<1>1. RunInv => SizedOrdersFill
  BY DEF RunInv, OneOpenOrder, SizedOrdersFill
<1> QED
  BY <1>1, RunInvariant, PTL

(* An order is executed on the bar after its signal, never on the bar it    *)
(* was decided on, and does not outlive it.                                 *)
THEOREM OrdersLiveOneBar == RunSpec => []ExecutedOnTheNextBar
<1>1. RunInv => ExecutedOnTheNextBar
  BY DEF RunInv, OneOpenOrder, Waiting, ExecutedOnTheNextBar
<1> QED
  BY <1>1, RunInvariant, PTL

(* After the open the position, costs included, is within the target of the *)
(* decision, and one share more would break the target or the cash.         *)
THEOREM TargetsAreReached == RunSpec => []TargetReachedFromBelow
<1>1. RunInv => TargetReachedFromBelow
  <2> SUFFICES ASSUME RunInv, Executed PROVE
        LET p == today.open IN
          /\ Held * SharePrice(p) * Scale <= placed.target * Equity
          /\ IF SoldToReach THEN ~ OneLessSold ELSE ~ OneMoreBought
    BY DEF TargetReachedFromBelow
  <2>1. /\ Sweeping /\ phase = "sweep" /\ placed # NoPlacement /\ ~ Waiting
        /\ marks[Ticker] = today.open /\ today.open \in Nat \ {0}
        /\ placed.target \in 0 .. MaxPosition
        /\ Held \in Nat /\ cash \in Nat
    <3>1. ~ (sweep.next <= Len(orders))
      BY BookFacts, SMT DEF Executed, RunInv
    <3> QED
      BY <3>1 DEF Executed, RunInv, SweepIs, PlacementIs, Waiting, AccountIsGood
  <2>2. AtTarget
    <3>1. CASE placed.order = 0
      BY <2>1, <3>1, AlreadyAtTarget DEF RunInv, TargetIs
    <3>2. CASE placed.order # 0
      BY <2>1, <3>2 DEF RunInv, TargetIs
    <3> QED
      BY <3>1, <3>2
  <2>3. Equity = PrefillEquity(today.open)
    <3>1. Held * today.open * Scale * Scale \in Int
      <4>1. Scale \in Nat
        BY BrokerAssumption
      <4> QED
        BY <2>1, <4>1, SMT
    <3> QED
      BY <2>1, <3>1, EquityIs DEF PrefillEquity, Held
  <2> QED
    BY <2>2, <2>3 DEF AtTarget, OneLessSold, OneMoreBought, UnitCash
<1> QED
  BY <1>1, RunInvariant, PTL

(* A run that reports on itself is a run: recording decisions, snapshots    *)
(* and evidence never changes what is traded, so that all of the above is   *)
(* true of it.                                                              *)
THEOREM ReportingIsPassive == ReportSpec => RunSpec
<1>1. ReportInit => RunInit
  BY DEF ReportInit
<1>2. [ReportNext]_<<vars, reportVars>> => [RunNext]_vars
  BY DEF ReportNext, RunNext, ReportOpen, ReportClose
<1> QED
  BY <1>1, <1>2, PTL DEF ReportSpec, RunSpec
-----------------------------------------------------------------------------
(* The report: what every decision, order and unfilled intent have to do    *)
(* with each other.                                                         *)
Decisions ==
  [signal : Nat, status : {"completed", "not_ready"}, action : {"BUY", "SELL", "HOLD", "none"},
   execution : Nat]

ReportTyped ==
  /\ fills \in Seq(Fill)
  /\ recorded \in Seq(Decisions)
  /\ unfilled \subseteq Nat
  /\ marks[Ticker] \in Nat
  /\ phase = "sweep" => today.close \in Nat

(* The bars whose decisions have an order or an unfilled intent to show.    *)
Signalled == {signals[i] : i \in DOMAIN signals} \union unfilled

FillPerOrder ==
  Len(fills) = IF orders # <<>> /\ orders[Len(orders)].status = "NEW"
                 THEN Len(orders) - 1 ELSE Len(orders)

(* A bar signals at most once, and its signal is handled before the next    *)
(* bar is counted.                                                          *)
EvidenceIsUnique ==
  /\ \A b \in Signalled : b <= bars /\ (b = bars => phase = "sweep" /\ ~ Sweeping)
  /\ \A i, k \in DOMAIN signals : signals[i] = signals[k] => i = k
  /\ \A i \in DOMAIN signals : signals[i] \notin unfilled

DecisionsAreUnique ==
  /\ \A i \in DOMAIN recorded :
       recorded[i].signal <= bars /\ (recorded[i].signal = bars => phase # "close" /\ ~ Sweeping)
  /\ \A i, k \in DOMAIN recorded : recorded[i].signal = recorded[k].signal => i = k

(* Dated are exactly the decisions with something to show.                  *)
DatesAreEvidence ==
  /\ \A i \in DOMAIN recorded :
       IF recorded[i].signal \in Signalled
         THEN recorded[i].status = "completed" /\ recorded[i].execution = recorded[i].signal + 1
         ELSE recorded[i].execution = 0
  /\ \A b \in Signalled : \E i \in DOMAIN recorded : recorded[i].signal = b

Pending == phase = "open" /\ intent # NoIntent
PendingIsRecorded ==
  /\ Pending =>
       \E i \in DOMAIN recorded : recorded[i].signal = bars /\ recorded[i].status = "completed"
  /\ phase = "done" => intent = NoIntent

(* As long as there was no order the decisions to hold are those that left  *)
(* no evidence; for the one that is pending that is known from its target.  *)
UntradedIsExplained ==
  orders = <<>> =>
    /\ Held = 0
    /\ \A i \in DOMAIN recorded :
         recorded[i].status = "completed" =>
           (recorded[i].action = "HOLD" <=>
              IF Pending /\ recorded[i].signal = bars THEN intent.target * cash = 0
              ELSE recorded[i].signal \notin unfilled)

ReportInv ==
  /\ ReportTyped /\ FillPerOrder /\ EvidenceIsUnique /\ DecisionsAreUnique /\ DatesAreEvidence
  /\ PendingIsRecorded /\ UntradedIsExplained

LEMMA ReportFacts ==
  ASSUME ReportTyped
  PROVE  /\ Len(fills) \in Nat /\ DOMAIN fills = 1 .. Len(fills)
         /\ Len(recorded) \in Nat /\ DOMAIN recorded = 1 .. Len(recorded)
         /\ \A i \in DOMAIN recorded : recorded[i] \in Decisions
  BY LenProperties, ElementOfSeq DEF ReportTyped

LEMMA InitReportInv == ReportInit => ReportInv
<1> SUFFICES ASSUME ReportInit PROVE ReportInv
  OBVIOUS
<1> USE DEF ReportInit, RunInit, BrokerInit, NewAccount
<1>1. /\ DOMAIN orders = {} /\ DOMAIN signals = {} /\ DOMAIN recorded = {}
      /\ orders = <<>> /\ fills = <<>> /\ unfilled = {} /\ Signalled = {}
      /\ Len(orders) = 0 /\ Len(fills) = 0
  BY EmptySeq DEF Signalled
<1>2. ReportTyped
  <2>1. marks[Ticker] = 0
    BY RunAssumption
  <2> QED
    BY <1>1, <2>1, EmptySeq DEF ReportTyped
<1>3. Held = 0
  BY RunAssumption DEF Held
<1>4. FillPerOrder
  BY <1>1 DEF FillPerOrder
<1> QED
  BY <1>1, <1>2, <1>3, <1>4
  DEF ReportInv, EvidenceIsUnique, DecisionsAreUnique, DatesAreEvidence,
      PendingIsRecorded, UntradedIsExplained, Pending

(* Dating the decision of a bar changes its execution and nothing else.     *)
LEMMA DatedEffect ==
  ASSUME recorded \in Seq(Decisions), NEW b \in Nat, NEW session \in Nat
  PROVE  LET dated == Dated(recorded, b, session) IN
    /\ dated \in Seq(Decisions)
    /\ DOMAIN dated = DOMAIN recorded
    /\ \A i \in DOMAIN recorded :
         /\ dated[i].signal = recorded[i].signal /\ dated[i].status = recorded[i].status
         /\ dated[i].action = recorded[i].action
         /\ dated[i].execution = IF recorded[i].signal = b THEN session
                                 ELSE recorded[i].execution
<1> DEFINE dated == Dated(recorded, b, session)
<1>1. /\ Len(recorded) \in Nat /\ DOMAIN recorded = 1 .. Len(recorded)
      /\ \A i \in DOMAIN recorded : recorded[i] \in Decisions
  BY LenProperties, ElementOfSeq
<1>2. /\ DOMAIN dated = DOMAIN recorded
      /\ \A i \in DOMAIN recorded :
           dated[i] = IF recorded[i].signal = b THEN [recorded[i] EXCEPT !.execution = session]
                      ELSE recorded[i]
  BY DEF Dated
<1>3. dated \in [1 .. Len(recorded) -> Decisions]
  <2>1. \A i \in DOMAIN recorded : dated[i] \in Decisions
    BY <1>1, <1>2 DEF Decisions
  <2>2. dated = [i \in 1 .. Len(recorded) |-> dated[i]]
    BY <1>1 DEF Dated
  <2> HIDE DEF dated
  <2> QED
    BY <1>1, <2>1, <2>2
<1>4. dated \in Seq(Decisions)
  <2> HIDE DEF dated
  <2> QED
    BY <1>1, <1>3, SeqDef
<1>5. \A i \in DOMAIN recorded :
         /\ dated[i].signal = recorded[i].signal /\ dated[i].status = recorded[i].status
         /\ dated[i].action = recorded[i].action
         /\ dated[i].execution = IF recorded[i].signal = b THEN session
                                 ELSE recorded[i].execution
  <2> HIDE DEF dated
  <2> QED
    BY <1>1, <1>2 DEF Decisions
<1> QED
  BY <1>2, <1>4, <1>5

(* Reading a row with an intent pending: it becomes an order, or evidence,  *)
(* or, with the position on the target to the cent, neither.                *)
Nothing == UNCHANGED <<brokerVars, signals, unfilled, recorded>>
LeavesEvidence ==
  /\ UNCHANGED <<brokerVars, signals>> /\ unfilled' = unfilled \union {bars}
BecomesOrder ==
  /\ UNCHANGED <<shares, cash, fills, marks, sweep, bars, unfilled>>
  /\ signals' = Append(signals, bars)
  /\ \E new \in RunOrders : new.status = "NEW" /\ orders' = Append(orders, new)
LEMMA OpenEffect ==
  ASSUME RunInv, ReportOpen
  PROVE  /\ phase = "open" /\ phase' = "sweep" /\ ~ Sweeping /\ ~ Sweeping'
         /\ bars' = bars /\ marks' = marks /\ cash' = cash /\ shares' = shares
         /\ intent # NoIntent => intent.bar = bars /\ intent.target \in Nat
         /\ today'.close \in Nat
         /\ \/ Nothing /\ (intent # NoIntent /\ Held = 0 => intent.target * cash = 0)
            \/ /\ intent # NoIntent
               /\ recorded' = Dated(recorded, bars, bars + 1)
               /\ \/ LeavesEvidence /\ (Held = 0 => intent.target * cash # 0)
                  \/ BecomesOrder
<1> USE DEF RunInv
<1>1. PICK o \in Prices, c \in Prices :
         LET delta == Desired(o, intent.target) - Held IN
           /\ today' = Row(o, c)
           /\ IF intent = NoIntent \/ delta = 0
                THEN /\ UNCHANGED <<brokerVars, signals>>
                     /\ placed' = IF intent = NoIntent THEN NoPlacement
                                  ELSE [target |-> intent.target, order |-> 0]
                ELSE /\ PlaceOrder(MarketRequest(delta))
                     /\ Submitted
                     /\ placed' = [target |-> intent.target, order |-> Len(orders) + 1]
  BY DEF ReportOpen, OpenBar
<1>2. /\ phase = "open" /\ phase' = "sweep" /\ today'.open = o /\ today'.close \in Nat
      /\ o \in Nat \ {0}
  BY <1>1, BrokerAssumption DEF ReportOpen, OpenBar, Row
<1>3. ~ Sweeping /\ Len(orders) \in Nat
  BY <1>2, BookFacts DEF SweepIs
<1>4. intent # NoIntent => intent.bar = bars /\ intent.target \in Nat /\ intent.target \in 0 .. MaxPosition
  BY <1>2, BrokerAssumption, SMT DEF IntentIsFresh
<1>5. /\ unfilled' = unfilled \union (IF Unfilled(o) THEN {intent.bar} ELSE {})
      /\ recorded' = IF Unfilled(o) \/ orders' # orders THEN Dated(recorded, intent.bar, bars + 1)
                     ELSE recorded
  BY <1>2 DEF ReportOpen
<1>6. Held = 0 => Held * SharePrice(o) * Scale = 0 /\ PrefillEquity(o) = cash
  <2>1. SharePrice(o) \in Nat /\ Scale \in Nat
    BY <1>2, UnitMoney
  <2> QED
    BY <1>2, <2>1, SMT DEF PrefillEquity, AccountIsGood
<1>7. CASE intent = NoIntent
  <2>1. UNCHANGED <<brokerVars, signals>> /\ ~ Unfilled(o)
    BY <1>1, <1>7 DEF Unfilled
  <2> QED
    BY <1>2, <1>3, <1>5, <1>7, <2>1 DEF Nothing, brokerVars, Sweeping
<1>8. CASE intent # NoIntent
  <2> DEFINE delta == Desired(o, intent.target) - Held
  <2>1. Desired(o, intent.target) \in Nat /\ Held \in Nat
    BY <1>2, <1>4, <1>8, Sizing DEF AccountIsGood
  <2>2. CASE delta = 0
    <3>1. UNCHANGED <<brokerVars, signals>>
      BY <1>1, <2>2
    <3>2. Desired(o, intent.target) = Held
      BY <2>1, <2>2, SMT
    <3>3. orders' = orders /\ bars' = bars /\ marks' = marks /\ cash' = cash /\ shares' = shares
          /\ ~ Sweeping'
      BY <1>3, <3>1 DEF brokerVars, Sweeping
    <3>4. CASE Unfilled(o)
      <4>1. Held = 0 => intent.target * cash # 0
        BY <1>6, <3>4 DEF Unfilled
      <4> QED
        BY <1>2, <1>3, <1>4, <1>5, <1>8, <3>1, <3>3, <3>4, <4>1 DEF LeavesEvidence
    <3>5. CASE ~ Unfilled(o)
      <4>1. Held = 0 => intent.target * cash = 0
        BY <1>6, <1>8, <3>2, <3>5 DEF Unfilled
      <4> QED
        BY <1>2, <1>3, <1>4, <1>5, <3>1, <3>3, <3>5, <4>1 DEF Nothing
    <3> QED
      BY <3>4, <3>5
  <2>3. CASE delta # 0
    <3> DEFINE new == Stored(MarketRequest(delta))
    <3>1. PlaceOrder(MarketRequest(delta)) /\ Submitted
      BY <1>1, <1>8, <2>3
    <3>2. ~ Unfilled(o)
      BY <2>1, <2>3, SMT DEF Unfilled
    <3>3. new \in RunOrders /\ new.status = "NEW"
      <4>1. AbsInt(delta) \in Nat
        BY <2>1, SMT DEF AbsInt
      <4> HIDE DEF delta
      <4> QED
        BY <4>1 DEF Stored, MarketRequest, RunOrders
    <3>4. /\ orders' = Append(orders, new)
          /\ UNCHANGED <<shares, cash, fills, marks, sweep, bars>>
      <4>1. new.type = "MARKET" /\ NextOpen
        BY RunAssumption DEF Stored, MarketRequest
      <4> HIDE DEF delta
      <4> QED
        BY <3>1, <4>1 DEF PlaceOrder
    <3>5. signals' = Append(signals, bars)
      BY <1>4, <1>8, <3>1 DEF Submitted
    <3> HIDE DEF new
    <3>6. orders' # orders
      <4>1. Len(orders') = Len(orders) + 1
        BY <3>3, <3>4, AppendProperties DEF BookTyped
      <4> QED
        BY <1>3, <4>1, SMT
    <3>7. BecomesOrder /\ recorded' = Dated(recorded, bars, bars + 1)
      BY <1>4, <1>5, <1>8, <3>2, <3>3, <3>4, <3>5, <3>6 DEF BecomesOrder
    <3> QED
      BY <1>2, <1>3, <1>4, <1>8, <3>4, <3>7 DEF Sweeping
  <2> QED
    BY <2>2, <2>3
<1> QED
  BY <1>7, <1>8

(* The open dates the pending decision when it leaves something to show.    *)
LEMMA ReportOpenStep == RunInv /\ ReportInv /\ ReportOpen => ReportInv'
<1> SUFFICES ASSUME RunInv, ReportInv, ReportOpen PROVE ReportInv'
  OBVIOUS
<1>1. /\ phase = "open" /\ phase' = "sweep" /\ ~ Sweeping /\ ~ Sweeping'
      /\ bars' = bars /\ marks' = marks /\ cash' = cash /\ shares' = shares
      /\ intent # NoIntent => intent.bar = bars /\ intent.target \in Nat
      /\ today'.close \in Nat
      /\ \/ Nothing /\ (intent # NoIntent /\ Held = 0 => intent.target * cash = 0)
         \/ /\ intent # NoIntent
            /\ recorded' = Dated(recorded, bars, bars + 1)
            /\ \/ LeavesEvidence /\ (Held = 0 => intent.target * cash # 0)
               \/ BecomesOrder
  BY OpenEffect
<1>2. /\ bars \in Nat /\ bars + 1 \in Nat
      /\ Len(orders) \in Nat /\ DOMAIN orders = 1 .. Len(orders)
      /\ Len(signals) = Len(orders) /\ DOMAIN signals = 1 .. Len(orders)
      /\ \A i \in DOMAIN orders : orders[i].status = "FILLED"
      /\ orders \in Seq(RunOrders) /\ signals \in Seq(Nat)
  <2>1. ~ Waiting
    BY <1>1 DEF Waiting
  <2> QED
    BY <2>1, BookFacts DEF RunInv, BookTyped, OneOpenOrder
<1>3. /\ \A b \in Signalled : b \in Nat /\ b < bars /\ b # bars
      /\ \A i \in DOMAIN recorded : recorded[i].signal <= bars
  <2>1. \A b \in Signalled : b \in Nat
    <3>1. \A i \in DOMAIN signals : signals[i] \in Nat
      BY <1>2, ElementOfSeq
    <3> QED
      BY <3>1 DEF Signalled, ReportInv, ReportTyped
  <2> QED
    BY <1>1, <1>2, <2>1, SMT DEF ReportInv, EvidenceIsUnique, DecisionsAreUnique
<1>4. PendingIsRecorded'
  BY <1>1 DEF PendingIsRecorded, Pending
<1>5. Held' = Held /\ ~ Pending'
  BY <1>1 DEF Held, Pending
<1>6. CASE Nothing /\ (intent # NoIntent /\ Held = 0 => intent.target * cash = 0)
  <2>1. UNCHANGED <<orders, fills, marks, signals, unfilled, recorded>> /\ Signalled' = Signalled
    BY <1>6 DEF Nothing, brokerVars, Signalled
  <2>2. ReportTyped' /\ FillPerOrder' /\ DatesAreEvidence'
    BY <1>1, <2>1 DEF ReportInv, ReportTyped, FillPerOrder, DatesAreEvidence
  <2>3. EvidenceIsUnique' /\ DecisionsAreUnique'
    BY <1>1, <2>1 DEF ReportInv, EvidenceIsUnique, DecisionsAreUnique
  <2>4. UntradedIsExplained'
    <3> SUFFICES ASSUME orders = <<>>
                 PROVE  /\ Held = 0
                        /\ \A i \in DOMAIN recorded :
                             recorded[i].status = "completed" =>
                               (recorded[i].action = "HOLD" <=> recorded[i].signal \notin unfilled)
      BY <1>5, <2>1 DEF UntradedIsExplained
    <3>1. Held = 0
      BY DEF ReportInv, UntradedIsExplained
    <3>2. ASSUME NEW i \in DOMAIN recorded, recorded[i].status = "completed"
          PROVE  recorded[i].action = "HOLD" <=> recorded[i].signal \notin unfilled
      <4>1. bars \notin unfilled
        BY <1>2, <1>3 DEF Signalled
      <4> QED
        BY <1>6, <3>1, <3>2, <4>1 DEF ReportInv, UntradedIsExplained, Pending
    <3> QED
      BY <3>1, <3>2
  <2> QED
    BY <1>4, <2>2, <2>3, <2>4 DEF ReportInv
<1>7. CASE /\ intent # NoIntent
           /\ recorded' = Dated(recorded, bars, bars + 1)
           /\ \/ LeavesEvidence /\ (Held = 0 => intent.target * cash # 0)
              \/ BecomesOrder
  <2>1. /\ recorded' \in Seq(Decisions)
        /\ DOMAIN recorded' = DOMAIN recorded
        /\ \A i \in DOMAIN recorded :
             /\ recorded'[i].signal = recorded[i].signal /\ recorded'[i].status = recorded[i].status
             /\ recorded'[i].action = recorded[i].action
             /\ recorded'[i].execution = IF recorded[i].signal = bars THEN bars + 1
                                         ELSE recorded[i].execution
    BY <1>2, <1>7, DatedEffect DEF ReportInv, ReportTyped
  <2>2. PICK pending \in DOMAIN recorded :
           recorded[pending].signal = bars /\ recorded[pending].status = "completed"
    BY <1>1, <1>7 DEF ReportInv, PendingIsRecorded, Pending
  <2>3. DecisionsAreUnique'
    BY <1>1, <2>1 DEF ReportInv, DecisionsAreUnique
  <2>4. CASE LeavesEvidence /\ (Held = 0 => intent.target * cash # 0)
    <3>1. UNCHANGED <<orders, fills, marks, signals>> /\ unfilled' = unfilled \union {bars}
          /\ Signalled' = Signalled \union {bars}
      BY <2>4 DEF LeavesEvidence, brokerVars, Signalled
    <3>2. ReportTyped' /\ FillPerOrder'
      BY <1>1, <1>2, <2>1, <3>1 DEF ReportInv, ReportTyped, FillPerOrder
    <3>3. EvidenceIsUnique'
      <4>1. \A i \in DOMAIN signals : signals[i] # bars
        BY <1>2, <1>3 DEF Signalled
      <4> QED
        BY <1>1, <1>2, <1>3, <3>1, <4>1 DEF ReportInv, EvidenceIsUnique
    <3>4. DatesAreEvidence'
      BY <2>1, <2>2, <3>1 DEF ReportInv, DatesAreEvidence, DecisionsAreUnique
    <3>5. UntradedIsExplained'
      BY <1>5, <1>7, <1>1, <2>1, <2>4, <3>1 DEF ReportInv, UntradedIsExplained, Pending
    <3> QED
      BY <1>4, <2>3, <3>2, <3>3, <3>4, <3>5 DEF ReportInv
  <2>5. CASE BecomesOrder
    <3>1. PICK new \in RunOrders : new.status = "NEW" /\ orders' = Append(orders, new)
      BY <2>5 DEF BecomesOrder
    <3>2. UNCHANGED <<fills, marks, unfilled>> /\ signals' = Append(signals, bars)
      BY <2>5 DEF BecomesOrder
    <3>3. /\ Len(orders') = Len(orders) + 1 /\ orders'[Len(orders) + 1] = new
          /\ DOMAIN signals' = 1 .. (Len(orders) + 1)
          /\ \A i \in DOMAIN signals : signals'[i] = signals[i]
          /\ signals'[Len(orders) + 1] = bars
      <4>1. signals' \in Seq(Nat) /\ Len(signals') = Len(orders) + 1
        BY <1>2, <3>2, AppendProperties
      <4> QED
        BY <1>2, <3>1, <3>2, <4>1, AppendProperties, LenProperties
    <3>4. Signalled' = Signalled \union {bars}
      <4>1. \A i \in DOMAIN signals' : signals'[i] \in Signalled \union {bars}
        <5> SUFFICES ASSUME NEW i \in DOMAIN signals'
                     PROVE  signals'[i] \in Signalled \union {bars}
          OBVIOUS
        <5>1. i \in DOMAIN signals \/ i = Len(orders) + 1
          BY <1>2, <3>3, SMT
        <5> QED
          BY <3>3, <5>1 DEF Signalled
      <4>2. Signalled \union {bars} \subseteq Signalled'
        <5>1. Len(orders) + 1 \in DOMAIN signals' /\ DOMAIN signals \subseteq DOMAIN signals'
          BY <1>2, <3>3, SMT
        <5> QED
          BY <3>2, <3>3, <5>1 DEF Signalled
      <4> QED
        BY <3>2, <4>1, <4>2 DEF Signalled
    <3>5. ReportTyped'
      BY <1>1, <2>1, <3>2 DEF ReportInv, ReportTyped
    <3>6. orders' # <<>> /\ orders # orders'
      <4>1. Len(<<>>) = 0
        BY EmptySeq
      <4> QED
        BY <1>2, <3>3, <4>1, SMT
    <3>7. FillPerOrder'
      <4>1. Len(fills) = Len(orders)
        <5>1. orders # <<>> => Len(orders) \in DOMAIN orders
          BY <1>2, EmptySeq, SMT
        <5> QED
          BY <1>2, <5>1 DEF ReportInv, FillPerOrder
      <4>2. Len(orders') - 1 = Len(orders) /\ orders'[Len(orders')].status = "NEW"
        BY <1>2, <3>1, <3>3, SMT
      <4> QED
        BY <3>2, <3>6, <4>1, <4>2 DEF FillPerOrder
    <3>8. EvidenceIsUnique'
      <4>1. \A i \in DOMAIN signals' : i \in DOMAIN signals \/ i = Len(orders) + 1
        BY <1>2, <3>3, SMT
      <4>2. bars \notin unfilled /\ \A i \in DOMAIN signals : signals[i] # bars
        BY <1>2, <1>3 DEF Signalled
      <4>3. \A b \in Signalled' : b <= bars
        <5>1. \A b \in Signalled : b <= bars
          BY <1>2, <1>3, SMT
        <5> QED
          BY <1>2, <3>4, <5>1
      <4>4. \A i, k \in DOMAIN signals' : signals'[i] = signals'[k] => i = k
        BY <3>3, <4>1, <4>2 DEF ReportInv, EvidenceIsUnique
      <4>5. \A i \in DOMAIN signals' : signals'[i] \notin unfilled'
        BY <3>2, <3>3, <4>1, <4>2 DEF ReportInv, EvidenceIsUnique
      <4> QED
        BY <1>1, <4>3, <4>4, <4>5 DEF EvidenceIsUnique
    <3>9. DatesAreEvidence'
      BY <2>1, <2>2, <3>4 DEF ReportInv, DatesAreEvidence, DecisionsAreUnique
    <3>10. UntradedIsExplained'
      BY <3>6 DEF UntradedIsExplained
    <3> QED
      BY <1>4, <2>3, <3>5, <3>7, <3>8, <3>9, <3>10 DEF ReportInv
  <2> QED
    BY <1>7, <2>4, <2>5
<1> QED
  BY <1>1, <1>6, <1>7

(* on_bar fills the order of the bar, and nothing else of the report moves. *)
LEMMA ReportSweepStep == RunInv /\ ReportInv /\ Sweep /\ UNCHANGED reportVars => ReportInv'
<1> SUFFICES ASSUME RunInv, ReportInv, Sweep, UNCHANGED reportVars PROVE ReportInv'
  OBVIOUS
<1> USE DEF ReportInv
<1>1. /\ phase = "sweep" /\ phase' \in {"sweep", "close"}
      /\ UNCHANGED <<today, intent, placed, signals, recorded, unfilled>>
      /\ Signalled' = Signalled
  BY DEF Sweep, reportVars, Signalled
<1>2. /\ bars \in Nat /\ Len(orders) \in Nat /\ DOMAIN orders = 1 .. Len(orders)
      /\ orders \in Seq(RunOrders)
      /\ today.open \in Nat /\ today.open \in Nat \ {0} /\ today.close \in Nat
  BY <1>1, BookFacts DEF RunInv, BookTyped, PlacementIs, ReportTyped
<1>3. PendingIsRecorded' /\ ~ Pending /\ ~ Pending'
  BY <1>1 DEF PendingIsRecorded, Pending
<1>4. DatesAreEvidence'
  BY <1>1 DEF DatesAreEvidence
<1>5. /\ \A b \in Signalled : b \in Nat /\ b <= bars
      /\ \A i \in DOMAIN recorded : recorded[i].signal \in Nat /\ recorded[i].signal <= bars
  <2>1. \A i \in DOMAIN signals : signals[i] \in Nat
    BY ElementOfSeq DEF RunInv, BookTyped
  <2>2. \A i \in DOMAIN recorded : recorded[i].signal \in Nat
    BY ReportFacts DEF Decisions
  <2> QED
    BY <2>1, <2>2 DEF Signalled, ReportTyped, EvidenceIsUnique, DecisionsAreUnique
<1>6. ASSUME UNCHANGED <<orders, shares, cash, fills>>
      PROVE  FillPerOrder' /\ UntradedIsExplained'
  <2>1. FillPerOrder'
    BY <1>6 DEF FillPerOrder
  <2>2. Held' = Held
    BY <1>6 DEF Held
  <2> QED
    BY <1>1, <1>3, <1>6, <2>1, <2>2 DEF UntradedIsExplained
<1>7. CASE OnBarBegin([t \in {Ticker} |-> today]) /\ UNCHANGED phase
  <2> DEFINE rows == [t \in {Ticker} |-> today]
  <2>1. /\ UNCHANGED <<orders, shares, cash, fills>>
        /\ bars' = bars + 1 /\ sweep'.next = 1
    BY <1>7 DEF OnBarBegin, account
  <2>2. marks'[Ticker] = today.open
    <3>1. marks' = [t \in Tickers |->
                     IF t \notin DOMAIN rows THEN marks[t]
                     ELSE IF NextOpen THEN rows[t].open ELSE rows[t].close]
      BY <1>7 DEF OnBarBegin
    <3>2. Ticker \in Tickers /\ NextOpen
      BY RunAssumption
    <3> QED
      BY <3>1, <3>2
  <2>3. ReportTyped'
    BY <1>1, <1>2, <1>7, <2>1, <2>2 DEF ReportTyped
  <2>4. /\ \A b \in Signalled : b <= bars + 1 /\ b # bars + 1
        /\ \A i \in DOMAIN recorded :
             recorded[i].signal <= bars + 1 /\ recorded[i].signal # bars + 1
    BY <1>2, <1>5, SMT
  <2>5. EvidenceIsUnique' /\ DecisionsAreUnique'
    BY <1>1, <2>1, <2>4 DEF EvidenceIsUnique, DecisionsAreUnique
  <2> QED
    BY <1>3, <1>4, <1>6, <2>1, <2>3, <2>5
<1>8. CASE OnBarOrder /\ UNCHANGED phase
  <2>1. /\ UNCHANGED <<marks, bars>> /\ sweep.next \in DOMAIN orders
        /\ sweep' = [sweep EXCEPT !.next = @ + 1]
    BY <1>8 DEF OnBarOrder
  <2>2. Sweeping /\ Sweeping'
    <3>1. sweep'.next = sweep.next + 1
      BY <2>1 DEF RunInv, BookTyped
    <3> QED
      BY <1>2, <2>1, <3>1, SMT DEF Sweeping
  <2>3. EvidenceIsUnique' /\ DecisionsAreUnique'
    BY <1>1, <1>8, <2>1, <2>2 DEF EvidenceIsUnique, DecisionsAreUnique
  <2>4. CASE UNCHANGED account
    <3>1. UNCHANGED <<orders, shares, cash, fills>>
      BY <2>4 DEF account
    <3>2. ReportTyped'
      BY <1>1, <1>2, <2>1, <3>1 DEF ReportTyped
    <3> QED
      BY <1>3, <1>4, <1>6, <2>3, <3>1, <3>2
  <2>5. CASE /\ Waiting /\ sweep.next = Len(orders)
             /\ ExecuteFill(sweep.next, today.open, orders, events)
    <3> DEFINE i == Len(orders)
               o == orders[i]
               fill == [order |-> i, price |-> FillPrice(o, today.open), ticker |-> o.ticker,
                        signed |-> Signed(o), fee |-> Fee(o, today.open)]
               filled == [o EXCEPT !.status = "FILLED"]
    <3>1. fills' = Append(fills, fill) /\ orders' = [orders EXCEPT ![i] = filled]
      BY <2>5 DEF ExecuteFill, SetStatus
    <3>2. i \in DOMAIN orders /\ i \in Nat \ {0} /\ o \in RunOrders /\ o.status = "NEW"
      <4>1. i \in DOMAIN orders /\ i \in 1 .. Len(orders)
        BY <1>2, <2>1, <2>5
      <4>2. o \in RunOrders
        BY <1>2, <4>1, ElementOfSeq
      <4>3. o.status = "NEW"
        BY <2>5, <4>1 DEF RunInv, OneOpenOrder
      <4> QED
        BY <4>1, <4>2, <4>3, SMT
    <3>3. fill \in Fill
      <4>1. SideSign(o) \in Int /\ o.qty \in Int
        BY <3>2 DEF SideSign, RunOrders
      <4>2. Scale \in Int /\ Slippage \in Int /\ Commission \in Int
        BY BrokerAssumption, SMT
      <4>3. FillPrice(o, today.open) \in Int
        <5>1. SideSign(o) * Slippage \in Int
          BY <4>1, <4>2, SMT
        <5> QED
          BY <1>2, <4>2, <5>1, SMT DEF FillPrice
      <4>4. FillPrice(o, today.open) * o.qty \in Int
        BY <4>1, <4>3, SMT
      <4>5. Fee(o, today.open) \in Int /\ Signed(o) \in Int
        BY <4>1, <4>2, <4>4, SMT DEF Fee, Signed
      <4>6. o.ticker \in Tickers
        BY <3>2, RunAssumption DEF RunOrders
      <4> HIDE DEF o, i
      <4> QED
        BY <3>2, <4>3, <4>5, <4>6 DEF Fill
    <3>4. filled \in RunOrders /\ filled.status = "FILLED"
      BY <3>2 DEF RunOrders
    <3> HIDE DEF fill, filled
    <3>5. fills' \in Seq(Fill) /\ Len(fills') = Len(fills) + 1
      BY <3>1, <3>3, AppendProperties DEF ReportTyped
    <3>6. Len(orders') = Len(orders) /\ orders'[i] = filled /\ orders' # <<>> /\ orders # <<>>
      <4>1. Len(orders') = Len(orders) /\ orders'[i] = filled /\ orders' \in Seq(RunOrders)
        BY <1>2, <3>1, <3>2, <3>4, ExceptSeq, LenProperties
      <4>2. Len(orders) # 0 /\ Len(<<>>) = 0
        BY <3>2, EmptySeq
      <4> QED
        BY <4>1, <4>2
    <3>7. FillPerOrder'
      <4>1. Len(fills) = Len(orders) - 1
        BY <3>2, <3>6 DEF FillPerOrder
      <4>2. Len(fills') = Len(orders')
        BY <1>2, <3>5, <3>6, <4>1, SMT
      <4> QED
        BY <3>4, <3>6, <4>2 DEF FillPerOrder
    <3>8. ReportTyped'
      BY <1>1, <1>2, <2>1, <3>5 DEF ReportTyped
    <3>9. UntradedIsExplained'
      BY <3>6 DEF UntradedIsExplained
    <3> QED
      BY <1>3, <1>4, <2>3, <3>7, <3>8, <3>9
  <2> QED
    BY <1>1, <1>8, <2>4, <2>5, VisitEffect
<1>9. CASE OnBarEnd /\ phase' = "close"
  <2>1. /\ UNCHANGED <<orders, shares, cash, fills, bars>> /\ Sweeping /\ ~ Sweeping'
        /\ marks' = [t \in Tickers |->
                       IF t \in DOMAIN sweep.bars THEN sweep.bars[t].close ELSE marks[t]]
    BY <1>9 DEF OnBarEnd, account, Sweeping, Idle
  <2>2. ReportTyped'
    <3>1. marks'[Ticker] = today.close
      BY <2>1, RunAssumption DEF RunInv, SweepIs
    <3> QED
      BY <1>1, <1>2, <1>9, <2>1, <3>1 DEF ReportTyped
  <2>3. EvidenceIsUnique' /\ DecisionsAreUnique'
    BY <1>1, <2>1 DEF EvidenceIsUnique, DecisionsAreUnique
  <2> QED
    BY <1>3, <1>4, <1>6, <2>1, <2>2, <2>3
<1> QED
  BY <1>7, <1>8, <1>9 DEF Sweep

(* The close records the decision of the bar, with nothing to show yet.     *)
LEMMA ReportCloseStep == RunInv /\ ReportInv /\ ReportClose => ReportInv'
<1> SUFFICES ASSUME RunInv, ReportInv, ReportClose PROVE ReportInv'
  OBVIOUS
<1> USE DEF ReportInv
<1>1. /\ phase = "close" /\ phase' \in {"open", "done", "failed"} /\ intent = NoIntent
      /\ UNCHANGED <<orders, shares, cash, fills, marks, sweep, bars, signals, unfilled>>
      /\ Signalled' = Signalled
  BY DEF ReportClose, CloseBar, brokerVars, RunInv, IntentIsFresh, Signalled
<1>2. /\ ~ Sweeping /\ ~ Sweeping' /\ Held' = Held /\ Held \in Nat /\ cash \in Nat
      /\ bars \in Nat
  BY <1>1 DEF RunInv, SweepIs, Sweeping, Held, AccountIsGood, BookTyped
<1>3. /\ Len(recorded) \in Nat /\ DOMAIN recorded = 1 .. Len(recorded)
      /\ recorded \in Seq(Decisions)
      /\ \A i \in DOMAIN recorded : recorded[i] \in Decisions
      /\ \A i \in DOMAIN recorded : recorded[i].signal # bars /\ recorded[i].signal <= bars
      /\ bars \notin Signalled
  BY <1>1, ReportFacts DEF ReportTyped, DecisionsAreUnique, EvidenceIsUnique
<1>4. FillPerOrder' /\ EvidenceIsUnique'
  <2>1. FillPerOrder'
    BY <1>1 DEF FillPerOrder
  <2>2. \A b \in Signalled : b <= bars /\ b # bars
    BY <1>1, <1>3 DEF EvidenceIsUnique
  <2> QED
    BY <1>1, <2>1, <2>2 DEF EvidenceIsUnique
<1>5. CASE intent' = intent /\ recorded' = recorded
  <2>1. ~ Pending /\ ~ Pending' /\ PendingIsRecorded'
    BY <1>1, <1>5 DEF Pending, PendingIsRecorded
  <2>2. ReportTyped' /\ DecisionsAreUnique' /\ DatesAreEvidence'
    BY <1>1, <1>2, <1>3, <1>5 DEF ReportTyped, DecisionsAreUnique, DatesAreEvidence
  <2>3. UntradedIsExplained'
    BY <1>1, <1>2, <1>5, <2>1 DEF UntradedIsExplained
  <2> QED
    BY <1>4, <2>1, <2>2, <2>3
<1>6. ASSUME NEW new \in Decisions, recorded' = Append(recorded, new),
             new.signal = bars, new.execution = 0,
             phase' # "failed",
             new.status = "completed" =>
               /\ phase' = "open" /\ intent' # NoIntent
               /\ Held = 0 => (new.action = "HOLD" <=> intent'.target * cash = 0),
             phase' = "done" => intent' = NoIntent,
             new.status # "completed" => intent' = NoIntent
      PROVE  ReportInv'
  <2> DEFINE n == Len(recorded) + 1
  <2>1. /\ recorded' \in Seq(Decisions)
        /\ DOMAIN recorded' = 1 .. n /\ n \in DOMAIN recorded'
        /\ \A i \in DOMAIN recorded : i \in DOMAIN recorded' /\ recorded'[i] = recorded[i]
        /\ recorded'[n] = new
        /\ \A i \in DOMAIN recorded' : i \in DOMAIN recorded \/ i = n
    <3>1. recorded' \in Seq(Decisions) /\ Len(recorded') = Len(recorded) + 1
      BY <1>3, <1>6, AppendProperties
    <3>2. /\ \A i \in DOMAIN recorded : recorded'[i] = recorded[i]
          /\ recorded'[n] = new
      BY <1>3, <1>6, AppendProperties
    <3>3. DOMAIN recorded' = 1 .. n
      BY <3>1, LenProperties
    <3> QED
      BY <1>3, <3>1, <3>2, <3>3, SMT
  <2> HIDE DEF n
  <2>2. ReportTyped'
    BY <1>1, <2>1 DEF ReportTyped
  <2>3. DecisionsAreUnique'
    BY <1>1, <1>2, <1>3, <1>6, <2>1 DEF DecisionsAreUnique
  <2>4. DatesAreEvidence'
    <3>1. \A i \in DOMAIN recorded' :
            IF recorded'[i].signal \in Signalled
              THEN recorded'[i].status = "completed"
                     /\ recorded'[i].execution = recorded'[i].signal + 1
              ELSE recorded'[i].execution = 0
      BY <1>3, <1>6, <2>1 DEF DatesAreEvidence
    <3>2. \A b \in Signalled : \E i \in DOMAIN recorded' : recorded'[i].signal = b
      <4> SUFFICES ASSUME NEW b \in Signalled
                   PROVE  \E i \in DOMAIN recorded' : recorded'[i].signal = b
        OBVIOUS
      <4>1. PICK i \in DOMAIN recorded : recorded[i].signal = b
        BY DEF DatesAreEvidence
      <4> QED
        BY <2>1, <4>1
    <3> QED
      BY <1>1, <3>1, <3>2 DEF DatesAreEvidence
  <2>5. PendingIsRecorded'
    <3>1. Pending' => new.status = "completed"
      BY <1>6 DEF Pending
    <3> QED
      BY <1>1, <1>6, <2>1, <3>1 DEF PendingIsRecorded
  <2>6. UntradedIsExplained'
    <3> SUFFICES ASSUME orders = <<>>, NEW i \in DOMAIN recorded', recorded'[i].status = "completed"
                 PROVE  /\ Held = 0
                        /\ recorded'[i].action = "HOLD" <=>
                             IF Pending' /\ recorded'[i].signal = bars THEN intent'.target * cash = 0
                             ELSE recorded'[i].signal \notin unfilled
      BY <1>1, <1>2 DEF UntradedIsExplained
    <3>1. Held = 0
      BY DEF UntradedIsExplained
    <3>2. CASE i \in DOMAIN recorded
      <4>1. recorded'[i] = recorded[i] /\ recorded[i].signal # bars
        BY <1>3, <2>1, <3>2
      <4>2. recorded[i].action = "HOLD" <=> recorded[i].signal \notin unfilled
        BY <1>1, <3>2, <4>1 DEF UntradedIsExplained, Pending
      <4> QED
        BY <3>1, <4>1, <4>2
    <3>3. CASE i = n
      BY <1>6, <2>1, <3>1, <3>3 DEF Pending
    <3> QED
      BY <2>1, <3>2, <3>3
  <2> QED
    BY <1>4, <2>2, <2>3, <2>4, <2>5, <2>6
<1>7. CASE phase' # "failed" /\ intent' = intent /\ recorded' = Append(recorded, NotReady)
  <2>1. /\ NotReady \in Decisions /\ NotReady.signal = bars /\ NotReady.execution = 0
        /\ NotReady.status # "completed"
    BY <1>2 DEF NotReady, Decisions
  <2> QED
    BY <1>1, <1>6, <1>7, <2>1
<1>8. CASE intent' # intent /\ recorded' = Append(recorded, Completed(intent'.target))
  <2> DEFINE new == Completed(intent'.target)
  <2>1. PICK target \in Targets :
           /\ intent' = [target |-> target, bar |-> bars] /\ CanDecide
           /\ phase' = IF bars = MaxBars THEN "done" ELSE "open"
    BY <1>8 DEF ReportClose, CloseBar
  <2>2. phase' = "open"
    <3>1. bars # MaxBars
      BY <1>2, <2>1, BrokerAssumption, SMT DEF CanDecide
    <3> QED
      BY <2>1, <3>1
  <2>3. target \in Nat /\ intent'.target = target
    BY <2>1, RunAssumption
  <2>4. /\ new \in Decisions /\ new.signal = bars /\ new.execution = 0
        /\ new.status = "completed" /\ new.action = Action(target)
    BY <1>2, <2>3 DEF Completed, Decisions, Action
  <2>5. Held = 0 => (Action(target) = "HOLD" <=> target * cash = 0)
    <3> SUFFICES ASSUME Held = 0 PROVE Action(target) = "HOLD" <=> target * cash = 0
      OBVIOUS
    <3>1. marks[Ticker] \in Nat /\ Scale \in Nat
      BY BrokerAssumption DEF ReportTyped
    <3>2. Held * marks[Ticker] * Scale * Scale = 0
      BY <3>1, SMT
    <3>3. Held * marks[Ticker] * Scale * Scale * Scale = 0
      BY <3>1, <3>2, SMT
    <3>4. Equity = cash
      BY <1>2, <3>2, EquityIs, SMT DEF Held
    <3> QED
      BY <3>3, <3>4 DEF Action
  <2> HIDE DEF new
  <2> QED
    BY <1>1, <1>6, <1>8, <2>2, <2>3, <2>4, <2>5 DEF new
<1>9. intent' # intent => phase' # "failed"
  BY DEF ReportClose, CloseBar
<1> QED
  BY <1>5, <1>7, <1>8, <1>9 DEF ReportClose, CloseBar

LEMMA NextReportInv ==
  RunInv /\ ReportInv /\ [ReportNext]_<<vars, reportVars>> => ReportInv'
<1> SUFFICES ASSUME RunInv, ReportInv, [ReportNext]_<<vars, reportVars>> PROVE ReportInv'
  OBVIOUS
<1>1. CASE ReportOpen
  BY <1>1, ReportOpenStep
<1>2. CASE Sweep /\ UNCHANGED reportVars
  BY <1>2, ReportSweepStep
<1>3. CASE ReportClose
  BY <1>3, ReportCloseStep
<1>4. CASE UNCHANGED <<vars, reportVars>>
  BY <1>4
  DEF vars, brokerVars, runVars, reportVars, ReportInv, ReportTyped, FillPerOrder,
      EvidenceIsUnique, DecisionsAreUnique, DatesAreEvidence, PendingIsRecorded,
      UntradedIsExplained, Pending, Signalled, Sweeping, Held
<1> QED
  BY <1>1, <1>2, <1>3, <1>4 DEF ReportNext

(* The invariants of the run and of its report hold in every state: there   *)
(* is one fill per executed order, and dates and evidence go together.      *)
THEOREM ReportInvariant == ReportSpec => [](RunInv /\ ReportInv)
<1>1. RunInv /\ [ReportNext]_<<vars, reportVars>> => [RunNext]_vars
  BY DEF ReportNext, RunNext, ReportOpen, ReportClose
<1>2. ReportInit => RunInv /\ ReportInv
  BY InitRunInv, InitReportInv DEF ReportInit
<1>3. RunInv /\ ReportInv /\ [ReportNext]_<<vars, reportVars>> => RunInv' /\ ReportInv'
  BY <1>1, NextRunInv, NextReportInv
<1> QED
  BY <1>2, <1>3, PTL DEF ReportSpec

(* What a finished run shows: every order is filled, so that its evidence   *)
(* is an execution.                                                         *)
LEMMA FinishedEvidence ==
  ASSUME RunInv, ReportInv, phase = "done"
  PROVE  /\ Evidence = {[signal |-> signals[i], outcome |-> "executed"] : i \in DOMAIN orders}
                         \union {[signal |-> b, outcome |-> "unfilled"] : b \in unfilled}
         /\ Len(fills) = Len(orders) /\ Len(orders) \in Nat
         /\ DOMAIN orders = 1 .. Len(orders) /\ DOMAIN signals = DOMAIN orders
<1>1. /\ Len(orders) \in Nat /\ DOMAIN orders = 1 .. Len(orders) /\ DOMAIN signals = DOMAIN orders
      /\ \A i \in DOMAIN orders : orders[i].status = "FILLED"
  <2>1. ~ Waiting
    BY DEF Waiting
  <2> QED
    BY <2>1, BookFacts DEF RunInv, OneOpenOrder
<1>2. \A i \in DOMAIN orders : OutcomeOf(orders[i].status) = "executed"
  BY <1>1 DEF OutcomeOf
<1>3. Len(fills) = Len(orders)
  <2>1. orders # <<>> => Len(orders) \in DOMAIN orders
    BY <1>1, EmptySeq, SMT
  <2> QED
    BY <1>1, <2>1 DEF ReportInv, FillPerOrder
<1> QED
  BY <1>1, <1>2, <1>3 DEF Evidence

(* The executions of a finished run are as many as its fills.               *)
LEMMA ExecutedOrdersAreFills ==
  ASSUME RunInv, ReportInv, phase = "done"
  PROVE  Cardinality({e \in Evidence : e.outcome = "executed"}) = Len(fills)
<1> DEFINE E(i) == [signal |-> signals[i], outcome |-> "executed"]
           S == {E(i) : i \in 1 .. Len(orders)}
           f == [i \in 1 .. Len(orders) |-> E(i)]
<1>1. /\ Len(fills) = Len(orders) /\ Len(orders) \in Nat /\ DOMAIN orders = 1 .. Len(orders)
      /\ DOMAIN signals = DOMAIN orders
  BY FinishedEvidence
<1>2. {e \in Evidence : e.outcome = "executed"} = S
  BY FinishedEvidence
<1>3. \A i, k \in 1 .. Len(orders) : E(i) = E(k) => i = k
  BY <1>1 DEF ReportInv, EvidenceIsUnique
<1> HIDE DEF E
<1>4. f \in Bijection(1 .. Len(orders), S)
  <2>1. f \in [1 .. Len(orders) -> S]
    OBVIOUS
  <2>2. f \in Injection(1 .. Len(orders), S)
    BY <1>3, <2>1 DEF Injection, IsInjective
  <2>3. f \in Surjection(1 .. Len(orders), S)
    BY <2>1 DEF Surjection
  <2> QED
    BY <2>2, <2>3 DEF Bijection
<1>5. IsFiniteSet(1 .. Len(orders)) /\ Cardinality(1 .. Len(orders)) = Len(orders)
  <2> DEFINE n == Len(orders)
  <2> HIDE DEF n
  <2>1. n \in Nat
    BY <1>1 DEF n
  <2>2. IsFiniteSet(1 .. n) /\ Cardinality(1 .. n) = IF 1 > n THEN 0 ELSE n - 1 + 1
    BY <2>1, FS_Interval
  <2> QED
    BY <2>1, <2>2, SMT DEF n
<1>6. Cardinality(S) = Len(orders)
  BY <1>4, <1>5, FS_Bijection DEF ExistsBijection
<1> QED
  BY <1>1, <1>2, <1>6

(* The decisions of a finished run and the evidence for them.               *)
LEMMA DecisionsHaveEvidence ==
  ASSUME RunInv, ReportInv, phase = "done"
  PROVE  /\ \A i \in DOMAIN recorded :
              LET decision == recorded[i]
                  shown == {e \in Evidence : e.signal = decision.signal}
              IN IF decision.execution = 0 THEN shown = {}
                 ELSE Cardinality(shown) = 1 /\ decision.execution = decision.signal + 1
         /\ \A e \in Evidence : \E i \in Typed : recorded[i].signal = e.signal
<1>1. /\ Evidence = {[signal |-> signals[i], outcome |-> "executed"] : i \in DOMAIN signals}
                      \union {[signal |-> b, outcome |-> "unfilled"] : b \in unfilled}
  BY FinishedEvidence
<1>2. /\ \A e \in Evidence : e.signal \in Signalled
      /\ \A b \in Signalled : \E e \in Evidence : e.signal = b
  <2>1. \A e \in Evidence : e.signal \in Signalled
    BY <1>1 DEF Signalled
  <2>2. ASSUME NEW b \in Signalled PROVE \E e \in Evidence : e.signal = b
    <3>1. CASE b \in unfilled
      <4>1. [signal |-> b, outcome |-> "unfilled"] \in Evidence
        BY <1>1, <3>1
      <4> QED
        BY <4>1
    <3>2. CASE \E i \in DOMAIN signals : b = signals[i]
      <4>1. [signal |-> b, outcome |-> "executed"] \in Evidence
        BY <1>1, <3>2
      <4> QED
        BY <4>1
    <3> QED
      BY <3>1, <3>2 DEF Signalled
  <2> QED
    BY <2>1, <2>2
<1>3. \A e, x \in Evidence : e.signal = x.signal => e = x
  BY <1>1 DEF ReportInv, EvidenceIsUnique
<1>4. \A i \in DOMAIN recorded : recorded[i].signal \in Nat
  BY ReportFacts DEF ReportInv, Decisions
<1>5. ASSUME NEW i \in DOMAIN recorded
      PROVE  LET decision == recorded[i]
                 shown == {e \in Evidence : e.signal = decision.signal}
             IN IF decision.execution = 0 THEN shown = {}
                ELSE Cardinality(shown) = 1 /\ decision.execution = decision.signal + 1
  <2> DEFINE shown == {e \in Evidence : e.signal = recorded[i].signal}
  <2>1. CASE recorded[i].signal \in Signalled
    <3>1. PICK e \in Evidence : e.signal = recorded[i].signal
      BY <1>2, <2>1
    <3>2. shown = {e}
      BY <1>3, <3>1
    <3>3. Cardinality(shown) = 1
      BY <3>2, FS_Singleton
    <3>4. recorded[i].execution = recorded[i].signal + 1 /\ recorded[i].execution # 0
      <4>1. recorded[i].execution = recorded[i].signal + 1
        BY <2>1 DEF ReportInv, DatesAreEvidence
      <4> QED
        BY <1>4, <4>1, SMT
    <3> QED
      BY <3>3, <3>4
  <2>2. CASE recorded[i].signal \notin Signalled
    BY <1>2, <2>2 DEF ReportInv, DatesAreEvidence
  <2> QED
    BY <2>1, <2>2
<1>6. ASSUME NEW e \in Evidence PROVE \E i \in Typed : recorded[i].signal = e.signal
  <2>1. PICK i \in DOMAIN recorded : recorded[i].signal = e.signal
    BY <1>2 DEF ReportInv, DatesAreEvidence
  <2> QED
    BY <1>2, <2>1 DEF ReportInv, DatesAreEvidence, Typed
<1> QED
  BY <1>5, <1>6

(* A run without fills is explained.                                        *)
LEMMA NoTradesAreExplained ==
  ASSUME RunInv, ReportInv, phase = "done"
  PROVE  /\ "all_hold" \in Reasons => Evidence = {}
         /\ fills = <<>> => Reasons # {} \/ Evidence # {}
<1>1. /\ Len(fills) = Len(orders) /\ Len(orders) \in Nat /\ DOMAIN orders = 1 .. Len(orders)
      /\ Evidence = {[signal |-> signals[i], outcome |-> "executed"] : i \in DOMAIN orders}
                      \union {[signal |-> b, outcome |-> "unfilled"] : b \in unfilled}
  BY FinishedEvidence
<1>2. ASSUME fills = <<>>
      PROVE  /\ Evidence = {} <=> unfilled = {}
             /\ \A i \in Typed : recorded[i].action = "HOLD" <=> recorded[i].signal \notin unfilled
  <2>1. Len(orders) = 0 /\ orders \in Seq(RunOrders)
    BY <1>1, <1>2, EmptySeq DEF RunInv, BookTyped
  <2>2. orders = <<>> /\ DOMAIN orders = {}
    BY <1>1, <2>1, EmptySeq, SMT
  <2>3. Evidence = {} <=> unfilled = {}
    BY <1>1, <2>2
  <2> QED
    BY <2>2, <2>3 DEF ReportInv, UntradedIsExplained, Pending, Typed
<1>3. \A b \in unfilled : \E i \in Typed : recorded[i].signal = b
  <2> SUFFICES ASSUME NEW b \in unfilled PROVE \E i \in Typed : recorded[i].signal = b
    OBVIOUS
  <2>1. b \in Signalled
    BY DEF Signalled
  <2> QED
    BY <2>1 DEF ReportInv, DatesAreEvidence, Typed
<1>4. ASSUME "all_hold" \in Reasons PROVE Evidence = {}
  <2>1. fills = <<>> /\ \A i \in Typed : recorded[i].action = "HOLD"
    BY <1>4 DEF Reasons, ReasonHolds
  <2> QED
    BY <1>2, <1>3, <2>1
<1>5. ASSUME fills = <<>>, Evidence = {} PROVE Reasons # {}
  <2>1. \A i \in Typed : recorded[i].action = "HOLD"
    BY <1>2, <1>5
  <2>2. \/ recorded = <<>> \/ Typed # DOMAIN recorded \/ Typed # {}
    <3>1. recorded # <<>> => DOMAIN recorded # {}
      <4>1. DOMAIN recorded = 1 .. Len(recorded) /\ recorded \in Seq(Decisions)
        BY ReportFacts DEF ReportInv, ReportTyped
      <4>2. recorded # <<>> => Len(recorded) \in Nat \ {0}
        BY <4>1, EmptySeq
      <4>3. Len(recorded) \in Nat \ {0} => 1 \in 1 .. Len(recorded)
        OBVIOUS
      <4> QED
        BY <4>1, <4>2, <4>3
    <3> QED
      BY <3>1
  <2>3. \E r \in {"no_signals", "not_ready", "all_hold"} : r \in DOMAIN ReasonHolds /\ ReasonHolds[r]
    BY <2>1, <2>2 DEF ReasonHolds
  <2> QED
    BY <1>5, <2>3 DEF Reasons
<1> QED
  BY <1>4, <1>5

(* Every decision of a finished run is accounted for: the dated ones have   *)
(* one order or unfilled intent on their date, executed on the next bar,    *)
(* the others have none; what is executed is filled; and a run without      *)
(* trades has a reason or an intent to show.                                *)
THEOREM DecisionsAreAccountedFor == ReportSpec => []DecisionsAccountedFor
<1>1. RunInv /\ ReportInv => DecisionsAccountedFor
  <2> SUFFICES ASSUME RunInv, ReportInv, Reported
               PROVE  LET view == ResultView(1 .. bars) IN
      /\ \A i \in DOMAIN view.decisions :
           LET decision == view.decisions[i]
               shown == {e \in view.orders : e.signal = decision.signal}
           IN IF decision.execution = 0 THEN shown = {}
              ELSE Cardinality(shown) = 1 /\ decision.execution = decision.signal + 1
      /\ \A e \in view.orders : \E i \in Typed : recorded[i].signal = e.signal
      /\ Cardinality({e \in view.orders : e.outcome = "executed"}) = view.summary.fills
      /\ "all_hold" \in view.no_trade_reasons => view.orders = {}
      /\ view.executions = <<>> => view.no_trade_reasons # {} \/ view.orders # {}
    BY DEF DecisionsAccountedFor
  <2> DEFINE view == ResultView(1 .. bars)
  <2>1. /\ view.decisions = recorded /\ view.orders = Evidence
        /\ view.summary = Summary(1 .. bars)
        /\ view.no_trade_reasons = Reasons /\ view.executions = Executions
    BY DEF ResultView
  <2>2. view.summary.fills = Len(fills)
    BY <2>1 DEF Summary
  <2>3. Executions = <<>> => fills = <<>>
    <3>1. DOMAIN Executions = DOMAIN fills
      BY DEF Executions
    <3>2. fills \in Seq(Fill)
      BY DEF ReportInv, ReportTyped
    <3>3. DOMAIN fills = {} => fills = <<>>
      BY <3>2, EmptySeq, LenProperties, SMT
    <3> QED
      BY <3>1, <3>3, EmptySeq
  <2>4. phase = "done"
    BY DEF Reported
  <2> HIDE DEF view
  <2>5. /\ \A i \in DOMAIN view.decisions :
             LET decision == view.decisions[i]
                 shown == {e \in view.orders : e.signal = decision.signal}
             IN IF decision.execution = 0 THEN shown = {}
                ELSE Cardinality(shown) = 1 /\ decision.execution = decision.signal + 1
        /\ \A e \in view.orders : \E i \in Typed : recorded[i].signal = e.signal
    BY <2>1, <2>4, DecisionsHaveEvidence
  <2>6. Cardinality({e \in view.orders : e.outcome = "executed"}) = view.summary.fills
    BY <2>1, <2>2, <2>4, ExecutedOrdersAreFills
  <2>7. /\ "all_hold" \in view.no_trade_reasons => view.orders = {}
        /\ view.executions = <<>> => view.no_trade_reasons # {} \/ view.orders # {}
    BY <2>1, <2>3, <2>4, NoTradesAreExplained
  <2> QED
    BY <2>5, <2>6, <2>7 DEF view
<1> QED
  BY <1>1, ReportInvariant, PTL
-----------------------------------------------------------------------------
(* Fractions.  Gcd is Euclid's algorithm on pairs, a fraction is kept in    *)
(* its lowest terms, so equal fractions are the same record.                *)

(* Division with a remainder, and that there is only one.                   *)
LEMMA DivMod ==
  ASSUME NEW a \in Nat, NEW b \in Nat \ {0}
  PROVE  /\ a \div b \in Nat /\ a % b \in Nat /\ a % b < b
         /\ a = b * (a \div b) + (a % b)
<1>1. a \div b \in Int /\ a % b \in 0 .. b - 1
  BY SMT
<1>2. a = b * (a \div b) + (a % b)
  BY SMT
<1>3. a \div b >= 0
  BY SMT
<1> QED
  BY <1>1, <1>2, <1>3

(* Two divisions by the same number with remainders below it agree.         *)
LEMMA OneRemainder ==
  ASSUME NEW b \in Nat \ {0}, NEW q \in Int, NEW p \in Int, NEW r \in Nat, NEW s \in Nat, r < b, s < b,
         b * q + r = b * p + s
  PROVE  q = p /\ r = s
<1>1. b * (q - p) = s - r
  BY SMT
<1>2. s - r < b /\ r - s < b
  BY SMT
<1>3. CASE q - p >= 1
  <2>1. b * (q - p) >= b
    BY <1>3, SMT
  <2> QED
    BY <1>1, <1>2, <2>1
<1>4. CASE q - p <= -1
  <2>1. b * (q - p) <= -b
    BY <1>4, SMT
  <2> QED
    BY <1>1, <1>2, <2>1
<1>5. CASE q = p
  BY <1>1, <1>5
<1> QED
  BY <1>3, <1>4, <1>5

Divides(c, a) == \E k \in Nat : a = c * k
CommonDivisors(a, b) == {c \in Nat \ {0} : Divides(c, a) /\ Divides(c, b)}

(* A pair and the pair of the next round have the same divisors.            *)
LEMMA SameDivisors ==
  ASSUME NEW a \in Nat, NEW b \in Nat \ {0}, NEW c \in Nat \ {0}
  PROVE  Divides(c, a) /\ Divides(c, b) <=> Divides(c, b) /\ Divides(c, a % b)
<1>1. a \div b \in Nat /\ a % b \in Nat /\ a = b * (a \div b) + (a % b)
  BY DivMod
<1>2. ASSUME NEW i \in Nat, NEW j \in Nat, a = c * i, b = c * j PROVE Divides(c, a % b)
  <2>1. j * (a \div b) \in Nat
    BY <1>1, ProductNat
  <2>2. b * (a \div b) = c * (j * (a \div b))
    BY <1>1, <1>2, SMT
  <2> DEFINE m == i - j * (a \div b)
  <2>3. m \in Int /\ a % b = c * m
    BY <1>1, <1>2, <2>1, <2>2, SMT
  <2>4. m \in Nat
    <3> HIDE DEF m
    <3>1. m < 0 => c * m < 0
      BY <2>3, SMT
    <3> QED
      BY <1>1, <2>3, <3>1
  <2> QED
    BY <2>3, <2>4 DEF Divides
<1>3. ASSUME NEW j \in Nat, NEW k \in Nat, b = c * j, a % b = c * k PROVE Divides(c, a)
  <2>1. j * (a \div b) \in Nat
    BY <1>1, ProductNat
  <2>2. b * (a \div b) = c * (j * (a \div b))
    <3> DEFINE q == a \div b
    <3>1. b = c * j /\ q \in Nat
      BY <1>1, <1>3
    <3> HIDE DEF q
    <3>2. (c * j) * q = c * (j * q)
      BY <3>1, SMT
    <3>3. b * q = c * (j * q)
      BY <3>1, <3>2, Zenon
    <3> QED
      BY <3>3 DEF q
  <2> DEFINE n == j * (a \div b)
  <2> HIDE DEF n
  <2>3. n \in Nat /\ a = c * n + c * k
    BY <1>1, <1>3, <2>1, <2>2 DEF n
  <2>4. a = c * (n + k) /\ n + k \in Nat
    BY <2>3, SMT
  <2> QED
    BY <2>4 DEF Divides
<1> QED
  BY <1>2, <1>3 DEF Divides

(* Euclid's equation has a solution: the greatest common divisor.           *)
Greatest(S) == CHOOSE c \in S : \A x \in S : x <= c
GcdStep(g) == g = [p \in Nat \X Nat |-> IF p[2] = 0 THEN p[1] ELSE g[<<p[2], p[1] % p[2]>>]]

(* Euclid's recursion has a solution.                                       *)
LEMMA GcdExists == \E g : GcdStep(g)
<1> DEFINE G(a, b) == IF b = 0 THEN a ELSE Greatest(CommonDivisors(a, b))
           g == [p \in Nat \X Nat |-> G(p[1], p[2])]
<1>1. ASSUME NEW a \in Nat, NEW b \in Nat \ {0} PROVE G(a, b) = G(b, a % b)
  <2>1. a % b \in Nat
    BY DivMod
  <2>2. CommonDivisors(a, b) = CommonDivisors(b, a % b)
    BY SameDivisors DEF CommonDivisors
  <2>3. CASE a % b = 0
    <3> DEFINE D == CommonDivisors(b, 0)
    <3>1. Divides(b, b) /\ Divides(b, 0)
      <4>1. b = b * 1 /\ 0 = b * 0
        BY SMT
      <4> QED
        BY <4>1 DEF Divides
    <3>2. b \in D
      BY <3>1 DEF CommonDivisors
    <3>3. ASSUME NEW c \in D PROVE c \in Nat /\ c <= b
      <4>1. PICK k \in Nat : b = c * k
        BY DEF CommonDivisors, Divides
      <4>2. c \in Nat \ {0} /\ k # 0
        BY <4>1, SMT DEF CommonDivisors
      <4>3. c * (k - 1) >= 0
        BY <4>2, SMT
      <4> QED
        BY <4>1, <4>2, <4>3, SMT
    <3>4. \A x \in D : (\A c \in D : c <= x) => x = b
      <4> HIDE DEF D
      <4> QED
        BY <3>2, <3>3
    <3>5. Greatest(D) = b
      <4> HIDE DEF D
      <4> QED
        BY <3>2, <3>3, <3>4 DEF Greatest
    <3> QED
      BY <2>2, <2>3, <3>5
  <2>4. CASE a % b # 0
    BY <2>2, <2>4
  <2> QED
    BY <2>3, <2>4
<1>2. ASSUME NEW p \in Nat \X Nat
      PROVE  g[p] = IF p[2] = 0 THEN p[1] ELSE g[<<p[2], p[1] % p[2]>>]
  <2>1. p[1] \in Nat /\ p[2] \in Nat
    OBVIOUS
  <2>2. CASE p[2] = 0
    BY <2>1, <2>2
  <2>3. CASE p[2] # 0
    <3>1. p[1] % p[2] \in Nat /\ <<p[2], p[1] % p[2]>> \in Nat \X Nat
      BY <2>1, <2>3, DivMod
    <3>2. G(p[1], p[2]) = G(p[2], p[1] % p[2])
      BY <1>1, <2>1, <2>3
    <3> HIDE DEF G
    <3> QED
      BY <2>3, <3>1, <3>2
  <2> QED
    BY <2>2, <2>3
<1> HIDE DEF G
<1>3. g = [p \in Nat \X Nat |-> g[p]]
  OBVIOUS
<1> HIDE DEF g
<1>4. [p \in Nat \X Nat |-> g[p]]
        = [p \in Nat \X Nat |-> IF p[2] = 0 THEN p[1] ELSE g[<<p[2], p[1] % p[2]>>]]
  BY <1>2
<1> QED
  BY <1>3, <1>4 DEF GcdStep

(* So Gcd is one.                                                           *)
LEMMA GcdRule ==
  ASSUME NEW a \in Nat, NEW b \in Nat
  PROVE  Gcd[<<a, b>>] = IF b = 0 THEN a ELSE Gcd[<<b, a % b>>]
<1>1. GcdStep(Gcd)
  BY GcdExists DEF GcdStep, Gcd
<1> QED
  BY <1>1 DEF GcdStep

(* A round of Euclid's algorithm.                                           *)
LEMMA GcdRound ==
  ASSUME NEW a \in Nat, NEW b \in Nat \ {0}
  PROVE  Gcd[<<a, b>>] = Gcd[<<b, a % b>>]
  BY GcdRule

(* Strong induction, as a fact about sets.                                  *)
LEMMA Induction ==
  ASSUME NEW X, \A n \in Nat : (\A m \in Nat : m < n => m \in X) => n \in X
  PROVE  Nat \subseteq X
<1>1. SUFFICES ASSUME Nat \ X # {} PROVE FALSE
  OBVIOUS
<1>2. PICK n \in Nat \ X : \A m \in Nat \ X : n <= m
  BY <1>1, LeastMember
<1>3. \A m \in Nat : m < n => m \in X
  BY <1>2
<1> QED
  BY <1>2, <1>3

(* The greatest common divisor divides, and is positive unless both are 0.  *)
GcdDivides(a, b) ==
  LET g == Gcd[<<a, b>>] IN
    g \in Nat /\ Divides(g, a) /\ Divides(g, b) /\ (a # 0 \/ b # 0 => g # 0)

(* The greatest common divisor is positive and divides both.                *)
LEMMA GcdIs ==
  ASSUME NEW a \in Nat, NEW b \in Nat
  PROVE  GcdDivides(a, b)
<1> DEFINE X == {n \in Nat : \A m \in Nat : GcdDivides(m, n)}
<1>1. ASSUME NEW n \in Nat, \A m \in Nat : m < n => m \in X PROVE n \in X
  <2> SUFFICES ASSUME NEW m \in Nat PROVE GcdDivides(m, n)
    OBVIOUS
  <2>1. CASE n = 0
    <3>1. Gcd[<<m, n>>] = m
      BY <2>1, GcdRule
    <3>2. m = m * 1 /\ n = m * 0
      BY <2>1, SMT
    <3> QED
      BY <2>1, <3>1, <3>2 DEF GcdDivides, Divides
  <2>2. CASE n # 0
    <3> DEFINE r == m % n
               g == Gcd[<<n, r>>]
    <3>1. r \in Nat /\ r < n /\ Gcd[<<m, n>>] = g
      BY <2>2, DivMod, GcdRule
    <3>2. GcdDivides(n, r)
      BY <1>1, <3>1
    <3>3. g \in Nat \ {0} /\ Divides(g, n) /\ Divides(g, r)
      BY <2>2, <3>2 DEF GcdDivides
    <3>4. Divides(g, m)
      <4> HIDE DEF g
      <4> QED
        BY <2>2, <3>3, SameDivisors
    <3> HIDE DEF g, r
    <3> QED
      BY <3>1, <3>3, <3>4 DEF GcdDivides
  <2> QED
    BY <2>1, <2>2
<1>2. Nat \subseteq X
  <2> HIDE DEF X
  <2> QED
    BY <1>1, Induction
<1> QED
  BY <1>2

(* The greatest common divisor of multiples.                                *)
LEMMA GcdScales ==
  ASSUME NEW k \in Nat \ {0}, NEW a \in Nat, NEW b \in Nat
  PROVE  Gcd[<<k * a, k * b>>] = k * Gcd[<<a, b>>]
<1> DEFINE X == {n \in Nat : \A m \in Nat : Gcd[<<k * m, k * n>>] = k * Gcd[<<m, n>>]}
<1>1. ASSUME NEW n \in Nat, \A m \in Nat : m < n => m \in X PROVE n \in X
  <2> SUFFICES ASSUME NEW m \in Nat PROVE Gcd[<<k * m, k * n>>] = k * Gcd[<<m, n>>]
    OBVIOUS
  <2>0. k * m \in Nat /\ k * n \in Nat
    BY ProductNat
  <2>1. CASE n = 0
    <3>1. k * n = 0
      BY <2>1, SMT
    <3> QED
      BY <2>0, <2>1, <3>1, GcdRule
  <2>2. CASE n # 0
    <3> DEFINE r == m % n
               q == m \div n
               R == (k * m) % (k * n)
               Q == (k * m) \div (k * n)
    <3>1. r \in Nat /\ r < n /\ q \in Nat /\ m = n * q + r
      BY <2>2, DivMod
    <3>2. k * n \in Nat \ {0}
      BY <2>0, <2>2, SMT
    <3>3. R \in Nat /\ R < k * n /\ Q \in Nat /\ k * m = (k * n) * Q + R
      BY <2>0, <3>2, DivMod
    <3>4. k * r \in Nat /\ k * r < k * n /\ k * m = (k * n) * q + k * r
      <4> HIDE DEF r, q
      <4>1. k * r \in Nat /\ k * (n - r) > 0
        BY <3>1, SMT
      <4>2. k * m = k * (n * q) + k * r
        BY <3>1, SMT
      <4>3. k * (n * q) = (k * n) * q
        BY <3>1, SMT
      <4> QED
        BY <3>1, <4>1, <4>2, <4>3, SMT
    <3>5. R = k * r
      <4> HIDE DEF r, q, R, Q
      <4>1. (k * n) * Q + R = (k * n) * q + k * r
        BY <3>3, <3>4
      <4> DEFINE B == k * n
                 s == k * r
      <4>2. /\ B \in Nat \ {0} /\ Q \in Int /\ q \in Int /\ R \in Nat /\ s \in Nat
            /\ R < B /\ s < B /\ B * Q + R = B * q + s
        BY <3>1, <3>2, <3>3, <3>4, <4>1
      <4> HIDE DEF B, s
      <4>3. R = s
        BY <4>2, OneRemainder
      <4> QED
        BY <4>3 DEF s
    <3>6. Gcd[<<k * m, k * n>>] = Gcd[<<k * n, k * r>>] /\ Gcd[<<m, n>>] = Gcd[<<n, r>>]
      <4>1. Gcd[<<k * m, k * n>>] = Gcd[<<k * n, R>>]
        <5> DEFINE A == k * m
                   B == k * n
        <5>1. A \in Nat /\ B \in Nat \ {0}
          BY <2>0, <3>2
        <5> HIDE DEF A, B
        <5>2. Gcd[<<A, B>>] = Gcd[<<B, A % B>>]
          BY <5>1, GcdRound
        <5> QED
          BY <5>2 DEF A, B
      <4>2. Gcd[<<m, n>>] = Gcd[<<n, r>>]
        BY <2>2, GcdRound
      <4> QED
        BY <3>5, <4>1, <4>2, Zenon
    <3>7. Gcd[<<k * n, k * r>>] = k * Gcd[<<n, r>>]
      <4> HIDE DEF r
      <4> QED
        BY <1>1, <3>1
    <3> QED
      BY <3>6, <3>7
  <2> QED
    BY <2>1, <2>2
<1>2. Nat \subseteq X
  <2> HIDE DEF X
  <2> QED
    BY <1>1, Induction
<1> QED
  BY <1>2

(* Dividing a multiple.                                                     *)
LEMMA ExactDivision ==
  ASSUME NEW g \in Nat \ {0}, NEW s \in Int
  PROVE  (g * s) \div g = s
<1> DEFINE a == g * s
           q == a \div g
<1>1. a \in Int /\ q \in Int /\ q * g <= a /\ a < (q + 1) * g
  BY FloorDivision
<1>2. g * (s - q) >= 0 /\ g * (s - q) < g
  <2> HIDE DEF q
  <2> QED
    BY <1>1, SMT
<1>3. s - q >= 1 => g * (s - q) >= g
  <2> HIDE DEF q, a
  <2> QED
    BY <1>1, SMT
<1>4. s - q <= -1 => g * (s - q) <= -g
  <2> HIDE DEF q, a
  <2> QED
    BY <1>1, SMT
<1> HIDE DEF q
<1> QED
  BY <1>1, <1>2, <1>3, <1>4 DEF q

(* The lowest terms of a fraction.                                          *)
Lowest(n, d, g, s, j) ==
  /\ g \in Nat \ {0} /\ s \in Int /\ j \in Nat \ {0}
  /\ n = g * s /\ d = g * j /\ Gcd[<<AbsInt(n), d>>] = g
  /\ Frac(n, d) = IF n = 0 THEN [n |-> 0, d |-> 1] ELSE [n |-> s, d |-> j]

(* A fraction is kept as its parts over their divisor.                      *)
LEMMA LowestTerms ==
  ASSUME NEW n \in Int, NEW d \in Nat \ {0}
  PROVE  \E g, s, j : Lowest(n, d, g, s, j)
<1> DEFINE g == Gcd[<<AbsInt(n), d>>]
<1>1. AbsInt(n) \in Nat
  BY DEF AbsInt
<1>2. g \in Nat \ {0} /\ Divides(g, AbsInt(n)) /\ Divides(g, d)
  BY <1>1, GcdIs DEF GcdDivides
<1>3. Frac(n, d) = IF n = 0 THEN [n |-> 0, d |-> 1] ELSE [n |-> n \div g, d |-> d \div g]
  BY DEF Frac
<1> HIDE DEF g
<1>4. PICK i \in Nat, j \in Nat : AbsInt(n) = g * i /\ d = g * j
  BY <1>2 DEF Divides
<1> DEFINE s == IF n < 0 THEN -i ELSE i
<1>5. s \in Int /\ n = g * s
  <2>1. CASE n < 0
    BY <1>2, <1>4, <2>1, SMT DEF AbsInt
  <2>2. CASE ~ (n < 0)
    BY <1>2, <1>4, <2>2, SMT DEF AbsInt
  <2> QED
    BY <2>1, <2>2
<1>6. j # 0
  BY <1>2, <1>4, SMT
<1> HIDE DEF s
<1>7. n \div g = s /\ d \div g = j
  BY <1>2, <1>4, <1>5, ExactDivision
<1> QED
  BY <1>2, <1>3, <1>4, <1>5, <1>6, <1>7 DEF Lowest, g

(* The parts of a fraction.                                                 *)
LEMMA FracIs ==
  ASSUME NEW n \in Int, NEW d \in Nat \ {0}
  PROVE  LET x == Frac(n, d) IN
           /\ x \in [n : Int, d : Nat \ {0}] /\ x.n * d = n * x.d
           /\ (x.n > 0 <=> n > 0) /\ (x.n = 0 <=> n = 0)
<1>1. PICK g, s, j : Lowest(n, d, g, s, j)
  BY LowestTerms
<1>2. CASE n = 0
  BY <1>1, <1>2 DEF Lowest
<1>3. CASE n # 0
  <2>1. Frac(n, d) = [n |-> s, d |-> j]
    BY <1>1, <1>3 DEF Lowest
  <2>2. /\ g \in Nat \ {0} /\ s \in Int /\ j \in Nat \ {0}
        /\ n = g * s /\ d = g * j
    BY <1>1 DEF Lowest
  <2>3. s * (g * j) = (g * s) * j
    BY <2>2, SMT
  <2>4. (s > 0 <=> g * s > 0) /\ (s = 0 <=> g * s = 0)
    BY <2>2, SMT
  <2> QED
    BY <2>1, <2>2, <2>3, <2>4
<1> QED
  BY <1>2, <1>3

(* A factor of both parts cancels.                                          *)
LEMMA FracScales ==
  ASSUME NEW n \in Int, NEW d \in Nat \ {0}, NEW k \in Nat \ {0}
  PROVE  Frac(k * n, k * d) = Frac(n, d)
<1>1. PICK g, s, j : Lowest(n, d, g, s, j)
  BY LowestTerms
<1>2. /\ g \in Nat \ {0} /\ s \in Int /\ j \in Nat \ {0}
      /\ n = g * s /\ d = g * j /\ Gcd[<<AbsInt(n), d>>] = g
      /\ AbsInt(n) \in Nat
  BY <1>1 DEF Lowest, AbsInt
<1>3. AbsInt(k * n) = k * AbsInt(n) /\ (k * n = 0 <=> n = 0)
  BY SMT DEF AbsInt
<1>4. Gcd[<<AbsInt(k * n), k * d>>] = k * g
  BY <1>2, <1>3, GcdScales
<1>5. k * n = (k * g) * s /\ k * d = (k * g) * j /\ k * g \in Nat \ {0}
  <2>1. k * (g * s) = (k * g) * s /\ k * (g * j) = (k * g) * j
    BY <1>2, SMT
  <2>2. k * g \in Nat \ {0}
    BY <1>2, SMT
  <2> QED
    BY <1>2, <2>1, <2>2
<1>6. (k * n) \div (k * g) = s /\ (k * d) \div (k * g) = j
  <2> DEFINE m == k * g
  <2>1. m \in Nat \ {0} /\ k * n = m * s /\ k * d = m * j
    BY <1>5
  <2> HIDE DEF m
  <2>2. (m * s) \div m = s /\ (m * j) \div m = j
    BY <1>2, <2>1, ExactDivision
  <2> QED
    BY <2>1, <2>2 DEF m
<1>7. CASE n = 0
  BY <1>1, <1>3, <1>7 DEF Lowest, Frac
<1>8. CASE n # 0
  BY <1>1, <1>3, <1>4, <1>6, <1>8 DEF Lowest, Frac
<1> QED
  BY <1>7, <1>8

(* Fractions of the same value are the same fraction.                       *)
LEMMA FracEqual ==
  ASSUME NEW m \in Int, NEW n \in Int, NEW c \in Nat \ {0}, NEW d \in Nat \ {0},
         m * d = n * c
  PROVE  Frac(m, c) = Frac(n, d)
<1>1. d * m = c * n /\ d * c = c * d
  BY SMT
<1>2. Frac(d * m, d * c) = Frac(m, c) /\ Frac(c * n, c * d) = Frac(n, d)
  BY FracScales
<1> QED
  BY <1>1, <1>2, Zenon

Fractions == {Frac(n, d) : n \in Int, d \in Nat \ {0}}

(* Numerators and denominators of sums are such numbers.                    *)
LEMMA Denominators ==
  ASSUME NEW a \in Int, NEW b \in Nat \ {0}, NEW c \in Int, NEW d \in Nat \ {0}
  PROVE  a * d + c * b \in Int /\ a * d - c * b \in Int /\ b * d \in Nat \ {0}
<1>1. a * d \in Int /\ c * b \in Int /\ b * d \in Nat \ {0}
  BY SMT
<1> DEFINE m == a * d
           n == c * b
<1> HIDE DEF m, n
<1>2. m \in Int /\ n \in Int => m + n \in Int /\ m - n \in Int
  BY SMT
<1> QED
  BY <1>1, <1>2 DEF m, n

(* The sum of two fractions.                                                *)
LEMMA FracPlus ==
  ASSUME NEW a \in Int, NEW b \in Nat \ {0}, NEW c \in Int, NEW d \in Nat \ {0}
  PROVE  Plus(Frac(a, b), Frac(c, d)) = Frac(a * d + c * b, b * d)
<1> DEFINE x == Frac(a, b)
           y == Frac(c, d)
<1>1. x.n \in Int /\ x.d \in Nat \ {0} /\ x.n * b = a * x.d
  BY FracIs
<1>2. y.n \in Int /\ y.d \in Nat \ {0} /\ y.n * d = c * y.d
  BY FracIs
<1> HIDE DEF x, y
<1> DEFINE p == x.n
           q == x.d
           r == y.n
           s == y.d
<1>3. /\ p \in Int /\ q \in Nat \ {0} /\ r \in Int /\ s \in Nat \ {0}
      /\ p * b = a * q /\ r * d = c * s
  BY <1>1, <1>2
<1>4. Plus(x, y) = Frac(p * s + r * q, q * s)
  BY DEF Plus
<1> HIDE DEF p, q, r, s
<1>5. (p * s + r * q) * (b * d) = (a * d + c * b) * (q * s)
  <2>1. (p * s + r * q) * (b * d) = (p * b) * (s * d) + (r * d) * (q * b)
    BY <1>3, SMT
  <2>2. (a * d + c * b) * (q * s) = (a * q) * (s * d) + (c * s) * (q * b)
    BY <1>3, SMT
  <2> QED
    BY <1>3, <2>1, <2>2
<1>6. /\ p * s + r * q \in Int /\ a * d + c * b \in Int
      /\ q * s \in Nat \ {0} /\ b * d \in Nat \ {0}
  BY <1>3, SMT
<1>7. Frac(p * s + r * q, q * s) = Frac(a * d + c * b, b * d)
  BY <1>5, <1>6, FracEqual
<1> QED
  BY <1>4, <1>7 DEF x, y

(* Their difference.                                                        *)
LEMMA FracMinus ==
  ASSUME NEW a \in Int, NEW b \in Nat \ {0}, NEW c \in Int, NEW d \in Nat \ {0}
  PROVE  Minus(Frac(a, b), Frac(c, d)) = Frac(a * d - c * b, b * d)
<1> DEFINE y == Frac(c, d)
           z == Frac(-c, d)
<1>1. y \in [n : Int, d : Nat \ {0}] /\ y.n * d = c * y.d
  BY FracIs
<1>2. [y EXCEPT !.n = -@] = [n |-> -y.n, d |-> y.d]
  <2> HIDE DEF y
  <2> QED
    BY <1>1
<1>3. Minus(Frac(a, b), y) = Plus(Frac(a, b), [n |-> -y.n, d |-> y.d])
  BY <1>2 DEF Minus
<1>4. PICK g, s, j : Lowest(c, d, g, s, j)
  BY LowestTerms
<1>5. z = [n |-> -y.n, d |-> y.d]
  <2>1. PICK h, t, k : Lowest(-c, d, h, t, k)
    BY LowestTerms
  <2>2. /\ g \in Nat \ {0} /\ s \in Int /\ j \in Nat \ {0} /\ c = g * s /\ d = g * j
        /\ h \in Nat \ {0} /\ t \in Int /\ k \in Nat \ {0} /\ -c = h * t /\ d = h * k
    BY <1>4, <2>1 DEF Lowest
  <2>3. h = g
    <3>1. AbsInt(-c) = AbsInt(c)
      BY DEF AbsInt
    <3> QED
      BY <1>4, <2>1, <3>1 DEF Lowest
  <2>4. k = j /\ t = -s
    <3>1. g * (k - j) = 0 /\ g * (t + s) = 0
      BY <2>2, <2>3, SMT
    <3>2. k - j = 0 /\ t + s = 0
      BY <2>2, <3>1, SMT
    <3> QED
      BY <2>2, <3>2
  <2>5. CASE c = 0
    BY <1>4, <2>1, <2>5 DEF Lowest
  <2>6. CASE c # 0
    BY <1>4, <2>1, <2>4, <2>6 DEF Lowest
  <2> QED
    BY <2>5, <2>6
<1>6. Plus(Frac(a, b), z) = Frac(a * d + (-c) * b, b * d)
  BY FracPlus
<1>7. a * d + (-c) * b = a * d - c * b
  BY SMT
<1> QED
  BY <1>3, <1>5, <1>6, <1>7, Zenon

(* A fraction times k / d.                                                  *)
LEMMA FracTimes ==
  ASSUME NEW a \in Int, NEW b \in Nat \ {0}, NEW k \in Int, NEW d \in Nat \ {0}
  PROVE  Times(Frac(a, b), k, d) = Frac(a * k, b * d)
<1> DEFINE x == Frac(a, b)
           p == x.n
           q == x.d
<1>1. p \in Int /\ q \in Nat \ {0} /\ p * b = a * q
  BY FracIs
<1>2. Times(x, k, d) = Frac(p * k, q * d)
  BY DEF Times
<1> HIDE DEF p, q
<1>3. (p * k) * (b * d) = (a * k) * (q * d)
  <2>1. (p * k) * (b * d) = (p * b) * (k * d) /\ (a * k) * (q * d) = (a * q) * (k * d)
    BY <1>1, SMT
  <2> QED
    BY <1>1, <2>1
<1>4. p * k \in Int /\ a * k \in Int /\ q * d \in Nat \ {0} /\ b * d \in Nat \ {0}
  BY <1>1, SMT
<1> QED
  BY <1>2, <1>3, <1>4, FracEqual

(* Fractions are compared crosswise.                                        *)
LEMMA FracLess ==
  ASSUME NEW a \in Int, NEW b \in Nat \ {0}, NEW c \in Int, NEW d \in Nat \ {0}
  PROVE  Less(Frac(a, b), Frac(c, d)) <=> a * d < c * b
<1> DEFINE x == Frac(a, b)
           y == Frac(c, d)
           p == x.n
           q == x.d
           r == y.n
           s == y.d
<1>1. p \in Int /\ q \in Nat \ {0} /\ p * b = a * q
  BY FracIs
<1>2. r \in Int /\ s \in Nat \ {0} /\ r * d = c * s
  BY FracIs
<1>3. Less(x, y) <=> p * s < r * q
  BY DEF Less
<1> HIDE DEF p, q, r, s
<1>4. (r * q - p * s) * (b * d) = (c * b - a * d) * (q * s)
  <2>1. (r * q - p * s) * (b * d) = (r * d) * (q * b) - (p * b) * (s * d)
    BY <1>1, <1>2, SMT
  <2>2. (c * b - a * d) * (q * s) = (c * s) * (q * b) - (a * q) * (s * d)
    BY <1>1, <1>2, SMT
  <2> QED
    BY <1>1, <1>2, <2>1, <2>2
<1> DEFINE u == r * q - p * s
           v == c * b - a * d
           m == b * d
           n == q * s
<1>5. u \in Int /\ v \in Int /\ m \in Nat \ {0} /\ n \in Nat \ {0}
  BY <1>1, <1>2, SMT
<1>6. u > 0 <=> v > 0
  <2> HIDE DEF u, v, m, n
  <2>1. (u > 0 <=> u * m > 0) /\ (v > 0 <=> v * n > 0)
    BY <1>5, SMT
  <2>2. u * m = v * n
    BY <1>4 DEF u, v, m, n
  <2> QED
    BY <2>1, <2>2
<1>7. (p * s < r * q <=> u > 0) /\ (a * d < c * b <=> v > 0)
  BY <1>1, <1>2, SMT
<1> HIDE DEF u, v
<1> QED
  BY <1>3, <1>6, <1>7

(* What the fractions are closed under.                                     *)
LEMMA FractionTypes ==
  /\ \A n \in Int : Whole(n) \in Fractions /\ Whole(n) = Frac(n, 1)
  /\ \A x, y \in Fractions : Plus(x, y) \in Fractions /\ Minus(x, y) \in Fractions
  /\ \A x \in Fractions, k \in Int, d \in Nat \ {0} : Times(x, k, d) \in Fractions
<1>1. \A n \in Int : Whole(n) \in Fractions /\ Whole(n) = Frac(n, 1)
  BY DEF Whole, Fractions
<1>2. ASSUME NEW x \in Fractions, NEW y \in Fractions
      PROVE  Plus(x, y) \in Fractions /\ Minus(x, y) \in Fractions
  <2>1. PICK a \in Int, b \in Nat \ {0} : x = Frac(a, b)
    BY DEF Fractions
  <2>2. PICK c \in Int, d \in Nat \ {0} : y = Frac(c, d)
    BY DEF Fractions
  <2>3. /\ Plus(x, y) = Frac(a * d + c * b, b * d)
        /\ Minus(x, y) = Frac(a * d - c * b, b * d)
    <3>1. Plus(Frac(a, b), Frac(c, d)) = Frac(a * d + c * b, b * d)
      BY FracPlus
    <3>2. Minus(Frac(a, b), Frac(c, d)) = Frac(a * d - c * b, b * d)
      BY FracMinus
    <3> QED
      BY <2>1, <2>2, <3>1, <3>2, Zenon
  <2>4. a * d + c * b \in Int /\ a * d - c * b \in Int /\ b * d \in Nat \ {0}
    BY Denominators
  <2> QED
    BY <2>3, <2>4 DEF Fractions
<1>3. ASSUME NEW x \in Fractions, NEW k \in Int, NEW e \in Nat \ {0} PROVE Times(x, k, e) \in Fractions
  <2>1. PICK a \in Int, b \in Nat \ {0} : x = Frac(a, b)
    BY DEF Fractions
  <2>2. Times(x, k, e) = Frac(a * k, b * e)
    BY <2>1, FracTimes
  <2>3. a * k \in Int /\ b * e \in Nat \ {0}
    BY SMT
  <2> QED
    BY <2>2, <2>3 DEF Fractions
<1> QED
  BY <1>1, <1>2, <1>3

(* Whole numbers add and subtract as such.                                  *)
LEMMA WholeLaws ==
  ASSUME NEW m \in Int, NEW n \in Int
  PROVE  /\ Plus(Whole(m), Whole(n)) = Whole(m + n)
         /\ Minus(Whole(m), Whole(n)) = Whole(m - n)
         /\ Whole(m).n = m
<1>1. Plus(Frac(m, 1), Frac(n, 1)) = Frac(m * 1 + n * 1, 1 * 1)
  BY FracPlus
<1>2. Minus(Frac(m, 1), Frac(n, 1)) = Frac(m * 1 - n * 1, 1 * 1)
  BY FracMinus
<1>3. m * 1 + n * 1 = m + n /\ m * 1 - n * 1 = m - n /\ 1 * 1 = 1
  BY SMT
<1>4. Frac(m, 1).n = m
  <2> DEFINE x == Frac(m, 1)
  <2>1. x.n \in Int /\ x.d \in Nat \ {0} /\ x.n * 1 = m * x.d
    BY FracIs
  <2>2. PICK g, s, j : Lowest(m, 1, g, s, j)
    BY LowestTerms
  <2>3. g \in Nat \ {0} /\ j \in Nat \ {0} /\ 1 = g * j /\ s \in Int /\ m = g * s
    BY <2>2 DEF Lowest
  <2>4. g = 1
    <3>1. g >= 2 => g * j >= 2
      BY <2>3, SMT
    <3> QED
      BY <2>3, <3>1
  <2> QED
    BY <2>2, <2>3, <2>4 DEF Lowest
<1> QED
  BY <1>1, <1>2, <1>3, <1>4 DEF Whole

(* Nothing added, taken off or taken of.                                    *)
LEMMA PlusZero ==
  ASSUME NEW x \in Fractions
  PROVE  /\ Plus(x, Whole(0)) = x /\ Plus(Whole(0), x) = x
         /\ Minus(x, Whole(0)) = x /\ Minus(x, x) = Whole(0)
         /\ \A d \in Nat \ {0} : Times(x, 0, d) = Whole(0)
<1>1. PICK a \in Int, b \in Nat \ {0} : x = Frac(a, b)
  BY DEF Fractions
<1>2. /\ Plus(x, Frac(0, 1)) = Frac(a * 1 + 0 * b, b * 1)
      /\ Plus(Frac(0, 1), x) = Frac(0 * b + a * 1, 1 * b)
      /\ Minus(x, Frac(0, 1)) = Frac(a * 1 - 0 * b, b * 1)
      /\ Minus(x, x) = Frac(a * b - a * b, b * b)
      /\ \A d \in Nat \ {0} : Times(x, 0, d) = Frac(a * 0, b * d)
  <2>1. /\ Plus(Frac(a, b), Frac(0, 1)) = Frac(a * 1 + 0 * b, b * 1)
        /\ Plus(Frac(0, 1), Frac(a, b)) = Frac(0 * b + a * 1, 1 * b)
    BY FracPlus
  <2>2. /\ Minus(Frac(a, b), Frac(0, 1)) = Frac(a * 1 - 0 * b, b * 1)
        /\ Minus(Frac(a, b), Frac(a, b)) = Frac(a * b - a * b, b * b)
    BY FracMinus
  <2>3. \A d \in Nat \ {0} : Times(Frac(a, b), 0, d) = Frac(a * 0, b * d)
    <3>1. 0 \in Int
      OBVIOUS
    <3> QED
      BY <3>1, FracTimes, Zenon
  <2> QED
    BY <1>1, <2>1, <2>2, <2>3, Zenon
<1>3. /\ a * 1 + 0 * b = a /\ 0 * b + a * 1 = a /\ a * 1 - 0 * b = a /\ b * 1 = b /\ 1 * b = b
      /\ a * b - a * b = 0 /\ a * 0 = 0
  BY SMT
<1>4. \A d \in Nat \ {0} : Frac(0, d) = Frac(0, 1)
  BY FracEqual
<1>5. b * b \in Nat \ {0} /\ \A d \in Nat \ {0} : b * d \in Nat \ {0}
  BY SMT
<1> QED
  BY <1>1, <1>2, <1>3, <1>4, <1>5 DEF Whole

(* Addition commutes.                                                       *)
LEMMA PlusCommutes ==
  ASSUME NEW x \in Fractions, NEW y \in Fractions
  PROVE  Plus(x, y) = Plus(y, x)
<1>1. PICK a \in Int, b \in Nat \ {0} : x = Frac(a, b)
  BY DEF Fractions
<1>2. PICK c \in Int, d \in Nat \ {0} : y = Frac(c, d)
  BY DEF Fractions
<1>3. Plus(x, y) = Frac(a * d + c * b, b * d) /\ Plus(y, x) = Frac(c * b + a * d, d * b)
  BY <1>1, <1>2, FracPlus
<1>4. a * d + c * b = c * b + a * d /\ b * d = d * b
  BY SMT
<1> QED
  BY <1>3, <1>4, Zenon

(* Addition associates.                                                     *)
LEMMA PlusAssociates ==
  ASSUME NEW x \in Fractions, NEW y \in Fractions, NEW z \in Fractions
  PROVE  Plus(Plus(x, y), z) = Plus(x, Plus(y, z))
<1>1. PICK a \in Int, b \in Nat \ {0} : x = Frac(a, b)
  BY DEF Fractions
<1>2. PICK c \in Int, d \in Nat \ {0} : y = Frac(c, d)
  BY DEF Fractions
<1>3. PICK e \in Int, f \in Nat \ {0} : z = Frac(e, f)
  BY DEF Fractions
<1>4. Plus(x, y) = Frac(a * d + c * b, b * d) /\ Plus(y, z) = Frac(c * f + e * d, d * f)
  <2>1. Plus(Frac(a, b), Frac(c, d)) = Frac(a * d + c * b, b * d)
    BY FracPlus
  <2>2. Plus(Frac(c, d), Frac(e, f)) = Frac(c * f + e * d, d * f)
    BY FracPlus
  <2> QED
    BY <1>1, <1>2, <1>3, <2>1, <2>2, Zenon
<1>5. a * d + c * b \in Int /\ b * d \in Nat \ {0} /\ c * f + e * d \in Int /\ d * f \in Nat \ {0}
  BY Denominators
<1>6. /\ Plus(Plus(x, y), z) = Frac((a * d + c * b) * f + e * (b * d), (b * d) * f)
      /\ Plus(x, Plus(y, z)) = Frac(a * (d * f) + (c * f + e * d) * b, b * (d * f))
  <2> DEFINE m == a * d + c * b
             n == c * f + e * d
             p == b * d
             q == d * f
  <2>1. m \in Int /\ n \in Int /\ p \in Nat \ {0} /\ q \in Nat \ {0}
    BY <1>5
  <2>2. Plus(Plus(x, y), z) = Plus(Frac(m, p), Frac(e, f)) /\ Plus(x, Plus(y, z)) = Plus(Frac(a, b), Frac(n, q))
    BY <1>1, <1>3, <1>4, Zenon
  <2> HIDE DEF m, n, p, q
  <2>3. Plus(Frac(m, p), Frac(e, f)) = Frac(m * f + e * p, p * f)
    BY <2>1, FracPlus
  <2>4. Plus(Frac(a, b), Frac(n, q)) = Frac(a * q + n * b, b * q)
    BY <2>1, FracPlus
  <2> QED
    BY <2>2, <2>3, <2>4, Zenon DEF m, n, p, q
<1>7. /\ (a * d + c * b) * f + e * (b * d) = a * (d * f) + (c * f + e * d) * b
      /\ (b * d) * f = b * (d * f)
  BY SMT
<1> QED
  BY <1>6, <1>7, Zenon

(* Subtraction undoes addition.                                             *)
LEMMA MinusPlus ==
  ASSUME NEW x \in Fractions, NEW y \in Fractions
  PROVE  Plus(Minus(x, y), y) = x
<1>1. PICK a \in Int, b \in Nat \ {0} : x = Frac(a, b)
  BY DEF Fractions
<1>2. PICK c \in Int, d \in Nat \ {0} : y = Frac(c, d)
  BY DEF Fractions
<1>3. Minus(x, y) = Frac(a * d - c * b, b * d) /\ a * d - c * b \in Int /\ b * d \in Nat \ {0}
  <2>1. a * d - c * b \in Int /\ b * d \in Nat \ {0}
    BY Denominators
  <2> QED
    BY <1>1, <1>2, <2>1, FracMinus
<1>4. Plus(Minus(x, y), y) = Frac((a * d - c * b) * d + c * (b * d), (b * d) * d)
  BY <1>2, <1>3, FracPlus
<1>5. ((a * d - c * b) * d + c * (b * d)) * b = a * ((b * d) * d)
  BY SMT
<1>6. (a * d - c * b) * d + c * (b * d) \in Int /\ (b * d) * d \in Nat \ {0}
  BY <1>3, SMT
<1>7. Frac((a * d - c * b) * d + c * (b * d), (b * d) * d) = Frac(a, b)
  BY <1>5, <1>6, FracEqual
<1> QED
  BY <1>1, <1>4, <1>7, Zenon

(* Addition undoes subtraction.                                             *)
LEMMA PlusMinus ==
  ASSUME NEW x \in Fractions, NEW y \in Fractions
  PROVE  Minus(Plus(x, y), y) = x
<1>1. PICK a \in Int, b \in Nat \ {0} : x = Frac(a, b)
  BY DEF Fractions
<1>2. PICK c \in Int, d \in Nat \ {0} : y = Frac(c, d)
  BY DEF Fractions
<1>3. Plus(x, y) = Frac(a * d + c * b, b * d) /\ a * d + c * b \in Int /\ b * d \in Nat \ {0}
  <2>1. a * d + c * b \in Int /\ b * d \in Nat \ {0}
    BY Denominators
  <2> QED
    BY <1>1, <1>2, <2>1, FracPlus
<1>4. Minus(Plus(x, y), y) = Frac((a * d + c * b) * d - c * (b * d), (b * d) * d)
  BY <1>2, <1>3, FracMinus
<1>5. ((a * d + c * b) * d - c * (b * d)) * b = a * ((b * d) * d)
  BY SMT
<1>6. (a * d + c * b) * d - c * (b * d) \in Int /\ (b * d) * d \in Nat \ {0}
  BY <1>3, SMT
<1>7. Frac((a * d + c * b) * d - c * (b * d), (b * d) * d) = Frac(a, b)
  BY <1>5, <1>6, FracEqual
<1> QED
  BY <1>1, <1>4, <1>7, Zenon

(* The parts of a whole add up.                                             *)
LEMMA PartsOfWhole ==
  ASSUME NEW x \in Fractions, NEW k \in Int, NEW l \in Int, k + l \in Nat \ {0}
  PROVE  Plus(Times(x, k, k + l), Times(x, l, k + l)) = x
<1> DEFINE h == k + l
<1>1. PICK a \in Int, b \in Nat \ {0} : x = Frac(a, b)
  BY DEF Fractions
<1>2. h \in Nat \ {0}
  OBVIOUS
<1>3. Times(x, k, h) = Frac(a * k, b * h) /\ Times(x, l, h) = Frac(a * l, b * h)
  BY <1>1, FracTimes
<1> HIDE DEF h
<1>4. a * k \in Int /\ a * l \in Int /\ b * h \in Nat \ {0}
  BY <1>2, SMT
<1>5. Plus(Frac(a * k, b * h), Frac(a * l, b * h))
        = Frac((a * k) * (b * h) + (a * l) * (b * h), (b * h) * (b * h))
  <2> DEFINE m == a * k
             n == a * l
             p == b * h
  <2>1. m \in Int /\ n \in Int /\ p \in Nat \ {0}
    BY <1>4
  <2> HIDE DEF m, n, p
  <2>2. Plus(Frac(m, p), Frac(n, p)) = Frac(m * p + n * p, p * p)
    BY <2>1, FracPlus
  <2> QED
    BY <2>2 DEF m, n, p
<1>6. ((a * k) * (b * h) + (a * l) * (b * h)) * b = a * ((b * h) * (b * h))
  <2>1. (a * k) * (b * h) + (a * l) * (b * h) = (a * (k + l)) * (b * h)
    BY <1>2, SMT
  <2>2. ((a * h) * (b * h)) * b = a * ((b * h) * (b * h))
    BY <1>2, SMT
  <2> QED
    BY <2>1, <2>2 DEF h
<1>7. (a * k) * (b * h) + (a * l) * (b * h) \in Int /\ (b * h) * (b * h) \in Nat \ {0}
  BY <1>4, SMT
<1>8. Frac((a * k) * (b * h) + (a * l) * (b * h), (b * h) * (b * h)) = Frac(a, b)
  BY <1>6, <1>7, FracEqual
<1> QED
  BY <1>1, <1>3, <1>5, <1>8, Zenon DEF h
-----------------------------------------------------------------------------
(* Recursion over an interval and over the subsets of a finite set.         *)

LEMMA UpTo ==
  ASSUME NEW N \in Nat, NEW X, 0 \in X, \A n \in 1 .. N : n - 1 \in X => n \in X
  PROVE  0 .. N \subseteq X
<1>1. SUFFICES ASSUME {n \in 0 .. N : n \notin X} # {} PROVE FALSE
  OBVIOUS
<1>2. PICK n \in {k \in 0 .. N : k \notin X} : \A m \in {k \in 0 .. N : k \notin X} : n <= m
  <2>1. {k \in 0 .. N : k \notin X} \in SUBSET Nat
    OBVIOUS
  <2> QED
    BY <1>1, <2>1, LeastMember
<1>3. n \in 1 .. N /\ n - 1 \in 0 .. N
  <2>1. n # 0
    BY <1>2
  <2> QED
    BY <1>2, <2>1
<1>4. n - 1 \in X
  BY <1>2, <1>3
<1> QED
  BY <1>2, <1>3, <1>4

ChainStep(step, base, f, n) == f[n] = IF n = 0 THEN base ELSE step[<<n, f[n - 1]>>]

(* The recursion has a solution.                                            *)
LEMMA ChainExists ==
  ASSUME NEW N \in Nat, NEW base, NEW step
  PROVE  \E f : f = [n \in 0 .. N |-> f[n]] /\ \A n \in 0 .. N : ChainStep(step, base, f, n)
<1> DEFINE P(k) == \E f : /\ f = [n \in 0 .. N |-> f[n]]
                          /\ \A n \in 0 .. k : ChainStep(step, base, f, n)
           X == {k \in 0 .. N : P(k)}
<1>1. 0 \in X
  <2> DEFINE f == [n \in 0 .. N |-> base]
  <2>1. f = [n \in 0 .. N |-> f[n]] /\ \A n \in 0 .. 0 : ChainStep(step, base, f, n)
    BY DEF ChainStep
  <2> HIDE DEF f
  <2> QED
    BY <2>1
<1>2. ASSUME NEW k \in 1 .. N, k - 1 \in X PROVE k \in X
  <2>1. PICK g : /\ g = [n \in 0 .. N |-> g[n]]
                 /\ \A n \in 0 .. k - 1 : ChainStep(step, base, g, n)
    BY <1>2
  <2> DEFINE f == [n \in 0 .. N |-> IF n = k THEN step[<<k, g[k - 1]>>] ELSE g[n]]
  <2>2. ASSUME NEW n \in 0 .. k PROVE ChainStep(step, base, f, n)
    <3>1. CASE n = k
      <4>1. f[k] = step[<<k, g[k - 1]>>] /\ f[k - 1] = g[k - 1] /\ k # 0
        OBVIOUS
      <4> HIDE DEF f
      <4> QED
        BY <3>1, <4>1 DEF ChainStep
    <3>2. CASE n # k
      <4>1. n \in 0 .. k - 1 /\ f[n] = g[n] /\ (n # 0 => f[n - 1] = g[n - 1])
        BY <3>2
      <4> HIDE DEF f
      <4> QED
        BY <2>1, <4>1 DEF ChainStep
    <3> QED
      BY <3>1, <3>2
  <2>3. f = [n \in 0 .. N |-> f[n]]
    OBVIOUS
  <2> HIDE DEF f
  <2>4. P(k)
    BY <2>2, <2>3
  <2> QED
    BY <2>4
<1>3. 0 .. N \subseteq X
  <2> HIDE DEF X
  <2> QED
    BY <1>1, <1>2, UpTo
<1>4. P(N)
  <2>1. N \in X
    <3> HIDE DEF X
    <3> QED
      BY <1>3
  <2> QED
    BY <2>1
<1> QED
  BY <1>4

(* When every step stays in T so does the recursion.                        *)
StaysIn(T, N, base, step) == base \in T /\ \A n \in 1 .. N, x \in T : step[<<n, x>>] \in T
Chain(f, T, N, base, step) ==
  /\ f = [n \in 0 .. N |-> f[n]] /\ \A n \in 0 .. N : f[n] \in T
  /\ f[0] = base /\ \A n \in 1 .. N : f[n] = step[<<n, f[n - 1]>>]
(* A recursion whose step stays in T has a solution in T.                   *)
LEMMA TypedChain ==
  ASSUME NEW N \in Nat, NEW T, NEW base, NEW step, StaysIn(T, N, base, step)
  PROVE  \E f : Chain(f, T, N, base, step)
<1>1. PICK f : f = [n \in 0 .. N |-> f[n]] /\ \A n \in 0 .. N : ChainStep(step, base, f, n)
  BY ChainExists
<1>2. f[0] = base /\ \A n \in 1 .. N : f[n] = step[<<n, f[n - 1]>>]
  <2>1. 0 \in 0 .. N /\ \A n \in 1 .. N : n \in 0 .. N /\ n # 0
    OBVIOUS
  <2> QED
    BY <1>1, <2>1, Zenon DEF ChainStep
<1> DEFINE X == {n \in 0 .. N : f[n] \in T}
<1>3. 0 .. N \subseteq X
  <2>1. 0 \in X
    BY <1>2 DEF StaysIn
  <2>2. ASSUME NEW n \in 1 .. N, n - 1 \in X PROVE n \in X
    <3>1. n - 1 \in 0 .. N /\ n \in 0 .. N /\ f[n - 1] \in T
      BY <2>2
    <3>2. f[n] \in T
      BY <1>2, <3>1, Zenon DEF StaysIn
    <3> QED
      BY <3>1, <3>2
  <2> HIDE DEF X
  <2> QED
    BY <2>1, <2>2, UpTo
<1> QED
  BY <1>1, <1>2, <1>3 DEF Chain

(* What holds of the empty set, and of a set when it holds without the      *)
(* picked member, holds of a finite set.                                    *)
LEMMA OverSubsets ==
  ASSUME NEW T, IsFiniteSet(T), NEW X, {} \in X,
         \A s \in SUBSET T : s # {} /\ s \ {Picked(s)} \in X => s \in X
  PROVE  SUBSET T \subseteq X
<1> DEFINE Y == {n \in Nat : \A s \in SUBSET T : Cardinality(s) = n => s \in X}
<1>1. \A s \in SUBSET T : IsFiniteSet(s) /\ Cardinality(s) \in Nat
  BY FS_Subset, FS_CardinalityType
<1>2. ASSUME NEW n \in Nat, \A m \in Nat : m < n => m \in Y PROVE n \in Y
  <2> SUFFICES ASSUME NEW s \in SUBSET T, Cardinality(s) = n PROVE s \in X
    OBVIOUS
  <2>1. CASE s = {}
    BY <2>1
  <2>2. CASE s # {}
    <3> DEFINE r == s \ {Picked(s)}
    <3>1. r \in SUBSET T /\ Cardinality(r) = n - 1 /\ n \in Nat \ {0}
      BY <1>1, <2>2, PickedOut
    <3>2. n - 1 \in Y
      <4>1. n - 1 \in Nat /\ n - 1 < n
        BY <3>1
      <4> HIDE DEF Y
      <4> QED
        BY <1>2, <4>1
    <3>3. r \in X
      <4> HIDE DEF r
      <4> QED
        BY <3>1, <3>2
    <3> QED
      BY <2>2, <3>3
  <2> QED
    BY <2>1, <2>2
<1>3. Nat \subseteq Y
  <2> HIDE DEF Y
  <2> QED
    BY <1>2, Induction
<1> QED
  BY <1>1, <1>3

FoldStep(step, base, f, s) ==
  f[s] = IF s = {} THEN base ELSE step[<<Picked(s), f[s \ {Picked(s)}]>>]

(* The recursion of a fold over a finite set has a solution.                *)
LEMMA FoldExists ==
  ASSUME NEW T, IsFiniteSet(T), NEW base, NEW step
  PROVE  \E f : f = [s \in SUBSET T |-> f[s]] /\ \A s \in SUBSET T : FoldStep(step, base, f, s)
<1> DEFINE P(k) == \E f : /\ f = [s \in SUBSET T |-> f[s]]
                          /\ \A s \in SUBSET T : Cardinality(s) <= k => FoldStep(step, base, f, s)
           X == {k \in 0 .. Cardinality(T) : P(k)}
<1>0. Cardinality(T) \in Nat
  BY FS_CardinalityType
<1>1. \A s \in SUBSET T : IsFiniteSet(s) /\ Cardinality(s) \in Nat /\ Cardinality(s) <= Cardinality(T)
  BY FS_Subset, FS_CardinalityType
<1>2. 0 \in X
  <2> DEFINE f == [s \in SUBSET T |-> base]
  <2>1. \A s \in SUBSET T : Cardinality(s) <= 0 => s = {}
    BY <1>1, FS_EmptySet
  <2>2. f = [s \in SUBSET T |-> f[s]] /\ \A s \in SUBSET T : Cardinality(s) <= 0 => FoldStep(step, base, f, s)
    BY <2>1 DEF FoldStep
  <2> HIDE DEF f
  <2>3. P(0)
    BY <2>2
  <2> HIDE DEF P
  <2> QED
    BY <1>0, <2>3
<1>3. ASSUME NEW k \in 1 .. Cardinality(T), k - 1 \in X PROVE k \in X
  <2>1. PICK g : /\ g = [s \in SUBSET T |-> g[s]]
                 /\ \A s \in SUBSET T : Cardinality(s) <= k - 1 => FoldStep(step, base, g, s)
    BY <1>3
  <2> DEFINE f == [s \in SUBSET T |-> IF Cardinality(s) <= k - 1 THEN g[s]
                                      ELSE step[<<Picked(s), g[s \ {Picked(s)}]>>]]
  <2>2. k - 1 \in Nat
    OBVIOUS
  <2>3. ASSUME NEW s \in SUBSET T, Cardinality(s) <= k PROVE FoldStep(step, base, f, s)
    <3>1. CASE s = {}
      <4>1. Cardinality(s) <= k - 1
        BY <2>2, <3>1, FS_EmptySet
      <4>2. f[s] = g[s]
        BY <4>1
      <4> HIDE DEF f
      <4> QED
        BY <2>1, <3>1, <4>1, <4>2 DEF FoldStep
    <3>2. CASE s # {}
      <4>1. /\ Cardinality(s) \in Nat /\ Cardinality(s \ {Picked(s)}) = Cardinality(s) - 1
            /\ s \ {Picked(s)} \in SUBSET T
        BY <1>1, <3>2, PickedOut
      <4>2. Cardinality(s \ {Picked(s)}) <= k - 1
        BY <2>2, <2>3, <4>1
      <4>3. f[s \ {Picked(s)}] = g[s \ {Picked(s)}]
        BY <4>1, <4>2
      <4>4. f[s] = step[<<Picked(s), g[s \ {Picked(s)}]>>]
        <5>1. CASE Cardinality(s) <= k - 1
          <6>1. f[s] = g[s]
            BY <5>1
          <6> HIDE DEF f
          <6> QED
            BY <2>1, <3>2, <5>1, <6>1 DEF FoldStep
        <5>2. CASE ~ (Cardinality(s) <= k - 1)
          BY <5>2
        <5> QED
          BY <5>1, <5>2
      <4> HIDE DEF f
      <4> QED
        BY <3>2, <4>3, <4>4 DEF FoldStep
    <3> QED
      BY <3>1, <3>2
  <2>4. f = [s \in SUBSET T |-> f[s]]
    OBVIOUS
  <2> HIDE DEF f
  <2>5. P(k)
    BY <2>3, <2>4
  <2> HIDE DEF P
  <2> QED
    BY <2>5
<1>4. 0 .. Cardinality(T) \subseteq X
  <2> HIDE DEF X
  <2> QED
    BY <1>0, <1>2, <1>3, UpTo
<1>5. P(Cardinality(T))
  <2>1. Cardinality(T) \in X
    <3> HIDE DEF X
    <3> QED
      BY <1>0, <1>4
  <2> QED
    BY <2>1
<1> QED
  BY <1>1, <1>5
-----------------------------------------------------------------------------
(* What the report is computed from: a snapshot for every bar that is over, *)
(* and fills that add up to the position and the cash.                      *)
SnapshotsTaken ==
  /\ snapshots \in Seq(Nat)
  /\ Len(snapshots) = IF phase \in {"close", "failed"} \/ Sweeping THEN bars - 1 ELSE bars
  /\ phase = "done" => bars > 0

Flow(n) == -fills[n].price * fills[n].signed * Scale - fills[n].fee
AddUp(pos, flow) ==
  /\ pos \in [0 .. Len(fills) -> Nat] /\ flow \in [0 .. Len(fills) -> Int]
  /\ pos[0] = 0 /\ flow[0] = 0
  /\ \A n \in DOMAIN fills : pos[n] = pos[n - 1] + fills[n].signed /\ flow[n] = flow[n - 1] + Flow(n)
  /\ pos[Len(fills)] = Held /\ flow[Len(fills)] = cash - InitialCash * Scale * Scale

(* Fill n is of order n, and the signals of the orders are of one bar after *)
(* the other.                                                               *)
FillsInOrder ==
  /\ \A n \in DOMAIN fills : fills[n].order = n /\ fills[n].signed # 0
  /\ \A i, k \in DOMAIN signals : i < k => signals[i] < signals[k]

FillsAddUp == \E pos, flow : AddUp(pos, flow)

LedgerInv == SnapshotsTaken /\ FillsAddUp /\ FillsInOrder

(* It holds of a run that begins.                                           *)
LEMMA InitLedgerInv == ReportInit => LedgerInv
<1> SUFFICES ASSUME ReportInit PROVE LedgerInv
  OBVIOUS
<1> USE DEF ReportInit, RunInit, BrokerInit, NewAccount
<1>1. /\ Len(fills) = 0 /\ DOMAIN fills = {} /\ DOMAIN signals = {} /\ Held = 0
      /\ Len(snapshots) = 0 /\ snapshots \in Seq(Nat)
  BY EmptySeq, RunAssumption DEF Held
<1>2. SnapshotsTaken
  BY <1>1 DEF SnapshotsTaken, Sweeping, Idle
<1>3. AddUp([n \in 0 .. 0 |-> 0], [n \in 0 .. 0 |-> 0])
  <2>1. cash - InitialCash * Scale * Scale = 0
    BY InitialCashNat
  <2> QED
    BY <1>1, <2>1 DEF AddUp
<1>4. FillsInOrder
  BY <1>1 DEF FillsInOrder
<1> QED
  BY <1>2, <1>3, <1>4 DEF LedgerInv, FillsAddUp

(* A step without a fill keeps the sums.                                    *)
LEMMA SumsStay ==
  ASSUME UNCHANGED <<fills, cash, shares>>, FillsAddUp
  PROVE  FillsAddUp'
<1>1. PICK pos, flow : AddUp(pos, flow)
  BY DEF FillsAddUp
<1>2. /\ pos \in [0 .. Len(fills') -> Nat] /\ flow \in [0 .. Len(fills') -> Int]
      /\ pos[0] = 0 /\ flow[0] = 0
      /\ \A n \in DOMAIN fills' : pos[n] = pos[n - 1] + fills'[n].signed /\ flow[n] = flow[n - 1] + Flow(n)'
      /\ pos[Len(fills')] = Held' /\ flow[Len(fills')] = cash' - InitialCash * Scale * Scale
  BY <1>1 DEF AddUp, Flow, Held
<1>3. AddUp(pos, flow)'
  BY <1>2, Zenon DEF AddUp
<1> QED
  BY <1>3, Zenon DEF FillsAddUp

(* An open takes no snapshot and fills nothing.                             *)
LEMMA OpenLedgerStep == RunInv /\ ReportInv /\ LedgerInv /\ ReportOpen => LedgerInv'
<1> SUFFICES ASSUME RunInv, ReportInv, LedgerInv, ReportOpen PROVE LedgerInv'
  OBVIOUS
<1>1. /\ phase = "open" /\ phase' = "sweep" /\ ~ Sweeping /\ ~ Sweeping'
      /\ bars' = bars /\ cash' = cash /\ shares' = shares
      /\ fills' = fills /\ snapshots' = snapshots
      /\ signals' = signals \/ signals' = Append(signals, bars)
  <2>1. /\ phase = "open" /\ phase' = "sweep" /\ ~ Sweeping /\ ~ Sweeping'
        /\ bars' = bars /\ cash' = cash /\ shares' = shares
        /\ Nothing \/ LeavesEvidence \/ BecomesOrder
    BY OpenEffect
  <2>2. fills' = fills /\ (signals' = signals \/ signals' = Append(signals, bars))
    BY <2>1 DEF Nothing, LeavesEvidence, BecomesOrder, brokerVars
  <2> QED
    BY <2>1, <2>2 DEF ReportOpen
<1>2. SnapshotsTaken'
  BY <1>1 DEF LedgerInv, SnapshotsTaken
<1>3. FillsAddUp'
  BY <1>1, SumsStay DEF LedgerInv
<1>4. FillsInOrder'
  <2>1. \A n \in DOMAIN fills' : fills'[n].order = n /\ fills'[n].signed # 0
    BY <1>1 DEF LedgerInv, FillsInOrder
  <2>2. \A i, k \in DOMAIN signals' : i < k => signals'[i] < signals'[k]
    <3>1. CASE signals' = signals
      BY <3>1 DEF LedgerInv, FillsInOrder
    <3>2. CASE signals' = Append(signals, bars)
      <4>1. /\ signals \in Seq(Nat) /\ bars \in Nat /\ Len(signals) \in Nat
            /\ DOMAIN signals = 1 .. Len(signals)
        BY BookFacts DEF RunInv, BookTyped
      <4>2. /\ DOMAIN signals' = 1 .. Len(signals) + 1
            /\ \A i \in DOMAIN signals : signals'[i] = signals[i]
            /\ signals'[Len(signals) + 1] = bars
        <5>1. signals' \in Seq(Nat) /\ Len(signals') = Len(signals) + 1
          BY <3>2, <4>1, AppendProperties
        <5> QED
          BY <3>2, <4>1, <5>1, AppendProperties, LenProperties
      <4>3. \A i \in DOMAIN signals : signals[i] \in Nat /\ signals[i] < bars
        <5>1. \A i \in DOMAIN signals : signals[i] \in Nat /\ signals[i] <= bars /\ signals[i] # bars
          BY <1>1, <4>1, ElementOfSeq DEF ReportInv, EvidenceIsUnique, Signalled
        <5> QED
          BY <4>1, <5>1
      <4> SUFFICES ASSUME NEW i \in DOMAIN signals', NEW k \in DOMAIN signals', i < k
                   PROVE  signals'[i] < signals'[k]
        OBVIOUS
      <4>4. i \in DOMAIN signals /\ (k \in DOMAIN signals \/ k = Len(signals) + 1)
        BY <4>1, <4>2
      <4> QED
        BY <4>2, <4>3, <4>4 DEF LedgerInv, FillsInOrder
    <3> QED
      BY <1>1, <3>1, <3>2
  <2> QED
    BY <2>1, <2>2 DEF FillsInOrder
<1> QED
  BY <1>2, <1>3, <1>4 DEF LedgerInv

(* The fill of a visit moves the position and the cash by what it says.     *)
LEMMA FillOfVisit ==
  ASSUME RunInv, ReportInv, phase = "sweep", OnBarOrder, ~ UNCHANGED account
  PROVE  /\ Len(fills) = Len(orders) - 1
         /\ \E fill \in Fill :
              /\ fills' = Append(fills, fill) /\ fill.order = Len(orders) /\ fill.signed # 0
              /\ shares'[Ticker] = shares[Ticker] + fill.signed
              /\ cash' = cash + (-fill.price * fill.signed * Scale - fill.fee)
<1> DEFINE i == Len(orders)
           o == orders[i]
           p == today.open
           fill == [order |-> i, price |-> FillPrice(o, p), ticker |-> o.ticker,
                    signed |-> Signed(o), fee |-> Fee(o, p)]
<1>1. Waiting /\ sweep.next = Len(orders) /\ ExecuteFill(sweep.next, today.open, orders, events)
  BY VisitEffect
<1>2. /\ i \in DOMAIN orders /\ i \in Nat \ {0} /\ o \in RunOrders /\ o.status = "NEW"
      /\ p \in Nat \ {0} /\ o = Wanted(p, placed.target) /\ Desired(p, placed.target) # Held
  <2>1. i \in DOMAIN orders /\ i \in Nat \ {0} /\ o \in RunOrders
    <3>1. DOMAIN orders = 1 .. Len(orders) /\ i \in Nat /\ i \in DOMAIN orders
      BY <1>1, BookFacts DEF OnBarOrder, RunInv
    <3> QED
      BY <3>1, BookFacts DEF RunInv
  <2> QED
    BY <1>1, <2>1 DEF RunInv, OneOpenOrder, PlacementIs
<1>3. Len(fills) = Len(orders) - 1
  <2>1. Len(<<>>) = 0
    BY EmptySeq
  <2> QED
    BY <1>2, <2>1 DEF ReportInv, FillPerOrder
<1>4. /\ SideSign(o) \in {-1, 1} /\ o.qty \in Nat /\ o.qty # 0 /\ o.ticker = Ticker
      /\ Signed(o) \in Int /\ Signed(o) # 0
  <2>1. Desired(p, placed.target) \in Nat /\ Held \in Nat
    <3>1. placed.target \in 0 .. MaxPosition
      BY <1>1, <1>2 DEF RunInv, PlacementIs, Waiting, NoPlacement
    <3> QED
      BY <1>2, <3>1, Sizing DEF RunInv, AccountIsGood
  <2>2. o.qty = AbsInt(Desired(p, placed.target) - Held)
    BY <1>2 DEF Wanted, Stored, MarketRequest
  <2>3. o.qty # 0
    BY <1>2, <2>1, <2>2 DEF AbsInt
  <2>4. SideSign(o) \in {-1, 1} /\ o.qty \in Nat /\ o.ticker = Ticker
    BY <1>2 DEF SideSign, RunOrders
  <2> QED
    BY <2>3, <2>4 DEF Signed
<1>5. /\ FillPrice(o, p) \in Int /\ FillPrice(o, p) * o.qty \in Int
      /\ Scale \in Nat /\ Commission \in Nat /\ Fee(o, p) \in Int
  <2>1. Scale \in Nat /\ Slippage \in Nat /\ Commission \in Nat
    BY BrokerAssumption, SMT
  <2>2. FillPrice(o, p) \in Int
    <3>1. SideSign(o) * Slippage \in Int
      BY <1>4, <2>1, SMT
    <3> QED
      BY <1>2, <2>1, <3>1, SMT DEF FillPrice
  <2>3. FillPrice(o, p) * o.qty \in Int
    BY <1>4, <2>2, SMT
  <2> QED
    BY <2>1, <2>2, <2>3, SMT DEF Fee
<1>6. fill \in Fill
  <2>1. o.ticker \in Tickers
    BY <1>4, RunAssumption
  <2> HIDE DEF o, i
  <2> QED
    BY <1>2, <1>4, <1>5, <2>1 DEF Fill
<1>7. shares'[Ticker] = shares[Ticker] + fill.signed
  BY <1>1, <1>4 DEF ExecuteFill, RunInv, BookTyped
<1>8. cash' = cash + (-fill.price * fill.signed * Scale - fill.fee)
  <2> DEFINE P == FillPrice(o, p)
             q == o.qty
             F == Fee(o, p)
  <2>1. cash' = cash - SideSign(o) * (P * q * Scale) - F
    BY <1>1 DEF ExecuteFill, Value
  <2>2. fill.price = P /\ fill.signed = SideSign(o) * q /\ fill.fee = F
    BY DEF Signed
  <2>3. cash \in Int
    BY DEF RunInv, AccountIsGood
  <2>4. P \in Int /\ q \in Nat /\ F \in Int /\ SideSign(o) \in {-1, 1} /\ Scale \in Nat /\ P * q \in Int
    BY <1>4, <1>5
  <2> HIDE DEF P, q, F, fill, o
  <2>5. SideSign(o) * (P * q * Scale) = P * (SideSign(o) * q) * Scale /\ P * (SideSign(o) * q) * Scale \in Int
    <3>1. CASE SideSign(o) = 1
      BY <2>4, <3>1
    <3>2. CASE SideSign(o) = -1
      BY <2>4, <3>2
    <3> QED
      BY <2>4, <3>1, <3>2
  <2> QED
    BY <2>1, <2>2, <2>3, <2>4, <2>5
<1>9. fills' = Append(fills, fill) /\ fill.order = Len(orders) /\ fill.signed # 0
  BY <1>1, <1>4 DEF ExecuteFill
<1> HIDE DEF fill
<1> QED
  BY <1>3, <1>6, <1>7, <1>8, <1>9

(* A fill of a sweep is added to the totals.                                *)
LEMMA FillLedgerStep ==
  ASSUME RunInv, ReportInv, FillsAddUp, Held' \in Nat, cash' \in Nat,
         NEW fill \in Fill, fills' = Append(fills, fill),
         shares'[Ticker] = shares[Ticker] + fill.signed,
         cash' = cash + (-fill.price * fill.signed * Scale - fill.fee)
  PROVE  FillsAddUp'
<1> DEFINE L == Len(fills)
           C == InitialCash * Scale * Scale
<1>1. PICK pos, flow : AddUp(pos, flow)
  BY DEF FillsAddUp
<1>2. /\ L \in Nat /\ Len(fills') = L + 1 /\ DOMAIN fills = 1 .. L /\ DOMAIN fills' = 1 .. L + 1
      /\ fills'[L + 1] = fill /\ \A n \in 1 .. L : fills'[n] = fills[n]
  <2>1. fills \in Seq(Fill) /\ L \in Nat /\ DOMAIN fills = 1 .. L
    BY ReportFacts DEF ReportInv, ReportTyped
  <2>2. fills' \in Seq(Fill) /\ Len(fills') = L + 1
    BY <2>1, AppendProperties
  <2> QED
    BY <2>1, <2>2, AppendProperties, LenProperties
<1>3. cash \in Nat /\ C \in Nat /\ Held \in Nat
  BY InitialCashNat DEF RunInv, AccountIsGood
<1>4. /\ pos \in [0 .. L -> Nat] /\ flow \in [0 .. L -> Int]
      /\ pos[0] = 0 /\ flow[0] = 0
      /\ \A n \in 1 .. L : pos[n] = pos[n - 1] + fills[n].signed /\ flow[n] = flow[n - 1] + Flow(n)
      /\ pos[L] = Held /\ flow[L] = cash - C
  BY <1>1, <1>2 DEF AddUp
<1> HIDE DEF C
<1>5. PICK newpos \in [0 .. L + 1 -> Nat] :
         newpos[L + 1] = Held' /\ \A n \in 0 .. L : newpos[n] = pos[n]
  <2> DEFINE g == [n \in 0 .. L + 1 |-> IF n = L + 1 THEN Held' ELSE pos[n]]
  <2> HIDE DEF L
  <2>1. L \in Nat /\ pos \in [0 .. L -> Nat] /\ Held' \in Nat
    BY <1>2, <1>3, <1>4
  <2>2. g \in [0 .. L + 1 -> Nat]
    <3>1. \A n \in 0 .. L + 1 : n = L + 1 \/ n \in 0 .. L
      BY <2>1, SMT
    <3> QED
      BY <2>1, <3>1
  <2>3. g[L + 1] = Held' /\ \A n \in 0 .. L : g[n] = pos[n]
    <3>1. L + 1 \in 0 .. L + 1 /\ \A n \in 0 .. L : n \in 0 .. L + 1 /\ n # L + 1
      BY <2>1, SMT
    <3> QED
      BY <3>1, Zenon
  <2> HIDE DEF g
  <2> QED
    BY <2>2, <2>3
<1>6. PICK newflow \in [0 .. L + 1 -> Int] :
         newflow[L + 1] = cash' - C /\ \A n \in 0 .. L : newflow[n] = flow[n]
  <2> DEFINE g == [n \in 0 .. L + 1 |-> IF n = L + 1 THEN cash' - C ELSE flow[n]]
  <2> HIDE DEF L
  <2>0. cash' - C \in Int
    BY <1>3
  <2>1. L \in Nat /\ flow \in [0 .. L -> Int] /\ cash' - C \in Int
    BY <1>2, <1>4, <2>0, Zenon
  <2>2. g \in [0 .. L + 1 -> Int]
    <3>1. \A n \in 0 .. L + 1 : n = L + 1 \/ n \in 0 .. L
      BY <2>1, SMT
    <3> QED
      BY <2>1, <3>1
  <2>3. g[L + 1] = cash' - C /\ \A n \in 0 .. L : g[n] = flow[n]
    <3>1. L + 1 \in 0 .. L + 1 /\ \A n \in 0 .. L : n \in 0 .. L + 1 /\ n # L + 1
      BY <2>1, SMT
    <3> QED
      BY <3>1, Zenon
  <2> HIDE DEF g
  <2> QED
    BY <2>2, <2>3
<1>7. ASSUME NEW n \in 1 .. L + 1
      PROVE  newpos[n] = newpos[n - 1] + fills'[n].signed /\ newflow[n] = newflow[n - 1] + Flow(n)'
  <2>1. CASE n = L + 1
    <3>0. n - 1 = L /\ L \in 0 .. L
      BY <1>2, <2>1
    <3>1. newpos[n] = Held' /\ newflow[n] = cash' - C /\ newpos[n - 1] = Held /\ newflow[n - 1] = cash - C
      BY <1>4, <1>5, <1>6, <2>1, <3>0
    <3>2. Held' = Held + fill.signed
      BY DEF Held
    <3>3. Flow(n)' = -fill.price * fill.signed * Scale - fill.fee
      BY <1>2, <2>1, Zenon DEF Flow
    <3> DEFINE F == -fill.price * fill.signed * Scale - fill.fee
    <3>4. F \in Int
      <4>1. fill.price \in Int /\ fill.signed \in Int /\ fill.fee \in Int /\ Scale \in Nat
        BY BrokerAssumption DEF Fill
      <4> DEFINE a == fill.price
                 b == fill.signed
                 c == fill.fee
      <4>2. a * b \in Int /\ c \in Int
        BY <4>1, SMT
      <4> HIDE DEF a, b, c
      <4>3. -a * b * Scale - c \in Int
        BY <4>1, <4>2, SMT
      <4> QED
        BY <4>3 DEF a, b, c
    <3>5. cash' = cash + F
      OBVIOUS
    <3> HIDE DEF F
    <3>6. cash' - C = cash - C + F
      BY <1>3, <3>4, <3>5
    <3>7. fills'[n].signed = fill.signed /\ Flow(n)' = F
      BY <1>2, <2>1, <3>3, Zenon DEF F
    <3> QED
      BY <3>1, <3>2, <3>6, <3>7, Zenon
  <2>2. CASE n # L + 1
    <3>1. n \in 1 .. L /\ n \in 0 .. L /\ n - 1 \in 0 .. L
      BY <1>2, <2>2
    <3>2. Flow(n)' = Flow(n) /\ fills'[n] = fills[n]
      BY <1>2, <3>1, Zenon DEF Flow
    <3>3. newpos[n] = pos[n] /\ newpos[n - 1] = pos[n - 1]
          /\ newflow[n] = flow[n] /\ newflow[n - 1] = flow[n - 1]
      BY <1>5, <1>6, <3>1, Zenon
    <3>4. pos[n] = pos[n - 1] + fills[n].signed /\ flow[n] = flow[n - 1] + Flow(n)
      BY <1>4, <3>1, Zenon
    <3> QED
      BY <3>2, <3>3, <3>4, Zenon
  <2> QED
    BY <2>1, <2>2
<1>8. /\ newpos \in [0 .. Len(fills') -> Nat] /\ newflow \in [0 .. Len(fills') -> Int]
      /\ newpos[0] = 0 /\ newflow[0] = 0
      /\ \A n \in DOMAIN fills' : newpos[n] = newpos[n - 1] + fills'[n].signed
                                 /\ newflow[n] = newflow[n - 1] + Flow(n)'
      /\ newpos[Len(fills')] = Held' /\ newflow[Len(fills')] = cash' - C
  <2>1. 0 \in 0 .. L
    BY <1>2
  <2> QED
    BY <1>2, <1>4, <1>5, <1>6, <1>7, <2>1, Zenon
<1>9. AddUp(newpos, newflow)'
  BY <1>8, Zenon DEF AddUp, C
<1> QED
  BY <1>9, Zenon DEF FillsAddUp

(* A step of the sweep fills one order or none.                             *)
LEMMA SweepLedgerStep == RunInv /\ ReportInv /\ LedgerInv /\ Sweep /\ UNCHANGED reportVars => LedgerInv'
<1> SUFFICES ASSUME RunInv, ReportInv, LedgerInv, Sweep, UNCHANGED reportVars PROVE LedgerInv'
  OBVIOUS
<1>1. phase = "sweep" /\ snapshots' = snapshots /\ signals' = signals /\ bars \in Nat
  BY DEF Sweep, reportVars, RunInv, BookTyped
<1>2. CASE OnBarBegin([t \in {Ticker} |-> today]) /\ UNCHANGED phase
  <2>1. /\ fills' = fills /\ cash' = cash /\ shares' = shares /\ bars' = bars + 1
        /\ ~ Sweeping /\ Sweeping'
    BY <1>2 DEF OnBarBegin, account, Sweeping
  <2>2. FillsAddUp'
    BY <2>1, SumsStay DEF LedgerInv
  <2> QED
    BY <1>1, <1>2, <2>1, <2>2 DEF LedgerInv, SnapshotsTaken, FillsInOrder
<1>3. CASE OnBarEnd /\ phase' = "close"
  <2>1. /\ fills' = fills /\ cash' = cash /\ shares' = shares /\ bars' = bars
        /\ Sweeping
    BY <1>3 DEF OnBarEnd, account
  <2>2. FillsAddUp'
    BY <2>1, SumsStay DEF LedgerInv
  <2> QED
    BY <1>1, <1>3, <2>1, <2>2 DEF LedgerInv, SnapshotsTaken, FillsInOrder
<1>4. CASE OnBarOrder /\ UNCHANGED phase
  <2>1. bars' = bars /\ Sweeping /\ Sweeping' /\ sweep.next \in DOMAIN orders
    <3>1. /\ bars' = bars /\ sweep.next \in DOMAIN orders
          /\ sweep' = [sweep EXCEPT !.next = @ + 1]
      BY <1>4 DEF OnBarOrder
    <3>2. sweep.next \in Nat \ {0} /\ sweep'.next = sweep.next + 1
      BY <3>1, BookFacts DEF RunInv, BookTyped
    <3> QED
      BY <3>1, <3>2 DEF Sweeping
  <2>2. SnapshotsTaken'
    BY <1>1, <1>4, <2>1 DEF LedgerInv, SnapshotsTaken
  <2>3. CASE UNCHANGED account
    <3>1. fills' = fills /\ cash' = cash /\ shares' = shares
      BY <2>3 DEF account
    <3>2. FillsAddUp'
      BY <3>1, SumsStay DEF LedgerInv
    <3> QED
      BY <1>1, <2>2, <3>1, <3>2 DEF LedgerInv, FillsInOrder
  <2>4. CASE ~ UNCHANGED account
    <3>1. Len(fills) = Len(orders) - 1
      BY <1>1, <1>4, <2>4, FillOfVisit
    <3>2. PICK fill \in Fill :
              /\ fills' = Append(fills, fill) /\ fill.order = Len(orders) /\ fill.signed # 0
              /\ shares'[Ticker] = shares[Ticker] + fill.signed
              /\ cash' = cash + (-fill.price * fill.signed * Scale - fill.fee)
      BY <1>1, <1>4, <2>4, FillOfVisit
    <3>3. Held' \in Nat /\ cash' \in Nat
      <4>1. RunInv'
        BY <1>4, NextRunInv DEF RunNext
      <4> QED
        BY <4>1 DEF RunInv, AccountIsGood
    <3>4. FillsAddUp'
      BY <3>2, <3>3, FillLedgerStep DEF LedgerInv
    <3>5. FillsInOrder'
      <4>1. fills \in Seq(Fill) /\ Len(fills) \in Nat /\ DOMAIN fills = 1 .. Len(fills)
        BY ReportFacts DEF ReportInv, ReportTyped
      <4>2. /\ DOMAIN fills' = 1 .. Len(fills) + 1 /\ fills'[Len(fills) + 1] = fill
            /\ \A n \in 1 .. Len(fills) : fills'[n] = fills[n]
        <5>1. fills' \in Seq(Fill) /\ Len(fills') = Len(fills) + 1
          BY <3>2, <4>1, AppendProperties
        <5> QED
          BY <3>2, <4>1, <5>1, AppendProperties, LenProperties
      <4>3. Len(orders) = Len(fills) + 1
        <5>1. Len(orders) \in Nat
          BY BookFacts DEF RunInv
        <5> QED
          BY <3>1, <5>1
      <4>4. \A n \in DOMAIN fills' : fills'[n].order = n /\ fills'[n].signed # 0
        BY <3>2, <4>1, <4>2, <4>3 DEF LedgerInv, FillsInOrder
      <4> QED
        BY <1>1, <4>4 DEF LedgerInv, FillsInOrder
    <3> QED
      BY <2>2, <3>4, <3>5 DEF LedgerInv
  <2> QED
    BY <2>3, <2>4
<1> QED
  BY <1>2, <1>3, <1>4 DEF Sweep

(* The equity of an account with shares of one ticker and no debt.          *)
LEMMA EquityOfRun ==
  ASSUME RunInv, ReportInv
  PROVE  /\ Held * marks[Ticker] * Scale * Scale \in Nat
         /\ Equity = cash + Held * marks[Ticker] * Scale * Scale /\ Equity \in Nat
<1>1. Held \in Nat /\ cash \in Nat /\ marks[Ticker] \in Nat /\ Scale \in Nat
  BY BrokerAssumption DEF RunInv, AccountIsGood, ReportInv, ReportTyped
<1>2. Held * marks[Ticker] * Scale * Scale \in Nat
  BY <1>1, ProductNat
<1>3. Equity = cash + Held * marks[Ticker] * Scale * Scale
  BY <1>2, EquityIs DEF Held
<1> QED
  BY <1>1, <1>2, <1>3

(* A close takes the snapshot of the bar, unless the run fails.             *)
LEMMA CloseLedgerStep == RunInv /\ ReportInv /\ LedgerInv /\ ReportClose => LedgerInv'
<1> SUFFICES ASSUME RunInv, ReportInv, LedgerInv, ReportClose PROVE LedgerInv'
  OBVIOUS
<1>1. /\ phase = "close" /\ phase' \in {"open", "done", "failed"}
      /\ UNCHANGED <<shares, cash, fills, signals, sweep, bars>>
  BY DEF ReportClose, CloseBar, brokerVars
<1>2. FillsAddUp' /\ FillsInOrder'
  <2>1. FillsAddUp'
    BY <1>1, SumsStay DEF LedgerInv
  <2> QED
    BY <1>1, <2>1 DEF LedgerInv, FillsInOrder
<1>3. ~ Sweeping /\ ~ Sweeping' /\ bars \in Nat
  BY <1>1 DEF RunInv, SweepIs, Sweeping, BookTyped
<1>4. snapshots \in Seq(Nat) /\ Len(snapshots) = bars - 1
  BY <1>1 DEF LedgerInv, SnapshotsTaken
<1>5. CASE phase' = "failed"
  <2>1. snapshots' = snapshots
    BY <1>5 DEF ReportClose
  <2> QED
    BY <1>1, <1>2, <1>4, <1>5, <2>1 DEF LedgerInv, SnapshotsTaken
<1>6. CASE phase' # "failed"
  <2>1. snapshots' = Append(snapshots, Equity) /\ Equity \in Nat
    BY <1>6, EquityOfRun DEF ReportClose, RecordDailySnapshot
  <2>2. snapshots' \in Seq(Nat) /\ Len(snapshots') = Len(snapshots) + 1
    BY <1>4, <2>1, AppendProperties
  <2>3. Len(snapshots') = bars
    BY <1>3, <1>4, <2>2
  <2>4. bars > 0
    BY <1>3, <1>4, LenProperties
  <2> QED
    BY <1>1, <1>2, <1>3, <1>6, <2>2, <2>3, <2>4 DEF LedgerInv, SnapshotsTaken
<1> QED
  BY <1>5, <1>6

(* The fills of a run add up to its position and its cash, and every bar    *)
(* that is over has left a snapshot.                                        *)
THEOREM LedgerInvariant == ReportSpec => [](RunInv /\ ReportInv /\ LedgerInv)
<1>1. ReportInit => LedgerInv
  BY InitLedgerInv
<1>2. RunInv /\ ReportInv /\ LedgerInv /\ [ReportNext]_<<vars, reportVars>> => LedgerInv'
  <2> SUFFICES ASSUME RunInv, ReportInv, LedgerInv, [ReportNext]_<<vars, reportVars>> PROVE LedgerInv'
    OBVIOUS
  <2>1. CASE ReportOpen
    BY <2>1, OpenLedgerStep
  <2>2. CASE Sweep /\ UNCHANGED reportVars
    BY <2>2, SweepLedgerStep
  <2>3. CASE ReportClose
    BY <2>3, CloseLedgerStep
  <2>4. CASE UNCHANGED <<vars, reportVars>>
    <3>1. UNCHANGED <<fills, cash, shares, signals, snapshots, phase, sweep, bars>>
      BY <2>4 DEF vars, brokerVars, runVars, reportVars
    <3>2. FillsAddUp'
      BY <3>1, SumsStay DEF LedgerInv
    <3> QED
      BY <3>1, <3>2 DEF LedgerInv, SnapshotsTaken, FillsInOrder, Sweeping
  <2> QED
    BY <2>1, <2>2, <2>3, <2>4 DEF ReportNext
<1> QED
  BY <1>1, <1>2, ReportInvariant, PTL DEF ReportSpec
-----------------------------------------------------------------------------
(* The figures.                                                             *)

(* Maxima. *)
LEMMA MaxIs ==
  ASSUME NEW S \in SUBSET Int, NEW m \in S, \A x \in S : x <= m
  PROVE  Max(S) = m
<1>1. \A c \in S : (\A x \in S : c >= x) => c = m
  BY SMT
<1>2. \A x \in S : m >= x
  BY SMT
<1> QED
  BY <1>1, <1>2 DEF Max

(* Bounded sets have a maximum.                                             *)
LEMMA HasMax ==
  ASSUME NEW N \in Nat, NEW S \in SUBSET (0 .. N), S # {}
  PROVE  Max(S) \in S /\ \A x \in S : x <= Max(S)
<1> DEFINE T == {N - x : x \in S}
<1>1. T \in SUBSET Nat /\ T # {}
  <2>1. \A x \in S : N - x \in Nat
    BY SMT
  <2> QED
    BY <2>1
<1>2. PICK t \in T : \A u \in T : t <= u
  <2> HIDE DEF T
  <2> QED
    BY <1>1, LeastMember
<1>3. PICK m \in S : t = N - m
  BY <1>2
<1>4. \A x \in S : x <= m
  <2> SUFFICES ASSUME NEW x \in S PROVE x <= m
    OBVIOUS
  <2>1. N - x \in T
    OBVIOUS
  <2>2. N - m <= N - x
    BY <1>2, <1>3, <2>1
  <2> QED
    BY <2>2
<1>5. Max(S) = m
  <2>1. S \in SUBSET Int
    BY SMT
  <2> QED
    BY <1>4, <2>1, MaxIs
<1> QED
  BY <1>4, <1>5

(* Of the first values of a sequence of numbers one is the greatest.        *)
LEMMA HasGreatest ==
  ASSUME NEW N \in Nat, NEW s, \A i \in 1 .. N : s[i] \in Int, N # 0
  PROVE  \E i \in 1 .. N : \A j \in 1 .. N : s[j] <= s[i]
<1> DEFINE X == {k \in 0 .. N : k = 0 \/ \E i \in 1 .. k : \A j \in 1 .. k : s[j] <= s[i]}
<1>1. 0 \in X
  OBVIOUS
<1>2. ASSUME NEW k \in 1 .. N, k - 1 \in X PROVE k \in X
  <2>1. CASE k = 1
    <3>1. 1 \in 1 .. k /\ \A j \in 1 .. k : s[j] <= s[1]
      BY <2>1
    <3> QED
      BY <3>1
  <2>2. CASE k # 1
    <3>1. PICK i \in 1 .. k - 1 : \A j \in 1 .. k - 1 : s[j] <= s[i]
      BY <1>2, <2>2
    <3>2. i \in 1 .. k /\ k \in 1 .. k /\ \A j \in 1 .. k : j \in 1 .. k - 1 \/ j = k
      BY <3>1
    <3>3. \A j \in 1 .. k : s[j] \in Int
      OBVIOUS
    <3>4. CASE s[k] <= s[i]
      BY <3>1, <3>2, <3>4
    <3>5. CASE ~ (s[k] <= s[i])
      <4>1. \A j \in 1 .. k : s[j] <= s[k]
        BY <3>1, <3>2, <3>3, <3>5
      <4> QED
        BY <3>2, <4>1
    <3> QED
      BY <3>4, <3>5
  <2> QED
    BY <2>1, <2>2
<1>3. 0 .. N \subseteq X
  <2> HIDE DEF X
  <2> QED
    BY <1>1, <1>2, UpTo
<1>4. N \in X
  <2> HIDE DEF X
  <2> QED
    BY <1>3
<1> QED
  BY <1>4

(* What the invariant says of the snapshots.                                *)
LEMMA SnapshotFacts ==
  ASSUME LedgerInv
  PROVE  /\ Len(snapshots) \in Nat /\ DOMAIN snapshots = 1 .. Len(snapshots)
         /\ \A k \in DOMAIN snapshots : snapshots[k] \in Nat
  BY LenProperties, ElementOfSeq DEF LedgerInv, SnapshotsTaken

Peaks(k) == \E i \in 1 .. k : Peak(k) = snapshots[i] /\ \A j \in 1 .. k : snapshots[j] <= snapshots[i]
(* The running maximum is the equity of a day so far.                       *)
LEMMA PeakIs ==
  ASSUME LedgerInv, NEW k \in DOMAIN snapshots
  PROVE  Peaks(k) /\ Peak(k) \in Nat /\ snapshots[k] <= Peak(k) /\ snapshots[k] \in Nat
<1>1. k \in Nat /\ k # 0 /\ k \in 1 .. k /\ \A i \in 1 .. k : snapshots[i] \in Nat
  BY SnapshotFacts
<1>2. PICK i \in 1 .. k : \A j \in 1 .. k : snapshots[j] <= snapshots[i]
  <2>1. \A i \in 1 .. k : snapshots[i] \in Int
    BY <1>1
  <2> QED
    BY <1>1, <2>1, HasGreatest
<1>3. Peak(k) = snapshots[i]
  <2> DEFINE S == {snapshots[j] : j \in 1 .. k}
  <2>1. S \in SUBSET Int /\ snapshots[i] \in S /\ \A x \in S : x <= snapshots[i]
    BY <1>1, <1>2
  <2> HIDE DEF S
  <2>2. Max(S) = snapshots[i]
    BY <2>1, MaxIs
  <2> QED
    BY <2>2 DEF Peak, S
<1> QED
  BY <1>1, <1>2, <1>3 DEF Peaks

(* A day has a drawdown when an earlier equity was greater.                 *)
LEMMA DrawdownIs ==
  ASSUME LedgerInv, NEW k \in DOMAIN snapshots
  PROVE  /\ IF Peak(k) = 0 THEN Drawdown(k) = Whole(0) /\ snapshots[k] = 0
            ELSE Drawdown(k) = Frac(Peak(k) - snapshots[k], Peak(k)) /\ Peak(k) \in Nat \ {0}
         /\ Drawdown(k).n > 0 <=> \E i \in 1 .. k : snapshots[i] > snapshots[k]
<1>1. Peaks(k) /\ Peak(k) \in Nat /\ snapshots[k] <= Peak(k) /\ snapshots[k] \in Nat
  BY PeakIs
<1>2. PICK i \in 1 .. k : Peak(k) = snapshots[i] /\ \A j \in 1 .. k : snapshots[j] <= snapshots[i]
  BY <1>1 DEF Peaks
<1>3. \A j \in 1 .. k : snapshots[j] \in Nat
  BY SnapshotFacts
<1>4. Peak(k) > snapshots[k] <=> \E j \in 1 .. k : snapshots[j] > snapshots[k]
  BY <1>1, <1>2, <1>3
<1>5. CASE Peak(k) = 0
  <2>1. snapshots[k] = 0
    BY <1>1, <1>5
  <2>2. Drawdown(k) = [n |-> 0, d |-> 1] /\ Whole(0) = [n |-> 0, d |-> 1]
    BY <1>5, <2>1 DEF Drawdown, Frac, Whole
  <2> QED
    BY <1>4, <1>5, <2>1, <2>2
<1>6. CASE Peak(k) # 0
  <2>1. Peak(k) \in Nat \ {0} /\ Peak(k) - snapshots[k] \in Int
    BY <1>1, <1>6
  <2>2. Drawdown(k).n > 0 <=> Peak(k) - snapshots[k] > 0
    BY <2>1, FracIs DEF Drawdown
  <2> QED
    BY <1>1, <1>4, <1>6, <2>1, <2>2 DEF Drawdown
<1> QED
  BY <1>5, <1>6

(* No session is compared with a bar of its future, nor with a stale one.   *)
LEMMA SessionsLookBack == RunInv /\ LedgerInv => LooksBack
<1> SUFFICES ASSUME RunInv, LedgerInv, Reported, NEW present \in SUBSET (1 .. bars)
             PROVE  LET series == Series(present) IN
                      /\ \A k \in DOMAIN series : series[k].benchmark <= k
                      /\ BenchmarkReturnKnown(bars, present) <=>
                           /\ 1 \in present
                           /\ \A k \in DOMAIN series : \E i \in present : i <= k /\ k <= i + MaxStale
  BY Zenon DEF LooksBack
<1>1. bars \in Nat \ {0} /\ DOMAIN snapshots = 1 .. bars /\ MaxStale \in Nat
  <2>1. phase = "done" /\ bars \in Nat
    BY DEF Reported, RunInv, BookTyped
  <2>2. ~ Sweeping
    BY <2>1 DEF RunInv, SweepIs
  <2> QED
    BY <2>1, <2>2, SnapshotFacts, ReportAssumption DEF LedgerInv, SnapshotsTaken
<1> DEFINE known(k) == {i \in present : i <= k}
<1>2. \A k \in 1 .. bars :
        Benchmark(bars, present)[k] =
          IF 1 \notin present \/ k - Max(known(k)) > MaxStale THEN 0 ELSE Max(known(k))
  BY DEF Benchmark
<1>3. /\ DOMAIN Series(present) = 1 .. bars
      /\ \A k \in 1 .. bars : Series(present)[k].benchmark = Benchmark(bars, present)[k]
  BY <1>1 DEF Series
<1>4. ASSUME 1 \in present, NEW k \in 1 .. bars
      PROVE  Max(known(k)) \in known(k) /\ \A i \in known(k) : i <= Max(known(k))
  <2>1. known(k) \in SUBSET (0 .. bars) /\ known(k) # {}
    <3>1. 1 \in known(k)
      BY <1>1, <1>4
    <3>2. \A i \in present : i \in 0 .. bars
      BY <1>1
    <3> QED
      BY <3>1, <3>2
  <2> HIDE DEF known
  <2> QED
    BY <1>1, <2>1, HasMax
<1>5. \A k \in 1 .. bars : Benchmark(bars, present)[k] <= k
  <2> SUFFICES ASSUME NEW k \in 1 .. bars PROVE Benchmark(bars, present)[k] <= k
    OBVIOUS
  <2>1. CASE 1 \in present
    <3>1. Max(known(k)) \in known(k)
      BY <1>4, <2>1
    <3>2. Max(known(k)) <= k
      BY <3>1
    <3> HIDE DEF known
    <3> QED
      BY <1>1, <1>2, <3>2
  <2>2. CASE 1 \notin present
    BY <1>1, <1>2, <2>2
  <2> QED
    BY <2>1, <2>2
<1>6. CASE 1 \notin present
  <2>1. Benchmark(bars, present)[1] = 0
    BY <1>1, <1>2, <1>6
  <2>2. ~ BenchmarkReturnKnown(bars, present)
    BY <1>1, <2>1 DEF BenchmarkReturnKnown
  <2> QED
    BY <1>3, <1>5, <1>6, <2>2
<1>7. CASE 1 \in present
  <2>1. ASSUME NEW k \in 1 .. bars
        PROVE  Benchmark(bars, present)[k] # 0 <=> \E i \in present : i <= k /\ k <= i + MaxStale
    <3> DEFINE m == Max(known(k))
    <3>1. m \in present /\ m <= k /\ m \in 1 .. bars /\ \A i \in present : i <= k => i <= m
      BY <1>4, <1>7
    <3>2. Benchmark(bars, present)[k] = IF k - m > MaxStale THEN 0 ELSE m
      BY <1>2, <1>7
    <3> HIDE DEF m
    <3>3. CASE k - m > MaxStale
      BY <1>1, <3>1, <3>2, <3>3
    <3>4. CASE ~ (k - m > MaxStale)
      <4>1. k <= m + MaxStale /\ m # 0
        BY <1>1, <3>1, <3>4
      <4> QED
        BY <3>1, <3>2, <3>4, <4>1
    <3> QED
      BY <3>3, <3>4
  <2> QED
    BY <1>3, <1>5, <1>7, <2>1 DEF BenchmarkReturnKnown
<1> QED
  BY <1>6, <1>7

(* A comparison that goes one way with a fraction goes it with a lesser one. *)
LEMMA NotLess ==
  ASSUME NEW x \in Fractions, NEW a \in Int, NEW b \in Nat \ {0}, NEW c \in Int, NEW d \in Nat \ {0},
         a * d <= c * b, ~ Less(x, Frac(c, d))
  PROVE  ~ Less(x, Frac(a, b))
<1>1. PICK e \in Int, f \in Nat \ {0} : x = Frac(e, f)
  BY DEF Fractions
<1>2. ~ (e * d < c * f)
  BY <1>1, FracLess
<1>3. SUFFICES ASSUME e * b < a * f PROVE FALSE
  BY <1>1, FracLess
<1>4. e * b * d < a * f * d
  BY <1>3, SMT
<1>5. a * d * f <= c * b * f
  BY SMT
<1>6. c * f * b <= e * d * b
  BY <1>2, SMT
<1>7. a * f * d = a * d * f /\ c * f * b = c * b * f /\ e * d * b = e * b * d
  BY SMT
<1> DEFINE A == a * d * f
           B == c * b * f
           C == e * b * d
<1>8. A \in Int /\ B \in Int /\ C \in Int
  BY SMT
<1>9. C < A /\ A <= B /\ B <= C
  BY <1>4, <1>5, <1>6, <1>7
<1> HIDE DEF A, B, C
<1> QED
  BY <1>8, <1>9

(* No fraction is less than itself.                                         *)
LEMMA NotLessThanItself ==
  ASSUME NEW x \in Fractions
  PROVE  ~ Less(x, x)
<1>1. PICK e \in Int, f \in Nat \ {0} : x = Frac(e, f)
  BY DEF Fractions
<1>2. e * f \in Int
  BY SMT
<1>3. ~ (e * f < e * f)
  BY <1>2, SMT
<1> QED
  BY <1>1, <1>3, FracLess

(* What is not above the lesser of two is not above the greater.            *)
LEMMA LessThanBoth ==
  ASSUME NEW x \in Fractions, NEW y \in Fractions, NEW z \in Fractions, Less(x, y), ~ Less(x, z)
  PROVE  ~ Less(y, z)
<1>1. PICK e \in Int, f \in Nat \ {0} : x = Frac(e, f)
  BY DEF Fractions
<1>2. PICK c \in Int, d \in Nat \ {0} : y = Frac(c, d)
  BY DEF Fractions
<1>3. PICK a \in Int, b \in Nat \ {0} : z = Frac(a, b)
  BY DEF Fractions
<1>4. SUFFICES ASSUME Less(y, z) PROVE FALSE
  OBVIOUS
<1>5. e * d < c * f /\ c * b < a * d /\ ~ (e * b < a * f)
  <2>1. (Less(Frac(e, f), Frac(c, d)) <=> e * d < c * f) /\ (Less(Frac(c, d), Frac(a, b)) <=> c * b < a * d)
        /\ (Less(Frac(e, f), Frac(a, b)) <=> e * b < a * f)
    BY FracLess
  <2> QED
    BY <1>1, <1>2, <1>3, <1>4, <2>1
<1>6. c * f * b <= a * d * f
  BY <1>5, SMT
<1>7. a * f * d <= e * b * d
  BY <1>5, SMT
<1>8. e * d * b < c * f * b
  BY <1>5, SMT
<1>9. a * f * d = a * d * f /\ e * d * b = e * b * d
  BY SMT
<1> DEFINE A == a * d * f
           B == c * f * b
           C == e * b * d
<1>10. A \in Int /\ B \in Int /\ C \in Int
  BY SMT
<1>11. C < B /\ B <= A /\ A <= C
  BY <1>6, <1>7, <1>8, <1>9
<1> HIDE DEF A, B, C
<1> QED
  BY <1>10, <1>11

(* The figure is a drawdown of one of the days, or none, and no day has a   *)
(* greater one.                                                             *)
DrawdownFigures == {Whole(0)} \union {Drawdown(k) : k \in DOMAIN snapshots}

(* A fall is a fraction.                                                    *)
LEMMA FiguresAre ==
  ASSUME LedgerInv, NEW x \in DrawdownFigures
  PROVE  x \in Fractions /\ ~ Less(x, Whole(0))
<1>1. Whole(0) \in Fractions /\ Whole(0) = Frac(0, 1)
  BY FractionTypes
<1>2. \E a \in Nat, b \in Nat \ {0} : x = Frac(a, b)
  <2>1. CASE x = Whole(0)
    BY <1>1, <2>1
  <2>2. ASSUME NEW k \in DOMAIN snapshots, x = Drawdown(k) PROVE \E a \in Nat, b \in Nat \ {0} : x = Frac(a, b)
    <3>1. snapshots[k] <= Peak(k) /\ Peak(k) \in Nat /\ snapshots[k] \in Nat
      BY PeakIs
    <3>2. CASE Peak(k) = 0
      BY <1>1, <2>2, <3>2, DrawdownIs
    <3>3. CASE Peak(k) # 0
      <4>1. Peak(k) - snapshots[k] \in Nat /\ Peak(k) \in Nat \ {0}
        BY <3>1, <3>3
      <4> QED
        BY <2>2, <3>3, <4>1, DrawdownIs
    <3> QED
      BY <3>2, <3>3
  <2> QED
    BY <2>1, <2>2 DEF DrawdownFigures
<1>3. PICK a \in Nat, b \in Nat \ {0} : x = Frac(a, b)
  BY <1>2
<1>4. x \in Fractions
  BY <1>3 DEF Fractions
<1>5. ~ Less(x, Frac(0, 1))
  <2>1. ~ (a * 1 < 0 * b) /\ a \in Int
    BY SMT
  <2> QED
    BY <1>3, <2>1, FracLess
<1> QED
  BY <1>1, <1>4, <1>5

(* The fold over the days finds the worst drawdown.                         *)
LEMMA WorstIs ==
  ASSUME LedgerInv
  PROVE  MaxDrawdown \in DrawdownFigures /\ \A k \in DOMAIN snapshots : ~ Less(MaxDrawdown, Drawdown(k))
<1> DEFINE T == DOMAIN snapshots
           Worse(k, worst) == IF Less(worst, Drawdown(k)) THEN Drawdown(k) ELSE worst
           F(g) == [s \in SUBSET T |->
                      IF s = {} THEN Whole(0)
                      ELSE LET x == CHOOSE z \in s : TRUE
                           IN IF Less(g[s \ {x}], Drawdown(x)) THEN Drawdown(x) ELSE g[s \ {x}]]
           iter == CHOOSE g : g = F(g)
           step == [p \in T \X DrawdownFigures |-> Worse(p[1], p[2])]
<1>1. MaxDrawdown = iter[T]
  BY SMT DEF MaxDrawdown, FoldSet, MapThenFoldSet
<1>2. IsFiniteSet(T)
  BY SnapshotFacts, FS_Interval
<1>3. \A k \in T, x \in DrawdownFigures : step[<<k, x>>] = Worse(k, x) /\ Worse(k, x) \in DrawdownFigures
  BY DEF DrawdownFigures
<1>4. PICK f : f = [s \in SUBSET T |-> f[s]] /\ \A s \in SUBSET T : FoldStep(step, Whole(0), f, s)
  <2> HIDE DEF step, T
  <2> QED
    BY <1>2, FoldExists
<1> DEFINE X == {s \in SUBSET T : f[s] \in DrawdownFigures}
<1>5. SUBSET T \subseteq X
  <2>1. {} \in X
    BY <1>4 DEF FoldStep, DrawdownFigures
  <2>2. ASSUME NEW s \in SUBSET T, s # {}, s \ {Picked(s)} \in X PROVE s \in X
    <3>1. Picked(s) \in T
      BY <2>2 DEF Picked
    <3>2. f[s \ {Picked(s)}] \in DrawdownFigures
      BY <2>2, Zenon
    <3>3. f[s] = step[<<Picked(s), f[s \ {Picked(s)}]>>]
      BY <1>4, <2>2, Zenon DEF FoldStep
    <3> HIDE DEF step
    <3>4. f[s] \in DrawdownFigures
      BY <1>3, <3>1, <3>2, <3>3, Zenon
    <3> QED
      BY <3>4
  <2> HIDE DEF X, T
  <2> QED
    BY <1>2, <2>1, <2>2, OverSubsets
<1>6. f = F(f)
  <2>1. ASSUME NEW s \in SUBSET T PROVE f[s] = F(f)[s]
    <3>1. CASE s = {}
      BY <1>4, <3>1 DEF FoldStep
    <3>2. CASE s # {}
      <4>1. Picked(s) \in T /\ s \ {Picked(s)} \in SUBSET T /\ Picked(s) = CHOOSE z \in s : TRUE
        BY <3>2 DEF Picked
      <4>2. f[s] = step[<<Picked(s), f[s \ {Picked(s)}]>>] /\ f[s \ {Picked(s)}] \in DrawdownFigures
        BY <1>4, <1>5, <3>2, <4>1 DEF FoldStep
      <4>3. f[s] = Worse(Picked(s), f[s \ {Picked(s)}])
        BY <1>3, <4>1, <4>2
      <4> QED
        BY <3>2, <4>1, <4>3, Zenon
    <3> QED
      BY <3>1, <3>2
  <2>2. F(f) = [s \in SUBSET T |-> F(f)[s]]
    OBVIOUS
  <2> HIDE DEF F, T
  <2> QED
    BY <1>4, <2>1, <2>2
<1>7. iter = F(iter)
  <2> HIDE DEF F
  <2> QED
    BY <1>6, Zenon
<1>8. \A s \in SUBSET T : iter[s] = IF s = {} THEN Whole(0) ELSE Worse(Picked(s), iter[s \ {Picked(s)}])
  <2> SUFFICES ASSUME NEW s \in SUBSET T
               PROVE  iter[s] = IF s = {} THEN Whole(0) ELSE Worse(Picked(s), iter[s \ {Picked(s)}])
    OBVIOUS
  <2>1. F(iter)[s] = IF s = {} THEN Whole(0) ELSE Worse(Picked(s), iter[s \ {Picked(s)}])
    <3> HIDE DEF iter, T
    <3> QED
      BY DEF Picked
  <2> HIDE DEF iter, F
  <2> QED
    BY <1>7, <2>1
<1> HIDE DEF iter, F
<1> DEFINE Y == {s \in SUBSET T : iter[s] \in DrawdownFigures /\ \A k \in s : ~ Less(iter[s], Drawdown(k))}
<1>9. SUBSET T \subseteq Y
  <2>1. {} \in Y
    BY <1>8 DEF DrawdownFigures
  <2>2. ASSUME NEW s \in SUBSET T, s # {}, s \ {Picked(s)} \in Y PROVE s \in Y
    <3> DEFINE x == Picked(s)
               r == s \ {x}
    <3>1. x \in T /\ \A k \in s : k = x \/ k \in r
      BY <2>2 DEF Picked
    <3>2. iter[s] = Worse(x, iter[r]) /\ iter[r] \in DrawdownFigures /\ \A k \in r : ~ Less(iter[r], Drawdown(k))
      BY <1>8, <2>2
    <3> HIDE DEF x, r
    <3>3. iter[s] \in DrawdownFigures
      <4>1. Worse(x, iter[r]) \in DrawdownFigures
        <5> HIDE DEF Worse, step, T
        <5> QED
          BY <1>3, <3>1, <3>2
      <4> QED
        BY <3>2, <4>1, Zenon
    <3>4. \A k \in s : ~ Less(iter[s], Drawdown(k))
      <4> SUFFICES ASSUME NEW k \in s PROVE ~ Less(iter[s], Drawdown(k))
        OBVIOUS
      <4>0. k \in T
        OBVIOUS
      <4>1. CASE ~ Less(iter[r], Drawdown(x))
        BY <3>1, <3>2, <4>1
      <4>2. CASE Less(iter[r], Drawdown(x))
        <5>1. iter[s] = Drawdown(x)
          BY <3>2, <4>2
        <5>2. /\ Drawdown(x) \in DrawdownFigures /\ Drawdown(k) \in DrawdownFigures
          BY <3>1, <4>0 DEF DrawdownFigures
        <5>3. CASE k = x
          BY <5>1, <5>2, <5>3, FiguresAre, NotLessThanItself
        <5>4. CASE k # x
          <6>1. ~ Less(iter[r], Drawdown(k))
            BY <3>1, <3>2, <5>4
          <6> QED
            BY <3>2, <4>2, <5>1, <5>2, <6>1, FiguresAre, LessThanBoth
        <5> QED
          BY <5>3, <5>4
      <4> QED
        BY <4>1, <4>2
    <3> QED
      BY <3>3, <3>4
  <2> HIDE DEF Y, T
  <2> QED
    BY <1>2, <2>1, <2>2, OverSubsets
<1> QED
  BY <1>1, <1>9

(* That is the worst fall between any two days.                             *)
LEMMA FallsAreWorst == LedgerInv => WorstFall
<1> SUFFICES ASSUME LedgerInv PROVE WorstFall
  OBVIOUS
<1> DEFINE N == Len(snapshots)
<1>1. /\ N \in Nat /\ DOMAIN snapshots = 1 .. N /\ \A k \in 1 .. N : snapshots[k] \in Nat
      /\ MaxDrawdown \in DrawdownFigures /\ \A k \in 1 .. N : ~ Less(MaxDrawdown, Drawdown(k))
  BY SnapshotFacts, WorstIs
<1>2. MaxDrawdown \in Fractions /\ ~ Less(MaxDrawdown, Whole(0))
  BY <1>1, FiguresAre
<1>3. ASSUME NEW i \in 1 .. N, NEW k \in 1 .. N, i <= k
      PROVE  ~ Less(MaxDrawdown, Frac(snapshots[i] - snapshots[k], snapshots[i]))
  <2> DEFINE a == snapshots[i]
             c == snapshots[k]
             p == Peak(k)
  <2>1. a \in Nat /\ c \in Nat /\ p \in Nat /\ a <= p /\ c <= p
    <3>1. k \in DOMAIN snapshots /\ i \in 1 .. k
      BY <1>1, <1>3
    <3>2. Peaks(k) /\ Peak(k) \in Nat /\ snapshots[k] <= Peak(k)
      BY <3>1, PeakIs
    <3> QED
      BY <1>1, <3>1, <3>2 DEF Peaks
  <2>2. CASE a = 0 /\ c = 0
    <3>1. Frac(a - c, a) = Whole(0)
      BY <2>2 DEF Frac, Whole
    <3> QED
      BY <1>2, <3>1
  <2>3. CASE a = 0 /\ c # 0
    <3>1. Frac(a - c, a).d = 0 /\ Frac(a - c, a).n = -1
      <4>1. Gcd[<<c, 0>>] = c
        BY <2>1, GcdRule
      <4>2. AbsInt(a - c) = c /\ a - c = -c /\ a - c # 0
        BY <2>1, <2>3 DEF AbsInt
      <4>3. Frac(a - c, a) = [n |-> (-c) \div c, d |-> 0 \div c]
        <5> HIDE DEF c
        <5> QED
          BY <2>3, <4>1, <4>2 DEF Frac
      <4>4. (-c) \div c = -1 /\ 0 \div c = 0
        <5>1. -c = c * (-1) + 0 /\ 0 = c * 0 + 0
          BY <2>1
        <5> QED
          BY <2>1, <2>3, <5>1, ExactDivision
      <4> QED
        BY <4>3, <4>4
    <3>2. PICK e \in Int, f \in Nat \ {0} : MaxDrawdown = Frac(e, f)
      BY <1>2 DEF Fractions
    <3>3. MaxDrawdown.d \in Nat \ {0} /\ MaxDrawdown.n \in Int
      BY <3>2, FracIs
    <3> QED
      BY <3>1, <3>3 DEF Less
  <2>4. CASE a # 0
    <3>1. p \in Nat \ {0} /\ a \in Nat \ {0} /\ a - c \in Int /\ p - c \in Int
      BY <2>1, <2>4
    <3>2. ~ Less(MaxDrawdown, Frac(p - c, p))
      BY <1>1, <3>1, DrawdownIs
    <3>3. (a - c) * p <= (p - c) * a
      <4>1. c * a <= c * p
        BY <2>1, ProductMonotone
      <4>2. (a - c) * p = a * p - c * p /\ (p - c) * a = a * p - c * a /\ a * p \in Int
            /\ c * p \in Int /\ c * a \in Int
        BY <2>1, SMT
      <4> QED
        BY <4>1, <4>2
    <3> HIDE DEF a, c, p
    <3>4. ~ Less(MaxDrawdown, Frac(a - c, a))
      BY <1>2, <3>1, <3>2, <3>3, NotLess
    <3> QED
      BY <3>4 DEF a, c
  <2> QED
    BY <2>1, <2>2, <2>3, <2>4
<1>4. MaxDrawdown.n = 0 \/ \E i, k \in 1 .. N :
         i <= k /\ MaxDrawdown = Frac(snapshots[i] - snapshots[k], snapshots[i])
  <2>1. Whole(0).n = 0
    BY WholeLaws
  <2>2. ASSUME NEW k \in 1 .. N, MaxDrawdown = Drawdown(k), MaxDrawdown # Whole(0)
        PROVE  \E i \in 1 .. N : i <= k /\ MaxDrawdown = Frac(snapshots[i] - snapshots[k], snapshots[i])
    <3>1. Drawdown(k) = Frac(Peak(k) - snapshots[k], Peak(k))
      BY <1>1, <2>2, DrawdownIs
    <3>2. PICK i \in 1 .. k : Peak(k) = snapshots[i]
      BY <1>1, PeakIs DEF Peaks
    <3> QED
      BY <1>1, <2>2, <3>1, <3>2
  <2> QED
    BY <1>1, <2>1, <2>2 DEF DrawdownFigures
<1> QED
  BY <1>3, <1>4 DEF WorstFall

(* The days under an earlier equity are counted, from 0 after a day that    *)
(* reaches them all.                                                        *)
Under(k) == \E i \in 1 .. k : snapshots[i] > snapshots[k]
Counted(f) ==
  \A k \in 0 .. Len(snapshots) : f[k] = IF k = 0 THEN 0 ELSE IF Drawdown(k).n > 0 THEN f[k - 1] + 1 ELSE 0

(* The counter of the days below the maximum, day by day.                   *)
LEMMA DurationIs ==
  ASSUME LedgerInv
  PROVE  \E f : /\ Counted(f) /\ MaxDrawdownDuration = Max({f[k] : k \in 0 .. Len(snapshots)})
<1> DEFINE N == Len(snapshots)
           step == [p \in (1 .. N) \X Nat |-> IF Drawdown(p[1]).n > 0 THEN p[2] + 1 ELSE 0]
           F(g) == [k \in 0 .. N |-> IF k = 0 THEN 0 ELSE IF Drawdown(k).n > 0 THEN g[k - 1] + 1 ELSE 0]
           current == CHOOSE g : g = F(g)
<1>1. MaxDrawdownDuration = Max({current[k] : k \in 0 .. N})
  BY SMT DEF MaxDrawdownDuration
<1>2. N \in Nat
  BY SnapshotFacts
<1> HIDE DEF N
<1>3. \A n \in 1 .. N, x \in Nat : step[<<n, x>>] = IF Drawdown(n).n > 0 THEN x + 1 ELSE 0
  OBVIOUS
<1> HIDE DEF step
<1>4. PICK f : Chain(f, Nat, N, 0, step)
  <2>1. ASSUME NEW n \in 1 .. N, NEW x \in Nat PROVE step[<<n, x>>] \in Nat
    <3>1. step[<<n, x>>] = x + 1 \/ step[<<n, x>>] = 0
      BY <1>3
    <3> QED
      BY <3>1
  <2>2. StaysIn(Nat, N, 0, step)
    BY <2>1 DEF StaysIn
  <2> QED
    BY <1>2, <2>2, TypedChain
<1>5. f = F(f)
  <2>1. ASSUME NEW n \in 0 .. N PROVE f[n] = F(f)[n]
    <3>1. CASE n = 0
      BY <1>4, <3>1 DEF Chain
    <3>2. CASE n # 0
      <4>1. n \in 1 .. N /\ n - 1 \in 0 .. N
        BY <1>2, <3>2
      <4>2. f[n] = step[<<n, f[n - 1]>>] /\ f[n - 1] \in Nat
        BY <1>4, <4>1 DEF Chain
      <4>3. step[<<n, f[n - 1]>>] = IF Drawdown(n).n > 0 THEN f[n - 1] + 1 ELSE 0
        BY <1>3, <4>1, <4>2
      <4> QED
        BY <3>2, <4>2, <4>3
    <3> QED
      BY <3>1, <3>2
  <2>2. F(f) = [n \in 0 .. N |-> F(f)[n]]
    OBVIOUS
  <2> HIDE DEF F
  <2> QED
    BY <1>4, <2>1, <2>2 DEF Chain
<1>6. current = F(current)
  <2> HIDE DEF F
  <2> QED
    BY <1>5, Zenon
<1>7. \A k \in 0 .. N : current[k] = IF k = 0 THEN 0 ELSE IF Drawdown(k).n > 0 THEN current[k - 1] + 1 ELSE 0
  <2> SUFFICES ASSUME NEW k \in 0 .. N
               PROVE  current[k] = IF k = 0 THEN 0 ELSE IF Drawdown(k).n > 0 THEN current[k - 1] + 1 ELSE 0
    OBVIOUS
  <2> HIDE DEF current
  <2>1. F(current)[k] = IF k = 0 THEN 0 ELSE IF Drawdown(k).n > 0 THEN current[k - 1] + 1 ELSE 0
    OBVIOUS
  <2> HIDE DEF F
  <2> QED
    BY <1>6, <2>1
<1> HIDE DEF current
<1> QED
  BY <1>1, <1>7 DEF Counted, N

(* The count of a day is the length of the stretch that ends with it.       *)
LEMMA CountIs ==
  ASSUME LedgerInv, NEW f, Counted(f)
  PROVE  \A k \in 0 .. Len(snapshots) :
           /\ f[k] \in 0 .. k /\ \A j \in k - f[k] + 1 .. k : Under(j)
           /\ f[k] < k => ~ Under(k - f[k])
<1> DEFINE N == Len(snapshots)
           Is(k) == /\ f[k] \in 0 .. k /\ \A j \in k - f[k] + 1 .. k : Under(j)
                    /\ f[k] < k => ~ Under(k - f[k])
           X == {k \in 0 .. N : Is(k)}
<1>1. N \in Nat /\ DOMAIN snapshots = 1 .. N
  BY SnapshotFacts
<1>2. \A k \in 1 .. N : Drawdown(k).n > 0 <=> Under(k)
  BY <1>1, DrawdownIs DEF Under
<1>3. f[0] = 0 /\ \A k \in 1 .. N : f[k] = IF Under(k) THEN f[k - 1] + 1 ELSE 0
  BY <1>1, <1>2 DEF Counted
<1>4. 0 \in X
  BY <1>1, <1>3
<1>5. ASSUME NEW k \in 1 .. N, k - 1 \in X PROVE k \in X
  <2> DEFINE m == f[k - 1]
  <2>1. /\ m \in 0 .. k - 1 /\ \A j \in k - m .. k - 1 : Under(j)
        /\ m < k - 1 => ~ Under(k - 1 - m)
    <3>1. k - 1 - m + 1 = k - m
      <4>1. m \in 0 .. k - 1
        BY <1>5
      <4> QED
        BY <4>1
    <3> QED
      BY <1>5, <3>1
  <2> HIDE DEF m
  <2>2. CASE Under(k)
    <3>1. f[k] = m + 1
      BY <1>3, <2>2 DEF m
    <3>2. f[k] \in 0 .. k /\ k - f[k] = k - 1 - m /\ k - f[k] + 1 = k - m
      BY <2>1, <3>1
    <3>3. \A j \in k - m .. k : j = k \/ j \in k - m .. k - 1
      BY <2>1
    <3>4. f[k] < k => m < k - 1
      BY <2>1, <3>1
    <3> QED
      BY <2>1, <2>2, <3>2, <3>3, <3>4
  <2>3. CASE ~ Under(k)
    <3>1. f[k] = 0 /\ k - 0 = k /\ k + 1 .. k = {}
      BY <1>3, <2>3
    <3> QED
      BY <2>3, <3>1
  <2> QED
    BY <2>2, <2>3
<1>6. 0 .. N \subseteq X
  <2> HIDE DEF X
  <2> QED
    BY <1>1, <1>4, <1>5, UpTo
<1> QED
  BY <1>6

(* Its maximum is the longest stretch.                                      *)
LEMMA StretchesAreLongest == LedgerInv => LongestStretch
<1> SUFFICES ASSUME LedgerInv PROVE LongestStretch
  OBVIOUS
<1> DEFINE N == Len(snapshots)
<1>1. PICK f : Counted(f) /\ MaxDrawdownDuration = Max({f[k] : k \in 0 .. N})
  BY DurationIs
<1>2. N \in Nat
  BY SnapshotFacts
<1>3. \A k \in 0 .. N :
           /\ f[k] \in 0 .. k /\ \A j \in k - f[k] + 1 .. k : Under(j)
           /\ f[k] < k => ~ Under(k - f[k])
  BY <1>1, CountIs
<1> DEFINE A == {f[k] : k \in 0 .. N}
           B == {0} \union {i \in 1 .. N : \E from \in 1 .. N - i + 1 :
                                           \A k \in from .. from + i - 1 : Under(k)}
<1> HIDE DEF N
<1>4. Max(A) \in A /\ \A x \in A : x <= Max(A)
  <2>1. \A k \in 0 .. N : f[k] \in 0 .. N
    BY <1>2, <1>3
  <2>2. A \in SUBSET (0 .. N) /\ A # {}
    BY <1>2, <2>1
  <2> HIDE DEF A
  <2> QED
    BY <1>2, <2>2, HasMax
<1>5. A \subseteq B
  <2> SUFFICES ASSUME NEW k \in 0 .. N PROVE f[k] \in B
    OBVIOUS
  <2> DEFINE i == f[k]
             from == k - i + 1
  <2>1. i \in 0 .. k /\ \A j \in k - i + 1 .. k : Under(j)
    BY <1>3
  <2>2. CASE i = 0
    BY <2>2
  <2>3. CASE i # 0
    <3> HIDE DEF i
    <3>1. i \in 1 .. N /\ from \in 1 .. N - i + 1 /\ from + i - 1 = k
      BY <1>2, <2>1, <2>3
    <3> QED
      BY <2>1, <3>1 DEF i
  <2> QED
    BY <2>2, <2>3
<1>6. ASSUME NEW i \in B PROVE \E x \in A : i <= x
  <2>1. CASE i = 0
    <3>1. f[0] = 0 /\ f[0] \in A
      BY <1>2, <1>3
    <3> QED
      BY <2>1, <3>1
  <2>2. CASE i # 0
    <3>1. i \in 1 .. N /\ \E from \in 1 .. N - i + 1 : \A k \in from .. from + i - 1 : Under(k)
      BY <2>2
    <3>2. PICK from \in 1 .. N - i + 1 : \A k \in from .. from + i - 1 : Under(k)
      BY <3>1
    <3> DEFINE k == from + i - 1
    <3>3. k \in 0 .. N /\ i <= k
      BY <1>2, <3>1
    <3>4. /\ f[k] \in 0 .. k /\ (f[k] < k => ~ Under(k - f[k]))
      BY <1>3, <3>3
    <3>5. i <= f[k]
      <4>1. SUFFICES ASSUME f[k] < i PROVE FALSE
        BY <3>1, <3>3, <3>4
      <4>2. f[k] < k /\ k - f[k] \in from .. from + i - 1
        BY <1>2, <3>1, <3>3, <3>4, <4>1
      <4> QED
        BY <3>2, <3>4, <4>2
    <3> QED
      BY <3>3, <3>5
  <2> QED
    BY <2>1, <2>2
<1>7. Max(B) = Max(A)
  <2>1. B \in SUBSET Int /\ \A x \in A : x \in Int
    <3>1. B \in SUBSET Int
      BY <1>2
    <3> QED
      BY <1>5, <3>1
  <2> HIDE DEF A, B
  <2>2. \A i \in B : i <= Max(A)
    <3> SUFFICES ASSUME NEW i \in B PROVE i <= Max(A)
      OBVIOUS
    <3>1. PICK x \in A : i <= x
      BY <1>6
    <3> QED
      BY <1>4, <2>1, <3>1
  <2> QED
    BY <1>4, <1>5, <2>1, <2>2, MaxIs
<1>8. MaxDrawdownDuration = Max(B)
  BY <1>1, <1>7
<1> QED
  BY <1>8 DEF LongestStretch, Under, N

(* The figures of the report are right in every state: the drawdown is the  *)
(* worst fall between two days, its duration the longest stretch under an   *)
(* earlier equity, and a session is compared with nothing but its past.     *)
THEOREM FiguresAreAlwaysRight == ReportSpec => []FiguresAreRight
<1>1. RunInv /\ ReportInv /\ LedgerInv => FiguresAreRight
  BY FallsAreWorst, StretchesAreLongest, SessionsLookBack DEF FiguresAreRight
<1> QED
  BY <1>1, LedgerInvariant, PTL
-----------------------------------------------------------------------------
(* Sums.  Over an interval a sum is the difference of two running totals.   *)
LEMMA ZeroSum ==
  ASSUME NEW T, IsFiniteSet(T), NEW v, \A x \in T : v[x] = 0,
         NEW f, \A s \in SUBSET T : SumStep(v, f, s)
  PROVE  f[T] = 0
<1> DEFINE X == {s \in SUBSET T : f[s] = 0}
<1>1. {} \in X
  BY DEF SumStep
<1>2. ASSUME NEW s \in SUBSET T, s # {}, s \ {Picked(s)} \in X PROVE s \in X
  <2>1. Picked(s) \in T /\ f[s \ {Picked(s)}] = 0
    BY <1>2 DEF Picked
  <2>2. f[s] = v[Picked(s)] + f[s \ {Picked(s)}]
    BY <1>2 DEF SumStep
  <2> QED
    BY <2>1, <2>2
<1>3. SUBSET T \subseteq X
  <2> HIDE DEF X
  <2> QED
    BY <1>1, <1>2, OverSubsets
<1> QED
  BY <1>3

SumOf(v, T, f) == v \in [T -> Int] /\ \A s \in SUBSET T : SumStep(v, f, s)
DifferAt(v, w, T, t) == t \in T /\ \A x \in T : x # t => w[x] = v[x]

(* Sums of functions that differ in one place.                              *)
LEMMA SumsDifferAt ==
  ASSUME NEW T, IsFiniteSet(T), NEW t, NEW v, NEW w, DifferAt(v, w, T, t),
         NEW f, SumOf(v, T, f), NEW g, SumOf(w, T, g)
  PROVE  f[T] \in Int /\ g[T] = f[T] + (w[t] - v[t])
<1>1. /\ t \in T /\ v \in [T -> Int] /\ w \in [T -> Int] /\ \A x \in T : x # t => w[x] = v[x]
  BY DEF DifferAt, SumOf
<1>2. /\ \A s \in SUBSET T : SumStep(v, f, s)
      /\ \A s \in SUBSET T : SumStep(w, g, s)
  BY DEF SumOf
<1> QED
  BY <1>1, <1>2, SumsDiffer

(* A running total acc of v over an interval, and the sum f of v there.     *)
SumsUp(a, b, v, acc, f) ==
  /\ a \in Nat /\ b \in Nat /\ a <= b
  /\ v \in [a + 1 .. b -> Int]
  /\ \A n \in a .. b : acc[n] \in Int
  /\ \A n \in a + 1 .. b : acc[n] = acc[n - 1] + v[n]
  /\ \A s \in SUBSET (a + 1 .. b) : SumStep(v, f, s)

(* The sum is the difference of the running total at the ends.              *)
LEMMA SumIs ==
  ASSUME NEW a, NEW b, NEW v, NEW acc, NEW f, SumsUp(a, b, v, acc, f)
  PROVE  f[a + 1 .. b] = acc[b] - acc[a]
<1> SUFFICES ASSUME a \in Nat, b \in Nat, a <= b, v \in [a + 1 .. b -> Int],
                    \A n \in a .. b : acc[n] \in Int,
                    \A n \in a + 1 .. b : acc[n] = acc[n - 1] + v[n],
                    \A s \in SUBSET (a + 1 .. b) : SumStep(v, f, s)
             PROVE  f[a + 1 .. b] = acc[b] - acc[a]
  BY Zenon DEF SumsUp
<1> DEFINE T == a + 1 .. b
           W(k) == [n \in T |-> IF n <= a + k THEN v[n] ELSE 0]
           X == {k \in 0 .. b - a : \A g : (\A s \in SUBSET T : SumStep(W(k), g, s)) => g[T] = acc[a + k] - acc[a]}
<1>1. IsFiniteSet(T) /\ b - a \in Nat
  BY FS_Interval
<1>2. 0 \in X
  <2> SUFFICES ASSUME NEW g, \A s \in SUBSET T : SumStep(W(0), g, s) PROVE g[T] = 0
    <3>1. acc[a + 0] - acc[a] = 0
      OBVIOUS
    <3> HIDE DEF W, T
    <3> QED
      BY <1>1, <3>1
  <2>1. \A x \in T : W(0)[x] = 0
    OBVIOUS
  <2> HIDE DEF W, T
  <2> QED
    BY <1>1, <2>1, ZeroSum
<1>3. ASSUME NEW k \in 1 .. b - a, k - 1 \in X PROVE k \in X
  <2> SUFFICES ASSUME NEW g, \A s \in SUBSET T : SumStep(W(k), g, s) PROVE g[T] = acc[a + k] - acc[a]
    <3> HIDE DEF W, T
    <3> QED
      BY <1>1
  <2>1. PICK h : \A s \in SUBSET T : SumStep(W(k - 1), h, s)
    <3> HIDE DEF W, T
    <3> QED
      BY <1>1, SumExists
  <2>2. h[T] = acc[a + (k - 1)] - acc[a] /\ a + (k - 1) = (a + k) - 1
    <3> HIDE DEF W, T
    <3> QED
      BY <1>3, <2>1
  <2> DEFINE t == a + k
  <2>3. t \in T /\ t - 1 \in a .. b /\ a + (k - 1) = t - 1 /\ t \in a .. b /\ a \in a .. b
    OBVIOUS
  <2>4. /\ W(k) \in [T -> Int] /\ W(k - 1) \in [T -> Int]
        /\ \A x \in T : x # t => W(k)[x] = W(k - 1)[x]
        /\ W(k)[t] = v[t] /\ W(k - 1)[t] = 0
    OBVIOUS
  <2> HIDE DEF W
  <2>5. h[T] \in Int /\ g[T] = h[T] + (W(k)[t] - W(k - 1)[t])
    <3> DEFINE v0 == W(k - 1)
               w0 == W(k)
    <3>1. DifferAt(v0, w0, T, t) /\ SumOf(v0, T, h) /\ SumOf(w0, T, g)
      BY <2>1, <2>3, <2>4 DEF DifferAt, SumOf
    <3> HIDE DEF T, t, v0, w0
    <3>2. IsFiniteSet(T)
      BY <1>1
    <3>3. h[T] \in Int /\ g[T] = h[T] + (w0[t] - v0[t])
      BY <3>1, <3>2, SumsDifferAt
    <3> QED
      BY <3>3 DEF v0, w0
  <2>6. acc[t] = acc[t - 1] + v[t] /\ acc[t - 1] \in Int /\ acc[a] \in Int /\ acc[t] \in Int
    BY <2>3
  <2>7. v[t] \in Int
    BY <2>3
  <2> HIDE DEF t
  <2>8. g[T] = acc[t] - acc[a]
    <3> HIDE DEF T
    <3> DEFINE new == g[T]
               old == h[T]
               x == W(k)[t]
               y == W(k - 1)[t]
               z == v[t]
               p == acc[t - 1]
               q == acc[t]
               r == acc[a]
    <3>1. old = p - r
      BY <2>2, Zenon DEF t
    <3>2. x = z /\ y = 0 /\ old \in Int /\ new = old + (x - y)
      BY <2>4, <2>5, Zenon
    <3>3. q = p + z /\ z \in Int /\ p \in Int /\ q \in Int /\ r \in Int
      BY <2>6, <2>7, Zenon
    <3> HIDE DEF new, old, x, y, z, p, q, r
    <3>4. new = q - r
      BY <3>1, <3>2, <3>3
    <3> QED
      BY <3>4, Zenon DEF new, q, r
  <2> QED
    BY <2>8 DEF t
<1>4. b - a \in X
  <2>1. 0 .. b - a \subseteq X
    <3> HIDE DEF X
    <3> QED
      BY <1>1, <1>2, <1>3, UpTo
  <2> HIDE DEF X
  <2> QED
    BY <1>1, <2>1
<1>5. W(b - a) = v /\ a + (b - a) = b
  OBVIOUS
<1> HIDE DEF W
<1> QED
  BY <1>4, <1>5

(* Totals of fractions.                                                     *)
LEMMA TotalIs ==
  ASSUME NEW p, Len(p) \in Nat, NEW t, t = [n \in 0 .. Len(p) |-> t[n]],
         t[0] = Whole(0), \A n \in 1 .. Len(p) : t[n] = Plus(t[n - 1], p[n])
  PROVE  Total(p) = t[Len(p)]
<1> DEFINE N == Len(p)
           F(g) == [n \in 0 .. N |-> IF n = 0 THEN Whole(0) ELSE Plus(g[n - 1], p[n])]
           upTo == CHOOSE g : g = F(g)
<1>1. Total(p) = upTo[N]
  BY SMT DEF Total
<1>2. t = F(t)
  <2>1. \A n \in 0 .. N : F(t)[n] = t[n]
    OBVIOUS
  <2>2. F(t) = [n \in 0 .. N |-> F(t)[n]]
    OBVIOUS
  <2> HIDE DEF F
  <2> QED
    BY <2>1, <2>2
<1>3. upTo = F(upTo)
  <2> HIDE DEF F
  <2> QED
    BY <1>2, Zenon
<1> HIDE DEF upTo
<1>4. upTo[0] = Whole(0) /\ \A n \in 1 .. N : upTo[n] = Plus(upTo[n - 1], p[n])
  <2>1. F(upTo)[0] = Whole(0) /\ \A n \in 1 .. N : F(upTo)[n] = Plus(upTo[n - 1], p[n])
    OBVIOUS
  <2> HIDE DEF F
  <2> QED
    BY <1>3, <2>1
<1> HIDE DEF F, N
<1> DEFINE X == {n \in 0 .. N : upTo[n] = t[n]}
<1>5. N \in Nat
  BY DEF N
<1>6. 0 .. N \subseteq X
  <2>1. 0 \in X
    BY <1>4, <1>5
  <2>2. ASSUME NEW n \in 1 .. N, n - 1 \in X PROVE n \in X
    <3>1. n \in 0 .. N /\ n - 1 \in 0 .. N /\ upTo[n - 1] = t[n - 1]
      BY <2>2
    <3>2. upTo[n] = t[n]
      BY <1>4, <3>1, Zenon DEF N
    <3> QED
      BY <3>1, <3>2
  <2> HIDE DEF X
  <2> QED
    BY <1>5, <2>1, <2>2, UpTo
<1> QED
  BY <1>1, <1>5, <1>6 DEF N

(* A total is the last of its running totals, and a fraction.               *)
LEMMA TotalRuns ==
  ASSUME NEW p \in Seq(Fractions)
  PROVE  \E t :
           /\ t = [n \in 0 .. Len(p) |-> t[n]] /\ \A n \in 0 .. Len(p) : t[n] \in Fractions
           /\ t[0] = Whole(0) /\ \A n \in 1 .. Len(p) : t[n] = Plus(t[n - 1], p[n])
           /\ Total(p) = t[Len(p)]
<1> DEFINE N == Len(p)
           step == [q \in (1 .. N) \X Fractions |-> Plus(q[2], p[q[1]])]
<1>1. N \in Nat /\ \A n \in 1 .. N : p[n] \in Fractions
  BY LenProperties, ElementOfSeq
<1> HIDE DEF N
<1>2. \A n \in 1 .. N, x \in Fractions : step[<<n, x>>] = Plus(x, p[n])
  OBVIOUS
<1> HIDE DEF step
<1>3. PICK t : Chain(t, Fractions, N, Whole(0), step)
  <2>1. Whole(0) \in Fractions /\ \A n \in 1 .. N, x \in Fractions : step[<<n, x>>] \in Fractions
    BY <1>1, <1>2, FractionTypes
  <2>2. StaysIn(Fractions, N, Whole(0), step)
    BY <2>1 DEF StaysIn
  <2> QED
    BY <1>1, <2>2, TypedChain
<1>4. \A n \in 1 .. N : t[n] = Plus(t[n - 1], p[n])
  <2> SUFFICES ASSUME NEW n \in 1 .. N PROVE t[n] = Plus(t[n - 1], p[n])
    OBVIOUS
  <2>1. n - 1 \in 0 .. N
    BY <1>1
  <2>2. t[n - 1] \in Fractions /\ t[n] = step[<<n, t[n - 1]>>]
    BY <1>3, <2>1, Zenon DEF Chain
  <2> QED
    BY <1>2, <2>2
<1>5. Total(p) = t[N]
  BY <1>1, <1>3, <1>4, TotalIs DEF N, Chain
<1> QED
  BY <1>3, <1>4, <1>5 DEF N, Chain

(* Laws.                                                                    *)
LEMMA MinusIs ==
  ASSUME NEW x \in Fractions, NEW y \in Fractions, NEW z \in Fractions, Plus(x, z) = y
  PROVE  Minus(y, z) = x
  BY PlusMinus

(* The middle terms of a sum of sums may be swapped.                        *)
LEMMA PlusSwaps ==
  ASSUME NEW w \in Fractions, NEW x \in Fractions, NEW y \in Fractions, NEW z \in Fractions
  PROVE  Plus(Plus(w, x), Plus(y, z)) = Plus(Plus(w, y), Plus(x, z))
<1>1. Plus(x, Plus(y, z)) = Plus(y, Plus(x, z))
  <2>1. Plus(x, Plus(y, z)) = Plus(Plus(x, y), z) /\ Plus(Plus(y, x), z) = Plus(y, Plus(x, z))
        /\ Plus(x, y) = Plus(y, x)
    BY PlusAssociates, PlusCommutes
  <2> QED
    BY <2>1, Zenon
<1>2. Plus(y, z) \in Fractions /\ Plus(x, z) \in Fractions
  BY FractionTypes
<1>3. /\ Plus(Plus(w, x), Plus(y, z)) = Plus(w, Plus(x, Plus(y, z)))
      /\ Plus(Plus(w, y), Plus(x, z)) = Plus(w, Plus(y, Plus(x, z)))
  BY <1>2, PlusAssociates
<1> QED
  BY <1>1, <1>3, Zenon

(* A cost taken off in two parts.                                           *)
LEMMA MinusTwice ==
  ASSUME NEW r \in Fractions, NEW c \in Fractions, NEW w \in Fractions
  PROVE  Minus(r, Plus(c, w)) = Minus(Minus(r, c), w)
<1> DEFINE x == Minus(Minus(r, c), w)
<1>1. Minus(r, c) \in Fractions /\ x \in Fractions /\ Plus(c, w) \in Fractions
  BY FractionTypes
<1>2. Plus(x, w) = Minus(r, c) /\ Plus(Minus(r, c), c) = r
  BY <1>1, MinusPlus
<1> HIDE DEF x
<1>3. Plus(x, Plus(c, w)) = r
  <2>1. Plus(c, w) = Plus(w, c) /\ Plus(x, Plus(w, c)) = Plus(Plus(x, w), c)
    BY <1>1, PlusAssociates, PlusCommutes
  <2> QED
    BY <1>2, <2>1, Zenon
<1>4. Minus(r, Plus(c, w)) = x
  BY <1>1, <1>3, MinusIs
<1> QED
  BY <1>4 DEF x

(* What is realized of a cost that is partly sold for v.                    *)
LEMMA PartlySold ==
  ASSUME NEW r \in Fractions, NEW v \in Fractions, NEW s \in Fractions, NEW l \in Fractions
  PROVE  Minus(Plus(r, Minus(v, s)), l) = Plus(Minus(r, Plus(s, l)), v)
<1> DEFINE m == Minus(r, Plus(s, l))
           w == Minus(v, s)
<1>1. m \in Fractions /\ w \in Fractions /\ Plus(s, l) \in Fractions
  BY FractionTypes
<1>2. Plus(m, Plus(s, l)) = r /\ Plus(w, s) = v
  BY <1>1, MinusPlus
<1> HIDE DEF m, w
<1>3. Plus(m, v) \in Fractions /\ Plus(r, w) \in Fractions /\ Plus(v, l) \in Fractions
  BY <1>1, FractionTypes
<1>4. Plus(Plus(m, v), l) = Plus(r, w)
  <2>1. Plus(Plus(m, v), l) = Plus(m, Plus(v, l))
    BY <1>1, PlusAssociates
  <2>2. Plus(v, l) = Plus(w, Plus(s, l))
    <3>1. Plus(Plus(w, s), l) = Plus(w, Plus(s, l))
      BY <1>1, PlusAssociates
    <3> QED
      BY <1>2, <3>1, Zenon
  <2>3. Plus(w, Plus(s, l)) = Plus(Plus(s, l), w) /\ Plus(m, Plus(Plus(s, l), w)) = Plus(Plus(m, Plus(s, l)), w)
    BY <1>1, PlusAssociates, PlusCommutes
  <2> QED
    BY <1>2, <2>1, <2>2, <2>3, Zenon
<1>5. Minus(Plus(r, w), l) = Plus(m, v)
  BY <1>3, <1>4, MinusIs
<1> QED
  BY <1>5 DEF m, w
-----------------------------------------------------------------------------
(* The position after each fill, as the ledger derives it.                  *)
LEMMA PositionIs ==
  ASSUME ReportInv, NEW pos, NEW flow, AddUp(pos, flow)
  PROVE  /\ \A n \in 0 .. Len(fills) : PositionAfter[n] = pos[n] /\ pos[n] \in Nat
         /\ \A n \in 1 .. Len(fills) : SignedQuantity(n) = fills[n].signed
<1> DEFINE N == Len(fills)
           F(g) == [n \in 0 .. Len(fills) |-> IF n = 0 THEN 0 ELSE g[n - 1] + fills[n].signed]
<1>1. /\ N \in Nat /\ DOMAIN fills = 1 .. N /\ \A n \in 1 .. N : fills[n].signed \in Int
      /\ pos \in [0 .. N -> Nat] /\ pos[0] = 0 /\ \A n \in 1 .. N : pos[n] = pos[n - 1] + fills[n].signed
  <2>1. N \in Nat /\ DOMAIN fills = 1 .. N
    BY ReportFacts DEF ReportInv
  <2>2. \A n \in 1 .. N : fills[n] \in Fill
    BY <2>1, ElementOfSeq DEF ReportInv, ReportTyped
  <2> QED
    BY <2>1, <2>2 DEF Fill, AddUp
<1>2. pos = F(pos)
  <2>1. \A n \in 0 .. N : F(pos)[n] = pos[n]
    BY <1>1
  <2>2. F(pos) = [n \in 0 .. N |-> F(pos)[n]] /\ pos = [n \in 0 .. N |-> pos[n]]
    BY <1>1
  <2> HIDE DEF F
  <2> QED
    BY <2>1, <2>2
<1>3. PositionAfter = F(PositionAfter)
  <2>1. PositionAfter = CHOOSE g : g = F(g)
    BY Zenon DEF PositionAfter
  <2> HIDE DEF F
  <2> QED
    BY <1>2, <2>1, Zenon
<1>4. PositionAfter[0] = 0 /\ \A n \in 1 .. N : PositionAfter[n] = PositionAfter[n - 1] + fills[n].signed
  <2>1. F(PositionAfter)[0] = 0 /\ \A n \in 1 .. N : F(PositionAfter)[n] = PositionAfter[n - 1] + fills[n].signed
    BY <1>1
  <2> HIDE DEF F
  <2> QED
    BY <1>3, <2>1
<1> HIDE DEF F, N
<1> DEFINE X == {n \in 0 .. N : PositionAfter[n] = pos[n]}
<1>5. 0 .. N \subseteq X
  <2>1. 0 \in X
    BY <1>1, <1>4
  <2>2. ASSUME NEW n \in 1 .. N, n - 1 \in X PROVE n \in X
    <3>1. n \in 0 .. N /\ n - 1 \in 0 .. N /\ PositionAfter[n - 1] = pos[n - 1]
      BY <2>2
    <3>2. PositionAfter[n] = pos[n]
      BY <1>1, <1>4, <3>1, Zenon
    <3> QED
      BY <3>1, <3>2
  <2> HIDE DEF X
  <2> QED
    BY <1>1, <2>1, <2>2, UpTo
<1>6. \A n \in 0 .. N : PositionAfter[n] = pos[n] /\ pos[n] \in Nat
  BY <1>1, <1>5
<1>7. \A n \in 1 .. N : SignedQuantity(n) = fills[n].signed
  <2> SUFFICES ASSUME NEW n \in 1 .. N PROVE SignedQuantity(n) = fills[n].signed
    OBVIOUS
  <2>1. n - 1 \in 0 .. N
    BY <1>1
  <2>2. PositionAfter[n] = PositionAfter[n - 1] + fills[n].signed /\ PositionAfter[n - 1] \in Nat
    BY <1>4, <1>6, <2>1
  <2> QED
    BY <1>1, <2>2 DEF SignedQuantity
<1> QED
  BY <1>6, <1>7 DEF N

(* The recursion of the ledger has a solution, and so the ledger follows it.*)
NextEpisode(e, n) == IF SignedQuantity(n) > 0 THEN Bought(e, n) ELSE Sold(e, n)
EpisodeStep(f, n) == f[n] = IF n = 0 THEN NoEpisode ELSE NextEpisode(f[n - 1], n)

(* The recursion of the ledger has a solution,                              *)
LEMMA EpisodesExist ==
  ASSUME NEW N \in Nat
  PROVE  \E f : f = [n \in 0 .. N |-> f[n]] /\ \A n \in 0 .. N : EpisodeStep(f, n)
<1> DEFINE P(k) == \E f : /\ f = [n \in 0 .. N |-> f[n]]
                          /\ \A n \in 0 .. k : EpisodeStep(f, n)
           X == {k \in 0 .. N : P(k)}
<1>1. 0 \in X
  <2> DEFINE f == [n \in 0 .. N |-> NoEpisode]
  <2>1. f = [n \in 0 .. N |-> f[n]]
    OBVIOUS
  <2>2. f[0] = NoEpisode
    OBVIOUS
  <2> HIDE DEF f
  <2>3. \A n \in 0 .. 0 : EpisodeStep(f, n)
    BY <2>2 DEF EpisodeStep
  <2> QED
    BY <2>1, <2>3
<1>2. ASSUME NEW k \in 1 .. N, k - 1 \in X PROVE k \in X
  <2>1. PICK g : /\ g = [n \in 0 .. N |-> g[n]]
                 /\ \A n \in 0 .. k - 1 : EpisodeStep(g, n)
    BY <1>2
  <2> DEFINE e == NextEpisode(g[k - 1], k)
             f == [n \in 0 .. N |-> IF n = k THEN e ELSE g[n]]
  <2>2. f = [n \in 0 .. N |-> f[n]]
    OBVIOUS
  <2>3. f[k] = e /\ \A n \in 0 .. k - 1 : f[n] = g[n]
    <3> HIDE DEF e
    <3> QED
      OBVIOUS
  <2> HIDE DEF f, e
  <2>4. ASSUME NEW n \in 0 .. k PROVE EpisodeStep(f, n)
    <3>1. CASE n = k
      <4>1. f[k - 1] = g[k - 1] /\ k # 0
        BY <2>3
      <4> QED
        BY <2>3, <3>1, <4>1 DEF EpisodeStep, e
    <3>2. CASE n # k
      <4>1. n \in 0 .. k - 1 /\ (n # 0 => n - 1 \in 0 .. k - 1)
        BY <3>2
      <4>2. f[n] = g[n] /\ (n # 0 => f[n - 1] = g[n - 1])
        BY <2>3, <4>1
      <4> QED
        BY <2>1, <4>1, <4>2 DEF EpisodeStep
    <3> QED
      BY <3>1, <3>2
  <2>5. P(k)
    BY <2>2, <2>4
  <2> HIDE DEF P
  <2> QED
    BY <2>5
<1>3. 0 .. N \subseteq X
  <2> HIDE DEF X
  <2> QED
    BY <1>1, <1>2, UpTo
<1>4. P(N)
  <2>1. N \in X
    <3> HIDE DEF X
    <3> QED
      BY <1>3
  <2> HIDE DEF P
  <2> QED
    BY <2>1
<1> QED
  BY <1>4

(* and so the ledger follows it.                                            *)
LEMMA LedgerFollows ==
  ASSUME ReportInv
  PROVE  /\ LedgerAfter[0] = NoEpisode
         /\ \A n \in 1 .. Len(fills) : LedgerAfter[n] = NextEpisode(LedgerAfter[n - 1], n)
<1> DEFINE N == Len(fills)
           F(g) == [n \in 0 .. Len(fills) |->
                      IF n = 0 THEN NoEpisode
                      ELSE IF SignedQuantity(n) > 0 THEN Bought(g[n - 1], n) ELSE Sold(g[n - 1], n)]
           after == CHOOSE g : g = F(g)
<1>1. LedgerAfter = after
  BY Zenon DEF LedgerAfter
<1>2. N \in Nat
  BY ReportFacts DEF ReportInv
<1>3. \A g : \A n \in 0 .. N : F(g)[n] = IF n = 0 THEN NoEpisode ELSE NextEpisode(g[n - 1], n)
  BY Zenon DEF NextEpisode
<1>4. \A g : F(g) = [n \in 0 .. N |-> F(g)[n]]
  BY Zenon
<1> HIDE DEF F
<1>5. PICK f : f = F(f)
  <2>1. PICK f : f = [n \in 0 .. N |-> f[n]] /\ \A n \in 0 .. N : EpisodeStep(f, n)
    <3> HIDE DEF N
    <3> QED
      BY <1>2, EpisodesExist
  <2>2. \A n \in 0 .. N : F(f)[n] = f[n]
    BY <1>3, <2>1 DEF EpisodeStep
  <2>3. f = F(f)
    BY <1>4, <2>1, <2>2
  <2> QED
    BY <2>3
<1>6. after = F(after)
  BY <1>5, Zenon
<1> HIDE DEF after, N
<1>7. \A n \in 0 .. N : after[n] = IF n = 0 THEN NoEpisode ELSE NextEpisode(after[n - 1], n)
  BY <1>3, <1>6
<1>8. 0 \in 0 .. N /\ \A n \in 1 .. N : n \in 0 .. N /\ n # 0
  BY <1>2
<1>9. after[0] = NoEpisode /\ \A n \in 1 .. N : after[n] = NextEpisode(after[n - 1], n)
  BY <1>7, <1>8, Zenon
<1> QED
  BY <1>1, <1>9 DEF N
-----------------------------------------------------------------------------
(* Rounds: how often the position has been flat after a fill, and since     *)
(* which fill it has not been flat (0 is the start).                        *)
Rounds(N, pos, count, since) ==
  /\ \A n \in 0 .. N : count[n] \in Nat /\ since[n] \in 0 .. n
  /\ count[0] = 0 /\ since[0] = 0
  /\ \A n \in 1 .. N : IF pos[n] = 0 THEN count[n] = count[n - 1] + 1 /\ since[n] = n
                       ELSE count[n] = count[n - 1] /\ since[n] = since[n - 1]

(* They can be counted for any positions.                                   *)
LEMMA RoundsExist ==
  ASSUME NEW N \in Nat, NEW pos
  PROVE  \E count, since : Rounds(N, pos, count, since)
<1> DEFINE one == [q \in (1 .. N) \X Nat |-> IF pos[q[1]] = 0 THEN q[2] + 1 ELSE q[2]]
           two == [q \in (1 .. N) \X Nat |-> IF pos[q[1]] = 0 THEN q[1] ELSE q[2]]
<1>1. \A n \in 1 .. N, x \in Nat : one[<<n, x>>] = IF pos[n] = 0 THEN x + 1 ELSE x
  OBVIOUS
<1>2. \A n \in 1 .. N, x \in Nat : two[<<n, x>>] = IF pos[n] = 0 THEN n ELSE x
  OBVIOUS
<1> HIDE DEF one, two
<1>3. StaysIn(Nat, N, 0, one) /\ StaysIn(Nat, N, 0, two)
  BY <1>1, <1>2 DEF StaysIn
<1>4. PICK count : Chain(count, Nat, N, 0, one)
  BY <1>3, TypedChain
<1>5. PICK since : Chain(since, Nat, N, 0, two)
  BY <1>3, TypedChain
<1>6. /\ \A n \in 0 .. N : count[n] \in Nat /\ since[n] \in Nat
      /\ count[0] = 0 /\ since[0] = 0
      /\ \A n \in 1 .. N : count[n] = one[<<n, count[n - 1]>>] /\ since[n] = two[<<n, since[n - 1]>>]
  BY <1>4, <1>5, Zenon DEF Chain
<1>7. \A n \in 1 .. N : IF pos[n] = 0 THEN count[n] = count[n - 1] + 1 /\ since[n] = n
                        ELSE count[n] = count[n - 1] /\ since[n] = since[n - 1]
  <2> SUFFICES ASSUME NEW n \in 1 .. N
               PROVE  IF pos[n] = 0 THEN count[n] = count[n - 1] + 1 /\ since[n] = n
                      ELSE count[n] = count[n - 1] /\ since[n] = since[n - 1]
    OBVIOUS
  <2>1. n - 1 \in 0 .. N
    OBVIOUS
  <2>2. count[n - 1] \in Nat /\ since[n - 1] \in Nat
    BY <1>6, <2>1
  <2>3. /\ count[n] = IF pos[n] = 0 THEN count[n - 1] + 1 ELSE count[n - 1]
        /\ since[n] = IF pos[n] = 0 THEN n ELSE since[n - 1]
    <3>1. count[n] = one[<<n, count[n - 1]>>] /\ since[n] = two[<<n, since[n - 1]>>]
      BY <1>6, Zenon
    <3> DEFINE x == count[n - 1]
               y == since[n - 1]
    <3> HIDE DEF x, y
    <3>2. one[<<n, x>>] = IF pos[n] = 0 THEN x + 1 ELSE x
      BY <1>1, <2>2 DEF x
    <3>3. two[<<n, y>>] = IF pos[n] = 0 THEN n ELSE y
      BY <1>2, <2>2 DEF y
    <3> QED
      BY <3>1, <3>2, <3>3, Zenon DEF x, y
  <2> QED
    BY <2>3, Zenon
<1> DEFINE X == {n \in 0 .. N : since[n] \in 0 .. n}
<1>8. 0 .. N \subseteq X
  <2>1. 0 \in X
    BY <1>6
  <2>2. ASSUME NEW n \in 1 .. N, n - 1 \in X PROVE n \in X
    BY <1>7, <2>2
  <2> HIDE DEF X
  <2> QED
    BY <2>1, <2>2, UpTo
<1>9. \A n \in 0 .. N : since[n] \in 0 .. n
  BY <1>8
<1>10. Rounds(N, pos, count, since)
  BY <1>6, <1>7, <1>9 DEF Rounds
<1> QED
  BY <1>10

(* The last time it was flat, and how many times that was.                  *)
RoundIs(pos, count, since, n) ==
  /\ pos[since[n]] = 0 /\ count[since[n]] = count[n]
  /\ pos[n] = 0 => since[n] = n
  /\ \A m \in 0 .. n : pos[m] = 0 => m <= since[n]
  /\ count[n] = 0 <=> since[n] = 0
  /\ \A m \in 0 .. n : count[m] <= count[n]
  /\ Cardinality({m \in 1 .. n : pos[m] = 0}) = count[n]

(* A count and its last fill say that, whatever the positions.              *)
LEMMA RoundFacts ==
  ASSUME NEW N \in Nat, NEW pos, NEW count, NEW since, Rounds(N, pos, count, since), pos[0] = 0
  PROVE  \A n \in 0 .. N : RoundIs(pos, count, since, n)
<1> DEFINE flat(n) == {m \in 1 .. n : pos[m] = 0}
           P(n) == /\ pos[since[n]] = 0 /\ count[since[n]] = count[n]
                   /\ pos[n] = 0 => since[n] = n
                   /\ \A m \in 0 .. n : pos[m] = 0 => m <= since[n]
                   /\ count[n] = 0 <=> since[n] = 0
                   /\ \A m \in 0 .. n : count[m] <= count[n]
           C(n) == Cardinality(flat(n)) = count[n]
           X == {n \in 0 .. N : P(n) /\ C(n)}
<1>1. /\ \A n \in 0 .. N : count[n] \in Nat /\ since[n] \in 0 .. n
      /\ count[0] = 0 /\ since[0] = 0
      /\ \A n \in 1 .. N : IF pos[n] = 0 THEN count[n] = count[n - 1] + 1 /\ since[n] = n
                           ELSE count[n] = count[n - 1] /\ since[n] = since[n - 1]
  BY DEF Rounds
<1>2. 0 \in X
  <2>1. P(0)
    BY <1>1
  <2>2. flat(0) = {}
    OBVIOUS
  <2>3. C(0)
    BY <1>1, <2>2, FS_EmptySet
  <2> HIDE DEF P, C
  <2> QED
    BY <2>1, <2>3
<1>3. ASSUME NEW n \in 1 .. N, n - 1 \in X PROVE n \in X
  <2>1. n - 1 \in 0 .. N /\ n \in 0 .. N /\ P(n - 1) /\ C(n - 1)
    BY <1>3
  <2>2. flat(n) = IF pos[n] = 0 THEN flat(n - 1) \union {n} ELSE flat(n - 1)
    OBVIOUS
  <2>3. IsFiniteSet(flat(n - 1)) /\ n \notin flat(n - 1)
    <3>1. flat(n - 1) \in SUBSET (1 .. n - 1) /\ IsFiniteSet(1 .. n - 1) /\ n \notin 1 .. n - 1
      BY <2>1, FS_Interval
    <3> QED
      BY <3>1, FS_Subset
  <2>4. C(n)
    <3>1. CASE pos[n] = 0
      <4>1. Cardinality(flat(n - 1) \union {n}) = Cardinality(flat(n - 1)) + 1
        <5> HIDE DEF flat
        <5> QED
          BY <2>3, FS_AddElement
      <4>2. count[n] = count[n - 1] + 1 /\ flat(n) = flat(n - 1) \union {n}
        BY <1>1, <2>2, <3>1, Zenon
      <4> HIDE DEF flat
      <4> QED
        BY <2>1, <4>1, <4>2
    <3>2. CASE pos[n] # 0
      <4>1. count[n] = count[n - 1] /\ flat(n) = flat(n - 1)
        BY <1>1, <2>2, <3>2, Zenon
      <4> HIDE DEF flat
      <4> QED
        BY <2>1, <4>1
    <3> QED
      BY <3>1, <3>2
  <2>5. P(n)
    <3>1. \A m \in 0 .. n : m = n \/ m \in 0 .. n - 1
      BY <2>1
    <3>4. \A m \in 0 .. n : count[m] <= count[n]
      <4>1. \A m \in 0 .. n : count[m] \in Nat
        BY <1>1
      <4>2. count[n - 1] <= count[n] /\ count[n - 1] \in Nat /\ count[n] \in Nat
        BY <1>1, <2>1
      <4>3. ASSUME NEW m \in 0 .. n PROVE count[m] <= count[n]
        <5>1. m = n \/ (m \in 0 .. n - 1 /\ count[m] <= count[n - 1])
          BY <2>1, <3>1
        <5>2. count[m] \in Nat
          BY <4>1
        <5> QED
          BY <4>2, <5>1, <5>2
      <4> QED
        BY <4>3
    <3>2. CASE pos[n] = 0
      <4>1. count[n] = count[n - 1] + 1 /\ since[n] = n /\ count[n - 1] \in Nat
        BY <1>1, <2>1, <3>2
      <4>2. \A m \in 0 .. n : m <= n
        OBVIOUS
      <4>3. count[n] # 0 /\ n # 0
        BY <2>1, <4>1
      <4> QED
        BY <3>2, <3>4, <4>1, <4>2, <4>3, Zenon
    <3>3. CASE pos[n] # 0
      <4>1. count[n] = count[n - 1] /\ since[n] = since[n - 1]
        BY <1>1, <3>3, Zenon
      <4>2. \A m \in 0 .. n : pos[m] = 0 => m <= since[n]
        BY <2>1, <3>1, <3>3, <4>1
      <4> QED
        BY <2>1, <3>3, <3>4, <4>1, <4>2, Zenon
    <3> QED
      BY <3>2, <3>3
  <2> HIDE DEF P, C
  <2> QED
    BY <2>1, <2>4, <2>5
<1>4. 0 .. N \subseteq X
  <2> HIDE DEF X
  <2> QED
    BY <1>2, <1>3, UpTo
<1> QED
  BY <1>4 DEF RoundIs

(* The fill that ends each round: the inverse of the count.                 *)
Ends(N, pos, count, since, end) ==
  /\ end[0] = 0 /\ end[count[N]] = since[N]
  /\ \A i \in 0 .. count[N] : end[i] \in 0 .. N
  /\ \A i \in 1 .. count[N] :
       end[i] # 0 /\ pos[end[i]] = 0 /\ count[end[i]] = i /\ since[end[i] - 1] = end[i - 1]

(* Every round that was counted has its end.                                *)
LEMMA EndsExist ==
  ASSUME NEW N \in Nat, NEW pos, NEW count, NEW since, Rounds(N, pos, count, since)
  PROVE  \E end : Ends(N, pos, count, since, end)
<1> DEFINE X == {n \in 0 .. N : \E end : Ends(n, pos, count, since, end)}
<1>1. /\ \A n \in 0 .. N : count[n] \in Nat /\ since[n] \in 0 .. n
      /\ count[0] = 0 /\ since[0] = 0
      /\ \A n \in 1 .. N : IF pos[n] = 0 THEN count[n] = count[n - 1] + 1 /\ since[n] = n
                           ELSE count[n] = count[n - 1] /\ since[n] = since[n - 1]
  BY DEF Rounds
<1>2. 0 \in X
  <2> DEFINE end == [i \in {0} |-> 0]
  <2>1. end[0] = 0
    OBVIOUS
  <2> HIDE DEF end
  <2>2. Ends(0, pos, count, since, end)
    BY <1>1, <2>1 DEF Ends
  <2> QED
    BY <2>2
<1>3. ASSUME NEW n \in 1 .. N, n - 1 \in X PROVE n \in X
  <2>1. PICK old : Ends(n - 1, pos, count, since, old)
    BY <1>3
  <2> DEFINE c == count[n - 1]
  <2>2. n \in Nat /\ n # 0 /\ n \in 0 .. N /\ n - 1 \in 0 .. N /\ c \in Nat
    BY <1>1
  <2>3. /\ old[0] = 0 /\ old[c] = since[n - 1]
        /\ \A i \in 0 .. c : old[i] \in 0 .. n - 1
        /\ \A i \in 1 .. c :
             old[i] # 0 /\ pos[old[i]] = 0 /\ count[old[i]] = i /\ since[old[i] - 1] = old[i - 1]
    BY <2>1 DEF Ends
  <2>4. CASE pos[n] # 0
    <3>1. count[n] = c /\ since[n] = since[n - 1]
      BY <1>1, <2>4, Zenon
    <3>2. \A i \in 0 .. c : old[i] \in 0 .. n
      BY <2>2, <2>3
    <3>3. Ends(n, pos, count, since, old)
      BY <2>3, <3>1, <3>2, Zenon DEF Ends
    <3> QED
      BY <2>2, <3>3
  <2>5. CASE pos[n] = 0
    <3>1. count[n] = c + 1 /\ since[n] = n
      BY <1>1, <2>5, Zenon
    <3> DEFINE end == [i \in 0 .. c + 1 |-> IF i = c + 1 THEN n ELSE old[i]]
    <3>2. end[c + 1] = n /\ \A i \in 0 .. c : end[i] = old[i]
      <4>1. c + 1 \in 0 .. c + 1 /\ \A i \in 0 .. c : i \in 0 .. c + 1 /\ i # c + 1
        BY <2>2
      <4> QED
        BY <4>1, Zenon
    <3> HIDE DEF end, c
    <3>3. end[0] = 0 /\ \A i \in 0 .. c + 1 : end[i] \in 0 .. n
      <4>1. 0 \in 0 .. c /\ \A i \in 0 .. c + 1 : i = c + 1 \/ i \in 0 .. c
        BY <2>2
      <4>2. n \in 0 .. n /\ \A x \in 0 .. n - 1 : x \in 0 .. n
        BY <2>2
      <4> QED
        BY <2>3, <3>2, <4>1, <4>2, Zenon
    <3>4. ASSUME NEW i \in 1 .. c + 1
          PROVE  end[i] # 0 /\ pos[end[i]] = 0 /\ count[end[i]] = i /\ since[end[i] - 1] = end[i - 1]
      <4>1. CASE i = c + 1
        <5>1. i - 1 = c /\ c \in 0 .. c
          BY <2>2, <4>1
        <5>2. end[i] = n /\ end[i - 1] = old[c]
          BY <3>2, <4>1, <5>1, Zenon
        <5> QED
          BY <2>2, <2>3, <2>5, <3>1, <4>1, <5>2, Zenon
      <4>2. CASE i # c + 1
        <5>1. i \in 1 .. c /\ i \in 0 .. c /\ i - 1 \in 0 .. c
          BY <2>2, <4>2
        <5>2. end[i] = old[i] /\ end[i - 1] = old[i - 1]
          BY <3>2, <5>1, Zenon
        <5> QED
          BY <2>3, <5>1, <5>2, Zenon
      <4> QED
        BY <4>1, <4>2
    <3>5. Ends(n, pos, count, since, end)
      BY <3>1, <3>2, <3>3, <3>4, Zenon DEF Ends
    <3> QED
      BY <2>2, <3>5
  <2> QED
    BY <2>4, <2>5
<1>4. 0 .. N \subseteq X
  <2> HIDE DEF X
  <2> QED
    BY <1>2, <1>3, UpTo
<1> QED
  BY <1>4
-----------------------------------------------------------------------------
(* What a purchase and a sale do to what is realized above the cost.        *)
Above(r, c, a) == r \in Fractions /\ c \in Fractions /\ a \in Int /\ Minus(r, c) = Whole(a)

(* A purchase for w takes w off.                                            *)
LEMMA BoughtAbove ==
  ASSUME NEW r, NEW c, NEW a, NEW w \in Int, Above(r, c, a)
  PROVE  Above(r, Plus(c, Whole(w)), a - w)
<1> USE DEF Above
<1>1. Whole(w) \in Fractions /\ Plus(c, Whole(w)) \in Fractions
  BY FractionTypes
<1>2. Minus(r, Plus(c, Whole(w))) = Minus(Whole(a), Whole(w))
  BY <1>1, MinusTwice
<1> QED
  BY <1>1, <1>2, WholeLaws

(* A sale for v of k out of k + l shares adds v, whatever they cost.        *)
LEMMA SoldAbove ==
  ASSUME NEW r, NEW c, NEW a, NEW v \in Int, Above(r, c, a),
         NEW k \in Int, NEW l \in Int, k + l \in Nat \ {0}
  PROVE  LET gain == Minus(Whole(v), Times(c, k, k + l))
             left == Times(c, l, k + l)
         IN gain \in Fractions /\ Above(Plus(r, gain), left, a + v)
<1> USE DEF Above
<1> DEFINE s == Times(c, k, k + l)
           left == Times(c, l, k + l)
           gain == Minus(Whole(v), s)
<1>1. s \in Fractions /\ left \in Fractions /\ Whole(v) \in Fractions
  BY FractionTypes
<1>2. Plus(s, left) = c
  BY PartsOfWhole
<1> HIDE DEF s, left
<1>3. gain \in Fractions /\ Plus(r, gain) \in Fractions
  BY <1>1, FractionTypes
<1>4. Minus(Plus(r, gain), left) = Plus(Whole(a), Whole(v))
  <2>1. Minus(Plus(r, Minus(Whole(v), s)), left) = Plus(Minus(r, Plus(s, left)), Whole(v))
    BY <1>1, PartlySold
  <2> QED
    BY <1>2, <2>1, Zenon
<1>5. Plus(Whole(a), Whole(v)) = Whole(a + v)
  BY WholeLaws
<1> QED
  BY <1>1, <1>3, <1>4, <1>5 DEF s, left

(* The fills and the money they move.                                       *)
LEMMA FillFacts ==
  ASSUME RunInv, ReportInv, LedgerInv, NEW n \in 1 .. Len(fills)
  PROVE  /\ fills[n].price \in Int /\ fills[n].signed \in Int \ {0} /\ fills[n].fee \in Int
         /\ FillValue(fills[n]) \in Int /\ Flow(n) \in Int
         /\ FillValue(fills[n]) + fills[n].fee \in Int /\ FillValue(fills[n]) - fills[n].fee \in Int
         /\ fills[n].signed > 0 => Flow(n) = -(FillValue(fills[n]) + fills[n].fee)
         /\ fills[n].signed < 0 => Flow(n) = FillValue(fills[n]) - fills[n].fee
<1> DEFINE p == fills[n].price
           s == fills[n].signed
           f == fills[n].fee
<1>1. p \in Int /\ s \in Int \ {0} /\ f \in Int /\ Scale \in Nat
  <2>1. Len(fills) \in Nat /\ DOMAIN fills = 1 .. Len(fills) /\ fills[n] \in Fill
    BY ReportFacts, ElementOfSeq DEF ReportInv, ReportTyped
  <2>2. s # 0
    BY <2>1 DEF LedgerInv, FillsInOrder
  <2> QED
    BY <2>1, <2>2, BrokerAssumption DEF Fill
<1>2. FillValue(fills[n]) = p * AbsInt(s) * Scale /\ Flow(n) = -p * s * Scale - f
  BY DEF FillValue, Flow
<1> HIDE DEF p, s, f
<1>3. p * s \in Int /\ p * AbsInt(s) \in Int
  BY <1>1, SMT DEF AbsInt
<1>4. p * AbsInt(s) * Scale \in Int /\ -p * s * Scale - f \in Int
  BY <1>1, <1>3, SMT
<1>5. s > 0 => -p * s * Scale - f = -(p * AbsInt(s) * Scale + f)
  BY <1>1, <1>3, SMT DEF AbsInt
<1>6. s < 0 => -p * s * Scale - f = p * AbsInt(s) * Scale - f
  <2>1. s < 0 => -p * s = p * AbsInt(s)
    BY <1>1, SMT DEF AbsInt
  <2> QED
    BY <1>1, <2>1
<1>7. p * AbsInt(s) * Scale + f \in Int /\ p * AbsInt(s) * Scale - f \in Int
  <2> DEFINE v == p * AbsInt(s) * Scale
  <2>1. v \in Int
    BY <1>4
  <2> HIDE DEF v
  <2>2. v + f \in Int /\ v - f \in Int
    BY <1>1, <2>1
  <2> QED
    BY <2>2 DEF v
<1> QED
  BY <1>1, <1>2, <1>4, <1>5, <1>6, <1>7, Zenon DEF p, s, f

(* The days of a trade are a number.                                        *)
LEMMA HeldDays ==
  ASSUME LedgerInv, NEW entry, NEW exit
  PROVE  HoldingPeriod(entry, exit) \in Int
<1> DEFINE observed == {d \in DOMAIN snapshots : entry <= d /\ d <= exit}
<1>1. observed \in SUBSET (1 .. Len(snapshots)) /\ Len(snapshots) \in Nat
  BY SnapshotFacts
<1> HIDE DEF observed
<1>2. Cardinality(observed) \in Nat
  <2>1. IsFiniteSet(1 .. Len(snapshots))
    BY <1>1, FS_Interval
  <2>2. IsFiniteSet(observed)
    BY <1>1, <2>1, FS_Subset
  <2> QED
    BY <2>2, FS_CardinalityType
<1>3. HoldingPeriod(entry, exit) = IF observed = {} THEN 0 ELSE Cardinality(observed) - 1
  BY DEF HoldingPeriod, observed
<1> QED
  BY <1>2, <1>3

(* The session of a fill follows the bar its order was signalled on.        *)
LEMMA SessionIs ==
  ASSUME RunInv, ReportInv, LedgerInv, NEW n \in 1 .. Len(fills)
  PROVE  Session(n) = signals[n] + 1 /\ Session(n) \in Nat /\ n \in DOMAIN signals
<1>1. Len(fills) \in Nat /\ DOMAIN fills = 1 .. Len(fills) /\ fills[n].order = n
  BY ReportFacts DEF ReportInv, LedgerInv, FillsInOrder
<1>2. signals \in Seq(Nat) /\ Len(signals) = Len(orders) /\ DOMAIN signals = 1 .. Len(orders) /\ Len(orders) \in Nat
  BY BookFacts DEF RunInv, BookTyped
<1>3. Len(fills) <= Len(orders)
  <2>1. Len(fills) = Len(orders) \/ Len(fills) = Len(orders) - 1
    BY DEF ReportInv, FillPerOrder
  <2>2. Len(fills) \in Nat /\ Len(orders) \in Nat
    BY <1>1, <1>2
  <2> QED
    BY <2>1, <2>2
<1>4. n \in 1 .. Len(signals)
  BY <1>1, <1>2, <1>3
<1>5. signals[n] \in Nat
  BY <1>2, <1>4, ElementOfSeq
<1> QED
  BY <1>1, <1>2, <1>4, <1>5 DEF Session

(* The books the ledger is compared with: running totals of the shares, the *)
(* cash and the fees, and the rounds.                                       *)
Books(pos, flow, paid, count, since) ==
  /\ AddUp(pos, flow) /\ Rounds(Len(fills), pos, count, since)
  /\ \A n \in 0 .. Len(fills) : paid[n] \in Int
  /\ paid[0] = 0 /\ \A n \in 1 .. Len(fills) : paid[n] = paid[n - 1] + fills[n].fee

Trip(flow, paid, from, to) ==
  [profit |-> Whole(flow[to] - flow[from]), fees |-> paid[to] - paid[from],
   days |-> HoldingPeriod(Session(from + 1), Session(to))]

Trades == [profit : Fractions, fees : Int, days : Int]
Episodes ==
  [held : Nat, cost : Fractions, realized : Fractions, episode : Fractions, entry : Int,
   fees : Int, closed : Seq(Trades)]

(* What an episode says of the fills up to n: what is realized above the    *)
(* cost, in all and since the position was last flat, is the cash.          *)
EpisodeIs(pos, flow, paid, count, since, n, e) ==
  /\ e \in Episodes /\ e.held = pos[n]
  /\ Minus(e.realized, e.cost) = Whole(flow[n])
  /\ Minus(e.episode, e.cost) = Whole(flow[n] - flow[since[n]])
  /\ e.fees = paid[n] - paid[since[n]]
  /\ IF pos[n] = 0 THEN e.cost = Whole(0) /\ e.episode = Whole(0)
     ELSE e.entry = Session(since[n] + 1)
  /\ Len(e.closed) = count[n]
  /\ \A m \in 1 .. n : pos[m] = 0 => e.closed[count[m]] = Trip(flow, paid, since[m - 1], m)

(* Before the first fill there is nothing to say.                           *)
LEMMA FirstEpisodeIs ==
  ASSUME NEW pos, NEW flow, NEW paid, NEW count, NEW since, Books(pos, flow, paid, count, since)
  PROVE  EpisodeIs(pos, flow, paid, count, since, 0, NoEpisode)
<1>1. /\ pos[0] = 0 /\ flow[0] = 0 /\ paid[0] = 0 /\ count[0] = 0 /\ since[0] = 0
  BY DEF Books, AddUp, Rounds
<1>2. Whole(0) \in Fractions /\ Minus(Whole(0), Whole(0)) = Whole(0)
  BY FractionTypes, PlusZero
<1>3. NoEpisode \in Episodes
  BY <1>2, EmptySeq DEF NoEpisode, Episodes
<1>4. Len(<<>>) = 0
  BY EmptySeq
<1>5. 0 - 0 = 0 /\ \A m \in 1 .. 0 : FALSE
  OBVIOUS
<1> QED
  BY <1>1, <1>2, <1>3, <1>4, <1>5 DEF EpisodeIs, NoEpisode

(* Episodes, field by field. *)
Fields(h, c, r, p, y, f, l) ==
  [held |-> h, cost |-> c, realized |-> r, episode |-> p, entry |-> y, fees |-> f, closed |-> l]

(* An episode is made of its fields.                                        *)
LEMMA EpisodeParts ==
  ASSUME NEW e \in Episodes
  PROVE  /\ e = Fields(e.held, e.cost, e.realized, e.episode, e.entry, e.fees, e.closed)
         /\ e.held \in Nat /\ e.cost \in Fractions /\ e.realized \in Fractions /\ e.episode \in Fractions
         /\ e.entry \in Int /\ e.fees \in Int /\ e.closed \in Seq(Trades)
  BY DEF Episodes, Fields

(* The fields after a purchase,                                             *)
LEMMA BoughtIs ==
  ASSUME NEW e \in Episodes, NEW n
  PROVE  Bought(e, n) =
           Fields(e.held + SignedQuantity(n), Plus(e.cost, Whole(FillValue(fills[n]) + fills[n].fee)),
                  e.realized, e.episode, IF e.held = 0 THEN Session(n) ELSE e.entry,
                  e.fees + fills[n].fee, e.closed)
<1> DEFINE h == e.held + SignedQuantity(n)
           c == Plus(e.cost, Whole(FillValue(fills[n]) + fills[n].fee))
           y == IF e.held = 0 THEN Session(n) ELSE e.entry
           f == e.fees + fills[n].fee
           e1 == [e EXCEPT !.held = h]
           e2 == [e1 EXCEPT !.cost = c]
           e3 == [e2 EXCEPT !.entry = y]
           e4 == [e3 EXCEPT !.fees = f]
<1>1. Bought(e, n) = e4
  BY Zenon DEF Bought
<1>2. e = Fields(e.held, e.cost, e.realized, e.episode, e.entry, e.fees, e.closed)
  BY EpisodeParts
<1> HIDE DEF h, c, y, f
<1>3. e1 = Fields(h, e.cost, e.realized, e.episode, e.entry, e.fees, e.closed)
  BY <1>2 DEF Fields
<1> HIDE DEF e1
<1>4. e2 = Fields(h, c, e.realized, e.episode, e.entry, e.fees, e.closed)
  BY <1>3 DEF Fields
<1> HIDE DEF e2
<1>5. e3 = Fields(h, c, e.realized, e.episode, y, e.fees, e.closed)
  BY <1>4 DEF Fields
<1> HIDE DEF e3
<1>6. e4 = Fields(h, c, e.realized, e.episode, y, f, e.closed)
  BY <1>5 DEF Fields
<1> HIDE DEF e4
<1> QED
  BY <1>1, <1>6, Zenon DEF h, c, y, f

(* and after a sale.                                                        *)
LEMMA SoldIs ==
  ASSUME NEW e \in Episodes, NEW n
  PROVE  LET gain == Profit(e, fills[n])
             left == e.held + SignedQuantity(n)
         IN Sold(e, n) =
              IF left > 0
              THEN Fields(left, Times(e.cost, left, e.held), Plus(e.realized, gain), Plus(e.episode, gain),
                          e.entry, e.fees + fills[n].fee, e.closed)
              ELSE Fields(0, Whole(0), Plus(e.realized, gain), Whole(0), 0, 0,
                          Append(e.closed, Trade(e, n)))
<1> DEFINE left == e.held + SignedQuantity(n)
           gain == Profit(e, fills[n])
           c == Times(e.cost, left, e.held)
           r == Plus(e.realized, gain)
           p == Plus(e.episode, gain)
           f == e.fees + fills[n].fee
           l == Append(e.closed, Trade(e, n))
           e1 == [e EXCEPT !.held = left]
           e2 == [e1 EXCEPT !.cost = c]
           e3 == [e2 EXCEPT !.realized = r]
           e4 == [e3 EXCEPT !.episode = p]
           e5 == [e4 EXCEPT !.fees = f]
           n1 == [NoEpisode EXCEPT !.realized = e5.realized]
           n2 == [n1 EXCEPT !.closed = l]
<1>1. Sold(e, n) = IF left > 0 THEN e5 ELSE n2
  BY Zenon DEF Sold
<1>2. e = Fields(e.held, e.cost, e.realized, e.episode, e.entry, e.fees, e.closed)
  BY EpisodeParts
<1> HIDE DEF left, gain, c, r, p, f, l
<1>3. e1 = Fields(left, e.cost, e.realized, e.episode, e.entry, e.fees, e.closed)
  BY <1>2 DEF Fields
<1> HIDE DEF e1
<1>4. e2 = Fields(left, c, e.realized, e.episode, e.entry, e.fees, e.closed)
  BY <1>3 DEF Fields
<1> HIDE DEF e2
<1>5. e3 = Fields(left, c, r, e.episode, e.entry, e.fees, e.closed)
  BY <1>4 DEF Fields
<1> HIDE DEF e3
<1>6. e4 = Fields(left, c, r, p, e.entry, e.fees, e.closed)
  BY <1>5 DEF Fields
<1> HIDE DEF e4
<1>7. e5 = Fields(left, c, r, p, e.entry, f, e.closed)
  BY <1>6 DEF Fields
<1> HIDE DEF e5
<1>8. e5.realized = r
  BY <1>7 DEF Fields
<1>9. NoEpisode = Fields(0, Whole(0), Whole(0), Whole(0), 0, 0, <<>>)
  BY Zenon DEF NoEpisode, Fields
<1>10. n1 = Fields(0, Whole(0), r, Whole(0), 0, 0, <<>>)
  BY <1>8, <1>9 DEF Fields
<1> HIDE DEF n1
<1>11. n2 = Fields(0, Whole(0), r, Whole(0), 0, 0, l)
  BY <1>10 DEF Fields
<1> HIDE DEF n2
<1> QED
  BY <1>1, <1>7, <1>11, Zenon DEF left, gain, c, r, p, f, l
(* An episode made of fields. *)
LEMMA EpisodeOf ==
  ASSUME NEW h \in Nat, NEW c \in Fractions, NEW r \in Fractions, NEW p \in Fractions, NEW y \in Int,
         NEW f \in Int, NEW l \in Seq(Trades), NEW e, e = Fields(h, c, r, p, y, f, l)
  PROVE  /\ e \in Episodes
         /\ e.held = h /\ e.cost = c /\ e.realized = r /\ e.episode = p /\ e.entry = y
         /\ e.fees = f /\ e.closed = l
  BY DEF Fields, Episodes

StepOf(pos, flow, paid, count, since, n) ==
  /\ n - 1 \in 0 .. Len(fills) /\ n \in 0 .. Len(fills) /\ Len(fills) \in Nat
  /\ pos[n - 1] \in Nat /\ pos[n] \in Nat /\ pos[n] = pos[n - 1] + fills[n].signed
  /\ flow[n - 1] \in Int /\ flow[n] \in Int /\ flow[n] = flow[n - 1] + Flow(n)
  /\ paid[n - 1] \in Int /\ paid[n] \in Int /\ paid[n] = paid[n - 1] + fills[n].fee
  /\ since[n - 1] \in 0 .. n - 1 /\ since[n - 1] \in 0 .. Len(fills)
  /\ flow[since[n - 1]] \in Int /\ paid[since[n - 1]] \in Int /\ count[n - 1] \in Nat
  /\ IF pos[n] = 0 THEN count[n] = count[n - 1] + 1 /\ since[n] = n
     ELSE count[n] = count[n - 1] /\ since[n] = since[n - 1]
  /\ pos[n - 1] = 0 => since[n - 1] = n - 1

(* The books at a fill and at the one before it.                            *)
LEMMA BooksAt ==
  ASSUME ReportInv,
         NEW pos, NEW flow, NEW paid, NEW count, NEW since, Books(pos, flow, paid, count, since),
         NEW n \in 1 .. Len(fills)
  PROVE  StepOf(pos, flow, paid, count, since, n)
<1> DEFINE N == Len(fills)
<1>1. N \in Nat /\ DOMAIN fills = 1 .. N
  BY ReportFacts DEF ReportInv
<1>2. /\ pos \in [0 .. N -> Nat] /\ flow \in [0 .. N -> Int]
      /\ pos[0] = 0 /\ \A k \in DOMAIN fills : pos[k] = pos[k - 1] + fills[k].signed /\ flow[k] = flow[k - 1] + Flow(k)
      /\ \A k \in 0 .. N : paid[k] \in Int
      /\ \A k \in 1 .. N : paid[k] = paid[k - 1] + fills[k].fee
  BY Zenon DEF Books, AddUp
<1>3. Rounds(N, pos, count, since)
  BY Zenon DEF Books
<1> HIDE DEF N
<1>4. \A k \in 0 .. N : pos[k] \in Nat /\ flow[k] \in Int /\ paid[k] \in Int
  BY <1>2
<1>5. n - 1 \in 0 .. N /\ n \in 0 .. N /\ n \in 1 .. N
  BY <1>1 DEF N
<1>6. /\ \A k \in 0 .. N : count[k] \in Nat /\ since[k] \in 0 .. k
      /\ IF pos[n] = 0 THEN count[n] = count[n - 1] + 1 /\ since[n] = n
         ELSE count[n] = count[n - 1] /\ since[n] = since[n - 1]
  BY <1>3, <1>5, Zenon DEF Rounds
<1>7. since[n - 1] \in 0 .. n - 1
  BY <1>5, <1>6, Zenon
<1>8. since[n - 1] \in 0 .. N
  BY <1>1, <1>5, <1>7
<1>9. pos[n - 1] = 0 => since[n - 1] = n - 1
  <2>1. RoundIs(pos, count, since, n - 1)
    BY <1>1, <1>2, <1>3, <1>5, RoundFacts, Zenon
  <2> QED
    BY <2>1, Zenon DEF RoundIs
<1>10. pos[n] = pos[n - 1] + fills[n].signed /\ flow[n] = flow[n - 1] + Flow(n) /\ paid[n] = paid[n - 1] + fills[n].fee
  BY <1>1, <1>2, <1>5, Zenon
<1> QED
  BY <1>1, <1>4, <1>5, <1>6, <1>7, <1>8, <1>9, <1>10, Zenon DEF N, StepOf

(* A purchase does not close the round.                                     *)
LEMMA BoughtEpisode ==
  ASSUME RunInv, ReportInv, LedgerInv,
         NEW pos, NEW flow, NEW paid, NEW count, NEW since, Books(pos, flow, paid, count, since),
         NEW n \in 1 .. Len(fills), SignedQuantity(n) = fills[n].signed, fills[n].signed > 0,
         NEW e, EpisodeIs(pos, flow, paid, count, since, n - 1, e)
  PROVE  EpisodeIs(pos, flow, paid, count, since, n, Bought(e, n))
<1> DEFINE k == n - 1
           w == FillValue(fills[n]) + fills[n].fee
           c == Plus(e.cost, Whole(w))
           y == IF e.held = 0 THEN Session(n) ELSE e.entry
           b == Bought(e, n)
<1>0. pos[k] \in Nat /\ pos[n] \in Nat /\ pos[n] = pos[k] + fills[n].signed
  <2>1. StepOf(pos, flow, paid, count, since, n)
    BY BooksAt, Zenon
  <2> QED
    BY <2>1, Zenon DEF StepOf
<1>1. /\ pos[n] \in Nat /\ pos[n] = pos[k] + fills[n].signed
      /\ flow[k] \in Int /\ flow[n] \in Int /\ flow[n] = flow[k] + Flow(n)
      /\ paid[k] \in Int /\ paid[n] \in Int /\ paid[n] = paid[k] + fills[n].fee
      /\ IF pos[n] = 0 THEN count[n] = count[k] + 1 /\ since[n] = n
         ELSE count[n] = count[k] /\ since[n] = since[k]
      /\ flow[since[k]] \in Int /\ paid[since[k]] \in Int
      /\ pos[k] = 0 => since[k] = k
  <2>1. StepOf(pos, flow, paid, count, since, n)
    BY BooksAt, Zenon
  <2> QED
    BY <2>1, Zenon DEF StepOf
<1>2. w \in Int /\ fills[n].fee \in Int /\ Flow(n) = -w /\ fills[n].signed \in Int
  <2>1. /\ FillValue(fills[n]) + fills[n].fee \in Int /\ fills[n].fee \in Int
        /\ fills[n].signed \in Int \ {0} /\ Flow(n) = -(FillValue(fills[n]) + fills[n].fee)
    BY FillFacts, Zenon
  <2>2. fills[n].signed \in Int
    BY <2>1
  <2> QED
    BY <2>1, <2>2, Zenon
<1>3. pos[n] \in Nat /\ pos[n] # 0 /\ flow[n] = flow[k] - w
  <2> DEFINE x == pos[k]
             q == fills[n].signed
             a == flow[k]
  <2>1. /\ x \in Nat /\ q \in Int /\ q > 0 /\ pos[n] \in Nat /\ pos[n] = x + q
        /\ a \in Int /\ w \in Int /\ flow[n] = a + (-w)
    <3>1. x \in Nat /\ q \in Int /\ q > 0 /\ pos[n] \in Nat /\ pos[n] = x + q
      BY <1>0, <1>2, Zenon
    <3>2. flow[n] = a + Flow(n) /\ Flow(n) = -w /\ a \in Int /\ w \in Int
      BY <1>1, <1>2, Zenon
    <3> QED
      BY <3>1, <3>2, Zenon
  <2> HIDE DEF x, q, a, w
  <2>2. pos[n] # 0 /\ flow[n] = a - w
    BY <2>1
  <2> QED
    BY <2>1, <2>2 DEF a
<1>4. since[n] = since[k] /\ count[n] = count[k]
  BY <1>1, <1>3, Zenon
<1>5. /\ e \in Episodes /\ e.held = pos[k]
      /\ Minus(e.realized, e.cost) = Whole(flow[k])
      /\ Minus(e.episode, e.cost) = Whole(flow[k] - flow[since[k]])
      /\ e.fees = paid[k] - paid[since[k]]
      /\ pos[k] # 0 => e.entry = Session(since[k] + 1)
      /\ Len(e.closed) = count[k]
      /\ \A m \in 1 .. k : pos[m] = 0 => e.closed[count[m]] = Trip(flow, paid, since[m - 1], m)
  BY Zenon DEF EpisodeIs
<1>6. /\ e.held \in Nat /\ e.cost \in Fractions /\ e.realized \in Fractions /\ e.episode \in Fractions
      /\ e.entry \in Int /\ e.fees \in Int /\ e.closed \in Seq(Trades)
  BY <1>5, EpisodeParts, Zenon
<1>7. b = Fields(e.held + fills[n].signed, c, e.realized, e.episode, y, e.fees + fills[n].fee, e.closed)
  BY <1>5, BoughtIs, Zenon
<1> HIDE DEF w, c, y, b
<1>8. c \in Fractions /\ Minus(e.realized, c) = Whole(flow[n])
  <2>1. Plus(e.cost, Whole(w)) \in Fractions /\ Minus(e.realized, Plus(e.cost, Whole(w))) = Whole(flow[k] - w)
    <3> DEFINE a == flow[k]
               r == e.realized
               d == e.cost
    <3>1. a \in Int /\ r \in Fractions /\ d \in Fractions /\ Minus(r, d) = Whole(a)
      BY <1>1, <1>5, <1>6, Zenon
    <3> HIDE DEF a, r, d
    <3>2. Above(r, d, a)
      BY <3>1 DEF Above
    <3>3. Above(r, Plus(d, Whole(w)), a - w)
      BY <1>2, <3>2, BoughtAbove
    <3> QED
      BY <3>3 DEF a, r, d, Above
  <2> QED
    BY <1>3, <2>1, Zenon DEF c
<1>9. Minus(e.episode, c) = Whole(flow[n] - flow[since[n]])
  <2> DEFINE a == flow[k] - flow[since[k]]
             p == e.episode
             d == e.cost
  <2>1. a \in Int /\ a - w = flow[n] - flow[since[n]]
    <3> DEFINE x == flow[k]
               z == flow[since[k]]
    <3>1. x \in Int /\ z \in Int /\ w \in Int /\ flow[n] = x - w /\ flow[since[n]] = z
      BY <1>1, <1>2, <1>3, <1>4, Zenon
    <3> HIDE DEF x, z
    <3>2. x - z \in Int /\ x - z - w = flow[n] - flow[since[n]]
      BY <3>1
    <3> QED
      BY <3>2 DEF x, z
  <2>2. p \in Fractions /\ d \in Fractions /\ Minus(p, d) = Whole(a)
    BY <1>5, <1>6, Zenon
  <2> HIDE DEF a, p, d
  <2>3. Minus(p, Plus(d, Whole(w))) = Whole(a - w)
    <3>1. Above(p, d, a)
      BY <2>1, <2>2 DEF Above
    <3>2. Above(p, Plus(d, Whole(w)), a - w)
      BY <1>2, <3>1, BoughtAbove
    <3> QED
      BY <3>2 DEF Above
  <2> QED
    BY <2>1, <2>3, Zenon DEF c, p, d
<1>10. /\ e.held + fills[n].signed = pos[n] /\ e.fees + fills[n].fee \in Int
       /\ e.fees + fills[n].fee = paid[n] - paid[since[n]]
  <2> HIDE DEF k
  <2>1. e.held + fills[n].signed = pos[n]
    BY <1>1, <1>5, Zenon
  <2> DEFINE x == paid[k]
             z == paid[since[n]]
             f == fills[n].fee
  <2>2. e.fees = x - z /\ x \in Int /\ z \in Int /\ f \in Int /\ paid[n] = x + f
    BY <1>1, <1>2, <1>4, <1>5, Zenon
  <2> HIDE DEF x, z, f
  <2>3. e.fees + f \in Int /\ e.fees + f = paid[n] - z
    BY <2>2
  <2> QED
    BY <2>1, <2>3 DEF z, f
<1>11. y = Session(since[n] + 1) /\ y \in Int
  <2>1. Session(n) \in Int
    BY SessionIs
  <2>2. n = k + 1
    OBVIOUS
  <2> QED
    BY <1>1, <1>4, <1>5, <1>6, <2>1, <2>2, Zenon DEF y
<1>12. /\ b \in Episodes /\ b.held = pos[n] /\ b.cost = c /\ b.realized = e.realized /\ b.episode = e.episode
       /\ b.entry = y /\ b.fees = paid[n] - paid[since[n]] /\ b.closed = e.closed
  <2> DEFINE h == e.held + fills[n].signed
             f == e.fees + fills[n].fee
             r == e.realized
             p == e.episode
             l == e.closed
  <2>1. /\ h \in Nat /\ h = pos[n] /\ f \in Int /\ f = paid[n] - paid[since[n]]
        /\ c \in Fractions /\ r \in Fractions /\ p \in Fractions /\ y \in Int /\ l \in Seq(Trades)
        /\ b = Fields(h, c, r, p, y, f, l)
    BY <1>3, <1>6, <1>7, <1>8, <1>10, <1>11, Zenon
  <2> HIDE DEF h, f, r, p, l
  <2>2. /\ b \in Episodes /\ b.held = h /\ b.cost = c /\ b.realized = r /\ b.episode = p /\ b.entry = y
        /\ b.fees = f /\ b.closed = l
    BY <2>1, EpisodeOf
  <2> QED
    BY <2>1, <2>2, Zenon DEF r, p, l
<1>13. \A m \in 1 .. n : pos[m] = 0 => b.closed[count[m]] = Trip(flow, paid, since[m - 1], m)
  <2>1. \A m \in 1 .. n : m = n \/ m \in 1 .. k
    OBVIOUS
  <2> QED
    BY <1>3, <1>5, <1>12, <2>1, Zenon
<1> QED
  BY <1>3, <1>4, <1>5, <1>8, <1>9, <1>11, <1>12, <1>13, Zenon DEF EpisodeIs, b

(* A round that has closed lies within the fills before.                    *)
LEMMA RoundWithin ==
  ASSUME ReportInv,
         NEW pos, NEW flow, NEW paid, NEW count, NEW since, Books(pos, flow, paid, count, since),
         NEW n \in 0 .. Len(fills), NEW m \in 1 .. n, pos[m] = 0
  PROVE  count[m] \in 1 .. count[n]
<1>1. Len(fills) \in Nat /\ n \in Nat /\ m \in 0 .. Len(fills) /\ m \in 0 .. n /\ m # 0
  <2>1. Len(fills) \in Nat
    BY ReportFacts DEF ReportInv
  <2> QED
    BY <2>1
<1>2. pos[0] = 0 /\ Rounds(Len(fills), pos, count, since)
  BY Zenon DEF Books, AddUp
<1>3. RoundIs(pos, count, since, n) /\ RoundIs(pos, count, since, m)
  BY <1>1, <1>2, RoundFacts, Zenon
<1>4. count[m] <= count[n] /\ count[m] # 0
  BY <1>1, <1>3, Zenon DEF RoundIs
<1>5. count[m] \in Nat /\ count[n] \in Nat
  BY <1>1, <1>2, Zenon DEF Rounds
<1> QED
  BY <1>4, <1>5

(* A sale closes the round when it leaves nothing.                          *)
LEMMA SoldEpisode ==
  ASSUME RunInv, ReportInv, LedgerInv,
         NEW pos, NEW flow, NEW paid, NEW count, NEW since, Books(pos, flow, paid, count, since),
         NEW n \in 1 .. Len(fills), SignedQuantity(n) = fills[n].signed, fills[n].signed < 0,
         NEW e, EpisodeIs(pos, flow, paid, count, since, n - 1, e)
  PROVE  EpisodeIs(pos, flow, paid, count, since, n, Sold(e, n))
<1> DEFINE k == n - 1
           q == -fills[n].signed
           v == FillValue(fills[n]) - fills[n].fee
           left == e.held + SignedQuantity(n)
           gain == Profit(e, fills[n])
           c == Times(e.cost, left, e.held)
           r == Plus(e.realized, gain)
           p == Plus(e.episode, gain)
           f == e.fees + fills[n].fee
           b == Sold(e, n)
<1>1. /\ pos[k] \in Nat /\ pos[n] \in Nat /\ pos[n] = pos[k] + fills[n].signed
      /\ flow[k] \in Int /\ flow[n] \in Int /\ flow[n] = flow[k] + Flow(n)
      /\ paid[k] \in Int /\ paid[n] \in Int /\ paid[n] = paid[k] + fills[n].fee
      /\ IF pos[n] = 0 THEN count[n] = count[k] + 1 /\ since[n] = n
         ELSE count[n] = count[k] /\ since[n] = since[k]
      /\ flow[since[k]] \in Int /\ paid[since[k]] \in Int /\ count[k] \in Nat
  <2>1. StepOf(pos, flow, paid, count, since, n)
    BY BooksAt, Zenon
  <2> QED
    BY <2>1, Zenon DEF StepOf
<1>0. k \in 0 .. Len(fills)
  <2>1. StepOf(pos, flow, paid, count, since, n)
    BY BooksAt, Zenon
  <2> QED
    BY <2>1, Zenon DEF StepOf
<1>2. v \in Int /\ fills[n].fee \in Int /\ Flow(n) = v /\ fills[n].signed \in Int \ {0}
  BY FillFacts, Zenon
<1>3. /\ e \in Episodes /\ e.held = pos[k]
      /\ Minus(e.realized, e.cost) = Whole(flow[k])
      /\ Minus(e.episode, e.cost) = Whole(flow[k] - flow[since[k]])
      /\ e.fees = paid[k] - paid[since[k]]
      /\ pos[k] # 0 => e.entry = Session(since[k] + 1)
      /\ Len(e.closed) = count[k]
      /\ \A m \in 1 .. k : pos[m] = 0 => e.closed[count[m]] = Trip(flow, paid, since[m - 1], m)
  BY Zenon DEF EpisodeIs
<1>4. /\ e.held \in Nat /\ e.cost \in Fractions /\ e.realized \in Fractions /\ e.episode \in Fractions
      /\ e.entry \in Int /\ e.fees \in Int /\ e.closed \in Seq(Trades)
  BY <1>3, EpisodeParts, Zenon
<1>5. /\ q \in Int /\ left \in Int /\ left = pos[n] /\ left \in Nat /\ pos[k] # 0
      /\ q + left = e.held /\ q + left \in Nat \ {0}
  <2> DEFINE x == pos[k]
             s == fills[n].signed
  <2>1. /\ x \in Nat /\ s \in Int /\ s < 0 /\ pos[n] = x + s /\ pos[n] \in Nat
        /\ e.held = x /\ left = x + s /\ q = -s
    <3>1. s \in Int
      BY <1>2
    <3> QED
      BY <1>1, <1>3, <3>1, Zenon
  <2> HIDE DEF x, s, q, left
  <2> QED
    BY <2>1 DEF x
<1>6. gain = Minus(Whole(v), Times(e.cost, q, q + left))
  <2>1. gain = Minus(Whole(v), Times(e.cost, q, e.held))
    BY Zenon DEF Profit
  <2> HIDE DEF q, left, gain, v
  <2> QED
    BY <1>5, <2>1, Zenon
<1>7. /\ Sold(e, n) = IF left > 0 THEN Fields(left, c, r, p, e.entry, f, e.closed)
                      ELSE Fields(0, Whole(0), r, Whole(0), 0, 0, Append(e.closed, Trade(e, n)))
      /\ Trade(e, n) = [profit |-> p, fees |-> f, days |-> HoldingPeriod(e.entry, Session(n))]
  BY <1>3, SoldIs, Zenon DEF Trade
<1> HIDE DEF q, v, left, gain
<1>8. /\ gain \in Fractions /\ c \in Fractions /\ r \in Fractions /\ p \in Fractions
      /\ Minus(r, c) = Whole(flow[n])
      /\ Minus(p, c) = Whole(flow[n] - flow[since[k]])
  <2> DEFINE a == flow[k]
             d == e.cost
             t == flow[since[k]]
             er == e.realized
             ep == e.episode
  <2>1. /\ a \in Int /\ t \in Int /\ v \in Int /\ flow[n] = a + v
        /\ d \in Fractions /\ er \in Fractions /\ ep \in Fractions
        /\ Minus(er, d) = Whole(a) /\ Minus(ep, d) = Whole(a - t)
    BY <1>1, <1>2, <1>3, <1>4, Zenon
  <2>2. c = Times(d, left, q + left) /\ gain = Minus(Whole(v), Times(d, q, q + left))
    BY <1>5, <1>6, Zenon
  <2>3. q \in Int /\ left \in Int /\ q + left \in Nat \ {0}
    BY <1>5, Zenon
  <2> HIDE DEF a, d, t, er, ep, c
  <2>4. a - t \in Int /\ (a - t) + v = flow[n] - t
    BY <2>1
  <2>5. gain \in Fractions /\ c \in Fractions /\ Plus(er, gain) \in Fractions
        /\ Minus(Plus(er, gain), c) = Whole(a + v)
    <3>1. Above(er, d, a)
      BY <2>1 DEF Above
    <3>2. gain \in Fractions /\ Above(Plus(er, gain), c, a + v)
      BY <2>1, <2>2, <2>3, <3>1, SoldAbove
    <3> QED
      BY <3>2 DEF Above
  <2>6. Plus(ep, gain) \in Fractions /\ Minus(Plus(ep, gain), c) = Whole((a - t) + v)
    <3> DEFINE z == a - t
    <3>1. Above(ep, d, z)
      BY <2>1, <2>4 DEF Above
    <3> HIDE DEF z
    <3>2. Above(Plus(ep, gain), c, z + v)
      BY <2>1, <2>2, <2>3, <3>1, SoldAbove
    <3> QED
      BY <3>2 DEF z, Above
  <2> QED
    BY <2>1, <2>4, <2>5, <2>6, Zenon DEF er, ep, t
<1>9. f \in Int /\ f = paid[n] - paid[since[k]]
  <2> DEFINE x == paid[k]
             z == paid[since[k]]
             y == fills[n].fee
  <2>1. e.fees = x - z /\ x \in Int /\ z \in Int /\ y \in Int /\ paid[n] = x + y
    BY <1>1, <1>2, <1>3, Zenon
  <2> HIDE DEF x, z, y
  <2>2. e.fees + y \in Int /\ e.fees + y = paid[n] - z
    BY <2>1
  <2> QED
    BY <2>2 DEF z, y
<1> HIDE DEF c, r, p, f, b
<1>10. CASE left # 0
  <2>1. left > 0 /\ pos[n] # 0
    BY <1>5, <1>10
  <2>2. since[n] = since[k] /\ count[n] = count[k]
    BY <1>1, <2>1, Zenon
  <2>3. b = Fields(left, c, r, p, e.entry, f, e.closed)
    BY <1>7, <2>1, Zenon DEF b
  <2>4. /\ b \in Episodes /\ b.held = left /\ b.cost = c /\ b.realized = r /\ b.episode = p
        /\ b.entry = e.entry /\ b.fees = f /\ b.closed = e.closed
    <3> DEFINE y == e.entry
               l == e.closed
    <3>1. /\ left \in Nat /\ c \in Fractions /\ r \in Fractions /\ p \in Fractions /\ y \in Int
          /\ f \in Int /\ l \in Seq(Trades) /\ b = Fields(left, c, r, p, y, f, l)
      BY <1>4, <1>5, <1>8, <1>9, <2>3, Zenon
    <3> HIDE DEF y, l
    <3>2. /\ b \in Episodes /\ b.held = left /\ b.cost = c /\ b.realized = r /\ b.episode = p
          /\ b.entry = y /\ b.fees = f /\ b.closed = l
      BY <3>1, EpisodeOf
    <3> QED
      BY <3>2, Zenon DEF y, l
  <2>5. \A m \in 1 .. n : pos[m] = 0 => b.closed[count[m]] = Trip(flow, paid, since[m - 1], m)
    <3>1. \A m \in 1 .. n : m = n \/ m \in 1 .. k
      OBVIOUS
    <3> QED
      BY <1>3, <2>1, <2>4, <3>1, Zenon
  <2>6. b.entry = Session(since[n] + 1) /\ Len(b.closed) = count[n]
    BY <1>3, <1>5, <2>2, <2>4, Zenon
  <2>7. /\ b.held = pos[n] /\ Minus(b.realized, b.cost) = Whole(flow[n])
        /\ Minus(b.episode, b.cost) = Whole(flow[n] - flow[since[n]])
        /\ b.fees = paid[n] - paid[since[n]]
    BY <1>5, <1>8, <1>9, <2>2, <2>4, Zenon
  <2>8. EpisodeIs(pos, flow, paid, count, since, n, b)
    BY <2>1, <2>4, <2>5, <2>6, <2>7, Zenon DEF EpisodeIs
  <2> QED
    BY <2>8 DEF b
<1>11. CASE left = 0
  <2> DEFINE trade == Trade(e, n)
             l == Append(e.closed, trade)
  <2>1. ~ (left > 0) /\ pos[n] = 0
    BY <1>5, <1>11
  <2>2. since[n] = n /\ count[n] = count[k] + 1
    BY <1>1, <2>1, Zenon
  <2>3. trade = [profit |-> p, fees |-> f, days |-> HoldingPeriod(e.entry, Session(n))]
    BY <1>7, Zenon
  <2>4. c = Whole(0)
    <3> DEFINE d == e.cost
               h == e.held
    <3>1. d \in Fractions /\ h \in Nat \ {0} /\ c = Times(d, 0, h)
      BY <1>4, <1>5, <1>11, Zenon DEF c
    <3> HIDE DEF d, h
    <3> QED
      BY <3>1, PlusZero
  <2>5. Minus(r, c) = r /\ Minus(p, c) = p
    BY <1>8, <2>4, PlusZero
  <2>6. trade = Trip(flow, paid, since[k], n) /\ trade \in Trades
    <3>1. e.entry = Session(since[k] + 1)
      BY <1>3, <1>5, Zenon
    <3>2. trade = Trip(flow, paid, since[k], n)
      BY <1>8, <1>9, <2>3, <2>5, <3>1, Zenon DEF Trip
    <3>3. HoldingPeriod(e.entry, Session(n)) \in Int
      BY HeldDays, Zenon
    <3>4. trade \in Trades
      <4> DEFINE h == HoldingPeriod(e.entry, Session(n))
      <4> HIDE DEF h, trade
      <4> QED
        BY <1>8, <1>9, <2>3, <3>3 DEF Trades, h
    <3> QED
      BY <3>2, <3>4
  <2>7. b = Fields(0, Whole(0), r, Whole(0), 0, 0, l)
    BY <1>7, <2>1, Zenon DEF b
  <2> HIDE DEF trade
  <2>8. l \in Seq(Trades) /\ Len(l) = count[n] /\ l[count[n]] = trade
        /\ \A m \in 1 .. Len(e.closed) : l[m] = e.closed[m]
    <3> DEFINE s == e.closed
    <3>1. s \in Seq(Trades) /\ trade \in Trades /\ Len(s) = count[k]
      BY <1>3, <1>4, <2>6, Zenon
    <3> HIDE DEF s
    <3>2. Append(s, trade) \in Seq(Trades) /\ Len(Append(s, trade)) = Len(s) + 1
          /\ Append(s, trade)[Len(s) + 1] = trade
          /\ \A m \in 1 .. Len(s) : Append(s, trade)[m] = s[m]
      BY <3>1, AppendProperties
    <3> QED
      BY <2>2, <3>1, <3>2, Zenon DEF s
  <2> HIDE DEF l
  <2>9. /\ b \in Episodes /\ b.held = 0 /\ b.cost = Whole(0) /\ b.realized = r /\ b.episode = Whole(0)
        /\ b.entry = 0 /\ b.fees = 0 /\ b.closed = l
    <3> DEFINE z == Whole(0)
    <3>1. z \in Fractions /\ b = Fields(0, z, r, z, 0, 0, l)
      BY <2>7, FractionTypes
    <3> HIDE DEF z
    <3>2. /\ b \in Episodes /\ b.held = 0 /\ b.cost = z /\ b.realized = r /\ b.episode = z
          /\ b.entry = 0 /\ b.fees = 0 /\ b.closed = l
      BY <1>8, <2>8, <3>1, EpisodeOf
    <3> QED
      BY <3>2, Zenon DEF z
  <2>10. /\ b.held = pos[n] /\ Minus(b.realized, b.cost) = Whole(flow[n])
         /\ Minus(b.episode, b.cost) = Whole(flow[n] - flow[since[n]])
         /\ b.fees = paid[n] - paid[since[n]]
    <3>1. flow[n] - flow[n] = 0 /\ paid[n] - paid[n] = 0
      <4>1. flow[n] \in Int /\ paid[n] \in Int
        BY <1>1, Zenon
      <4> QED
        BY <4>1
    <3>2. Minus(Whole(0), Whole(0)) = Whole(0)
      BY FractionTypes, PlusZero
    <3> QED
      BY <1>8, <2>1, <2>2, <2>4, <2>5, <2>9, <3>1, <3>2, Zenon
  <2>11. \A m \in 1 .. n : pos[m] = 0 => b.closed[count[m]] = Trip(flow, paid, since[m - 1], m)
    <3> SUFFICES ASSUME NEW m \in 1 .. n, pos[m] = 0
                 PROVE  b.closed[count[m]] = Trip(flow, paid, since[m - 1], m)
      OBVIOUS
    <3>1. CASE m = n
      BY <2>6, <2>8, <2>9, <3>1, Zenon
    <3>2. CASE m # n
      <4>1. m \in 1 .. k
        BY <3>2
      <4>2. count[m] \in 1 .. Len(e.closed)
        <5>1. k \in 0 .. Len(fills)
          BY <1>0
        <5>2. Len(e.closed) = count[k]
          BY <1>3, Zenon
        <5> HIDE DEF k
        <5>3. count[m] \in 1 .. count[k]
          BY <4>1, <5>1, RoundWithin
        <5> QED
          BY <5>2, <5>3, Zenon
      <4>3. e.closed[count[m]] = Trip(flow, paid, since[m - 1], m)
        BY <1>3, <4>1, Zenon
      <4> QED
        BY <2>8, <2>9, <4>2, <4>3, Zenon
    <3> QED
      BY <3>1, <3>2
  <2>12. Len(b.closed) = count[n]
    BY <2>8, <2>9, Zenon
  <2>13. EpisodeIs(pos, flow, paid, count, since, n, b)
    BY <2>1, <2>9, <2>10, <2>11, <2>12, Zenon DEF EpisodeIs
  <2> QED
    BY <2>13 DEF b
<1> QED
  BY <1>10, <1>11

(* The books can be kept of any run.                                        *)
LEMMA HasBooks ==
  ASSUME RunInv, ReportInv, LedgerInv
  PROVE  \E pos, flow, paid, count, since : Books(pos, flow, paid, count, since)
<1> DEFINE N == Len(fills)
           step == [q \in (1 .. N) \X Int |-> q[2] + fills[q[1]].fee]
<1>1. PICK pos, flow : AddUp(pos, flow)
  BY Zenon DEF LedgerInv, FillsAddUp
<1>2. N \in Nat /\ \A n \in 1 .. N : fills[n].fee \in Int
  <2>1. N \in Nat
    BY ReportFacts DEF ReportInv
  <2>2. \A n \in 1 .. N : fills[n].fee \in Int
    BY FillFacts, Zenon
  <2> QED
    BY <2>1, <2>2
<1> HIDE DEF N
<1>3. PICK count, since : Rounds(N, pos, count, since)
  BY <1>2, RoundsExist
<1>4. \A n \in 1 .. N, x \in Int : step[<<n, x>>] = x + fills[n].fee
  OBVIOUS
<1> HIDE DEF step
<1>5. StaysIn(Int, N, 0, step)
  BY <1>2, <1>4 DEF StaysIn
<1>6. PICK paid : Chain(paid, Int, N, 0, step)
  BY <1>2, <1>5, TypedChain
<1>7. /\ \A n \in 0 .. N : paid[n] \in Int
      /\ paid[0] = 0 /\ \A n \in 1 .. N : paid[n] = step[<<n, paid[n - 1]>>]
  BY <1>6, Zenon DEF Chain
<1>8. \A n \in 1 .. N : paid[n] = paid[n - 1] + fills[n].fee
  <2> SUFFICES ASSUME NEW n \in 1 .. N PROVE paid[n] = paid[n - 1] + fills[n].fee
    OBVIOUS
  <2>1. n - 1 \in 0 .. N
    BY <1>2
  <2>2. paid[n - 1] \in Int
    BY <1>7, <2>1
  <2> QED
    BY <1>4, <1>7, <2>2, Zenon
<1>9. Books(pos, flow, paid, count, since)
  BY <1>1, <1>3, <1>7, <1>8, Zenon DEF Books, N
<1> QED
  BY <1>9

(* The ledger agrees with the books after every fill.                       *)
LEMMA LedgerIs ==
  ASSUME RunInv, ReportInv, LedgerInv,
         NEW pos, NEW flow, NEW paid, NEW count, NEW since, Books(pos, flow, paid, count, since)
  PROVE  \A n \in 0 .. Len(fills) : EpisodeIs(pos, flow, paid, count, since, n, LedgerAfter[n])
<1> DEFINE N == Len(fills)
           X == {n \in 0 .. N : EpisodeIs(pos, flow, paid, count, since, n, LedgerAfter[n])}
<1>1. N \in Nat
  BY ReportFacts DEF ReportInv
<1>2. 0 \in X
  <2>1. LedgerAfter[0] = NoEpisode
    BY LedgerFollows, Zenon
  <2>2. EpisodeIs(pos, flow, paid, count, since, 0, LedgerAfter[0])
    BY <2>1, FirstEpisodeIs, Zenon
  <2>3. 0 \in 0 .. N
    BY <1>1
  <2> QED
    BY <2>2, <2>3, Zenon
<1>3. ASSUME NEW n \in 1 .. N, n - 1 \in X PROVE n \in X
  <2> DEFINE e == LedgerAfter[n - 1]
             b == LedgerAfter[n]
  <2>1. EpisodeIs(pos, flow, paid, count, since, n - 1, e)
    BY <1>3, Zenon
  <2>2. b = IF SignedQuantity(n) > 0 THEN Bought(e, n) ELSE Sold(e, n)
    BY LedgerFollows, Zenon DEF NextEpisode
  <2>3. SignedQuantity(n) = fills[n].signed
    <3>1. AddUp(pos, flow)
      BY Zenon DEF Books
    <3> QED
      BY <3>1, PositionIs
  <2>4. fills[n].signed \in Int \ {0}
    BY FillFacts, Zenon
  <2> HIDE DEF e, b
  <2>5. EpisodeIs(pos, flow, paid, count, since, n, b)
    <3>1. CASE fills[n].signed > 0
      BY <2>1, <2>2, <2>3, <3>1, BoughtEpisode
    <3>2. CASE fills[n].signed < 0
      <4>1. ~ (SignedQuantity(n) > 0)
        BY <2>3, <2>4, <3>2
      <4>2. b = Sold(e, n)
        BY <2>2, <4>1
      <4> QED
        BY <2>1, <2>3, <3>2, <4>2, SoldEpisode
    <3> QED
      BY <2>4, <3>1, <3>2
  <2>6. n \in 0 .. N
    BY <1>1
  <2> QED
    BY <2>5, <2>6, Zenon DEF b
<1>4. 0 .. N \subseteq X
  <2> HIDE DEF X
  <2> QED
    BY <1>1, <1>2, <1>3, UpTo
<1> QED
  BY <1>4

(* The sums of the report are those of the books.                           *)
LEMMA CashFlowIs ==
  ASSUME RunInv, ReportInv, LedgerInv,
         NEW pos, NEW flow, NEW paid, NEW count, NEW since, Books(pos, flow, paid, count, since),
         NEW a \in 0 .. Len(fills), NEW b \in 0 .. Len(fills), a <= b
  PROVE  CashFlow(a, b) = flow[b] - flow[a]
<1> DEFINE T == a + 1 .. b
           v == [i \in T |-> Flow(i)]
           F(g) == [s \in SUBSET T |->
                      IF s = {} THEN 0
                      ELSE LET x == CHOOSE z \in s : TRUE
                           IN -fills[x].price * fills[x].signed * Scale - fills[x].fee + g[s \ {x}]]
           iter == CHOOSE g : g = F(g)
<1>1. CashFlow(a, b) = iter[T]
  BY Zenon DEF CashFlow, MapThenSumSet, MapThenFoldSet
<1>2. \A g : \A s \in SUBSET T :
         F(g)[s] = IF s = {} THEN 0 ELSE v[Picked(s)] + g[s \ {Picked(s)}]
  <2>1. \A s \in SUBSET T : s # {} => Picked(s) \in T
    BY DEF Picked
  <2>2. \A x \in T : v[x] = Flow(x)
    OBVIOUS
  <2> HIDE DEF T, v
  <2>3. \A g : \A s \in SUBSET T :
           F(g)[s] = IF s = {} THEN 0 ELSE Flow(Picked(s)) + g[s \ {Picked(s)}]
    BY Zenon DEF Picked, Flow
  <2> HIDE DEF F
  <2>4. ASSUME NEW g, NEW s \in SUBSET T
        PROVE  F(g)[s] = IF s = {} THEN 0 ELSE v[Picked(s)] + g[s \ {Picked(s)}]
    <3>1. s # {} => v[Picked(s)] = Flow(Picked(s))
      BY <2>2, <2>1, Zenon
    <3>2. F(g)[s] = IF s = {} THEN 0 ELSE Flow(Picked(s)) + g[s \ {Picked(s)}]
      BY <2>3, Zenon
    <3> QED
      BY <3>1, <3>2
  <2> QED
    BY <2>4
<1>3. IsFiniteSet(T) /\ Len(fills) \in Nat
  BY FS_Interval, ReportFacts DEF ReportInv
<1>4. \A g : F(g) = [s \in SUBSET T |-> F(g)[s]]
  OBVIOUS
<1> HIDE DEF F
<1>5. \E g : g = F(g)
  <2> HIDE DEF v, T
  <2>1. PICK f : f = [s \in SUBSET T |-> f[s]] /\ \A s \in SUBSET T : SumStep(v, f, s)
    BY <1>3, SumExists
  <2>2. \A s \in SUBSET T : f[s] = F(f)[s]
    BY <1>2, <2>1 DEF SumStep
  <2>3. F(f) = [s \in SUBSET T |-> F(f)[s]]
    BY <1>4, Zenon
  <2>4. f = F(f)
    <3> DEFINE g == F(f)
    <3> HIDE DEF g, T
    <3> QED
      BY <2>1, <2>2, <2>3 DEF g
  <2> QED
    BY <2>4, Zenon
<1>6. iter = F(iter)
  BY <1>5, Zenon
<1> HIDE DEF iter
<1>7. \A s \in SUBSET T : SumStep(v, iter, s)
  BY <1>2, <1>6, Zenon DEF SumStep
<1>0. v = [i \in T |-> Flow(i)] /\ \A n \in T : v[n] = Flow(n)
  <2> HIDE DEF T
  <2> QED
    OBVIOUS
<1> HIDE DEF v
<1>8. v \in [T -> Int] /\ \A n \in T : flow[n] = flow[n - 1] + v[n]
  <2>1. \A n \in T : n \in 1 .. Len(fills)
    BY <1>3
  <2>2. \A n \in T : Flow(n) \in Int
    BY <2>1, FillFacts, Zenon
  <2>3. \A n \in T : flow[n] = flow[n - 1] + Flow(n)
    <3>1. DOMAIN fills = 1 .. Len(fills)
      BY ReportFacts DEF ReportInv
    <3>2. \A n \in DOMAIN fills : flow[n] = flow[n - 1] + Flow(n)
      BY Zenon DEF Books, AddUp
    <3> QED
      BY <2>1, <3>1, <3>2, Zenon
  <2> HIDE DEF T
  <2>4. v \in [T -> Int]
    BY <1>0, <2>2
  <2>5. \A n \in T : flow[n] = flow[n - 1] + v[n]
    BY <1>0, <2>3, Zenon
  <2> QED
    BY <2>4, <2>5
<1>9. \A n \in a .. b : flow[n] \in Int
  <2>1. flow \in [0 .. Len(fills) -> Int]
    BY Zenon DEF Books, AddUp
  <2>2. \A n \in a .. b : n \in 0 .. Len(fills)
    BY <1>3
  <2> QED
    BY <2>1, <2>2
<1>10. iter[T] = flow[b] - flow[a]
  <2>1. a \in Nat /\ b \in Nat
    BY <1>3
  <2>2. SumsUp(a, b, v, flow, iter)
    BY <1>7, <1>8, <1>9, <2>1, Zenon DEF SumsUp
  <2> QED
    BY <2>2, SumIs, SMT
<1> QED
  BY <1>1, <1>10

(* The fees of the metrics are the fees of the books.                       *)
LEMMA FeesAre ==
  ASSUME RunInv, ReportInv, LedgerInv,
         NEW pos, NEW flow, NEW paid, NEW count, NEW since, Books(pos, flow, paid, count, since)
  PROVE  MapThenSumSet(LAMBDA n : fills[n].fee, DOMAIN fills) = paid[Len(fills)]
<1> DEFINE N == Len(fills)
           T == 0 + 1 .. N
           v == [i \in T |-> fills[i].fee]
           F(g) == [s \in SUBSET T |->
                      IF s = {} THEN 0
                      ELSE LET x == CHOOSE z \in s : TRUE IN fills[x].fee + g[s \ {x}]]
           iter == CHOOSE g : g = F(g)
<1>1. N \in Nat /\ DOMAIN fills = T
  <2>1. N \in Nat /\ DOMAIN fills = 1 .. N
    BY ReportFacts DEF ReportInv
  <2> QED
    BY <2>1
<1>2. MapThenSumSet(LAMBDA n : fills[n].fee, T) = iter[T]
  BY Zenon DEF MapThenSumSet, MapThenFoldSet
<1>3. v = [i \in T |-> fills[i].fee] /\ \A n \in T : v[n] = fills[n].fee
  <2> HIDE DEF T
  <2> QED
    OBVIOUS
<1> HIDE DEF v
<1>4. \A g : \A s \in SUBSET T :
         F(g)[s] = IF s = {} THEN 0 ELSE v[Picked(s)] + g[s \ {Picked(s)}]
  <2>1. \A s \in SUBSET T : s # {} => Picked(s) \in T
    BY DEF Picked
  <2> HIDE DEF T
  <2>2. \A g : \A s \in SUBSET T :
           F(g)[s] = IF s = {} THEN 0 ELSE fills[Picked(s)].fee + g[s \ {Picked(s)}]
    BY SMT DEF Picked
  <2> HIDE DEF F
  <2>4. ASSUME NEW g, NEW s \in SUBSET T
        PROVE  F(g)[s] = IF s = {} THEN 0 ELSE v[Picked(s)] + g[s \ {Picked(s)}]
    <3>1. s # {} => v[Picked(s)] = fills[Picked(s)].fee
      BY <1>3, <2>1, Zenon
    <3>2. F(g)[s] = IF s = {} THEN 0 ELSE fills[Picked(s)].fee + g[s \ {Picked(s)}]
      BY <2>2, Zenon
    <3> QED
      BY <3>1, <3>2
  <2> QED
    BY <2>4
<1>5. IsFiniteSet(T)
  BY <1>1, FS_Interval
<1>6. \A g : F(g) = [s \in SUBSET T |-> F(g)[s]]
  OBVIOUS
<1> HIDE DEF F
<1>7. \E g : g = F(g)
  <2> HIDE DEF T
  <2>1. PICK f : f = [s \in SUBSET T |-> f[s]] /\ \A s \in SUBSET T : SumStep(v, f, s)
    BY <1>5, SumExists
  <2>2. \A s \in SUBSET T : f[s] = F(f)[s]
    BY <1>4, <2>1 DEF SumStep
  <2>3. F(f) = [s \in SUBSET T |-> F(f)[s]]
    BY <1>6, Zenon
  <2>4. f = F(f)
    <3> DEFINE g == F(f)
    <3> HIDE DEF g
    <3> QED
      BY <2>1, <2>2, <2>3 DEF g
  <2> QED
    BY <2>4, Zenon
<1>8. iter = F(iter)
  BY <1>7, Zenon
<1> HIDE DEF iter
<1>9. \A s \in SUBSET T : SumStep(v, iter, s)
  BY <1>4, <1>8, Zenon DEF SumStep
<1>10. /\ \A n \in T : fills[n].fee \in Int /\ paid[n] = paid[n - 1] + fills[n].fee
       /\ \A n \in 0 .. N : paid[n] \in Int
       /\ paid[0] = 0
  <2>1. \A n \in T : n \in 1 .. Len(fills)
    OBVIOUS
  <2>2. \A n \in T : fills[n].fee \in Int
    BY <2>1, FillFacts, Zenon
  <2> QED
    BY <2>1, <2>2, Zenon DEF Books
<1>11. v \in [T -> Int] /\ \A n \in T : paid[n] = paid[n - 1] + v[n]
  <2> HIDE DEF T
  <2>1. v \in [T -> Int]
    BY <1>3, <1>10
  <2> QED
    BY <1>3, <1>10, <2>1, Zenon
<1> HIDE DEF N
<1>12. iter[T] = paid[N] - paid[0]
  <2>1. 0 \in Nat /\ 0 <= N
    BY <1>1
  <2>2. SumsUp(0, N, v, paid, iter)
    BY <1>1, <1>9, <1>10, <1>11, <2>1, Zenon DEF SumsUp
  <2> QED
    BY <2>2, SumIs, SMT
<1>13. paid[N] - 0 = paid[N]
  BY <1>1, <1>10
<1> QED
  BY <1>1, <1>2, <1>10, <1>12, <1>13, Zenon DEF N

(* The books as the report sees them: the rounds that closed, each of which *)
(* is a closed trade of the ledger.                                         *)
ClosedIs(flow, paid, count, end, l) ==
  /\ l \in Seq(Trades) /\ count \in Nat /\ Len(l) = count /\ DOMAIN l = 1 .. count
  /\ \A i \in 0 .. count : end[i] \in 0 .. Len(fills) /\ flow[end[i]] \in Int /\ paid[end[i]] \in Int
  /\ flow[end[0]] = 0 /\ paid[end[0]] = 0
  /\ \A i \in 1 .. count : i - 1 \in 0 .. count /\ i \in 0 .. count /\ l[i] = Trip(flow, paid, end[i - 1], end[i])

(* The closed trades are the rounds of the books.                           *)
LEMMA ClosedAre ==
  ASSUME RunInv, ReportInv, LedgerInv,
         NEW pos, NEW flow, NEW paid, NEW count, NEW since, Books(pos, flow, paid, count, since),
         NEW end, Ends(Len(fills), pos, count, since, end)
  PROVE  ClosedIs(flow, paid, count[Len(fills)], end, Ledger.closed)
<1> DEFINE N == Len(fills)
           c == count[N]
           l == Ledger.closed
<1>1. N \in Nat
  BY ReportFacts DEF ReportInv
<1>2. EpisodeIs(pos, flow, paid, count, since, N, Ledger)
  <2>1. N \in 0 .. N
    BY <1>1
  <2> QED
    BY <2>1, LedgerIs, Zenon DEF Ledger
<1>3. Ledger \in Episodes /\ Len(l) = c /\ \A m \in 1 .. N : pos[m] = 0 => l[count[m]] = Trip(flow, paid, since[m - 1], m)
  BY <1>2, Zenon DEF EpisodeIs
<1>4. l \in Seq(Trades)
  BY <1>3, EpisodeParts, Zenon
<1>5. c \in Nat
  BY <1>3, <1>4, LenProperties
<1>6. DOMAIN l = 1 .. c
  BY <1>3, <1>4, LenProperties
<1>7. /\ end[0] = 0 /\ \A i \in 0 .. c : end[i] \in 0 .. N
      /\ \A i \in 1 .. c : end[i] # 0 /\ pos[end[i]] = 0 /\ count[end[i]] = i /\ since[end[i] - 1] = end[i - 1]
  BY Zenon DEF Ends
<1>8. flow \in [0 .. N -> Int] /\ flow[0] = 0 /\ paid[0] = 0 /\ \A n \in 0 .. N : paid[n] \in Int
  BY Zenon DEF Books, AddUp
<1> HIDE DEF N, c, l
<1>9. \A n \in 0 .. N : flow[n] \in Int /\ paid[n] \in Int
  BY <1>8
<1>10. ASSUME NEW i \in 1 .. c
       PROVE  i - 1 \in 0 .. c /\ i \in 0 .. c /\ l[i] = Trip(flow, paid, end[i - 1], end[i])
  <2>1. i - 1 \in 0 .. c /\ i \in 0 .. c
    BY <1>5
  <2>2. end[i] \in 0 .. N /\ end[i] # 0
    BY <1>7, <2>1, Zenon
  <2>3. end[i] \in 1 .. N
    BY <1>1, <2>2
  <2> QED
    BY <1>3, <1>7, <2>1, <2>3, Zenon
<1> QED
  BY <1>3, <1>4, <1>5, <1>6, <1>7, <1>8, <1>9, <1>10, Zenon DEF ClosedIs, N, c, l

ClosedFees(l) == MapThenSumSet(LAMBDA i : l[i].fees, DOMAIN l)

(* Their fees are those of the books up to the last end.                    *)
LEMMA ClosedFeesAre ==
  ASSUME NEW flow, NEW paid, NEW c, NEW end, NEW l, ClosedIs(flow, paid, c, end, l)
  PROVE  ClosedFees(l) = paid[end[c]]
<1> DEFINE T == 0 + 1 .. c
           v == [i \in T |-> l[i].fees]
           acc == [i \in 0 .. c |-> paid[end[i]]]
           F(g) == [s \in SUBSET T |->
                      IF s = {} THEN 0
                      ELSE LET x == CHOOSE z \in s : TRUE IN l[x].fees + g[s \ {x}]]
           iter == CHOOSE g : g = F(g)
<1>1. c \in Nat /\ DOMAIN l = T
  BY DEF ClosedIs
<1>2. ClosedFees(l) = iter[T]
  BY <1>1, Zenon DEF ClosedFees, MapThenSumSet, MapThenFoldSet
<1>3. v = [i \in T |-> l[i].fees] /\ \A n \in T : v[n] = l[n].fees
  <2> HIDE DEF T
  <2> QED
    OBVIOUS
<1> HIDE DEF v
<1>4. \A g : \A s \in SUBSET T :
         F(g)[s] = IF s = {} THEN 0 ELSE v[Picked(s)] + g[s \ {Picked(s)}]
  <2>1. \A s \in SUBSET T : s # {} => Picked(s) \in T
    BY DEF Picked
  <2> HIDE DEF T
  <2>2. \A g : \A s \in SUBSET T :
           F(g)[s] = IF s = {} THEN 0 ELSE l[Picked(s)].fees + g[s \ {Picked(s)}]
    BY Zenon DEF Picked
  <2> HIDE DEF F
  <2>3. ASSUME NEW g, NEW s \in SUBSET T
        PROVE  F(g)[s] = IF s = {} THEN 0 ELSE v[Picked(s)] + g[s \ {Picked(s)}]
    <3>1. s # {} => v[Picked(s)] = l[Picked(s)].fees
      BY <1>3, <2>1, Zenon
    <3>2. F(g)[s] = IF s = {} THEN 0 ELSE l[Picked(s)].fees + g[s \ {Picked(s)}]
      BY <2>2, Zenon
    <3> QED
      BY <3>1, <3>2
  <2> QED
    BY <2>3
<1>5. IsFiniteSet(T)
  BY <1>1, FS_Interval
<1>6. \A g : F(g) = [s \in SUBSET T |-> F(g)[s]]
  OBVIOUS
<1> HIDE DEF F
<1>7. \E g : g = F(g)
  <2> HIDE DEF T
  <2>1. PICK f : f = [s \in SUBSET T |-> f[s]] /\ \A s \in SUBSET T : SumStep(v, f, s)
    BY <1>5, SumExists
  <2>2. \A s \in SUBSET T : f[s] = F(f)[s]
    BY <1>4, <2>1 DEF SumStep
  <2>3. F(f) = [s \in SUBSET T |-> F(f)[s]]
    BY <1>6, Zenon
  <2>4. f = F(f)
    <3> DEFINE g == F(f)
    <3> HIDE DEF g
    <3> QED
      BY <2>1, <2>2, <2>3 DEF g
  <2> QED
    BY <2>4, Zenon
<1>8. iter = F(iter)
  BY <1>7, Zenon
<1> HIDE DEF iter
<1>9. \A s \in SUBSET T : SumStep(v, iter, s)
  BY <1>4, <1>8, Zenon DEF SumStep
<1>10. \A i \in 0 .. c : acc[i] = paid[end[i]] /\ acc[i] \in Int
  <2>1. \A i \in 0 .. c : paid[end[i]] \in Int
    BY DEF ClosedIs
  <2> QED
    BY <2>1
<1> HIDE DEF acc
<1>11. \A n \in T : l[n].fees \in Int /\ acc[n] = acc[n - 1] + l[n].fees
  <2> SUFFICES ASSUME NEW n \in 1 .. c PROVE l[n].fees \in Int /\ acc[n] = acc[n - 1] + l[n].fees
    OBVIOUS
  <2>1. n - 1 \in 0 .. c /\ n \in 0 .. c /\ l[n] = Trip(flow, paid, end[n - 1], end[n])
    BY Zenon DEF ClosedIs
  <2>2. l[n].fees = paid[end[n]] - paid[end[n - 1]]
    BY <2>1 DEF Trip
  <2>3. l[n].fees = acc[n] - acc[n - 1]
    BY <1>10, <2>1, <2>2, Zenon
  <2>4. acc[n] \in Int /\ acc[n - 1] \in Int
    BY <1>10, <2>1, Zenon
  <2> QED
    BY <2>3, <2>4
<1>12. v \in [T -> Int] /\ \A n \in T : acc[n] = acc[n - 1] + v[n]
  <2> HIDE DEF T
  <2>1. v \in [T -> Int]
    BY <1>3, <1>11
  <2> QED
    BY <1>3, <1>11, <2>1, Zenon
<1>13. iter[T] = acc[c] - acc[0]
  <2>1. 0 \in Nat /\ 0 <= c
    BY <1>1
  <2>2. SumsUp(0, c, v, acc, iter)
    BY <1>1, <1>9, <1>10, <1>12, <2>1, Zenon DEF SumsUp
  <2> QED
    BY <2>2, SumIs, SMT
<1>14. acc[c] - acc[0] = paid[end[c]]
  <2>1. 0 \in 0 .. c /\ c \in 0 .. c
    BY <1>1
  <2>2. acc[0] = 0 /\ acc[c] = paid[end[c]] /\ acc[c] \in Int
    <3>1. paid[end[0]] = 0
      BY Zenon DEF ClosedIs
    <3> QED
      BY <1>10, <2>1, <3>1, Zenon
  <2> QED
    BY <2>2
<1> QED
  BY <1>2, <1>13, <1>14, Zenon

(* What is not realized of a gain is what is held above its cost.           *)
LEMMA NotRealized ==
  ASSUME NEW r, NEW c, NEW a, Above(r, c, a), NEW v \in Int
  PROVE  Minus(Whole(v + a), r) = Minus(Whole(v), c)
<1> DEFINE u == Minus(Whole(v), c)
           m == Minus(r, c)
<1>1. r \in Fractions /\ c \in Fractions /\ a \in Int /\ m = Whole(a)
  BY DEF Above
<1>2. Whole(v) \in Fractions /\ Whole(a) \in Fractions
  BY <1>1, FractionTypes
<1>3. u \in Fractions /\ m \in Fractions
  BY <1>1, <1>2, FractionTypes
<1>4. Plus(u, c) = Whole(v) /\ Plus(m, c) = r
  BY <1>1, <1>2, MinusPlus
<1> HIDE DEF u, m
<1>5. Plus(u, r) = Plus(Whole(v), m)
  <2>1. Plus(m, c) = Plus(c, m)
    BY <1>1, <1>3, PlusCommutes
  <2>2. Plus(u, Plus(c, m)) = Plus(Plus(u, c), m)
    BY <1>1, <1>3, PlusAssociates
  <2> QED
    BY <1>4, <2>1, <2>2, Zenon
<1>6. Plus(Whole(v), Whole(a)) = Whole(v + a)
  BY <1>1, WholeLaws
<1>7. Whole(v + a) \in Fractions
  BY <1>1, FractionTypes
<1>8. Plus(u, r) = Whole(v + a)
  BY <1>1, <1>5, <1>6, Zenon
<1>9. Minus(Whole(v + a), r) = u
  BY <1>1, <1>3, <1>7, <1>8, MinusIs
<1> QED
  BY <1>9 DEF u

(* A fraction with numerator 0 is 0.                                        *)
LEMMA ZeroFraction ==
  ASSUME NEW x \in Fractions, x.n = 0
  PROVE  x = Whole(0)
<1>1. PICK a \in Int, b \in Nat \ {0} : x = Frac(a, b)
  BY DEF Fractions
<1>2. a = 0
  BY <1>1, FracIs
<1>3. Frac(0, b) = Frac(0, 1)
  <2>1. 0 \in Int /\ 1 \in Nat \ {0} /\ 0 * 1 = 0 * b
    BY SMT
  <2> QED
    BY <2>1, FracEqual
<1> QED
  BY <1>1, <1>2, <1>3 DEF Whole

(* A numerator is a number.                                                 *)
LEMMA NumeratorIs == ASSUME NEW x \in Fractions PROVE x.n \in Int
<1>1. PICK a \in Int, b \in Nat \ {0} : x = Frac(a, b)
  BY DEF Fractions
<1> QED
  BY <1>1, FracIs

(* The gains and the losses of a list of profits are together all of them.  *)
Gains(p, sign) == [i \in DOMAIN p |-> IF p[i].n * sign > 0 THEN p[i] ELSE Whole(0)]

(* Every profit is a gain, a loss or nothing.                               *)
LEMMA GainsAre ==
  ASSUME NEW p \in Seq(Fractions)
  PROVE  /\ Gains(p, 1) \in Seq(Fractions) /\ Gains(p, -1) \in Seq(Fractions)
         /\ Len(Gains(p, 1)) = Len(p) /\ Len(Gains(p, -1)) = Len(p)
         /\ \A i \in 1 .. Len(p) : Plus(Gains(p, 1)[i], Gains(p, -1)[i]) = p[i]
<1> DEFINE N == Len(p)
           u == Gains(p, 1)
           w == Gains(p, -1)
<1>1. N \in Nat /\ DOMAIN p = 1 .. N /\ \A i \in 1 .. N : p[i] \in Fractions
  BY LenProperties, ElementOfSeq
<1>2. Whole(0) \in Fractions
  BY FractionTypes
<1>3. /\ u = [i \in 1 .. N |-> u[i]] /\ w = [i \in 1 .. N |-> w[i]]
      /\ \A i \in 1 .. N : /\ u[i] = IF p[i].n * 1 > 0 THEN p[i] ELSE Whole(0)
                           /\ w[i] = IF p[i].n * (-1) > 0 THEN p[i] ELSE Whole(0)
  BY <1>1, Zenon DEF Gains
<1> HIDE DEF u, w, N
<1>4. \A i \in 1 .. N : u[i] \in Fractions /\ w[i] \in Fractions
  BY <1>1, <1>2, <1>3
<1>5. u \in Seq(Fractions) /\ w \in Seq(Fractions) /\ Len(u) = N /\ Len(w) = N
  <2>1. u \in [1 .. N -> Fractions] /\ w \in [1 .. N -> Fractions]
    BY <1>3, <1>4, Zenon
  <2> QED
    BY <1>1, <2>1
<1>6. ASSUME NEW i \in 1 .. N PROVE Plus(u[i], w[i]) = p[i]
  <2> DEFINE x == p[i]
             k == x.n
  <2>1. x \in Fractions /\ k \in Int
    BY <1>1, NumeratorIs
  <2>2. u[i] = (IF k * 1 > 0 THEN x ELSE Whole(0)) /\ w[i] = (IF k * (-1) > 0 THEN x ELSE Whole(0))
    BY <1>3, Zenon
  <2>3. k = 0 => x = Whole(0)
    BY <2>1, ZeroFraction
  <2>4. Plus(x, Whole(0)) = x /\ Plus(Whole(0), x) = x /\ Plus(Whole(0), Whole(0)) = Whole(0)
    BY <1>2, <2>1, PlusZero
  <2> HIDE DEF k
  <2>5. (k * 1 > 0 <=> k > 0) /\ (k * (-1) > 0 <=> k < 0) /\ (k > 0 \/ k = 0 \/ k < 0)
        /\ ~ (k > 0 /\ k < 0) /\ (k = 0 => ~ (k > 0) /\ ~ (k < 0))
    BY <2>1
  <2> HIDE DEF x
  <2>6. CASE k > 0
    BY <2>2, <2>4, <2>5, <2>6, Zenon DEF x
  <2>7. CASE k < 0
    BY <2>2, <2>4, <2>5, <2>7, Zenon DEF x
  <2>8. CASE k = 0
    BY <2>2, <2>3, <2>4, <2>5, <2>8, Zenon DEF x
  <2> QED
    BY <2>5, <2>6, <2>7, <2>8
<1> QED
  BY <1>5, <1>6 DEF N, u, w

(* The total of sums is the sum of the totals.                              *)
LEMMA TotalOfSums ==
  ASSUME NEW p \in Seq(Fractions), NEW u \in Seq(Fractions), NEW w \in Seq(Fractions),
         Len(u) = Len(p), Len(w) = Len(p), \A i \in 1 .. Len(p) : Plus(u[i], w[i]) = p[i]
  PROVE  Plus(Total(u), Total(w)) = Total(p)
<1> DEFINE N == Len(p)
<1>1. N \in Nat /\ \A i \in 1 .. N : u[i] \in Fractions /\ w[i] \in Fractions
  BY LenProperties, ElementOfSeq
<1>2. PICK f : /\ f = [n \in 0 .. Len(u) |-> f[n]] /\ \A n \in 0 .. Len(u) : f[n] \in Fractions
               /\ f[0] = Whole(0) /\ \A n \in 1 .. Len(u) : f[n] = Plus(f[n - 1], u[n])
               /\ Total(u) = f[Len(u)]
  BY TotalRuns
<1>3. PICK g : /\ g = [n \in 0 .. Len(w) |-> g[n]] /\ \A n \in 0 .. Len(w) : g[n] \in Fractions
               /\ g[0] = Whole(0) /\ \A n \in 1 .. Len(w) : g[n] = Plus(g[n - 1], w[n])
               /\ Total(w) = g[Len(w)]
  BY TotalRuns
<1>4. /\ \A n \in 0 .. N : f[n] \in Fractions /\ g[n] \in Fractions
      /\ f[0] = Whole(0) /\ g[0] = Whole(0)
      /\ \A n \in 1 .. N : f[n] = Plus(f[n - 1], u[n]) /\ g[n] = Plus(g[n - 1], w[n])
      /\ Total(u) = f[N] /\ Total(w) = g[N]
  BY <1>2, <1>3, Zenon
<1> DEFINE t == [n \in 0 .. N |-> Plus(f[n], g[n])]
<1>5. t = [n \in 0 .. N |-> t[n]] /\ \A n \in 0 .. N : t[n] = Plus(f[n], g[n])
  BY Zenon
<1> HIDE DEF t, N
<1>6. t[0] = Whole(0)
  <2>1. 0 \in 0 .. N /\ Whole(0) \in Fractions
    BY <1>1, FractionTypes
  <2>2. Plus(Whole(0), Whole(0)) = Whole(0)
    BY <2>1, PlusZero
  <2> QED
    BY <1>4, <1>5, <2>1, <2>2, Zenon
<1>7. ASSUME NEW n \in 1 .. N PROVE t[n] = Plus(t[n - 1], p[n])
  <2>1. n \in 0 .. N /\ n - 1 \in 0 .. N
    BY <1>1
  <2>2. f[n - 1] \in Fractions /\ g[n - 1] \in Fractions /\ u[n] \in Fractions /\ w[n] \in Fractions
    BY <1>1, <1>4, <2>1, Zenon
  <2>3. Plus(Plus(f[n - 1], u[n]), Plus(g[n - 1], w[n])) = Plus(Plus(f[n - 1], g[n - 1]), Plus(u[n], w[n]))
    <3> DEFINE a == f[n - 1]
               b == u[n]
               c == g[n - 1]
               d == w[n]
    <3>1. a \in Fractions /\ b \in Fractions /\ c \in Fractions /\ d \in Fractions
      BY <2>2
    <3> HIDE DEF a, b, c, d
    <3>2. Plus(Plus(a, b), Plus(c, d)) = Plus(Plus(a, c), Plus(b, d))
      BY <3>1, PlusSwaps
    <3> QED
      BY <3>2, Zenon DEF a, b, c, d
  <2>4. Plus(u[n], w[n]) = p[n]
    BY Zenon DEF N
  <2> QED
    BY <1>4, <1>5, <2>1, <2>3, <2>4, Zenon
<1>8. Total(p) = t[N]
  BY <1>1, <1>5, <1>6, <1>7, TotalIs DEF N
<1>9. N \in 0 .. N
  BY <1>1
<1> QED
  BY <1>4, <1>5, <1>8, <1>9, Zenon

(* The books at the last fill.                                              *)
LastIs(pos, flow, paid, count, since) ==
  /\ EpisodeIs(pos, flow, paid, count, since, Len(fills), Ledger)
  /\ pos[Len(fills)] = Held /\ flow[Len(fills)] = cash - InitialCash * Scale * Scale
  /\ flow[Len(fills)] \in Int /\ cash \in Int /\ InitialCash * Scale * Scale \in Int
  /\ Held * marks[Ticker] * Scale * Scale \in Int
  /\ Equity = cash + Held * marks[Ticker] * Scale * Scale
  /\ Equity - InitialCash * Scale * Scale = Held * marks[Ticker] * Scale * Scale + flow[Len(fills)]
  /\ Held = 0 => Held * marks[Ticker] * Scale * Scale = 0 /\ since[Len(fills)] = Len(fills)

(* They end with the position and the cash of the account.                  *)
LEMMA BooksEnd ==
  ASSUME RunInv, ReportInv, LedgerInv,
         NEW pos, NEW flow, NEW paid, NEW count, NEW since, Books(pos, flow, paid, count, since)
  PROVE  LastIs(pos, flow, paid, count, since)
<1> DEFINE N == Len(fills)
           C == InitialCash * Scale * Scale
           V == Held * marks[Ticker] * Scale * Scale
<1>1. N \in Nat /\ N \in 0 .. N
  BY ReportFacts DEF ReportInv
<1>2. EpisodeIs(pos, flow, paid, count, since, N, Ledger)
  BY <1>1, LedgerIs, Zenon DEF Ledger
<1>3. pos[N] = Held /\ flow[N] = cash - C /\ flow \in [0 .. N -> Int]
  BY Zenon DEF Books, AddUp
<1>4. V \in Nat /\ Equity = cash + V
  BY EquityOfRun
<1>5. cash \in Nat /\ marks[Ticker] \in Nat /\ Scale \in Nat /\ InitialCash \in Nat
  BY BrokerAssumption DEF RunInv, AccountIsGood, ReportInv, ReportTyped
<1>6. C \in Int
  BY <1>5, SMT
<1>7. Held = 0 => V = 0
  BY <1>5, SMT
<1>8. flow[N] \in Int
  BY <1>1, <1>3
<1>9. RoundIs(pos, count, since, N)
  <2>1. Rounds(N, pos, count, since) /\ pos[0] = 0
    BY Zenon DEF Books, AddUp
  <2> HIDE DEF N
  <2> QED
    BY <1>1, <2>1, RoundFacts
<1>10. Held = 0 => since[N] = N
  BY <1>3, <1>9, Zenon DEF RoundIs
<1>11. Equity - C = V + flow[N]
  <2> HIDE DEF C, V, N
  <2> QED
    BY <1>3, <1>4, <1>5, <1>6
<1>12. V \in Int /\ cash \in Int
  <2> HIDE DEF V
  <2> QED
    BY <1>4, <1>5
<1> QED
  BY <1>2, <1>3, <1>4, <1>6, <1>7, <1>8, <1>10, <1>11, <1>12, Zenon DEF LastIs

(* The open position and what is realized.                                  *)
LEMMA RealizedAbove ==
  ASSUME NEW pos, NEW flow, NEW paid, NEW count, NEW since, LastIs(pos, flow, paid, count, since)
  PROVE  /\ Ledger.held = Held
         /\ Minus(Whole(Equity - InitialCash * Scale * Scale), Ledger.realized)
              = IF Held = 0 THEN Whole(0) ELSE Unrealized
<1> DEFINE N == Len(fills)
           V == Held * marks[Ticker] * Scale * Scale
           r == Ledger.realized
           c == Ledger.cost
           fl == flow[N]
<1>1. /\ EpisodeIs(pos, flow, paid, count, since, N, Ledger)
      /\ pos[N] = Held /\ fl \in Int /\ V \in Int
      /\ Equity - InitialCash * Scale * Scale = V + fl
      /\ Held = 0 => V = 0
  BY Zenon DEF LastIs
<1>2. /\ Ledger \in Episodes /\ Ledger.held = pos[N] /\ Minus(r, c) = Whole(fl)
      /\ pos[N] = 0 => c = Whole(0)
  BY <1>1, Zenon DEF EpisodeIs
<1>3. r \in Fractions /\ c \in Fractions
  BY <1>2, EpisodeParts
<1>4. Unrealized = Minus(Whole(V), c)
  BY Zenon DEF Unrealized
<1> HIDE DEF r, c, V, fl, N
<1>5. Above(r, c, fl)
  BY <1>1, <1>2, <1>3 DEF Above
<1>6. Minus(Whole(V + fl), r) = Minus(Whole(V), c)
  BY <1>1, <1>5, NotRealized
<1>7. Held = 0 => Minus(Whole(V), c) = Whole(0)
  <2>1. Minus(Whole(0), Whole(0)) = Whole(0)
    <3>1. Whole(0) \in Fractions
      BY FractionTypes
    <3> QED
      BY <3>1, PlusZero
  <2> QED
    BY <1>1, <1>2, <2>1, Zenon
<1>8. Minus(Whole(Equity - InitialCash * Scale * Scale), r) = Minus(Whole(V), c)
  BY <1>1, <1>6, Zenon
<1> QED
  BY <1>1, <1>2, <1>4, <1>7, <1>8, Zenon DEF r

(* What the executions realized adds up to what the ledger says.            *)
LEMMA RealizedIs ==
  ASSUME RunInv, ReportInv, LedgerInv,
         NEW pos, NEW flow, NEW paid, NEW count, NEW since, Books(pos, flow, paid, count, since)
  PROVE  Ledger.realized = Total([n \in DOMAIN fills |-> Execution(n).realized])
<1> DEFINE N == Len(fills)
           p == [n \in DOMAIN fills |-> Execution(n).realized]
           t == [n \in 0 .. N |-> LedgerAfter[n].realized]
<1>1. N \in Nat /\ DOMAIN fills = 1 .. N
  BY ReportFacts DEF ReportInv
<1>2. \A n \in 0 .. N : LedgerAfter[n].realized \in Fractions
  <2> SUFFICES ASSUME NEW n \in 0 .. N PROVE LedgerAfter[n].realized \in Fractions
    OBVIOUS
  <2>1. EpisodeIs(pos, flow, paid, count, since, n, LedgerAfter[n])
    BY LedgerIs, Zenon
  <2>2. LedgerAfter[n] \in Episodes
    BY <2>1, Zenon DEF EpisodeIs
  <2> QED
    BY <2>2, EpisodeParts
<1>3. \A n \in 1 .. N : Execution(n).realized = Minus(LedgerAfter[n].realized, LedgerAfter[n - 1].realized)
  <2> SUFFICES ASSUME NEW n \in 1 .. N
               PROVE  Execution(n).realized = Minus(LedgerAfter[n].realized, LedgerAfter[n - 1].realized)
    OBVIOUS
  <2> DEFINE m == Minus(LedgerAfter[n].realized, LedgerAfter[n - 1].realized)
             side == IF SignedQuantity(n) > 0 THEN "buy" ELSE "sell"
             price == fills[n].price
             quantity == AbsInt(fills[n].signed)
             fee == fills[n].fee
             left == LedgerAfter[n].held
  <2>1. Execution(n) = [side |-> side, price |-> price, quantity |-> quantity, fee |-> fee,
                        realized |-> m, shares_after |-> left]
    BY Zenon DEF Execution
  <2> HIDE DEF m, side, price, quantity, fee, left
  <2>2. Execution(n).realized = m
    BY <2>1
  <2> QED
    BY <2>2, Zenon DEF m
<1>4. t = [n \in 0 .. N |-> t[n]] /\ \A n \in 0 .. N : t[n] = LedgerAfter[n].realized
  BY Zenon
<1>5. p = [n \in 1 .. N |-> p[n]] /\ \A n \in 1 .. N : p[n] = Execution(n).realized
  BY <1>1, Zenon
<1> HIDE DEF p, t, N
<1>6. Len(p) = N
  BY <1>1, <1>5
<1>7. t[0] = Whole(0)
  <2>1. NoEpisode.realized = Whole(0) /\ LedgerAfter[0] = NoEpisode
    BY LedgerFollows DEF NoEpisode
  <2>2. 0 \in 0 .. N
    BY <1>1
  <2> QED
    BY <1>4, <2>1, <2>2, Zenon
<1>8. ASSUME NEW n \in 1 .. N PROVE t[n] = Plus(t[n - 1], p[n])
  <2>1. n \in 0 .. N /\ n - 1 \in 0 .. N
    BY <1>1
  <2>2. t[n] \in Fractions /\ t[n - 1] \in Fractions /\ p[n] = Minus(t[n], t[n - 1])
    BY <1>2, <1>3, <1>4, <1>5, <2>1, Zenon
  <2>3. Minus(t[n], t[n - 1]) \in Fractions
    BY <2>2, FractionTypes
  <2>4. Plus(Minus(t[n], t[n - 1]), t[n - 1]) = t[n]
    BY <2>2, MinusPlus
  <2>5. Plus(Minus(t[n], t[n - 1]), t[n - 1]) = Plus(t[n - 1], Minus(t[n], t[n - 1]))
    BY <2>2, <2>3, PlusCommutes
  <2> QED
    BY <2>2, <2>4, <2>5, Zenon
<1>9. Total(p) = t[N]
  BY <1>1, <1>4, <1>6, <1>7, <1>8, TotalIs
<1>10. t[N] = Ledger.realized
  <2>1. N \in 0 .. N
    BY <1>1
  <2> QED
    BY <1>4, <2>1, Zenon DEF Ledger, N
<1> QED
  BY <1>9, <1>10, Zenon DEF p

(* The profits of the closed trades are the cash of the rounds.             *)
Profits(l) == [i \in DOMAIN l |-> l[i].profit]

(* They add up to the cash flow up to the last end.                         *)
LEMMA ProfitsAre ==
  ASSUME NEW flow, NEW paid, NEW c, NEW end, NEW l, ClosedIs(flow, paid, c, end, l)
  PROVE  Profits(l) \in Seq(Fractions) /\ Total(Profits(l)) = Whole(flow[end[c]])
<1> DEFINE p == Profits(l)
           t == [i \in 0 .. c |-> Whole(flow[end[i]])]
<1>1. /\ c \in Nat /\ DOMAIN l = 1 .. c /\ flow[end[0]] = 0
      /\ \A i \in 0 .. c : flow[end[i]] \in Int
      /\ \A i \in 1 .. c : i - 1 \in 0 .. c /\ i \in 0 .. c /\ l[i] = Trip(flow, paid, end[i - 1], end[i])
  BY Zenon DEF ClosedIs
<1>2. \A i \in 1 .. c : l[i].profit = Whole(flow[end[i]] - flow[end[i - 1]])
  <2> SUFFICES ASSUME NEW i \in 1 .. c PROVE l[i].profit = Whole(flow[end[i]] - flow[end[i - 1]])
    OBVIOUS
  <2> DEFINE w == Whole(flow[end[i]] - flow[end[i - 1]])
             f == paid[end[i]] - paid[end[i - 1]]
             d == HoldingPeriod(Session(end[i - 1] + 1), Session(end[i]))
  <2>1. l[i] = [profit |-> w, fees |-> f, days |-> d]
    BY <1>1, Zenon DEF Trip
  <2> HIDE DEF w, f, d
  <2>2. l[i].profit = w
    BY <2>1
  <2> QED
    BY <2>2, Zenon DEF w
<1>3. p = [i \in 1 .. c |-> p[i]] /\ \A i \in 1 .. c : p[i] = l[i].profit
  BY <1>1, Zenon DEF Profits
<1>4. t = [i \in 0 .. c |-> t[i]] /\ \A i \in 0 .. c : t[i] = Whole(flow[end[i]])
  BY Zenon
<1> HIDE DEF p, t
<1>5. ASSUME NEW i \in 1 .. c
      PROVE  p[i] \in Fractions /\ t[i] = Plus(t[i - 1], p[i])
  <2> DEFINE a == flow[end[i]]
             b == flow[end[i - 1]]
  <2>1. a \in Int /\ b \in Int
    BY <1>1, Zenon
  <2>2. p[i] = Whole(a - b) /\ t[i] = Whole(a) /\ t[i - 1] = Whole(b)
    BY <1>1, <1>2, <1>3, <1>4, Zenon
  <2> HIDE DEF a, b
  <2>3. a - b \in Int /\ b + (a - b) = a
    BY <2>1
  <2>4. Whole(a - b) \in Fractions /\ Plus(Whole(b), Whole(a - b)) = Whole(b + (a - b))
    BY <2>1, <2>3, FractionTypes, WholeLaws
  <2> QED
    BY <2>2, <2>3, <2>4, Zenon
<1>6. p \in Seq(Fractions) /\ Len(p) = c
  <2>1. p \in [1 .. c -> Fractions]
    BY <1>3, <1>5, Zenon
  <2> QED
    BY <1>1, <2>1
<1>7. t[0] = Whole(0)
  <2>1. 0 \in 0 .. c
    BY <1>1
  <2> QED
    BY <1>1, <1>4, <2>1, Zenon
<1>8. Total(p) = t[c]
  BY <1>1, <1>4, <1>5, <1>6, <1>7, TotalIs
<1>9. c \in 0 .. c
  BY <1>1
<1> QED
  BY <1>4, <1>6, <1>8, <1>9, Zenon DEF p

(* A flat account: the closed trades are all there is.                      *)
LEMMA FlatReconciles ==
  ASSUME RunInv, ReportInv, LedgerInv,
         NEW pos, NEW flow, NEW paid, NEW count, NEW since, Books(pos, flow, paid, count, since),
         Held = 0
  PROVE  /\ Plus(Total(Gains(Profits(Ledger.closed), 1)), Total(Gains(Profits(Ledger.closed), -1)))
              = Whole(Equity - InitialCash * Scale * Scale)
         /\ ClosedFees(Ledger.closed) = MapThenSumSet(LAMBDA n : fills[n].fee, DOMAIN fills)
<1> DEFINE N == Len(fills)
           c == count[N]
           l == Ledger.closed
           p == Profits(l)
<1>1. N \in Nat
  BY ReportFacts DEF ReportInv
<1>2. PICK end : Ends(N, pos, count, since, end)
  <2>1. Rounds(N, pos, count, since)
    BY Zenon DEF Books
  <2> HIDE DEF N
  <2> QED
    BY <1>1, <2>1, EndsExist
<1>3. ClosedIs(flow, paid, c, end, l)
  BY <1>2, ClosedAre, Zenon
<1>4. LastIs(pos, flow, paid, count, since)
  BY BooksEnd, Zenon
<1>5. end[c] = N
  <2>1. end[c] = since[N]
    BY <1>2, Zenon DEF Ends
  <2>2. since[N] = N
    BY <1>4, Zenon DEF LastIs
  <2> QED
    BY <2>1, <2>2, Zenon
<1>6. Equity - InitialCash * Scale * Scale = flow[N]
  <2> DEFINE V == Held * marks[Ticker] * Scale * Scale
             x == flow[N]
             y == Equity - InitialCash * Scale * Scale
  <2>1. y = V + x /\ V = 0 /\ x \in Int
    BY <1>4, Zenon DEF LastIs
  <2> HIDE DEF V, x, y
  <2>2. y = x
    BY <2>1
  <2> QED
    BY <2>2, Zenon DEF x, y
<1>7. p \in Seq(Fractions) /\ Total(p) = Whole(flow[end[c]])
  BY <1>3, ProfitsAre, SMT
<1> HIDE DEF N, c, l
<1>8. Plus(Total(Gains(p, 1)), Total(Gains(p, -1))) = Total(p)
  <2> HIDE DEF p
  <2>1. /\ Gains(p, 1) \in Seq(Fractions) /\ Gains(p, -1) \in Seq(Fractions)
        /\ Len(Gains(p, 1)) = Len(p) /\ Len(Gains(p, -1)) = Len(p)
        /\ \A i \in 1 .. Len(p) : Plus(Gains(p, 1)[i], Gains(p, -1)[i]) = p[i]
    BY <1>7, GainsAre
  <2> DEFINE u == Gains(p, 1)
             w == Gains(p, -1)
  <2> HIDE DEF u, w
  <2>2. Plus(Total(u), Total(w)) = Total(p)
    BY <1>7, <2>1, TotalOfSums DEF u, w
  <2> QED
    BY <2>2, Zenon DEF u, w
<1>9. ClosedFees(l) = paid[end[c]]
  BY <1>3, ClosedFeesAre, SMT
<1>10. MapThenSumSet(LAMBDA n : fills[n].fee, DOMAIN fills) = paid[N]
  BY FeesAre DEF N
<1> QED
  BY <1>5, <1>6, <1>7, <1>8, <1>9, <1>10, Zenon DEF p, l, N

(* The invariant is strong enough for the ledger to reconcile.              *)
LEMMA LedgerReconcilesAlways ==
  ASSUME RunInv, ReportInv, LedgerInv
  PROVE  LedgerReconciles
<1>1. PICK pos, flow, paid, count, since : Books(pos, flow, paid, count, since)
  BY HasBooks
<1>2. LastIs(pos, flow, paid, count, since)
  BY <1>1, BooksEnd, Zenon
<1>3. /\ Ledger.held = Held
      /\ Minus(Whole(Equity - InitialCash * Scale * Scale), Ledger.realized)
           = IF Held = 0 THEN Whole(0) ELSE Unrealized
  BY <1>2, RealizedAbove
<1>4. Ledger.realized = Total([n \in DOMAIN fills |-> Execution(n).realized])
  BY <1>1, RealizedIs, Zenon
<1>5. Equity = cash + Held * marks[Ticker] * Scale * Scale
  BY EquityOfRun
<1>6. Held = 0 =>
        /\ Plus(Total(Gains(Profits(Ledger.closed), 1)), Total(Gains(Profits(Ledger.closed), -1)))
             = Whole(Equity - InitialCash * Scale * Scale)
        /\ ClosedFees(Ledger.closed) = MapThenSumSet(LAMBDA n : fills[n].fee, DOMAIN fills)
  BY <1>1, FlatReconciles, Zenon
<1> DEFINE net == Whole(Equity - InitialCash * Scale * Scale)
           rest == Minus(net, Ledger.realized)
           won == Total(Gains(Profits(Ledger.closed), 1))
           lost == Total(Gains(Profits(Ledger.closed), -1))
           fees == MapThenSumSet(LAMBDA n : fills[n].fee, DOMAIN fills)
           realized == Ledger.realized
<1>7. Metrics = [net |-> net, realized |-> realized, unrealized |-> rest, won |-> won,
                 lost |-> lost, fees |-> fees]
  BY Zenon DEF Metrics, Gains, Profits
<1>8. EndPosition.value = Held * marks[Ticker] * Scale * Scale
      /\ EndPosition.unrealized = IF Held = 0 THEN Whole(0) ELSE Unrealized
  <2> DEFINE V == Held * marks[Ticker] * Scale * Scale
             u == IF Held = 0 THEN Whole(0) ELSE Unrealized
  <2>1. EndPosition = [shares |-> Held, value |-> V, unrealized |-> u]
    BY Zenon DEF EndPosition
  <2> HIDE DEF V, u
  <2>2. EndPosition.value = V /\ EndPosition.unrealized = u
    BY <2>1
  <2> QED
    BY <2>2, Zenon DEF V, u
<1>9. /\ Metrics.net = net /\ Metrics.realized = realized /\ Metrics.unrealized = rest
      /\ Metrics.won = won /\ Metrics.lost = lost /\ Metrics.fees = fees
  <2> HIDE DEF net, rest, won, lost, fees, realized
  <2> QED
    BY <1>7
<1> QED
  BY <1>3, <1>4, <1>5, <1>6, <1>8, <1>9, Zenon DEF LedgerReconciles, ClosedFees

(* What a report says is realized, unrealized, won, lost and paid in fees   *)
(* reconciles with the account at every step of every run (RunReport,       *)
(* LedgerReconciles).                                                       *)
THEOREM LedgerAlwaysReconciles == ReportSpec => []LedgerReconciles
<1>1. RunInv /\ ReportInv /\ LedgerInv => LedgerReconciles
  BY LedgerReconcilesAlways
<1> QED
  BY <1>1, LedgerInvariant, PTL

(* The days of a trade are counted by the snapshots, of which there is one  *)
(* for every session once the run is done.                                  *)
LEMMA DaysAre ==
  ASSUME RunInv, ReportInv, LedgerInv, phase = "done",
         NEW m \in 1 .. Len(fills), NEW n \in 1 .. Len(fills), m <= n
  PROVE  HoldingPeriod(Session(m), Session(n)) = Session(n) - Session(m)
<1> DEFINE a == Session(m)
           b == Session(n)
           L == Len(snapshots)
           observed == {d \in DOMAIN snapshots : a <= d /\ d <= b}
<1>1. /\ a = signals[m] + 1 /\ a \in Nat /\ m \in DOMAIN signals
      /\ b = signals[n] + 1 /\ b \in Nat /\ n \in DOMAIN signals
  BY SessionIs, Zenon
<1>2. signals \in Seq(Nat) /\ bars \in Nat
  BY Zenon DEF RunInv, BookTyped
<1>3. signals[m] \in Nat /\ signals[n] \in Nat
  BY <1>1, <1>2, ElementOfSeq, LenProperties
<1>4. L = bars /\ DOMAIN snapshots = 1 .. L
  <2>1. ~ Sweeping /\ phase \notin {"close", "failed"}
    BY DEF RunInv, SweepIs
  <2>2. Len(snapshots) = IF phase \in {"close", "failed"} \/ Sweeping THEN bars - 1 ELSE bars
    BY Zenon DEF LedgerInv, SnapshotsTaken
  <2>3. DOMAIN snapshots = 1 .. L
    BY SnapshotFacts, Zenon
  <2> QED
    BY <2>1, <2>2, <2>3, Zenon
<1>5. signals[n] <= bars /\ signals[n] # bars
  <2>1. signals[n] \in Signalled
    BY <1>1 DEF Signalled
  <2>2. signals[n] <= bars /\ (signals[n] = bars => phase = "sweep" /\ ~ Sweeping)
    BY <2>1, Zenon DEF ReportInv, EvidenceIsUnique
  <2>3. phase # "sweep"
    OBVIOUS
  <2> QED
    BY <2>2, <2>3, Zenon
<1>6. signals[m] <= signals[n]
  <2>1. m < n => signals[m] < signals[n]
    BY <1>1, Zenon DEF LedgerInv, FillsInOrder
  <2>2. m \in Int /\ n \in Int
    OBVIOUS
  <2> QED
    BY <1>3, <2>1, <2>2
<1> DEFINE x == signals[m]
           y == signals[n]
<1> HIDE DEF a, b, L, x, y
<1>7. L \in Nat /\ a \in Nat /\ b \in Nat /\ 1 <= a /\ a <= b /\ b <= L
  <2>1. a = x + 1 /\ b = y + 1 /\ x \in Nat /\ y \in Nat /\ x <= y /\ y <= bars /\ y # bars /\ L = bars /\ bars \in Nat
    BY <1>1, <1>2, <1>3, <1>4, <1>5, <1>6, Zenon DEF x, y
  <2> QED
    BY <2>1
<1>8. observed = a .. b
  <2>1. observed = {d \in 1 .. L : a <= d /\ d <= b}
    BY <1>4, Zenon
  <2> HIDE DEF observed
  <2> QED
    BY <1>7, <2>1
<1>9. Cardinality(a .. b) = b - a + 1 /\ a .. b # {}
  <2>1. a \in Int /\ b \in Int /\ ~ (a > b) /\ a \in a .. b
    BY <1>7
  <2>2. Cardinality(a .. b) = IF a > b THEN 0 ELSE b - a + 1
    BY <2>1, FS_Interval, Zenon
  <2> QED
    BY <2>1, <2>2, Zenon
<1>10. HoldingPeriod(a, b) = IF observed = {} THEN 0 ELSE Cardinality(observed) - 1
  BY Zenon DEF HoldingPeriod
<1> HIDE DEF observed
<1>11. HoldingPeriod(a, b) = Cardinality(a .. b) - 1
  BY <1>8, <1>9, <1>10, Zenon
<1>12. HoldingPeriod(a, b) = b - a
  BY <1>7, <1>9, <1>11
<1> QED
  BY <1>12 DEF a, b

(* When the ledger is flat, by the books.                                   *)
FlatAfter(pos, n) == {m \in 1 .. n : pos[m] = 0}

(* The flat positions of the ledger are those of the books.                 *)
LEMMA FlatIs ==
  ASSUME RunInv, ReportInv, LedgerInv,
         NEW pos, NEW flow, NEW paid, NEW count, NEW since, Books(pos, flow, paid, count, since)
  PROVE  /\ {n \in Flat : n > 0} = FlatAfter(pos, Len(fills))
         /\ \A n \in FlatAfter(pos, Len(fills)) :
              /\ n \in 1 .. Len(fills) /\ pos[n] = 0
              /\ {m \in FlatAfter(pos, Len(fills)) : m <= n} = FlatAfter(pos, n)
              /\ {m \in Flat : m < n} = {m \in 0 .. n - 1 : pos[m] = 0}
<1> DEFINE N == Len(fills)
<1>1. N \in Nat
  BY ReportFacts DEF ReportInv
<1>2. \A n \in 0 .. N : PositionAfter[n] = pos[n]
  <2>1. AddUp(pos, flow)
    BY Zenon DEF Books
  <2> QED
    BY <2>1, PositionIs
<1>3. Flat = {n \in 0 .. N : pos[n] = 0}
  BY <1>2, Zenon DEF Flat
<1> HIDE DEF N
<1>4. {n \in Flat : n > 0} = FlatAfter(pos, N)
  BY <1>1, <1>3 DEF FlatAfter
<1>5. ASSUME NEW n \in FlatAfter(pos, N)
      PROVE  /\ n \in 1 .. N /\ pos[n] = 0
             /\ {m \in FlatAfter(pos, N) : m <= n} = FlatAfter(pos, n)
             /\ {m \in Flat : m < n} = {m \in 0 .. n - 1 : pos[m] = 0}
  <2>1. n \in 1 .. N /\ pos[n] = 0
    BY DEF FlatAfter
  <2>2. {m \in FlatAfter(pos, N) : m <= n} = FlatAfter(pos, n)
    BY <1>1, <2>1 DEF FlatAfter
  <2>3. {m \in Flat : m < n} = {m \in 0 .. n - 1 : pos[m] = 0}
    BY <1>1, <1>3, <2>1
  <2> QED
    BY <2>1, <2>2, <2>3
<1> QED
  BY <1>4, <1>5 DEF N

(* A closed trade is the round that ends with its last fill.                *)
RoundTrip(pos, count, since, n) ==
  /\ Max({m \in 0 .. n - 1 : pos[m] = 0}) = since[n - 1]
  /\ Cardinality(FlatAfter(pos, n)) = count[n]
  /\ Ledger.closed[count[n]].profit = Whole(CashFlow(since[n - 1], n))
  /\ phase = "done" => Ledger.closed[count[n]].days = Session(n) - Session(since[n - 1] + 1)

(* That is what the ledger and the books say of a flat position.            *)
LEMMA TradeIs ==
  ASSUME RunInv, ReportInv, LedgerInv,
         NEW pos, NEW flow, NEW paid, NEW count, NEW since, Books(pos, flow, paid, count, since),
         NEW n \in 1 .. Len(fills), pos[n] = 0
  PROVE  RoundTrip(pos, count, since, n)
<1> DEFINE N == Len(fills)
           s == since[n - 1]
           trade == Ledger.closed[count[n]]
<1>1. N \in Nat /\ n - 1 \in 0 .. N /\ n \in 0 .. N
  BY ReportFacts DEF ReportInv
<1>2. Rounds(N, pos, count, since) /\ pos[0] = 0
  BY Zenon DEF Books, AddUp
<1>3. \A k \in 0 .. N : RoundIs(pos, count, since, k)
  <2> HIDE DEF N
  <2> QED
    BY <1>1, <1>2, RoundFacts
<1>4. RoundIs(pos, count, since, n) /\ RoundIs(pos, count, since, n - 1)
  BY <1>1, <1>3, Zenon
<1>5. s \in 0 .. n - 1
  BY <1>1, <1>2, Zenon DEF Rounds
<1>6. Max({m \in 0 .. n - 1 : pos[m] = 0}) = s
  <2> DEFINE S == {m \in 0 .. n - 1 : pos[m] = 0}
  <2>1. pos[s] = 0 /\ \A m \in 0 .. n - 1 : pos[m] = 0 => m <= s
    BY <1>4, Zenon DEF RoundIs
  <2> HIDE DEF s
  <2>2. S \in SUBSET Int /\ s \in S /\ \A x \in S : x <= s
    BY <1>5, <2>1
  <2> HIDE DEF S
  <2>3. Max(S) = s
    BY <2>2, MaxIs
  <2> QED
    BY <2>3 DEF S
<1>7. Cardinality(FlatAfter(pos, n)) = count[n]
  BY <1>4, Zenon DEF RoundIs, FlatAfter
<1>8. trade = Trip(flow, paid, s, n)
  <2>1. LastIs(pos, flow, paid, count, since)
    BY BooksEnd, Zenon
  <2>2. EpisodeIs(pos, flow, paid, count, since, N, Ledger)
    BY <2>1, Zenon DEF LastIs
  <2> QED
    BY <2>2, Zenon DEF EpisodeIs
<1>9. trade.profit = Whole(flow[n] - flow[s]) /\ trade.days = HoldingPeriod(Session(s + 1), Session(n))
  <2> DEFINE w == Whole(flow[n] - flow[s])
             f == paid[n] - paid[s]
             d == HoldingPeriod(Session(s + 1), Session(n))
  <2>1. trade = [profit |-> w, fees |-> f, days |-> d]
    BY <1>8, Zenon DEF Trip
  <2> HIDE DEF w, f, d, trade
  <2>2. trade.profit = w /\ trade.days = d
    BY <2>1
  <2> QED
    BY <2>2, Zenon DEF w, d
<1> HIDE DEF trade, s
<1>10. CashFlow(s, n) = flow[n] - flow[s]
  <2>1. s \in 0 .. N /\ s <= n
    BY <1>1, <1>5
  <2> QED
    BY <1>1, <2>1, CashFlowIs
<1>11. phase = "done" => HoldingPeriod(Session(s + 1), Session(n)) = Session(n) - Session(s + 1)
  <2> SUFFICES ASSUME phase = "done" PROVE HoldingPeriod(Session(s + 1), Session(n)) = Session(n) - Session(s + 1)
    OBVIOUS
  <2> DEFINE m == s + 1
  <2>1. m \in 1 .. N /\ m <= n
    BY <1>1, <1>5
  <2> HIDE DEF m
  <2>2. HoldingPeriod(Session(m), Session(n)) = Session(n) - Session(m)
    BY <2>1, DaysAre
  <2> QED
    BY <2>2 DEF m
<1> QED
  BY <1>6, <1>7, <1>9, <1>10, <1>11, Zenon DEF s, trade, RoundTrip

(* The invariant is strong enough for the closed trades.                    *)
LEMMA ClosedTradesAre ==
  ASSUME RunInv, ReportInv, LedgerInv
  PROVE  ClosedTradesAreRoundTrips
<1>1. PICK pos, flow, paid, count, since : Books(pos, flow, paid, count, since)
  BY HasBooks
<1> DEFINE N == Len(fills)
           trips == {n \in Flat : n > 0}
           T == FlatAfter(pos, N)
           l == Ledger.closed
<1>2. trips = T
  BY <1>1, FlatIs, Zenon
<1>3. \A n \in T : /\ n \in 1 .. N /\ pos[n] = 0
                   /\ {m \in T : m <= n} = FlatAfter(pos, n)
                   /\ {m \in Flat : m < n} = {m \in 0 .. n - 1 : pos[m] = 0}
  BY <1>1, FlatIs, Zenon
<1>4. LastIs(pos, flow, paid, count, since)
  BY <1>1, BooksEnd, Zenon
<1>5. N \in Nat
  BY ReportFacts DEF ReportInv
<1>6. Len(l) = count[N] /\ l \in Seq(Trades)
  <2>1. EpisodeIs(pos, flow, paid, count, since, N, Ledger)
    BY <1>4, Zenon DEF LastIs
  <2>2. Len(l) = count[N] /\ Ledger \in Episodes
    BY <2>1, Zenon DEF EpisodeIs
  <2> QED
    BY <2>2, EpisodeParts
<1>7. Cardinality(T) = count[N] /\ IsFiniteSet(T)
  <2>1. Rounds(N, pos, count, since) /\ pos[0] = 0 /\ N \in 0 .. N
    BY <1>1, <1>5 DEF Books, AddUp
  <2>2. RoundIs(pos, count, since, N)
    <3> HIDE DEF N
    <3> QED
      BY <1>5, <2>1, RoundFacts
  <2>3. Cardinality(T) = count[N]
    BY <2>2, Zenon DEF RoundIs, FlatAfter
  <2>4. T \in SUBSET (1 .. N) /\ IsFiniteSet(1 .. N)
    BY <1>5, FS_Interval DEF FlatAfter
  <2> QED
    BY <2>3, <2>4, FS_Subset
<1> HIDE DEF l, T
<1>8. Outcome = "completed" <=> T # {}
  <2>1. l = <<>> <=> Len(l) = 0
    BY <1>6, EmptySeq
  <2>2. T = {} <=> Cardinality(T) = 0
    BY <1>7, FS_EmptySet
  <2>3. Outcome = IF l = <<>> THEN "completed_no_trades" ELSE "completed"
    BY DEF Outcome, l
  <2> QED
    BY <1>6, <1>7, <2>1, <2>2, <2>3
<1>9. ASSUME NEW n \in T
      PROVE  /\ l[Cardinality({m \in T : m <= n})].profit = Whole(CashFlow(Max({m \in Flat : m < n}), n))
             /\ phase = "done" => l[Cardinality({m \in T : m <= n})].days
                                    = Session(n) - Session(Max({m \in Flat : m < n}) + 1)
  <2>1. /\ Max({m \in 0 .. n - 1 : pos[m] = 0}) = since[n - 1]
        /\ Cardinality(FlatAfter(pos, n)) = count[n]
        /\ l[count[n]].profit = Whole(CashFlow(since[n - 1], n))
        /\ phase = "done" => l[count[n]].days = Session(n) - Session(since[n - 1] + 1)
    <3>1. n \in 1 .. N /\ pos[n] = 0
      BY <1>3, Zenon
    <3>2. RoundTrip(pos, count, since, n)
      BY <1>1, <3>1, TradeIs, Zenon
    <3> QED
      BY <3>2, Zenon DEF RoundTrip, l
  <2>2. {m \in T : m <= n} = FlatAfter(pos, n) /\ {m \in Flat : m < n} = {m \in 0 .. n - 1 : pos[m] = 0}
    BY <1>3, Zenon
  <2> QED
    BY <2>1, <2>2, Zenon
<1> HIDE DEF N, trips
<1>10. /\ Len(l) = Cardinality(trips)
       /\ Outcome = "completed" <=> trips # {}
       /\ \A n \in trips :
            /\ l[Cardinality({m \in trips : m <= n})].profit = Whole(CashFlow(Max({m \in Flat : m < n}), n))
            /\ phase = "done" => l[Cardinality({m \in trips : m <= n})].days
                                   = Session(n) - Session(Max({m \in Flat : m < n}) + 1)
  BY <1>2, <1>6, <1>7, <1>8, <1>9, Zenon
<1> QED
  BY <1>10, Zenon DEF ClosedTradesAreRoundTrips, l, trips

(* The closed trades are the round trips of the fills, with the cash that   *)
(* came in and the sessions they took, at every step of every run.          *)
THEOREM ClosedTradesAreAlwaysRoundTrips == ReportSpec => []ClosedTradesAreRoundTrips
<1>1. RunInv /\ ReportInv /\ LedgerInv => ClosedTradesAreRoundTrips
  BY ClosedTradesAre
<1> QED
  BY <1>1, LedgerInvariant, PTL
=============================================================================
