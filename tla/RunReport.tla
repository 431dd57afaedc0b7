------------------------------- MODULE RunReport -------------------------------
(***************************************************************************)
(* What a typed backtest reports of itself: the trade ledger               *)
(* (broker/ledger.py), the decisions with their execution dates, the       *)
(* benchmark, the end position and the reasons for a run without trades    *)
(* (broker/backtest_runner.py), and the view of it all (broker/views.py).  *)
(*                                                                         *)
(* The ledger is long-only here, as the run is.  Amounts are over          *)
(* Scale * Scale; an average cost is a fraction, kept as [n, d].           *)
(***************************************************************************)
EXTENDS TargetRun

CONSTANTS
  MaxStale,   \* _BENCHMARK_MAX_STALE_TARGET_SESSIONS
  MaxMissing  \* bound: closes that may be missing on the first bar

ASSUME ReportAssumption == MaxStale \in Nat /\ MaxMissing \in Nat

VARIABLES
  missing,    \* minimum_close_count less the closes known before the window
  recorded,   \* recorded_decisions: what became of each decision date
  unfilled,   \* target_intent_evidence: signal bars of intents without an order
  snapshots   \* daily snapshots: the equity at the close of each bar

reportVars == <<missing, recorded, unfilled, snapshots>>
-----------------------------------------------------------------------------
Decision == [signal : 1 .. MaxBars, status : {"completed", "not_ready"},
             action : {"BUY", "SELL", "HOLD", "none"}, execution : 0 .. MaxBars]

ReportTypeOK ==
  /\ RunTypeOK
  /\ missing \in 0 .. MaxMissing
  /\ recorded \in Seq(Decision)
  /\ unfilled \subseteq 1 .. MaxBars
  /\ snapshots \in Seq(Int)

ReportInit ==
  /\ RunInit
  /\ missing \in 0 .. MaxMissing
  /\ recorded = <<>> /\ unfilled = {} /\ snapshots = <<>>

(* Mutant: the decision is compared in whole shares. *)
ActionInShares(target) ==
  LET want == (target * Equity) \div (marks[Ticker] * Scale * Scale * Scale)
  IN IF want = Held THEN "HOLD" ELSE IF want > Held THEN "BUY" ELSE "SELL"

(* A decision is named by comparing its target with the position held.      *)
Action(target) ==
  LET have == Held * marks[Ticker] * Scale * Scale * Scale
      want == target * Equity
  IN IF want = have THEN "HOLD" ELSE IF want > have THEN "BUY" ELSE "SELL"

(* An intent that asks for no whole share leaves evidence, unless the       *)
(* position is the target to the cent.                                      *)
Unfilled(p) ==
  /\ intent # NoIntent /\ Desired(p, intent.target) = Held
  /\ Held * SharePrice(p) * Scale # intent.target * PrefillEquity(p)

(* The placement of an intent is dated with the session of its open, also   *)
(* when it left no more than evidence; a target already met is not placed.  *)
Dated(decisions, signal, session) ==
  [i \in DOMAIN decisions |->
     IF decisions[i].signal = signal THEN [decisions[i] EXCEPT !.execution = session]
     ELSE decisions[i]]

ReportOpen ==
  /\ OpenBar
  /\ LET bare == Unfilled(today'.open)
     IN /\ unfilled' = unfilled \union (IF bare THEN {intent.bar} ELSE {})
        /\ recorded' = IF bare \/ orders' # orders THEN Dated(recorded, intent.bar, bars + 1)
                       ELSE recorded
  /\ UNCHANGED <<missing, snapshots>>

(* Closes enough for the policy are known.                                  *)
Ready == bars > missing

NotReady == [signal |-> bars, status |-> "not_ready", action |-> "none", execution |-> 0]
Completed(target) ==
  [signal |-> bars, status |-> "completed", action |-> Action(target), execution |-> 0]

(* record_daily_snapshot                                                    *)
RecordDailySnapshot == snapshots' = Append(snapshots, Equity)

(* The end of a bar: no decision date, one whose history is too short, a    *)
(* decision, or one that raises and ends the run.  All but the last leave a *)
(* daily snapshot.                                                          *)
ReportClose ==
  /\ CloseBar
  /\ \/ intent' = intent /\ phase' # "failed" /\ recorded' = recorded
     \/ /\ CanDecide /\ ~ Ready /\ intent' = intent /\ phase' # "failed"
        /\ recorded' = Append(recorded, NotReady)
     \/ Ready /\ intent' # intent /\ recorded' = Append(recorded, Completed(intent'.target))
     \/ Ready /\ phase' = "failed" /\ recorded' = recorded
  /\ IF phase' = "failed" THEN UNCHANGED snapshots ELSE RecordDailySnapshot
  /\ UNCHANGED <<missing, unfilled>>

ReportNext == ReportOpen \/ (Sweep /\ UNCHANGED reportVars) \/ ReportClose

ReportSpec == ReportInit /\ [][ReportNext]_<<vars, reportVars>>
-----------------------------------------------------------------------------
(* Fractions.                                                               *)
Gcd[p \in Nat \X Nat] == IF p[2] = 0 THEN p[1] ELSE Gcd[<<p[2], p[1] % p[2]>>]
Frac(n, d) ==
  LET g == Gcd[<<AbsInt(n), d>>] IN IF n = 0 THEN [n |-> 0, d |-> 1] ELSE [n |-> n \div g, d |-> d \div g]
Whole(n) == Frac(n, 1)
Plus(x, y) == Frac(x.n * y.d + y.n * x.d, x.d * y.d)
Minus(x, y) == Plus(x, [y EXCEPT !.n = -@])
Times(x, k, d) == Frac(x.n * k, x.d * d)
Less(x, y) == x.n * y.d < y.n * x.d

(* record_fill keeps the broker's position after each fill; what the fill   *)
(* did to the position is the difference from the record before it.         *)
PositionAfter[n \in 0 .. Len(fills)] == IF n = 0 THEN 0 ELSE PositionAfter[n - 1] + fills[n].signed
SignedQuantity(n) == PositionAfter[n] - PositionAfter[n - 1]

(* Value of a fill.                                                         *)
FillValue(f) == f.price * AbsInt(f.signed) * Scale

(* The session a fill was executed in, and the sessions a trade was held,   *)
(* counted by the snapshots taken meanwhile.                                *)
Session(n) == signals[fills[n].order] + 1
HoldingPeriod(entry, exit) ==
  LET observed == {d \in DOMAIN snapshots : entry <= d /\ d <= exit}
  IN IF observed = {} THEN 0 ELSE Cardinality(observed) - 1

(* _LongOnlyEpisode, together with what the ledger derived of the fills so  *)
(* far: the position, its cost, the profit realized in all and in the open  *)
(* episode with its entry and fees, and the closed trades.                  *)
NoEpisode == [held |-> 0, cost |-> Whole(0), realized |-> Whole(0), episode |-> Whole(0),
              entry |-> 0, fees |-> 0, closed |-> <<>>]

(* Mutant: the fee of a purchase is not part of its cost. *)
BoughtWithoutFee(e, n) ==
  [e EXCEPT !.held = @ + SignedQuantity(n), !.cost = Plus(@, Whole(FillValue(fills[n]))),
            !.entry = IF e.held = 0 THEN Session(n) ELSE @, !.fees = @ + fills[n].fee]

(* A purchase opens an episode or adds to it, its fee included.             *)
Bought(e, n) ==
  [e EXCEPT !.held = @ + SignedQuantity(n),
            !.cost = Plus(@, Whole(FillValue(fills[n]) + fills[n].fee)),
            !.entry = IF e.held = 0 THEN Session(n) ELSE @, !.fees = @ + fills[n].fee]

(* What a sale realizes at the average cost.                                *)
Profit(e, f) == Minus(Whole(FillValue(f) - f.fee), Times(e.cost, -f.signed, e.held))
Trade(e, n) ==
  [profit |-> Plus(e.episode, Profit(e, fills[n])), fees |-> e.fees + fills[n].fee,
   days |-> HoldingPeriod(e.entry, Session(n))]

(* Mutant: a partial reduction closes the trade too. *)
SoldClosesAlways(e, n) ==
  LET left == e.held + SignedQuantity(n)
  IN [NoEpisode EXCEPT !.held = left, !.cost = Times(e.cost, left, e.held), !.entry = e.entry,
        !.realized = Plus(e.realized, Profit(e, fills[n])), !.closed = Append(e.closed, Trade(e, n))]

(* A sale closes the episode when nothing is left of it.                    *)
Sold(e, n) ==
  LET left == e.held + SignedQuantity(n)
      after == [e EXCEPT !.held = left, !.cost = Times(e.cost, left, e.held),
                         !.realized = Plus(@, Profit(e, fills[n])),
                         !.episode = Plus(@, Profit(e, fills[n])), !.fees = @ + fills[n].fee]
  IN IF left > 0 THEN after
     ELSE [NoEpisode EXCEPT !.realized = after.realized, !.closed = Append(e.closed, Trade(e, n))]

(* _reconstruct_long_only_episodes: the fills in the order of their time.   *)
LedgerAfter ==
  LET after[n \in 0 .. Len(fills)] ==
        IF n = 0 THEN NoEpisode
        ELSE IF SignedQuantity(n) > 0 THEN Bought(after[n - 1], n) ELSE Sold(after[n - 1], n)
  IN after
Ledger == LedgerAfter[Len(fills)]

(* to_trade_view: a fill with what it realized and the shares it left.      *)
Execution(n) ==
  [side |-> IF SignedQuantity(n) > 0 THEN "buy" ELSE "sell", price |-> fills[n].price,
   quantity |-> AbsInt(fills[n].signed), fee |-> fills[n].fee,
   realized |-> Minus(LedgerAfter[n].realized, LedgerAfter[n - 1].realized),
   shares_after |-> LedgerAfter[n].held]
Executions == [n \in DOMAIN fills |-> Execution(n)]

(* open_long_position_accounting: the open position at the mark.            *)
Unrealized == Minus(Whole(Held * marks[Ticker] * Scale * Scale), Ledger.cost)

(* _end_position: what is held when the last bar is over.                   *)
EndPosition ==
  [shares |-> Held, value |-> Held * marks[Ticker] * Scale * Scale,
   unrealized |-> IF Held = 0 THEN Whole(0) ELSE Unrealized]

(* _order_evidence: what became of each order, and the intents without one. *)
OutcomeOf(status) ==
  CASE status = "FILLED" -> "executed" [] status = "REJECTED" -> "rejected"
    [] status = "CANCELED" -> "cancelled" [] OTHER -> "unfilled"
Evidence ==
  {[signal |-> signals[i], outcome |-> OutcomeOf(orders[i].status)] : i \in DOMAIN orders}
    \union {[signal |-> b, outcome |-> "unfilled"] : b \in unfilled}
-----------------------------------------------------------------------------
(* compute_metrics: falls of the equity below its running maximum.          *)
Peak(k) == Max({snapshots[i] : i \in 1 .. k})
Drawdown(k) == Frac(Peak(k) - snapshots[k], Peak(k))

(* Mutant: the fall is taken from the first equity. *)
MaxDrawdownFromStart ==
  FoldSet(LAMBDA k, worst : LET d == Frac(snapshots[1] - snapshots[k], snapshots[1])
                            IN IF Less(worst, d) THEN d ELSE worst,
          Whole(0), DOMAIN snapshots)

MaxDrawdown ==
  FoldSet(LAMBDA k, worst : IF Less(worst, Drawdown(k)) THEN Drawdown(k) ELSE worst,
          Whole(0), DOMAIN snapshots)

MaxDrawdownDuration ==
  LET current[k \in 0 .. Len(snapshots)] ==
        IF k = 0 THEN 0 ELSE IF Drawdown(k).n > 0 THEN current[k - 1] + 1 ELSE 0
  IN Max({current[k] : k \in 0 .. Len(snapshots)})

(* compute_metrics: the profits as they are reported; the ratios over them  *)
(* are left out.                                                            *)
Total(profits) ==
  LET upTo[n \in 0 .. Len(profits)] ==
        IF n = 0 THEN Whole(0) ELSE Plus(upTo[n - 1], profits[n])
  IN upTo[Len(profits)]
Metrics ==
  LET ledger == Ledger
      profits == [i \in DOMAIN ledger.closed |-> ledger.closed[i].profit]
      Those(sign) ==
        [i \in DOMAIN profits |-> IF profits[i].n * sign > 0 THEN profits[i] ELSE Whole(0)]
      net == Whole(Equity - InitialCash * Scale * Scale)
  IN [net |-> net, realized |-> ledger.realized, unrealized |-> Minus(net, ledger.realized),
      won |-> Total(Those(1)),
      lost |-> Total(Those(-1)),
      fees |-> MapThenSumSet(LAMBDA n : fills[n].fee, DOMAIN fills)]

(* _build_portfolio_performance_view: the bar of the benchmark each session *)
(* is compared with, 0 when the first session has none or the last known    *)
(* one is older than MaxStale sessions.  The cash buys a share of it.       *)
Benchmark(sessions, present) ==
  [k \in 1 .. sessions |->
     LET known == {i \in present : i <= k} IN
       IF 1 \notin present \/ k - Max(known) > MaxStale THEN 0 ELSE Max(known)]

BenchmarkReturnKnown(sessions, present) ==
  \A k \in 1 .. sessions : Benchmark(sessions, present)[k] # 0

(* _zero_trade_reasons.                                                     *)
Typed == {i \in DOMAIN recorded : recorded[i].status = "completed"}
ReasonHolds ==
  [no_signals |-> recorded = <<>>,
   not_ready |-> Typed # DOMAIN recorded,
   all_hold |-> Typed # {} /\ \A i \in Typed : recorded[i].action = "HOLD",
   all_rejected |-> orders # <<>> /\ \A i \in DOMAIN orders : orders[i].status = "REJECTED"]
Reasons == IF fills # <<>> THEN {} ELSE {r \in DOMAIN ReasonHolds : ReasonHolds[r]}

(* A run none of whose decisions had history enough ends with an error      *)
(* instead of a result.                                                     *)
InsufficientHistory == recorded # <<>> /\ Typed = {}
Reported == phase = "done" /\ ~ InsufficientHistory
-----------------------------------------------------------------------------
(* The views: the counts and the profits of the summary, the series of the  *)
(* equity beside the benchmark, and the result with its outcome.            *)
Summary(present) ==
  [net |-> Metrics.net, realized |-> Metrics.realized, unrealized |-> Metrics.unrealized,
   total |-> Frac(Metrics.net.n, InitialCash * Scale * Scale),
   fees |-> Metrics.fees, fills |-> Len(fills), trades |-> Len(Ledger.closed),
   orders |-> Len(orders),
   rejections |-> Cardinality({i \in DOMAIN orders : orders[i].status = "REJECTED"}),
   drawdown |-> MaxDrawdown, duration |-> MaxDrawdownDuration,
   compared |-> BenchmarkReturnKnown(bars, present)]

Series(present) ==
  [k \in DOMAIN snapshots |->
     [equity |-> snapshots[k], drawdown |-> Drawdown(k), benchmark |-> Benchmark(bars, present)[k]]]

Outcome == IF Ledger.closed = <<>> THEN "completed_no_trades" ELSE "completed"

ResultView(present) ==
  [outcome |-> Outcome, summary |-> Summary(present), series |-> Series(present),
   executions |-> Executions, closed_trades |-> Ledger.closed, decisions |-> recorded,
   no_trade_reasons |-> Reasons, orders |-> Evidence, end_position |-> EndPosition]
-----------------------------------------------------------------------------
(* Correctness.                                                             *)

(* What the metrics leave as unrealized, the gain of the equity that no    *)
(* fill realized, is the open position at the mark above its average cost,  *)
(* fees included; what the executions realized is what the metrics say;     *)
(* and once flat the closed trades are all that was gained.                 *)
LedgerReconciles ==
  LET metrics == Metrics
      end == EndPosition
  IN /\ Ledger.held = Held
     /\ metrics.unrealized = end.unrealized
     /\ metrics.realized = Total([n \in DOMAIN fills |-> Execution(n).realized])
     /\ Equity = cash + end.value
     /\ Held = 0 => /\ Plus(metrics.won, metrics.lost) = metrics.net
                    /\ MapThenSumSet(LAMBDA i : Ledger.closed[i].fees, DOMAIN Ledger.closed)
                         = metrics.fees

(* A closed trade is a round trip from flat to flat, scale-ins and partial  *)
(* reductions included: its profit is the cash that came in meanwhile, and  *)
(* its days are the sessions from the first fill to the last.  The outcome  *)
(* says whether there was one.                                              *)
Flat == {n \in 0 .. Len(fills) : PositionAfter[n] = 0}
CashFlow(from, to) ==
  MapThenSumSet(LAMBDA i : -fills[i].price * fills[i].signed * Scale - fills[i].fee, from + 1 .. to)
ClosedTradesAreRoundTrips ==
  LET trips == {n \in Flat : n > 0} IN
    /\ Len(Ledger.closed) = Cardinality(trips)
    /\ Outcome = "completed" <=> trips # {}
    /\ \A n \in trips :
         LET start == Max({m \in Flat : m < n})
             trade == Ledger.closed[Cardinality({m \in trips : m <= n})]
         IN /\ trade.profit = Whole(CashFlow(start, n))
            /\ phase = "done" => trade.days = Session(n) - Session(start + 1)

(* The drawdown is the worst fall between any two days, its duration the    *)
(* longest stretch of days none of which reaches an earlier equity; and a   *)
(* session is only compared with a benchmark bar of its past, at most       *)
(* MaxStale sessions old, the return withheld when one is missing.          *)
WorstFall ==
  LET n == Len(snapshots) IN
    /\ \A i, k \in 1 .. n : i <= k =>
         ~Less(MaxDrawdown, Frac(snapshots[i] - snapshots[k], snapshots[i]))
    /\ MaxDrawdown.n = 0 \/ \E i, k \in 1 .. n :
         i <= k /\ MaxDrawdown = Frac(snapshots[i] - snapshots[k], snapshots[i])
LongestStretch ==
  LET n == Len(snapshots)
      Below(k) == \E i \in 1 .. k : snapshots[i] > snapshots[k]
  IN MaxDrawdownDuration =
       Max({0} \union {i \in 1 .. n : \E from \in 1 .. n - i + 1 :
                                      \A k \in from .. from + i - 1 : Below(k)})
LooksBack ==
  Reported => \A present \in SUBSET (1 .. bars) :
    LET series == Series(present) IN
      /\ \A k \in DOMAIN series : series[k].benchmark <= k
      /\ BenchmarkReturnKnown(bars, present) <=>
           /\ 1 \in present
           /\ \A k \in DOMAIN series : \E i \in present : i <= k /\ k <= i + MaxStale
FiguresAreRight == WorstFall /\ LongestStretch /\ LooksBack

(* The report accounts for every decision.  One that is dated has exactly   *)
(* one order or unfilled intent to show, signalled on its date and executed *)
(* on the next; one that is not dated has none.  A run explained by         *)
(* all_hold has asked the broker for nothing, although a decision to hold   *)
(* may trade when the next open moves the position off its target.  And a   *)
(* run without executions has a reason or an unfilled intent to show; an    *)
(* executed order is one execution.                                         *)
DecisionsAccountedFor ==
  Reported =>
    \A view \in {ResultView(1 .. bars)} :
      /\ \A i \in DOMAIN view.decisions :
           LET decision == view.decisions[i]
               shown == {e \in view.orders : e.signal = decision.signal}
           IN IF decision.execution = 0 THEN shown = {}
              ELSE Cardinality(shown) = 1 /\ decision.execution = decision.signal + 1
      /\ \A e \in view.orders : \E i \in Typed : recorded[i].signal = e.signal
      /\ Cardinality({e \in view.orders : e.outcome = "executed"}) = view.summary.fills
      /\ "all_hold" \in view.no_trade_reasons => view.orders = {}
      /\ view.executions = <<>> => view.no_trade_reasons # {} \/ view.orders # {}
=============================================================================
