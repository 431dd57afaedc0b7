---------------------------- MODULE BacktestInputs ----------------------------
(***************************************************************************)
(* What a backtest runs on: the bars it loaded and read (broker/backtest_  *)
(* data.py, dataflow/history.py), and the decisions of its frozen rule,    *)
(* session by session (agent/backtest_jobs.py, broker/backtest_runner.py,  *)
(* agent/backtest_policy_executor.py).                                     *)
(*                                                                         *)
(* A run reads the store in several statements while other runs and the    *)
(* collector write to it.  Of the benchmark's bars only the modes matter.  *)
(* Orders and fills are in Broker and TargetRun.                           *)
(***************************************************************************)
EXTENDS BacktestPolicy, MarketData

CONSTANTS
  Jobs,
  Policies,   \* the rules of the requests
  Pairs,      \* <<ticker, benchmark>> of a request
  MaxLoads    \* attempts of one preload: 4 in the code

ASSUME InputsAssumption ==
  /\ Pairs \subseteq Tickers \X Tickers /\ Policies \subseteq Policy
  /\ MaxLoads \in Nat \ {0} /\ "collector" \notin Jobs

VARIABLES
  phase,      \* what the job does next
  pair,       \* its ticker and its benchmark
  spec,       \* its frozen rule
  step,       \* the load or the read it is at
  loads,      \* attempts of the load
  answer,     \* revision in the provider's answer, 0 for none
  window,     \* the bars it executes on
  history,    \* the bars it decides on and its input snapshot holds
  modes,      \* modes among the benchmark's bars
  decided,    \* target decided at each session, NotReady for none
  calm        \* nobody else wrote its tickers since it began to load, and
              \* the provider answered each load

jobVars == <<phase, pair, spec, step, loads, answer, window, history, modes, decided, calm>>
vars == <<marketVars, jobVars>>
-----------------------------------------------------------------------------
NotReady == -1
Loading == {"fetch", "raw", "adjusted", "read"}
SnapshotRow == [bar : Bars, revision : DOMAIN Revisions, mode : {Adjusted, "unknown"}]
TypeOK ==
  /\ MarketTypeOK
  /\ phase \in [Jobs -> {"idle", "deciding", "done", "refused", "unready"}
                        \union Loading]
  /\ pair \in [Jobs -> Pairs] /\ spec \in [Jobs -> Policies]
  /\ step \in [Jobs -> 1 .. 6] /\ loads \in [Jobs -> 0 .. MaxLoads]
  /\ answer \in [Jobs -> {0} \union DOMAIN Revisions]
  /\ window \in [Jobs -> SUBSET SnapshotRow] /\ history \in [Jobs -> SUBSET SnapshotRow]
  /\ modes \in [Jobs -> SUBSET {Adjusted, "unknown"}]
  /\ DOMAIN decided = Jobs
  /\ \A j \in Jobs : DOMAIN decided[j] \subseteq Bars /\ Range(decided[j]) \subseteq {NotReady} \union 0 .. 100
  /\ calm \in [Jobs -> BOOLEAN]

Init ==
  /\ MarketInit
  /\ phase = [j \in Jobs |-> "idle"]
  /\ pair \in [Jobs -> Pairs] /\ spec \in [Jobs -> Policies]
  /\ step = [j \in Jobs |-> 1] /\ loads = [j \in Jobs |-> 0] /\ answer = [j \in Jobs |-> 0]
  /\ window = [j \in Jobs |-> {}] /\ history = [j \in Jobs |-> {}] /\ modes = [j \in Jobs |-> {}]
  /\ decided = [j \in Jobs |-> <<>>]
  /\ calm = [j \in Jobs |-> TRUE]

Goes(j, p) == phase' = [phase EXCEPT ![j] = p]
Frames == <<window, history, modes>>
-----------------------------------------------------------------------------
(* An accepted job gets a thread.                                           *)
Begin(j) ==
  /\ phase[j] = "idle" /\ Goes(j, "fetch")
  /\ UNCHANGED <<marketVars, pair, spec, step, loads, answer, Frames, decided, calm>>

(* Another writer of a ticker disturbs the runs that are loading it.        *)
Disturbs(t, self) ==
  calm' = [j \in Jobs |-> calm[j] /\ ~(j # self /\ phase[j] \in Loading /\ t \in Range(pair[j]))]

(* preload: the provider is asked, or gives no answer.                      *)
Fetch(j) ==
  /\ phase[j] = "fetch"
  /\ loads' = [loads EXCEPT ![j] = @ + 1]
  /\ \/ answer' = [answer EXCEPT ![j] = revision] /\ Goes(j, "raw") /\ UNCHANGED calm
     \/ /\ answer' = [answer EXCEPT ![j] = 0] /\ Goes(j, "adjusted")
        /\ calm' = [calm EXCEPT ![j] = FALSE]
  /\ UNCHANGED <<marketVars, pair, spec, step, Frames, decided>>

(* df_get_prices stores the answer itself, under the default mode; a store  *)
(* that raises is ignored.                                                  *)
StoreRaw(j) ==
  /\ phase[j] = "raw" /\ Goes(j, "adjusted")
  /\ \/ rows' = Upserted(pair[j][step[j]], 1, answer[j], "unknown") /\ Disturbs(pair[j][step[j]], j)
     \/ UNCHANGED <<rows, calm>>
  /\ UNCHANGED <<revision, listed, fetched, refreshes, pair, spec, step, loads, answer, Frames, decided>>

(* The same rows again; then the loader looks whether the store has the     *)
(* warm-up bars, and asks for more if not.                                  *)
StoreAs(j, mode) ==
  LET t == pair[j][step[j]]
      need == RequiredBars(spec[j])
  IN /\ phase[j] = "adjusted"
     /\ IF answer[j] # 0 THEN rows' = Upserted(t, 1, answer[j], mode) /\ Disturbs(t, j)
                         ELSE UNCHANGED <<rows, calm>>
     /\ IF Cardinality({b \in Bars : b < Start /\ rows'[t][b] # Absent}) < need /\ loads[j] < MaxLoads
        THEN Goes(j, "fetch") /\ UNCHANGED <<step, loads>>
        ELSE /\ loads' = [loads EXCEPT ![j] = 0]
             /\ IF step[j] = 1 THEN step' = [step EXCEPT ![j] = 2] /\ Goes(j, "fetch")
                               ELSE step' = [step EXCEPT ![j] = 1] /\ Goes(j, "read")
     /\ answer' = [answer EXCEPT ![j] = 0]
     /\ UNCHANGED <<revision, listed, fetched, refreshes, pair, spec, Frames, decided>>

(* Mutant: the rows keep the mode df_get_prices gave them. *)
StoreAdjustedUnknown(j) == StoreAs(j, "unknown")

StoreAdjusted(j) == StoreAs(j, Adjusted)
-----------------------------------------------------------------------------
(* prepare: six statements.  The run executes on the first, and decides on  *)
(* and freezes the third and the fourth.                                    *)
Modes(frame) == {row.mode : row \in frame}
Sessions(frame) == {row.bar : row \in frame}

ReadNext(j) ==
  LET t == pair[j][1]
      b == pair[j][2]
      i == step[j]
      tail == Warmup(t, RequiredBars(spec[j]))
  IN /\ window' = [window EXCEPT ![j] = IF i = 1 THEN Read(t, Window(t)) ELSE @]
     /\ history' = [history EXCEPT ![j] = CASE i = 3 -> Read(t, tail)
                                            [] i = 4 -> @ \union Read(t, Window(t)) [] OTHER -> @]
     /\ modes' = [modes EXCEPT ![j] =
          CASE i = 5 -> Modes(Read(b, Warmup(b, RequiredBars(spec[j]))))
            [] i = 6 -> @ \union Modes(Read(b, Window(b))) [] OTHER -> @]

(* No bars, no common session, mixed modes or another mode than the         *)
(* loader's: BacktestDataError.                                             *)
Refused(j) ==
  \/ step[j] = 2 /\ Sessions(window[j]) \intersect Window(pair[j][2]) = {}
  \/ step[j] = 6 /\ ~(Modes(history'[j]) \union modes'[j] \subseteq {Adjusted})

ReadStore(j) ==
  /\ phase[j] = "read" /\ ReadNext(j)
  /\ IF Refused(j) THEN Goes(j, "refused") /\ UNCHANGED step
     ELSE IF step[j] < 6 THEN step' = [step EXCEPT ![j] = @ + 1] /\ UNCHANGED phase
     ELSE step' = [step EXCEPT ![j] = 1] /\ Goes(j, "deciding")
  /\ UNCHANGED <<marketVars, pair, spec, loads, answer, decided, calm>>
-----------------------------------------------------------------------------
(* _decision_dates, daily: every session of the window but the last.        *)
DecisionBars(j) == Sessions(window[j]) \ {Max(Sessions(window[j]))}
Due(j) == DecisionBars(j) \ DOMAIN decided[j]

(* The values of <<session, value>> pairs in the order of their sessions.   *)
InOrder(dated) ==
  LET upTo[b \in 0 .. LastBar] ==
        IF b = 0 THEN <<>>
        ELSE IF \E d \in dated : d[1] = b
             THEN Append(upTo[b - 1], (CHOOSE d \in dated : d[1] = b)[2])
             ELSE upTo[b - 1]
  IN upTo[LastBar]

(* history.loc[:trading_date]                                               *)
DatedCloses(j, bar) ==
  {<<row.bar, Close(pair[j][1], row)>> : row \in {r \in history[j] : r.bar <= bar}}

(* Mutant: the close of the next session is among the features. *)
ClosesAhead(j, bar) == InOrder(DatedCloses(j, bar + 1))

Closes(j, bar) == InOrder(DatedCloses(j, bar))

Records(j, bar, target) ==
  decided' = [decided EXCEPT ![j] =
    [b \in DOMAIN decided[j] \union {bar} |-> IF b = bar THEN target ELSE decided[j][b]]]

(* The target kept from the decision before, reset when the run starts.     *)
LastTarget(j) ==
  LET taken == {b \in DOMAIN decided[j] : decided[j][b] # NotReady}
  IN IF taken = {} THEN 0 ELSE decided[j][Max(taken)]

(* One decision of a frozen rule.                                           *)
Decide(j) ==
  LET bar == Min(Due(j))
      closes == Closes(j, bar)
      target == IF Len(closes) < MinimumCloses(spec[j]) THEN NotReady
                ELSE PolicyTarget(spec[j], closes, LastTarget(j))
  IN /\ phase[j] = "deciding" /\ spec[j].mode = "deterministic" /\ Due(j) # {}
     /\ Records(j, bar, target)
     /\ UNCHANGED <<phase, marketVars, pair, spec, step, loads, answer, Frames, calm>>

(* One decision of a model, which needs one close; Strategies has its calls.*)
DecideByModel(j) ==
  /\ phase[j] = "deciding" /\ spec[j].mode = "agent_experiment" /\ Due(j) # {}
  /\ \E target \in {0, spec[j].target} :
       Records(j, Min(Due(j)), IF Closes(j, Min(Due(j))) = <<>> THEN NotReady ELSE target)
  /\ UNCHANGED <<phase, marketVars, pair, spec, step, loads, answer, Frames, calm>>

(* The run ends; without one ready decision it fails for want of history.   *)
Finish(j) ==
  /\ phase[j] = "deciding" /\ Due(j) = {}
  /\ Goes(j, IF DOMAIN decided[j] # {} /\ Range(decided[j]) = {NotReady} THEN "unready" ELSE "done")
  /\ UNCHANGED <<marketVars, pair, spec, step, loads, answer, Frames, decided, calm>>

Run(j) ==
  \/ Begin(j) \/ Fetch(j) \/ StoreRaw(j) \/ StoreAdjusted(j) \/ ReadStore(j)
  \/ Decide(j) \/ DecideByModel(j) \/ Finish(j)

Provide ==
  /\ \/ Revise /\ UNCHANGED calm
     \/ \E t \in Tickers : RefreshFetch(t) /\ UNCHANGED calm
     \/ \E t \in Tickers : RefreshStore(t) /\ Disturbs(t, "collector")
  /\ UNCHANGED <<phase, pair, spec, step, loads, answer, Frames, decided>>

Next == (\E j \in Jobs : Run(j)) \/ Provide

Spec == Init /\ [][Next]_vars
-----------------------------------------------------------------------------
(* Two runs of the same rule decide the same wherever their bars agree up   *)
(* to the decision: no later bar, no fill of an account and no run before   *)
(* counts (backtest_policy_executor.py, backtest_runner.py).                *)
Past(j, bar) ==
  [closes |-> DatedCloses(j, bar),
   bars |-> {b \in DecisionBars(j) : b <= bar}]
SamePastSameDecisions ==
  \A i, j \in Jobs : spec[i] = spec[j] /\ spec[i].mode = "deterministic" =>
    \A bar \in DOMAIN decided[i] \intersect DOMAIN decided[j] :
      Past(i, bar) = Past(j, bar) => decided[i][bar] = decided[j][bar]

(* A decision is not ready only when the store had fewer bars before the    *)
(* window than the policy requires: what is loaded is enough for the first  *)
(* decision (required_lookback_bars, minimum_close_count).                  *)
ReadyWithItsWarmup ==
  \A j \in Jobs : \A bar \in DOMAIN decided[j] : decided[j][bar] = NotReady =>
    Cardinality({row \in history[j] : row.bar < Start}) < RequiredBars(spec[j])

(* A run whose loads were answered and whose tickers nobody else wrote      *)
(* meanwhile is not refused, and its snapshot is what it executes on        *)
(* (backtest_data.py, history.py).                                          *)
Evaluation(j) == {row \in history[j] : row.bar >= Start}
AloneIsAccepted ==
  \A j \in Jobs : calm[j] =>
    phase[j] # "refused" /\ (phase[j] \in {"deciding", "done"} => window[j] = Evaluation(j))

=============================================================================
