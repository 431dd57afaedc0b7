------------------------------ MODULE Strategies ------------------------------
(***************************************************************************)
(* The registry of strategies (server/routes/strategies.py, storage/store  *)
(* .py), what a backtest freezes of one (agent/backtest_policy.py), and    *)
(* the calls of a model for the decisions of an experiment                 *)
(* (agent/backtest_policy_executor.py).                                    *)
(*                                                                         *)
(* Percentages are integers.  The fields no decision depends on are left   *)
(* out; `complete` stands for what else a backtest asks for: the ticker on *)
(* the list, finite numbers, parameters of the right shape, a model named. *)
(***************************************************************************)
EXTENDS Integers, Sequences, Functions

CONSTANTS
  Ids,        \* strategy ids: each is given out once
  Configs,    \* the bodies of POST /strategies
  Updates,    \* the bodies of PUT /strategies/{id}: only the fields that are set
  Percents,   \* positions a model may answer with
  MaxEdits,   \* bound on the requests that change a strategy
  Jobs,       \* the backtests
  MaxAsks,    \* attempts of one decision of a model: 3 in the code
  MaxDecisions \* bound on the decisions of a backtest

Statuses == {"draft", "active", "paused", "stopped", "archived"}
Strategy == [status : Statuses, type : {"agent", "quant", "hitl"},
             rule : {"none", "momentum", "sma_crossover"},
             target : 0 .. 100, cap : 1 .. 100, complete : BOOLEAN]

ASSUME StrategyAssumption ==
  /\ Configs \subseteq Strategy /\ Percents \subseteq 0 .. 100
  /\ \A update \in Updates :
       /\ "target" \in DOMAIN update => update["target"] \in 0 .. 100
       /\ "cap" \in DOMAIN update => update["cap"] \in 1 .. 100
  /\ MaxEdits \in Nat /\ MaxAsks \in Nat \ {0} /\ MaxDecisions \in Nat

VARIABLES
  strategies,  \* the stored configurations, by id
  used,        \* ids ever given out
  edits,       \* requests so far
  phase,       \* of each job: "idle", "running", "done" or "failed"
  spec,        \* what it froze of its strategy
  decided,     \* the targets it decided
  attempt,     \* attempts of the decision at work
  repaired     \* the schema repair was used

registryVars == <<strategies, used, edits>>
jobVars == <<phase, spec, decided, attempt, repaired>>
vars == <<registryVars, jobVars>>
-----------------------------------------------------------------------------
(* validate_quant_strategy_definition: an executable rule within the        *)
(* position the strategy allows.                                            *)
Executable(s) == s.complete /\ s.rule # "none" /\ s.target <= s.cap

(* _validate_strategy_policy                                                *)
Storable(s) == s.type = "quant" => Executable(s)

NoSpec == [id |-> "none", mode |-> "none", rule |-> "none", target |-> 0, cap |-> 100]

TypeOK ==
  /\ DOMAIN strategies \subseteq used /\ used \subseteq Ids
  /\ \A id \in DOMAIN strategies : strategies[id] \in Strategy
  /\ edits \in 0 .. MaxEdits
  /\ phase \in [Jobs -> {"idle", "running", "done", "failed"}]
  /\ spec \in [Jobs -> [id : Ids \union {"none"}, mode : {"none", "deterministic", "agent_experiment"},
                        rule : {"none", "momentum", "sma_crossover"}, target : 0 .. 100, cap : 1 .. 100]]
  /\ decided \in [Jobs -> Seq(0 .. 100)]
  /\ attempt \in [Jobs -> 0 .. MaxAsks] /\ repaired \in [Jobs -> BOOLEAN]

(* get_strategy finds it, list_strategies lists it.                         *)
Known(id) == id \in DOMAIN strategies

Init ==
  /\ strategies = <<>> /\ used = {} /\ edits = 0
  /\ phase = [j \in Jobs |-> "idle"] /\ spec = [j \in Jobs |-> NoSpec]
  /\ decided = [j \in Jobs |-> <<>>]
  /\ attempt = [j \in Jobs |-> 0] /\ repaired = [j \in Jobs |-> FALSE]

Edit == edits < MaxEdits /\ edits' = edits + 1 /\ UNCHANGED jobVars

(* The fields an update sets replace those of the stored configuration.     *)
Merged(s, update) ==
  [f \in DOMAIN s \union DOMAIN update |-> IF f \in DOMAIN update THEN update[f] ELSE s[f]]

Registered(id, s) ==
  /\ strategies' = [i \in DOMAIN strategies \union {id} |->
                     IF i = id THEN s ELSE strategies[i]]
  /\ used' = used \union {id}

CreateStrategy(id, s) == Edit /\ id \notin used /\ Storable(s) /\ Registered(id, s)

(* Mutant: the fields that are set are validated, not what they make. *)
UpdateUnmerged(id, update) ==
  /\ Edit /\ Known(id)
  /\ ("type" \in DOMAIN update) => Storable(Merged(strategies[id], update))
  /\ strategies' = [strategies EXCEPT ![id] = Merged(@, update)]
  /\ UNCHANGED used

(* PUT: the merged configuration is validated; a status it names is stored  *)
(* whatever the status before.                                              *)
UpdateStrategy(id, update) ==
  /\ Edit /\ Known(id)
  /\ Storable(Merged(strategies[id], update))
  /\ strategies' = [strategies EXCEPT ![id] = Merged(@, update)]
  /\ UNCHANGED used

(* _transition_strategy: start, pause and stop; nothing to do when the      *)
(* strategy is there already.                                               *)
Transition(id, target) ==
  /\ Edit /\ Known(id)
  /\ strategies[id].status \in
       (CASE target = "active" -> {"draft", "paused", "stopped"}
          [] target = "paused" -> {"active"}
          [] target = "stopped" -> {"draft", "active", "paused"})
  /\ strategies' = [strategies EXCEPT ![id].status = target]
  /\ UNCHANGED used

(* sanitize_clone_config: the identity and what it had come to are left out.*)
Cloned(s) == [s EXCEPT !.status = "draft"]

(* The clone of a stored strategy is not validated again.                   *)
CloneStrategy(id, source) ==
  /\ Edit /\ id \notin used /\ Known(source)
  /\ Registered(id, Cloned(strategies[source]))

DeleteStrategy(id) ==
  /\ Edit /\ Known(id)
  /\ strategies' = Restrict(strategies, DOMAIN strategies \ {id})
  /\ UNCHANGED used

Registry ==
  \E id \in Ids :
    \/ \E s \in Configs : CreateStrategy(id, s)
    \/ \E update \in Updates : UpdateStrategy(id, update)
    \/ \E target \in {"active", "paused", "stopped"} : Transition(id, target)
    \/ \E source \in Ids : CloneStrategy(id, source)
    \/ DeleteStrategy(id)

-----------------------------------------------------------------------------
(* freeze_backtest_run_spec: the mode of the request must fit the type.     *)
ModeOf(s) == IF s.type = "quant" THEN "deterministic" ELSE "agent_experiment"

Eligible(s) ==
  /\ s.status = "active" /\ s.complete /\ s.type # "hitl"
  /\ s.type = "quant" => Executable(s)

Frozen(id) ==
  LET s == strategies[id]
  IN [id |-> id, mode |-> ModeOf(s), rule |-> s.rule, target |-> s.target, cap |-> s.cap]

(* BacktestJobService.create: the strategy is read and frozen in one step.  *)
Request(j, id) ==
  /\ phase[j] = "idle" /\ Known(id) /\ Eligible(strategies[id])
  /\ phase' = [phase EXCEPT ![j] = "running"]
  /\ spec' = [spec EXCEPT ![j] = Frozen(id)]
  /\ UNCHANGED <<registryVars, decided, attempt, repaired>>

(* Mutant: the strategy is read again when the run needs its cap. *)
PermittedNow(frozen, target) ==
  /\ target >= 0
  /\ frozen.id \in DOMAIN strategies => target <= strategies[frozen.id].cap

(* derive_position_transition raises for a target beyond the cap.           *)
Permitted(frozen, target) == target >= 0 /\ target <= frozen.cap

Deciding(j, mode) ==
  phase[j] = "running" /\ spec[j].mode = mode /\ Len(decided[j]) < MaxDecisions
Fails(j) == phase' = [phase EXCEPT ![j] = "failed"] /\ UNCHANGED decided
Decides(j, target) == decided' = [decided EXCEPT ![j] = Append(@, target)] /\ UNCHANGED phase

(* A decision of a rule, which BacktestPolicy computes.                     *)
Decide(j) ==
  /\ Deciding(j, "deterministic")
  /\ \E target \in {0, spec[j].target} :
       IF Permitted(spec[j], target) THEN Decides(j, target) ELSE Fails(j)
  /\ UNCHANGED <<registryVars, spec, attempt, repaired>>

(* One call of the model.  A transient error is retried, an answer of the   *)
(* wrong shape is repaired once, anything else ends the run.                *)
Ask(j) ==
  LET last == attempt[j] + 1 >= MaxAsks
  IN /\ Deciding(j, "agent_experiment")
     /\ \/ /\ attempt' = [attempt EXCEPT ![j] = @ + 1]
           /\ \/ ~last /\ UNCHANGED <<repaired, phase, decided>>
              \/ /\ ~last /\ ~repaired[j]
                 /\ repaired' = [repaired EXCEPT ![j] = TRUE] /\ UNCHANGED <<phase, decided>>
              \/ Fails(j) /\ UNCHANGED repaired
        \/ /\ \E target \in {p \in Percents : Permitted(spec[j], p)} : Decides(j, target)
           /\ attempt' = [attempt EXCEPT ![j] = 0]
           /\ repaired' = [repaired EXCEPT ![j] = FALSE]
     /\ UNCHANGED <<registryVars, spec>>

Finish(j) ==
  /\ phase[j] = "running" /\ Len(decided[j]) = MaxDecisions
  /\ phase' = [phase EXCEPT ![j] = "done"]
  /\ UNCHANGED <<registryVars, spec, decided, attempt, repaired>>

Next ==
  \/ Registry
  \/ \E j \in Jobs : (\E id \in Ids : Request(j, id)) \/ Decide(j) \/ Ask(j) \/ Finish(j)

Spec == Init /\ [][Next]_vars
-----------------------------------------------------------------------------
(* Every stored quant strategy can be run, however it came to be: created,  *)
(* updated field by field, its type changed or cloned (strategies.py).      *)
StoredQuantIsExecutable ==
  \A id \in DOMAIN strategies : Storable(strategies[id])

(* A frozen rule always runs: whatever becomes of its strategy meanwhile,   *)
(* no decision of it exceeds the cap it froze (backtest_policy.py).         *)
FrozenPolicyRuns == \A j \in Jobs : spec[j].mode = "deterministic" => phase[j] # "failed"

=============================================================================
