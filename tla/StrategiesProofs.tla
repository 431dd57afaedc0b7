--------------------------- MODULE StrategiesProofs ---------------------------
(***************************************************************************)
(* Proofs about Strategies: a stored quant strategy can be run, and a run  *)
(* that froze a rule does not fail, for any strategies, requests and jobs. *)
(***************************************************************************)
EXTENDS Strategies, TLAPS

(* What a stored configuration needs, whichever fields an update sets.      *)
Fields == {"status", "type", "rule", "target", "cap", "complete"}
Sound(s) ==
  /\ Fields \subseteq DOMAIN s
  /\ s.target \in 0 .. 100 /\ s.cap \in 1 .. 100
  /\ Storable(s)

SoundStore == \A id \in DOMAIN strategies : Sound(strategies[id])

LEMMA ConfigIsSound ==
  ASSUME NEW s \in Configs, Storable(s)
  PROVE Sound(s)
BY StrategyAssumption DEF Sound, Fields, Strategy

LEMMA StatusIsFree ==
  ASSUME NEW s, NEW status, Sound(s)
  PROVE Sound([s EXCEPT !.status = status])
BY DEF Sound, Fields, Storable, Executable

LEMMA MergeIsSound ==
  ASSUME NEW s, Sound(s), NEW update \in Updates, Storable(Merged(s, update))
  PROVE Sound(Merged(s, update))
<1> DEFINE merged == Merged(s, update)
<1>1. Fields \subseteq DOMAIN merged
  BY DEF Merged, Sound
<1>2. merged["target"] \in 0 .. 100 /\ merged["cap"] \in 1 .. 100
  BY StrategyAssumption DEF Merged, Sound, Fields
<1> QED
  BY <1>1, <1>2 DEF Sound

LEMMA AddingKeepsSound ==
  ASSUME SoundStore, NEW id, NEW s, Sound(s), Registered(id, s)
  PROVE SoundStore'
BY DEF SoundStore, Registered

LEMMA ReplacingKeepsSound ==
  ASSUME SoundStore, NEW id, NEW s, Sound(s), strategies' = [strategies EXCEPT ![id] = s]
  PROVE SoundStore'
BY DEF SoundStore

LEMMA InitSound == Init => SoundStore
BY DEF Init, SoundStore

LEMMA StepKeepsSound == SoundStore /\ [Next]_vars => SoundStore'
<1> SUFFICES ASSUME SoundStore, [Next]_vars PROVE SoundStore'
  OBVIOUS
<1>1. ASSUME NEW id \in Ids, NEW s \in Configs, CreateStrategy(id, s) PROVE SoundStore'
  BY <1>1, ConfigIsSound, AddingKeepsSound DEF CreateStrategy
<1>2. ASSUME NEW id \in Ids, NEW update \in Updates, UpdateStrategy(id, update) PROVE SoundStore'
  <2>1. Sound(Merged(strategies[id], update))
    BY <1>2, MergeIsSound DEF UpdateStrategy, SoundStore, Known
  <2> QED
    BY <1>2, <2>1, ReplacingKeepsSound DEF UpdateStrategy, Known
<1>3. ASSUME NEW id \in Ids, NEW target, Transition(id, target) PROVE SoundStore'
  <2>1. Sound([strategies[id] EXCEPT !.status = target])
    BY <1>3, StatusIsFree DEF Transition, SoundStore, Known
  <2> QED
    BY <1>3, <2>1, ReplacingKeepsSound DEF Transition, Known
<1>4. ASSUME NEW id \in Ids, NEW source, CloneStrategy(id, source) PROVE SoundStore'
  <2>1. Sound([strategies[source] EXCEPT !.status = "draft"])
    BY <1>4, StatusIsFree DEF CloneStrategy, SoundStore, Known, Cloned
  <2> QED
    BY <1>4, <2>1, AddingKeepsSound DEF CloneStrategy, Known, Cloned
<1>5. ASSUME NEW id \in Ids, DeleteStrategy(id) PROVE SoundStore'
  BY <1>5 DEF DeleteStrategy, SoundStore, Restrict, Known
<1>6. ASSUME UNCHANGED strategies PROVE SoundStore'
  BY <1>6 DEF SoundStore
<1>7. ASSUME NEW j \in Jobs, (\E id \in Ids : Request(j, id)) \/ Decide(j) \/ Ask(j) \/ Finish(j)
      PROVE UNCHANGED strategies
  BY <1>7 DEF Request, Decide, Ask, Finish, registryVars, Known
<1> QED
  BY <1>1, <1>2, <1>3, <1>4, <1>5, <1>6, <1>7 DEF Next, Registry, vars, registryVars

(* Whatever the requests, in whatever order, every stored quant strategy    *)
(* has a rule within its cap (strategies.py).                               *)
THEOREM StoredQuantRuns == Spec => []StoredQuantIsExecutable
<1>1. SoundStore => StoredQuantIsExecutable
  BY DEF SoundStore, StoredQuantIsExecutable, Sound
<1> QED
  BY <1>1, InitSound, StepKeepsSound, PTL DEF Spec
-----------------------------------------------------------------------------
(* What a run froze stays within its cap, and only a model's run fails.     *)
FrozenWithinCap ==
  /\ DOMAIN spec = Jobs
  /\ phase \in [Jobs -> {"idle", "running", "done", "failed"}]
  /\ \A j \in Jobs : spec[j].mode = "deterministic" =>
       /\ phase[j] # "failed"
       /\ spec[j].target \in Int /\ spec[j].cap \in Int
       /\ 0 <= spec[j].target /\ spec[j].target <= spec[j].cap

LEMMA InitWithinCap == Init => FrozenWithinCap
BY DEF Init, FrozenWithinCap, NoSpec

LEMMA StepKeepsWithinCap == SoundStore /\ FrozenWithinCap /\ [Next]_vars => FrozenWithinCap'
<1> SUFFICES ASSUME SoundStore, FrozenWithinCap, [Next]_vars PROVE FrozenWithinCap'
  OBVIOUS
<1>1. ASSUME UNCHANGED <<spec, phase>> PROVE FrozenWithinCap'
  BY <1>1 DEF FrozenWithinCap
<1>2. Registry => UNCHANGED <<spec, phase>>
  BY DEF Registry, CreateStrategy, UpdateStrategy, Transition, CloneStrategy, DeleteStrategy, Edit, jobVars, Known, Cloned
<1>3. ASSUME NEW j \in Jobs, NEW id \in Ids, Request(j, id) PROVE FrozenWithinCap'
  <2>1. Sound(strategies[id]) /\ Eligible(strategies[id])
    BY <1>3 DEF Request, SoundStore, Known
  <2>2. Frozen(id).mode = "deterministic" =>
          /\ Frozen(id).target \in Int /\ Frozen(id).cap \in Int
          /\ 0 <= Frozen(id).target /\ Frozen(id).target <= Frozen(id).cap
    BY <2>1 DEF Frozen, Sound, Storable, Executable, ModeOf
  <2> QED
    BY <1>3, <2>2 DEF Request, FrozenWithinCap, Known
<1>4. ASSUME NEW j \in Jobs, Decide(j) PROVE FrozenWithinCap'
  <2>1. \A target \in {0, spec[j].target} : Permitted(spec[j], target)
    BY <1>4 DEF Decide, Deciding, FrozenWithinCap, Permitted
  <2> QED
    BY <1>1, <1>4, <2>1 DEF Decide, Decides
<1>5. ASSUME NEW j \in Jobs, Ask(j) PROVE FrozenWithinCap'
  <2>1. spec' = spec /\ spec[j].mode = "agent_experiment"
    BY <1>5 DEF Ask, Deciding
  <2>2. phase' = phase \/ phase' = [phase EXCEPT ![j] = "failed"]
    BY <1>5 DEF Ask, Fails, Decides
  <2> QED
    BY <2>1, <2>2 DEF FrozenWithinCap
<1>6. ASSUME NEW j \in Jobs, Finish(j) PROVE FrozenWithinCap'
  BY <1>6 DEF Finish, FrozenWithinCap
<1> QED
  BY <1>1, <1>2, <1>3, <1>4, <1>5, <1>6 DEF Next, vars, jobVars

(* A run that froze a rule never fails, whatever becomes of its strategy    *)
(* (backtest_policy.py).                                                    *)
THEOREM FrozenRulesRun == Spec => []FrozenPolicyRuns
<1>1. FrozenWithinCap => FrozenPolicyRuns
  BY DEF FrozenWithinCap, FrozenPolicyRuns
<1> QED
  BY <1>1, InitSound, StepKeepsSound, InitWithinCap, StepKeepsWithinCap, PTL DEF Spec
=============================================================================
