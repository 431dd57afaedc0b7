---------------------------- MODULE AnalysisGraph ----------------------------
(***************************************************************************)
(* The twelve agents of one analysis (quick_ask/orchestrator.py): which    *)
(* node of the graph runs next.  What an agent writes is left out; whether *)
(* it asks for tools, reports or raises is a free choice.                  *)
(***************************************************************************)
EXTENDS Naturals, Sequences

CONSTANTS
  MaxToolRounds   \* bound on the tool rounds of one analyst

ASSUME GraphAssumption == MaxToolRounds \in Nat

VARIABLES
  mode,     \* "fast", "standard" or "deep"
  node,     \* the node that runs next, "end" or "raised"
  tools,    \* tool rounds of the analyst at work
  debate,   \* investment_debate_state["count"]
  risk,     \* risk_debate_state["count"]
  reports   \* the agents whose report is in the state

graphVars == <<mode, node, tools, debate, risk, reports>>
-----------------------------------------------------------------------------
Analysts == <<"market_analyst", "sentiment_analyst", "news_analyst", "fundamentals_analyst">>
AnalystSet == {Analysts[i] : i \in DOMAIN Analysts}
RiskTeam == <<"aggressive_analyst", "conservative_analyst", "neutral_analyst">>
RiskSet == {RiskTeam[i] : i \in DOMAIN RiskTeam}
Single == {"research_manager", "trader", "risk_analyst", "PM_agent"}
Debaters == {"bull_researcher", "bear_researcher"}
Nodes == AnalystSet \union RiskSet \union Single \union Debaters
Place(seq, n) == CHOOSE i \in DOMAIN seq : seq[i] = n

GraphTypeOK ==
  /\ mode \in {"fast", "standard", "deep"}
  /\ node \in Nodes \union {"end", "raised"}
  /\ tools \in 0 .. MaxToolRounds
  /\ debate \in 0 .. 6 /\ risk \in 0 .. 9
  /\ reports \subseteq Nodes

(* _init: the rounds of both debates.                                       *)
Rounds == CASE mode = "fast" -> 0 [] mode = "standard" -> 1 [] OTHER -> 3

GraphInit ==
  /\ mode \in {"fast", "standard", "deep"}
  /\ node = Analysts[1]
  /\ tools = 0 /\ debate = 0 /\ risk = 0 /\ reports = {}

(* After the last analyst the mode decides where the graph goes on.         *)
AfterAnalyst(n) ==
  IF Place(Analysts, n) < Len(Analysts) THEN Analysts[Place(Analysts, n) + 1]
  ELSE IF mode = "fast" THEN "PM_agent" ELSE "bull_researcher"

(* An analyst asks for its tools, which return to it, or it reports and the *)
(* shared messages are cleared.                                             *)
Analyse(n) ==
  /\ node = n
  /\ \/ tools < MaxToolRounds /\ tools' = tools + 1 /\ UNCHANGED <<node, reports>>
     \/ tools' = 0 /\ reports' = reports \union {n} /\ node' = AfterAnalyst(n)
  /\ UNCHANGED <<mode, debate, risk>>

(* Mutant: a round is one statement. *)
DebateOneShort(count) == IF count >= Rounds THEN "research_manager" ELSE "bull_researcher"

DebateNext(count) == IF count >= 2 * Rounds THEN "research_manager" ELSE "bull_researcher"

(* Bull, then bear; the conditional edge follows the bear only.             *)
Debate(n) ==
  /\ node = n
  /\ debate' = debate + 1 /\ reports' = reports \union {n}
  /\ node' = IF n = "bull_researcher" THEN "bear_researcher" ELSE DebateNext(debate')
  /\ UNCHANGED <<mode, tools, risk>>

RiskNext(count) == IF count >= 3 * Rounds THEN "risk_analyst" ELSE "aggressive_analyst"

Discuss(n) ==
  /\ node = n
  /\ risk' = risk + 1 /\ reports' = reports \union {n}
  /\ node' = IF Place(RiskTeam, n) < Len(RiskTeam) THEN RiskTeam[Place(RiskTeam, n) + 1]
                                                   ELSE RiskNext(risk')
  /\ UNCHANGED <<mode, tools, debate>>

Successor == [research_manager |-> "trader", trader |-> "aggressive_analyst",
              risk_analyst |-> "PM_agent", PM_agent |-> "end"]

Conclude(n) ==
  /\ node = n
  /\ reports' = reports \union {n} /\ node' = Successor[n]
  /\ UNCHANGED <<mode, tools, debate, risk>>

(* A node raises: the stream of the graph raises.                           *)
Raise ==
  /\ node \in Nodes
  /\ node' = "raised"
  /\ UNCHANGED <<mode, tools, debate, risk, reports>>

GraphNext ==
  \/ \E n \in AnalystSet : Analyse(n)
  \/ \E n \in Debaters : Debate(n)
  \/ \E n \in RiskSet : Discuss(n)
  \/ \E n \in Single : Conclude(n)
  \/ Raise

(* The decision rests on every report its mode promises: in the standard    *)
(* and the deep mode all agents have spoken, bull and bear in turn for the  *)
(* rounds of the mode and each of the risk team as often (orchestrator.py). *)
DecidedOnAllReports ==
  node = "end" =>
    /\ IF mode = "fast" THEN reports = AnalystSet \union {"PM_agent"} ELSE reports = Nodes
    /\ debate = 2 * Rounds /\ risk = 3 * Rounds
=============================================================================
