------------------------ MODULE BacktestInputsProofs ------------------------
(***************************************************************************)
(* Theorems about BacktestInputs, for every market, every rule and any     *)
(* number of runs and of writers: no decision knows a later bar, a policy  *)
(* has its warm-up, and a run that nobody disturbs is accepted.            *)
(***************************************************************************)
EXTENDS BacktestInputs, SequenceTheorems, WellFoundedInduction, FiniteSetTheorems,
        FunctionTheorems, TLAPS

-----------------------------------------------------------------------------
(* Bars and sequences of closes.                                            *)

(* A set of natural numbers has a least member. *)
LEMMA LeastMember ==
  ASSUME NEW S \in SUBSET Nat, S # {}
  PROVE  \E n \in S : \A m \in S : n <= m
<1> DEFINE R == OpToRel(<, Nat)
<1>1. \A m, n \in Nat : <<m, n>> \in R <=> m < n
  BY Zenon DEF OpToRel
<1>2. IsWellFoundedOn(R, Nat)
  BY NatLessThanWellFounded, Zenon
<1> HIDE DEF R
<1>3. PICK n \in S : \A m \in S : ~ (<<m, n>> \in R)
  BY <1>2, WFMin, Zenon
<1>4. n \in Nat /\ \A m \in S : m \in Nat /\ ~ (m < n)
  BY <1>1, <1>3
<1> QED
  BY <1>4

LEMMA LeastBar == ASSUME NEW S \in SUBSET Bars, S # {} PROVE Min(S) \in S /\ \A b \in S : Min(S) <= b
<1>1. S \in SUBSET Nat
  BY DataAssumption DEF Bars
<1>2. \E b \in S : \A c \in S : b <= c
  BY <1>1, LeastMember
<1> QED
  BY <1>2 DEF Min

LEMMA BarsAreNumbers == Bars \subseteq Nat /\ Bars \subseteq Int
  BY DEF Bars

LEMMA GreatestBar == ASSUME NEW S \in SUBSET Bars, S # {} PROVE Max(S) \in S /\ \A b \in S : Max(S) >= b
<1> DEFINE T == {LastBar - b : b \in S}
<1>1. LastBar \in Nat /\ \A b \in S : b \in Nat /\ b <= LastBar
  BY DataAssumption DEF Bars
<1>2. T \in SUBSET Nat /\ T # {}
  BY <1>1
<1>3. PICK n \in T : \A m \in T : n <= m
  <2> HIDE DEF T
  <2> QED
    BY <1>2, LeastMember
<1>4. PICK c \in S : n = LastBar - c
  BY <1>3
<1>5. ASSUME NEW b \in S PROVE c >= b
  <2>1. LastBar - b \in T
    OBVIOUS
  <2>2. n <= LastBar - b
    BY <1>3, <2>1
  <2> QED
    BY <1>1, <1>4, <2>2
<1>6. \E x \in S : \A b \in S : x >= b
  BY <1>5
<1> QED
  BY <1>6 DEF Max

(* The bars up to n that have a value.                                      *)
Dates(dated, n) == {b \in 1 .. n : \E d \in dated : d[1] = b}
ValueAt(dated, b) == (CHOOSE d \in dated : d[1] = b)[2]
OrderStep(dated, f, b) ==
  f[b] = IF b = 0 THEN <<>>
         ELSE IF \E d \in dated : d[1] = b THEN Append(f[b - 1], ValueAt(dated, b)) ELSE f[b - 1]

LEMMA OrderExists ==
  ASSUME NEW dated, NEW l \in Nat
  PROVE  \E f : f = [n \in 0 .. l |-> f[n]] /\ \A n \in 0 .. l : OrderStep(dated, f, n)
<1> DEFINE P(k) == \E f : f = [n \in 0 .. k |-> f[n]] /\ \A n \in 0 .. k : OrderStep(dated, f, n)
           bad == {k \in Nat : ~ P(k)}
<1>1. SUFFICES ASSUME bad # {} PROVE FALSE
  OBVIOUS
<1>2. PICK k \in bad : \A m \in bad : k <= m
  <2> HIDE DEF P
  <2> QED
    BY <1>1, LeastMember
<1>3. CASE k = 0
  <2> DEFINE f == [n \in {0} |-> <<>>]
  <2>1. f = [n \in 0 .. 0 |-> f[n]] /\ f[0] = <<>>
    OBVIOUS
  <2>2. \A n \in 0 .. 0 : OrderStep(dated, f, n)
    BY <2>1 DEF OrderStep
  <2>3. P(0)
    <3> HIDE DEF f
    <3> QED
      BY <2>1, <2>2
  <2> QED
    BY <1>3, <2>3
<1>4. CASE k # 0
  <2>1. k - 1 \in Nat /\ ~ (k <= k - 1) /\ k \in Nat
    BY <1>4
  <2>2. P(k - 1)
    <3> HIDE DEF P
    <3> QED
      BY <1>2, <2>1
  <2>3. PICK g : \A n \in 0 .. k - 1 : OrderStep(dated, g, n)
    BY <2>2
  <2> DEFINE last == IF \E d \in dated : d[1] = k THEN Append(g[k - 1], ValueAt(dated, k)) ELSE g[k - 1]
             f == [n \in 0 .. k |-> IF n < k THEN g[n] ELSE last]
  <2> HIDE DEF last
  <2>4. ASSUME NEW n \in 0 .. k PROVE OrderStep(dated, f, n)
    <3>1. CASE n < k
      <4>1. n \in 0 .. k - 1 /\ f[n] = g[n] /\ (n # 0 => n - 1 \in 0 .. k /\ n - 1 < k)
        BY <2>1, <3>1
      <4>2. n # 0 => f[n - 1] = g[n - 1]
        BY <4>1
      <4> HIDE DEF f
      <4> QED
        BY <2>3, <4>1, <4>2 DEF OrderStep
    <3>2. CASE n = k
      <4>1. k - 1 \in 0 .. k /\ k - 1 < k /\ ~ (k < k)
        BY <2>1
      <4>2. f[k - 1] = g[k - 1] /\ f[k] = last
        BY <2>1, <4>1
      <4> HIDE DEF f
      <4> QED
        BY <1>4, <3>2, <4>2 DEF OrderStep, last
    <3> QED
      BY <2>1, <3>1, <3>2
  <2>5. f = [n \in 0 .. k |-> f[n]]
    OBVIOUS
  <2>6. P(k)
    <3> HIDE DEF f
    <3> QED
      BY <2>4, <2>5
  <2> QED
    BY <2>6
<1> QED
  BY <1>3, <1>4

LEMMA OrderRecursion ==
  ASSUME NEW dated
  PROVE  \E f : InOrder(dated) = f[LastBar] /\ \A n \in 0 .. LastBar : OrderStep(dated, f, n)
<1> DEFINE F(g) == [b \in 0 .. LastBar |->
                      IF b = 0 THEN <<>>
                      ELSE IF \E d \in dated : d[1] = b
                           THEN Append(g[b - 1], (CHOOSE d \in dated : d[1] = b)[2]) ELSE g[b - 1]]
           upTo == CHOOSE g : g = F(g)
<1>1. InOrder(dated) = upTo[LastBar]
  BY Zenon DEF InOrder
<1>2. \E g : g = F(g)
  <2>1. LastBar \in Nat
    BY DataAssumption
  <2>2. PICK f : f = [n \in 0 .. LastBar |-> f[n]] /\ \A n \in 0 .. LastBar : OrderStep(dated, f, n)
    BY <2>1, OrderExists
  <2>3. f = F(f)
    BY <2>2 DEF OrderStep, ValueAt
  <2> HIDE DEF F
  <2> QED
    BY <2>3
<1>3. upTo = F(upTo)
  BY <1>2, Zenon
<1>4. \A n \in 0 .. LastBar : OrderStep(dated, upTo, n)
  <2> HIDE DEF upTo
  <2> QED
    BY <1>3 DEF OrderStep, ValueAt
<1> HIDE DEF upTo
<1> QED
  BY <1>1, <1>4

(* There is a close for each of the dates.                                  *)
LEMMA InOrderLength ==
  ASSUME NEW dated
  PROVE  /\ IsFiniteSet(Dates(dated, LastBar))
         /\ Len(InOrder(dated)) = Cardinality(Dates(dated, LastBar))
<1> DEFINE S == {d[2] : d \in dated}
<1>1. LastBar \in Nat
  BY DataAssumption
<1>2. PICK f : InOrder(dated) = f[LastBar] /\ \A n \in 0 .. LastBar : OrderStep(dated, f, n)
  BY OrderRecursion
<1> DEFINE P(n) == /\ f[n] \in Seq(S) /\ IsFiniteSet(Dates(dated, n))
                   /\ Len(f[n]) = Cardinality(Dates(dated, n))
           bad == {n \in Nat : n <= LastBar /\ ~ P(n)}
<1>3. bad = {}
  <2>1. SUFFICES ASSUME bad # {} PROVE FALSE
    OBVIOUS
  <2>2. PICK n \in bad : \A m \in bad : n <= m
    <3> HIDE DEF P
    <3> QED
      BY <2>1, LeastMember
  <2>3. n \in 0 .. LastBar /\ OrderStep(dated, f, n)
    <3> HIDE DEF P
    <3> QED
      BY <1>1, <1>2
  <2>4. CASE n = 0
    <3>1. f[0] = <<>> /\ Dates(dated, 0) = {}
      BY <2>3, <2>4 DEF OrderStep, Dates
    <3> QED
      BY <2>4, <3>1, EmptySeq, FS_EmptySet
  <2>5. CASE n # 0
    <3>1. n - 1 \in Nat /\ n - 1 <= LastBar /\ ~ (n <= n - 1) /\ n \in Nat
      BY <2>3, <2>5, <1>1
    <3>2. P(n - 1)
      <4> HIDE DEF P
      <4> QED
        BY <2>2, <3>1
    <3>3. CASE ~ \E d \in dated : d[1] = n
      <4>1. f[n] = f[n - 1]
        BY <2>3, <2>5, <3>3 DEF OrderStep
      <4>2. Dates(dated, n) = Dates(dated, n - 1)
        BY <3>1, <3>3 DEF Dates
      <4> QED
        BY <3>2, <4>1, <4>2
    <3>4. CASE \E d \in dated : d[1] = n
      <4>1. f[n] = Append(f[n - 1], ValueAt(dated, n))
        BY <2>3, <2>5, <3>4 DEF OrderStep
      <4>2. ValueAt(dated, n) \in S
        <5>1. (CHOOSE d \in dated : d[1] = n) \in dated
          BY <3>4
        <5> QED
          BY <5>1 DEF ValueAt
      <4>3. Dates(dated, n) = Dates(dated, n - 1) \union {n} /\ n \notin Dates(dated, n - 1)
        BY <3>1, <3>4 DEF Dates
      <4> HIDE DEF S
      <4>4. f[n] \in Seq(S) /\ Len(f[n]) = Len(f[n - 1]) + 1
        BY <3>2, <4>1, <4>2, AppendProperties
      <4>5. /\ IsFiniteSet(Dates(dated, n))
            /\ Cardinality(Dates(dated, n)) = Cardinality(Dates(dated, n - 1)) + 1
        BY <3>2, <4>3, FS_AddElement
      <4> QED
        BY <3>2, <4>4, <4>5
    <3> QED
      BY <3>3, <3>4
  <2> QED
    BY <2>4, <2>5
<1>4. P(LastBar)
  <2> HIDE DEF P
  <2> QED
    BY <1>1, <1>3
<1> QED
  BY <1>2, <1>4
-----------------------------------------------------------------------------
(* The invariant.                                                           *)
Final == {"deciding", "done", "unready"}

(* The store: no bar before the listing of a ticker.                        *)
ListedRows == \A t \in Tickers : \A b \in Bars : rows[t][b] # Absent => listed[t] <= b

Progress(j) ==
  /\ phase[j] = "idle" => step[j] = 1 /\ loads[j] = 0
  /\ phase[j] \in {"fetch", "raw", "adjusted"} => step[j] \in {1, 2}
  /\ phase[j] = "fetch" => loads[j] < MaxLoads
  /\ phase[j] = "raw" => answer[j] # 0

(* The bars a job executes on are among those it decides on.                *)
OneRowPerBar(frame) == \A x, y \in frame : x.bar = y.bar => x = y
Snapshot(j) ==
  /\ OneRowPerBar(history[j])
  /\ Sessions(window[j]) \subseteq Start .. LastBar
  /\ phase[j] = "read" /\ step[j] > 1 => Sessions(window[j]) \subseteq Present(pair[j][1])
  /\ phase[j] = "read" /\ step[j] = 4 => \A x \in history[j] : x.bar < Start
  /\ phase[j] \in Final \/ (phase[j] = "read" /\ step[j] > 4) =>
       Sessions(window[j]) \subseteq Sessions(history[j])

(* Loaded last by this job: every row has its mode, and the last bar is there.*)
Adjusts(t) == \A b \in Bars : rows[t][b] # Absent => rows[t][b].mode = Adjusted
Loaded(t) == Adjusts(t) /\ rows[t][LastBar] # Absent

CalmLoad(j) ==
  LET t == pair[j][1]
      u == pair[j][2]
  IN calm[j] =>
    /\ phase[j] # "refused"
    /\ phase[j] = "adjusted" => answer[j] # 0
    /\ phase[j] \in {"fetch", "raw", "adjusted"} /\ step[j] = 2 =>
         rows[t][LastBar] # Absent /\ (t = u \/ Adjusts(t))
    /\ phase[j] = "read" =>
         /\ Loaded(t) /\ Loaded(u)
         /\ step[j] > 1 => window[j] = Read(t, Window(t))
         /\ step[j] > 3 => Modes(history[j]) \subseteq {Adjusted}
         /\ step[j] > 4 => window[j] = Evaluation(j)
         /\ step[j] > 5 => modes[j] \subseteq {Adjusted}
    /\ phase[j] \in Final => window[j] = Evaluation(j)

(* A decision is what the rule makes of the closes up to its session and of *)
(* the last target decided before.                                          *)
TargetBefore(decisions, bar) ==
  LET taken == {b \in DOMAIN decisions : b < bar /\ decisions[b] # NotReady}
  IN IF taken = {} THEN 0 ELSE decisions[Max(taken)]
Ruled(rule, closes, last) ==
  IF Len(closes) < MinimumCloses(rule) THEN NotReady ELSE PolicyTarget(rule, closes, last)

DecidedInOrder(j) ==
  /\ phase[j] \notin Final => DOMAIN decided[j] = {}
  /\ phase[j] \in Final =>
       /\ DOMAIN decided[j] \subseteq DecisionBars(j)
       /\ \A b \in DecisionBars(j), c \in DOMAIN decided[j] : b < c => b \in DOMAIN decided[j]
  /\ \A bar \in DOMAIN decided[j] :
       IF spec[j].mode = "deterministic"
       THEN decided[j][bar] = Ruled(spec[j], Closes(j, bar), TargetBefore(decided[j], bar))
       ELSE decided[j][bar] = NotReady => Closes(j, bar) = <<>>

JobInv(j) == Progress(j) /\ Snapshot(j) /\ CalmLoad(j) /\ DecidedInOrder(j)
InputsInv == TypeOK /\ ListedRows /\ \A j \in Jobs : JobInv(j)
-----------------------------------------------------------------------------
(* The store.                                                               *)
LEMMA Calendar == /\ LastBar \in Nat /\ Start \in Bars /\ LastBar \in Bars /\ Start <= LastBar
                  /\ Start .. LastBar \subseteq Bars
                  /\ \A b \in Bars : b \in Nat /\ b >= 1 /\ b <= LastBar
                  /\ 0 \notin DOMAIN Revisions
  BY DataAssumption DEF Bars

(* Reading the rows of some bars.                                           *)
LEMMA ReadFacts ==
  ASSUME MarketTypeOK, NEW t \in Tickers, NEW bars \in SUBSET Present(t)
  PROVE  /\ Read(t, bars) \in SUBSET SnapshotRow
         /\ Sessions(Read(t, bars)) = bars
         /\ OneRowPerBar(Read(t, bars))
         /\ \A x \in Read(t, bars) : x.bar \in bars
         /\ Adjusts(t) => Modes(Read(t, bars)) \subseteq {Adjusted}
<1> DEFINE At(b) == [bar |-> b, revision |-> rows[t][b].revision, mode |-> rows[t][b].mode]
<1>1. ASSUME NEW b \in bars
      PROVE  At(b) \in SnapshotRow /\ (Adjusts(t) => At(b).mode = Adjusted) /\ At(b).bar = b
  <2>1. b \in Bars /\ rows[t][b] # Absent /\ rows[t][b] \in Row
    BY DEF Present, MarketTypeOK
  <2> QED
    BY <2>1 DEF Row, SnapshotRow, Adjusts
<1>2. Read(t, bars) = {At(b) : b \in bars}
  BY DEF Read
<1> HIDE DEF At
<1> QED
  BY <1>1, <1>2 DEF Sessions, OneRowPerBar, Modes

LEMMA PresentBars ==
  ASSUME NEW t
  PROVE  Present(t) \subseteq Bars /\ Window(t) \subseteq Present(t) /\ \A n : Warmup(t, n) \subseteq Present(t)
  BY DEF Present, Window, Warmup

(* A write adds rows of one ticker, from its listing on.                    *)
StoreGrows == \A t \in Tickers : \A b \in Bars : rows[t][b] # Absent => rows'[t][b] # Absent

LEMMA WriteFacts ==
  ASSUME MarketTypeOK, ListedRows, NEW t \in Tickers, NEW from \in Int,
         NEW r \in DOMAIN Revisions, NEW mode \in {Adjusted, "unknown"},
         rows' = Upserted(t, from, r, mode), listed' = listed
  PROVE  /\ rows' \in [Tickers -> [Bars -> Row \union {Absent}]]
         /\ ListedRows' /\ StoreGrows
         /\ \A u \in Tickers : u # t => rows'[u] = rows[u]
         /\ from = 1 => \A b \in Bars :
              rows'[t][b] = IF listed[t] <= b THEN [revision |-> r, mode |-> mode] ELSE Absent
<1> DEFINE x == [revision |-> r, mode |-> mode]
<1>1. x \in Row /\ x # Absent
  BY DataAssumption DEF Row
<1>2. /\ rows \in [Tickers -> [Bars -> Row \union {Absent}]] /\ listed \in [Tickers -> Bars]
      /\ listed[t] \in Nat
  BY Calendar DEF MarketTypeOK
<1>3. rows' = [rows EXCEPT ![t] = [b \in Bars |-> IF b >= from /\ b >= listed[t] THEN x ELSE rows[t][b]]]
  BY <1>2 DEF Upserted
<1> HIDE DEF x
<1>4. rows' \in [Tickers -> [Bars -> Row \union {Absent}]]
  BY <1>1, <1>2, <1>3
<1>5. /\ \A u \in Tickers : u # t => rows'[u] = rows[u]
      /\ \A b \in Bars : rows'[t][b] = IF b >= from /\ b >= listed[t] THEN x ELSE rows[t][b]
  BY <1>2, <1>3
<1>6. ListedRows'
  <2> SUFFICES ASSUME NEW u \in Tickers, NEW b \in Bars, rows'[u][b] # Absent PROVE listed[u] <= b
    BY DEF ListedRows
  <2>1. listed[u] \in Nat /\ b \in Nat
    BY <1>2, Calendar
  <2>2. CASE u = t
    BY <1>5, <2>1, <2>2 DEF ListedRows
  <2>3. CASE u # t
    BY <1>5, <2>3 DEF ListedRows
  <2> QED
    BY <2>2, <2>3
<1>7. StoreGrows
  BY <1>1, <1>5 DEF StoreGrows
<1>8. ASSUME from = 1, NEW b \in Bars
      PROVE  rows'[t][b] = IF listed[t] <= b THEN x ELSE Absent
  <2>1. b \in Nat /\ b >= 1 /\ listed[t] \in Nat
    BY <1>2, Calendar
  <2>2. listed[t] <= b <=> b >= listed[t]
    BY <2>1
  <2> QED
    BY <1>5, <1>8, <2>1, <2>2 DEF ListedRows
<1> QED
  BY <1>4, <1>5, <1>6, <1>7, <1>8 DEF x
-----------------------------------------------------------------------------
(* What other jobs and the collector do to a job.                           *)
Untouched(j) ==
  /\ pair' = pair /\ spec' = spec
  /\ phase'[j] = phase[j] /\ step'[j] = step[j] /\ loads'[j] = loads[j] /\ answer'[j] = answer[j]
  /\ window'[j] = window[j] /\ history'[j] = history[j] /\ modes'[j] = modes[j]
  /\ decided'[j] = decided[j]

(* They write to its tickers while it loads only if it is not calm.         *)
LeftAlone(j) ==
  calm'[j] =>
    /\ calm[j]
    /\ phase[j] \in Loading =>
         rows'[pair[j][1]] = rows[pair[j][1]] /\ rows'[pair[j][2]] = rows[pair[j][2]]

LEMMA PairFacts ==
  ASSUME TypeOK, NEW j \in Jobs
  PROVE  /\ pair[j][1] \in Tickers /\ pair[j][2] \in Tickers
         /\ Range(pair[j]) = {pair[j][1], pair[j][2]}
         /\ spec[j] \in Policy
<1>1. pair[j] \in Tickers \X Tickers /\ spec[j] \in Policy
  BY InputsAssumption DEF TypeOK
<1> DEFINE p == pair[j]
<1>2. PICK t \in Tickers, u \in Tickers : p = <<t, u>>
  BY <1>1
<1> HIDE DEF p
<1>3. DOMAIN p = {1, 2} /\ p[1] = t /\ p[2] = u
  BY <1>2
<1> QED
  BY <1>1, <1>3 DEF p, Range

(* What a run decides depends on what it has read.                          *)
LEMMA DecisionsStand ==
  ASSUME NEW j, DecidedInOrder(j), pair' = pair, spec' = spec,
         window'[j] = window[j], history'[j] = history[j], decided'[j] = decided[j],
         phase'[j] \in Final <=> phase[j] \in Final
  PROVE  DecidedInOrder(j)'
<1>1. DecisionBars(j)' = DecisionBars(j)
  BY DEF DecisionBars, Sessions
<1>2. \A bar : Closes(j, bar)' = Closes(j, bar)
  BY DEF Closes, DatedCloses, Close
<1>3. (phase[j] \in Final)' <=> phase[j] \in Final
  BY DEF Final
<1> QED
  BY <1>1, <1>2, <1>3 DEF DecidedInOrder

LEMMA BystanderKeeps ==
  ASSUME InputsInv, NEW j \in Jobs, Untouched(j), StoreGrows, LeftAlone(j)
  PROVE  JobInv(j)'
<1> DEFINE t == pair[j][1]
           u == pair[j][2]
<1>1. t \in Tickers /\ u \in Tickers /\ JobInv(j)
  BY PairFacts DEF InputsInv
<1>2. Progress(j)'
  BY <1>1 DEF Untouched, JobInv, Progress
<1>3. \A v \in Tickers : Present(v) \subseteq Present(v)'
  BY DEF StoreGrows, Present
<1>4. Snapshot(j)'
  BY <1>1, <1>3 DEF Untouched, JobInv, Snapshot, Sessions, OneRowPerBar, Final
<1>5. DecidedInOrder(j)'
  BY <1>1, DecisionsStand DEF Untouched, JobInv
<1>6. CalmLoad(j)'
  <2> SUFFICES ASSUME calm'[j] PROVE CalmLoad(j)'
    BY DEF CalmLoad
  <2>1. calm[j] /\ (phase[j] \in Loading => rows'[t] = rows[t] /\ rows'[u] = rows[u])
    BY DEF LeftAlone
  <2>2. Evaluation(j)' = Evaluation(j) /\ Modes(history[j])' = Modes(history[j])
    BY DEF Untouched, Evaluation, Modes
  <2>3. CASE phase[j] \in Loading
    <3>1. /\ Read(t, Window(t))' = Read(t, Window(t))
          /\ (Adjusts(t)' <=> Adjusts(t)) /\ (Adjusts(u)' <=> Adjusts(u))
          /\ (Loaded(t)' <=> Loaded(t)) /\ (Loaded(u)' <=> Loaded(u))
      BY <2>1, <2>3 DEF Untouched, Read, Window, Present, Adjusts, Loaded
    <3> HIDE DEF t, u
    <3> QED
      BY <1>1, <2>1, <2>2, <2>3, <3>1 DEF Untouched, JobInv, CalmLoad, t, u, Loading, Final
  <2>4. CASE phase[j] \notin Loading
    BY <1>1, <2>1, <2>2, <2>4 DEF Untouched, JobInv, CalmLoad, Loading, Final
  <2> QED
    BY <2>3, <2>4
<1> QED
  BY <1>2, <1>4, <1>5, <1>6 DEF JobInv

LEMMA OthersDisturb ==
  ASSUME InputsInv, NEW t, NEW self, Disturbs(t, self), pair' = pair,
         \A u \in Tickers : u # t => rows'[u] = rows[u],
         NEW j \in Jobs, j # self
  PROVE  LeftAlone(j)
<1>1. calm'[j] = (calm[j] /\ ~ (j # self /\ phase[j] \in Loading /\ t \in Range(pair[j])))
  BY DEF Disturbs
<1>2. pair[j][1] \in Tickers /\ pair[j][2] \in Tickers /\ Range(pair[j]) = {pair[j][1], pair[j][2]}
  BY PairFacts DEF InputsInv
<1> QED
  BY <1>1, <1>2 DEF LeftAlone

(* A step of one job, seen from the invariant.                              *)
LEMMA OneJobMoves ==
  ASSUME InputsInv, NEW i \in Jobs, TypeOK', ListedRows', StoreGrows, JobInv(i)',
         \A j \in Jobs \ {i} : Untouched(j) /\ LeftAlone(j)
  PROVE  InputsInv'
<1>1. \A j \in Jobs \ {i} : JobInv(j)'
  BY BystanderKeeps
<1> QED
  BY <1>1 DEF InputsInv

(* The same when nothing is written.                                        *)
LEMMA OneJobMovesAlone ==
  ASSUME InputsInv, NEW i \in Jobs, TypeOK', JobInv(i)', UNCHANGED <<rows, listed>>,
         \A j \in Jobs \ {i} : Untouched(j) /\ calm'[j] = calm[j]
  PROVE  InputsInv'
<1>1. StoreGrows /\ ListedRows'
  BY DEF StoreGrows, ListedRows, InputsInv
<1>2. \A j \in Jobs \ {i} : LeftAlone(j)
  BY DEF LeftAlone, Untouched
<1> QED
  BY <1>1, <1>2, OneJobMoves

LEMMA InitInputs == Init => InputsInv
<1> SUFFICES ASSUME Init PROVE InputsInv
  OBVIOUS
<1>1. TypeOK
  BY DataAssumption, InputsAssumption DEF Init, MarketInit, TypeOK, MarketTypeOK, Range
<1>2. ListedRows
  BY DEF Init, MarketInit, ListedRows
<1>3. ASSUME NEW j \in Jobs PROVE JobInv(j)
  <2>1. /\ phase[j] = "idle" /\ step[j] = 1 /\ loads[j] = 0 /\ answer[j] = 0
        /\ window[j] = {} /\ history[j] = {} /\ decided[j] = <<>>
    BY DEF Init
  <2>2. DOMAIN decided[j] = {}
    BY <2>1
  <2> QED
    BY <2>1, <2>2 DEF JobInv, Progress, Snapshot, CalmLoad, DecidedInOrder, OneRowPerBar, Sessions, Final
<1> QED
  BY <1>1, <1>2, <1>3 DEF InputsInv
-----------------------------------------------------------------------------
(* Loading.                                                                 *)
LEMMA BeginStep == ASSUME NEW i \in Jobs PROVE InputsInv /\ Begin(i) => InputsInv'
<1> SUFFICES ASSUME InputsInv, Begin(i) PROVE InputsInv'
  OBVIOUS
<1>1. /\ phase[i] = "idle" /\ phase' = [phase EXCEPT ![i] = "fetch"]
      /\ UNCHANGED <<rows, revision, listed, fetched, refreshes>>
      /\ UNCHANGED <<pair, spec, step, loads, answer, window, history, modes, decided, calm>>
  BY DEF Begin, Goes, marketVars, Frames
<1>2. TypeOK'
  BY <1>1 DEF InputsInv, TypeOK, MarketTypeOK, Loading
<1>3. phase'[i] = "fetch" /\ step[i] = 1 /\ loads[i] = 0 /\ JobInv(i)
  BY <1>1 DEF InputsInv, TypeOK, JobInv, Progress
<1>4. 0 < MaxLoads
  BY InputsAssumption
<1>5. DecidedInOrder(i)'
  BY <1>1, <1>3, DecisionsStand DEF JobInv, Final
<1>6. JobInv(i)'
  BY <1>1, <1>3, <1>4, <1>5 DEF JobInv, Progress, Snapshot, CalmLoad, Final
<1>7. \A j \in Jobs \ {i} : Untouched(j) /\ calm'[j] = calm[j]
  BY <1>1 DEF Untouched
<1> QED
  BY <1>1, <1>2, <1>6, <1>7, OneJobMovesAlone

LEMMA FetchStep == ASSUME NEW i \in Jobs PROVE InputsInv /\ Fetch(i) => InputsInv'
<1> SUFFICES ASSUME InputsInv, Fetch(i) PROVE InputsInv'
  OBVIOUS
<1>1. /\ phase[i] = "fetch" /\ loads' = [loads EXCEPT ![i] = @ + 1]
      /\ \/ /\ answer' = [answer EXCEPT ![i] = revision] /\ phase' = [phase EXCEPT ![i] = "raw"]
            /\ calm' = calm
         \/ /\ answer' = [answer EXCEPT ![i] = 0] /\ phase' = [phase EXCEPT ![i] = "adjusted"]
            /\ calm' = [calm EXCEPT ![i] = FALSE]
      /\ UNCHANGED <<rows, revision, listed, fetched, refreshes>>
      /\ UNCHANGED <<pair, spec, step, window, history, modes, decided>>
  BY DEF Fetch, Goes, marketVars, Frames
<1>2. /\ JobInv(i) /\ loads[i] < MaxLoads /\ loads[i] \in Nat /\ revision # 0
      /\ revision \in DOMAIN Revisions
  BY <1>1, Calendar DEF InputsInv, TypeOK, MarketTypeOK, JobInv, Progress
<1>3. loads[i] + 1 \in 0 .. MaxLoads
  BY <1>2, InputsAssumption
<1>4. TypeOK'
  <2>1. TypeOK /\ MarketTypeOK'
    BY <1>1 DEF InputsInv, TypeOK, MarketTypeOK
  <2>2. loads' \in [Jobs -> 0 .. MaxLoads] /\ answer' \in [Jobs -> {0} \union DOMAIN Revisions]
    BY <1>1, <1>2, <1>3, <2>1 DEF TypeOK
  <2>3. /\ calm' \in [Jobs -> BOOLEAN]
        /\ phase' \in [Jobs -> {"idle", "deciding", "done", "refused", "unready"} \union Loading]
    BY <1>1, <2>1 DEF TypeOK, Loading
  <2> QED
    BY <1>1, <2>1, <2>2, <2>3 DEF TypeOK
<1>5. \/ phase'[i] = "raw" /\ answer'[i] = revision
      \/ phase'[i] = "adjusted" /\ ~ calm'[i]
  BY <1>1 DEF InputsInv, TypeOK
<1>6. step[i] \in {1, 2}
  BY <1>1, <1>2 DEF JobInv, Progress
<1>7. DecidedInOrder(i)'
  BY <1>1, <1>2, <1>5, DecisionsStand DEF JobInv, Final
<1>8. Progress(i)' /\ Snapshot(i)'
  BY <1>1, <1>2, <1>5, <1>6 DEF JobInv, Progress, Snapshot, Final
<1>9. CalmLoad(i)'
  BY <1>1, <1>2, <1>5, <1>6 DEF JobInv, CalmLoad, Final, InputsInv, TypeOK, Adjusts
<1>10. \A j \in Jobs \ {i} : Untouched(j) /\ calm'[j] = calm[j]
  BY <1>1 DEF Untouched, InputsInv, TypeOK
<1> QED
  BY <1>1, <1>4, <1>7, <1>8, <1>9, <1>10, OneJobMovesAlone DEF JobInv

LEMMA StoreRawStep == ASSUME NEW i \in Jobs PROVE InputsInv /\ StoreRaw(i) => InputsInv'
<1> SUFFICES ASSUME InputsInv, StoreRaw(i) PROVE InputsInv'
  OBVIOUS
<1> DEFINE t == pair[i][1]
           u == pair[i][2]
           v == pair[i][step[i]]
<1>1. /\ phase[i] = "raw" /\ phase' = [phase EXCEPT ![i] = "adjusted"]
      /\ \/ rows' = Upserted(v, 1, answer[i], "unknown") /\ Disturbs(v, i)
         \/ rows' = rows /\ calm' = calm
      /\ UNCHANGED <<revision, listed, fetched, refreshes>>
      /\ UNCHANGED <<pair, spec, step, loads, answer, window, history, modes, decided>>
  BY DEF StoreRaw, Goes, Frames
<1>2. /\ TypeOK /\ MarketTypeOK /\ ListedRows /\ JobInv(i)
      /\ step[i] \in {1, 2} /\ answer[i] \in DOMAIN Revisions /\ answer[i] # 0
      /\ t \in Tickers /\ u \in Tickers /\ (step[i] = 1 => v = t) /\ (step[i] = 2 => v = u)
  BY <1>1, PairFacts DEF InputsInv, TypeOK, JobInv, Progress
<1>0. t' = t /\ u' = u
  BY <1>1
<1> HIDE DEF t, u, v
<1>3. /\ rows' \in [Tickers -> [Bars -> Row \union {Absent}]] /\ ListedRows' /\ StoreGrows
      /\ \A w \in Tickers : w # v => rows'[w] = rows[w]
  <2>1. 1 \in Int /\ "unknown" \in {Adjusted, "unknown"} /\ v \in Tickers
    BY <1>2
  <2>2. CASE rows' = Upserted(v, 1, answer[i], "unknown")
    BY <1>1, <1>2, <2>1, <2>2, WriteFacts
  <2>3. CASE rows' = rows
    BY <1>1, <1>2, <2>3 DEF MarketTypeOK, ListedRows, StoreGrows
  <2> QED
    BY <1>1, <2>2, <2>3
<1>4. calm'[i] = calm[i] /\ calm' \in [Jobs -> BOOLEAN]
  BY <1>1, <1>2 DEF Disturbs, TypeOK
<1>5. TypeOK'
  BY <1>1, <1>2, <1>3, <1>4 DEF TypeOK, MarketTypeOK, Loading
<1>6. phase'[i] = "adjusted"
  BY <1>1, <1>2 DEF TypeOK
<1>7. DecidedInOrder(i)'
  BY <1>1, <1>2, <1>6, DecisionsStand DEF JobInv, Final
<1>8. Progress(i)' /\ Snapshot(i)'
  BY <1>1, <1>2, <1>6 DEF JobInv, Progress, Snapshot, Final
<1>9. CalmLoad(i)'
  <2> SUFFICES ASSUME calm'[i] PROVE CalmLoad(i)'
    BY DEF CalmLoad
  <2>1. ASSUME step[i] = 2 PROVE rows'[t][LastBar] # Absent /\ (t = u \/ Adjusts(t)')
    <3>1. rows[t][LastBar] # Absent /\ (t = u \/ Adjusts(t))
      BY <1>1, <1>2, <1>4, <2>1 DEF JobInv, CalmLoad, t, u
    <3>2. rows'[t][LastBar] # Absent
      BY <1>2, <1>3, <3>1, Calendar DEF StoreGrows
    <3>3. t # u => rows'[t] = rows[t]
      BY <1>2, <1>3, <2>1
    <3> QED
      BY <1>0, <3>1, <3>2, <3>3 DEF Adjusts
  <2> QED
    BY <1>1, <1>2, <1>6, <2>1 DEF CalmLoad, t, u, Final
<1>10. \A j \in Jobs \ {i} : Untouched(j)
  BY <1>1 DEF Untouched
<1>11. \A j \in Jobs \ {i} : LeftAlone(j)
  <2>1. CASE Disturbs(v, i)
    BY <1>1, <1>3, <2>1, OthersDisturb
  <2>2. CASE rows' = rows /\ calm' = calm
    BY <2>2 DEF LeftAlone
  <2> QED
    BY <1>1, <2>1, <2>2
<1> QED
  BY <1>3, <1>5, <1>7, <1>8, <1>9, <1>10, <1>11, OneJobMoves DEF JobInv

(* The rows of the answer get the mode of the loader; then the load is      *)
(* tried again, goes on to the second ticker, or is over.                   *)
LEMMA StoreAdjustedStep == ASSUME NEW i \in Jobs PROVE InputsInv /\ StoreAdjusted(i) => InputsInv'
<1> SUFFICES ASSUME InputsInv, StoreAdjusted(i) PROVE InputsInv'
  OBVIOUS
<1> DEFINE t == pair[i][1]
           u == pair[i][2]
           v == pair[i][step[i]]
<1>1. /\ phase[i] = "adjusted"
      /\ IF answer[i] # 0 THEN rows' = Upserted(v, 1, answer[i], Adjusted) /\ Disturbs(v, i)
                          ELSE rows' = rows /\ calm' = calm
      /\ \/ phase' = [phase EXCEPT ![i] = "fetch"] /\ step' = step /\ loads' = loads
            /\ loads[i] < MaxLoads
         \/ /\ loads' = [loads EXCEPT ![i] = 0]
            /\ \/ step[i] = 1 /\ step' = [step EXCEPT ![i] = 2] /\ phase' = [phase EXCEPT ![i] = "fetch"]
               \/ step[i] # 1 /\ step' = [step EXCEPT ![i] = 1] /\ phase' = [phase EXCEPT ![i] = "read"]
      /\ answer' = [answer EXCEPT ![i] = 0]
      /\ UNCHANGED <<revision, listed, fetched, refreshes>>
      /\ UNCHANGED <<pair, spec, window, history, modes, decided>>
  BY DEF StoreAdjusted, StoreAs, Goes, Frames
<1>2. /\ TypeOK /\ MarketTypeOK /\ ListedRows /\ JobInv(i)
      /\ step[i] \in {1, 2} /\ answer[i] \in {0} \union DOMAIN Revisions
      /\ t \in Tickers /\ u \in Tickers /\ (step[i] = 1 => v = t) /\ (step[i] = 2 => v = u)
      /\ 0 < MaxLoads
  BY <1>1, PairFacts, InputsAssumption DEF InputsInv, TypeOK, JobInv, Progress
<1>3. t' = t /\ u' = u
  BY <1>1
<1>0. \/ answer[i] = 0 /\ rows' = rows /\ calm' = calm
      \/ answer[i] # 0 /\ rows' = Upserted(v, 1, answer[i], Adjusted) /\ Disturbs(v, i)
  BY <1>1
<1> HIDE DEF t, u, v
<1>4. /\ rows' \in [Tickers -> [Bars -> Row \union {Absent}]] /\ ListedRows' /\ StoreGrows
      /\ \A w \in Tickers : w # v => rows'[w] = rows[w]
      /\ answer[i] # 0 => rows'[v][LastBar] # Absent /\ \A b \in Bars :
           rows'[v][b] # Absent => rows'[v][b].mode = Adjusted
  <2>1. 1 \in Int /\ Adjusted \in {Adjusted, "unknown"} /\ v \in Tickers
    BY <1>2
  <2>2. CASE answer[i] # 0
    <3>1. answer[i] \in DOMAIN Revisions /\ rows' = Upserted(v, 1, answer[i], Adjusted)
      BY <1>1, <1>2, <2>2
    <3>2. \A b \in Bars : rows'[v][b] = IF listed[v] <= b THEN [revision |-> answer[i], mode |-> Adjusted]
                                                          ELSE Absent
      BY <1>1, <1>2, <2>1, <3>1, WriteFacts
    <3>3. [revision |-> answer[i], mode |-> Adjusted] # Absent
      BY <3>1, DataAssumption DEF Row
    <3>4. listed[v] <= LastBar /\ LastBar \in Bars
      BY <1>2, <2>1, Calendar DEF MarketTypeOK
    <3>5. /\ rows' \in [Tickers -> [Bars -> Row \union {Absent}]] /\ ListedRows' /\ StoreGrows
          /\ \A w \in Tickers : w # v => rows'[w] = rows[w]
      BY <1>1, <1>2, <2>1, <3>1, WriteFacts
    <3> QED
      BY <3>2, <3>3, <3>4, <3>5
  <2>3. CASE answer[i] = 0
    BY <1>1, <1>2, <2>3 DEF MarketTypeOK, ListedRows, StoreGrows
  <2> QED
    BY <2>2, <2>3
<1>5. calm'[i] = calm[i] /\ calm' \in [Jobs -> BOOLEAN]
  BY <1>0, <1>2 DEF Disturbs, TypeOK
<1>6. /\ phase' \in [Jobs -> {"idle", "deciding", "done", "refused", "unready"} \union Loading]
      /\ step' \in [Jobs -> 1 .. 6] /\ loads' \in [Jobs -> 0 .. MaxLoads]
      /\ answer' \in [Jobs -> {0} \union DOMAIN Revisions]
  <2>1. 0 \in 0 .. MaxLoads /\ 1 \in 1 .. 6 /\ 2 \in 1 .. 6
    BY InputsAssumption
  <2> QED
    BY <1>1, <1>2, <2>1 DEF TypeOK, Loading
<1>7. TypeOK'
  BY <1>1, <1>2, <1>4, <1>5, <1>6 DEF TypeOK, MarketTypeOK
<1>8. \/ phase'[i] = "fetch" /\ step'[i] = step[i] /\ loads'[i] < MaxLoads
      \/ phase'[i] = "fetch" /\ step[i] = 1 /\ step'[i] = 2 /\ loads'[i] = 0
      \/ phase'[i] = "read" /\ step[i] = 2 /\ step'[i] = 1
  BY <1>1, <1>2 DEF TypeOK
<1>9. DecidedInOrder(i)'
  BY <1>1, <1>2, <1>8, DecisionsStand DEF JobInv, Final
<1>10. Progress(i)' /\ Snapshot(i)'
  BY <1>1, <1>2, <1>8 DEF JobInv, Progress, Snapshot, Final
<1>11. CalmLoad(i)'
  <2> SUFFICES ASSUME calm'[i] PROVE CalmLoad(i)'
    BY DEF CalmLoad
  <2>1. answer[i] # 0 /\ (step[i] = 2 => rows[t][LastBar] # Absent /\ (t = u \/ Adjusts(t)))
    BY <1>1, <1>2, <1>5 DEF JobInv, CalmLoad, t, u
  <2>2. rows'[v][LastBar] # Absent /\ \A b \in Bars : rows'[v][b] # Absent => rows'[v][b].mode = Adjusted
    BY <1>4, <2>1
  <2>3. step[i] = 1 => Loaded(t)'
    BY <1>2, <1>3, <2>2 DEF Loaded, Adjusts
  <2>4. step[i] = 2 => Loaded(t)' /\ Loaded(u)'
    <3>0. SUFFICES ASSUME step[i] = 2 PROVE Loaded(t)' /\ Loaded(u)'
      OBVIOUS
    <3>1. Loaded(u)'
      BY <3>0, <1>2, <1>3, <2>2 DEF Loaded, Adjusts
    <3>2. CASE t = u
      BY <1>3, <3>1, <3>2 DEF Loaded, Adjusts
    <3>3. CASE t # u
      <4>1. rows'[t] = rows[t] /\ t' = t
        BY <1>2, <1>3, <1>4, <3>0, <3>3
      <4>2. rows[t][LastBar] # Absent /\ Adjusts(t)
        BY <2>1, <3>0, <3>3
      <4> QED
        BY <3>1, <4>1, <4>2 DEF Loaded, Adjusts
    <3> QED
      BY <3>1, <3>2, <3>3
  <2>5. phase'[i] = "fetch" /\ step'[i] = 2 => rows'[t][LastBar] # Absent /\ (t = u \/ Adjusts(t)')
    BY <1>2, <1>3, <1>8, <2>3, <2>4 DEF Loaded
  <2>6. phase'[i] = "read" => Loaded(t)' /\ Loaded(u)' /\ step'[i] = 1
    BY <1>8, <2>4
  <2> HIDE DEF CalmLoad
  <2> QED
    BY <1>1, <1>8, <2>5, <2>6 DEF CalmLoad, t, u, Final
<1>12. ASSUME NEW j \in Jobs \ {i} PROVE Untouched(j)
  <2>1. phase'[j] = phase[j] /\ step'[j] = step[j] /\ loads'[j] = loads[j] /\ answer'[j] = answer[j]
    BY <1>1, <1>2 DEF TypeOK
  <2> QED
    BY <1>1, <2>1 DEF Untouched
<1>13. \A j \in Jobs \ {i} : LeftAlone(j)
  <2>1. CASE Disturbs(v, i)
    BY <1>1, <1>4, <2>1, OthersDisturb
  <2>2. CASE rows' = rows /\ calm' = calm
    BY <2>2 DEF LeftAlone
  <2> QED
    BY <1>0, <2>1, <2>2
<1> QED
  BY <1>4, <1>7, <1>9, <1>10, <1>11, <1>12, <1>13, OneJobMoves DEF JobInv
-----------------------------------------------------------------------------
(* Reading.                                                                 *)

(* The frames after a statement.                                            *)
LEMMA FramesRead ==
  ASSUME TypeOK, NEW i \in Jobs, ReadNext(i)
  PROVE  LET t == pair[i][1]
             u == pair[i][2]
             n == RequiredBars(spec[i])
         IN /\ window' \in [Jobs -> SUBSET SnapshotRow] /\ history' \in [Jobs -> SUBSET SnapshotRow]
            /\ modes' \in [Jobs -> SUBSET {Adjusted, "unknown"}]
            /\ window'[i] = (IF step[i] = 1 THEN Read(t, Window(t)) ELSE window[i])
            /\ step[i] = 3 => history'[i] = Read(t, Warmup(t, n))
            /\ step[i] = 4 => history'[i] = history[i] \union Read(t, Window(t))
            /\ step[i] \notin {3, 4} => history'[i] = history[i]
            /\ step[i] = 5 => modes'[i] = Modes(Read(u, Warmup(u, n)))
            /\ step[i] \notin {5, 6} => modes'[i] = modes[i]
            /\ step[i] = 6 => modes'[i] = modes[i] \union Modes(Read(u, Window(u)))
            /\ \A j \in Jobs \ {i} : window'[j] = window[j] /\ history'[j] = history[j] /\ modes'[j] = modes[j]
<1> DEFINE t == pair[i][1]
           u == pair[i][2]
           n == RequiredBars(spec[i])
           f == IF step[i] = 1 THEN Read(t, Window(t)) ELSE window[i]
           g == CASE step[i] = 3 -> Read(t, Warmup(t, n))
                  [] step[i] = 4 -> history[i] \union Read(t, Window(t)) [] OTHER -> history[i]
           h == CASE step[i] = 5 -> Modes(Read(u, Warmup(u, n)))
                  [] step[i] = 6 -> modes[i] \union Modes(Read(u, Window(u))) [] OTHER -> modes[i]
<1>1. /\ window' = [window EXCEPT ![i] = f] /\ history' = [history EXCEPT ![i] = g]
      /\ modes' = [modes EXCEPT ![i] = h]
  BY DEF ReadNext
<1>2. /\ t \in Tickers /\ u \in Tickers /\ MarketTypeOK
      /\ window[i] \subseteq SnapshotRow /\ history[i] \subseteq SnapshotRow
      /\ modes[i] \subseteq {Adjusted, "unknown"}
  BY PairFacts DEF TypeOK
<1>3. /\ Read(t, Window(t)) \subseteq SnapshotRow /\ Read(t, Warmup(t, n)) \subseteq SnapshotRow
      /\ Read(u, Window(u)) \subseteq SnapshotRow /\ Read(u, Warmup(u, n)) \subseteq SnapshotRow
  BY <1>2, ReadFacts, PresentBars
<1>4. \A s \in SUBSET SnapshotRow : Modes(s) \subseteq {Adjusted, "unknown"}
  BY DEF SnapshotRow, Modes
<1>5. f \subseteq SnapshotRow
  BY <1>2, <1>3
<1>6. g \subseteq SnapshotRow
  BY <1>2, <1>3
<1>7. h \subseteq {Adjusted, "unknown"}
  BY <1>2, <1>3, <1>4
<1> HIDE DEF f, g, h
<1>8. /\ window' \in [Jobs -> SUBSET SnapshotRow] /\ history' \in [Jobs -> SUBSET SnapshotRow]
      /\ modes' \in [Jobs -> SUBSET {Adjusted, "unknown"}]
      /\ window'[i] = f /\ history'[i] = g /\ modes'[i] = h
      /\ \A j \in Jobs \ {i} : window'[j] = window[j] /\ history'[j] = history[j] /\ modes'[j] = modes[j]
  BY <1>1, <1>5, <1>6, <1>7 DEF TypeOK
<1>9. /\ step[i] = 3 => g = Read(t, Warmup(t, n))
      /\ step[i] = 4 => g = history[i] \union Read(t, Window(t))
      /\ step[i] \notin {3, 4} => g = history[i]
  BY DEF g
<1>10. /\ step[i] = 5 => h = Modes(Read(u, Warmup(u, n)))
       /\ step[i] = 6 => h = modes[i] \union Modes(Read(u, Window(u)))
       /\ step[i] \notin {5, 6} => h = modes[i]
  BY DEF h
<1> QED
  BY <1>8, <1>9, <1>10 DEF f

(* What a run that reads has so far.                                        *)
LEMMA SnapshotGrows ==
  ASSUME TypeOK, NEW i \in Jobs, JobInv(i), phase[i] = "read", ReadNext(i)
  PROVE  /\ OneRowPerBar(history'[i])
         /\ Sessions(window'[i]) \subseteq Start .. LastBar
         /\ Sessions(window'[i]) \subseteq Present(pair[i][1])
         /\ step[i] = 3 => \A x \in history'[i] : x.bar < Start
         /\ step[i] > 3 => Sessions(window'[i]) \subseteq Sessions(history'[i])
<1> DEFINE t == pair[i][1]
           n == RequiredBars(spec[i])
<1>1. t \in Tickers /\ MarketTypeOK /\ step[i] \in 1 .. 6 /\ Snapshot(i)
  BY PairFacts DEF TypeOK, JobInv
<1>2. /\ window'[i] = (IF step[i] = 1 THEN Read(t, Window(t)) ELSE window[i])
      /\ step[i] = 3 => history'[i] = Read(t, Warmup(t, n))
      /\ step[i] = 4 => history'[i] = history[i] \union Read(t, Window(t))
      /\ step[i] \notin {3, 4} => history'[i] = history[i]
  BY FramesRead
<1>3. /\ Sessions(Read(t, Window(t))) = Window(t) /\ OneRowPerBar(Read(t, Window(t)))
      /\ OneRowPerBar(Read(t, Warmup(t, n)))
      /\ \A x \in Read(t, Window(t)) : x.bar \in Window(t)
      /\ \A x \in Read(t, Warmup(t, n)) : x.bar \in Warmup(t, n)
  BY <1>1, ReadFacts, PresentBars
<1>4. /\ \A b \in Window(t) : b \in Bars /\ ~ (b < Start)
      /\ \A b \in Warmup(t, n) : b < Start
      /\ \A b \in Start .. LastBar : b \in Present(t) => b \in Window(t)
      /\ Window(t) \subseteq Start .. LastBar /\ Window(t) \subseteq Present(t)
  <2>1. \A b \in Present(t) : b \in Bars /\ b \in Int /\ b <= LastBar
    BY Calendar DEF Present
  <2>2. Start \in Int /\ LastBar \in Int
    BY Calendar
  <2>3. \A b \in Window(t) : b \in Present(t) /\ b >= Start
    BY DEF Window
  <2>4. \A b \in Warmup(t, n) : b < Start
    BY DEF Warmup
  <2>5. \A b \in Start .. LastBar : b \in Present(t) => b \in Window(t)
    BY <2>2 DEF Window
  <2> HIDE DEF t, n
  <2> QED
    BY <2>1, <2>2, <2>3, <2>4, <2>5
<1>5. \A x \in history[i] : step[i] = 4 => x.bar < Start
  BY <1>1 DEF Snapshot
<1>6. OneRowPerBar(history'[i])
  <2>1. CASE step[i] = 4
    <3> SUFFICES ASSUME NEW x \in history'[i], NEW y \in history'[i], x.bar = y.bar PROVE x = y
      BY DEF OneRowPerBar
    <3>1. \/ x \in history[i] /\ y \in history[i]
          \/ x \in Read(t, Window(t)) /\ y \in Read(t, Window(t))
      BY <1>2, <1>3, <1>4, <1>5, <2>1
    <3> QED
      BY <1>1, <1>3, <3>1 DEF Snapshot, OneRowPerBar
  <2>2. CASE step[i] # 4
    BY <1>1, <1>2, <1>3, <2>2 DEF Snapshot
  <2> QED
    BY <2>1, <2>2
<1>7. Sessions(window'[i]) \subseteq Start .. LastBar /\ Sessions(window'[i]) \subseteq Present(t)
  <2>1. CASE step[i] = 1
    BY <1>2, <1>3, <1>4, <2>1
  <2>2. CASE step[i] # 1
    BY <1>1, <1>2, <2>2 DEF Snapshot
  <2> QED
    BY <2>1, <2>2
<1>8. step[i] = 3 => \A x \in history'[i] : x.bar < Start
  BY <1>2, <1>3, <1>4
<1>9. step[i] > 3 => Sessions(window'[i]) \subseteq Sessions(history'[i])
  <2>1. CASE step[i] = 4
    <3>1. Sessions(history'[i]) = Sessions(history[i]) \union Window(t)
      BY <1>2, <1>3, <2>1 DEF Sessions
    <3>2. Sessions(window'[i]) \subseteq Window(t)
      BY <1>4, <1>7
    <3> QED
      BY <3>1, <3>2
  <2>2. CASE step[i] > 4
    BY <1>1, <1>2, <2>2 DEF Snapshot
  <2> QED
    BY <1>1, <2>1, <2>2
<1> HIDE DEF t, n
<1> QED
  BY <1>6, <1>7, <1>8, <1>9 DEF t

(* If nobody disturbed its load, it reads what it loaded.                   *)
LEMMA CalmRead ==
  ASSUME TypeOK, NEW i \in Jobs, JobInv(i), phase[i] = "read", ReadNext(i), calm[i]
  PROVE  /\ ~ Refused(i)
         /\ window'[i] = Read(pair[i][1], Window(pair[i][1]))
         /\ step[i] > 2 => Modes(history'[i]) \subseteq {Adjusted}
         /\ step[i] > 3 => window'[i] = {x \in history'[i] : x.bar >= Start}
         /\ step[i] > 4 => modes'[i] \subseteq {Adjusted}
<1> DEFINE t == pair[i][1]
           u == pair[i][2]
           n == RequiredBars(spec[i])
<1>1. /\ t \in Tickers /\ u \in Tickers /\ MarketTypeOK /\ step[i] \in 1 .. 6
      /\ Snapshot(i) /\ CalmLoad(i) /\ Loaded(t) /\ Loaded(u)
  BY PairFacts DEF TypeOK, JobInv, CalmLoad
<1>2. /\ window'[i] = (IF step[i] = 1 THEN Read(t, Window(t)) ELSE window[i])
      /\ step[i] = 3 => history'[i] = Read(t, Warmup(t, n))
      /\ step[i] = 4 => history'[i] = history[i] \union Read(t, Window(t))
      /\ step[i] \notin {3, 4} => history'[i] = history[i]
      /\ step[i] = 5 => modes'[i] = Modes(Read(u, Warmup(u, n)))
      /\ step[i] = 6 => modes'[i] = modes[i] \union Modes(Read(u, Window(u)))
  BY FramesRead
<1>3. /\ step[i] > 1 => window[i] = Read(t, Window(t))
      /\ step[i] > 3 => Modes(history[i]) \subseteq {Adjusted}
      /\ step[i] > 4 => window[i] = {x \in history[i] : x.bar >= Start}
      /\ step[i] > 5 => modes[i] \subseteq {Adjusted}
      /\ step[i] = 4 => \A x \in history[i] : x.bar < Start
  BY <1>1 DEF CalmLoad, Evaluation, Snapshot
<1>4. /\ Sessions(Read(t, Window(t))) = Window(t)
      /\ Modes(Read(t, Window(t))) \subseteq {Adjusted} /\ Modes(Read(t, Warmup(t, n))) \subseteq {Adjusted}
      /\ Modes(Read(u, Window(u))) \subseteq {Adjusted} /\ Modes(Read(u, Warmup(u, n))) \subseteq {Adjusted}
      /\ \A x \in Read(t, Window(t)) : x.bar \in Window(t)
      /\ Read(t, Window(t)) \subseteq SnapshotRow /\ history[i] \subseteq SnapshotRow
  BY <1>1, ReadFacts, PresentBars DEF Loaded, TypeOK
<1>5. LastBar \in Window(t) /\ LastBar \in Window(u) /\ \A b \in Window(t) : b >= Start
  BY <1>1, Calendar DEF Loaded, Window, Present
<1>6. \A x \in SnapshotRow : x.bar \in Int /\ Start \in Int
  <2>1. Start \in Int /\ \A b \in Bars : b \in Int
    BY Calendar
  <2> QED
    BY <2>1 DEF SnapshotRow
<1> HIDE DEF t, u, n
<1>7. window'[i] = Read(t, Window(t))
  BY <1>1, <1>2, <1>3
<1>8. step[i] > 2 => Modes(history'[i]) \subseteq {Adjusted}
  <2>1. CASE step[i] = 3
    BY <1>2, <1>4, <2>1
  <2>2. CASE step[i] = 4
    BY <1>2, <1>3, <1>4, <2>2 DEF Modes
  <2>3. CASE step[i] > 4
    BY <1>1, <1>2, <1>3, <2>3
  <2> QED
    BY <1>1, <2>1, <2>2, <2>3
<1>9. step[i] > 3 => window'[i] = {x \in history'[i] : x.bar >= Start}
  <2>1. CASE step[i] = 4
    <3>1. \A x \in history[i] : ~ (x.bar >= Start)
      BY <1>3, <1>4, <1>6, <2>1
    <3>2. \A x \in Read(t, Window(t)) : x.bar >= Start
      BY <1>4, <1>5
    <3>3. history'[i] = history[i] \union Read(t, Window(t))
      BY <1>2, <2>1
    <3> QED
      BY <1>7, <3>1, <3>2, <3>3
  <2>2. CASE step[i] > 4
    BY <1>1, <1>2, <1>3, <2>2
  <2> QED
    BY <1>1, <2>1, <2>2
<1>10. step[i] > 4 => modes'[i] \subseteq {Adjusted}
  BY <1>1, <1>2, <1>3, <1>4
<1>11. ~ Refused(i)
  <2>1. step[i] = 2 => Sessions(window[i]) \intersect Window(u) # {}
    BY <1>3, <1>4, <1>5
  <2>2. step[i] = 6 => Modes(history'[i]) \union modes'[i] \subseteq {Adjusted}
    BY <1>8, <1>10
  <2> QED
    BY <2>1, <2>2 DEF Refused, u
<1> QED
  BY <1>7, <1>8, <1>9, <1>10, <1>11 DEF t

LEMMA ReadStoreStep == ASSUME NEW i \in Jobs PROVE InputsInv /\ ReadStore(i) => InputsInv'
<1> SUFFICES ASSUME InputsInv, ReadStore(i) PROVE InputsInv'
  OBVIOUS
<1>1. /\ phase[i] = "read" /\ ReadNext(i)
      /\ \/ Refused(i) /\ phase' = [phase EXCEPT ![i] = "refused"] /\ step' = step
         \/ ~ Refused(i) /\ step[i] < 6 /\ step' = [step EXCEPT ![i] = @ + 1] /\ phase' = phase
         \/ /\ ~ Refused(i) /\ ~ (step[i] < 6)
            /\ step' = [step EXCEPT ![i] = 1] /\ phase' = [phase EXCEPT ![i] = "deciding"]
      /\ UNCHANGED <<rows, revision, listed, fetched, refreshes>>
      /\ UNCHANGED <<pair, spec, loads, answer, decided, calm>>
  BY DEF ReadStore, Goes, marketVars
<1>2. TypeOK /\ JobInv(i) /\ step[i] \in 1 .. 6
  BY DEF InputsInv, TypeOK
<1>3. /\ window' \in [Jobs -> SUBSET SnapshotRow] /\ history' \in [Jobs -> SUBSET SnapshotRow]
      /\ modes' \in [Jobs -> SUBSET {Adjusted, "unknown"}]
      /\ \A j \in Jobs \ {i} : window'[j] = window[j] /\ history'[j] = history[j] /\ modes'[j] = modes[j]
  BY <1>1, <1>2, FramesRead
<1>4. /\ phase' \in [Jobs -> {"idle", "deciding", "done", "refused", "unready"} \union Loading]
      /\ step' \in [Jobs -> 1 .. 6]
  <2>1. step[i] < 6 => step[i] + 1 \in 1 .. 6
    BY <1>2
  <2> QED
    BY <1>1, <1>2, <2>1 DEF TypeOK, Loading
<1>5. TypeOK'
  BY <1>1, <1>2, <1>3, <1>4 DEF TypeOK, MarketTypeOK
<1>6. \/ Refused(i) /\ phase'[i] = "refused" /\ step'[i] = step[i]
      \/ ~ Refused(i) /\ phase'[i] = "read" /\ step'[i] = step[i] + 1
      \/ ~ Refused(i) /\ phase'[i] = "deciding" /\ step[i] = 6 /\ step'[i] = 1
  BY <1>1, <1>2 DEF TypeOK
<1>7. Progress(i)'
  BY <1>6 DEF Progress
<1>8. Snapshot(i)'
  <2>1. /\ OneRowPerBar(history'[i])
        /\ Sessions(window'[i]) \subseteq Start .. LastBar
        /\ Sessions(window'[i]) \subseteq Present(pair[i][1])
        /\ step[i] = 3 => \A x \in history'[i] : x.bar < Start
        /\ step[i] > 3 => Sessions(window'[i]) \subseteq Sessions(history'[i])
    BY <1>1, <1>2, SnapshotGrows
  <2>2. /\ OneRowPerBar(history[i])' <=> OneRowPerBar(history'[i])
        /\ Sessions(window[i])' = Sessions(window'[i]) /\ Sessions(history[i])' = Sessions(history'[i])
        /\ Present(pair[i][1])' = Present(pair[i][1])
    BY <1>1 DEF OneRowPerBar, Sessions, Present
  <2>3. /\ phase'[i] = "read" /\ step'[i] = 4 => step[i] = 3
        /\ phase'[i] \in Final \/ (phase'[i] = "read" /\ step'[i] > 4) => step[i] > 3
    BY <1>2, <1>6 DEF Final
  <2> QED
    BY <2>1, <2>2, <2>3 DEF Snapshot, Final
<1>9. CalmLoad(i)'
  <2> SUFFICES ASSUME calm[i] PROVE CalmLoad(i)'
    BY <1>1 DEF CalmLoad
  <2> DEFINE t == pair[i][1]
             u == pair[i][2]
  <2>1. /\ ~ Refused(i)
        /\ window'[i] = Read(t, Window(t))
        /\ step[i] > 2 => Modes(history'[i]) \subseteq {Adjusted}
        /\ step[i] > 3 => window'[i] = {x \in history'[i] : x.bar >= Start}
        /\ step[i] > 4 => modes'[i] \subseteq {Adjusted}
    BY <1>1, <1>2, CalmRead
  <2>2. Loaded(t) /\ Loaded(u)
    BY <1>1, <1>2 DEF JobInv, CalmLoad
  <2>3. /\ t' = t /\ u' = u /\ (Loaded(t) => Loaded(t)') /\ (Loaded(u) => Loaded(u)')
        /\ Read(t, Window(t))' = Read(t, Window(t))
        /\ Modes(history[i])' = Modes(history'[i])
        /\ Evaluation(i)' = {x \in history'[i] : x.bar >= Start}
    BY <1>1 DEF Loaded, Adjusts, Read, Window, Present, Modes, Evaluation
  <2> HIDE DEF t, u
  <2>4. \/ phase'[i] = "read" /\ step'[i] = step[i] + 1
        \/ phase'[i] = "deciding" /\ step[i] = 6
    BY <1>6, <2>1
  <2>5. /\ step[i] + 1 > 3 => step[i] > 2
        /\ step[i] + 1 > 4 => step[i] > 3
        /\ step[i] + 1 > 5 => step[i] > 4
    BY <1>2
  <2>6. CASE phase'[i] = "read" /\ step'[i] = step[i] + 1
    BY <2>1, <2>2, <2>3, <2>5, <2>6 DEF CalmLoad, Final, t, u
  <2>7. CASE phase'[i] = "deciding" /\ step[i] = 6
    BY <2>1, <2>3, <2>7 DEF CalmLoad, Final
  <2> QED
    BY <2>4, <2>6, <2>7
<1>10. DecidedInOrder(i)'
  <2>1. DOMAIN decided'[i] = {}
    BY <1>1, <1>2 DEF JobInv, DecidedInOrder, Final
  <2> QED
    BY <2>1 DEF DecidedInOrder
<1>11. ASSUME NEW j \in Jobs \ {i} PROVE Untouched(j) /\ calm'[j] = calm[j]
  <2>1. phase'[j] = phase[j] /\ step'[j] = step[j]
    BY <1>1, <1>2 DEF TypeOK
  <2> QED
    BY <1>1, <1>3, <2>1 DEF Untouched
<1> QED
  BY <1>1, <1>5, <1>7, <1>8, <1>9, <1>10, <1>11, OneJobMovesAlone DEF JobInv
-----------------------------------------------------------------------------
(* Deciding.                                                                *)
LEMMA TargetType ==
  ASSUME NEW rule \in Policy, NEW closes, NEW last \in 0 .. 100
  PROVE  PolicyTarget(rule, closes, last) \in 0 .. 100
<1>1. rule.target \in 0 .. 100 /\ 0 \in 0 .. 100
  BY DEF Policy
<1> DEFINE S == {last, rule.target}
<1>2. \E x \in S : \A y \in S : x <= y
  <2>1. last \in Int /\ rule.target \in Int
    BY <1>1
  <2>2. CASE last <= rule.target
    BY <2>1, <2>2
  <2>3. CASE ~ (last <= rule.target)
    <3>1. rule.target <= last /\ rule.target <= rule.target
      BY <2>1, <2>3
    <3> QED
      BY <3>1
  <2> QED
    BY <2>2, <2>3
<1>3. Min(S) \in S
  <2> HIDE DEF S
  <2> QED
    BY <1>2 DEF Min
<1>4. Min({last, rule.target}) \in 0 .. 100
  BY <1>1, <1>3
<1> QED
  BY <1>1, <1>4 DEF PolicyTarget, MomentumTarget, SmaTarget

(* The bars decided so far, and the next one.                               *)
LEMMA NextDecision ==
  ASSUME InputsInv, NEW i \in Jobs, phase[i] = "deciding", Due(i) # {}
  PROVE  /\ Min(Due(i)) \in DecisionBars(i) \ DOMAIN decided[i]
         /\ DecisionBars(i) \subseteq Bars
         /\ \A b \in DecisionBars(i) : b < Min(Due(i)) => b \in DOMAIN decided[i]
         /\ \A c \in DOMAIN decided[i] : c \in DecisionBars(i) /\ c < Min(Due(i))
<1> DEFINE bar == Min(Due(i))
<1>1. DecisionBars(i) \subseteq Bars
  <2>1. Sessions(window[i]) \subseteq Start .. LastBar
    BY DEF InputsInv, JobInv, Snapshot
  <2> QED
    BY <2>1, Calendar DEF DecisionBars
<1>2. Due(i) \in SUBSET Bars
  BY <1>1 DEF Due
<1>3. bar \in Due(i) /\ \A b \in Due(i) : bar <= b
  BY <1>2, LeastBar
<1> HIDE DEF bar
<1>4. bar \in DecisionBars(i) /\ bar \notin DOMAIN decided[i] /\ bar \in Int
  BY <1>1, <1>3, BarsAreNumbers DEF Due
<1>5. \A b \in DecisionBars(i) : b \in Int
  BY <1>1, BarsAreNumbers
<1>6. /\ DOMAIN decided[i] \subseteq DecisionBars(i)
      /\ \A b \in DecisionBars(i), c \in DOMAIN decided[i] : b < c => b \in DOMAIN decided[i]
  BY DEF InputsInv, JobInv, DecidedInOrder, Final
<1>7. ASSUME NEW b \in DecisionBars(i), b < bar PROVE b \in DOMAIN decided[i]
  <2>1. ~ (bar <= b)
    <3>1. b \in Int
      BY <1>5
    <3> QED
      BY <1>4, <1>7, <3>1
  <2> QED
    BY <1>3, <2>1 DEF Due
<1>8. ASSUME NEW c \in DOMAIN decided[i] PROVE c < bar
  <2>1. c \in Int /\ c # bar /\ ~ (bar < c)
    BY <1>4, <1>5, <1>6
  <2> QED
    BY <1>4, <2>1
<1> QED
  BY <1>1, <1>4, <1>6, <1>7, <1>8 DEF bar

LEMMA LastTargetType ==
  ASSUME InputsInv, NEW i \in Jobs
  PROVE  LastTarget(i) \in 0 .. 100
<1> DEFINE taken == {b \in DOMAIN decided[i] : decided[i][b] # NotReady}
<1>1. DOMAIN decided[i] \subseteq Bars /\ Range(decided[i]) \subseteq {NotReady} \union 0 .. 100
  BY DEF InputsInv, TypeOK
<1>2. CASE taken = {}
  BY <1>2 DEF LastTarget
<1>3. CASE taken # {}
  <2>1. Max(taken) \in taken
    BY <1>1, <1>3, GreatestBar
  <2>2. LastTarget(i) = decided[i][Max(taken)]
    BY <1>3 DEF LastTarget
  <2> HIDE DEF LastTarget
  <2>3. decided[i][Max(taken)] \in Range(decided[i]) /\ decided[i][Max(taken)] # NotReady
    BY <2>1 DEF Range
  <2> QED
    BY <1>1, <2>2, <2>3
<1> QED
  BY <1>2, <1>3

(* One more decision leaves the earlier ones and the targets before them.   *)
LatestOf(D) ==
  LET taken == {b \in DOMAIN D : D[b] # NotReady} IN IF taken = {} THEN 0 ELSE D[Max(taken)]

DecidesNext(D, E, bar) ==
  /\ bar \in Bars /\ DOMAIN D \subseteq Bars
  /\ DOMAIN E = DOMAIN D \union {bar}
  /\ \A b \in DOMAIN D : E[b] = D[b]
  /\ \A b \in DOMAIN D : b < bar

LEMMA EarlierTargets ==
  ASSUME NEW D, NEW E, NEW bar, DecidesNext(D, E, bar)
  PROVE  /\ \A c \in DOMAIN D : TargetBefore(E, c) = TargetBefore(D, c)
         /\ TargetBefore(E, bar) = LatestOf(D)
<1>0. /\ bar \in Bars /\ DOMAIN D \subseteq Bars
      /\ DOMAIN E = DOMAIN D \union {bar}
      /\ \A b \in DOMAIN D : E[b] = D[b]
      /\ \A b \in DOMAIN D : b < bar
  BY DEF DecidesNext
<1> USE <1>0
<1>1. bar \in Int /\ \A b \in DOMAIN D : b \in Int /\ b # bar /\ b < bar
  <2>1. bar \in Int /\ \A b \in DOMAIN D : b \in Int
    BY BarsAreNumbers
  <2> QED
    BY <2>1
<1>2. ASSUME NEW c \in DOMAIN D PROVE TargetBefore(E, c) = TargetBefore(D, c)
  <2> DEFINE taken == {b \in DOMAIN D : b < c /\ D[b] # NotReady}
  <2>1. ~ (bar < c)
    BY <1>1
  <2>2. {b \in DOMAIN E : b < c /\ E[b] # NotReady} = taken
    BY <2>1
  <2>3. taken # {} => E[Max(taken)] = D[Max(taken)]
    <3>1. taken # {} => Max(taken) \in taken
      BY GreatestBar
    <3> QED
      BY <3>1
  <2> HIDE DEF taken
  <2>4. TargetBefore(E, c) = IF taken = {} THEN 0 ELSE E[Max(taken)]
    BY <2>2 DEF TargetBefore
  <2>5. TargetBefore(D, c) = IF taken = {} THEN 0 ELSE D[Max(taken)]
    BY DEF TargetBefore, taken
  <2> QED
    BY <2>3, <2>4, <2>5
<1>3. TargetBefore(E, bar) = LatestOf(D)
  <2> DEFINE taken == {b \in DOMAIN D : D[b] # NotReady}
  <2>1. {b \in DOMAIN E : b < bar /\ E[b] # NotReady} = taken
    BY <1>1
  <2>2. taken # {} => E[Max(taken)] = D[Max(taken)]
    <3>1. taken # {} => Max(taken) \in taken
      BY GreatestBar
    <3> QED
      BY <3>1
  <2> HIDE DEF taken
  <2>3. TargetBefore(E, bar) = IF taken = {} THEN 0 ELSE E[Max(taken)]
    BY <2>1 DEF TargetBefore
  <2>4. LatestOf(D) = IF taken = {} THEN 0 ELSE D[Max(taken)]
    BY DEF LatestOf, taken
  <2> QED
    BY <2>2, <2>3, <2>4
<1> QED
  BY <1>2, <1>3

(* One decision that follows the rule.                                      *)
LEMMA DecisionKeeps ==
  ASSUME InputsInv, NEW i \in Jobs, phase[i] = "deciding", Due(i) # {},
         NEW target \in {NotReady} \union 0 .. 100, Records(i, Min(Due(i)), target),
         IF spec[i].mode = "deterministic"
         THEN target = Ruled(spec[i], Closes(i, Min(Due(i))), LastTarget(i))
         ELSE target = NotReady => Closes(i, Min(Due(i))) = <<>>,
         UNCHANGED <<phase, marketVars, pair, spec, step, loads, answer, Frames, calm>>
  PROVE  InputsInv'
<1> DEFINE bar == Min(Due(i))
           D == decided[i]
           E == [b \in DOMAIN D \union {bar} |-> IF b = bar THEN target ELSE D[b]]
<1>1. /\ UNCHANGED <<rows, revision, listed, fetched, refreshes, phase, pair, spec, step, loads, answer>>
      /\ UNCHANGED <<window, history, modes, calm>>
  BY DEF marketVars, Frames
<1>2. TypeOK /\ JobInv(i) /\ DOMAIN decided = Jobs /\ decided' = [decided EXCEPT ![i] = E]
  BY DEF InputsInv, TypeOK, Records
<1>3. /\ bar \in DecisionBars(i) \ DOMAIN D /\ DecisionBars(i) \subseteq Bars
      /\ \A b \in DecisionBars(i) : b < bar => b \in DOMAIN D
      /\ \A c \in DOMAIN D : c \in DecisionBars(i) /\ c < bar
  BY NextDecision
<1> HIDE DEF bar
<1>4. /\ decided'[i] = E /\ DOMAIN E = DOMAIN D \union {bar} /\ E[bar] = target
      /\ \A b \in DOMAIN D : E[b] = D[b]
      /\ \A j \in Jobs \ {i} : decided'[j] = decided[j]
  BY <1>2, <1>3
<1>5. /\ \A c \in DOMAIN D : TargetBefore(E, c) = TargetBefore(D, c)
      /\ TargetBefore(E, bar) = LastTarget(i)
  <2>1. bar \in Bars /\ DOMAIN D \subseteq Bars
    BY <1>3
  <2> HIDE DEF E
  <2> QED
    <3>1. /\ \A c \in DOMAIN D : TargetBefore(E, c) = TargetBefore(D, c)
          /\ TargetBefore(E, bar) = LatestOf(D)
      <4> HIDE DEF D
      <4>1. \A c \in DOMAIN D : c < bar
        BY <1>3
      <4>2. DOMAIN E = DOMAIN D \union {bar} /\ \A b \in DOMAIN D : E[b] = D[b]
        BY <1>4
      <4>3. DecidesNext(D, E, bar)
        BY <2>1, <4>1, <4>2, Zenon DEF DecidesNext
      <4> QED
        BY <4>3, EarlierTargets
    <3>2. LastTarget(i) = LatestOf(decided[i])
      BY Zenon DEF LastTarget, LatestOf
    <3> QED
      BY <3>1, <3>2, Zenon
<1>6. TypeOK'
  <2>1. DOMAIN E \subseteq Bars /\ Range(E) \subseteq {NotReady} \union 0 .. 100
    <3>1. Range(D) \subseteq {NotReady} \union 0 .. 100
      BY <1>2 DEF TypeOK
    <3> HIDE DEF E, D
    <3>2. \A b \in DOMAIN D : D[b] \in {NotReady} \union 0 .. 100
      BY <3>1 DEF Range
    <3>3. \A b \in DOMAIN E : E[b] \in {NotReady} \union 0 .. 100
      BY <1>4, <3>2
    <3>4. DOMAIN E \subseteq Bars
      BY <1>3, <1>4
    <3> QED
      BY <3>3, <3>4, Zenon DEF Range
  <2>2. DOMAIN decided' = Jobs
    BY <1>2
  <2>3. \A j \in Jobs : DOMAIN decided'[j] \subseteq Bars /\ Range(decided'[j]) \subseteq {NotReady} \union 0 .. 100
    BY <1>2, <1>4, <2>1 DEF TypeOK
  <2>4. MarketTypeOK'
    BY <1>1, <1>2 DEF TypeOK, MarketTypeOK
  <2>5. /\ phase' \in [Jobs -> {"idle", "deciding", "done", "refused", "unready"} \union Loading]
        /\ pair' \in [Jobs -> Pairs] /\ spec' \in [Jobs -> Policies]
        /\ step' \in [Jobs -> 1 .. 6] /\ loads' \in [Jobs -> 0 .. MaxLoads]
        /\ answer' \in [Jobs -> {0} \union DOMAIN Revisions]
    BY <1>1, <1>2 DEF TypeOK
  <2>6. /\ window' \in [Jobs -> SUBSET SnapshotRow] /\ history' \in [Jobs -> SUBSET SnapshotRow]
        /\ modes' \in [Jobs -> SUBSET {Adjusted, "unknown"}] /\ calm' \in [Jobs -> BOOLEAN]
    BY <1>1, <1>2, Zenon DEF TypeOK
  <2> QED
    BY <2>2, <2>3, <2>4, <2>5, <2>6, Zenon DEF TypeOK
<1>7. DecidedInOrder(i)'
  <2>1. DecisionBars(i)' = DecisionBars(i) /\ \A b : Closes(i, b)' = Closes(i, b)
    BY <1>1 DEF DecisionBars, Sessions, Closes, DatedCloses, Close
  <2>2. phase'[i] \in Final /\ phase[i] \in Final
    BY <1>1 DEF Final
  <2> HIDE DEF E
  <2>3. DOMAIN E \subseteq DecisionBars(i)
    BY <1>3, <1>4
  <2>4. ASSUME NEW b \in DecisionBars(i), NEW c \in DOMAIN E, b < c PROVE b \in DOMAIN E
    BY <1>2, <1>3, <1>4, <2>2, <2>4 DEF JobInv, DecidedInOrder
  <2>5. ASSUME NEW c \in DOMAIN E
        PROVE  IF spec[i].mode = "deterministic"
               THEN E[c] = Ruled(spec[i], Closes(i, c), TargetBefore(E, c))
               ELSE E[c] = NotReady => Closes(i, c) = <<>>
    <3>1. CASE c = bar
      <4>1. E[c] = target /\ TargetBefore(E, c) = LastTarget(i)
        BY <1>4, <1>5, <3>1
      <4> QED
        BY <3>1, <4>1 DEF bar
    <3>2. CASE c \in DOMAIN D
      BY <1>2, <1>4, <1>5, <3>2 DEF JobInv, DecidedInOrder
    <3> QED
      BY <1>4, <3>1, <3>2
  <2> QED
    BY <1>1, <1>4, <2>1, <2>2, <2>3, <2>4, <2>5 DEF DecidedInOrder, Final
<1>8. Progress(i)' /\ Snapshot(i)'
  BY <1>1, <1>2 DEF JobInv, Progress, Snapshot, Sessions, OneRowPerBar, Present, Final
<1>9. CalmLoad(i)'
  <2>1. phase[i] = "deciding" /\ (calm[i] => window[i] = Evaluation(i)) /\ Evaluation(i)' = Evaluation(i)
    BY <1>1, <1>2 DEF JobInv, CalmLoad, Evaluation, Final
  <2> QED
    BY <1>1, <2>1 DEF CalmLoad, Final
<1>10. \A j \in Jobs \ {i} : Untouched(j) /\ calm'[j] = calm[j]
  BY <1>1, <1>4 DEF Untouched
<1> QED
  BY <1>1, <1>6, <1>7, <1>8, <1>9, <1>10, OneJobMovesAlone DEF JobInv

LEMMA DecideStep == ASSUME NEW i \in Jobs PROVE InputsInv /\ Decide(i) => InputsInv'
<1> SUFFICES ASSUME InputsInv, Decide(i) PROVE InputsInv'
  OBVIOUS
<1> DEFINE target == Ruled(spec[i], Closes(i, Min(Due(i))), LastTarget(i))
<1>1. /\ phase[i] = "deciding" /\ spec[i].mode = "deterministic" /\ Due(i) # {}
      /\ Records(i, Min(Due(i)), target)
      /\ UNCHANGED <<phase, marketVars, pair, spec, step, loads, answer, Frames, calm>>
  BY Zenon DEF Decide, Ruled
<1>2. target \in {NotReady} \union 0 .. 100
  BY PairFacts, LastTargetType, TargetType DEF InputsInv, Ruled
<1> HIDE DEF target
<1>3. IF spec[i].mode = "deterministic"
      THEN target = Ruled(spec[i], Closes(i, Min(Due(i))), LastTarget(i))
      ELSE target = NotReady => Closes(i, Min(Due(i))) = <<>>
  BY <1>1 DEF target
<1> QED
  BY <1>1, <1>2, <1>3, DecisionKeeps

LEMMA DecideByModelStep == ASSUME NEW i \in Jobs PROVE InputsInv /\ DecideByModel(i) => InputsInv'
<1> SUFFICES ASSUME InputsInv, DecideByModel(i) PROVE InputsInv'
  OBVIOUS
<1>1. PICK target \in {0, spec[i].target} :
        Records(i, Min(Due(i)), IF Closes(i, Min(Due(i))) = <<>> THEN NotReady ELSE target)
  BY Zenon DEF DecideByModel
<1> DEFINE x == IF Closes(i, Min(Due(i))) = <<>> THEN NotReady ELSE target
<1>2. /\ phase[i] = "deciding" /\ spec[i].mode = "agent_experiment" /\ Due(i) # {}
      /\ UNCHANGED <<phase, marketVars, pair, spec, step, loads, answer, Frames, calm>>
  BY DEF DecideByModel
<1>3. target \in 0 .. 100
  BY PairFacts DEF InputsInv, Policy
<1>4. x \in {NotReady} \union 0 .. 100 /\ (x = NotReady => Closes(i, Min(Due(i))) = <<>>)
  BY <1>3 DEF NotReady
<1>5. Records(i, Min(Due(i)), x)
  BY <1>1
<1> HIDE DEF x
<1> QED
  BY <1>2, <1>4, <1>5, DecisionKeeps

LEMMA FinishStep == ASSUME NEW i \in Jobs PROVE InputsInv /\ Finish(i) => InputsInv'
<1> SUFFICES ASSUME InputsInv, Finish(i) PROVE InputsInv'
  OBVIOUS
<1>1. /\ phase[i] = "deciding"
      /\ \/ phase' = [phase EXCEPT ![i] = "unready"]
         \/ phase' = [phase EXCEPT ![i] = "done"]
      /\ UNCHANGED <<rows, revision, listed, fetched, refreshes>>
      /\ UNCHANGED <<pair, spec, step, loads, answer, window, history, modes, decided, calm>>
  BY DEF Finish, Goes, marketVars, Frames
<1>2. TypeOK /\ JobInv(i)
  BY DEF InputsInv
<1>3. TypeOK'
  BY <1>1, <1>2 DEF TypeOK, MarketTypeOK, Loading
<1>4. phase'[i] \in {"unready", "done"} /\ phase'[i] \in Final /\ phase[i] \in Final
  BY <1>1, <1>2 DEF TypeOK, Final
<1>5. DecidedInOrder(i)'
  BY <1>1, <1>2, <1>4, DecisionsStand DEF JobInv
<1>6. Progress(i)' /\ Snapshot(i)' /\ CalmLoad(i)'
  <2>1. Evaluation(i)' = Evaluation(i)
    BY <1>1 DEF Evaluation
  <2>2. Snapshot(i)'
    BY <1>1, <1>2, <1>4 DEF JobInv, Snapshot, Sessions, OneRowPerBar
  <2> QED
    BY <1>1, <1>2, <1>4, <2>1, <2>2 DEF JobInv, Progress, CalmLoad
<1>7. \A j \in Jobs \ {i} : Untouched(j) /\ calm'[j] = calm[j]
  BY <1>1, <1>2 DEF Untouched, TypeOK
<1> QED
  BY <1>1, <1>3, <1>5, <1>6, <1>7, OneJobMovesAlone DEF JobInv
-----------------------------------------------------------------------------
(* The provider and the collector.                                          *)
LEMMA ProvideStep == InputsInv /\ Provide => InputsInv'
<1> SUFFICES ASSUME InputsInv, Provide PROVE InputsInv'
  OBVIOUS
<1>1. UNCHANGED <<phase, pair, spec, step, loads, answer, window, history, modes, decided>>
  BY DEF Provide, Frames
<1>2. TypeOK /\ MarketTypeOK /\ ListedRows /\ \A j \in Jobs : JobInv(j)
  BY DEF InputsInv, TypeOK
<1>3. \A j \in Jobs : Untouched(j)
  BY <1>1 DEF Untouched
<1>4. CASE (Revise \/ \E t \in Tickers : RefreshFetch(t)) /\ UNCHANGED calm
  <2>1. rows' = rows /\ listed' = listed /\ calm' = calm
    BY <1>4 DEF Revise, RefreshFetch
  <2>2. MarketTypeOK'
    <3>1. CASE Revise
      BY <1>2, <3>1 DEF Revise, MarketTypeOK
    <3>2. CASE \E t \in Tickers : RefreshFetch(t)
      <4>1. refreshes' \in 0 .. MaxRefreshes
        BY <1>2, <3>2, DataAssumption DEF RefreshFetch, MarketTypeOK
      <4> QED
        BY <1>2, <3>2, <4>1 DEF RefreshFetch, MarketTypeOK
    <3> QED
      BY <1>4, <3>1, <3>2
  <2>3. TypeOK' /\ ListedRows' /\ StoreGrows
    BY <1>1, <1>2, <2>1, <2>2 DEF TypeOK, ListedRows, StoreGrows
  <2>4. \A j \in Jobs : LeftAlone(j)
    BY <2>1 DEF LeftAlone
  <2>5. \A j \in Jobs : JobInv(j)'
    BY <1>3, <2>3, <2>4, BystanderKeeps
  <2> QED
    BY <2>3, <2>5 DEF InputsInv
<1>5. CASE \E t \in Tickers : RefreshStore(t) /\ Disturbs(t, "collector")
  <2>1. PICK t \in Tickers : RefreshStore(t) /\ Disturbs(t, "collector")
    BY <1>5
  <2>2. /\ rows' = Upserted(t, Recent, fetched[t], "unknown") /\ listed' = listed
        /\ fetched' = [fetched EXCEPT ![t] = 0] /\ revision' = revision /\ refreshes' = refreshes
        /\ fetched[t] \in DOMAIN Revisions /\ Recent \in Int /\ "unknown" \in {Adjusted, "unknown"}
    BY <1>2, <2>1, Calendar, DataAssumption DEF RefreshStore, MarketTypeOK
  <2>3. /\ rows' \in [Tickers -> [Bars -> Row \union {Absent}]] /\ ListedRows' /\ StoreGrows
        /\ \A u \in Tickers : u # t => rows'[u] = rows[u]
    BY <1>2, <2>2, WriteFacts
  <2>4. TypeOK'
    BY <1>1, <1>2, <2>1, <2>2, <2>3 DEF TypeOK, MarketTypeOK, Disturbs
  <2>5. \A j \in Jobs : LeftAlone(j)
    BY <1>1, <2>1, <2>3, OthersDisturb, InputsAssumption
  <2>6. \A j \in Jobs : JobInv(j)'
    BY <1>3, <2>3, <2>5, BystanderKeeps
  <2> QED
    BY <2>3, <2>4, <2>6 DEF InputsInv
<1> QED
  BY <1>4, <1>5 DEF Provide

LEMMA StutteringInputs == InputsInv /\ UNCHANGED vars => InputsInv'
<1> SUFFICES ASSUME InputsInv, UNCHANGED vars PROVE InputsInv'
  OBVIOUS
<1>1. /\ UNCHANGED <<rows, revision, listed, fetched, refreshes>>
      /\ UNCHANGED <<phase, pair, spec, step, loads, answer, window, history, modes, decided, calm>>
  BY DEF vars, marketVars, jobVars
<1>2. TypeOK' /\ ListedRows' /\ StoreGrows
  BY <1>1 DEF InputsInv, TypeOK, MarketTypeOK, ListedRows, StoreGrows
<1>3. \A j \in Jobs : Untouched(j) /\ LeftAlone(j)
  BY <1>1 DEF Untouched, LeftAlone
<1>4. \A j \in Jobs : JobInv(j)'
  BY <1>2, <1>3, BystanderKeeps
<1> QED
  BY <1>2, <1>4 DEF InputsInv

LEMMA NextInputs == InputsInv /\ [Next]_vars => InputsInv'
<1>1. ASSUME NEW j \in Jobs PROVE InputsInv /\ Run(j) => InputsInv'
  BY BeginStep, FetchStep, StoreRawStep, StoreAdjustedStep, ReadStoreStep, DecideStep,
     DecideByModelStep, FinishStep DEF Run
<1> QED
  BY <1>1, ProvideStep, StutteringInputs DEF Next

(* What every state of a backtest's inputs satisfies (backtest_data.py,     *)
(* history.py, backtest_policy_executor.py).                                *)
THEOREM InputsInvariant == Spec => []InputsInv
<1>1. Init => InputsInv
  BY InitInputs
<1>2. InputsInv /\ [Next]_vars => InputsInv'
  BY NextInputs
<1> QED
  BY <1>1, <1>2, PTL DEF Spec
-----------------------------------------------------------------------------
(* The promises.                                                            *)

(* A run whose loads were answered and whose tickers nobody else wrote      *)
(* meanwhile is accepted, and runs on the rows it decides on                *)
(* (backtest_data.py, history.py).                                          *)
THEOREM UndisturbedRunsAreAccepted == Spec => []AloneIsAccepted
<1>1. InputsInv => AloneIsAccepted
  BY DEF InputsInv, JobInv, CalmLoad, AloneIsAccepted, Final
<1> QED
  BY <1>1, InputsInvariant, PTL

(* Two runs that agree up to a bar agree up to every bar before.            *)
LEMMA PastShrinks ==
  ASSUME TypeOK, NEW i \in Jobs, NEW j \in Jobs, NEW b \in Int, NEW c \in Int, c <= b,
         Past(i, b) = Past(j, b), \A k \in Jobs : DecisionBars(k) \subseteq Bars
  PROVE  Past(i, c) = Past(j, c)
<1>1. ASSUME NEW k \in Jobs
      PROVE  /\ DatedCloses(k, c) = {d \in DatedCloses(k, b) : d[1] <= c}
             /\ {x \in DecisionBars(k) : x <= c} = {x \in {y \in DecisionBars(k) : y <= b} : x <= c}
  <2>1. \A r \in history[k] : r.bar \in Int
    <3>1. history[k] \subseteq SnapshotRow
      BY DEF TypeOK
    <3> QED
      BY <3>1, BarsAreNumbers DEF SnapshotRow
  <2>2. \A r \in history[k] : r.bar <= c => r.bar <= b
    BY <2>1
  <2>3. DatedCloses(k, c) = {d \in DatedCloses(k, b) : d[1] <= c}
    BY <2>2 DEF DatedCloses
  <2>4. \A x \in DecisionBars(k) : x \in Int
    BY BarsAreNumbers
  <2> QED
    BY <2>3, <2>4
<1>2. /\ DatedCloses(i, b) = DatedCloses(j, b)
      /\ {y \in DecisionBars(i) : y <= b} = {y \in DecisionBars(j) : y <= b}
  BY DEF Past
<1>3. DatedCloses(i, c) = DatedCloses(j, c)
  BY <1>1, <1>2
<1>4. {x \in DecisionBars(i) : x <= c} = {x \in DecisionBars(j) : x <= c}
  BY <1>1, <1>2
<1> QED
  BY <1>3, <1>4 DEF Past

LEMMA DecisionsAgree ==
  ASSUME InputsInv, NEW i \in Jobs, NEW j \in Jobs, spec[i] = spec[j], spec[i].mode = "deterministic"
  PROVE  \A bar \in DOMAIN decided[i] \intersect DOMAIN decided[j] :
           Past(i, bar) = Past(j, bar) => decided[i][bar] = decided[j][bar]
<1> DEFINE D == decided[i]
           E == decided[j]
           bad == {b \in DOMAIN D \intersect DOMAIN E : Past(i, b) = Past(j, b) /\ D[b] # E[b]}
<1>1. SUFFICES ASSUME bad # {} PROVE FALSE
  OBVIOUS
<1>2. \A k \in Jobs : /\ DOMAIN decided[k] \subseteq DecisionBars(k) /\ DecisionBars(k) \subseteq Bars
                      /\ \A b \in DecisionBars(k), c \in DOMAIN decided[k] : b < c => b \in DOMAIN decided[k]
  <2> SUFFICES ASSUME NEW k \in Jobs
               PROVE  /\ DOMAIN decided[k] \subseteq DecisionBars(k) /\ DecisionBars(k) \subseteq Bars
                      /\ \A b \in DecisionBars(k), c \in DOMAIN decided[k] : b < c => b \in DOMAIN decided[k]
    OBVIOUS
  <2>1. Sessions(window[k]) \subseteq Bars
    BY Calendar DEF InputsInv, JobInv, Snapshot
  <2> QED
    BY <2>1 DEF InputsInv, JobInv, DecidedInOrder, DecisionBars
<1>3. bad \in SUBSET Nat
  BY <1>2, BarsAreNumbers
<1>4. PICK b \in bad : \A m \in bad : b <= m
  <2> HIDE DEF bad
  <2> QED
    BY <1>1, <1>3, LeastMember
<1>5. /\ b \in DOMAIN D /\ b \in DOMAIN E /\ D[b] # E[b] /\ Past(i, b) = Past(j, b)
      /\ b \in Int /\ \A k \in Jobs : \A c \in DecisionBars(k) : c \in Int
  BY <1>2, BarsAreNumbers
<1>6. \A c : (c \in DOMAIN D /\ c < b) <=> (c \in DOMAIN E /\ c < b)
  <2>1. \A c : (c \in DecisionBars(i) /\ c < b) <=> (c \in DecisionBars(j) /\ c < b)
    <3>1. {x \in DecisionBars(i) : x <= b} = {x \in DecisionBars(j) : x <= b}
      BY <1>5 DEF Past
    <3>2. \A k \in Jobs : \A c \in DecisionBars(k) : c < b => c <= b
      BY <1>5
    <3> QED
      BY <3>1, <3>2
  <2> QED
    BY <1>2, <1>5, <2>1
<1>7. ASSUME NEW c \in DOMAIN D, c < b PROVE D[c] = E[c]
  <2>1. c \in DOMAIN E /\ c \in Int /\ c <= b /\ ~ (b <= c)
    BY <1>2, <1>5, <1>6, <1>7
  <2>2. Past(i, c) = Past(j, c)
    BY <1>2, <1>5, <2>1, PastShrinks DEF InputsInv
  <2> QED
    BY <1>4, <2>1, <2>2
<1>8. TargetBefore(D, b) = TargetBefore(E, b)
  <2> DEFINE taken == {c \in DOMAIN D : c < b /\ D[c] # NotReady}
  <2>1. {c \in DOMAIN E : c < b /\ E[c] # NotReady} = taken
    BY <1>6, <1>7
  <2>2. taken # {} => D[Max(taken)] = E[Max(taken)]
    <3>1. taken \in SUBSET Bars
      BY <1>2
    <3>2. taken # {} => Max(taken) \in taken
      <4> HIDE DEF taken
      <4> QED
        BY <3>1, GreatestBar
    <3> QED
      BY <1>7, <3>2
  <2> HIDE DEF D, E
  <2>3. TargetBefore(D, b) = IF taken = {} THEN 0 ELSE D[Max(taken)]
    BY DEF TargetBefore
  <2> HIDE DEF taken
  <2>4. TargetBefore(E, b) = IF taken = {} THEN 0 ELSE E[Max(taken)]
    BY <2>1 DEF TargetBefore
  <2> QED
    BY <2>2, <2>3, <2>4
<1>9. Closes(i, b) = Closes(j, b)
  BY <1>5, Zenon DEF Past, Closes
<1>10. D[b] = Ruled(spec[i], Closes(i, b), TargetBefore(D, b))
  BY <1>5 DEF InputsInv, JobInv, DecidedInOrder
<1>11. E[b] = Ruled(spec[i], Closes(j, b), TargetBefore(E, b))
  BY <1>5 DEF InputsInv, JobInv, DecidedInOrder
<1> HIDE DEF D, E
<1> QED
  BY <1>5, <1>8, <1>9, <1>10, <1>11

(* What a frozen rule decides depends on the closes up to the decision and  *)
(* on nothing else: no later bar, no fill and no other run                  *)
(* (backtest_policy_executor.py).                                           *)
THEOREM DecisionsUseThePast == Spec => []SamePastSameDecisions
<1>1. InputsInv => SamePastSameDecisions
  BY DecisionsAgree, Zenon DEF SamePastSameDecisions
<1> QED
  BY <1>1, InputsInvariant, PTL

(* The closes of a decision: one for every bar of its warm-up, and its own. *)
LEMMA ClosesHaveTheWarmup ==
  ASSUME InputsInv, NEW j \in Jobs, NEW bar \in DOMAIN decided[j]
  PROVE  LET warmup == {row \in history[j] : row.bar < Start}
         IN /\ Cardinality(warmup) \in Nat /\ Len(Closes(j, bar)) \in Nat
            /\ Cardinality(warmup) + 1 <= Len(Closes(j, bar))
<1> DEFINE warmup == {row \in history[j] : row.bar < Start}
           dated == DatedCloses(j, bar)
           dates == Dates(dated, LastBar)
           rest == dates \ {bar}
           f == [row \in warmup |-> row.bar]
<1>1. /\ bar \in DecisionBars(j) /\ OneRowPerBar(history[j])
      /\ Sessions(window[j]) \subseteq Start .. LastBar /\ Sessions(window[j]) \subseteq Sessions(history[j])
  BY DEF InputsInv, JobInv, DecidedInOrder, Snapshot
<1>2. /\ bar \in Sessions(history[j]) /\ bar \in Start .. LastBar /\ bar \in Int /\ Start \in Int
      /\ LastBar \in Int /\ 1 <= bar
  BY <1>1, Calendar, BarsAreNumbers DEF DecisionBars
<1>3. \A row \in history[j] : row.bar \in Int /\ 1 <= row.bar /\ row.bar <= LastBar
  <2>1. \A b \in Bars : b \in Int /\ 1 <= b /\ b <= LastBar
    BY <1>2 DEF Bars
  <2> QED
    BY <2>1 DEF InputsInv, TypeOK, SnapshotRow
<1>4. ASSUME NEW row \in history[j], row.bar <= bar PROVE row.bar \in dates
  <2>1. <<row.bar, Close(pair[j][1], row)>> \in dated
    BY <1>4 DEF DatedCloses
  <2>2. <<row.bar, Close(pair[j][1], row)>>[1] = row.bar /\ row.bar \in 1 .. LastBar
    BY <1>2, <1>3
  <2> HIDE DEF dated
  <2> QED
    BY <2>1, <2>2 DEF Dates
<1>5. bar \in dates
  <2>1. PICK row \in history[j] : row.bar = bar
    BY <1>2 DEF Sessions
  <2> HIDE DEF dates
  <2> QED
    BY <1>2, <1>4, <2>1
<1>6. \A row \in warmup : row.bar \in rest
  BY <1>2, <1>3, <1>4
<1>7. IsFiniteSet(dates) /\ Len(Closes(j, bar)) = Cardinality(dates)
  BY InOrderLength DEF Closes
<1>8. f \in Injection(warmup, rest)
  BY <1>1, <1>6 DEF Injection, OneRowPerBar, IsInjective
<1> HIDE DEF warmup, dates, f
<1>9. /\ IsFiniteSet(rest) /\ Cardinality(rest) = Cardinality(dates) - 1
      /\ Cardinality(dates) \in Nat
  BY <1>5, <1>7, FS_RemoveElement, FS_CardinalityType
<1> HIDE DEF rest
<1>10. IsFiniteSet(warmup) /\ Cardinality(warmup) <= Cardinality(rest)
  BY <1>8, <1>9, FS_Injection DEF ExistsInjection
<1>11. Cardinality(warmup) \in Nat
  BY <1>10, FS_CardinalityType
<1> QED
  BY <1>7, <1>9, <1>10, <1>11 DEF warmup

(* A decision lacks closes only if the store lacked the bars of the warm-up:*)
(* what is asked for is enough for the first decision                       *)
(* (required_lookback_bars, minimum_close_count).                           *)
THEOREM WarmupIsEnough == Spec => []ReadyWithItsWarmup
<1>1. InputsInv => ReadyWithItsWarmup
  <2> SUFFICES ASSUME InputsInv, NEW j \in Jobs, NEW bar \in DOMAIN decided[j],
                      decided[j][bar] = NotReady
               PROVE  Cardinality({row \in history[j] : row.bar < Start}) < RequiredBars(spec[j])
    BY DEF ReadyWithItsWarmup
  <2> DEFINE n == Cardinality({row \in history[j] : row.bar < Start})
             m == Len(Closes(j, bar))
             last == TargetBefore(decided[j], bar)
  <2>1. n \in Nat /\ m \in Nat /\ n + 1 <= m
    BY ClosesHaveTheWarmup
  <2>2. spec[j] \in Policy
    BY PairFacts DEF InputsInv
  <2>3. IF spec[j].mode = "deterministic"
        THEN decided[j][bar] = Ruled(spec[j], Closes(j, bar), last)
        ELSE Closes(j, bar) = <<>>
    BY DEF InputsInv, JobInv, DecidedInOrder
  <2>4. last \in 0 .. 100
    <3> DEFINE taken == {b \in DOMAIN decided[j] : b < bar /\ decided[j][b] # NotReady}
    <3>1. DOMAIN decided[j] \subseteq Bars /\ Range(decided[j]) \subseteq {NotReady} \union 0 .. 100
      BY DEF InputsInv, TypeOK
    <3>2. CASE taken = {}
      BY <3>2 DEF TargetBefore
    <3>3. CASE taken # {}
      <4>1. Max(taken) \in taken
        BY <3>1, <3>3, GreatestBar
      <4>2. decided[j][Max(taken)] \in Range(decided[j]) /\ decided[j][Max(taken)] # NotReady
        BY <4>1 DEF Range
      <4>3. last = decided[j][Max(taken)]
        BY <3>3 DEF TargetBefore
      <4> HIDE DEF last
      <4> QED
        BY <3>1, <4>2, <4>3
    <3> QED
      BY <3>2, <3>3
  <2> HIDE DEF n, m, last
  <2>5. spec[j].mode = "deterministic"
    <3>1. m = 0 => FALSE
      BY <2>1
    <3> QED
      BY <2>3, <3>1 DEF m
  <2>6. m < MinimumCloses(spec[j])
    <3>1. PolicyTarget(spec[j], Closes(j, bar), last) # NotReady
      <4>1. PolicyTarget(spec[j], Closes(j, bar), last) \in 0 .. 100
        BY <2>2, <2>4, TargetType
      <4> QED
        BY <4>1 DEF NotReady
    <3> QED
      BY <2>3, <2>5, <3>1 DEF Ruled, m
  <2>7. /\ RequiredBars(spec[j]) \in Nat /\ MinimumCloses(spec[j]) \in Nat
        /\ MinimumCloses(spec[j]) <= RequiredBars(spec[j]) + 1
    BY <2>2, <2>5 DEF Policy, RequiredBars, MinimumCloses
  <2>8. n < RequiredBars(spec[j])
    BY <2>1, <2>6, <2>7
  <2> QED
    BY <2>8 DEF n
<1> QED
  BY <1>1, InputsInvariant, PTL
=============================================================================
