---------------------------- MODULE AgentLoopProofs ----------------------------
(***************************************************************************)
(* Theorems about AgentLoop, for every set of tools, every number of calls *)
(* and iterations and every way compression cuts the conversation: the     *)
(* results in it follow their calls and none is missing, and tools that    *)
(* write run last.                                                         *)
(***************************************************************************)
EXTENDS AgentLoop, Integers, SequenceTheorems, WellFoundedInduction, TLAPS

-----------------------------------------------------------------------------
(* What Kept keeps.  It is defined by recursion over the sequence; the      *)
(* induction goes through the least position for which a claim fails.       *)

(* A set of natural numbers has a least member. *)
LEMMA LeastMember ==
  ASSUME NEW S \in SUBSET Nat, S # {}
  PROVE  \E n \in S : \A m \in S : n <= m
<1> DEFINE R == OpToRel(<, Nat)
<1>1. \A m, n \in Nat : <<m, n>> \in R <=> m < n
  BY Zenon DEF OpToRel
<1>2. IsWellFoundedOn(R, Nat)
  BY NatLessThanWellFounded, Zenon
<1> HIDE DEF R
<1>3. PICK n \in S : \A m \in S : ~ (<<m, n>> \in R)
  BY <1>2, WFMin, Zenon
<1>4. n \in Nat /\ \A m \in S : m \in Nat /\ ~ (m < n)
  BY <1>1, <1>3
<1> QED
  BY <1>4

(* The recursion of Kept has a solution.                                    *)
KeptStep(s, keep, f, n) ==
  f[n] = IF n = 0 THEN <<>> ELSE IF n \in keep THEN Append(f[n - 1], s[n]) ELSE f[n - 1]

LEMMA KeptExists ==
  ASSUME NEW s, NEW keep, NEW l \in Nat
  PROVE  \E f : f = [n \in 0 .. l |-> f[n]] /\ \A n \in 0 .. l : KeptStep(s, keep, f, n)
<1> DEFINE P(k) == \E f : f = [n \in 0 .. k |-> f[n]] /\ \A n \in 0 .. k : KeptStep(s, keep, f, n)
           bad == {k \in Nat : ~ P(k)}
<1>1. SUFFICES ASSUME bad # {} PROVE FALSE
  OBVIOUS
<1>2. PICK k \in bad : \A m \in bad : k <= m
  <2> HIDE DEF P
  <2> QED
    BY <1>1, LeastMember
<1>3. CASE k = 0
  <2> DEFINE f == [n \in {0} |-> <<>>]
  <2>1. f = [n \in 0 .. 0 |-> f[n]] /\ f[0] = <<>>
    OBVIOUS
  <2>2. \A n \in 0 .. 0 : KeptStep(s, keep, f, n)
    BY <2>1 DEF KeptStep
  <2>3. P(0)
    <3> HIDE DEF f
    <3> QED
      BY <2>1, <2>2
  <2> QED
    BY <1>3, <2>3
<1>4. CASE k # 0
  <2>1. k - 1 \in Nat /\ ~ (k <= k - 1) /\ k \in Nat
    BY <1>4
  <2>2. P(k - 1)
    <3> HIDE DEF P
    <3> QED
      BY <1>2, <2>1
  <2>3. PICK g : \A n \in 0 .. k - 1 : KeptStep(s, keep, g, n)
    BY <2>2
  <2> DEFINE f == [n \in 0 .. k |->
                     IF n < k THEN g[n] ELSE IF k \in keep THEN Append(g[k - 1], s[k]) ELSE g[k - 1]]
  <2>4. ASSUME NEW n \in 0 .. k PROVE KeptStep(s, keep, f, n)
    <3>1. CASE n < k
      <4>1. n \in 0 .. k - 1 /\ f[n] = g[n] /\ (n # 0 => n - 1 \in 0 .. k /\ n - 1 < k)
        BY <2>1, <3>1
      <4>2. n # 0 => f[n - 1] = g[n - 1]
        BY <4>1
      <4> HIDE DEF f
      <4> QED
        BY <2>3, <4>1, <4>2 DEF KeptStep
    <3>2. CASE n = k
      <4>1. k - 1 \in 0 .. k /\ k - 1 < k /\ ~ (k < k)
        BY <2>1
      <4>2. f[k - 1] = g[k - 1]
        BY <4>1
      <4>3. f[k] = IF k \in keep THEN Append(g[k - 1], s[k]) ELSE g[k - 1]
        BY <2>1, <4>1
      <4> HIDE DEF f
      <4> QED
        BY <1>4, <3>2, <4>2, <4>3 DEF KeptStep
    <3> QED
      BY <2>1, <3>1, <3>2
  <2>5. f = [n \in 0 .. k |-> f[n]]
    OBVIOUS
  <2>6. P(k)
    <3> HIDE DEF f
    <3> QED
      BY <2>4, <2>5
  <2> QED
    BY <2>6
<1> QED
  BY <1>3, <1>4

LEMMA KeptRecursion ==
  ASSUME NEW s, NEW keep, Len(s) \in Nat
  PROVE  \E f : Kept(s, keep) = f[Len(s)] /\ \A n \in 0 .. Len(s) : KeptStep(s, keep, f, n)
<1> DEFINE F(g) == [n \in 0 .. Len(s) |->
                      IF n = 0 THEN <<>>
                      ELSE IF n \in keep THEN Append(g[n - 1], s[n]) ELSE g[n - 1]]
           upTo == CHOOSE g : g = F(g)
<1>1. Kept(s, keep) = upTo[Len(s)]
  BY Zenon DEF Kept
<1>2. \E g : g = F(g)
  <2>1. PICK f : f = [n \in 0 .. Len(s) |-> f[n]] /\ \A n \in 0 .. Len(s) : KeptStep(s, keep, f, n)
    BY KeptExists
  <2>2. f = F(f)
    BY <2>1 DEF KeptStep
  <2> HIDE DEF F
  <2> QED
    BY <2>2
<1>3. upTo = F(upTo)
  BY <1>2, Zenon
<1>4. \A n \in 0 .. Len(s) : KeptStep(s, keep, upTo, n)
  <2> HIDE DEF upTo
  <2> QED
    BY <1>3 DEF KeptStep
<1> HIDE DEF upTo
<1> QED
  BY <1>1, <1>4

(* Kept keeps the elements at the positions of keep, in their order.        *)
Places(t, s, keep, n, place) ==
  /\ place \in [1 .. Len(t) -> Nat]
  /\ \A a \in 1 .. Len(t) : place[a] \in keep /\ place[a] \in 1 .. n /\ t[a] = s[place[a]]
  /\ \A a, b \in 1 .. Len(t) : a < b => place[a] < place[b]
  /\ \A i \in keep : i \in 1 .. n => \E a \in 1 .. Len(t) : place[a] = i

LEMMA KeptPlaces ==
  ASSUME NEW S, NEW s \in Seq(S), NEW keep \in SUBSET (1 .. Len(s))
  PROVE  /\ Kept(s, keep) \in Seq(S)
         /\ \E place : Places(Kept(s, keep), s, keep, Len(s), place)
<1>1. Len(s) \in Nat
  BY LenProperties
<1>2. PICK f : Kept(s, keep) = f[Len(s)] /\ \A n \in 0 .. Len(s) : KeptStep(s, keep, f, n)
  BY <1>1, KeptRecursion
<1> DEFINE P(n) == f[n] \in Seq(S) /\ \E place : Places(f[n], s, keep, n, place)
           bad == {n \in Nat : n <= Len(s) /\ ~ P(n)}
<1>3. bad = {}
  <2>1. SUFFICES ASSUME bad # {} PROVE FALSE
    OBVIOUS
  <2>2. PICK n \in bad : \A m \in bad : n <= m
    <3> HIDE DEF P
    <3> QED
      BY <2>1, LeastMember
  <2>3. n \in 0 .. Len(s) /\ KeptStep(s, keep, f, n)
    <3> HIDE DEF P
    <3> QED
      BY <1>1, <1>2
  <2>4. CASE n = 0
    <3>1. f[0] = <<>> /\ f[0] \in Seq(S) /\ Len(f[0]) = 0 /\ 1 .. 0 = {}
      <4>1. f[0] = <<>>
        BY <2>3, <2>4 DEF KeptStep
      <4>2. 1 .. 0 = {}
        OBVIOUS
      <4> QED
        BY <4>1, <4>2, EmptySeq
    <3> DEFINE place == [a \in 1 .. Len(f[0]) |-> 0]
    <3>2. Places(f[0], s, keep, 0, place)
      <4>1. place \in [1 .. Len(f[0]) -> Nat]
        OBVIOUS
      <4> HIDE DEF place
      <4> QED
        BY <3>1, <4>1 DEF Places
    <3> QED
      BY <2>4, <3>1, <3>2
  <2>5. CASE n # 0
    <3>1. n - 1 \in Nat /\ n - 1 <= Len(s) /\ ~ (n <= n - 1) /\ n \in 1 .. Len(s)
      BY <2>3, <2>5, <1>1
    <3>2. P(n - 1)
      <4> HIDE DEF P
      <4> QED
        BY <2>2, <3>1
    <3> DEFINE t == f[n - 1]
               l == Len(t)
    <3>3. PICK place : Places(t, s, keep, n - 1, place)
      BY <3>2
    <3>4. t \in Seq(S) /\ l \in Nat
      BY <3>2, LenProperties
    <3>5. CASE n \notin keep
      <4>1. f[n] = t
        BY <2>3, <2>5, <3>5 DEF KeptStep
      <4>2. Places(t, s, keep, n, place)
        <5>1. \A i \in keep : i \in 1 .. n => i \in 1 .. n - 1
          BY <3>1, <3>5
        <5>2. \A a \in 1 .. Len(t) : place[a] \in 1 .. n - 1 => place[a] \in 1 .. n
          BY <3>1
        <5> HIDE DEF t
        <5> QED
          BY <3>3, <5>1, <5>2 DEF Places
      <4> QED
        BY <3>4, <4>1, <4>2
    <3>6. CASE n \in keep
      <4>1. f[n] = Append(t, s[n])
        BY <2>3, <2>5, <3>6 DEF KeptStep
      <4>2. s[n] \in S
        BY <3>1, ElementOfSeq
      <4> DEFINE u == f[n]
                 where == [a \in 1 .. l + 1 |-> IF a = l + 1 THEN n ELSE place[a]]
      <4> HIDE DEF t
      <4>3. /\ u \in Seq(S) /\ Len(u) = l + 1
            /\ \A a \in 1 .. l : u[a] = t[a]
            /\ u[l + 1] = s[n]
        BY <3>4, <4>1, <4>2, AppendProperties
      <4> HIDE DEF u
      <4>4. \A a \in 1 .. l : /\ place[a] \in keep /\ place[a] \in 1 .. n - 1
                              /\ t[a] = s[place[a]] /\ place[a] \in Nat
        BY <3>3 DEF Places
      <4>5. /\ \A a \in 1 .. l + 1 : a \in 1 .. l \/ a = l + 1
            /\ \A a \in 1 .. l : a # l + 1 /\ where[a] = place[a]
            /\ where[l + 1] = n
            /\ l + 1 \in 1 .. l + 1 /\ \A a \in 1 .. l : a \in 1 .. l + 1
        BY <3>4
      <4>6. where \in [1 .. l + 1 -> Nat]
        BY <3>1, <4>4, <4>5
      <4> HIDE DEF where, l
      <4>7. \A a \in 1 .. l + 1 : where[a] \in keep /\ where[a] \in 1 .. n /\ u[a] = s[where[a]]
        <5>1. \A a \in 1 .. l : place[a] \in 1 .. n
          BY <3>1, <4>4
        <5>2. n \in 1 .. n
          BY <3>1
        <5> QED
          BY <3>6, <4>3, <4>4, <4>5, <5>1, <5>2
      <4>8. \A a, b \in 1 .. l + 1 : a < b => where[a] < where[b]
        <5> SUFFICES ASSUME NEW a \in 1 .. l + 1, NEW b \in 1 .. l + 1, a < b
                     PROVE  where[a] < where[b]
          OBVIOUS
        <5>1. a \in 1 .. l /\ where[a] = place[a]
          BY <3>4, <4>5
        <5>2. CASE b = l + 1
          BY <3>1, <4>4, <4>5, <5>1, <5>2
        <5>3. CASE b \in 1 .. l
          BY <3>3, <4>5, <5>1, <5>3 DEF Places, l
        <5> QED
          BY <4>5, <5>2, <5>3
      <4>9. \A i \in keep : i \in 1 .. n => \E a \in 1 .. l + 1 : where[a] = i
        <5> SUFFICES ASSUME NEW i \in keep, i \in 1 .. n
                     PROVE  \E a \in 1 .. l + 1 : where[a] = i
          OBVIOUS
        <5>1. CASE i = n
          BY <4>5, <5>1
        <5>2. CASE i # n
          <6>1. i \in 1 .. n - 1
            BY <3>1, <5>2
          <6>2. PICK a \in 1 .. l : place[a] = i
            BY <3>3, <6>1 DEF Places, l
          <6> QED
            BY <4>5, <6>2
        <5> QED
          BY <5>1, <5>2
      <4>10. Places(u, s, keep, n, where)
        BY <4>3, <4>6, <4>7, <4>8, <4>9 DEF Places
      <4> QED
        BY <4>3, <4>10 DEF u
    <3> QED
      BY <3>5, <3>6
  <2> QED
    BY <2>4, <2>5
<1>4. P(Len(s))
  <2> HIDE DEF P
  <2> QED
    BY <1>1, <1>3
<1> QED
  BY <1>2, <1>4
-----------------------------------------------------------------------------
(* Conversations.                                                           *)
AnyId == Nat \X Nat \X Keys
Entry == [role : {"system", "assistant"}, calls : SUBSET AnyId]
           \union [role : {"tool"}, id : AnyId, cleared : BOOLEAN]

LEMMA EntryFields ==
  ASSUME NEW m \in Entry
  PROVE  /\ IsResult(m) => m \in [role : {"tool"}, id : AnyId, cleared : BOOLEAN] /\ m.id \in AnyId
         /\ ~ IsResult(m) => m.calls \in SUBSET AnyId
  BY DEF Entry, IsResult

(* A result follows a call that it answers, and no call that it answers     *)
(* follows it.                                                              *)
ResultsFollowCalls(ms) ==
  \A i \in DOMAIN ms : IsResult(ms[i]) =>
    \E j \in DOMAIN ms : j < i /\ ~ IsResult(ms[j]) /\ ms[i].id \in ms[j].calls
NoCallAfterItsResult(ms) ==
  \A i, j \in DOMAIN ms :
    i < j /\ IsResult(ms[i]) /\ ~ IsResult(ms[j]) => ms[i].id \notin ms[j].calls

(* A call is open, or its result follows.                                   *)
AnsweredOrOpen(ms, open) ==
  \A j \in DOMAIN ms : ~ IsResult(ms[j]) => \A id \in ms[j].calls :
    id \in open \/ \E i \in DOMAIN ms : j < i /\ IsResult(ms[i]) /\ ms[i].id = id

(* The results come from the iterations up to last.                         *)
ResultsUpTo(ms, last) == \A i \in DOMAIN ms : IsResult(ms[i]) => ms[i].id[1] <= last

Conversation(ms, open, last) ==
  /\ ms \in Seq(Entry)
  /\ ResultsFollowCalls(ms)
  /\ NoCallAfterItsResult(ms)
  /\ AnsweredOrOpen(ms, open)
  /\ ResultsUpTo(ms, last)

LEMMA EntriesOf ==
  ASSUME NEW ms \in Seq(Entry)
  PROVE  /\ Len(ms) \in Nat /\ DOMAIN ms = 1 .. Len(ms)
         /\ \A i \in DOMAIN ms : ms[i] \in Entry
  BY LenProperties, ElementOfSeq

(* Clearing a result leaves it the answer of its call.                      *)
LEMMA MicroCompactKeeps ==
  ASSUME NEW open, NEW last, NEW ms, Conversation(ms, open, last)
  PROVE  Conversation(MicroCompact(ms), open, last)
<1> DEFINE t == MicroCompact(ms)
<1>1. ms \in Seq(Entry) /\ Len(ms) \in Nat /\ DOMAIN ms = 1 .. Len(ms)
  BY EntriesOf DEF Conversation
<1>2. ASSUME NEW i \in DOMAIN ms
      PROVE  /\ t[i] \in Entry /\ (IsResult(t[i]) <=> IsResult(ms[i]))
             /\ IsResult(ms[i]) => t[i].id = ms[i].id
             /\ ~ IsResult(ms[i]) => t[i] = ms[i]
  <2>1. ms[i] \in Entry
    BY <1>1, EntriesOf
  <2>2. t[i] = ms[i] \/ (IsResult(ms[i]) /\ t[i] = [ms[i] EXCEPT !.cleared = TRUE])
    BY Zenon DEF MicroCompact
  <2>3. CASE t[i] = ms[i]
    BY <2>1, <2>3
  <2>4. CASE IsResult(ms[i]) /\ t[i] = [ms[i] EXCEPT !.cleared = TRUE]
    <3>1. ms[i] \in [role : {"tool"}, id : AnyId, cleared : BOOLEAN]
      BY <2>1, <2>4, EntryFields
    <3> DEFINE m == ms[i]
               c == [m EXCEPT !.cleared = TRUE]
    <3>2. /\ c \in [role : {"tool"}, id : AnyId, cleared : BOOLEAN]
          /\ c.id = m.id /\ c.role = m.role
      <4> HIDE DEF m
      <4> QED
        BY <3>1 DEF m
    <3>3. t[i] = c
      BY <2>4
    <3>4. c \in Entry
      <4> HIDE DEF c
      <4> QED
        BY <3>2 DEF Entry
    <3> HIDE DEF t
    <3> QED
      BY <2>4, <3>2, <3>3, <3>4 DEF IsResult
  <2> QED
    BY <2>2, <2>3, <2>4
<1>3. DOMAIN t = DOMAIN ms /\ t = [i \in 1 .. Len(ms) |-> t[i]]
  BY <1>1 DEF MicroCompact
<1> HIDE DEF t
<1>4. t \in Seq(Entry)
  <2>1. t \in [1 .. Len(ms) -> Entry]
    BY <1>1, <1>2, <1>3
  <2> QED
    BY <1>1, <2>1, SeqDef
<1>5. ResultsFollowCalls(t) /\ NoCallAfterItsResult(t)
  BY <1>2, <1>3, Zenon DEF Conversation, ResultsFollowCalls, NoCallAfterItsResult
<1>6. AnsweredOrOpen(t, open) /\ ResultsUpTo(t, last)
  <2>1. AnsweredOrOpen(ms, open) /\ ResultsUpTo(ms, last)
    BY DEF Conversation
  <2>2. ASSUME NEW j \in DOMAIN t, ~ IsResult(t[j]), NEW id \in t[j].calls, id \notin open
        PROVE  \E i \in DOMAIN t : j < i /\ IsResult(t[i]) /\ t[i].id = id
    <3>1. j \in DOMAIN ms /\ ~ IsResult(ms[j]) /\ id \in ms[j].calls
      BY <1>2, <1>3, <2>2, Zenon
    <3>2. PICK i \in DOMAIN ms : j < i /\ IsResult(ms[i]) /\ ms[i].id = id
      BY <2>1, <2>2, <3>1, Zenon DEF AnsweredOrOpen
    <3> QED
      BY <1>2, <1>3, <3>2, Zenon
  <2>3. AnsweredOrOpen(t, open)
    BY <2>2, Zenon DEF AnsweredOrOpen
  <2>4. ResultsUpTo(t, last)
    BY <1>2, <1>3, <2>1, Zenon DEF ResultsUpTo
  <2> QED
    BY <2>3, <2>4
<1> QED
  BY <1>4, <1>5, <1>6 DEF Conversation, t

(* A conversation that was cut off may hold results without a call.         *)
Fragment(ms, open, last) ==
  /\ ms \in Seq(Entry)
  /\ NoCallAfterItsResult(ms)
  /\ AnsweredOrOpen(ms, open)
  /\ ResultsUpTo(ms, last)

LEMMA TailIsFragment ==
  ASSUME NEW open, NEW last, NEW ms, Conversation(ms, open, last), NEW k \in 2 .. Len(ms)
  PROVE  Fragment(SubSeq(ms, k, Len(ms)), open, last)
<1> DEFINE t == SubSeq(ms, k, Len(ms))
           At(i) == k + i - 1
<1>1. ms \in Seq(Entry) /\ Len(ms) \in Nat /\ DOMAIN ms = 1 .. Len(ms) /\ k \in Nat
  BY EntriesOf DEF Conversation
<1>2. \A i \in k .. Len(ms) : ms[i] \in Entry
  BY <1>1, EntriesOf
<1>3. t \in Seq(Entry) /\ Len(t) = Len(ms) - k + 1 /\ \A i \in 1 .. Len(ms) - k + 1 : t[i] = ms[At(i)]
  BY <1>1, <1>2, SubSeqProperties
<1> HIDE DEF t
<1>4. DOMAIN t = 1 .. Len(ms) - k + 1
  <2>1. DOMAIN t = 1 .. Len(t)
    BY <1>3, EntriesOf, Zenon
  <2>2. Len(t) = Len(ms) - k + 1
    BY <1>3, Zenon
  <2> QED
    BY <2>1, <2>2, Zenon
<1>5. \A i \in DOMAIN t : At(i) \in DOMAIN ms /\ t[i] = ms[At(i)]
  <2>1. \A i \in DOMAIN t : At(i) \in DOMAIN ms
    BY <1>1, <1>4
  <2>2. \A i \in DOMAIN t : t[i] = ms[At(i)]
    BY <1>3, <1>4, Zenon
  <2> QED
    BY <2>1, <2>2
<1>6. \A i, j \in DOMAIN t : i < j <=> At(i) < At(j)
  BY <1>1, <1>4
<1>7. ASSUME NEW j \in DOMAIN t, NEW n \in DOMAIN ms, At(j) < n
      PROVE  \E i \in DOMAIN t : At(i) = n
  <2>1. n - k + 1 \in DOMAIN t /\ At(n - k + 1) = n
    BY <1>1, <1>4, <1>7
  <2> QED
    BY <2>1
<1> HIDE DEF At
<1>8. NoCallAfterItsResult(t)
  BY <1>5, <1>6, Zenon DEF Conversation, NoCallAfterItsResult
<1>9. ResultsUpTo(t, last)
  BY <1>5, Zenon DEF Conversation, ResultsUpTo
<1>10. AnsweredOrOpen(t, open)
  <2> SUFFICES ASSUME NEW j \in DOMAIN t, ~ IsResult(t[j]), NEW id \in t[j].calls, id \notin open
               PROVE  \E i \in DOMAIN t : j < i /\ IsResult(t[i]) /\ t[i].id = id
    BY Zenon DEF AnsweredOrOpen
  <2>1. PICK n \in DOMAIN ms : At(j) < n /\ IsResult(ms[n]) /\ ms[n].id = id
    BY <1>5, Zenon DEF Conversation, AnsweredOrOpen
  <2>2. PICK i \in DOMAIN t : At(i) = n
    BY <1>7, <2>1
  <2> QED
    BY <1>5, <1>6, <2>1, <2>2, Zenon
<1> QED
  BY <1>3, <1>8, <1>9, <1>10 DEF Fragment, t

(* _fix_tool_pairs makes a conversation of a fragment.                      *)
LEMMA FixToolPairsRepairs ==
  ASSUME NEW open, NEW last, NEW s, Fragment(s, open, last)
  PROVE  Conversation(FixToolPairs(s), open, last)
<1> DEFINE keep == {i \in DOMAIN s : IsResult(s[i]) => s[i].id \in CallIds(s)}
           t == Kept(s, keep)
<1>1. s \in Seq(Entry) /\ Len(s) \in Nat /\ DOMAIN s = 1 .. Len(s)
  BY EntriesOf DEF Fragment
<1>2. keep \in SUBSET (1 .. Len(s))
  BY <1>1
<1>3. \A i \in DOMAIN s : i \in keep <=> (IsResult(s[i]) => s[i].id \in CallIds(s))
  OBVIOUS
<1>4. \A id : id \in CallIds(s) <=> \E j \in DOMAIN s : ~ IsResult(s[j]) /\ id \in s[j].calls
  BY DEF CallIds
<1>5. FixToolPairs(s) = t
  BY Zenon DEF FixToolPairs
<1> HIDE DEF keep
<1>6. t \in Seq(Entry)
  BY <1>1, <1>2, KeptPlaces
<1>7. PICK place : Places(t, s, keep, Len(s), place)
  BY <1>1, <1>2, KeptPlaces
<1> HIDE DEF t
<1>8. Len(t) \in Nat /\ DOMAIN t = 1 .. Len(t)
  BY <1>6, EntriesOf
<1>9. \A a \in DOMAIN t : /\ place[a] \in keep /\ place[a] \in DOMAIN s /\ place[a] \in Nat
                          /\ t[a] = s[place[a]]
  BY <1>1, <1>7, <1>8 DEF Places
<1>10. \A a, b \in DOMAIN t : (a < b => place[a] < place[b]) /\ (a < b \/ a = b \/ b < a)
  BY <1>7, <1>8 DEF Places
<1>11. \A i \in keep : i \in DOMAIN s => \E a \in DOMAIN t : place[a] = i
  BY <1>1, <1>7, <1>8 DEF Places
<1>12. \A m, n \in Nat : ~ (m < n /\ n < m) /\ ~ (m < m)
  OBVIOUS
<1>13. ResultsFollowCalls(t)
  <2> SUFFICES ASSUME NEW a \in DOMAIN t, IsResult(t[a])
               PROVE  \E b \in DOMAIN t : b < a /\ ~ IsResult(t[b]) /\ t[a].id \in t[b].calls
    BY Zenon DEF ResultsFollowCalls
  <2>1. PICK j \in DOMAIN s : ~ IsResult(s[j]) /\ t[a].id \in s[j].calls
    BY <1>3, <1>4, <1>9, Zenon
  <2>2. PICK b \in DOMAIN t : place[b] = j
    BY <1>3, <1>11, <2>1, Zenon
  <2>3. ~ IsResult(t[b]) /\ t[a].id \in t[b].calls /\ a # b
    BY <1>9, <2>1, <2>2, Zenon
  <2>4. ~ (a < b)
    <3>1. ~ (place[a] < place[b])
      BY <1>9, <2>1, <2>2, Zenon DEF Fragment, NoCallAfterItsResult
    <3> QED
      BY <1>10, <3>1, Zenon
  <2> QED
    BY <1>10, <2>3, <2>4, Zenon
<1>14. NoCallAfterItsResult(t)
  BY <1>9, <1>10, Zenon DEF Fragment, NoCallAfterItsResult
<1>15. AnsweredOrOpen(t, open)
  <2> SUFFICES ASSUME NEW a \in DOMAIN t, ~ IsResult(t[a]), NEW id \in t[a].calls, id \notin open
               PROVE  \E b \in DOMAIN t : a < b /\ IsResult(t[b]) /\ t[b].id = id
    BY Zenon DEF AnsweredOrOpen
  <2>1. PICK i \in DOMAIN s : place[a] < i /\ IsResult(s[i]) /\ s[i].id = id
    BY <1>9, Zenon DEF Fragment, AnsweredOrOpen
  <2>2. i \in keep
    BY <1>3, <1>4, <1>9, <2>1, Zenon
  <2>3. PICK b \in DOMAIN t : place[b] = i
    BY <1>11, <2>2, Zenon
  <2>4. a < b
    BY <1>9, <1>10, <1>12, <2>1, <2>3, Zenon
  <2> QED
    BY <1>9, <2>1, <2>3, <2>4, Zenon
<1>16. ResultsUpTo(t, last)
  BY <1>9, Zenon DEF Fragment, ResultsUpTo
<1> QED
  BY <1>5, <1>6, <1>13, <1>14, <1>15, <1>16 DEF Conversation

(* So compression leaves a conversation.                                    *)
LEMMA CompressedKeeps ==
  ASSUME NEW open, NEW last, NEW ms, Conversation(ms, open, last), NEW c \in Compressed(ms)
  PROVE  Conversation(c, open, last)
  BY TailIsFragment, FixToolPairsRepairs DEF Compressed

LEMMA PreprocessedKeeps ==
  ASSUME NEW open, NEW last, NEW ms, Conversation(ms, open, last), NEW c \in Preprocessed(ms)
  PROVE  Conversation(c, open, last)
  BY MicroCompactKeeps, CompressedKeeps DEF Preprocessed

(* A new message of the assistant, whose calls no result answers yet.       *)
LEMMA MessageKeeps ==
  ASSUME NEW open, NEW last \in Int, NEW ms, Conversation(ms, open, last),
         NEW wider, open \subseteq wider, NEW upto \in Int, last <= upto,
         NEW m \in Entry, ~ IsResult(m),
         \A id \in m.calls : id \in wider /\ last < id[1]
  PROVE  Conversation(Append(ms, m), wider, upto)
<1> DEFINE t == Append(ms, m)
           l == Len(ms)
<1>1. ms \in Seq(Entry) /\ l \in Nat /\ DOMAIN ms = 1 .. l /\ \A i \in DOMAIN ms : ms[i] \in Entry
  BY EntriesOf DEF Conversation
<1>2. t \in Seq(Entry) /\ Len(t) = l + 1 /\ (\A i \in 1 .. l : t[i] = ms[i]) /\ t[l + 1] = m
  BY <1>1, AppendProperties
<1> HIDE DEF t
<1>3. DOMAIN t = 1 .. l + 1
  BY <1>2, EntriesOf
<1>4. /\ \A i \in DOMAIN t : i \in DOMAIN ms \/ i = l + 1
      /\ \A i \in DOMAIN ms : i \in DOMAIN t /\ t[i] = ms[i] /\ ~ (l + 1 < i)
      /\ ~ (l + 1 < l + 1)
  BY <1>1, <1>2, <1>3
<1> HIDE DEF l
<1>5. ResultsFollowCalls(t)
  BY <1>2, <1>4, Zenon DEF Conversation, ResultsFollowCalls
<1>6. \A i \in DOMAIN ms : IsResult(ms[i]) => ms[i].id \notin m.calls /\ ms[i].id[1] <= upto
  <2> SUFFICES ASSUME NEW i \in DOMAIN ms, IsResult(ms[i])
               PROVE  ms[i].id \notin m.calls /\ ms[i].id[1] <= upto
    OBVIOUS
  <2>1. ms[i].id \in AnyId
    BY <1>1, EntryFields
  <2>2. ms[i].id[1] \in Nat
    BY <2>1 DEF AnyId
  <2>3. ms[i].id[1] <= last
    BY DEF Conversation, ResultsUpTo
  <2> QED
    BY <2>2, <2>3
<1>7. NoCallAfterItsResult(t)
  BY <1>2, <1>4, <1>6, Zenon DEF Conversation, NoCallAfterItsResult
<1>8. AnsweredOrOpen(t, wider)
  <2> SUFFICES ASSUME NEW j \in DOMAIN t, ~ IsResult(t[j]), NEW id \in t[j].calls, id \notin wider
               PROVE  \E i \in DOMAIN t : j < i /\ IsResult(t[i]) /\ t[i].id = id
    BY Zenon DEF AnsweredOrOpen
  <2>1. j \in DOMAIN ms /\ t[j] = ms[j] /\ id \notin open
    BY <1>2, <1>4, Zenon
  <2>2. PICK i \in DOMAIN ms : j < i /\ IsResult(ms[i]) /\ ms[i].id = id
    BY <2>1, Zenon DEF Conversation, AnsweredOrOpen
  <2> QED
    BY <1>4, <2>2, Zenon
<1>9. ResultsUpTo(t, upto)
  BY <1>2, <1>4, <1>6, Zenon DEF ResultsUpTo
<1> QED
  BY <1>2, <1>5, <1>7, <1>8, <1>9 DEF Conversation, t

(* The results of the calls that were open.                                 *)
LEMMA ResultsKeep ==
  ASSUME NEW open, NEW last \in Int, NEW ms, Conversation(ms, open, last),
         NEW rest, NEW upto \in Int, last <= upto,
         NEW rs \in Seq(Entry),
         \A a \in DOMAIN rs : /\ IsResult(rs[a]) /\ rs[a].id[1] <= upto
                              /\ \E j \in DOMAIN ms : ~ IsResult(ms[j]) /\ rs[a].id \in ms[j].calls,
         \A id \in open : id \in rest \/ \E a \in DOMAIN rs : rs[a].id = id
  PROVE  Conversation(ms \o rs, rest, upto)
<1> DEFINE t == ms \o rs
           l == Len(ms)
           At(a) == l + a
<1>1. /\ ms \in Seq(Entry) /\ l \in Nat /\ DOMAIN ms = 1 .. l /\ \A i \in DOMAIN ms : ms[i] \in Entry
      /\ Len(rs) \in Nat /\ DOMAIN rs = 1 .. Len(rs)
  BY EntriesOf DEF Conversation
<1>2. /\ t \in Seq(Entry) /\ Len(t) = l + Len(rs)
      /\ \A i \in 1 .. l + Len(rs) : t[i] = IF i <= l THEN ms[i] ELSE rs[i - l]
  BY <1>1, ConcatProperties
<1> HIDE DEF t
<1>3. DOMAIN t = 1 .. l + Len(rs)
  BY <1>2, EntriesOf
<1>4. \A i \in DOMAIN ms : i \in DOMAIN t /\ t[i] = ms[i]
  BY <1>1, <1>2, <1>3
<1>5. \A a \in DOMAIN rs : /\ At(a) \in DOMAIN t /\ t[At(a)] = rs[a]
                           /\ \A i \in DOMAIN ms : i < At(a) /\ ~ (At(a) < i)
  BY <1>1, <1>2, <1>3
<1>6. \A i \in DOMAIN t : i \in DOMAIN ms \/ \E a \in DOMAIN rs : i = At(a)
  <2> SUFFICES ASSUME NEW i \in DOMAIN t, i \notin DOMAIN ms
               PROVE  \E a \in DOMAIN rs : i = At(a)
    OBVIOUS
  <2>1. i - l \in DOMAIN rs /\ i = At(i - l)
    BY <1>1, <1>3
  <2> QED
    BY <2>1
<1> HIDE DEF l, At
<1>7. ResultsFollowCalls(t)
  <2> SUFFICES ASSUME NEW i \in DOMAIN t, IsResult(t[i])
               PROVE  \E j \in DOMAIN t : j < i /\ ~ IsResult(t[j]) /\ t[i].id \in t[j].calls
    BY Zenon DEF ResultsFollowCalls
  <2>1. CASE i \in DOMAIN ms
    BY <1>4, <2>1 DEF Conversation, ResultsFollowCalls
  <2>2. CASE i \notin DOMAIN ms
    BY <1>4, <1>5, <1>6, <2>2
  <2> QED
    BY <2>1, <2>2
<1>8. NoCallAfterItsResult(t)
  BY <1>4, <1>5, <1>6 DEF Conversation, NoCallAfterItsResult
<1>9. AnsweredOrOpen(t, rest)
  <2> SUFFICES ASSUME NEW j \in DOMAIN t, ~ IsResult(t[j]), NEW id \in t[j].calls, id \notin rest
               PROVE  \E i \in DOMAIN t : j < i /\ IsResult(t[i]) /\ t[i].id = id
    BY DEF AnsweredOrOpen
  <2>1. j \in DOMAIN ms /\ t[j] = ms[j]
    <3>1. \A a \in DOMAIN rs : j # At(a)
      BY <1>5
    <3> QED
      BY <1>4, <1>6, <3>1
  <2>2. CASE id \in open
    BY <1>5, <2>1, <2>2
  <2>3. CASE id \notin open
    BY <1>4, <2>1, <2>3 DEF Conversation, AnsweredOrOpen
  <2> QED
    BY <2>2, <2>3
<1>10. ResultsUpTo(t, upto)
  <2>1. \A i \in DOMAIN ms : IsResult(ms[i]) => ms[i].id[1] <= upto
    <3> SUFFICES ASSUME NEW i \in DOMAIN ms, IsResult(ms[i]) PROVE ms[i].id[1] <= upto
      OBVIOUS
    <3>1. ms[i].id \in AnyId
      BY <1>1, EntryFields
    <3>2. ms[i].id[1] \in Nat /\ ms[i].id[1] <= last
      BY <3>1 DEF AnyId, Conversation, ResultsUpTo
    <3> QED
      BY <3>2
  <2> QED
    BY <1>4, <1>5, <1>6, <2>1 DEF ResultsUpTo
<1> QED
  BY <1>2, <1>7, <1>8, <1>9, <1>10 DEF Conversation, t
-----------------------------------------------------------------------------
(* The invariant.                                                           *)
Call == [key : Keys, status : Status]

LoopTyped ==
  /\ pc \in {"iterate", "stream", "decide", "collect", "done"}
  /\ iteration \in Nat
  /\ turn \in Seq(Call)
  /\ pending \subseteq DOMAIN turn
  /\ ran \in [Keys -> Nat]

(* Denied calls get no result; the others are open until they are collected.*)
Open == {id \in AnyId : Denied(id[3]) \/ (pc = "collect" /\ \E i \in pending : id = Id(i))}

(* The last iteration whose results may be in the conversation.             *)
Last == IF pc \in {"iterate", "done"} THEN iteration ELSE iteration - 1

(* What the loop waits for was called by a response that came complete.     *)
AwaitedWereCalled ==
  pc = "collect" =>
    /\ response.error = "none" /\ pending # {}
    /\ \A i \in pending :
         \E j \in DOMAIN messages : ~ IsResult(messages[j]) /\ Id(i) \in messages[j].calls

ReadsStartAtOnce == \A i \in DOMAIN turn : turn[i].key \in Reads => turn[i].status # "queued_write"

LoopInv ==
  /\ LoopTyped
  /\ Conversation(messages, Open, Last)
  /\ AwaitedWereCalled
  /\ ReadsStartAtOnce

LEMMA LastIsInt == ASSUME LoopTyped PROVE Last \in Int
  BY DEF LoopTyped, Last

LEMMA TurnFacts ==
  ASSUME NEW t \in Seq(Call)
  PROVE  /\ Len(t) \in Nat /\ DOMAIN t = 1 .. Len(t)
         /\ \A i \in DOMAIN t : t[i] \in Call /\ t[i].key \in Keys /\ t[i].status \in Status
<1>1. \A c \in Call : c.key \in Keys /\ c.status \in Status
  BY DEF Call
<1> QED
  BY <1>1, LenProperties, ElementOfSeq

LEMMA InitLoop == Init => LoopInv
<1> SUFFICES ASSUME Init PROVE LoopInv
  OBVIOUS
<1> DEFINE m == [role |-> "system", calls |-> {}]
<1>1. m \in Entry /\ ~ IsResult(m) /\ m.calls = {}
  BY DEF Entry, IsResult
<1>2. messages = <<m>> /\ pc = "iterate" /\ iteration = 0
  BY DEF Init
<1> HIDE DEF m
<1>3. messages \in Seq(Entry) /\ DOMAIN messages = {1} /\ messages[1] = m
  BY <1>1, <1>2
<1>4. Conversation(messages, Open, Last)
  BY <1>1, <1>3 DEF Conversation, ResultsFollowCalls, NoCallAfterItsResult, AnsweredOrOpen,
                    ResultsUpTo
<1>5. LoopTyped
  BY DEF Init, LoopTyped, Call
<1> QED
  BY <1>2, <1>4, <1>5 DEF Init, LoopInv, AwaitedWereCalled, ReadsStartAtOnce
-----------------------------------------------------------------------------
(* The head of an iteration.                                                *)
LEMMA NothingAwaited ==
  ASSUME plan' = plan, pc # "collect", pc' # "collect"
  PROVE  Open' = Open
  BY DEF Open, Denied

LEMMA OutOfBoundsStep == LoopInv /\ OutOfBounds => LoopInv'
<1> SUFFICES ASSUME LoopInv, OutOfBounds PROVE LoopInv'
  OBVIOUS
<1>1. /\ pc = "iterate" /\ pc' = "done" /\ iteration' = iteration /\ plan' = plan
      /\ UNCHANGED <<messages, turn, response, pending, ran>>
  BY DEF OutOfBounds
<1>2. Open' = Open /\ Last' = Last
  BY <1>1, NothingAwaited DEF Last
<1> QED
  BY <1>1, <1>2 DEF LoopInv, LoopTyped, AwaitedWereCalled, ReadsStartAtOnce

LEMMA IterateStep == LoopInv /\ Iterate => LoopInv'
<1> SUFFICES ASSUME LoopInv, Iterate PROVE LoopInv'
  OBVIOUS
<1>1. /\ pc = "iterate" /\ pc' = "stream" /\ iteration' = iteration + 1 /\ plan' = plan
      /\ turn' = <<>> /\ pending' = {} /\ ran' = ran
      /\ messages' \in Preprocessed(messages)
  BY DEF Iterate
<1>2. Open' = Open /\ Last' = Last
  BY <1>1, NothingAwaited DEF LoopInv, LoopTyped, Last
<1>3. Conversation(messages', Open', Last')
  BY <1>1, <1>2, PreprocessedKeeps DEF LoopInv
<1> QED
  BY <1>1, <1>3 DEF LoopInv, LoopTyped, AwaitedWereCalled, ReadsStartAtOnce
-----------------------------------------------------------------------------
(* The stream.                                                              *)
LEMMA PolledKeeps ==
  ASSUME LoopTyped, ReadsStartAtOnce
  PROVE  /\ Polled \in Seq(Call) /\ DOMAIN Polled = DOMAIN turn
         /\ \A i \in DOMAIN turn : Polled[i].key \in Reads => Polled[i].status # "queued_write"
<1> DEFINE t == Polled
<1>1. turn \in Seq(Call) /\ Len(turn) \in Nat /\ DOMAIN turn = 1 .. Len(turn)
  BY TurnFacts DEF LoopTyped
<1>2. DOMAIN t = DOMAIN turn /\ t = [i \in 1 .. Len(turn) |-> t[i]]
  BY <1>1 DEF Polled
<1>3. ASSUME NEW i \in DOMAIN turn
      PROVE  t[i] \in Call /\ (t[i].key \in Reads => t[i].status # "queued_write")
  <2> DEFINE c == turn[i]
             d == [c EXCEPT !.status = "completed"]
  <2>1. c \in Call /\ (c.key \in Reads => c.status # "queued_write")
    BY <1>1, TurnFacts DEF ReadsStartAtOnce
  <2>2. t[i] = c \/ t[i] = d
    BY Zenon DEF Polled
  <2>3. d \in Call /\ d.status = "completed"
    <3> HIDE DEF c
    <3> QED
      BY <2>1 DEF Call, Status
  <2> HIDE DEF c, d, t
  <2> QED
    BY <2>1, <2>2, <2>3
<1> HIDE DEF t
<1>4. t \in [1 .. Len(turn) -> Call]
  BY <1>1, <1>2, <1>3
<1>5. t \in Seq(Call)
  BY <1>1, <1>4, SeqDef
<1> QED
  BY <1>2, <1>3, <1>5 DEF t

LEMMA SubmitStep == ASSUME NEW k \in Keys PROVE LoopInv /\ Submit(k) => LoopInv'
<1> SUFFICES ASSUME LoopInv, Submit(k) PROVE LoopInv'
  OBVIOUS
<1> DEFINE c == [key |-> k, status |-> IF k \in Reads THEN "executing" ELSE "queued_write"]
<1>1. /\ pc = "stream" /\ pc' = pc /\ iteration' = iteration /\ plan' = plan
      /\ messages' = messages /\ pending' = pending
      /\ turn' = Append(Polled, c)
      /\ ran' = [ran EXCEPT ![k] = @ + 1] \/ ran' = ran
  BY DEF Submit, Execute
<1>2. Open' = Open /\ Last' = Last
  BY <1>1, NothingAwaited DEF Last
<1>3. c \in Call /\ (c.key \in Reads => c.status # "queued_write")
  BY DEF Call, Status
<1> HIDE DEF c
<1>4. /\ Polled \in Seq(Call) /\ DOMAIN Polled = DOMAIN turn
      /\ \A i \in DOMAIN turn : Polled[i].key \in Reads => Polled[i].status # "queued_write"
  BY PolledKeeps DEF LoopInv
<1>5. Len(Polled) \in Nat /\ DOMAIN Polled = 1 .. Len(Polled)
  BY <1>4, TurnFacts
<1>6. /\ turn' \in Seq(Call) /\ Len(turn') = Len(Polled) + 1
      /\ \A i \in 1 .. Len(Polled) : turn'[i] = Polled[i]
      /\ turn'[Len(Polled) + 1] = c
  BY <1>1, <1>3, <1>4, AppendProperties
<1>7. DOMAIN turn' = 1 .. Len(Polled) + 1
  BY <1>6, TurnFacts
<1>8. ReadsStartAtOnce'
  <2> SUFFICES ASSUME NEW i \in DOMAIN turn', turn'[i].key \in Reads
               PROVE  turn'[i].status # "queued_write"
    BY DEF ReadsStartAtOnce
  <2>1. CASE i = Len(Polled) + 1
    BY <1>3, <1>6, <2>1
  <2>2. CASE i # Len(Polled) + 1
    <3>1. i \in DOMAIN turn /\ turn'[i] = Polled[i]
      BY <1>4, <1>5, <1>6, <1>7, <2>2
    <3> QED
      BY <1>4, <3>1
  <2> QED
    BY <2>1, <2>2
<1>9. ran' \in [Keys -> Nat]
  BY <1>1 DEF LoopInv, LoopTyped
<1>10. pending' \subseteq DOMAIN turn'
  <2>1. pending \subseteq 1 .. Len(Polled)
    BY <1>4, <1>5 DEF LoopInv, LoopTyped
  <2>2. 1 .. Len(Polled) \subseteq 1 .. Len(Polled) + 1
    BY <1>5
  <2> QED
    BY <1>1, <1>7, <2>1, <2>2
<1>11. LoopTyped'
  BY <1>1, <1>6, <1>9, <1>10 DEF LoopInv, LoopTyped
<1> QED
  BY <1>1, <1>2, <1>8, <1>11 DEF LoopInv, AwaitedWereCalled

LEMMA StreamEndsStep ==
  ASSUME NEW content, NEW error
  PROVE  LoopInv /\ StreamEnds(content, error) => LoopInv'
<1> SUFFICES ASSUME LoopInv, StreamEnds(content, error) PROVE LoopInv'
  OBVIOUS
<1>1. /\ pc = "stream" /\ pc' = "decide" /\ iteration' = iteration /\ plan' = plan
      /\ turn' = Polled
      /\ UNCHANGED <<messages, pending, ran>>
  BY DEF StreamEnds
<1>2. Open' = Open /\ Last' = Last
  BY <1>1, NothingAwaited DEF Last
<1>3. LoopTyped' /\ ReadsStartAtOnce'
  BY <1>1, PolledKeeps DEF LoopInv, LoopTyped, ReadsStartAtOnce
<1> QED
  BY <1>1, <1>2, <1>3 DEF LoopInv, AwaitedWereCalled

(* A call that ends: its place in the response and its key remain.          *)
LEMMA CallEnds ==
  ASSUME LoopInv, NEW i \in DOMAIN turn, NEW s \in Status \ {"queued_write"},
         turn' = [turn EXCEPT ![i].status = s],
         UNCHANGED <<plan, pc, iteration, messages, response, pending>>,
         ran' \in [Keys -> Nat]
  PROVE  LoopInv'
<1>1. /\ turn \in Seq(Call) /\ Len(turn) \in Nat /\ DOMAIN turn = 1 .. Len(turn)
      /\ \A j \in DOMAIN turn : turn[j] \in Call
  BY TurnFacts DEF LoopInv, LoopTyped
<1> DEFINE c == [turn[i] EXCEPT !.status = s]
<1>2. c \in Call /\ c.key = turn[i].key /\ c.status = s
  BY <1>1 DEF Call
<1>3. turn' = [turn EXCEPT ![i] = c]
  OBVIOUS
<1> HIDE DEF c
<1>4. /\ turn' \in Seq(Call) /\ DOMAIN turn' = DOMAIN turn
      /\ \A j \in DOMAIN turn : turn'[j] = IF j = i THEN c ELSE turn[j]
  <2>1. i \in 1 .. Len(turn) /\ c \in Call
    BY <1>1, <1>2
  <2>2. /\ turn' \in Seq(Call) /\ Len(turn') = Len(turn)
        /\ \A j \in 1 .. Len(turn) : turn'[j] = IF j = i THEN c ELSE turn[j]
    <3>1. turn \in Seq(Call)
      BY <1>1
    <3>2. /\ [turn EXCEPT ![i] = c] \in Seq(Call) /\ Len([turn EXCEPT ![i] = c]) = Len(turn)
          /\ \A j \in 1 .. Len(turn) : [turn EXCEPT ![i] = c][j] = IF j = i THEN c ELSE turn[j]
      BY <2>1, <3>1, ExceptSeq
    <3> QED
      BY <1>3, <3>2, Zenon
  <2>3. DOMAIN turn' = 1 .. Len(turn')
    BY <2>2, LenProperties, Zenon
  <2> QED
    BY <1>1, <2>2, <2>3, Zenon
<1>5. \A j \in DOMAIN turn : turn'[j].key = turn[j].key
  BY <1>2, <1>4
<1>6. \A j \in pending : Id(j)' = Id(j)
  BY <1>5 DEF LoopInv, LoopTyped, Id
<1>7. Open' = Open /\ Last' = Last
  BY <1>6 DEF Open, Denied, Last
<1>8. LoopTyped'
  BY <1>4 DEF LoopInv, LoopTyped
<1>9. ReadsStartAtOnce'
  BY <1>2, <1>4 DEF LoopInv, ReadsStartAtOnce
<1>10. AwaitedWereCalled'
  BY <1>6 DEF LoopInv, AwaitedWereCalled
<1> QED
  BY <1>7, <1>8, <1>9, <1>10 DEF LoopInv

LEMMA FinishStep == ASSUME NEW i PROVE LoopInv /\ Finish(i) => LoopInv'
<1> SUFFICES ASSUME LoopInv, Finish(i) PROVE LoopInv'
  OBVIOUS
<1>1. "finished" \in Status \ {"queued_write"} /\ ran' \in [Keys -> Nat]
  BY DEF Status, Finish, LoopInv, LoopTyped
<1> QED
  BY <1>1, CallEnds DEF Finish
-----------------------------------------------------------------------------
(* What the loop makes of the response.                                     *)

(* The loop goes on or stops with the conversation as it is.                *)
LEMMA NoCallIsMade ==
  ASSUME LoopInv, pc = "decide", pc' \in {"iterate", "done"}, NEW c, messages' = c,
         Conversation(c, Open, iteration),
         UNCHANGED <<plan, iteration, turn, pending, ran>>
  PROVE  LoopInv'
<1>1. Open' = Open /\ Last' = iteration
  BY NothingAwaited DEF Last
<1>2. LoopTyped' /\ ReadsStartAtOnce' /\ AwaitedWereCalled'
  BY DEF LoopInv, LoopTyped, ReadsStartAtOnce, AwaitedWereCalled
<1> QED
  BY <1>1, <1>2 DEF LoopInv

LEMMA LaterConversation ==
  ASSUME LoopInv, pc = "decide"
  PROVE  /\ Last = iteration - 1 /\ iteration \in Nat
         /\ Conversation(messages, Open, Last)
         /\ Conversation(messages, Open, iteration)
<1>1. Last = iteration - 1 /\ iteration \in Nat /\ Conversation(messages, Open, Last)
  BY DEF LoopInv, LoopTyped, Last
<1>2. messages \in Seq(Entry) /\ \A i \in DOMAIN messages : messages[i] \in Entry
  BY <1>1, EntriesOf DEF Conversation
<1>3. ResultsUpTo(messages, iteration)
  <2> SUFFICES ASSUME NEW i \in DOMAIN messages, IsResult(messages[i])
               PROVE  messages[i].id[1] <= iteration
    BY DEF ResultsUpTo
  <2>1. messages[i].id \in AnyId
    BY <1>2, EntryFields
  <2>2. messages[i].id[1] \in Nat /\ messages[i].id[1] <= Last
    BY <1>1, <2>1 DEF AnyId, Conversation, ResultsUpTo
  <2> QED
    BY <1>1, <2>2
<1> QED
  BY <1>1, <1>3 DEF Conversation

LEMMA RecoverStep == LoopInv /\ Recover => LoopInv'
<1> SUFFICES ASSUME LoopInv, Recover PROVE LoopInv'
  OBVIOUS
<1>1. /\ pc = "decide" /\ pc' = "iterate"
      /\ messages' \in Compressed(messages) \/ messages' = messages
      /\ UNCHANGED <<plan, iteration, turn, pending, ran>>
  BY DEF Recover
<1>2. Conversation(messages', Open, iteration)
  BY <1>1, LaterConversation, CompressedKeeps
<1> QED
  BY <1>1, <1>2, NoCallIsMade

(* The answer calls nothing.                                                *)
LEMMA AnswerKeeps ==
  ASSUME LoopInv, pc = "decide", NEW reason, Answer(reason)
  PROVE  Conversation(messages', Open, iteration) /\ pc' = "done"
<1> DEFINE m == [role |-> "assistant", calls |-> {}]
<1>1. m \in Entry /\ ~ IsResult(m) /\ m.calls = {}
  BY DEF Entry, IsResult
<1>2. messages' = Append(messages, m) \/ messages' = messages
  BY DEF Answer
<1> HIDE DEF m
<1>3. Conversation(messages, Open, iteration) /\ iteration \in Int
  BY LaterConversation
<1>4. Conversation(Append(messages, m), Open, iteration)
  BY <1>1, <1>3, MessageKeeps
<1> QED
  BY <1>2, <1>3, <1>4 DEF Answer

LEMMA StopStep == LoopInv /\ Stop => LoopInv'
<1> SUFFICES ASSUME LoopInv, Stop PROVE LoopInv'
  OBVIOUS
<1>1. pc = "decide" /\ UNCHANGED <<plan, iteration, turn, pending, ran>>
  BY DEF Stop
<1>2. \E reason : Answer(reason)
  BY Zenon DEF Stop
<1>3. Conversation(messages', Open, iteration) /\ pc' = "done"
  BY <1>1, <1>2, AnswerKeeps
<1> QED
  BY <1>1, <1>3, NoCallIsMade

LEMMA OnlyRepeatedStep == LoopInv /\ OnlyRepeated => LoopInv'
<1> SUFFICES ASSUME LoopInv, OnlyRepeated PROVE LoopInv'
  OBVIOUS
<1>1. pc = "decide" /\ UNCHANGED <<plan, iteration, turn, pending, ran>>
  BY DEF OnlyRepeated
<1>2. Answer("completed") \/ (pc' = "iterate" /\ messages' = messages)
  BY DEF OnlyRepeated
<1>3. Conversation(messages', Open, iteration) /\ pc' \in {"iterate", "done"}
  BY <1>1, <1>2, AnswerKeeps, LaterConversation
<1> QED
  BY <1>1, <1>3, NoCallIsMade

(* No result of an earlier iteration answers a call of this one.            *)
LEMMA DispatchStep == LoopInv /\ Dispatch => LoopInv'
<1> SUFFICES ASSUME LoopInv, Dispatch PROVE LoopInv'
  OBVIOUS
<1> DEFINE m == [role |-> "assistant", calls |-> {Id(i) : i \in Fresh}]
<1>1. /\ pc = "decide" /\ Fresh # {}
      /\ messages' = Append(messages, m)
      /\ pending' = {i \in Fresh : ~ Denied(turn[i].key)}
      /\ pc' = IF pending' = {} THEN "iterate" ELSE "collect"
      /\ UNCHANGED <<plan, iteration, turn, response, ran>>
  BY DEF Dispatch
<1>2. Fresh \subseteq DOMAIN turn /\ response.error = "none"
  BY <1>1 DEF Fresh, Calls
<1>3. /\ iteration \in Nat /\ Last = iteration - 1 /\ Conversation(messages, Open, Last)
      /\ turn \in Seq(Call)
  BY <1>1, LaterConversation DEF LoopInv, LoopTyped
<1>4. \A i \in DOMAIN turn : /\ Id(i) \in AnyId /\ Id(i)[1] = iteration /\ Id(i)[3] = turn[i].key
                             /\ Id(i)' = Id(i) /\ Denied(turn[i].key)' = Denied(turn[i].key)
  BY <1>1, <1>3, TurnFacts DEF Id, AnyId, Denied
<1>5. m \in Entry /\ ~ IsResult(m) /\ m.calls = {Id(i) : i \in Fresh}
  BY <1>2, <1>4 DEF Entry, IsResult
<1> HIDE DEF m
<1>6. Open \subseteq Open'
  BY <1>1 DEF Open, Denied
<1>7. \A id \in m.calls : id \in Open' /\ Last < id[1]
  <2> SUFFICES ASSUME NEW i \in Fresh PROVE Id(i) \in Open' /\ Last < Id(i)[1]
    BY <1>5
  <2>1. Last < Id(i)[1]
    BY <1>2, <1>3, <1>4
  <2>2. Id(i) \in AnyId /\ Id(i)[3] = turn[i].key /\ Id(i)' = Id(i)
    BY <1>2, <1>4
  <2>3. \A id : id \in Open' <=>
                 id \in AnyId /\ (Denied(id[3])' \/ (pc' = "collect" /\ \E n \in pending' : id = Id(n)'))
    BY DEF Open
  <2>4. ASSUME Denied(turn[i].key) PROVE Id(i) \in Open'
    <3>1. Denied(Id(i)[3])'
      BY <1>1, <2>2, <2>4 DEF Denied
    <3> QED
      BY <2>2, <2>3, <3>1
  <2>5. ASSUME ~ Denied(turn[i].key) PROVE Id(i) \in Open'
    <3>1. i \in pending' /\ pc' = "collect"
      BY <1>1, <2>5
    <3> QED
      BY <2>2, <2>3, <3>1, Zenon
  <2> QED
    BY <2>1, <2>4, <2>5
<1>8. Last \in Int /\ Last' \in Int /\ Last <= Last'
  BY <1>1, <1>3 DEF Last
<1>9. Conversation(messages', Open', Last')
  BY <1>1, <1>3, <1>5, <1>6, <1>7, <1>8, MessageKeeps
<1>10. LoopTyped' /\ ReadsStartAtOnce'
  BY <1>1, <1>2 DEF LoopInv, LoopTyped, ReadsStartAtOnce
<1>11. AwaitedWereCalled'
  <2> SUFFICES ASSUME pc' = "collect"
               PROVE  /\ pending' # {}
                      /\ \A i \in pending' : \E j \in DOMAIN messages' :
                           ~ IsResult(messages'[j]) /\ Id(i)' \in messages'[j].calls
    BY <1>1, <1>2 DEF AwaitedWereCalled
  <2> DEFINE j == Len(messages) + 1
  <2>1. messages \in Seq(Entry) /\ Len(messages) \in Nat
    BY <1>3, EntriesOf DEF Conversation
  <2>2. messages'[j] = m /\ messages' \in Seq(Entry) /\ Len(messages') = j
    BY <1>1, <1>5, <2>1, AppendProperties
  <2>3. j \in DOMAIN messages'
    BY <2>1, <2>2, EntriesOf
  <2>4. \A i \in pending' : Id(i)' \in m.calls
    BY <1>1, <1>2, <1>4, <1>5
  <2> HIDE DEF j
  <2> QED
    BY <1>1, <1>5, <2>2, <2>3, <2>4
<1> QED
  BY <1>9, <1>10, <1>11 DEF LoopInv
-----------------------------------------------------------------------------
(* The results.                                                             *)
LEMMA RunWriteStep == LoopInv /\ RunWrite => LoopInv'
<1> SUFFICES ASSUME LoopInv, RunWrite PROVE LoopInv'
  OBVIOUS
<1> DEFINE i == CHOOSE j \in Queued : \A l \in Queued : j <= l
<1>1. i \in Queued
  <2>1. Queued # {}
    BY DEF RunWrite
  <2>2. LoopTyped
    BY DEF LoopInv
  <2>3. DOMAIN turn \in SUBSET Nat
    BY <2>2, TurnFacts
  <2>4. Queued \in SUBSET Nat
    BY <2>3, Zenon DEF Queued
  <2> QED
    BY <2>1, <2>4, LeastMember
<1>2. /\ turn' = [turn EXCEPT ![i].status = "completed"]
      /\ ran' = [ran EXCEPT ![turn[i].key] = @ + 1]
      /\ UNCHANGED <<plan, pc, iteration, messages, response, pending>>
  BY DEF RunWrite, Execute
<1> HIDE DEF i
<1>3. i \in DOMAIN turn
  BY <1>1 DEF Queued
<1>4. turn[i].key \in Keys
  BY <1>3, TurnFacts DEF LoopInv, LoopTyped
<1>5. ran' \in [Keys -> Nat]
  BY <1>2, <1>4 DEF LoopInv, LoopTyped
<1>6. "completed" \in Status \ {"queued_write"}
  BY DEF Status
<1> QED
  BY <1>2, <1>3, <1>5, <1>6, CallEnds

(* The results that are appended are those of the calls waited for.         *)
LEMMA ResultsAre ==
  ASSUME LoopInv
  PROVE  /\ Results(pending) \in Seq(Entry)
         /\ \A a \in DOMAIN Results(pending) :
              IsResult(Results(pending)[a]) /\ \E i \in pending : Results(pending)[a].id = Id(i)
         /\ \A i \in pending : \E a \in DOMAIN Results(pending) : Results(pending)[a].id = Id(i)
<1> DEFINE s == [i \in DOMAIN turn |-> [role |-> "tool", id |-> Id(i), cleared |-> FALSE]]
           t == Kept(s, pending)
<1>1. /\ turn \in Seq(Call) /\ Len(turn) \in Nat /\ DOMAIN turn = 1 .. Len(turn)
      /\ iteration \in Nat /\ pending \subseteq DOMAIN turn
  BY TurnFacts DEF LoopInv, LoopTyped
<1>2. ASSUME NEW i \in DOMAIN turn
      PROVE  s[i] \in Entry /\ IsResult(s[i]) /\ s[i].id = Id(i)
  <2>1. Id(i) \in AnyId
    BY <1>1, TurnFacts DEF Id, AnyId
  <2>2. s[i] = [role |-> "tool", id |-> Id(i), cleared |-> FALSE]
    OBVIOUS
  <2> QED
    BY <2>1, <2>2 DEF Entry, IsResult
<1>3. DOMAIN s = 1 .. Len(turn) /\ s = [i \in 1 .. Len(turn) |-> s[i]]
  BY <1>1
<1>4. Results(pending) = t
  BY Zenon DEF Results
<1> HIDE DEF s
<1>5. s \in [1 .. Len(turn) -> Entry]
  BY <1>1, <1>2, <1>3
<1>6. s \in Seq(Entry)
  BY <1>1, <1>5, SeqDef
<1>7. Len(s) = Len(turn)
  BY <1>1, <1>3, <1>6, LenProperties
<1>8. t \in Seq(Entry)
  BY <1>1, <1>6, <1>7, KeptPlaces
<1>9. PICK place : Places(t, s, pending, Len(s), place)
  BY <1>1, <1>6, <1>7, KeptPlaces
<1> HIDE DEF t
<1>10. DOMAIN t = 1 .. Len(t)
  BY <1>8, EntriesOf
<1>11. \A a \in DOMAIN t : place[a] \in pending /\ t[a] = s[place[a]]
  BY <1>9, <1>10 DEF Places
<1>12. \A i \in pending : \E a \in DOMAIN t : place[a] = i
  BY <1>1, <1>7, <1>9, <1>10 DEF Places
<1> QED
  BY <1>1, <1>2, <1>4, <1>8, <1>11, <1>12

LEMMA CollectStep == LoopInv /\ Collect => LoopInv'
<1> SUFFICES ASSUME LoopInv, Collect PROVE LoopInv'
  OBVIOUS
<1> DEFINE rs == Results(pending)
<1>1. /\ pc = "collect" /\ pc' = "iterate"
      /\ messages' = messages \o rs
      /\ UNCHANGED <<plan, iteration, turn, pending, ran>>
  BY DEF Collect
<1>2. /\ rs \in Seq(Entry)
      /\ \A a \in DOMAIN rs : IsResult(rs[a]) /\ \E i \in pending : rs[a].id = Id(i)
      /\ \A i \in pending : \E a \in DOMAIN rs : rs[a].id = Id(i)
  BY ResultsAre
<1> HIDE DEF rs
<1>3. iteration \in Nat /\ Last = iteration - 1 /\ Last' = iteration
  BY <1>1 DEF LoopInv, LoopTyped, Last
<1>4. \A a \in DOMAIN rs :
        /\ IsResult(rs[a]) /\ rs[a].id[1] <= iteration
        /\ \E j \in DOMAIN messages : ~ IsResult(messages[j]) /\ rs[a].id \in messages[j].calls
  <2>1. \A i \in pending : Id(i)[1] = iteration
    BY DEF Id
  <2>2. iteration <= iteration
    BY <1>3
  <2>3. \A i \in pending :
          \E j \in DOMAIN messages : ~ IsResult(messages[j]) /\ Id(i) \in messages[j].calls
    BY <1>1 DEF LoopInv, AwaitedWereCalled
  <2> SUFFICES ASSUME NEW a \in DOMAIN rs
               PROVE  /\ IsResult(rs[a]) /\ rs[a].id[1] <= iteration
                      /\ \E j \in DOMAIN messages : ~ IsResult(messages[j]) /\ rs[a].id \in messages[j].calls
    OBVIOUS
  <2>4. IsResult(rs[a]) /\ \E i \in pending : rs[a].id = Id(i)
    BY <1>2
  <2> QED
    BY <2>1, <2>2, <2>3, <2>4, Zenon
<1>5. \A id \in Open : id \in Open' \/ \E a \in DOMAIN rs : rs[a].id = id
  BY <1>1, <1>2 DEF Open, Denied
<1>6. Conversation(messages', Open', Last')
  <2>1. Conversation(messages, Open, Last) /\ Last \in Int /\ Last' \in Int /\ Last <= Last'
    BY <1>3 DEF LoopInv
  <2>2. \A a \in DOMAIN rs :
          /\ IsResult(rs[a]) /\ rs[a].id[1] <= Last'
          /\ \E j \in DOMAIN messages : ~ IsResult(messages[j]) /\ rs[a].id \in messages[j].calls
    BY <1>3, <1>4
  <2> QED
    BY <1>1, <1>2, <1>5, <2>1, <2>2, ResultsKeep
<1> QED
  BY <1>1, <1>6 DEF LoopInv, LoopTyped, AwaitedWereCalled, ReadsStartAtOnce

LEMMA NextLoop == LoopInv /\ [Next]_vars => LoopInv'
<1> SUFFICES ASSUME LoopInv, [Next]_vars PROVE LoopInv'
  OBVIOUS
<1>1. CASE UNCHANGED vars
  <2>1. UNCHANGED <<plan, pc, iteration, messages, turn, response, pending, ran>>
    BY <1>1 DEF vars
  <2>2. Open' = Open /\ Last' = Last
    BY <2>1 DEF Open, Denied, Id, Last
  <2> QED
    BY <2>1, <2>2 DEF LoopInv, LoopTyped, AwaitedWereCalled, ReadsStartAtOnce, Id
<1>2. CASE Next
  BY <1>2, OutOfBoundsStep, IterateStep, SubmitStep, FinishStep, StreamEndsStep, RecoverStep,
     StopStep, OnlyRepeatedStep, DispatchStep, RunWriteStep, CollectStep DEF Next
<1> QED
  BY <1>1, <1>2
-----------------------------------------------------------------------------
(* What the invariant says.                                                 *)
THEOREM LoopInvariant == Spec => []LoopInv
<1> QED
  BY InitLoop, NextLoop, PTL DEF Spec

(* In every conversation the model is sent, each result follows its call    *)
(* and each call the loop allowed is followed by its result, whatever       *)
(* compression has cut away and however many calls there were.              *)
THEOREM CallsAreAnswered == Spec => []EveryCallAnswered
<1>1. LoopInv => EveryCallAnswered
  <2> SUFFICES ASSUME LoopInv PROVE EveryCallAnswered
    OBVIOUS
  <2>1. /\ messages \in Seq(Entry) /\ ResultsFollowCalls(messages) /\ AnsweredOrOpen(messages, Open)
        /\ DOMAIN messages = 1 .. Len(messages) /\ Len(messages) \in Nat
    BY EntriesOf DEF LoopInv, Conversation
  <2>2. ASSUME NEW i \in DOMAIN messages, IsResult(messages[i])
        PROVE  \E j \in 1 .. i - 1 : ~ IsResult(messages[j]) /\ messages[i].id \in messages[j].calls
    <3>1. PICK j \in DOMAIN messages :
            j < i /\ ~ IsResult(messages[j]) /\ messages[i].id \in messages[j].calls
      BY <2>1, <2>2 DEF ResultsFollowCalls
    <3>2. j \in 1 .. i - 1
      BY <2>1, <3>1
    <3> QED
      BY <3>1, <3>2
  <2>3. ASSUME pc # "collect", NEW id \in CallIds(messages)
        PROVE  Denied(id[3]) \/ \E i \in DOMAIN messages : IsResult(messages[i]) /\ messages[i].id = id
    <3>1. PICK j \in DOMAIN messages : ~ IsResult(messages[j]) /\ id \in messages[j].calls
      BY DEF CallIds
    <3> QED
      BY <2>1, <2>3, <3>1 DEF AnsweredOrOpen, Open
  <2> QED
    BY <2>2, <2>3 DEF EveryCallAnswered
<1> QED
  BY <1>1, LoopInvariant, PTL

(* A tool that writes runs when the response is complete, a call of it was  *)
(* allowed and every read of it has ended.                                  *)
THEOREM WritesFollowReads == Spec => WritesRunLast
<1>1. ASSUME LoopInv, [Next]_vars, NEW k \in Writes, ran'[k] # ran[k]
      PROVE  /\ response.error = "none" /\ pending # {}
             /\ \A i \in DOMAIN turn : turn[i].key \in Reads =>
                  turn[i].status \in {"finished", "completed"}
  <2>1. ran' # ran
    BY <1>1
  <2>2. ASSUME NEW n \in Keys, Submit(n) PROVE FALSE
    <3>1. n \in Reads /\ ran' = [ran EXCEPT ![n] = @ + 1]
      BY <2>1, <2>2 DEF Submit, Execute
    <3>2. n # k /\ k \in Keys
      BY <3>1, AgentAssumption DEF Keys
    <3> QED
      BY <1>1, <3>1, <3>2 DEF LoopInv, LoopTyped
  <2>3. RunWrite
    BY <1>1, <2>1, <2>2 DEF Next, vars, OutOfBounds, Iterate, Finish, StreamEnds, Recover, Stop,
                            OnlyRepeated, Dispatch, Collect
  <2>4. response.error = "none" /\ pending # {}
    BY <1>1, <2>3 DEF RunWrite, LoopInv, AwaitedWereCalled
  <2>5. ASSUME NEW i \in DOMAIN turn, turn[i].key \in Reads
        PROVE  turn[i].status \in {"finished", "completed"}
    <3>1. turn[i].status # "executing" /\ turn[i].status # "queued_write"
      BY <1>1, <2>3, <2>5 DEF RunWrite, LoopInv, ReadsStartAtOnce
    <3>2. turn[i].status \in Status
      BY <1>1, TurnFacts DEF LoopInv, LoopTyped
    <3> QED
      BY <3>1, <3>2 DEF Status
  <2> QED
    BY <2>4, <2>5
<1>2. LoopInv /\ [Next]_vars =>
        [\A k \in Writes : ran'[k] # ran[k] =>
           /\ response.error = "none" /\ pending # {}
           /\ \A i \in DOMAIN turn : turn[i].key \in Reads =>
                turn[i].status \in {"finished", "completed"}]_vars
  BY <1>1
<1> QED
  BY <1>2, LoopInvariant, PTL DEF Spec, WritesRunLast
=============================================================================
