------------------------------ MODULE MarketData ------------------------------
(***************************************************************************)
(* The market data store and its writers (dataflow/store.py, service.py,   *)
(* history.py, scheduler/__init__.py): the rows of daily bars, by ticker   *)
(* and session, and the provider they come from.                           *)
(*                                                                         *)
(* The provider's adjusted prices change when it revises them (a dividend, *)
(* a split): a row keeps the revision it was fetched at, and the mode its  *)
(* writer names.  A write is one transaction over all rows fetched.        *)
(***************************************************************************)
EXTENDS Integers, Sequences, FiniteSets, FiniteSetsExt, TLC

CONSTANTS
  Tickers,
  LastBar,     \* sessions are 1 .. LastBar
  Start,       \* first session of the evaluation window
  Recent,      \* first session the collector's requests reach back to
  Watched,     \* tickers of watchlists and monitors: what the collector asks for
  Listings,    \* ticker |-> first session the provider has of it
  Revisions,   \* revision |-> ticker |-> the closes the provider reports
  Absent,      \* no row
  MaxRefreshes \* bound on the answers the collector gets

Bars == 1 .. LastBar

(* The modes of a row: what the backtest asks for and the default.          *)
Adjusted == "provider_adjusted_prices"
Row == [revision : DOMAIN Revisions, mode : {Adjusted, "unknown"}]

ASSUME DataAssumption ==
  /\ LastBar \in Nat /\ Start \in Bars /\ Recent \in Bars
  /\ MaxRefreshes \in Nat /\ Watched \subseteq Tickers /\ Listings \subseteq [Tickers -> Bars]
  /\ Absent \notin Row
  /\ 1 \in DOMAIN Revisions /\ DOMAIN Revisions \subseteq Nat \ {0}
  /\ \A r \in DOMAIN Revisions : \A t \in Tickers : \A b \in Bars : Revisions[r][t][b] \in Nat \ {0}

VARIABLES
  rows,       \* rows[t][b]: [revision, mode] or Absent
  revision,   \* what the provider reports now
  listed,     \* first session the provider has of each ticker
  fetched,    \* the collector's answer for a ticker, 0 while it has none
  refreshes   \* answers the collector got so far

marketVars == <<rows, revision, listed, fetched, refreshes>>
-----------------------------------------------------------------------------
MarketTypeOK ==
  /\ rows \in [Tickers -> [Bars -> Row \union {Absent}]]
  /\ revision \in DOMAIN Revisions
  /\ listed \in [Tickers -> Bars]
  /\ fetched \in [Tickers -> {0} \union DOMAIN Revisions]
  /\ refreshes \in 0 .. MaxRefreshes

MarketInit ==
  /\ rows = [t \in Tickers |-> [b \in Bars |-> Absent]]
  /\ revision = 1
  /\ listed \in Listings
  /\ fetched = [t \in Tickers |-> 0] /\ refreshes = 0

(* upsert_ohlcv: INSERT OR REPLACE of every row of the answer.              *)
Upserted(t, from, r, mode) ==
  [rows EXCEPT ![t] = [b \in Bars |->
     IF b >= from /\ b >= listed[t] THEN [revision |-> r, mode |-> mode] ELSE @[b]]]

(* get_ohlcv, get_ohlcv_tail: rows in the order of their sessions.          *)
Present(t) == {b \in Bars : rows[t][b] # Absent}
Window(t) == {b \in Present(t) : b >= Start}
Warmup(t, n) ==
  LET before == {b \in Present(t) : b < Start}
  IN {b \in before : Cardinality({c \in before : c > b}) < n}
Read(t, bars) == {[bar |-> b, revision |-> rows[t][b].revision, mode |-> rows[t][b].mode] : b \in bars}
Close(t, row) == Revisions[row.revision][t][row.bar]

Revise ==
  /\ revision + 1 \in DOMAIN Revisions
  /\ revision' = revision + 1
  /\ UNCHANGED <<rows, listed, fetched, refreshes>>

(* _refresh_prices, and every live analysis: the answer of the provider is  *)
(* stored under the default mode, some time after it was given.             *)
RefreshFetch(t) ==
  /\ t \in Watched /\ fetched[t] = 0
  /\ refreshes < MaxRefreshes /\ refreshes' = refreshes + 1
  /\ fetched' = [fetched EXCEPT ![t] = revision]
  /\ UNCHANGED <<rows, revision, listed>>

RefreshStore(t) ==
  /\ fetched[t] # 0
  /\ rows' = Upserted(t, Recent, fetched[t], "unknown")
  /\ fetched' = [fetched EXCEPT ![t] = 0]
  /\ UNCHANGED <<revision, listed, refreshes>>
=============================================================================
