--------------------------- MODULE WatchlistAlerts ---------------------------
(***************************************************************************)
(* Watchlist alerts and the checks that notify them                        *)
(* (server/routes/watchlist.py).                                           *)
(*                                                                         *)
(* All handlers are coroutines of one event loop and share the loop        *)
(* thread's SQLite connection, so one handler's commit writes what another *)
(* has left pending.  check_alerts is the only one that awaits: it reads   *)
(* the untriggered alerts once, awaits the notification of each alert that *)
(* matches, marks it, and commits at its end.  Every alert is in a         *)
(* watchlist of its own, and at least one channel is configured (a         *)
(* notification without one does not await).                               *)
(***************************************************************************)
EXTENDS Integers, FiniteSets

CONSTANTS
  MaxAlerts,       \* bound on the alerts created
  Checks,          \* requests to check the alerts
  MaxAlertCrashes  \* bound on crashes of the process

ASSUME WatchlistAssumption ==
  /\ MaxAlerts \in Nat /\ MaxAlertCrashes \in Nat
  /\ IsFiniteSet(Checks)

VARIABLES
  alerts,    \* alerts[a]: alert a as the loop's connection sees it
  disk,      \* disk[a]: alert a as committed
  check,     \* check[c]: where check c is
  sent,      \* sent[a]: notifications of a that were begun
  crashes,   \* crashes so far
  overlapped \* a check has begun while another one awaited a notification

alertVars == <<alerts, disk, check, sent, crashes, overlapped>>

Alerts == 1 .. MaxAlerts
RowStates == {"none", "armed", "triggered", "deleted"}
At(place, alert, todo) == [place |-> place, alert |-> alert, todo |-> todo]
Idle == At("idle", 0, {})
-----------------------------------------------------------------------------
AlertTypeOK ==
  /\ alerts \in [Alerts -> RowStates]
  /\ disk \in [Alerts -> RowStates]
  /\ check \in [Checks -> [place : {"idle", "sending", "done", "raised", "dead"},
                           alert : 0 .. MaxAlerts, todo : SUBSET Alerts]]
  /\ sent \in [Alerts -> 0 .. Cardinality(Checks)]
  /\ crashes \in 0 .. MaxAlertCrashes
  /\ overlapped \in BOOLEAN

AlertInit ==
  /\ alerts = [a \in Alerts |-> "none"]
  /\ disk = alerts
  /\ check = [c \in Checks |-> Idle]
  /\ sent = [a \in Alerts |-> 0]
  /\ crashes = 0
  /\ overlapped = FALSE
-----------------------------------------------------------------------------
(* Handlers without an await.  Each one starts with _init_watchlists_table, *)
(* whose executescript commits what is pending, and commits its own change. *)
Commit == disk' = alerts'

(* create_alert: alerts are numbered in the order of created_at. *)
CreateAlert(a) ==
  /\ alerts[a] = "none" /\ \A b \in Alerts : b < a => alerts[b] # "none"
  /\ alerts' = [alerts EXCEPT ![a] = "armed"]
  /\ Commit
  /\ UNCHANGED <<check, sent, crashes, overlapped>>

(* delete_watchlist *)
DeleteWatchlist(a) ==
  /\ alerts[a] \in {"armed", "triggered"}
  /\ alerts' = [alerts EXCEPT ![a] = "deleted"]
  /\ Commit
  /\ UNCHANGED <<check, sent, crashes, overlapped>>

(* Any other handler of the loop that uses system.db. *)
OtherHandler ==
  /\ disk # alerts
  /\ UNCHANGED alerts
  /\ Commit
  /\ UNCHANGED <<check, sent, crashes, overlapped>>
-----------------------------------------------------------------------------
(* check_alerts.                                                            *)

(* Mutant: alerts that were triggered are evaluated again. *)
SelectAll == {a \in Alerts : alerts[a] \in {"armed", "triggered"}}

(* SELECT ... WHERE is_triggered = 0 *)
Untriggered == {a \in Alerts : alerts[a] = "armed"}

(* Mutant: a notified alert is not marked. *)
MarkNothing(a) == UNCHANGED alerts

(* UPDATE ... SET is_triggered = 1 WHERE id = ?: nothing when it is deleted *)
Mark(a) == alerts' = [alerts EXCEPT ![a] = IF @ = "armed" THEN "triggered" ELSE @]

(* "if triggered: commit": there is a mark whenever a notification was begun. *)
FinishCommit == Commit

(* The coroutine visits the alerts of its list in order, passes over those  *)
(* whose value does not match, and awaits the notification of the next one. *)
Notify(c, todo) ==
  \E a \in todo :
    /\ check' = [check EXCEPT ![c] = At("sending", a, {b \in todo : b > a})]
    /\ sent' = [sent EXCEPT ![a] = @ + 1]

(* Reading the market value of one of the remaining alerts may raise. *)
Raise(c, todo) ==
  /\ todo # {}
  /\ check' = [check EXCEPT ![c] = At("raised", 0, {})]
  /\ UNCHANGED sent

End(c) ==
  /\ check' = [check EXCEPT ![c] = At("done", 0, {})]
  /\ UNCHANGED sent

(* The first slice: commit what is pending, read the alerts, go on. *)
BeginCheck(c) ==
  /\ check[c].place = "idle"
  /\ overlapped' = (overlapped \/ \E d \in Checks : check[d].place = "sending")
  /\ UNCHANGED alerts
  /\ Commit
  /\ Notify(c, Untriggered) \/ Raise(c, Untriggered) \/ End(c)
  /\ UNCHANGED crashes

(* A slice after an await: whatever the channels answered, the alert is     *)
(* marked; a channel's exception is a result like the others.               *)
Resume(c) ==
  /\ check[c].place = "sending"
  /\ Mark(check[c].alert)
  /\ \/ UNCHANGED disk /\ (Notify(c, check[c].todo) \/ Raise(c, check[c].todo))
     \/ FinishCommit /\ End(c)
  /\ UNCHANGED <<crashes, overlapped>>
-----------------------------------------------------------------------------
(* The process dies and is started again: what was pending is lost. *)
CrashAlerts ==
  /\ crashes < MaxAlertCrashes /\ crashes' = crashes + 1
  /\ alerts' = disk
  /\ check' = [c \in Checks |-> IF check[c].place = "sending" THEN At("dead", 0, {}) ELSE check[c]]
  /\ UNCHANGED <<disk, sent, overlapped>>

AlertNext ==
  \/ \E a \in Alerts : CreateAlert(a) \/ DeleteWatchlist(a)
  \/ \E c \in Checks : BeginCheck(c) \/ Resume(c)
  \/ OtherHandler \/ CrashAlerts

AlertSpec == AlertInit /\ [][AlertNext]_alertVars
-----------------------------------------------------------------------------
(* Correctness.                                                             *)

(* As long as checks do not overlap, they notify an alert once in the life  *)
(* of a process, whatever is raised or deleted between the slices.          *)
NotifiedOncePerLife == ~ overlapped => \A a \in Alerts : sent[a] <= 1 + crashes

(* As long as checks do not overlap, what a crash repeats are only          *)
(* notifications whose mark was not committed.                              *)
CommittedStaysQuiet ==
  [][~ overlapped' => \A a \in Alerts : disk[a] = "triggered" => sent'[a] = sent[a]]_alertVars

(* Until a crash, an alert is not evaluated again once the last check that  *)
(* notified it has gone on, also when that check raised later.              *)
SentIsMarked ==
  crashes = 0 =>
    \A a \in Alerts :
      sent[a] > 0 /\ alerts[a] = "armed" =>
        \E c \in Checks : check[c].place = "sending" /\ check[c].alert = a

=============================================================================
