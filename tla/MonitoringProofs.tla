-------------------------- MODULE MonitoringProofs ---------------------------
(***************************************************************************)
(* Proofs about the two ways in which the server watches prices.           *)
(*                                                                         *)
(* MonitorRuns: types, who holds the row, the exclusion of requests on the *)
(* event loop, and one polled run per period.                              *)
(*                                                                         *)
(* WatchlistAlerts: a notification that was begun is followed by its mark, *)
(* and checks that do not overlap notify once in the life of a process.    *)
(***************************************************************************)
EXTENDS MonitorRuns, WatchlistAlerts, TLAPS

RunStep(r) == Trigger(r) \/ Proceed(r)
Statuses == {"idle", "running", "failed"}

(* What a step of a run changes: one place, one statement on the row, the   *)
(* set, the loop, its own snapshot, the period of a polled run, the budget. *)
LEMMA StepMoves ==
  ASSUME NEW r \in Runs, RunStep(r)
  PROVE \E place \in Places \ {"idle"} : Goto(r, place)
BY DEF RunStep, Trigger, Proceed, Spawn, Poll, Read, Check, Start, Add, TouchFirst, Begin,
  ExecuteRaises, SaveReport, TouchAfter, SaveRaises, PolledEnds, Finish, FinishRaises,
  Fail, FailRaises, Discard, Places

LEMMA StepWrites ==
  ASSUME NEW r \in Runs, RunStep(r)
  PROVE \/ UNCHANGED row
        \/ Touch
        \/ pc[r] = "cleared" /\ row.exists /\ StartRow(r) /\ Goto(r, "started")
        \/ pc[r] = "executed" /\ SettleRow(r, "idle", clock) /\ Goto(r, "settled")
        \/ pc[r] = "raised" /\ SettleRow(r, "failed", row.last) /\ Goto(r, "settled")
BY DEF RunStep, Trigger, Proceed, Spawn, Poll, Read, Check, Start, Add, TouchFirst, Begin,
  ExecuteRaises, SaveReport, TouchAfter, SaveRaises, PolledEnds, Finish, FinishRaises,
  Fail, FailRaises, Discard

LEMMA StepKeeps ==
  ASSUME NEW r \in Runs, RunStep(r)
  PROVE /\ UNCHANGED <<registered, edit, clock, server>>
        /\ budget' = budget \/ SpendFault
BY DEF RunStep, Trigger, Proceed, Spawn, Poll, Read, Check, Start, Add, TouchFirst, Begin,
  ExecuteRaises, SaveReport, TouchAfter, SaveRaises, PolledEnds, Finish, FinishRaises,
  Fail, FailRaises, Discard, worldVars

LEMMA StepLocals ==
  ASSUME TypeOK, NEW r \in Runs, RunStep(r)
  PROVE /\ busy' \in BOOLEAN
        /\ loop' = loop \/ (r \in Manual /\ loop \in {NoRun, r} /\ loop' \in {NoRun, r})
        /\ \E status \in Statuses : seen' \in {seen, [seen EXCEPT ![r] = status]}
        /\ began' = began \/ (TouchFirst(r) /\ began' = [began EXCEPT ![r] = clock])
BY DEF RunStep, Trigger, Proceed, Spawn, Poll, Read, Check, Start, Add, TouchFirst, Begin,
  ExecuteRaises, SaveReport, TouchAfter, SaveRaises, PolledEnds, Finish, FinishRaises,
  Fail, FailRaises, Discard, TakesLoop, LeavesLoop, OnLoop, TypeOK, Row, Statuses
-----------------------------------------------------------------------------
LEMMA Bounds ==
  /\ MaxClock \in Nat /\ MaxCrashes \in Nat /\ MaxFaults \in Nat /\ MaxEdits \in Nat
  /\ NoRun \notin Runs /\ Editor \notin Runs /\ NoRun # Editor
  /\ Manual \subseteq Runs /\ Polled \subseteq Runs
BY MonitorAssumption DEF Runs

LEMMA InitTypeOK == Init => TypeOK
<1> SUFFICES ASSUME Init PROVE TypeOK
  OBVIOUS
<1>1. row \in Row /\ registered \in BOOLEAN
  BY DEF Init, Row, NewRow
<1>2. edit \in IF loop = Editor THEN [row : Row, cron : BOOLEAN] ELSE {NoEdit}
  BY Bounds DEF Init, NewRow
<1>3. clock \in 1 .. MaxClock + 1 /\ began \in [Runs -> 0 .. MaxClock + 1]
  BY Bounds DEF Init, NewRow
<1>4. budget \in [crashes : 0 .. MaxCrashes, faults : 0 .. MaxFaults, edits : 0 .. MaxEdits]
  BY Bounds DEF Init, NewRow
<1>5. pc \in [Runs -> Places] /\ seen \in [Runs -> Statuses]
  BY DEF Init, Places, Statuses, NewRow
<1> QED
  BY <1>1, <1>2, <1>3, <1>4, <1>5 DEF Init, TypeOK, Statuses, NewRow

LEMMA SpendFaultType ==
  ASSUME TypeOK, SpendFault
  PROVE budget' \in [crashes : 0 .. MaxCrashes, faults : 0 .. MaxFaults, edits : 0 .. MaxEdits]
<1>1. budget.faults - 1 \in 0 .. MaxFaults
  BY Bounds DEF TypeOK, SpendFault
<1> QED
  BY <1>1 DEF TypeOK, SpendFault

LEMMA StepTypeOK ==
  ASSUME TypeOK, NEW r \in Runs, RunStep(r)
  PROVE TypeOK'
<1>1. row' \in Row
  <2>1. row \in Row /\ row.last \in Nat /\ clock \in Nat
    BY Bounds DEF TypeOK, Row
  <2>2. ASSUME Touch PROVE row' \in Row
    BY <2>1, <2>2 DEF Touch, Row
  <2>3. ASSUME StartRow(r) PROVE row' \in Row
    BY <2>1, <2>3 DEF StartRow, Row
  <2>4. ASSUME NEW status \in Statuses, NEW last \in Nat, SettleRow(r, status, last)
        PROVE row' \in Row
    BY <2>1, <2>4 DEF SettleRow, Row, Statuses
  <2>5. "idle" \in Statuses /\ "failed" \in Statuses
    BY DEF Statuses
  <2> QED
    BY <2>1, <2>2, <2>3, <2>4, <2>5, StepWrites
<1>2. pc' \in [Runs -> Places]
  BY StepMoves DEF TypeOK, Goto
<1>3. seen' \in [Runs -> Statuses]
  BY StepLocals DEF TypeOK, Statuses
<1>4. began' \in [Runs -> 0 .. MaxClock + 1]
  <2>1. clock \in 0 .. MaxClock + 1
    BY Bounds DEF TypeOK
  <2> QED
    BY <2>1, StepLocals DEF TypeOK
<1>5. budget' \in [crashes : 0 .. MaxCrashes, faults : 0 .. MaxFaults, edits : 0 .. MaxEdits]
  BY StepKeeps, SpendFaultType DEF TypeOK
<1>6. busy' \in BOOLEAN /\ loop' \in Manual \union {NoRun, Editor}
  BY StepLocals, Bounds DEF TypeOK
<1>7. loop' = Editor <=> loop = Editor
  BY StepLocals, Bounds DEF TypeOK
<1> QED
  BY <1>1, <1>2, <1>3, <1>4, <1>5, <1>6, <1>7, StepKeeps DEF TypeOK, Statuses

LEMMA NextTypeOK == TypeOK /\ [Next]_vars => TypeOK'
<1> SUFFICES ASSUME TypeOK, [Next]_vars PROVE TypeOK'
  OBVIOUS
<1>1. CASE UNCHANGED vars
  BY <1>1 DEF TypeOK, vars, runVars, worldVars
<1>2. CASE \E r \in Runs : Trigger(r) \/ Proceed(r)
  BY <1>2, StepTypeOK DEF RunStep
<1>3. CASE EditRead
  <2>1. edit' \in [row : Row, cron : BOOLEAN]
    <3>1. PICK active, scheduled, cron \in BOOLEAN :
            edit' = [cron |-> cron,
                     row |-> [row EXCEPT !.active = active, !.scheduled = scheduled]]
      BY <1>3 DEF EditRead
    <3>2. [row EXCEPT !.active = active, !.scheduled = scheduled] \in Row
      BY DEF TypeOK, Row
    <3> QED
      BY <3>1, <3>2
  <2>2. budget' \in [crashes : 0 .. MaxCrashes, faults : 0 .. MaxFaults, edits : 0 .. MaxEdits]
    BY <1>3, Bounds DEF EditRead, TypeOK
  <2> QED
    BY <1>3, <2>1, <2>2 DEF EditRead, TypeOK, runVars
<1>4. CASE EditWrite
  <2>1. edit \in [row : Row, cron : BOOLEAN] /\ edit.row \in Row
    BY <1>4 DEF EditWrite, TypeOK, RegisterJob
  <2>2. row' \in Row /\ registered' \in BOOLEAN
    BY <1>4, <2>1 DEF EditWrite, TypeOK, Row, RegisterJob
  <2> QED
    BY <1>4, <2>2, Bounds DEF EditWrite, TypeOK, runVars, worldVars, RegisterJob
<1>5. CASE Delete
  <2>1. row' \in Row
    BY <1>5 DEF Delete, TypeOK, Row
  <2> QED
    BY <1>5, <2>1 DEF Delete, TypeOK, runVars, worldVars
<1>6. CASE Tick
  <2>1. clock' \in 1 .. MaxClock + 1
    BY <1>6, Bounds DEF Tick, TypeOK
  <2> QED
    BY <1>6, <2>1 DEF Tick, TypeOK, runVars
<1>7. CASE Crash
  <2>1. budget' \in [crashes : 0 .. MaxCrashes, faults : 0 .. MaxFaults, edits : 0 .. MaxEdits]
    BY <1>7, Bounds DEF Crash, TypeOK
  <2>2. pc' \in [Runs -> Places]
    BY <1>7 DEF Crash, TypeOK, Places
  <2> QED
    BY <1>7, <2>1, <2>2, Bounds DEF Crash, TypeOK
<1>8. CASE Startup
  BY <1>8 DEF Startup, TypeOK, Row, runVars
<1> QED
  BY <1>1, <1>2, <1>3, <1>4, <1>5, <1>6, <1>7, <1>8 DEF Next

(* The type invariant of the model. *)
THEOREM TypeCorrect == Spec => []TypeOK
BY InitTypeOK, NextTypeOK, PTL DEF Spec
-----------------------------------------------------------------------------
(* Who holds the row.  A run that the row names is past its start and has   *)
(* not released the row; polled runs are never named.                       *)
Holding == {"started", "running", "executing", "saved", "executed", "raised",
            "unsettled", "lost", "dead"}

PolledPlaces ==
  \A r \in Polled : pc[r] \notin {"read", "cleared", "started", "settled", "unsettled", "lost"}

HolderInv ==
  /\ row.status = "running" <=> row.run # NoRun
  /\ row.run # NoRun => row.run \notin Polled /\ pc[row.run] \in Holding

HInv == TypeOK /\ PolledPlaces /\ HolderInv

LEMMA StepPolledPlaces ==
  ASSUME HInv, NEW r \in Runs, RunStep(r)
  PROVE PolledPlaces'
<1>1. ASSUME r \in Polled, NEW place \in Places, Goto(r, place)
      PROVE place \notin {"read", "cleared", "started", "settled", "unsettled", "lost"}
  <2>1. r \notin Manual /\ r \notin Cron
    BY <1>1, MonitorAssumption
  <2>2. pc'[r] = place /\ pc[r] \notin {"read", "cleared", "started", "settled", "unsettled"}
    BY <1>1 DEF HInv, TypeOK, Goto, PolledPlaces
  <2> QED
    BY <1>1, <2>1, <2>2 DEF RunStep, Trigger, Proceed, Spawn, Poll, Read, Check, Start, Add, TouchFirst, Begin,
  ExecuteRaises, SaveReport, TouchAfter, SaveRaises, PolledEnds, Finish, FinishRaises,
  Fail, FailRaises, Discard, Goto, HInv, TypeOK
<1>2. PICK place \in Places : Goto(r, place)
  BY StepMoves
<1>3. pc'[r] = place /\ \A s \in Runs \ {r} : pc'[s] = pc[s]
  BY <1>2 DEF HInv, TypeOK, Goto
<1> QED
  BY <1>1, <1>2, <1>3, Bounds DEF HInv, PolledPlaces

(* A run that may be named stays so until the step that releases the row.   *)
LEMMA StepHolds ==
  ASSUME HInv, NEW r \in Runs \ Polled, RunStep(r), pc[r] \in Holding
  PROVE \/ pc'[r] \in Holding
        \/ pc[r] = "executed" /\ SettleRow(r, "idle", clock) /\ pc'[r] = "settled"
        \/ pc[r] = "raised" /\ SettleRow(r, "failed", row.last) /\ pc'[r] = "settled"
BY DEF RunStep, Trigger, Proceed, Spawn, Poll, Read, Check, Start, Add, TouchFirst, Begin,
  ExecuteRaises, SaveReport, TouchAfter, SaveRaises, PolledEnds, Finish, FinishRaises,
  Fail, FailRaises, Discard, Goto, HInv, TypeOK, Holding

LEMMA StepHolder ==
  ASSUME HInv, NEW r \in Runs, RunStep(r)
  PROVE HolderInv'
<1>1. row \in Row /\ pc \in [Runs -> Places] /\ HolderInv
  BY DEF HInv, TypeOK
<1>2. \A s \in Runs \ {r} : pc'[s] = pc[s]
  BY <1>1, StepMoves DEF Goto
<1>3. CASE row'.run = row.run /\ row'.status = row.status
  <2>1. CASE row.run = r /\ r \notin Polled
    <3>1. r # NoRun /\ pc[r] \in Holding
      BY <1>1, <2>1, Bounds DEF HolderInv
    <3>2. ~ SettleRow(r, "idle", clock) /\ ~ SettleRow(r, "failed", row.last)
      BY <1>1, <1>3, <2>1, <3>1 DEF SettleRow, Row
    <3> QED
      BY <1>1, <1>3, <2>1, <3>1, <3>2, StepHolds DEF HolderInv
  <2>2. CASE row.run # r \/ r \in Polled
    BY <1>1, <1>2, <1>3, <2>2 DEF HolderInv, Row
  <2> QED
    BY <2>1, <2>2
<1>4. CASE pc[r] = "cleared" /\ StartRow(r) /\ Goto(r, "started")
  <2>1. row'.run = r /\ row'.status = "running" /\ pc'[r] = "started"
    BY <1>1, <1>4 DEF StartRow, Goto, Row
  <2>2. r \notin Polled /\ r # NoRun
    BY <1>4, Bounds DEF HInv, PolledPlaces
  <2> QED
    BY <2>1, <2>2 DEF HolderInv, Holding
<1>5. ASSUME NEW status \in {"idle", "failed"}, NEW last \in Nat, SettleRow(r, status, last)
      PROVE HolderInv' \/ (row'.run = row.run /\ row'.status = row.status)
  BY <1>1, <1>5 DEF SettleRow, HolderInv, Row
<1>6. Touch => row'.run = row.run /\ row'.status = row.status
  BY <1>1 DEF Touch, Row
<1>7. clock \in Nat /\ row.last \in Nat
  BY Bounds DEF HInv, TypeOK, Row
<1> QED
  BY <1>3, <1>4, <1>5, <1>6, <1>7, StepWrites

LEMMA NextHInv == HInv /\ [Next]_vars => HInv'
<1> SUFFICES ASSUME HInv, [Next]_vars PROVE HInv'
  OBVIOUS
<1>1. TypeOK'
  BY NextTypeOK DEF HInv
<1>2. row \in Row /\ pc \in [Runs -> Places] /\ HolderInv /\ PolledPlaces
  BY DEF HInv, TypeOK
<1>3. CASE UNCHANGED vars
  BY <1>1, <1>2, <1>3 DEF vars, runVars, HInv, HolderInv, PolledPlaces
<1>4. CASE \E r \in Runs : Trigger(r) \/ Proceed(r)
  BY <1>1, <1>4, StepPolledPlaces, StepHolder DEF RunStep, HInv
<1>5. CASE EditWrite
  <2>1. row'.run = row.run /\ row'.status = row.status /\ UNCHANGED pc
    BY <1>2, <1>5 DEF EditWrite, Row, runVars, RegisterJob
  <2> QED
    BY <1>1, <1>2, <2>1 DEF HInv, HolderInv, PolledPlaces
<1>6. CASE Delete
  <2>1. row'.run = NoRun /\ row'.status = "idle" /\ UNCHANGED pc
    BY <1>2, <1>6 DEF Delete, Row, runVars
  <2> QED
    BY <1>1, <1>2, <2>1 DEF HInv, HolderInv, PolledPlaces
<1>7. CASE EditRead \/ Tick \/ Startup
  <2>1. UNCHANGED <<row, pc>>
    BY <1>7 DEF EditRead, Tick, Startup, runVars
  <2> QED
    BY <1>1, <1>2, <2>1 DEF HInv, HolderInv, PolledPlaces
<1>8. CASE Crash
  <2>1. UNCHANGED row /\ \A r \in Runs : pc'[r] = IF pc[r] \in Ended THEN pc[r] ELSE "dead"
    BY <1>8 DEF Crash
  <2>2. row.run # NoRun => row.run \in Runs
    BY <1>2 DEF Row
  <2>3. HolderInv'
    BY <1>2, <2>1, <2>2 DEF HolderInv, Holding, Ended
  <2>4. PolledPlaces'
    BY <1>2, <2>1 DEF PolledPlaces, Ended, Runs
  <2> QED
    BY <1>1, <2>3, <2>4 DEF HInv
<1> QED
  BY <1>3, <1>4, <1>5, <1>6, <1>7, <1>8 DEF Next

LEMMA InitHInv == Init => HInv
<1> SUFFICES ASSUME Init PROVE HInv
  OBVIOUS
<1>1. PolledPlaces
  BY DEF Init, PolledPlaces, Runs, NewRow
<1>2. HolderInv
  BY DEF Init, HolderInv, NewRow
<1> QED
  BY <1>1, <1>2, InitTypeOK DEF HInv

LEMMA HolderInvariant == Spec => []HInv
BY InitHInv, NextHInv, PTL DEF Spec

(* Every path of a run through its handlers releases the row. *)
THEOREM RunningRowsHaveARun == Spec => []RunningHasItsRun
<1>1. HInv => RunningHasItsRun
  BY DEF HInv, HolderInv, Holding, RunningHasItsRun
<1> QED
  BY <1>1, HolderInvariant, PTL

(* A superseded run leaves the status of its successor alone. *)
THEOREM OnlyItsRunReleases == Spec => ReleasedByItsRun
<1>1. ASSUME HInv, [Next]_vars, row.exists, row'.exists, row.run # NoRun, row'.run = NoRun
      PROVE pc[row.run] \in {"executed", "raised"} /\ pc'[row.run] = "settled"
  <2>1. row \in Row /\ pc \in [Runs -> Places]
    BY <1>1 DEF HInv, TypeOK
  <2>2. PICK r \in Runs : RunStep(r)
    <3>1. ~ (UNCHANGED vars \/ EditRead \/ Tick \/ Startup \/ Crash)
      BY <1>1 DEF vars, EditRead, Tick, Startup, Crash
    <3>2. ~ EditWrite /\ ~ Delete
      BY <1>1, <2>1 DEF EditWrite, Delete, Row, RegisterJob
    <3> QED
      BY <1>1, <3>1, <3>2 DEF Next, RunStep
  <2>3. ~ UNCHANGED row /\ ~ Touch /\ ~ StartRow(r)
    BY <1>1, <2>1, Bounds DEF Touch, StartRow, Row
  <2>4. \A status \in Statuses, last \in Nat : SettleRow(r, status, last) => row.run = r
    BY <1>1 DEF SettleRow
  <2>5. clock \in Nat /\ row.last \in Nat
    BY <1>1, Bounds DEF HInv, TypeOK, Row
  <2>6. Goto(r, "settled") => pc'[r] = "settled"
    BY <2>1 DEF Goto
  <2> QED
    BY <2>2, <2>3, <2>4, <2>5, <2>6, StepWrites DEF Statuses
<1>2. HInv /\ [Next]_vars =>
        [row.exists /\ row'.exists /\ row.run # NoRun /\ row'.run = NoRun =>
           pc[row.run] \in {"executed", "raised"} /\ pc'[row.run] = "settled"]_vars
  BY <1>1
<1> QED
  BY <1>2, HolderInvariant, PTL DEF Spec, ReleasedByItsRun
-----------------------------------------------------------------------------
(* Requests exclude each other when the monitor has no cron job.            *)
BetweenHandlers == {"running", "executing", "saved", "executed", "raised"}
Core == {"cleared", "started", "settled", "unsettled"} \union BetweenHandlers

KeepsTheLoop ==
  \A r \in Manual : pc[r] \in {"read", "cleared", "started", "settled", "unsettled"} => loop = r
IsKnown == \A r \in Manual : pc[r] \in BetweenHandlers => busy
IsAlone == \A r, s \in Manual : pc[r] \in Core /\ pc[s] \in Core => r = s

MInv == HInv /\ KeepsTheLoop /\ IsKnown /\ IsAlone

(* The path of a request, with what it needs and leaves of loop and set.    *)
LEMMA ManualPath ==
  ASSUME HInv, NEW r \in Manual, RunStep(r)
  PROVE \/ pc'[r] \in {"read", "refused"} /\ pc[r] \notin Core /\ busy' = busy
           /\ (pc'[r] = "read" => loop' = r)
        \/ pc[r] = "read" /\ pc'[r] = "cleared" /\ ~ busy /\ ~ busy' /\ loop' = loop
        \/ pc[r] = "cleared" /\ pc'[r] \in {"started", "refused"} /\ busy' = busy
           /\ (pc'[r] = "started" => loop' = loop)
        \/ pc[r] = "started" /\ pc'[r] = "running" /\ busy'
        \/ pc[r] \in BetweenHandlers /\ pc'[r] \in BetweenHandlers /\ busy' = busy
        \/ pc[r] \in BetweenHandlers /\ pc'[r] \in {"settled", "unsettled"} /\ loop' = r
           /\ busy' = busy
        \/ pc[r] \in {"settled", "unsettled"} /\ pc'[r] \in {"done", "lost"}
BY Bounds, MonitorAssumption DEF RunStep, Trigger, Proceed, Spawn, Poll, Read, Check, Start, Add, TouchFirst, Begin,
  ExecuteRaises, SaveReport, TouchAfter, SaveRaises, PolledEnds, Finish, FinishRaises,
  Fail, FailRaises, Discard, Goto, HInv, TypeOK, TakesLoop, LeavesLoop, OnLoop, KnownActive, BetweenHandlers, Core

(* A polled run does not touch the set. *)
LEMMA PolledPath ==
  ASSUME HInv, NEW r \in Polled, RunStep(r)
  PROVE busy' = busy /\ loop' = loop
BY Bounds, MonitorAssumption DEF RunStep, Trigger, Proceed, Spawn, Poll, Read, Check, Start, Add, TouchFirst, Begin,
  ExecuteRaises, SaveReport, TouchAfter, SaveRaises, PolledEnds, Finish, FinishRaises,
  Fail, FailRaises, Discard, Goto, HInv, TypeOK, PolledPlaces, TakesLoop, LeavesLoop

LEMMA StepMInv ==
  ASSUME MInv, NEW r \in Runs \ Cron, RunStep(r), HInv'
  PROVE MInv'
<1>1. pc \in [Runs -> Places] /\ \A s \in Runs \ {r} : pc'[s] = pc[s]
  BY StepMoves DEF MInv, HInv, TypeOK, Goto
<1>2. CASE r \in Polled
  <2>1. \A s \in Manual : pc'[s] = pc[s]
    BY <1>1, <1>2, Bounds, MonitorAssumption
  <2>2. busy' = busy /\ loop' = loop
    BY <1>2, PolledPath DEF MInv
  <2> QED
    BY <2>1, <2>2 DEF MInv, KeepsTheLoop, IsKnown, IsAlone
<1>3. CASE r \in Manual
  <2>1. \A s \in Manual \ {r} : pc'[s] = pc[s]
    BY <1>1, Bounds
  <2>2. loop' = loop \/ loop \in {NoRun, r}
    BY StepLocals DEF MInv, HInv
  <2>3. \A s \in Manual \ {r} : s # NoRun /\ (loop = s => loop' = loop)
    BY <2>2, Bounds
  <2>4. KeepsTheLoop'
    BY <1>3, <2>1, <2>3, ManualPath DEF MInv, KeepsTheLoop, BetweenHandlers, Core
  <2>5. IsKnown'
    BY <1>3, <2>1, ManualPath DEF MInv, IsKnown, IsAlone, BetweenHandlers, Core
  <2>6. pc[r] \in Core \/ pc'[r] \notin Core \/ (pc[r] = "read" /\ ~ busy)
    BY <1>3, ManualPath DEF MInv, BetweenHandlers, Core
  <2>7. pc[r] = "read" /\ ~ busy => \A s \in Manual \ {r} : pc[s] \notin Core
    BY <1>3 DEF MInv, KeepsTheLoop, IsKnown, BetweenHandlers, Core
  <2>8. IsAlone'
    BY <1>3, <2>1, <2>6, <2>7 DEF MInv, IsAlone
  <2> QED
    BY <2>4, <2>5, <2>8 DEF MInv
<1> QED
  BY <1>2, <1>3 DEF Runs

(* A triggered run is never idle again. *)
LEMMA IdleBefore ==
  ASSUME HInv, [Next]_vars, NEW c \in Runs, pc'[c] = "idle"
  PROVE pc[c] = "idle" /\ ~ RunStep(c)
<1>1. pc \in [Runs -> Places]
  BY DEF HInv, TypeOK
<1>2. ~ RunStep(c)
  BY <1>1, StepMoves DEF Goto
<1>3. CASE \E r \in Runs : Trigger(r) \/ Proceed(r)
  <2>1. PICK r \in Runs : RunStep(r)
    BY <1>3 DEF RunStep
  <2>2. r # c
    BY <1>2, <2>1
  <2> QED
    BY <1>1, <1>2, <2>1, <2>2, StepMoves DEF Goto
<1>4. CASE Crash
  BY <1>1, <1>2, <1>4 DEF Crash
<1>5. CASE UNCHANGED pc
  BY <1>2, <1>5
<1> QED
  BY <1>3, <1>4, <1>5 DEF Next, vars, runVars, EditRead, EditWrite, Delete, Tick, Startup, RegisterJob

LEMMA NextMInv == NoCronYet' /\ MInv /\ [Next]_vars => MInv'
<1> SUFFICES ASSUME NoCronYet', MInv, [Next]_vars PROVE MInv'
  OBVIOUS
<1>1. HInv'
  BY NextHInv DEF MInv
<1>2. CASE \E r \in Runs : Trigger(r) \/ Proceed(r)
  <2>1. \A c \in Cron : ~ RunStep(c)
    BY IdleBefore DEF MInv, NoCronYet, Runs
  <2> QED
    BY <1>1, <1>2, <2>1, StepMInv DEF RunStep
<1>3. CASE UNCHANGED vars \/ Delete \/ Tick \/ Startup
  <2>1. UNCHANGED <<pc, loop, busy>>
    BY <1>3 DEF vars, Delete, Tick, Startup, runVars
  <2> QED
    BY <1>1, <2>1 DEF MInv, KeepsTheLoop, IsKnown, IsAlone
<1>4. CASE EditRead \/ EditWrite
  <2>1. UNCHANGED <<pc, busy>> /\ loop \in {NoRun, Editor}
    BY <1>4 DEF EditRead, EditWrite, runVars, RegisterJob
  <2>2. \A r \in Manual : loop # r
    BY <2>1, Bounds
  <2> QED
    BY <1>1, <2>1, <2>2 DEF MInv, KeepsTheLoop, IsKnown, IsAlone
<1>5. CASE Crash
  <2>1. \A r \in Manual : pc'[r] \in Ended
    BY <1>5, Bounds DEF Crash, Ended
  <2> QED
    BY <1>1, <2>1 DEF MInv, KeepsTheLoop, IsKnown, IsAlone, Ended, Core, BetweenHandlers
<1> QED
  BY <1>2, <1>3, <1>4, <1>5 DEF Next

(* Until a cron run is triggered at most one request executes the monitor.  *)
THEOREM RequestsExclude == Spec => []ManualRunsExclude
<1> DEFINE Inv == HInv /\ (NoCronYet => MInv)
<1>1. Init => Inv
  <2> SUFFICES ASSUME Init PROVE MInv
    BY InitHInv
  <2>1. HInv
    BY InitHInv
  <2>2. \A r \in Manual : pc[r] = "idle"
    BY Bounds DEF Init, NewRow
  <2> QED
    BY <2>1, <2>2 DEF MInv, KeepsTheLoop, IsKnown, IsAlone, Core, BetweenHandlers
<1>2. Inv /\ [Next]_vars => Inv'
  <2> SUFFICES ASSUME Inv, [Next]_vars PROVE Inv'
    OBVIOUS
  <2>1. HInv'
    BY NextHInv
  <2>2. NoCronYet' => NoCronYet
    BY IdleBefore DEF NoCronYet, Runs
  <2> QED
    BY <2>1, <2>2, NextMInv
<1>3. Inv => ManualRunsExclude
  BY DEF MInv, IsAlone, ManualRunsExclude, Working, Core, BetweenHandlers
<1> QED
  BY <1>1, <1>2, <1>3, PTL DEF Spec
-----------------------------------------------------------------------------
(* At most one polled run per period until an update reads the row.         *)
NoEdits == loop # Editor /\ NotEdited
OncePolled == \A r, s \in Polled : r # s /\ began[r] # 0 => began[r] # began[s]
LastBounds == row.last <= clock /\ \A r \in Polled : began[r] <= clock
TouchedBefore == row.exists => \A r \in Polled : began[r] <= row.last
SpawnedAlone ==
  \A r, s \in Polled :
    pc[r] = "spawned" => began[s] < clock /\ (pc[s] = "spawned" => r = s)

PInv == HInv /\ NoEdits /\ LastBounds /\ TouchedBefore /\ SpawnedAlone /\ OncePolled

(* A polled run is spawned by the poll, and leaves "spawned" by its touch.  *)
LEMMA PolledSpawn ==
  ASSUME HInv, NEW r \in Polled, RunStep(r)
  PROVE \/ Poll(r)
        \/ TouchFirst(r)
        \/ began' = began /\ pc[r] # "spawned" /\ pc'[r] # "spawned"
BY Bounds, MonitorAssumption DEF RunStep, Trigger, Proceed, Spawn, Poll, Read, Check, Start, Add, TouchFirst, Begin,
  ExecuteRaises, SaveReport, TouchAfter, SaveRaises, PolledEnds, Finish, FinishRaises,
  Fail, FailRaises, Discard, Goto, HInv, TypeOK, PolledPlaces

LEMMA OtherSteps ==
  ASSUME HInv, NEW r \in Runs \ Polled, RunStep(r)
  PROVE began' = began /\ \A s \in Polled : pc'[s] = pc[s]
<1>1. began' = began
  BY StepLocals DEF HInv, TouchFirst
<1>2. \A s \in Polled : pc'[s] = pc[s]
  BY StepMoves, Bounds DEF HInv, TypeOK, Goto
<1> QED
  BY <1>1, <1>2

(* The statements of a run never take last_run_at back. *)
LEMMA StepLast ==
  ASSUME HInv, LastBounds, NEW r \in Runs, RunStep(r)
  PROVE row'.last \in {row.last, clock} /\ (row'.exists = row.exists)
<1>1. row \in Row
  BY DEF HInv, TypeOK
<1>2. CASE UNCHANGED row
  BY <1>2
<1>3. CASE Touch
  BY <1>1, <1>3 DEF Touch, Row
<1>4. CASE StartRow(r)
  BY <1>1, <1>4 DEF StartRow, Row
<1>5. CASE SettleRow(r, "idle", clock) \/ SettleRow(r, "failed", row.last)
  BY <1>1, <1>5 DEF SettleRow, Row
<1> QED
  BY <1>2, <1>3, <1>4, <1>5, StepWrites

LEMMA StepPInv ==
  ASSUME PInv, NEW r \in Runs, RunStep(r), HInv'
  PROVE PInv'
<1>1. /\ row \in Row /\ clock \in Nat /\ row.last \in Nat /\ pc \in [Runs -> Places]
      /\ \A s \in Polled : began[s] \in Nat
  BY Bounds DEF PInv, HInv, TypeOK, Row
<1>2. clock' = clock /\ row'.last \in {row.last, clock} /\ row'.exists = row.exists
  BY StepKeeps, StepLast DEF PInv
<1>3. NoEdits'
  <2>1. loop' # Editor
    BY StepLocals, Bounds DEF PInv, HInv, NoEdits
  <2>2. budget'.edits = budget.edits
    BY StepKeeps DEF SpendFault, PInv, HInv, TypeOK
  <2> QED
    BY <2>1, <2>2 DEF PInv, NoEdits, NotEdited
<1>4. CASE TouchFirst(r) /\ r \in Polled
  <2>1. /\ pc[r] = "spawned" /\ pc'[r] = "running"
        /\ began'[r] = clock /\ \A s \in Polled \ {r} : began'[s] = began[s] /\ pc'[s] = pc[s]
    BY <1>1, <1>4, Bounds DEF TouchFirst, Goto, PInv, HInv, TypeOK
  <2>2. \A s \in Polled \ {r} : began[s] < clock /\ pc[s] # "spawned"
    BY <1>4, <2>1 DEF PInv, SpawnedAlone
  <2>3. row.exists => row'.last = clock
    BY <1>1, <1>4 DEF TouchFirst, Touch, Row
  <2>4. \A s \in Polled : began'[s] \in Nat /\ began'[s] <= clock
    BY <1>1, <2>1, <2>2
  <2>5. row'.last <= clock
    BY <1>1, <1>2 DEF PInv, LastBounds
  <2>6. LastBounds'
    BY <1>2, <2>4, <2>5 DEF LastBounds
  <2>7. TouchedBefore'
    BY <1>2, <2>3, <2>4 DEF TouchedBefore
  <2>8. SpawnedAlone'
    BY <2>1, <2>2 DEF SpawnedAlone
  <2>9. OncePolled'
    BY <1>1, <2>1, <2>2 DEF PInv, OncePolled
  <2> QED
    BY <1>3, <2>6, <2>7, <2>8, <2>9 DEF PInv
<1>5. CASE Poll(r)
  <2>1. /\ r \in Polled /\ row.exists /\ row.last < clock /\ AllTouched
        /\ began' = began /\ \A s \in Polled \ {r} : pc'[s] = pc[s]
    BY <1>1, <1>5, Bounds DEF Poll, Due, Goto
  <2>2. SpawnedAlone'
    BY <1>1, <1>2, <2>1 DEF PInv, SpawnedAlone, TouchedBefore, AllTouched
  <2>3. LastBounds' /\ TouchedBefore' /\ OncePolled'
    BY <1>1, <1>2, <2>1 DEF PInv, LastBounds, TouchedBefore, OncePolled
  <2> QED
    BY <1>3, <2>2, <2>3 DEF PInv
<1>6. CASE began' = began /\ \A s \in Polled : pc'[s] = "spawned" => pc[s] = "spawned"
  <2>1. LastBounds' /\ TouchedBefore' /\ OncePolled'
    BY <1>1, <1>2, <1>6 DEF PInv, LastBounds, TouchedBefore, OncePolled
  <2>2. SpawnedAlone'
    BY <1>2, <1>6 DEF PInv, SpawnedAlone
  <2> QED
    BY <1>3, <2>1, <2>2 DEF PInv
<1>7. \A s \in Polled \ {r} : pc'[s] = pc[s]
  BY <1>1, StepMoves, Bounds DEF Goto
<1> QED
  BY <1>4, <1>5, <1>6, <1>7, PolledSpawn, OtherSteps DEF PInv

LEMMA EditsOnlyFall ==
  ASSUME HInv, [Next]_vars
  PROVE budget'.edits \in 0 .. budget.edits /\ budget.edits \in 0 .. MaxEdits
<1>1. budget \in [crashes : 0 .. MaxCrashes, faults : 0 .. MaxFaults, edits : 0 .. MaxEdits]
  BY DEF HInv, TypeOK
<1>2. CASE \E r \in Runs : Trigger(r) \/ Proceed(r)
  <2>1. budget' = budget \/ SpendFault
    BY <1>2, StepKeeps DEF RunStep
  <2> QED
    BY <1>1, <2>1, Bounds DEF SpendFault
<1>3. CASE EditRead
  BY <1>1, <1>3, Bounds DEF EditRead
<1>5. CASE Crash
  BY <1>1, <1>5, Bounds DEF Crash
<1>4. CASE UNCHANGED budget
  BY <1>1, <1>4, Bounds
<1> QED
  BY <1>2, <1>3, <1>4, <1>5 DEF Next, vars, runVars, worldVars, EditWrite, Delete, Tick, Startup, RegisterJob

LEMMA NextPInv == NotEdited' /\ PInv /\ [Next]_vars => PInv'
<1> SUFFICES ASSUME NotEdited', PInv, [Next]_vars PROVE PInv'
  OBVIOUS
<1>1. HInv'
  BY NextHInv DEF PInv
<1>2. /\ row \in Row /\ clock \in Nat /\ row.last \in Nat
      /\ \A s \in Polled : began[s] \in Nat
  BY Bounds DEF PInv, HInv, TypeOK, Row
<1>3. CASE \E r \in Runs : Trigger(r) \/ Proceed(r)
  BY <1>1, <1>3, StepPInv DEF RunStep
<1>4. CASE UNCHANGED vars \/ Startup
  <2>1. UNCHANGED <<row, clock, began, pc, loop, budget>>
    BY <1>4 DEF vars, Startup, runVars, worldVars
  <2> QED
    BY <1>1, <2>1 DEF PInv, NoEdits, LastBounds, TouchedBefore, SpawnedAlone, OncePolled, NotEdited
<1>5. ~ EditRead /\ ~ EditWrite
  <2>1. budget.edits \in Nat
    BY Bounds DEF PInv, HInv, TypeOK
  <2>2. EditRead => budget'.edits # budget.edits
    BY <2>1 DEF EditRead, PInv, HInv, TypeOK
  <2> QED
    BY <2>2 DEF PInv, NoEdits, NotEdited, EditWrite, RegisterJob
<1>6. CASE Delete
  <2>1. UNCHANGED <<clock, began, pc, loop, budget>> /\ row'.last = row.last /\ ~ row'.exists
    BY <1>2, <1>6 DEF Delete, Row, runVars, worldVars
  <2> QED
    BY <1>1, <2>1 DEF PInv, NoEdits, LastBounds, TouchedBefore, SpawnedAlone, OncePolled, NotEdited
<1>7. CASE Tick
  <2>1. UNCHANGED <<row, began, pc, loop, budget>> /\ clock' = clock + 1 /\ AllTouched
    BY <1>7 DEF Tick, runVars
  <2> QED
    BY <1>1, <1>2, <2>1
    DEF PInv, NoEdits, LastBounds, TouchedBefore, SpawnedAlone, OncePolled, NotEdited, AllTouched
<1>8. CASE Crash
  <2>1. UNCHANGED <<row, clock, began>> /\ loop' = NoRun
    BY <1>8 DEF Crash
  <2>2. budget'.edits = budget.edits
    BY <1>8 DEF Crash, PInv, HInv, TypeOK
  <2>3. \A r \in Polled : pc'[r] # "spawned"
    BY <1>8, Bounds DEF Crash, Ended
  <2> QED
    BY <1>1, <2>1, <2>2, <2>3, Bounds
    DEF PInv, NoEdits, LastBounds, TouchedBefore, SpawnedAlone, OncePolled, NotEdited
<1> QED
  BY <1>3, <1>4, <1>5, <1>6, <1>7, <1>8 DEF Next

(* Unless a configuration update writes it back, last_run_at admits one     *)
(* polled run per period, across crashes and beside the other runs.         *)
THEOREM PolledOncePerPeriod == Spec => []OncePerPeriod
<1> DEFINE Inv == HInv /\ (NotEdited => PInv)
<1>1. Init => Inv
  <2> SUFFICES ASSUME Init PROVE PInv
    BY InitHInv
  <2>1. /\ loop = NoRun /\ budget.edits = MaxEdits /\ row.last = 0 /\ clock = 1
        /\ \A r \in Polled : began[r] = 0 /\ pc[r] = "idle"
    BY Bounds DEF Init, NewRow
  <2> QED
    BY <2>1, InitHInv, Bounds
    DEF PInv, NoEdits, NotEdited, LastBounds, TouchedBefore, SpawnedAlone, OncePolled
<1>2. Inv /\ [Next]_vars => Inv'
  <2> SUFFICES ASSUME Inv, [Next]_vars PROVE Inv'
    OBVIOUS
  <2>1. HInv'
    BY NextHInv
  <2>2. NotEdited' => NotEdited
    BY EditsOnlyFall DEF NotEdited
  <2> QED
    BY <2>1, <2>2, NextPInv
<1>3. Inv => OncePerPeriod
  BY DEF PInv, OncePerPeriod, OncePolled
<1> QED
  BY <1>1, <1>2, <1>3, PTL DEF Spec
-----------------------------------------------------------------------------
(* WatchlistAlerts.                                                         *)
CheckPlaces == {"idle", "sending", "done", "raised", "dead"}

(* The part of the type invariant that does not count. *)
Typed ==
  /\ alerts \in [Alerts -> RowStates] /\ disk \in [Alerts -> RowStates]
  /\ check \in [Checks -> [place : CheckPlaces, alert : Nat, todo : SUBSET Alerts]]
  /\ \A c \in Checks : check[c].place = "sending" => check[c].alert \in Alerts
  /\ sent \in [Alerts -> Nat]
  /\ crashes \in Nat

(* An alert is created with its commit, and a check only has alerts on its  *)
(* list that were created, later ones than the alert it is notifying.       *)
CreatedOnDisk == \A a \in Alerts : alerts[a] = "none" <=> disk[a] = "none"
ListsAreCreated == \A c \in Checks : \A a \in check[c].todo : alerts[a] # "none"
ListsGoOn == \A c \in Checks : check[c].place = "sending" => check[c].alert \notin check[c].todo
UncreatedUnsent == \A a \in Alerts : alerts[a] = "none" => sent[a] = 0

Base == Typed /\ CreatedOnDisk /\ ListsGoOn /\ ListsAreCreated /\ UncreatedUnsent

Sending(a) == \E c \in Checks : check[c].place = "sending" /\ check[c].alert = a
-----------------------------------------------------------------------------
LEMMA AlertNumbers == Alerts \subseteq Nat /\ \A a \in Alerts : a \in Nat
BY WatchlistAssumption DEF Alerts

(* What a slice of a check does to its place and to the notifications.      *)
LEMMA SliceEffect ==
  ASSUME Typed, NEW c \in Checks, NEW todo \in SUBSET Alerts,
         Notify(c, todo) \/ Raise(c, todo) \/ End(c)
  PROVE /\ \A d \in Checks \ {c} : check'[d] = check[d]
        /\ \/ /\ check'[c].place = "sending" /\ check'[c].alert \in todo
              /\ check'[c].todo = {b \in todo : b > check'[c].alert}
              /\ sent' = [sent EXCEPT ![check'[c].alert] = @ + 1]
           \/ /\ check'[c].place \in {"raised", "done"} /\ check'[c].todo = {}
              /\ sent' = sent
        /\ check' \in [Checks -> [place : CheckPlaces, alert : Nat, todo : SUBSET Alerts]]
        /\ sent' \in [Alerts -> Nat]
<1>1. CASE Notify(c, todo)
  <2>1. PICK a \in todo :
          /\ check' = [check EXCEPT ![c] = At("sending", a, {b \in todo : b > a})]
          /\ sent' = [sent EXCEPT ![a] = @ + 1]
    BY <1>1 DEF Notify
  <2>2. At("sending", a, {b \in todo : b > a}) \in [place : CheckPlaces, alert : Nat, todo : SUBSET Alerts]
    BY AlertNumbers DEF At, CheckPlaces
  <2>3. /\ check'[c].place = "sending" /\ check'[c].alert = a
        /\ check'[c].todo = {b \in todo : b > a}
    BY <2>1 DEF Typed, At
  <2>4. sent' \in [Alerts -> Nat]
    BY <2>1 DEF Typed
  <2>5. check' \in [Checks -> [place : CheckPlaces, alert : Nat, todo : SUBSET Alerts]]
    BY <2>1, <2>2 DEF Typed
  <2>6. \A d \in Checks \ {c} : check'[d] = check[d]
    BY <2>1 DEF Typed
  <2>7. sent' = [sent EXCEPT ![check'[c].alert] = @ + 1]
    BY <2>1, <2>3
  <2> QED
    BY <2>3, <2>4, <2>5, <2>6, <2>7
<1>2. CASE Raise(c, todo) \/ End(c)
  <2>1. PICK place \in {"raised", "done"} :
          check' = [check EXCEPT ![c] = At(place, 0, {})] /\ sent' = sent
    BY <1>2 DEF Raise, End
  <2>2. At(place, 0, {}) \in [place : CheckPlaces, alert : Nat, todo : SUBSET Alerts]
    BY DEF At, CheckPlaces
  <2> QED
    BY <2>1, <2>2 DEF Typed, At
<1> QED
  BY <1>1, <1>2

LEMMA InitBase == AlertInit => Base
<1> SUFFICES ASSUME AlertInit PROVE Base
  OBVIOUS
<1>1. Idle \in [place : CheckPlaces, alert : Nat, todo : SUBSET Alerts] /\ Idle.place = "idle" /\ Idle.todo = {}
  BY DEF Idle, At, CheckPlaces
<1>2. Typed
  BY <1>1, WatchlistAssumption DEF AlertInit, Typed, RowStates
<1> QED
  BY <1>1, <1>2 DEF AlertInit, Base, CreatedOnDisk, ListsGoOn, ListsAreCreated, UncreatedUnsent

(* The handlers without an await. *)
LEMMA HandlerBase ==
  ASSUME Base, OtherHandler \/ \E a \in Alerts : CreateAlert(a) \/ DeleteWatchlist(a)
  PROVE Base'
<1>1. /\ alerts' \in [Alerts -> RowStates] /\ disk' = alerts' /\ UNCHANGED <<check, sent, crashes>>
      /\ \A a \in Alerts : alerts'[a] = "none" => alerts[a] = "none"
  BY DEF OtherHandler, CreateAlert, DeleteWatchlist, Commit, Base, Typed, RowStates
<1>2. Typed' /\ CreatedOnDisk' /\ ListsGoOn'
  BY <1>1 DEF Base, Typed, CreatedOnDisk, ListsGoOn
<1>3. ListsAreCreated' /\ UncreatedUnsent'
  BY <1>1 DEF Base, Typed, ListsAreCreated, UncreatedUnsent
<1> QED
  BY <1>2, <1>3 DEF Base

(* A slice whose list holds created alerts keeps the basic facts. *)
LEMMA SliceBase ==
  ASSUME Base, NEW c \in Checks, NEW todo \in SUBSET Alerts,
         Notify(c, todo) \/ Raise(c, todo) \/ End(c),
         alerts' \in [Alerts -> RowStates], disk' \in {disk, alerts'}, crashes' = crashes,
         \A a \in Alerts : alerts'[a] = "none" <=> alerts[a] = "none",
         \A a \in todo : alerts[a] # "none"
  PROVE Base'
<1>1. /\ \A d \in Checks \ {c} : check'[d] = check[d]
      /\ check' \in [Checks -> [place : CheckPlaces, alert : Nat, todo : SUBSET Alerts]]
      /\ sent' \in [Alerts -> Nat]
  BY SliceEffect DEF Base
<1>2. check'[c].place = "sending" => check'[c].alert \in todo
  BY SliceEffect DEF Base
<1>3. Typed'
  BY <1>1, <1>2 DEF Base, Typed
<1>4. check'[c].todo \subseteq todo
  BY SliceEffect DEF Base
<1>5. check'[c].place = "sending" => check'[c].alert \notin check'[c].todo
  BY SliceEffect, AlertNumbers DEF Base
<1>6. ListsGoOn'
  BY <1>1, <1>5 DEF Base, ListsGoOn
<1>7. ListsAreCreated'
  BY <1>1, <1>4 DEF Base, Typed, ListsAreCreated
<1>8. UncreatedUnsent'
  <2>1. \A a \in Alerts \ todo : sent'[a] = sent[a]
    <3>1. \/ check'[c].alert \in todo /\ sent' = [sent EXCEPT ![check'[c].alert] = @ + 1]
          \/ sent' = sent
      BY SliceEffect DEF Base
    <3> QED
      BY <3>1 DEF Base, Typed
  <2> QED
    BY <2>1 DEF Base, UncreatedUnsent
<1>9. CreatedOnDisk'
  BY DEF Base, CreatedOnDisk
<1> QED
  BY <1>3, <1>6, <1>7, <1>8, <1>9 DEF Base

LEMMA CheckSlices ==
  ASSUME Base, NEW c \in Checks, BeginCheck(c) \/ Resume(c)
  PROVE \E todo \in SUBSET Alerts :
          /\ Notify(c, todo) \/ Raise(c, todo) \/ End(c)
          /\ alerts' \in [Alerts -> RowStates] /\ disk' \in {disk, alerts'} /\ crashes' = crashes
          /\ \A a \in Alerts : alerts'[a] = "none" <=> alerts[a] = "none"
          /\ \A a \in todo : alerts[a] # "none"
<1>1. CASE BeginCheck(c)
  <2>1. /\ Notify(c, Untriggered) \/ Raise(c, Untriggered) \/ End(c)
        /\ alerts' = alerts /\ disk' = alerts' /\ crashes' = crashes
    BY <1>1 DEF BeginCheck, Commit
  <2>2. Untriggered \in SUBSET Alerts /\ \A a \in Untriggered : alerts[a] = "armed"
    BY DEF Untriggered
  <2> QED
    BY <2>1, <2>2 DEF Base, Typed
<1>2. CASE Resume(c)
  <2>1. /\ Notify(c, check[c].todo) \/ Raise(c, check[c].todo) \/ End(c)
        /\ Mark(check[c].alert) /\ disk' \in {disk, alerts'} /\ crashes' = crashes
    BY <1>2 DEF Resume, FinishCommit, Commit
  <2>2. check[c].todo \in SUBSET Alerts
    BY DEF Base, Typed
  <2>3. alerts' \in [Alerts -> RowStates] /\ \A a \in Alerts : alerts'[a] = "none" <=> alerts[a] = "none"
    BY <2>1 DEF Mark, Base, Typed, RowStates
  <2>4. \A a \in check[c].todo : alerts[a] # "none"
    BY DEF Base, ListsAreCreated
  <2> QED
    BY <2>1, <2>2, <2>3, <2>4
<1> QED
  BY <1>1, <1>2

LEMMA CheckBase ==
  ASSUME Base, NEW c \in Checks, BeginCheck(c) \/ Resume(c)
  PROVE Base'
BY CheckSlices, SliceBase

(* A crash ends the checks that await, and nothing else has alerts to do.   *)
LEMMA CrashEffect ==
  ASSUME Base, CrashAlerts
  PROVE /\ alerts' = disk /\ disk' = disk /\ sent' = sent /\ crashes' = crashes + 1
        /\ \A c \in Checks : check'[c].place # "sending"
        /\ \A c \in Checks : check'[c].todo \subseteq check[c].todo
        /\ check' \in [Checks -> [place : CheckPlaces, alert : Nat, todo : SUBSET Alerts]]
<1>1. At("dead", 0, {}) \in [place : CheckPlaces, alert : Nat, todo : SUBSET Alerts]
  BY DEF At, CheckPlaces
<1>2. At("dead", 0, {}).place = "dead" /\ At("dead", 0, {}).todo = {}
  BY DEF At
<1> QED
  BY <1>1, <1>2 DEF CrashAlerts, Base, Typed

LEMMA CrashBase ==
  ASSUME Base, CrashAlerts
  PROVE Base'
<1>1. Typed'
  BY CrashEffect DEF Base, Typed
<1>2. CreatedOnDisk' /\ ListsGoOn' /\ ListsAreCreated' /\ UncreatedUnsent'
  BY CrashEffect DEF Base, Typed, CreatedOnDisk, ListsGoOn, ListsAreCreated, UncreatedUnsent
<1> QED
  BY <1>1, <1>2 DEF Base

LEMMA NextBase == Base /\ [AlertNext]_alertVars => Base'
<1> SUFFICES ASSUME Base, [AlertNext]_alertVars PROVE Base'
  OBVIOUS
<1>1. CASE AlertNext
  BY <1>1, HandlerBase, CheckBase, CrashBase DEF AlertNext
<1>2. CASE UNCHANGED alertVars
  BY <1>2 DEF alertVars, Base, Typed, CreatedOnDisk, ListsGoOn, ListsAreCreated, UncreatedUnsent
<1> QED
  BY <1>1, <1>2
-----------------------------------------------------------------------------
(* What is sent is marked.                                                  *)

(* What the two slices of a check do to the alerts and to the other checks.    *)
LEMMA SliceMoves ==
  ASSUME Base, NEW c \in Checks, BeginCheck(c) \/ Resume(c)
  PROVE /\ \A d \in Checks \ {c} : check'[d] = check[d]
        /\ \A a \in Alerts : alerts'[a] # alerts[a] =>
             check[c].place = "sending" /\ check[c].alert = a /\ alerts'[a] = "triggered"
        /\ \A a \in Alerts : check[c].place = "sending" /\ check[c].alert = a => alerts'[a] # "armed"
        /\ \A a \in Alerts : sent'[a] # sent[a] =>
             /\ check'[c].place = "sending" /\ check'[c].alert = a
             /\ sent'[a] = sent[a] + 1
        /\ crashes' = crashes
<1>1. PICK todo \in SUBSET Alerts : Notify(c, todo) \/ Raise(c, todo) \/ End(c)
  BY CheckSlices
<1>2. \A d \in Checks \ {c} : check'[d] = check[d]
  BY <1>1, SliceEffect DEF Base
<1>3. \A a \in Alerts : sent'[a] # sent[a] =>
        check'[c].place = "sending" /\ check'[c].alert = a /\ sent'[a] = sent[a] + 1
  <2>1. Typed /\ sent \in [Alerts -> Nat]
    BY DEF Base, Typed
  <2>2. CASE sent' = sent
    BY <2>2
  <2>3. CASE /\ check'[c].place = "sending"
             /\ sent' = [sent EXCEPT ![check'[c].alert] = @ + 1]
    BY <2>1, <2>3
  <2> QED
    BY <1>1, <2>1, <2>2, <2>3, SliceEffect
<1>4. \/ alerts' = alerts /\ check[c].place # "sending"
      \/ check[c].place = "sending" /\ Mark(check[c].alert)
  BY DEF BeginCheck, Resume
<1>5. /\ \A a \in Alerts : alerts'[a] # alerts[a] =>
           check[c].place = "sending" /\ check[c].alert = a /\ alerts'[a] = "triggered"
      /\ \A a \in Alerts : check[c].place = "sending" /\ check[c].alert = a => alerts'[a] # "armed"
  BY <1>4 DEF Mark, Base, Typed
<1>6. crashes' = crashes
  BY DEF BeginCheck, Resume
<1> QED
  BY <1>2, <1>3, <1>5, <1>6

LEMMA HandlerMoves ==
  ASSUME Base, OtherHandler \/ \E a \in Alerts : CreateAlert(a) \/ DeleteWatchlist(a)
  PROVE /\ check' = check /\ sent' = sent /\ crashes' = crashes /\ disk' = alerts'
        /\ \A a \in Alerts : alerts'[a] # alerts[a] =>
             (alerts[a] = "none" /\ alerts'[a] = "armed") \/ alerts'[a] = "deleted"
BY DEF OtherHandler, CreateAlert, DeleteWatchlist, Commit, Base, Typed

(* Without crashes the mark of a notification cannot be lost: what was sent *)
(* and is still armed is being sent, however many checks overlap.           *)
LEMMA MarkedStep ==
  ASSUME Base, SentIsMarked, [AlertNext]_alertVars
  PROVE SentIsMarked'
<1> SUFFICES ASSUME crashes' = 0, NEW a \in Alerts, sent'[a] > 0, alerts'[a] = "armed"
             PROVE \E d \in Checks : check'[d].place = "sending" /\ check'[d].alert = a
  BY DEF SentIsMarked
<1>0. ~ CrashAlerts /\ crashes = 0
  <2>1. ~ CrashAlerts
    BY DEF CrashAlerts, Base, Typed
  <2> QED
    BY <2>1, HandlerMoves, SliceMoves DEF AlertNext, alertVars
<1>1. CASE OtherHandler \/ \E b \in Alerts : CreateAlert(b) \/ DeleteWatchlist(b)
  BY <1>0, <1>1, HandlerMoves DEF Base, UncreatedUnsent, SentIsMarked
<1>2. ASSUME NEW c \in Checks, BeginCheck(c) \/ Resume(c)
      PROVE \E d \in Checks : check'[d].place = "sending" /\ check'[d].alert = a
  <2>1. CASE sent'[a] # sent[a]
    BY <1>2, <2>1, SliceMoves
  <2>2. CASE sent'[a] = sent[a]
    <3>1. alerts[a] = "armed" /\ ~ (check[c].place = "sending" /\ check[c].alert = a)
      BY <1>2, SliceMoves
    <3>2. PICK d \in Checks : check[d].place = "sending" /\ check[d].alert = a
      BY <1>0, <2>2, <3>1 DEF SentIsMarked
    <3> QED
      BY <1>2, <3>1, <3>2, SliceMoves
  <2> QED
    BY <2>1, <2>2
<1>4. CASE UNCHANGED alertVars
  BY <1>0, <1>4 DEF alertVars, SentIsMarked
<1> QED
  BY <1>0, <1>1, <1>2, <1>4 DEF AlertNext

(* Until a crash, an alert whose notification was begun stays untriggered *)
(* only while a check awaits that notification (check_alerts marks it       *)
(* before anything else it does).                                           *)
THEOREM SentGetsMarked == AlertSpec => []SentIsMarked
<1>1. AlertInit => Base /\ SentIsMarked
  BY InitBase DEF AlertInit, SentIsMarked
<1>2. Base /\ SentIsMarked /\ [AlertNext]_alertVars => (Base /\ SentIsMarked)'
  BY NextBase, MarkedStep
<1> QED
  BY <1>1, <1>2, PTL DEF AlertSpec
-----------------------------------------------------------------------------
(* Checks that do not overlap.                                              *)
One == \A c, d \in Checks : check[c].place = "sending" /\ check[d].place = "sending" => c = d

(* What is on a list is untriggered, here and on the disk, and was not yet  *)
(* notified in the life of the process.                                     *)
Quiet ==
  \A c \in Checks : \A a \in check[c].todo :
    check[c].place = "sending" /\ alerts[a] # "triggered" /\ disk[a] # "triggered"
ListFresh == \A c \in Checks : \A a \in check[c].todo : sent[a] <= crashes
Fresh == \A a \in Alerts : alerts[a] = "armed" /\ ~ Sending(a) => sent[a] <= crashes

(* A mark that was committed is also seen.                                  *)
CommittedIsSeen == \A a \in Alerts : disk[a] = "triggered" => alerts[a] \in {"triggered", "deleted"}

OncePerLife == \A a \in Alerts : sent[a] <= 1 + crashes

Lone == Base /\ One /\ Quiet /\ ListFresh /\ Fresh /\ CommittedIsSeen /\ OncePerLife

(* The inductive invariant: all of this holds until two checks overlap.     *)
LoneSoFar == Base /\ (~ overlapped => Lone)
LEMMA InitLone == AlertInit => Lone
<1> SUFFICES ASSUME AlertInit PROVE Lone
  OBVIOUS
<1>1. Idle.place = "idle" /\ Idle.todo = {}
  BY DEF Idle, At
<1>2. One /\ Quiet /\ ListFresh /\ CommittedIsSeen
  BY <1>1 DEF AlertInit, One, Quiet, ListFresh, CommittedIsSeen
<1>3. Fresh /\ OncePerLife
  BY DEF AlertInit, Fresh, OncePerLife
<1> QED
  BY <1>2, <1>3, InitBase DEF Lone

LEMMA HandlerLone ==
  ASSUME Lone, OtherHandler \/ \E a \in Alerts : CreateAlert(a) \/ DeleteWatchlist(a)
  PROVE Lone'
<1>1. /\ check' = check /\ sent' = sent /\ crashes' = crashes /\ disk' = alerts'
      /\ \A a \in Alerts : alerts'[a] # alerts[a] =>
           (alerts[a] = "none" /\ alerts'[a] = "armed") \/ alerts'[a] = "deleted"
  BY HandlerMoves DEF Lone
<1>2. One' /\ ListFresh' /\ OncePerLife' /\ CommittedIsSeen'
  BY <1>1 DEF Lone, One, ListFresh, OncePerLife, CommittedIsSeen
<1>3. Quiet'
  BY <1>1 DEF Lone, Base, Typed, Quiet
<1>4. Fresh'
  <2> SUFFICES ASSUME NEW a \in Alerts, alerts'[a] = "armed", ~ Sending(a)' PROVE sent[a] <= crashes
    BY <1>1 DEF Fresh
  <2>1. ~ Sending(a)
    BY <1>1 DEF Sending
  <2>2. CASE alerts[a] = "armed"
    BY <2>1, <2>2 DEF Lone, Fresh
  <2>3. CASE alerts[a] = "none"
    BY <2>3 DEF Lone, Base, Typed, UncreatedUnsent
  <2> QED
    BY <1>1, <2>2, <2>3
<1>5. Base'
  BY HandlerBase DEF Lone
<1> QED
  BY <1>2, <1>3, <1>4, <1>5 DEF Lone

(* The alerts a slice goes on with, when no other check awaits.             *)
LEMMA LoneSlices ==
  ASSUME ~ overlapped', Lone, NEW c \in Checks, BeginCheck(c) \/ Resume(c)
  PROVE /\ \A d \in Checks \ {c} : check[d].place # "sending"
        /\ \E todo \in SUBSET Alerts :
             /\ Notify(c, todo) \/ Raise(c, todo) \/ End(c)
             /\ \A a \in todo : sent[a] <= crashes
             /\ \A a \in todo : alerts[a] # "triggered" /\ alerts'[a] # "triggered"
             /\ \A a \in todo : disk[a] # "triggered"
<1>1. CASE BeginCheck(c)
  <2>1. /\ Notify(c, Untriggered) \/ Raise(c, Untriggered) \/ End(c)
        /\ alerts' = alerts
        /\ \A d \in Checks : check[d].place # "sending"
    BY <1>1 DEF BeginCheck
  <2>2. Untriggered \in SUBSET Alerts /\ \A a \in Untriggered : alerts[a] = "armed" /\ ~ Sending(a)
    BY <2>1 DEF Untriggered, Sending
  <2>3. \A a \in Untriggered : sent[a] <= crashes /\ disk[a] # "triggered"
    BY <2>2 DEF Lone, Fresh, CommittedIsSeen
  <2> QED
    BY <2>1, <2>2, <2>3
<1>2. CASE Resume(c)
  <2>1. /\ Notify(c, check[c].todo) \/ Raise(c, check[c].todo) \/ End(c)
        /\ check[c].place = "sending"
    BY <1>2 DEF Resume
  <2>2. check[c].todo \in SUBSET Alerts /\ check[c].alert \notin check[c].todo
    BY <2>1 DEF Lone, Base, Typed, ListsGoOn
  <2>3. \A a \in check[c].todo : alerts[a] # "triggered" /\ disk[a] # "triggered" /\ sent[a] <= crashes
    BY DEF Lone, Quiet, ListFresh
  <2>4. \A a \in check[c].todo : alerts'[a] = alerts[a]
    BY <1>2, <2>2, SliceMoves DEF Lone
  <2>5. \A d \in Checks \ {c} : check[d].place # "sending"
    BY <2>1 DEF Lone, One
  <2> QED
    BY <2>1, <2>2, <2>3, <2>4, <2>5
<1> QED
  BY <1>1, <1>2

LEMMA SliceLone ==
  ASSUME ~ overlapped', Lone, NEW c \in Checks, BeginCheck(c) \/ Resume(c)
  PROVE /\ Lone'
        /\ \A a \in Alerts : disk[a] = "triggered" => sent'[a] = sent[a]
<1>1. PICK todo \in SUBSET Alerts :
        /\ Notify(c, todo) \/ Raise(c, todo) \/ End(c)
        /\ \A a \in todo : sent[a] <= crashes
        /\ \A a \in todo : alerts[a] # "triggered" /\ alerts'[a] # "triggered"
        /\ \A a \in todo : disk[a] # "triggered"
  BY LoneSlices
<1>2. Base' /\ crashes' = crashes /\ disk' \in {disk, alerts'}
  BY CheckBase, CheckSlices DEF Lone
<1>3. \A d \in Checks \ {c} : check'[d] = check[d] /\ check[d].place # "sending"
  BY SliceMoves, LoneSlices DEF Lone
<1>4. \A d \in Checks \ {c} : check[d].todo = {}
  BY <1>3 DEF Lone, Base, Typed, Quiet
<1>5. \/ /\ check'[c].place = "sending" /\ check'[c].alert \in todo
         /\ check'[c].todo \subseteq todo /\ check'[c].alert \notin check'[c].todo
         /\ sent' = [sent EXCEPT ![check'[c].alert] = @ + 1]
      \/ check'[c].todo = {} /\ sent' = sent
  BY <1>1, SliceEffect, AlertNumbers DEF Lone, Base
<1>6. \A a \in Alerts : sent'[a] # sent[a] =>
        a \in todo /\ a \notin check'[c].todo /\ sent'[a] = sent[a] + 1
  BY <1>5 DEF Lone, Base, Typed
<1>7. One'
  BY <1>3 DEF One
<1>8. Quiet'
  BY <1>1, <1>2, <1>3, <1>4, <1>5 DEF Quiet
<1>9. ListFresh'
  BY <1>1, <1>2, <1>3, <1>4, <1>5, <1>6 DEF ListFresh
<1>10. OncePerLife'
  <2> SUFFICES ASSUME NEW a \in Alerts PROVE sent'[a] <= 1 + crashes
    BY <1>2 DEF OncePerLife
  <2>1. sent[a] <= 1 + crashes /\ sent[a] \in Nat /\ crashes \in Nat
    BY DEF Lone, OncePerLife, Base, Typed
  <2> QED
    BY <1>1, <1>6, <2>1
<1>11. Fresh'
  <2> SUFFICES ASSUME NEW a \in Alerts, alerts'[a] = "armed", ~ Sending(a)' PROVE sent'[a] <= crashes
    BY <1>2 DEF Fresh
  <2>1. sent'[a] = sent[a]
    BY SliceMoves DEF Lone, Sending
  <2>2. alerts[a] = "armed" /\ ~ Sending(a)
    BY <1>3, SliceMoves DEF Lone, Sending
  <2> QED
    BY <2>1, <2>2 DEF Lone, Fresh
<1>12. CommittedIsSeen'
  <2>1. \A a \in Alerts : alerts'[a] # alerts[a] => alerts'[a] = "triggered"
    BY SliceMoves DEF Lone
  <2> QED
    BY <1>2, <2>1 DEF Lone, CommittedIsSeen
<1>13. \A a \in Alerts : disk[a] = "triggered" => sent'[a] = sent[a]
  BY <1>1, <1>6
<1> QED
  BY <1>2, <1>7, <1>8, <1>9, <1>10, <1>11, <1>12, <1>13 DEF Lone

LEMMA CrashLone ==
  ASSUME Lone, CrashAlerts
  PROVE Lone'
<1>1. \A c \in Checks : check'[c].place # "sending" /\ check'[c].todo = {}
  <2>1. At("dead", 0, {}).place = "dead" /\ At("dead", 0, {}).todo = {}
    BY DEF At
  <2> QED
    BY <2>1 DEF CrashAlerts, Lone, Quiet, Base, Typed
<1>2. Base' /\ alerts' = disk /\ disk' = disk /\ sent' = sent /\ crashes' = crashes + 1
  BY CrashBase, CrashEffect DEF Lone
<1>3. One' /\ Quiet' /\ ListFresh' /\ CommittedIsSeen'
  BY <1>1, <1>2 DEF One, Quiet, ListFresh, CommittedIsSeen
<1>4. \A a \in Alerts : sent[a] <= 1 + crashes /\ sent[a] \in Nat /\ crashes \in Nat
  BY DEF Lone, OncePerLife, Base, Typed
<1>5. Fresh' /\ OncePerLife'
  BY <1>2, <1>4 DEF Fresh, OncePerLife
<1> QED
  BY <1>2, <1>3, <1>5 DEF Lone

(* No step makes an overlap undone. *)
LEMMA OverlapStays == ASSUME [AlertNext]_alertVars, overlapped PROVE overlapped'
BY DEF AlertNext, CreateAlert, DeleteWatchlist, OtherHandler, BeginCheck, Resume, CrashAlerts, alertVars

LEMMA LoneStep ==
  ASSUME ~ overlapped', Lone, [AlertNext]_alertVars
  PROVE /\ Lone'
        /\ \A a \in Alerts : disk[a] = "triggered" => sent'[a] = sent[a]
<1>1. CASE OtherHandler \/ \E a \in Alerts : CreateAlert(a) \/ DeleteWatchlist(a)
  BY <1>1, HandlerLone, HandlerMoves DEF Lone
<1>2. CASE \E c \in Checks : BeginCheck(c) \/ Resume(c)
  BY <1>2, SliceLone
<1>3. CASE CrashAlerts
  BY <1>3, CrashLone DEF CrashAlerts
<1>4. CASE UNCHANGED alertVars
  <2>1. Base'
    BY NextBase DEF Lone
  <2>2. One' /\ Quiet' /\ ListFresh' /\ CommittedIsSeen' /\ OncePerLife'
    BY <1>4 DEF alertVars, Lone, One, Quiet, ListFresh, CommittedIsSeen, OncePerLife
  <2>3. Fresh'
    BY <1>4 DEF alertVars, Lone, Fresh, Sending
  <2> QED
    BY <1>4, <2>1, <2>2, <2>3 DEF alertVars, Lone
<1> QED
  BY <1>1, <1>2, <1>3, <1>4 DEF AlertNext

LEMMA LoneSoFarStep == LoneSoFar /\ [AlertNext]_alertVars => LoneSoFar'
BY LoneStep, OverlapStays, NextBase DEF LoneSoFar

(* Until two checks overlap, an alert is notified at most once more than    *)
(* the process crashed: the read at the start, the marks before each        *)
(* further slice and the commit at the end leave nothing to a second check. *)
THEOREM OneNotificationPerLife == AlertSpec => []NotifiedOncePerLife
<1>1. AlertInit => LoneSoFar
  BY InitLone, InitBase DEF LoneSoFar
<1>2. LoneSoFar => NotifiedOncePerLife
  BY DEF LoneSoFar, Lone, OncePerLife, NotifiedOncePerLife
<1> QED
  BY <1>1, <1>2, LoneSoFarStep, PTL DEF AlertSpec

(* Until two checks overlap, no alert whose mark is committed is notified,  *)
(* whichever handler's commit wrote the mark, and whatever crashed since.   *)
THEOREM CommittedMarksHold == AlertSpec => CommittedStaysQuiet
<1>1. AlertInit => LoneSoFar
  BY InitLone, InitBase DEF LoneSoFar
<1>2. LoneSoFar /\ [AlertNext]_alertVars =>
        [~ overlapped' => \A a \in Alerts : disk[a] = "triggered" => sent'[a] = sent[a]]_alertVars
  BY LoneStep, OverlapStays DEF LoneSoFar
<1> QED
  BY <1>1, <1>2, LoneSoFarStep, PTL DEF AlertSpec, CommittedStaysQuiet
=============================================================================
