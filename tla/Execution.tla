----------------------------- MODULE Execution ------------------------------
(***************************************************************************)
(* Time in the delivery worker: how long a delivery may run, when its      *)
(* occurrence is rescued, and how long its history record is kept          *)
(* (riverquene.go: the constants, NewRiver, deliver, recordExecution,      *)
(* pruneWorker; River's executor, rescuer, cleaner and periodic jobs).     *)
(*                                                                         *)
(* One occurrence at a time of one job is followed, over the nodes of the  *)
(* cluster.  Instead of a clock, everything that waits has an age; Tick    *)
(* adds a unit to all of them, and does not pass a deadline that must be   *)
(* acted on.  Ages beyond the last deadline count as one.                  *)
(***************************************************************************)
EXTENDS Integers, FiniteSets, FiniteSetsExt

CONSTANTS
    Nodes,
    Second,           \* units in a second
    Half,             \* a Duration lies in -Half .. Half - 1
    AskedTimeouts,    \* timeouts of the job, in seconds
    ConfigSeconds,    \* GUA_DELIVERY_TIMEOUT, in seconds
    DefaultTimeout, MaxDeliveryTimeout, RiverJobTimeout, RescueAfter,
    HistoryTTL, PruneInterval,
    Retention,        \* River keeps completed rows this long
    Grace,            \* from the end of a context to its effect
    Lag               \* from an available row to the end of its run

ASSUME TypesAssumption ==
    /\ {Second, Half, DefaultTimeout, MaxDeliveryTimeout, RiverJobTimeout, RescueAfter,
        PruneInterval, Retention, Grace, Lag} \subseteq Nat
    /\ AskedTimeouts \subseteq Int /\ {ConfigSeconds, HistoryTTL} \subseteq Int

ASSUME TimesAssumption ==
    /\ 0 < DefaultTimeout /\ DefaultTimeout <= MaxDeliveryTimeout
    /\ MaxDeliveryTimeout < RiverJobTimeout /\ RiverJobTimeout + Grace <= RescueAfter
    /\ MaxDeliveryTimeout < Half

VARIABLES
    row,       \* the occurrence: [state: available or running, age since attempted_at]
    live,      \* node -> its executor: [phase, age, asked, given, left]; phase off: none
    history,   \* ages of the records in gua_executions
    prune,     \* the row of the prune job: [state, age]
    next       \* time to the next periodic insert

vars == <<row, live, history, prune, next>>

Off == [phase |-> "off", age |-> 0, asked |-> 0, given |-> 0, left |-> 0]
OldAge == RescueAfter + HistoryTTL + Retention + PruneInterval + 2 * Lag + 2
Older(a) == IF a < OldAge THEN a + 1 ELSE a
Live == {n \in Nodes : live[n].phase # "off"}

Init ==
    /\ row = [state |-> "available", age |-> 0]
    /\ live = [n \in Nodes |-> Off]
    /\ history = {}
    /\ prune = [state |-> "none", age |-> 0] /\ next = 0

-----------------------------------------------------------------------------
(* How long a delivery may take *)

\* int64 arithmetic.
Wrap(x) == ((x + Half) % (2 * Half)) - Half

\* startRiver's conversion and NewRiver's defaults.
DeliveryTimeout ==
    LET d == Wrap(ConfigSeconds * Second) IN
    Min({IF d <= 0 THEN DefaultTimeout ELSE d, MaxDeliveryTimeout})

\* Mutant: a timeout that is not positive is taken as it is.
TimeoutUnchecked(asked) == Min({Wrap(asked * Second), MaxDeliveryTimeout})

\* deliver: the timeout of the call.
Timeout(asked) ==
    LET d == Wrap(asked * Second) IN
    Min({IF d <= 0 THEN DeliveryTimeout ELSE d, MaxDeliveryTimeout})

\* Mutant: River's JobTimeout is left at "none".
NoJobDeadline(e) == FALSE

\* The context of Work has ended.
JobDeadline(e) == e.age >= RiverJobTimeout

-----------------------------------------------------------------------------
(* The worker *)

\* River locks the occurrence for node n; Work begins with loadJob.
Start(n) ==
    /\ row.state = "available" /\ live[n].phase = "off"
    /\ row' = [state |-> "running", age |-> 0]
    /\ live' = [live EXCEPT ![n] = [Off EXCEPT !.phase = "load"]]
    /\ UNCHANGED <<history, prune, next>>

\* The definition is loaded: the call starts, bounded by both contexts.
Deliver(n) ==
    /\ live[n].phase = "load"
    /\ \E t \in AskedTimeouts :
          LET left == IF JobDeadline(live[n]) THEN 0 ELSE Timeout(t) IN
          live' = [live EXCEPT ![n].phase = "deliver", ![n].asked = t,
                               ![n].given = left, ![n].left = left]
    /\ UNCHANGED <<row, history, prune, next>>

\* The consumer answered or the context ended; recordExecution inserts a record,
\* and only logs when that fails, as it does once the context has ended.
RecordExecution(n) ==
    /\ live[n].phase = "deliver"
    /\ live' = [live EXCEPT ![n].phase = "settle"]
    /\ \/ HistoryTTL > 0 /\ ~JobDeadline(live[n]) /\ history' = history \cup {0}
       \/ UNCHANGED history
    /\ UNCHANGED <<row, prune, next>>

\* Work returns, also from a failed load, for a deleted or a paused job; the
\* occurrence is retried, or the job's next one follows.
Return(n) ==
    /\ live[n].phase \in {"load", "settle"}
    /\ live' = [live EXCEPT ![n] = Off]
    /\ row' = [state |-> "available", age |-> 0]
    /\ UNCHANGED <<history, prune, next>>

\* The process dies; the row stays running.
Crash(n) ==
    /\ live[n].phase # "off"
    /\ live' = [live EXCEPT ![n] = Off]
    /\ UNCHANGED <<row, history, prune, next>>

\* River's rescuer.
Rescue ==
    /\ row.state = "running" /\ row.age > RescueAfter
    /\ row' = [state |-> "available", age |-> 0]
    /\ UNCHANGED <<live, history, prune, next>>

-----------------------------------------------------------------------------
(* The history's prune job *)

\* An insert of the unique prune job: a row in any state but cancelled or
\* discarded, a completed one too, makes it a no-op.
InsertUnique == IF prune.state = "none" THEN [state |-> "available", age |-> 0] ELSE prune

\* The leader's periodic insert, and the one a new leader starts with.
InsertPrune ==
    /\ HistoryTTL > 0
    /\ prune' = InsertUnique
    /\ next' = PruneInterval
    /\ UNCHANGED <<row, live, history>>

\* pruneWorker.Work.
Prune ==
    /\ prune.state = "available"
    /\ history' = {a \in history : a <= HistoryTTL}
    /\ prune' = [state |-> "completed", age |-> 0]
    /\ UNCHANGED <<row, live, next>>

\* Mutant: NewRiver has River keep completed rows for ever.
NothingToClean == FALSE

\* The completed row is older than River keeps it.
ToClean == prune.state = "completed" /\ prune.age > Retention

\* River's cleaner.
Clean ==
    /\ ToClean
    /\ prune' = [state |-> "none", age |-> 0]
    /\ UNCHANGED <<row, live, history, next>>

-----------------------------------------------------------------------------
(* Time *)

\* A call ends with its context, Work soon after its own.
CallOver == \E n \in Live : live[n].phase = "deliver" /\ live[n].left = 0
WorkOver == \E n \in Live : JobDeadline(live[n]) /\ live[n].age >= RiverJobTimeout + Grace

\* River's leader and its workers keep up.
ToInsert == next = 0 /\ HistoryTTL > 0
ToPrune == prune.state = "available" /\ prune.age >= Lag

Due == CallOver \/ WorkOver \/ ToInsert \/ ToPrune \/ ToClean

Tick ==
    /\ ~Due
    /\ row' = [row EXCEPT !.age = IF row.state = "running" THEN Older(@) ELSE 0]
    /\ live' = [n \in Nodes |-> IF n \notin Live THEN Off ELSE
                   [live[n] EXCEPT !.age = Older(@), !.left = Max({@ - 1, 0})]]
    /\ history' = {Older(a) : a \in history}
    /\ prune' = [prune EXCEPT !.age = IF prune.state = "none" THEN 0 ELSE Older(@)]
    /\ next' = Max({next - 1, 0})

Next ==
    \/ \E n \in Nodes :
          Start(n) \/ Deliver(n) \/ RecordExecution(n) \/ Return(n) \/ Crash(n)
    \/ Rescue \/ InsertPrune \/ Prune \/ Clean \/ Tick

Spec == Init /\ [][Next]_vars

-----------------------------------------------------------------------------
(* Properties *)

\* An occurrence never has two executors, on any nodes: a live one is over
\* before the rescuer may take its occurrence for a crashed node's
\* (riverquene.go:52-57).
NeverTwoExecutors == Cardinality(Live) <= 1 /\ (Live # {} => row.state = "running")

\* A call is given time, and never more than MaxDeliveryTimeout, whatever becomes of
\* the product (riverquene.go:327-334); the job's own time when it asks for some
\* that a Duration can hold.  One that it cannot hold wraps around and is not
\* capped: it becomes the default, or a moment.
GivenTheTimeAsked ==
    \A n \in Live : live[n].phase = "deliver" /\ live[n].given # 0 =>
        LET asked == live[n].asked * Second IN
        /\ live[n].given \in 1..MaxDeliveryTimeout
        /\ asked \in 1..(Half - 1) => live[n].given = Min({asked, MaxDeliveryTimeout})

\* Records older than the TTL are deleted every PruneInterval ("deleted by a
\* periodic prune job (every 10 minutes, run once per cluster via River's
\* leader)", docs/MONITORING.md:51-52; riverquene.go:39-40): they are not, the
\* completed row of the last prune keeps the next from being inserted
\* (riverquene.go:82).
PrunedOnInterval ==
    \A a \in history : a <= HistoryTTL + PruneInterval + Lag

\* What remains of it: however the prune job's uniqueness and River's retention
\* of its completed row meet, the history does not grow for ever.  A record goes
\* at the latest once that row is cleaned up, the next insert is due and its
\* prune has run.
PrunedInTheEnd ==
    \A a \in history : a <= HistoryTTL + Retention + 1 + PruneInterval + Lag
=============================================================================
