-------------------------- MODULE ExecutionProofs ---------------------------
(***************************************************************************)
(* Proofs about Execution: an occurrence never has two executors, a call   *)
(* is given the time it asks for, and history records are pruned in time,  *)
(* for every set of nodes and every value of the timeouts that satisfies   *)
(* the module's two assumptions.                                           *)
(***************************************************************************)
EXTENDS Execution, FiniteSetTheorems, TLAPS

Phases == {"off", "load", "deliver", "settle"}

Executor == [phase : Phases, age : Nat, asked : Int, given : Nat, left : Nat]

\* What the variables hold.
ExecType ==
    /\ row \in [state : {"available", "running"}, age : Nat]
    /\ live \in [Nodes -> Executor]
    /\ history \subseteq Nat
    /\ prune \in [state : {"none", "available", "completed"}, age : Nat]
    /\ next \in 0..PruneInterval

\* A live executor is as old as the lock on its row, and no older than the end of
\* Work's context allows; it is alone.
OwnsTheRow ==
    /\ \A n \in Live : /\ row.state = "running"
                       /\ live[n].age = row.age
                       /\ live[n].age <= RiverJobTimeout + Grace
    /\ \A m, n \in Live : m = n

\* The time of a call is none, or what deliver computes for the job.
GivenByTimeout ==
    \A n \in Live : live[n].phase = "deliver" =>
        /\ live[n].asked \in AskedTimeouts
        /\ live[n].given \in {0, Timeout(live[n].asked)}

\* How old a record can be, by where the prune job stands.
NotOverdue ==
    /\ history = {} \/ HistoryTTL > 0
    /\ prune.state = "completed" =>
          /\ prune.age <= Retention + 1
          /\ \A a \in history : a <= HistoryTTL + prune.age
    /\ prune.state = "none" =>
          \A a \in history : a <= HistoryTTL + Retention + 1 + (PruneInterval - next)
    /\ prune.state = "available" =>
          /\ prune.age <= Lag
          /\ \A a \in history : a <= HistoryTTL + Retention + 1 + PruneInterval + prune.age

ExecInv == ExecType /\ OwnsTheRow /\ GivenByTimeout /\ NotOverdue

-----------------------------------------------------------------------------
(* The constants and the operators *)

\* The types of the constants, one by one.
LEMMA Constants ==
    /\ Second \in Nat /\ Half \in Nat /\ DefaultTimeout \in Nat
    /\ MaxDeliveryTimeout \in Nat /\ RiverJobTimeout \in Nat /\ RescueAfter \in Nat
    /\ PruneInterval \in Nat /\ Retention \in Nat /\ Grace \in Nat /\ Lag \in Nat
    /\ ConfigSeconds \in Int /\ HistoryTTL \in Int
BY TypesAssumption

\* The smaller and the larger of two integers are what Min and Max choose.
LEMMA MinMaxOfTwo ==
    ASSUME NEW a \in Int, NEW b \in Int
    PROVE  /\ Min({a, b}) = IF a <= b THEN a ELSE b
           /\ Max({a, b}) = IF a >= b THEN a ELSE b
<1>1. \E x \in {a, b} : \A y \in {a, b} : x <= y
  OBVIOUS
<1>2. \E x \in {a, b} : \A y \in {a, b} : x >= y
  OBVIOUS
<1>3. Min({a, b}) \in {a, b} /\ \A y \in {a, b} : Min({a, b}) <= y
  BY <1>1, Zenon DEF Min
<1>4. Max({a, b}) \in {a, b} /\ \A y \in {a, b} : Max({a, b}) >= y
  BY <1>2, Zenon DEF Max
<1> QED
  BY <1>3, <1>4

\* The two's-complement wrap of a Duration: its range, and that it leaves alone
\* what a Duration can hold.
LEMMA WrapFacts ==
    ASSUME NEW x \in Int
    PROVE  /\ Wrap(x) \in Int /\ Wrap(x) < Half
           /\ x \in 1..(Half - 1) => Wrap(x) = x
<1>1. Half \in Nat /\ Half > 0
  BY TypesAssumption, TimesAssumption
<1>2. (x + Half) % (2 * Half) \in 0..(2 * Half - 1)
  BY <1>1
<1>3. ASSUME x \in 1..(Half - 1)
      PROVE  (x + Half) % (2 * Half) = x + Half
  BY <1>1, <1>3
<1> QED
  BY <1>1, <1>2, <1>3 DEF Wrap

\* The timeout deliver computes is positive and at most MaxDeliveryTimeout, and
\* is the one asked for when a Duration can hold it.
LEMMA TimeoutFacts ==
    ASSUME NEW t \in AskedTimeouts
    PROVE  /\ Timeout(t) \in 1..MaxDeliveryTimeout
           /\ t * Second \in 1..(Half - 1) => Timeout(t) = Min({t * Second, MaxDeliveryTimeout})
<1>1. /\ MaxDeliveryTimeout \in Nat /\ DefaultTimeout \in Nat
      /\ 0 < DefaultTimeout /\ DefaultTimeout <= MaxDeliveryTimeout
      /\ t * Second \in Int /\ ConfigSeconds * Second \in Int
  BY TypesAssumption, TimesAssumption
<1> DEFINE c == Wrap(ConfigSeconds * Second)
           d == Wrap(t * Second)
<1>2. c \in Int /\ d \in Int /\ (t * Second \in 1..(Half - 1) => d = t * Second)
  BY <1>1, WrapFacts
<1> HIDE DEF c, d
<1>3. DeliveryTimeout = Min({IF c <= 0 THEN DefaultTimeout ELSE c, MaxDeliveryTimeout})
  BY DEF DeliveryTimeout, c
<1>4. DeliveryTimeout \in 1..MaxDeliveryTimeout
  BY <1>1, <1>2, <1>3, MinMaxOfTwo
<1>5. Timeout(t) = Min({IF d <= 0 THEN DeliveryTimeout ELSE d, MaxDeliveryTimeout})
  BY DEF Timeout, d
<1>6. Timeout(t) \in 1..MaxDeliveryTimeout
  BY <1>1, <1>2, <1>4, <1>5, MinMaxOfTwo
<1>7. ASSUME t * Second \in 1..(Half - 1)
      PROVE  Timeout(t) = Min({t * Second, MaxDeliveryTimeout})
  <2>1. ~(d <= 0) /\ d = t * Second
    BY <1>2, <1>7, <1>1
  <2> QED
    BY <2>1, <1>5
<1> QED
  BY <1>6, <1>7

\* The types of the same.
LEMMA TimeoutType == \A t \in AskedTimeouts : t \in Int /\ Timeout(t) \in Nat
<1> SUFFICES ASSUME NEW t \in AskedTimeouts
             PROVE  t \in Int /\ Timeout(t) \in Nat
  OBVIOUS
<1>1. Timeout(t) \in 1..MaxDeliveryTimeout
  BY TimeoutFacts
<1> QED
  BY <1>1, Constants, TypesAssumption

\* Growing older: by one, or not at all beyond the last deadline.
LEMMA OlderFacts ==
    ASSUME NEW a \in Nat
    PROVE  /\ Older(a) \in Nat /\ Older(a) <= a + 1
           /\ a < OldAge => Older(a) = a + 1
BY Constants DEF Older, OldAge
-----------------------------------------------------------------------------
(* The inductive invariant *)

\* A fresh process, a free occurrence and an empty history satisfy it.
LEMMA InitExec == Init => ExecInv
BY TypesAssumption
DEF Init, ExecInv, ExecType, Executor, Phases, OwnsTheRow, GivenByTimeout, NotOverdue, Live, Off

\* An executor that begins a call.
LEMMA CallRecord ==
    ASSUME NEW e \in Executor, NEW t, NEW left
    PROVE  [e EXCEPT !.phase = "deliver", !.asked = t, !.given = left, !.left = left]
           = [phase |-> "deliver", age |-> e.age, asked |-> t, given |-> left, left |-> left]
<1> DEFINE e1 == [e EXCEPT !.phase = "deliver"]
           e2 == [e1 EXCEPT !.asked = t]
           e3 == [e2 EXCEPT !.given = left]
<1>1. e1 = [phase |-> "deliver", age |-> e.age, asked |-> e.asked, given |-> e.given,
            left |-> e.left]
  BY DEF Executor
<1> HIDE DEF e1
<1>2. e2 = [phase |-> "deliver", age |-> e.age, asked |-> t, given |-> e.given, left |-> e.left]
  BY <1>1
<1> HIDE DEF e2
<1>3. e3 = [phase |-> "deliver", age |-> e.age, asked |-> t, given |-> left, left |-> e.left]
  BY <1>2
<1> HIDE DEF e3
<1>4. [e3 EXCEPT !.left = left]
      = [phase |-> "deliver", age |-> e.age, asked |-> t, given |-> left, left |-> left]
  BY <1>3
<1> QED
  BY <1>4, Zenon DEF e1, e2, e3

\* What Deliver does to the executor of its node.
LEMMA DeliverShape ==
    ASSUME ExecType, NEW n \in Nodes, Deliver(n)
    PROVE  \E t \in AskedTimeouts, left \in Nat :
              /\ left \in {0, Timeout(t)}
              /\ live' = [live EXCEPT ![n] = [phase |-> "deliver", age |-> live[n].age,
                                              asked |-> t, given |-> left, left |-> left]]
<1>1. PICK t \in AskedTimeouts :
         LET left == IF JobDeadline(live[n]) THEN 0 ELSE Timeout(t) IN
         live' = [live EXCEPT ![n].phase = "deliver", ![n].asked = t,
                              ![n].given = left, ![n].left = left]
  BY Zenon DEF Deliver
<1> DEFINE left == IF JobDeadline(live[n]) THEN 0 ELSE Timeout(t)
<1>2. left \in Nat /\ left \in {0, Timeout(t)}
  BY TimeoutType
<1>3. live' = [live EXCEPT ![n].phase = "deliver", ![n].asked = t,
                           ![n].given = left, ![n].left = left]
  BY <1>1, Zenon
<1> HIDE DEF left
<1>4. live' = [live EXCEPT ![n] = [phase |-> "deliver", age |-> live[n].age,
                                   asked |-> t, given |-> left, left |-> left]]
  <2>1. live \in [Nodes -> Executor] /\ live[n] \in Executor
    BY DEF ExecType
  <2>2. live' = [live EXCEPT ![n] = [live[n] EXCEPT !.phase = "deliver", !.asked = t,
                                                  !.given = left, !.left = left]]
    BY <1>3, <2>1
  <2>3. [live[n] EXCEPT !.phase = "deliver", !.asked = t, !.given = left, !.left = left]
        = [phase |-> "deliver", age |-> live[n].age, asked |-> t, given |-> left, left |-> left]
    BY <2>1, CallRecord, Zenon
  <2> QED
    BY <2>2, <2>3, Zenon
<1> QED
  BY <1>2, <1>4, Zenon

\* What Tick does to each variable.
LEMMA TickShape ==
    ASSUME ExecType, Tick
    PROVE  /\ ~Due
           /\ row'.state = row.state /\ row' \in [state : {"available", "running"}, age : Nat]
           /\ row.state = "running" => row'.age = Older(row.age)
           /\ live' \in [Nodes -> Executor]
           /\ \A n \in Nodes : IF live[n].phase = "off" THEN live'[n].phase = "off" ELSE
                 /\ live'[n].age = Older(live[n].age)
                 /\ live'[n].phase = live[n].phase
                 /\ live'[n].asked = live[n].asked
                 /\ live'[n].given = live[n].given
           /\ history' = {Older(a) : a \in history}
           /\ prune'.state = prune.state
           /\ prune' \in [state : {"none", "available", "completed"}, age : Nat]
           /\ prune.state # "none" => prune'.age = Older(prune.age)
           /\ next' = IF next = 0 THEN 0 ELSE next - 1
<1> DEFINE Aged(n) == [live[n] EXCEPT !.age = Older(@), !.left = Max({@ - 1, 0})]
<1>1. /\ ~Due
      /\ row' = [row EXCEPT !.age = IF row.state = "running" THEN Older(@) ELSE 0]
      /\ live' = [n \in Nodes |-> IF n \notin Live THEN Off ELSE Aged(n)]
      /\ history' = {Older(a) : a \in history}
      /\ prune' = [prune EXCEPT !.age = IF prune.state = "none" THEN 0 ELSE Older(@)]
      /\ next' = Max({next - 1, 0})
  BY Zenon DEF Tick
<1>2. \A a \in Nat : Older(a) \in Nat
  BY OlderFacts
<1>3. \A a \in Nat : Max({a - 1, 0}) = IF a = 0 THEN 0 ELSE a - 1
  BY MinMaxOfTwo
<1>4. /\ row'.state = row.state /\ row' \in [state : {"available", "running"}, age : Nat]
      /\ row.state = "running" => row'.age = Older(row.age)
  <2>1. row \in [state : {"available", "running"}, age : Nat]
    BY DEF ExecType
  <2>2. row' = [row EXCEPT !.age = IF row.state = "running" THEN Older(row.age) ELSE 0]
    BY <1>1, Zenon
  <2> QED
    BY <2>1, <2>2, <1>2
<1>5. ASSUME NEW n \in Nodes
      PROVE  /\ live'[n] \in Executor
             /\ IF live[n].phase = "off" THEN live'[n].phase = "off" ELSE
                 /\ live'[n].age = Older(live[n].age)
                 /\ live'[n].phase = live[n].phase
                 /\ live'[n].asked = live[n].asked
                 /\ live'[n].given = live[n].given
  <2>1. live[n] \in Executor
    BY DEF ExecType
  <2>2. Max({live[n].left - 1, 0}) \in Nat
    BY <2>1, <1>3 DEF Executor
  <2>3. Older(live[n].age) \in Nat
    BY <2>1, <1>2 DEF Executor
  <2>4. CASE live[n].phase = "off"
    <3>1. live'[n] = Off
      BY <1>1, <2>4, Zenon DEF Live
    <3> QED
      BY <3>1, <2>4 DEF Off, Executor, Phases
  <2>5. CASE live[n].phase # "off"
    <3>1. live'[n] = Aged(n)
      BY <1>1, <2>5, Zenon DEF Live
    <3> DEFINE o == Older(live[n].age)
               m == Max({live[n].left - 1, 0})
    <3>2. live'[n] = [live[n] EXCEPT !.age = o, !.left = m]
      BY <3>1
    <3> HIDE DEF o, m
    <3>3. o \in Nat /\ m \in Nat /\ o = Older(live[n].age)
      BY <2>2, <2>3 DEF o, m
    <3> QED
      BY <3>2, <3>3, <2>1, <2>5 DEF Executor
  <2> QED
    BY <2>4, <2>5
<1>6. live' \in [Nodes -> Executor]
  <2>1. live' = [n \in Nodes |-> live'[n]]
    BY <1>1, Zenon
  <2> QED
    BY <2>1, <1>5, Zenon
<1>7. /\ prune'.state = prune.state
      /\ prune' \in [state : {"none", "available", "completed"}, age : Nat]
      /\ prune.state # "none" => prune'.age = Older(prune.age)
  <2>1. prune \in [state : {"none", "available", "completed"}, age : Nat]
    BY DEF ExecType
  <2>2. prune' = [prune EXCEPT !.age = IF prune.state = "none" THEN 0 ELSE Older(prune.age)]
    BY <1>1, Zenon
  <2> QED
    BY <2>1, <2>2, <1>2
<1>8. next' = IF next = 0 THEN 0 ELSE next - 1
  <2>1. next \in Nat
    BY Constants DEF ExecType
  <2>2. next' = Max({next - 1, 0})
    BY <1>1, Zenon
  <2> QED
    BY <1>3, <2>1, <2>2
<1> QED
  BY <1>1, <1>4, <1>5, <1>6, <1>7, <1>8, Zenon

\* Every step keeps the variables in their types.
LEMMA StepType == ExecType /\ [Next]_vars => ExecType'
<1> SUFFICES ASSUME ExecType, [Next]_vars
             PROVE  ExecType'
  OBVIOUS
<1>1. ASSUME NEW n \in Nodes, Start(n)
      PROVE  ExecType'
  BY <1>1 DEF Start, Off, ExecType, Executor, Phases
<1>2. ASSUME NEW n \in Nodes, Deliver(n)
      PROVE  ExecType'
  <2>1. live' \in [Nodes -> Executor]
    BY <1>2, DeliverShape, TimeoutType DEF ExecType, Executor, Phases
  <2>2. UNCHANGED <<row, history, prune, next>>
    BY <1>2, Zenon DEF Deliver
  <2> QED
    BY <2>1, <2>2 DEF ExecType
<1>3. ASSUME NEW n \in Nodes, RecordExecution(n)
      PROVE  ExecType'
  BY <1>3 DEF RecordExecution, ExecType, Executor, Phases
<1>4. ASSUME NEW n \in Nodes, Return(n)
      PROVE  ExecType'
  BY <1>4 DEF Return, Off, ExecType, Executor, Phases
<1>5. ASSUME NEW n \in Nodes, Crash(n)
      PROVE  ExecType'
  BY <1>5 DEF Crash, Off, ExecType, Executor, Phases
<1>6. CASE Rescue
  BY <1>6 DEF Rescue, ExecType
<1>7. CASE InsertPrune
  BY <1>7, Constants DEF InsertPrune, InsertUnique, ExecType
<1>8. CASE Prune
  BY <1>8 DEF Prune, ExecType
<1>9. CASE Clean
  BY <1>9 DEF Clean, ExecType
<1>10. CASE Tick
  <2>1. history' \subseteq Nat
    BY <1>10, TickShape, OlderFacts DEF ExecType
  <2>2. next' \in 0..PruneInterval
    BY <1>10, TickShape, Constants DEF ExecType
  <2> QED
    BY <1>10, <2>1, <2>2, TickShape DEF ExecType
<1>11. CASE UNCHANGED vars
  BY <1>11 DEF vars, ExecType
<1> QED
  BY <1>1, <1>2, <1>3, <1>4, <1>5, <1>6, <1>7, <1>8, <1>9, <1>10, <1>11 DEF Next

\* A lone executor stays alone: River hands out an available row only, and
\* the rescuer's deadline lies after the last moment of a live executor.
LEMMA StepOwns == ExecType /\ OwnsTheRow /\ [Next]_vars => OwnsTheRow'
<1> SUFFICES ASSUME ExecType, OwnsTheRow, [Next]_vars
             PROVE  OwnsTheRow'
  OBVIOUS
<1>1. ASSUME NEW n \in Nodes, Start(n)
      PROVE  OwnsTheRow'
  <2>1. Live = {}
    BY <1>1 DEF Start, OwnsTheRow
  <2>2. Live' = {n} /\ live'[n].age = 0 /\ row' = [state |-> "running", age |-> 0]
    BY <1>1, <2>1 DEF Start, Off, Live, ExecType
  <2> QED
    BY <2>2, Constants DEF OwnsTheRow
<1>2. ASSUME NEW n \in Nodes, Deliver(n)
      PROVE  OwnsTheRow'
  <2>1. \A m \in Nodes : live'[m].age = live[m].age /\ (live'[m].phase # "off" => live[m].phase # "off")
    <3>1. PICK t \in AskedTimeouts, left \in Nat :
             live' = [live EXCEPT ![n] = [phase |-> "deliver", age |-> live[n].age,
                                          asked |-> t, given |-> left, left |-> left]]
      BY <1>2, DeliverShape, Zenon
    <3>2. live[n].phase # "off"
      BY <1>2 DEF Deliver
    <3> QED
      BY <3>1, <3>2 DEF ExecType
  <2>2. row' = row
    BY <1>2, Zenon DEF Deliver
  <2> QED
    BY <2>1, <2>2 DEF OwnsTheRow, Live
<1>3. ASSUME NEW n \in Nodes, RecordExecution(n)
      PROVE  OwnsTheRow'
  BY <1>3 DEF RecordExecution, OwnsTheRow, Live, ExecType, Executor
<1>4. ASSUME NEW n \in Nodes, Return(n)
      PROVE  OwnsTheRow'
  <2>1. Live = {n}
    BY <1>4 DEF Return, OwnsTheRow, Live
  <2>2. Live' = {}
    BY <1>4, <2>1 DEF Return, Off, Live, ExecType
  <2> QED
    BY <2>2 DEF OwnsTheRow
<1>5. ASSUME NEW n \in Nodes, Crash(n)
      PROVE  OwnsTheRow'
  BY <1>5 DEF Crash, Off, OwnsTheRow, Live, ExecType
<1>6. CASE Rescue
  <2>1. Live = {}
    BY <1>6, Constants, TimesAssumption DEF Rescue, OwnsTheRow, ExecType
  <2> QED
    BY <1>6, <2>1 DEF Rescue, OwnsTheRow, Live
<1>7. CASE InsertPrune \/ Prune \/ Clean
  BY <1>7 DEF InsertPrune, Prune, Clean, OwnsTheRow, Live
<1>8. CASE Tick
  <2>1. Live' = Live
    BY <1>8, TickShape DEF Live
  <2>2. ASSUME NEW n \in Live
        PROVE  /\ row'.state = "running" /\ live'[n].age = row'.age
               /\ live'[n].age <= RiverJobTimeout + Grace
    <3>1. live[n].age < RiverJobTimeout + Grace
      <4>1. live[n].age \in Nat
        BY DEF ExecType, Executor, Live
      <4> QED
        BY <1>8, <4>1, TickShape, Constants DEF Due, WorkOver, JobDeadline
    <3>2. live'[n].age = Older(live[n].age) /\ row'.age = Older(row.age) /\ row'.state = "running"
      BY <1>8, TickShape DEF Live, OwnsTheRow
    <3>3. live[n].age = row.age /\ live[n].age \in Nat
      BY DEF OwnsTheRow, ExecType, Executor, Live
    <3> QED
      BY <3>1, <3>2, <3>3, OlderFacts, Constants
  <2>3. \A m, n \in Live' : m = n
    BY <2>1 DEF OwnsTheRow
  <2> QED
    BY <2>1, <2>2, <2>3, Zenon DEF OwnsTheRow
<1>9. CASE UNCHANGED vars
  BY <1>9 DEF vars, OwnsTheRow, Live
<1> QED
  BY <1>1, <1>2, <1>3, <1>4, <1>5, <1>6, <1>7, <1>8, <1>9 DEF Next

\* Only Deliver sets a call's time, to what Timeout computes.
LEMMA StepGiven == ExecType /\ GivenByTimeout /\ [Next]_vars => GivenByTimeout'
<1> SUFFICES ASSUME ExecType, GivenByTimeout, [Next]_vars
             PROVE  GivenByTimeout'
  OBVIOUS
<1>1. ASSUME NEW n \in Nodes, Deliver(n)
      PROVE  GivenByTimeout'
  <2>1. PICK t \in AskedTimeouts, left \in Nat :
           /\ left \in {0, Timeout(t)}
           /\ live' = [live EXCEPT ![n] = [phase |-> "deliver", age |-> live[n].age,
                                           asked |-> t, given |-> left, left |-> left]]
    BY <1>1, DeliverShape, Zenon
  <2>2. live'[n].asked = t /\ live'[n].given = left
    BY <2>1 DEF ExecType
  <2>3. \A m \in Nodes : m # n => live'[m] = live[m]
    BY <2>1 DEF ExecType
  <2> QED
    BY <2>1, <2>2, <2>3 DEF GivenByTimeout, Live
<1>2. ASSUME NEW n \in Nodes, Start(n) \/ RecordExecution(n) \/ Return(n) \/ Crash(n)
      PROVE  GivenByTimeout'
  <2>1. live'[n].phase # "deliver"
    BY <1>2 DEF Start, RecordExecution, Return, Crash, Off, ExecType, Executor
  <2>2. \A m \in Nodes : m # n => live'[m] = live[m]
    BY <1>2 DEF Start, RecordExecution, Return, Crash, ExecType
  <2> QED
    BY <2>1, <2>2 DEF GivenByTimeout, Live
<1>3. CASE Tick
  BY <1>3, TickShape DEF GivenByTimeout, Live
<1>4. CASE Rescue \/ InsertPrune \/ Prune \/ Clean \/ UNCHANGED vars
  BY <1>4 DEF Rescue, InsertPrune, Prune, Clean, vars, GivenByTimeout, Live
<1> QED
  BY <1>1, <1>2, <1>3, <1>4 DEF Next

\* A record is overdue in no step: while the last prune's row is kept, records
\* are as old as it and the TTL; then the next insert, and its run, are due.
LEMMA StepNotOverdue == ExecType /\ NotOverdue /\ [Next]_vars => NotOverdue'
<1> SUFFICES ASSUME ExecType, NotOverdue, [Next]_vars
             PROVE  NotOverdue'
  OBVIOUS
<1> USE Constants
<1>1. ASSUME NEW n \in Nodes, Start(n) \/ Deliver(n) \/ Return(n) \/ Crash(n)
      PROVE  NotOverdue'
  <2>1. UNCHANGED <<history, prune, next>>
    BY <1>1, Zenon DEF Start, Deliver, Return, Crash
  <2> QED
    BY <2>1 DEF NotOverdue
<1>2. ASSUME NEW n \in Nodes, RecordExecution(n)
      PROVE  NotOverdue'
  <2>1. UNCHANGED <<prune, next>>
    BY <1>2, Zenon DEF RecordExecution
  <2>2. history' = history \/ (HistoryTTL > 0 /\ history' = history \cup {0})
    BY <1>2, Zenon DEF RecordExecution
  <2>3. \A a \in history' : a \in history \/ (a = 0 /\ HistoryTTL > 0)
    BY <2>2
  <2>4. prune.age \in Nat /\ next \in 0..PruneInterval
    BY DEF ExecType
  <2> QED
    BY <2>1, <2>3, <2>4 DEF NotOverdue
<1>3. CASE InsertPrune
  BY <1>3 DEF InsertPrune, InsertUnique, NotOverdue, ExecType
<1>4. CASE Prune
  <2>1. /\ history' = {a \in history : a <= HistoryTTL}
        /\ prune'.state = "completed" /\ prune'.age = 0
    BY <1>4 DEF Prune
  <2>2. \A a \in history' : a \in history /\ a <= HistoryTTL + prune'.age
    BY <2>1 DEF ExecType
  <2> QED
    BY <2>1, <2>2 DEF NotOverdue
<1>5. CASE Clean
  BY <1>5 DEF Clean, ToClean, NotOverdue, ExecType
<1>6. CASE Tick
  <2>1. /\ ~Due
        /\ prune'.state = prune.state /\ prune.age \in Nat
        /\ prune.state # "none" => prune'.age = Older(prune.age)
        /\ next' = IF next = 0 THEN 0 ELSE next - 1
    BY <1>6, TickShape DEF ExecType
  <2>2. prune.state = "completed" => prune.age <= Retention
    BY <2>1 DEF Due, ToClean
  <2>3. prune.state = "available" => prune.age < Lag
    BY <2>1 DEF Due, ToPrune
  <2>4. \A b \in history' : \E a \in history : b <= a + 1 /\ a \in Nat /\ b \in Nat
    BY <1>6, TickShape, OlderFacts DEF ExecType
  <2>5. CASE HistoryTTL <= 0
    <3>1. history' = {}
      BY <2>4, <2>5 DEF NotOverdue
    <3> QED
      BY <2>1, <2>2, <2>3, <3>1, OlderFacts DEF NotOverdue
  <2>6. CASE HistoryTTL > 0
    <3>1. next' = next - 1 /\ next \in Int
      BY <2>1, <2>6 DEF Due, ToInsert, ExecType
    <3>2. prune.state # "none" => prune'.age = prune.age + 1
      <4>1. prune.state \in {"none", "completed", "available"}
        BY DEF ExecType
      <4>2. prune.state # "none" => prune.age < OldAge
        BY <2>1, <2>2, <2>3, <2>6, <4>1 DEF OldAge
      <4> QED
        BY <2>1, <4>2, OlderFacts
    <3> QED
      BY <2>1, <2>2, <2>3, <2>4, <2>6, <3>1, <3>2 DEF NotOverdue
  <2> QED
    BY <2>5, <2>6
<1>7. CASE Rescue \/ UNCHANGED vars
  BY <1>7 DEF Rescue, vars, NotOverdue
<1> QED
  BY <1>1, <1>2, <1>3, <1>4, <1>5, <1>6, <1>7 DEF Next

\* The invariant holds in every reachable state.
LEMMA ExecInvariant == Spec => []ExecInv
<1>1. ExecInv /\ [Next]_vars => ExecInv'
  BY StepType, StepOwns, StepGiven, StepNotOverdue DEF ExecInv
<1> QED
  BY InitExec, <1>1, PTL DEF Spec

-----------------------------------------------------------------------------
(* The theorems *)

\* An occurrence never has two executors, on any number of nodes: River's
\* JobTimeout and the time its cancellation takes end a live executor before
\* RescueStuckJobsAfter hands its row to another (riverquene.go:52-57, NewRiver).
THEOREM SingleExecutor == Spec => []NeverTwoExecutors
<1>1. ExecInv => NeverTwoExecutors
  <2> SUFFICES ASSUME ExecInv
               PROVE  NeverTwoExecutors
    OBVIOUS
  <2>1. Live # {} => row.state = "running"
    BY DEF ExecInv, OwnsTheRow
  <2>2. Cardinality(Live) <= 1
    <3>1. CASE Live = {}
      BY <3>1, FS_EmptySet
    <3>2. ASSUME NEW n \in Live
          PROVE  Cardinality(Live) <= 1
      <4>1. Live = {n}
        BY DEF ExecInv, OwnsTheRow
      <4> QED
        BY <4>1, FS_Singleton
    <3> QED
      BY <3>1, <3>2
  <2> QED
    BY <2>1, <2>2 DEF NeverTwoExecutors
<1> QED
  BY ExecInvariant, <1>1, PTL

\* deliver gives every call a positive time of at most MaxDeliveryTimeout, the
\* job's own when it asks for one a Duration can hold, whatever the job and the
\* environment ask for (riverquene.go:328-334).
THEOREM CallsAreBounded == Spec => []GivenTheTimeAsked
<1>1. ExecInv => GivenTheTimeAsked
  <2> SUFFICES ASSUME ExecInv, NEW n \in Live,
                      live[n].phase = "deliver", live[n].given # 0
               PROVE  LET asked == live[n].asked * Second IN
                      /\ live[n].given \in 1..MaxDeliveryTimeout
                      /\ asked \in 1..(Half - 1) =>
                             live[n].given = Min({asked, MaxDeliveryTimeout})
    BY DEF GivenTheTimeAsked
  <2>1. live[n].asked \in AskedTimeouts /\ live[n].given = Timeout(live[n].asked)
    BY DEF ExecInv, GivenByTimeout
  <2> QED
    BY <2>1, TimeoutFacts
<1> QED
  BY ExecInvariant, <1>1, PTL

\* No record outlives its TTL by more than the retention of River's completed
\* rows, one interval of the periodic insert and the lag of the prune job's run,
\* whatever the TTL and the interval (pruneWorker, NewRiver's periodic job).
THEOREM HistoryIsPruned == Spec => []PrunedInTheEnd
<1>1. ExecInv => PrunedInTheEnd
  BY TypesAssumption DEF ExecInv, ExecType, NotOverdue, PrunedInTheEnd
<1> QED
  BY ExecInvariant, <1>1, PTL
=============================================================================
