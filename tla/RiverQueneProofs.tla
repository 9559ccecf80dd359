-------------------------- MODULE RiverQueneProofs --------------------------
(***************************************************************************)
(* Proofs about RiverQuene, for every set of jobs, groups, slots and times *)
(* and every choice of faults: the types; at most one armed occurrence of  *)
(* a job, with the definition's next fire, and an active job never without *)
(* one; what guaDeliverWorker.Work may rely on; and RiverQuene implements  *)
(* JobStore through the mapping of RiverQueneStore.                        *)
(***************************************************************************)
EXTENDS RiverQueneStore, TLAPS

-----------------------------------------------------------------------------
(* Type correctness *)

\* What TypeOK needs to be inductive: an occurrence that waits has an attempt
\* left and no executor, an executor has a row, and Work has a definition while
\* it delivers and settles.
Consistent ==
    /\ \A o \in Slots : ~IsRow(o) => work[o] = Idle /\ o \notin acked
    /\ \A o \in Slots : Pending(o) => work[o] = Idle /\ ~LastAttempt(o)
    /\ \A o \in Slots : At(o, "deliver") \/ At(o, "settle") => work[o].def \in Def

TypeInv == TypeOK /\ Consistent

USE DEF PlanTimes, PendingStates

\* A new occurrence is a pending row with no attempt made.
LEMMA OccurrenceType ==
    ASSUME NEW j \in Jobs, NEW g \in Groups, NEW at \in PlanTimes
    PROVE  /\ Occurrence(j, g, at) \in Row
           /\ Occurrence(j, g, at).state \in PendingStates
           /\ Occurrence(j, g, at).job = j
           /\ Occurrence(j, g, at).group = g
           /\ Occurrence(j, g, at).plan = at
           /\ Occurrence(j, g, at).attempt = 0
BY MaxAttemptsAssumption DEF Occurrence, Row

\* The initial states are consistent.
LEMMA InitType == Init => TypeInv
<1> SUFFICES ASSUME Init PROVE TypeInv
  OBVIOUS
<1> DEFINE empty == /\ gua_groups = {}
                    /\ gua_jobs = [j \in Jobs |-> NoJob]
                    /\ river_job = [o \in Slots |-> NoRow]
<1>1. CASE empty
  BY <1>1 DEF Init, TypeInv, TypeOK, Consistent, IsRow, Pending, At, JobRow, Exec, Row
<1>2. CASE ~empty
  <2>1. PICK g \in Groups, j \in Jobs, n \in Names, u \in Urls, at \in Times, o \in Slots :
                /\ gua_groups = {g}
                /\ gua_jobs = [i \in Jobs |->
                       IF i = j THEN [group |-> g, name |-> n, url |-> u,
                                      pattern |-> "bad", exectime |-> at, active |-> TRUE]
                       ELSE NoJob]
                /\ river_job = [p \in Slots |->
                       IF p = o THEN Occurrence(j, g, at) ELSE NoRow]
    BY <1>2 DEF Init
  <2>2. "bad" \in Patterns
    BY <1>2 DEF Init
  <2>3. gua_jobs \in [Jobs -> JobRow \cup {NoJob}]
    BY <2>1, <2>2 DEF JobRow
  <2>4. river_job \in [Slots -> Row \cup {NoRow}]
    BY <2>1, OccurrenceType
  <2>5. Consistent
    BY <2>1, OccurrenceType, MaxAttemptsAssumption, NoRowAssumption
       DEF Init, Consistent, IsRow, Pending, At, LastAttempt, Row
  <2> QED
    BY <2>1, <2>3, <2>4, <2>5 DEF Init, TypeInv, TypeOK
<1> QED BY <1>1, <1>2

\* Changing a field of a definition keeps it a definition.
LEMMA JobRowType ==
    ASSUME NEW r \in JobRow
    PROVE  /\ \A u \in Urls : [r EXCEPT !.url = u] \in JobRow
           /\ \A b \in BOOLEAN : [r EXCEPT !.active = b] \in JobRow
           /\ \A at \in PlanTimes : [r EXCEPT !.exectime = at] \in JobRow
           /\ \A at \in PlanTimes : [r EXCEPT !.active = TRUE, !.exectime = at] \in JobRow
BY DEF JobRow

\* The fields of a run of Work.
LEMMA ExecType ==
    ASSUME NEW e \in Exec
    PROVE  /\ [e EXCEPT !.cancelled = TRUE] \in Exec
           /\ \A d \in Def : [e EXCEPT !.pc = "deliver", !.def = d] \in Exec
           /\ \A r \in {"ok", "err"} : [e EXCEPT !.pc = "settle", !.res = r] \in Exec
BY DEF Exec

\* The record of a Work that has returned.
LEMMA ReturnType ==
    ASSUME NEW r \in {"ok", "err"}
    PROVE  [pc |-> "report", def |-> NoJob, res |-> r, cancelled |-> FALSE] \in Exec
BY DEF Exec

\* The record of a Work that starts.
LEMMA StartType == [pc |-> "load", def |-> NoJob, res |-> "ok", cancelled |-> FALSE] \in Exec
BY DEF Exec

\* Pausing neither creates nor drops a definition.
LEMMA DeactivatedType ==
    ASSUME TypeOK, NEW j \in Jobs
    PROVE  /\ Deactivated(j) \in [Jobs -> JobRow \cup {NoJob}]
           /\ \A i \in Jobs : gua_jobs[i] = NoJob <=> Deactivated(j)[i] = NoJob
<1>1. CASE gua_jobs[j] = NoJob
  BY <1>1 DEF TypeOK, Deactivated
<1>2. CASE gua_jobs[j] # NoJob
  <2>1. gua_jobs[j] \in JobRow
    BY <1>2 DEF TypeOK
  <2>2. [gua_jobs[j] EXCEPT !.active = FALSE] \in JobRow
    BY <2>1, JobRowType
  <2> QED
    BY <1>2, <2>2, NoJobAssumption DEF TypeOK, Deactivated
<1> QED BY <1>1, <1>2

\* Work returning touches its own executor only.
LEMMA ReturnKeeps ==
    ASSUME TypeInv, NEW o \in Slots, NEW r \in {"ok", "err"}, Return(o, r),
           IsRow(o), ~Pending(o), UNCHANGED <<river_job, acked>>
    PROVE  work' \in [Slots -> Exec \cup {Idle}] /\ Consistent'
<1>1. PICK e \in Exec : e.pc = "report" /\ work' = [work EXCEPT ![o] = e]
  BY ReturnType DEF Return
<1>2. work' \in [Slots -> Exec \cup {Idle}]
  BY <1>1 DEF TypeInv, TypeOK
<1>3. Consistent'
  BY <1>1 DEF TypeInv, TypeOK, Consistent, IsRow, Pending, At, LastAttempt
<1> QED BY <1>2, <1>3

\* A claimed row had an attempt left.
LEMMA ClaimedType ==
    ASSUME TypeInv, NEW o \in Slots, JobGetAvailable(o)
    PROVE  Claimed(river_job[o]) \in Row /\ Claimed(river_job[o]).state = "running"
<1>1. river_job[o] \in Row /\ Pending(o)
  BY DEF JobGetAvailable, TypeInv, TypeOK, IsRow, Pending
<1>2. ~LastAttempt(o)
  BY <1>1 DEF TypeInv, Consistent
<1>3. river_job[o].attempt + 1 \in 0..MaxAttempts
  BY <1>1, <1>2, MaxAttemptsAssumption DEF LastAttempt, Row
<1> QED
  BY <1>1, <1>3 DEF Claimed, Row

\* Every step keeps the types.
LEMMA NextType == TypeInv /\ [Next]_vars => TypeInv'
<1> SUFFICES ASSUME TypeInv, [Next]_vars PROVE TypeInv'
  OBVIOUS
<1>1. ASSUME NEW g \in Groups, RegisterGroup(g)
      PROVE  TypeInv'
  BY <1>1
     DEF TypeInv, TypeOK, Consistent, IsRow, Pending, At, LastAttempt, history,
         RegisterGroup
<1>2. ASSUME NEW g \in Groups, RemoveGroup(g)
      PROVE  TypeInv'
  BY <1>2
     DEF TypeInv, TypeOK, Consistent, IsRow, Pending, At, LastAttempt, Row,
         RemoveGroup, Without, AckedIn
<1>3. ASSUME NEW g \in Groups, NEW j \in Jobs, NEW n \in Names, NEW u \in Urls,
             NEW p \in Patterns, NEW at \in Times, Push(j, g, n, u, p, at)
      PROVE  TypeInv'
  BY <1>3, MaxAttemptsAssumption, NoRowAssumption, OccurrenceType
     DEF TypeInv, TypeOK, Consistent, IsRow, Pending, At, LastAttempt, Row, JobRow,
         Push, Rearmed, Free
<1>4. ASSUME NEW g \in Groups, NEW j \in Jobs, NEW u \in Urls, Edit(g, j, u)
      PROVE  TypeInv'
  <2>1. gua_jobs[j] \in JobRow
    BY <1>4 DEF Edit, Owns, TypeInv, TypeOK
  <2>2. gua_jobs' \in [Jobs -> JobRow \cup {NoJob}]
    BY <1>4, <2>1, JobRowType DEF Edit, TypeInv, TypeOK
  <2> QED
    BY <1>4, <2>2 DEF TypeInv, TypeOK, Consistent, IsRow, Pending, At, LastAttempt, Edit, history
<1>5. ASSUME NEW g \in Groups, NEW j \in Jobs, NEW at \in Times, Active(g, j, at)
      PROVE  TypeInv'
  <2>1. gua_jobs[j] \in JobRow
    BY <1>5 DEF Active, Owns, TypeInv, TypeOK
  <2>2. gua_jobs' \in [Jobs -> JobRow \cup {NoJob}]
    BY <1>5, <2>1, JobRowType DEF Active, TypeInv, TypeOK
  <2>3. PICK p \in Free : river_job' = [CancelOccurrencesTx(j) EXCEPT ![p] = Occurrence(j, g, at)]
    BY <1>5 DEF Active
  <2>4. river_job' \in [Slots -> Row \cup {NoRow}]
    BY <2>3, OccurrenceType DEF TypeInv, TypeOK, Free, CancelOccurrencesTx, Without
  <2>5. Consistent'
    BY <1>5, <2>3, OccurrenceType, MaxAttemptsAssumption, NoRowAssumption
       DEF TypeInv, TypeOK, Consistent, IsRow, Pending, At, LastAttempt, Row,
           Active, Free, CancelOccurrencesTx, Without, AckedIn
  <2> QED
    BY <1>5, <2>2, <2>4, <2>5 DEF TypeInv, TypeOK, Active, Rearmed, AckedIn
<1>6. ASSUME NEW g \in Groups, NEW j \in Jobs, Pause(g, j)
      PROVE  TypeInv'
  <2>1. gua_jobs[j] \in JobRow
    BY <1>6 DEF Pause, Owns, TypeInv, TypeOK
  <2>2. gua_jobs' \in [Jobs -> JobRow \cup {NoJob}]
    BY <1>6, <2>1, JobRowType DEF Pause, TypeInv, TypeOK
  <2> QED
    BY <1>6, <2>2, MaxAttemptsAssumption, NoRowAssumption
       DEF TypeInv, TypeOK, Consistent, IsRow, Pending, At, LastAttempt, Row,
           Pause, CancelOccurrencesTx, Without, AckedIn
<1>7. ASSUME NEW g \in Groups, NEW j \in Jobs, Delete(g, j)
      PROVE  TypeInv'
  BY <1>7
     DEF TypeInv, TypeOK, Consistent, IsRow, Pending, At, LastAttempt, Row,
         Delete, Owns, CancelOccurrencesTx, Without, AckedIn
<1>8. ASSUME NEW g \in Groups, NEW names \in SUBSET Names, DeleteJobs(g, names)
      PROVE  TypeInv'
  BY <1>8
     DEF TypeInv, TypeOK, Consistent, IsRow, Pending, At, LastAttempt, Row,
         DeleteJobs, Owns, Without, AckedIn
<1>9. ASSUME NEW o \in Slots, JobSchedule(o)
      PROVE  TypeInv'
  BY <1>9, MaxAttemptsAssumption, NoRowAssumption, IdleAssumption
     DEF TypeInv, TypeOK, Consistent, IsRow, Pending, At, LastAttempt, Row, history,
         JobSchedule, Due, Scheduled
<1>10. ASSUME NEW o \in Slots, JobGetAvailable(o)
      PROVE  TypeInv'
  <2>2. Claimed(river_job[o]) \in Row /\ Claimed(river_job[o]).state = "running"
    BY <1>10, ClaimedType
  <2>3. river_job' \in [Slots -> Row \cup {NoRow}] /\ work' \in [Slots -> Exec \cup {Idle}]
    BY <1>10, <2>2, StartType DEF JobGetAvailable, TypeInv, TypeOK
  <2>4. Consistent'
    BY <1>10, <2>2, NoRowAssumption, IdleAssumption, StartType
       DEF JobGetAvailable, TypeInv, TypeOK, Consistent, IsRow, Pending, At, LastAttempt, history
  <2> QED
    BY <1>10, <2>3, <2>4 DEF TypeInv, TypeOK, JobGetAvailable, history
<1>11. ASSUME NEW o \in Slots, LoadJob(o)
      PROVE  TypeInv'
  <2>1. work[o] \in Exec /\ IsRow(o) /\ JobOf(o) \in Jobs
    BY <1>11 DEF LoadJob, At, TypeInv, TypeOK, Consistent, IsRow, JobOf, Row
  <2>2. work' \in [Slots -> Exec \cup {Idle}] /\ Consistent'
    <3>1. CASE Return(o, "ok") \/ Return(o, "err")
      <4>1. UNCHANGED <<river_job, acked>> /\ ~Pending(o)
        BY <1>11 DEF LoadJob, tables, At, TypeInv, Consistent
      <4> QED
        BY <2>1, <3>1, <4>1, ReturnKeeps
    <3>2. CASE ~(Return(o, "ok") \/ Return(o, "err"))
      <4> DEFINE row == gua_jobs[JobOf(o)]
                 d == [group |-> row.group, url |-> row.url, pattern |-> row.pattern]
      <4>1. work' = [work EXCEPT ![o].pc = "deliver", ![o].def = d] /\ IsActive(JobOf(o))
        BY <1>11, <3>2 DEF LoadJob
      <4>2. row \in JobRow
        BY <2>1, <4>1 DEF IsActive, TypeInv, TypeOK
      <4>3. d \in Def
        BY <4>2 DEF JobRow, Def
      <4> HIDE DEF d
      <4>4. work' = [work EXCEPT ![o] = [work[o] EXCEPT !.pc = "deliver", !.def = d]]
        BY <4>1
      <4>5. [work[o] EXCEPT !.pc = "deliver", !.def = d] \in Exec
        BY <2>1, <4>3, ExecType
      <4>6. [work[o] EXCEPT !.pc = "deliver", !.def = d].def = d
        BY <2>1 DEF Exec
      <4> QED
        BY <1>11, <2>1, <4>3, <4>4, <4>5, <4>6
           DEF LoadJob, TypeInv, TypeOK, Consistent, IsRow, Pending, At, LastAttempt, tables
    <3> QED BY <3>1, <3>2
  <2> QED
    BY <1>11, <2>1, <2>2 DEF LoadJob, SeveredIfLast, TypeInv, TypeOK, tables
<1>12. ASSUME NEW o \in Slots, Deliver(o)
      PROVE  TypeInv'
  BY <1>12, IdleAssumption
     DEF TypeInv, TypeOK, Consistent, IsRow, Pending, At, LastAttempt, Row, Exec, tables,
         Deliver
<1>13. ASSUME NEW o \in Slots, RetryLater(o)
      PROVE  TypeInv'
  BY <1>13, IdleAssumption
     DEF TypeInv, TypeOK, Consistent, IsRow, Pending, At, LastAttempt, Row, Exec, tables, history,
         RetryLater, Return
<1>14. ASSUME NEW o \in Slots, PauseExhausted(o)
      PROVE  TypeInv'
  <2>1. work[o] \in Exec /\ IsRow(o) /\ JobOf(o) \in Jobs
    BY <1>14 DEF PauseExhausted, At, TypeInv, TypeOK, Consistent, IsRow, JobOf, Row
  <2>2. gua_jobs' \in [Jobs -> JobRow \cup {NoJob}] /\ severed' \in SUBSET Jobs
    BY <1>14, <2>1, DeactivatedType DEF PauseExhausted, SwallowingErrors, TypeInv, TypeOK
  <2> QED
    BY <1>14, <2>1, <2>2, ReturnType
       DEF PauseExhausted, Return, TypeInv, TypeOK, Consistent, IsRow, Pending, At, LastAttempt
<1>15. ASSUME NEW o \in Slots, DropOnce(o)
      PROVE  TypeInv'
  BY <1>15, MaxAttemptsAssumption, NoRowAssumption, IdleAssumption
     DEF TypeInv, TypeOK, Consistent, IsRow, Pending, At, LastAttempt, Row, Exec, JobOf,
         DropOnce, Return, SwallowingErrors
<1>16. ASSUME NEW o \in Slots, PauseBadPattern(o)
      PROVE  TypeInv'
  <2>1. work[o] \in Exec /\ IsRow(o) /\ JobOf(o) \in Jobs
    BY <1>16 DEF PauseBadPattern, At, TypeInv, TypeOK, Consistent, IsRow, JobOf, Row
  <2>2. gua_jobs' \in [Jobs -> JobRow \cup {NoJob}] /\ severed' \in SUBSET Jobs
    BY <1>16, <2>1, DeactivatedType DEF PauseBadPattern, SwallowingErrors, TypeInv, TypeOK
  <2> QED
    BY <1>16, <2>1, <2>2, ReturnType
       DEF PauseBadPattern, Return, TypeInv, TypeOK, Consistent, IsRow, Pending, At, LastAttempt
<1>17. ASSUME NEW o \in Slots, ScheduleNext(o)
      PROVE  TypeInv'
  <2>1. work[o] \in Exec /\ work[o].def \in Def /\ IsRow(o) /\ JobOf(o) \in Jobs
    BY <1>17 DEF ScheduleNext, At, TypeInv, TypeOK, Consistent, IsRow, JobOf, Row
  <2>2. work' \in [Slots -> Exec \cup {Idle}] /\ \E r \in {"ok", "err"} : Return(o, r)
    BY <1>17, ReturnType DEF ScheduleNext, Return, TypeInv, TypeOK
  <2>3. CASE UNCHANGED <<gua_jobs, river_job>>
    BY <1>17, <2>1, <2>2, <2>3, ReturnType
       DEF ScheduleNext, SeveredIfLast, Return, TypeInv, TypeOK, Consistent, IsRow, Pending, At, LastAttempt
  <2>4. ASSUME NEW next \in NextTimes(work[o].def.pattern), ScheduleNextTx(o, next)
        PROVE  TypeInv'
    <3>1. next \in PlanTimes /\ work[o].def.group \in Groups
      BY <2>1, <2>4 DEF NextTimes, Def
    <3>2. gua_jobs[JobOf(o)] \in JobRow
      BY <2>1, <2>4 DEF ScheduleNextTx, IsActive, TypeInv, TypeOK
    <3>3. gua_jobs' \in [Jobs -> JobRow \cup {NoJob}]
      BY <2>1, <2>4, <3>1, <3>2, JobRowType DEF ScheduleNextTx, TypeInv, TypeOK
    <3>4. PICK p \in Free : river_job' = [river_job EXCEPT ![p] =
                                Occurrence(JobOf(o), work[o].def.group, next)]
      BY <2>4 DEF ScheduleNextTx
    <3>5. river_job' \in [Slots -> Row \cup {NoRow}]
      BY <2>1, <3>1, <3>4, OccurrenceType DEF TypeInv, TypeOK, Free
    <3>6. Consistent'
      BY <1>17, <2>1, <2>2, <3>1, <3>4, OccurrenceType, ReturnType,
         MaxAttemptsAssumption, NoRowAssumption
         DEF ScheduleNext, Return, Free, TypeInv, TypeOK, Consistent, IsRow, Pending, At, LastAttempt, Row
    <3> QED
      BY <1>17, <2>1, <2>2, <3>3, <3>5, <3>6
         DEF ScheduleNext, SeveredIfLast, TypeInv, TypeOK
  <2> QED
    BY <1>17, <2>3, <2>4 DEF ScheduleNext
<1>18. ASSUME NEW o \in Slots, Complete(o)
      PROVE  TypeInv'
  BY <1>18, MaxAttemptsAssumption, NoRowAssumption, IdleAssumption
     DEF TypeInv, TypeOK, Consistent, IsRow, Pending, At, LastAttempt, Row,
         Complete, SetErrored, RetriesLeft, AckedIn
<1>19. ASSUME NEW o \in Slots, CancelWork(o)
      PROVE  TypeInv'
  <2>1. work[o] \in Exec /\ work' = [work EXCEPT ![o] = [work[o] EXCEPT !.cancelled = TRUE]]
    BY <1>19 DEF CancelWork, At, TypeInv, TypeOK
  <2>2. /\ [work[o] EXCEPT !.cancelled = TRUE] \in Exec
        /\ [work[o] EXCEPT !.cancelled = TRUE].pc = work[o].pc
        /\ [work[o] EXCEPT !.cancelled = TRUE].def = work[o].def
    BY <2>1, ExecType DEF Exec
  <2> QED
    BY <1>19, <2>1, <2>2
       DEF CancelWork, TypeInv, TypeOK, Consistent, IsRow, Pending, At, LastAttempt, tables, history
<1>20. ASSUME NEW o \in Slots, LoseExecutor(o)
      PROVE  TypeInv'
  BY <1>20, MaxAttemptsAssumption, NoRowAssumption, IdleAssumption
     DEF TypeInv, TypeOK, Consistent, IsRow, Pending, At, LastAttempt, Row, JobOf, tables,
         LoseExecutor
<1>21. ASSUME NEW o \in Slots, JobRescue(o)
      PROVE  TypeInv'
  BY <1>21, MaxAttemptsAssumption, NoRowAssumption, IdleAssumption
     DEF TypeInv, TypeOK, Consistent, IsRow, Pending, At, LastAttempt, Row,
         JobRescue, Running, Rescued, AckedIn
<1>22. CASE UNCHANGED vars
  BY <1>22 DEF vars, TypeInv, TypeOK, Consistent, IsRow, Pending, At, LastAttempt, Row
<1> QED
  BY <1>1, <1>2, <1>3, <1>4, <1>5, <1>6, <1>7, <1>8, <1>9, <1>10, <1>11,
     <1>12, <1>13, <1>14, <1>15, <1>16, <1>17, <1>18, <1>19, <1>20, <1>21,
     <1>22
     DEF Next, ClientStep, GroupStep, JobStep, QueueStep, WorkStep, FaultStep

-----------------------------------------------------------------------------
(* How a step changes the armed occurrences *)

\* The slot holds the same firing before and after.
SameFiring(x) ==
    /\ IsRow(x) /\ IsRow(x)'
    /\ river_job'[x].job = river_job[x].job
    /\ river_job'[x].group = river_job[x].group
    /\ river_job'[x].plan = river_job[x].plan

\* A definition there after the step was there before it, with the same plan,
\* and is active only if it was.
JobsKept ==
    \A i \in Jobs : gua_jobs'[i] # NoJob =>
        /\ gua_jobs[i] # NoJob
        /\ gua_jobs'[i].exectime = gua_jobs[i].exectime
        /\ gua_jobs'[i].pattern = gua_jobs[i].pattern
        /\ gua_jobs'[i].group = gua_jobs[i].group
        /\ gua_jobs'[i].active => gua_jobs[i].active

\* A step inserts nothing and defines nothing: an occurrence armed after it was
\* armed before it, unless the job is known to be forked.
Quiet ==
    /\ \A x \in Slots : Armed(x)' => SameFiring(x) /\ (Armed(x) \/ JobOf(x) \in forked')
    /\ forked \subseteq forked'
    /\ JobsKept

\* An untouched slot stays as armed as it was.
LEMMA ArmedFrame ==
    ASSUME NEW x \in Slots, river_job'[x] = river_job[x], work'[x] = work[x]
    PROVE  (Armed(x)' <=> Armed(x)) /\ (Armed(x) => SameFiring(x)) /\ JobOf(x)' = JobOf(x)
BY DEF Armed, IsRow, At, LastAttempt, JobOf, SameFiring

\* Cancelling rows arms nothing.
LEMMA CancelQuiet ==
    ASSUME TypeInv, NEW S, UNCHANGED <<work, forked>>,
           river_job' = Without({x \in Slots : Pending(x) /\ x \in S}),
           JobsKept
    PROVE  Quiet
<1>1. ASSUME NEW x \in Slots, Armed(x)'
      PROVE  SameFiring(x) /\ Armed(x)
  <2>1. river_job'[x] = river_job[x]
    BY <1>1 DEF Without, Armed, IsRow
  <2> QED BY <1>1, <2>1, ArmedFrame
<1> QED BY <1>1 DEF Quiet

\* The steps that insert an occurrence.
InsertStep ==
    \/ \E g \in Groups, j \in Jobs, n \in Names, u \in Urls, p \in Patterns, at \in Times :
           Push(j, g, n, u, p, at)
    \/ \E g \in Groups, j \in Jobs, at \in Times : Active(g, j, at)
    \/ \E o \in Slots : /\ ScheduleNext(o)
                        /\ \E next \in NextTimes(work[o].def.pattern) : ScheduleNextTx(o, next)

\* Pausing changes nothing of a definition but `active`.
LEMMA DeactivatedKeeps ==
    ASSUME TypeInv, NEW j \in Jobs
    PROVE  \A i \in Jobs : Deactivated(j)[i] # NoJob =>
               /\ gua_jobs[i] # NoJob
               /\ Deactivated(j)[i].exectime = gua_jobs[i].exectime
               /\ Deactivated(j)[i].pattern = gua_jobs[i].pattern
               /\ Deactivated(j)[i].group = gua_jobs[i].group
               /\ Deactivated(j)[i].active => gua_jobs[i].active
<1>1. CASE gua_jobs[j] = NoJob
  BY <1>1 DEF Deactivated
<1>2. CASE gua_jobs[j] # NoJob
  <2>1. gua_jobs[j] \in JobRow
    BY <1>2 DEF TypeInv, TypeOK
  <2>2. /\ [gua_jobs[j] EXCEPT !.active = FALSE].exectime = gua_jobs[j].exectime
        /\ [gua_jobs[j] EXCEPT !.active = FALSE].pattern = gua_jobs[j].pattern
        /\ [gua_jobs[j] EXCEPT !.active = FALSE].group = gua_jobs[j].group
        /\ [gua_jobs[j] EXCEPT !.active = FALSE].active = FALSE
    BY <2>1 DEF JobRow
  <2> QED BY <1>2, <2>2 DEF Deactivated, TypeInv, TypeOK
<1> QED BY <1>1, <1>2

\* A step that inserts no occurrence is quiet.
LEMMA StepShape == TypeInv /\ [Next]_vars => InsertStep \/ Quiet
<1> SUFFICES ASSUME TypeInv, [Next]_vars PROVE InsertStep \/ Quiet
  OBVIOUS
<1>1. ASSUME NEW g \in Groups, RegisterGroup(g)
      PROVE  InsertStep \/ Quiet
  <2>1. UNCHANGED <<gua_jobs, river_job, work, forked>>
    BY <1>1 DEF RegisterGroup, history
  <2> QED BY <2>1, ArmedFrame DEF Quiet, JobsKept
<1>2. ASSUME NEW g \in Groups, RemoveGroup(g)
      PROVE  InsertStep \/ Quiet
  <2>1. river_job' = Without({x \in Slots : Pending(x) /\ x \in {y \in Slots : river_job[y].group = g}})
    <3>1. {x \in Slots : Pending(x) /\ x \in {y \in Slots : river_job[y].group = g}}
            = {x \in Slots : Pending(x) /\ river_job[x].group = g}
      OBVIOUS
    <3> QED BY <1>2, <3>1 DEF RemoveGroup
  <2>2. JobsKept
    BY <1>2 DEF RemoveGroup, JobsKept, Owns, TypeInv, TypeOK
  <2> QED BY <1>2, <2>1, <2>2, CancelQuiet DEF RemoveGroup
<1>3. ASSUME NEW g \in Groups, NEW j \in Jobs, NEW n \in Names, NEW u \in Urls,
             NEW p \in Patterns, NEW at \in Times, Push(j, g, n, u, p, at)
      PROVE  InsertStep \/ Quiet
  BY <1>3 DEF InsertStep
<1>4. ASSUME NEW g \in Groups, NEW j \in Jobs, NEW u \in Urls, Edit(g, j, u)
      PROVE  InsertStep \/ Quiet
  <2>1. JobsKept
    <3>1. gua_jobs[j] \in JobRow
      BY <1>4 DEF Edit, Owns, TypeInv, TypeOK
    <3>2. /\ [gua_jobs[j] EXCEPT !.url = u] \in JobRow
          /\ gua_jobs' = [gua_jobs EXCEPT ![j] = [gua_jobs[j] EXCEPT !.url = u]]
      BY <1>4, <3>1, JobRowType DEF Edit
    <3>3. /\ [gua_jobs[j] EXCEPT !.url = u].exectime = gua_jobs[j].exectime
          /\ [gua_jobs[j] EXCEPT !.url = u].pattern = gua_jobs[j].pattern
          /\ [gua_jobs[j] EXCEPT !.url = u].group = gua_jobs[j].group
          /\ [gua_jobs[j] EXCEPT !.url = u].active => gua_jobs[j].active
      BY <3>1 DEF JobRow
    <3> QED BY <3>1, <3>2, <3>3, NoJobAssumption DEF JobsKept, TypeInv, TypeOK
  <2>2. UNCHANGED <<river_job, work, forked>>
    BY <1>4 DEF Edit, history
  <2> QED BY <2>1, <2>2, ArmedFrame DEF Quiet
<1>5. ASSUME NEW g \in Groups, NEW j \in Jobs, NEW at \in Times, Active(g, j, at)
      PROVE  InsertStep \/ Quiet
  BY <1>5 DEF InsertStep
<1>6. ASSUME NEW g \in Groups, NEW j \in Jobs, Pause(g, j)
      PROVE  InsertStep \/ Quiet
  <2>1. river_job' = Without({x \in Slots : Pending(x) /\ x \in {y \in Slots : JobOf(y) = j}})
    <3>1. {x \in Slots : Pending(x) /\ x \in {y \in Slots : JobOf(y) = j}}
            = {x \in Slots : Pending(x) /\ JobOf(x) = j}
      OBVIOUS
    <3> QED BY <1>6, <3>1 DEF Pause, CancelOccurrencesTx
  <2>2. JobsKept
    <3>1. gua_jobs[j] \in JobRow
      BY <1>6 DEF Pause, Owns, TypeInv, TypeOK
    <3>2. /\ [gua_jobs[j] EXCEPT !.active = FALSE] \in JobRow
          /\ gua_jobs' = [gua_jobs EXCEPT ![j] = [gua_jobs[j] EXCEPT !.active = FALSE]]
      BY <1>6, <3>1, JobRowType DEF Pause
    <3>3. /\ [gua_jobs[j] EXCEPT !.active = FALSE].exectime = gua_jobs[j].exectime
          /\ [gua_jobs[j] EXCEPT !.active = FALSE].pattern = gua_jobs[j].pattern
          /\ [gua_jobs[j] EXCEPT !.active = FALSE].group = gua_jobs[j].group
          /\ [gua_jobs[j] EXCEPT !.active = FALSE].active => gua_jobs[j].active
      BY <3>1 DEF JobRow
    <3> QED BY <3>1, <3>2, <3>3, NoJobAssumption DEF JobsKept, TypeInv, TypeOK
  <2> QED BY <1>6, <2>1, <2>2, CancelQuiet DEF Pause
<1>7. ASSUME NEW g \in Groups, NEW j \in Jobs, Delete(g, j)
      PROVE  InsertStep \/ Quiet
  <2>1. river_job' = Without({x \in Slots : Pending(x) /\ x \in {y \in Slots : JobOf(y) = j}})
    <3>1. {x \in Slots : Pending(x) /\ x \in {y \in Slots : JobOf(y) = j}}
            = {x \in Slots : Pending(x) /\ JobOf(x) = j}
      OBVIOUS
    <3> QED BY <1>7, <3>1 DEF Delete, CancelOccurrencesTx
  <2>2. JobsKept
    BY <1>7 DEF Delete, JobsKept, Owns, TypeInv, TypeOK
  <2> QED BY <1>7, <2>1, <2>2, CancelQuiet DEF Delete
<1>8. ASSUME NEW g \in Groups, NEW names \in SUBSET Names, DeleteJobs(g, names)
      PROVE  InsertStep \/ Quiet
  <2> DEFINE del == {j \in Jobs : Owns(g, j) /\ gua_jobs[j].name \in names}
  <2>1. river_job' = Without({x \in Slots : Pending(x) /\ x \in {y \in Slots : river_job[y].group = g /\ JobOf(y) \in del}})
    <3>1. {x \in Slots : Pending(x) /\ x \in {y \in Slots : river_job[y].group = g /\ JobOf(y) \in del}}
            = {x \in Slots : Pending(x) /\ river_job[x].group = g /\ JobOf(x) \in del}
      OBVIOUS
    <3> QED BY <1>8, <3>1 DEF DeleteJobs
  <2>2. JobsKept
    BY <1>8 DEF DeleteJobs, JobsKept, Owns, TypeInv, TypeOK
  <2> QED BY <1>8, <2>1, <2>2, CancelQuiet DEF DeleteJobs
<1>9. ASSUME NEW o \in Slots, JobSchedule(o)
      PROVE  InsertStep \/ Quiet
  <2>1. \A x \in Slots : x # o => river_job'[x] = river_job[x] /\ work'[x] = work[x]
    BY <1>9 DEF JobSchedule, Due, Scheduled, tables, TypeInv, TypeOK
  <2>2. Armed(o)' => SameFiring(o) /\ (Armed(o) \/ JobOf(o) \in forked')
    BY <1>9, NoRowAssumption, IdleAssumption, MaxAttemptsAssumption, ReturnType
       DEF JobSchedule, Due, Scheduled, tables, history, SameFiring, Armed,
           IsRow, Running, Pending, At, JobOf, LastAttempt, TypeInv, TypeOK, Consistent, Row, Exec
  <2>3. JobsKept
    BY <1>9 DEF JobSchedule, JobsKept, tables
  <2>4. forked \subseteq forked'
    BY <1>9 DEF JobSchedule, tables, history
  <2> QED BY <2>1, <2>2, <2>3, <2>4, ArmedFrame DEF Quiet
<1>10. ASSUME NEW o \in Slots, JobGetAvailable(o)
      PROVE  InsertStep \/ Quiet
  <2>1. \A x \in Slots : x # o => river_job'[x] = river_job[x] /\ work'[x] = work[x]
    BY <1>10 DEF JobGetAvailable, Claimed, tables, TypeInv, TypeOK
  <2>2. Armed(o)' => SameFiring(o) /\ (Armed(o) \/ JobOf(o) \in forked')
    BY <1>10, NoRowAssumption, IdleAssumption, MaxAttemptsAssumption, ReturnType
       DEF JobGetAvailable, Claimed, tables, history, SameFiring, Armed,
           IsRow, Running, Pending, At, JobOf, LastAttempt, TypeInv, TypeOK, Consistent, Row, Exec
  <2>3. JobsKept
    BY <1>10 DEF JobGetAvailable, JobsKept, tables
  <2>4. forked \subseteq forked'
    BY <1>10 DEF JobGetAvailable, tables, history
  <2> QED BY <2>1, <2>2, <2>3, <2>4, ArmedFrame DEF Quiet
<1>11. ASSUME NEW o \in Slots, LoadJob(o)
      PROVE  InsertStep \/ Quiet
  <2>1. \A x \in Slots : x # o => river_job'[x] = river_job[x] /\ work'[x] = work[x]
    BY <1>11 DEF LoadJob, Return, tables, TypeInv, TypeOK
  <2>2. Armed(o)' => SameFiring(o) /\ (Armed(o) \/ JobOf(o) \in forked')
    BY <1>11, NoRowAssumption, IdleAssumption, MaxAttemptsAssumption, ReturnType
       DEF LoadJob, Return, tables, history, SameFiring, Armed,
           IsRow, Running, Pending, At, JobOf, LastAttempt, TypeInv, TypeOK, Consistent, Row, Exec
  <2>3. JobsKept
    BY <1>11 DEF LoadJob, JobsKept, tables
  <2>4. forked \subseteq forked'
    BY <1>11 DEF LoadJob, tables, history
  <2> QED BY <2>1, <2>2, <2>3, <2>4, ArmedFrame DEF Quiet
<1>12. ASSUME NEW o \in Slots, Deliver(o)
      PROVE  InsertStep \/ Quiet
  <2>1. \A x \in Slots : x # o => river_job'[x] = river_job[x] /\ work'[x] = work[x]
    BY <1>12 DEF Deliver, tables, TypeInv, TypeOK
  <2>2. Armed(o)' => SameFiring(o) /\ (Armed(o) \/ JobOf(o) \in forked')
    BY <1>12, NoRowAssumption, IdleAssumption, MaxAttemptsAssumption, ReturnType
       DEF Deliver, tables, history, SameFiring, Armed,
           IsRow, Running, Pending, At, JobOf, LastAttempt, TypeInv, TypeOK, Consistent, Row, Exec
  <2>3. JobsKept
    BY <1>12 DEF Deliver, JobsKept, tables
  <2>4. forked \subseteq forked'
    BY <1>12 DEF Deliver, tables, history
  <2> QED BY <2>1, <2>2, <2>3, <2>4, ArmedFrame DEF Quiet
<1>13. ASSUME NEW o \in Slots, RetryLater(o)
      PROVE  InsertStep \/ Quiet
  <2>1. \A x \in Slots : x # o => river_job'[x] = river_job[x] /\ work'[x] = work[x]
    BY <1>13 DEF RetryLater, Return, tables, TypeInv, TypeOK
  <2>2. Armed(o)' => SameFiring(o) /\ (Armed(o) \/ JobOf(o) \in forked')
    BY <1>13, NoRowAssumption, IdleAssumption, MaxAttemptsAssumption, ReturnType
       DEF RetryLater, Return, tables, history, SameFiring, Armed,
           IsRow, Running, Pending, At, JobOf, LastAttempt, TypeInv, TypeOK, Consistent, Row, Exec
  <2>3. JobsKept
    BY <1>13 DEF RetryLater, JobsKept, tables
  <2>4. forked \subseteq forked'
    BY <1>13 DEF RetryLater, tables, history
  <2> QED BY <2>1, <2>2, <2>3, <2>4, ArmedFrame DEF Quiet
<1>14. ASSUME NEW o \in Slots, PauseExhausted(o)
      PROVE  InsertStep \/ Quiet
  <2>1. \A x \in Slots : x # o => river_job'[x] = river_job[x] /\ work'[x] = work[x]
    BY <1>14 DEF PauseExhausted, Return, tables, TypeInv, TypeOK
  <2>2. Armed(o)' => SameFiring(o) /\ (Armed(o) \/ JobOf(o) \in forked')
    BY <1>14, NoRowAssumption, IdleAssumption, MaxAttemptsAssumption, ReturnType
       DEF PauseExhausted, Return, tables, history, SameFiring, Armed,
           IsRow, Running, Pending, At, JobOf, LastAttempt, TypeInv, TypeOK, Consistent, Row, Exec
  <2>3. JobsKept
    BY <1>14, DeactivatedKeeps
       DEF PauseExhausted, JobsKept, SwallowingErrors, JobOf, IsRow, At,
           TypeInv, TypeOK, Consistent, Row
  <2>4. forked \subseteq forked'
    BY <1>14 DEF PauseExhausted, tables, history
  <2> QED BY <2>1, <2>2, <2>3, <2>4, ArmedFrame DEF Quiet
<1>15. ASSUME NEW o \in Slots, DropOnce(o)
      PROVE  InsertStep \/ Quiet
  <2>1. \A x \in Slots : x # o => river_job'[x] = river_job[x] /\ work'[x] = work[x]
    BY <1>15 DEF DropOnce, Return, tables, TypeInv, TypeOK
  <2>2. Armed(o)' => SameFiring(o) /\ (Armed(o) \/ JobOf(o) \in forked')
    BY <1>15, NoRowAssumption, IdleAssumption, MaxAttemptsAssumption, ReturnType
       DEF DropOnce, Return, tables, history, SameFiring, Armed,
           IsRow, Running, Pending, At, JobOf, LastAttempt, TypeInv, TypeOK, Consistent, Row, Exec
  <2>3. JobsKept
    BY <1>15 DEF DropOnce, JobsKept, SwallowingErrors, TypeInv, TypeOK
  <2>4. forked \subseteq forked'
    BY <1>15 DEF DropOnce, tables, history
  <2> QED BY <2>1, <2>2, <2>3, <2>4, ArmedFrame DEF Quiet
<1>16. ASSUME NEW o \in Slots, PauseBadPattern(o)
      PROVE  InsertStep \/ Quiet
  <2>1. \A x \in Slots : x # o => river_job'[x] = river_job[x] /\ work'[x] = work[x]
    BY <1>16 DEF PauseBadPattern, Return, tables, TypeInv, TypeOK
  <2>2. Armed(o)' => SameFiring(o) /\ (Armed(o) \/ JobOf(o) \in forked')
    BY <1>16, NoRowAssumption, IdleAssumption, MaxAttemptsAssumption, ReturnType
       DEF PauseBadPattern, Return, tables, history, SameFiring, Armed,
           IsRow, Running, Pending, At, JobOf, LastAttempt, TypeInv, TypeOK, Consistent, Row, Exec
  <2>3. JobsKept
    BY <1>16, DeactivatedKeeps
       DEF PauseBadPattern, JobsKept, SwallowingErrors, JobOf, IsRow, At,
           TypeInv, TypeOK, Consistent, Row
  <2>4. forked \subseteq forked'
    BY <1>16 DEF PauseBadPattern, tables, history
  <2> QED BY <2>1, <2>2, <2>3, <2>4, ArmedFrame DEF Quiet
<1>17. ASSUME NEW o \in Slots, ScheduleNext(o)
      PROVE  InsertStep \/ Quiet
  <2> SUFFICES ASSUME ~InsertStep PROVE Quiet
    OBVIOUS
  <2>0. UNCHANGED <<gua_jobs, river_job>>
    BY <1>17 DEF ScheduleNext, InsertStep
  <2>1. \A x \in Slots : x # o => river_job'[x] = river_job[x] /\ work'[x] = work[x]
    BY <1>17, <2>0 DEF ScheduleNext, Return, tables, TypeInv, TypeOK
  <2>2. Armed(o)' => SameFiring(o) /\ (Armed(o) \/ JobOf(o) \in forked')
    BY <1>17, <2>0, NoRowAssumption, IdleAssumption, MaxAttemptsAssumption, ReturnType
       DEF ScheduleNext, Return, tables, history, SameFiring, Armed,
           IsRow, Running, Pending, At, JobOf, LastAttempt, TypeInv, TypeOK, Consistent, Row, Exec
  <2>3. JobsKept
    BY <2>0 DEF JobsKept
  <2>4. forked \subseteq forked'
    BY <1>17, <2>0 DEF ScheduleNext, tables, history
  <2> QED BY <2>1, <2>2, <2>3, <2>4, ArmedFrame DEF Quiet
<1>18. ASSUME NEW o \in Slots, Complete(o)
      PROVE  InsertStep \/ Quiet
  <2>1. \A x \in Slots : x # o => river_job'[x] = river_job[x] /\ work'[x] = work[x]
    BY <1>18 DEF Complete, SetErrored, RetriesLeft, tables, TypeInv, TypeOK
  <2>2. Armed(o)' => SameFiring(o) /\ (Armed(o) \/ JobOf(o) \in forked')
    BY <1>18, NoRowAssumption, IdleAssumption, MaxAttemptsAssumption, ReturnType
       DEF Complete, SetErrored, RetriesLeft, tables, history, SameFiring, Armed,
           IsRow, Running, Pending, At, JobOf, LastAttempt, TypeInv, TypeOK, Consistent, Row, Exec
  <2>3. JobsKept
    BY <1>18 DEF Complete, JobsKept, tables
  <2>4. forked \subseteq forked'
    BY <1>18 DEF Complete, tables, history
  <2> QED BY <2>1, <2>2, <2>3, <2>4, ArmedFrame DEF Quiet
<1>19. ASSUME NEW o \in Slots, CancelWork(o)
      PROVE  InsertStep \/ Quiet
  <2>1. \A x \in Slots : x # o => river_job'[x] = river_job[x] /\ work'[x] = work[x]
    BY <1>19 DEF CancelWork, tables, TypeInv, TypeOK
  <2>2. Armed(o)' => SameFiring(o) /\ (Armed(o) \/ JobOf(o) \in forked')
    BY <1>19, NoRowAssumption, IdleAssumption, MaxAttemptsAssumption, ReturnType
       DEF CancelWork, tables, history, SameFiring, Armed,
           IsRow, Running, Pending, At, JobOf, LastAttempt, TypeInv, TypeOK, Consistent, Row, Exec
  <2>3. JobsKept
    BY <1>19 DEF CancelWork, JobsKept, tables
  <2>4. forked \subseteq forked'
    BY <1>19 DEF CancelWork, tables, history
  <2> QED BY <2>1, <2>2, <2>3, <2>4, ArmedFrame DEF Quiet
<1>20. ASSUME NEW o \in Slots, LoseExecutor(o)
      PROVE  InsertStep \/ Quiet
  <2>1. \A x \in Slots : x # o => river_job'[x] = river_job[x] /\ work'[x] = work[x]
    BY <1>20 DEF LoseExecutor, tables, TypeInv, TypeOK
  <2>2. Armed(o)' => SameFiring(o) /\ (Armed(o) \/ JobOf(o) \in forked')
    BY <1>20, NoRowAssumption, IdleAssumption, MaxAttemptsAssumption, ReturnType
       DEF LoseExecutor, tables, history, SameFiring, Armed,
           IsRow, Running, Pending, At, JobOf, LastAttempt, TypeInv, TypeOK, Consistent, Row, Exec
  <2>3. JobsKept
    BY <1>20 DEF LoseExecutor, JobsKept, tables
  <2>4. forked \subseteq forked'
    BY <1>20 DEF LoseExecutor, tables, history
  <2> QED BY <2>1, <2>2, <2>3, <2>4, ArmedFrame DEF Quiet
<1>21. ASSUME NEW o \in Slots, JobRescue(o)
      PROVE  InsertStep \/ Quiet
  <2>1. \A x \in Slots : x # o => river_job'[x] = river_job[x] /\ work'[x] = work[x]
    BY <1>21 DEF JobRescue, Rescued, tables, TypeInv, TypeOK
  <2>2. Armed(o)' => SameFiring(o) /\ (Armed(o) \/ JobOf(o) \in forked')
    BY <1>21, NoRowAssumption, IdleAssumption, MaxAttemptsAssumption, ReturnType
       DEF JobRescue, Rescued, tables, history, SameFiring, Armed,
           IsRow, Running, Pending, At, JobOf, LastAttempt, TypeInv, TypeOK, Consistent, Row, Exec
  <2>3. JobsKept
    BY <1>21 DEF JobRescue, JobsKept, tables
  <2>4. forked \subseteq forked'
    BY <1>21 DEF JobRescue, tables, history
  <2> QED BY <2>1, <2>2, <2>3, <2>4, ArmedFrame DEF Quiet
<1>22. CASE UNCHANGED vars
  <2>1. UNCHANGED <<gua_jobs, river_job, work, forked>>
    BY <1>22 DEF vars
  <2> QED BY <2>1, ArmedFrame DEF Quiet, JobsKept
<1> QED
  BY <1>1, <1>2, <1>3, <1>4, <1>5, <1>6, <1>7, <1>8, <1>9, <1>10, <1>11,
     <1>12, <1>13, <1>14, <1>15, <1>16, <1>17, <1>18, <1>19, <1>20, <1>21,
     <1>22
     DEF Next, ClientStep, GroupStep, JobStep, QueueStep, WorkStep, FaultStep

\* A step inserts an occurrence of j into slot p: no other slot becomes armed,
\* only j's definition and j's history change, and no other occurrence of j is
\* armed afterwards, unless j is known to be forked.
Inserts(p, j) ==
    /\ ~IsRow(p) /\ IsRow(p)'
    /\ river_job'[p].job = j
    /\ gua_jobs'[j] # NoJob
    /\ river_job'[p].plan = gua_jobs'[j].exectime
    /\ \A x \in Slots \ {p} : Armed(x)' => SameFiring(x) /\ Armed(x)
    /\ \A x \in Slots \ {p} : Armed(x)' /\ j \notin forked' => JobOf(x) # j
    /\ forked \ {j} \subseteq forked'
    /\ \A i \in Jobs \ {j} : gua_jobs'[i] = gua_jobs[i]

\* Push and Active insert one occurrence; the occurrences of the job that stay
\* armed are the ones Rearmed looks at.
LEMMA PushInserts ==
    ASSUME TypeInv, NEW g \in Groups, NEW j \in Jobs, NEW n \in Names, NEW u \in Urls,
           NEW pat \in Patterns, NEW at \in Times, Push(j, g, n, u, pat, at)
    PROVE  \E p \in Slots : Inserts(p, j)
<1>1. PICK p \in Free : river_job' = [river_job EXCEPT ![p] = Occurrence(j, g, at)]
  BY DEF Push
<1>2. p \in Slots /\ ~IsRow(p)
  BY <1>1 DEF Free, IsRow
<1>3. river_job'[p] = Occurrence(j, g, at) /\ Occurrence(j, g, at) # NoRow
  BY <1>1, <1>2, OccurrenceType, NoRowAssumption DEF TypeInv, TypeOK
<1>4. \A x \in Slots \ {p} : river_job'[x] = river_job[x] /\ work'[x] = work[x]
  BY <1>1, <1>2 DEF Push, TypeInv, TypeOK
<1>5. \A x \in Slots \ {p} : Armed(x)' => SameFiring(x) /\ Armed(x)
  BY <1>4, ArmedFrame
<1>6. \A x \in Slots \ {p} : Armed(x)' /\ j \notin forked' => JobOf(x) # j
  BY <1>5 DEF Push, Rearmed, ArmedOf
<1>7. gua_jobs'[j].exectime = at /\ gua_jobs'[j] # NoJob
  <2>1. gua_jobs'[j] = [group |-> g, name |-> n, url |-> u, pattern |-> pat,
                        exectime |-> at, active |-> TRUE]
    BY DEF Push, TypeInv, TypeOK
  <2>2. gua_jobs'[j] \in JobRow
    BY <2>1 DEF JobRow
  <2>3. gua_jobs'[j].exectime = at
    BY <2>1
  <2> QED BY <2>2, <2>3, NoJobAssumption
<1>8. \A i \in Jobs \ {j} : gua_jobs'[i] = gua_jobs[i]
  BY DEF Push, TypeInv, TypeOK
<1>9. forked \ {j} \subseteq forked'
  BY DEF Push, Rearmed
<1> QED
  BY <1>2, <1>3, <1>5, <1>6, <1>7, <1>8, <1>9, OccurrenceType DEF Inserts, IsRow

\* Active inserts one occurrence; only the rows being worked survive it.
LEMMA ActiveInserts ==
    ASSUME TypeInv, NEW g \in Groups, NEW j \in Jobs, NEW at \in Times, Active(g, j, at)
    PROVE  \E p \in Slots : Inserts(p, j)
<1>1. PICK p \in Free : river_job' = [CancelOccurrencesTx(j) EXCEPT ![p] = Occurrence(j, g, at)]
  BY DEF Active
<1>2. p \in Slots /\ ~IsRow(p)
  BY <1>1 DEF Free, IsRow
<1>3. river_job'[p] = Occurrence(j, g, at) /\ Occurrence(j, g, at) # NoRow
  BY <1>1, <1>2, OccurrenceType, NoRowAssumption DEF CancelOccurrencesTx, Without
<1>4. \A x \in Slots \ {p} :
          /\ work'[x] = work[x]
          /\ river_job'[x] = IF Pending(x) /\ JobOf(x) = j THEN NoRow ELSE river_job[x]
  BY <1>1, <1>2 DEF Active, CancelOccurrencesTx, Without
<1>5. ASSUME NEW x \in Slots \ {p}, Armed(x)'
      PROVE  SameFiring(x) /\ Armed(x) /\ ~(Pending(x) /\ JobOf(x) = j)
  <2>1. river_job'[x] # NoRow
    BY <1>5 DEF Armed, IsRow
  <2>2. ~(Pending(x) /\ JobOf(x) = j) /\ river_job'[x] = river_job[x]
    BY <1>4, <2>1
  <2> QED BY <1>4, <1>5, <2>2, ArmedFrame
<1>6. ASSUME NEW x \in Slots \ {p}, Armed(x)', j \notin forked'
      PROVE  JobOf(x) # j
  <2>1. ~\E y \in Slots : Armed(y) /\ JobOf(y) = j /\ Running(y)
    BY <1>6 DEF Active, Rearmed, ArmedOf
  <2>2. Armed(x) /\ ~(Pending(x) /\ JobOf(x) = j)
    BY <1>5, <1>6
  <2>3. Pending(x) \/ Running(x)
    BY <2>2 DEF Armed, Pending, Running, IsRow, TypeInv, TypeOK, Row
  <2> QED BY <2>1, <2>2, <2>3
<1>7. gua_jobs'[j].exectime = at /\ gua_jobs'[j] # NoJob
  <2>1. gua_jobs[j] \in JobRow
    BY DEF Active, Owns, TypeInv, TypeOK
  <2>2. gua_jobs'[j] = [gua_jobs[j] EXCEPT !.active = TRUE, !.exectime = at]
    BY DEF Active, TypeInv, TypeOK
  <2>3. gua_jobs'[j] \in JobRow
    <3>1. [gua_jobs[j] EXCEPT !.active = TRUE, !.exectime = at] \in JobRow
      BY <2>1 DEF JobRow
    <3> QED BY <2>2, <3>1
  <2>4. [gua_jobs[j] EXCEPT !.active = TRUE, !.exectime = at].exectime = at
    BY <2>1 DEF JobRow
  <2> QED BY <2>2, <2>3, <2>4, NoJobAssumption
<1>8. \A i \in Jobs \ {j} : gua_jobs'[i] = gua_jobs[i]
  BY DEF Active, TypeInv, TypeOK
<1>9. forked \ {j} \subseteq forked'
  BY DEF Active, Rearmed
<1> QED
  BY <1>2, <1>3, <1>5, <1>6, <1>7, <1>8, <1>9, OccurrenceType DEF Inserts, IsRow

\* scheduleNext hands the chain on: the occurrence it inserts is armed, the one
\* that inserted it no longer is.
LEMMA ScheduleInserts ==
    ASSUME TypeInv, AtMostOneArmed, NEW o \in Slots, ScheduleNext(o),
           NEW next \in NextTimes(work[o].def.pattern), ScheduleNextTx(o, next)
    PROVE  \E p \in Slots : Inserts(p, JobOf(o))
<1> DEFINE j == JobOf(o)
<1>1. PICK p \in Free : river_job' = [river_job EXCEPT ![p] =
                                          Occurrence(j, work[o].def.group, next)]
  BY DEF ScheduleNextTx
<1>2. p \in Slots /\ ~IsRow(p)
  BY <1>1 DEF Free, IsRow
<1>3. /\ IsRow(o) /\ work[o] \in Exec /\ work[o].def \in Def /\ work[o].pc = "settle"
      /\ j \in Jobs /\ o # p /\ next \in PlanTimes /\ work[o].def.group \in Groups
      /\ Armed(o)
  <2>1. IsRow(o) /\ work[o] \in Exec /\ work[o].def \in Def /\ work[o].pc = "settle"
    BY DEF ScheduleNext, At, TypeInv, TypeOK, Consistent
  <2> QED
    BY <1>2, <2>1 DEF ScheduleNext, Armed, At, JobOf, IsRow, NextTimes, Def, Row, TypeInv, TypeOK
<1>4. river_job'[p] = Occurrence(j, work[o].def.group, next)
      /\ Occurrence(j, work[o].def.group, next) # NoRow
  BY <1>1, <1>2, <1>3, OccurrenceType, NoRowAssumption DEF TypeInv, TypeOK
<1>5. \A x \in Slots \ {p, o} : river_job'[x] = river_job[x] /\ work'[x] = work[x]
  BY <1>1, <1>2 DEF ScheduleNext, Return, TypeInv, TypeOK
<1>6. river_job'[o] = river_job[o] /\ (Armed(o)' => j \in forked')
  <2>1. river_job'[o] = river_job[o]
    BY <1>1, <1>2, <1>3 DEF TypeInv, TypeOK
  <2>2. PICK r \in {"ok", "err"} : Return(o, r) /\ (r = "err" /\ ~LastAttempt(o) => j \in forked')
    BY NoRowAssumption, <1>2, <1>4 DEF ScheduleNext, IsRow
  <2>3. work'[o] = [pc |-> "report", def |-> NoJob, res |-> r, cancelled |-> FALSE]
    BY <2>2 DEF Return, TypeInv, TypeOK
  <2>4. work'[o].pc = "report" /\ work'[o].res = r
    BY <2>3
  <2>6. work'[o] # Idle
    <3>1. work'[o] \in Exec
      BY <2>3, ReturnType
    <3> QED BY <3>1, IdleAssumption
  <2>5. ~Pending(o)
    BY DEF ScheduleNext, At, TypeInv, Consistent
  <2> QED BY <2>1, <2>2, <2>4, <2>5, <2>6 DEF Armed, IsRow, Pending, At, LastAttempt
<1>7. \A x \in Slots \ {p} : Armed(x)' => SameFiring(x) /\ Armed(x)
  <2>1. SameFiring(o)
    BY <1>3, <1>6 DEF SameFiring, IsRow
  <2> QED BY <1>3, <1>5, <2>1, ArmedFrame
<1>8. forked \subseteq forked'
  BY DEF ScheduleNext
<1>9. ASSUME NEW x \in Slots \ {p}, Armed(x)', j \notin forked'
      PROVE  JobOf(x) # j
  <2>1. x # o /\ Armed(x) /\ j \notin forked
    BY <1>6, <1>7, <1>8, <1>9
  <2> QED BY <1>3, <2>1 DEF AtMostOneArmed
<1>10. gua_jobs'[j].exectime = next /\ gua_jobs'[j] # NoJob
  <2>1. gua_jobs[j] \in JobRow
    BY <1>3 DEF ScheduleNextTx, IsActive, TypeInv, TypeOK
  <2>2. gua_jobs'[j] = [gua_jobs[j] EXCEPT !.exectime = next]
    BY <1>3 DEF ScheduleNextTx, TypeInv, TypeOK
  <2>3. gua_jobs'[j] \in JobRow
    BY <1>3, <2>1, <2>2, JobRowType
  <2>4. [gua_jobs[j] EXCEPT !.exectime = next].exectime = next
    BY <2>1 DEF JobRow
  <2> QED BY <2>2, <2>3, <2>4, NoJobAssumption
<1>11. \A i \in Jobs \ {j} : gua_jobs'[i] = gua_jobs[i]
  BY <1>3 DEF ScheduleNextTx, TypeInv, TypeOK
<1> QED
  BY <1>2, <1>3, <1>4, <1>7, <1>8, <1>9, <1>10, <1>11, OccurrenceType DEF Inserts, IsRow

\* Every inserting step inserts one occurrence of one job.
LEMMA InsertShape ==
    ASSUME TypeInv, AtMostOneArmed, InsertStep
    PROVE  \E p \in Slots, j \in Jobs : Inserts(p, j)
<1>1. CASE \E g \in Groups, j \in Jobs, n \in Names, u \in Urls, p \in Patterns, at \in Times :
               Push(j, g, n, u, p, at)
  BY <1>1, PushInserts
<1>2. CASE \E g \in Groups, j \in Jobs, at \in Times : Active(g, j, at)
  BY <1>2, ActiveInserts
<1>3. CASE \E o \in Slots : /\ ScheduleNext(o)
                            /\ \E next \in NextTimes(work[o].def.pattern) : ScheduleNextTx(o, next)
  <2>1. PICK o \in Slots : /\ ScheduleNext(o)
                           /\ \E next \in NextTimes(work[o].def.pattern) : ScheduleNextTx(o, next)
    BY <1>3
  <2>2. JobOf(o) \in Jobs
    BY <2>1 DEF ScheduleNext, At, JobOf, IsRow, Row, TypeInv, TypeOK, Consistent
  <2> QED BY <2>1, <2>2, ScheduleInserts
<1> QED BY <1>1, <1>2, <1>3 DEF InsertStep

-----------------------------------------------------------------------------
(* One chain per job, and what exectime means *)

\* ExectimeIsNextFire also for paused jobs: a paused job keeps its exectime.
PlanIsExectime ==
    \A o \in Slots :
        Armed(o) /\ gua_jobs[JobOf(o)] # NoJob /\ JobOf(o) \notin forked
            => river_job[o].plan = gua_jobs[JobOf(o)].exectime

ChainInv == TypeInv /\ AtMostOneArmed /\ PlanIsExectime

\* An armed occurrence is one of a job.
LEMMA ArmedJob ==
    ASSUME TypeInv, NEW o \in Slots, Armed(o)
    PROVE  JobOf(o) \in Jobs
BY DEF Armed, IsRow, JobOf, Row, TypeInv, TypeOK

\* The initial states have one chain per job.
LEMMA InitChain == Init => ChainInv
<1> SUFFICES ASSUME Init PROVE ChainInv
  OBVIOUS
<1>1. TypeInv
  BY InitType
<1>2. CASE gua_jobs = [j \in Jobs |-> NoJob] /\ river_job = [o \in Slots |-> NoRow]
  BY <1>1, <1>2 DEF ChainInv, AtMostOneArmed, PlanIsExectime, Armed, IsRow
<1>3. CASE ~(gua_jobs = [j \in Jobs |-> NoJob] /\ river_job = [o \in Slots |-> NoRow])
  <2>1. PICK g \in Groups, j \in Jobs, n \in Names, u \in Urls, at \in Times, o \in Slots :
                /\ gua_jobs = [i \in Jobs |->
                       IF i = j THEN [group |-> g, name |-> n, url |-> u,
                                      pattern |-> "bad", exectime |-> at, active |-> TRUE]
                       ELSE NoJob]
                /\ river_job = [p \in Slots |->
                       IF p = o THEN Occurrence(j, g, at) ELSE NoRow]
    BY <1>3 DEF Init
  <2>2. \A x \in Slots : Armed(x) => x = o
    BY <2>1 DEF Armed, IsRow
  <2>3. river_job[o].plan = at /\ JobOf(o) = j
    BY <2>1, OccurrenceType DEF JobOf
  <2>4. gua_jobs[j].exectime = at
    BY <2>1
  <2> QED BY <1>1, <2>2, <2>3, <2>4 DEF ChainInv, AtMostOneArmed, PlanIsExectime
<1> QED BY <1>2, <1>3

\* A quiet step keeps the chain; an inserting step hands it on or starts it.
LEMMA NextChain == ChainInv /\ [Next]_vars => ChainInv'
<1> SUFFICES ASSUME ChainInv, [Next]_vars PROVE ChainInv'
  OBVIOUS
<1>1. TypeInv /\ TypeInv'
  BY NextType DEF ChainInv
<1>2. CASE Quiet
  <2>1. \A x \in Slots : Armed(x)' /\ JobOf(x)' \notin forked' =>
            SameFiring(x) /\ Armed(x) /\ JobOf(x)' = JobOf(x) /\ JobOf(x) \notin forked
    BY <1>2 DEF Quiet, SameFiring, JobOf
  <2>2. AtMostOneArmed'
    BY <2>1 DEF ChainInv, AtMostOneArmed
  <2>3. PlanIsExectime'
    <3> SUFFICES ASSUME NEW x \in Slots, Armed(x)', gua_jobs'[JobOf(x)'] # NoJob,
                        JobOf(x)' \notin forked'
                 PROVE  river_job'[x].plan = gua_jobs'[JobOf(x)'].exectime
      BY DEF PlanIsExectime
    <3>1. SameFiring(x) /\ Armed(x) /\ JobOf(x)' = JobOf(x) /\ JobOf(x) \notin forked
      BY <2>1
    <3>2. JobOf(x) \in Jobs
      BY <1>1, <3>1, ArmedJob
    <3>3. /\ gua_jobs[JobOf(x)] # NoJob
          /\ gua_jobs'[JobOf(x)].exectime = gua_jobs[JobOf(x)].exectime
      BY <1>2, <3>1, <3>2 DEF Quiet, JobsKept
    <3> QED BY <3>1, <3>3 DEF SameFiring, ChainInv, PlanIsExectime
  <2> QED BY <1>1, <2>2, <2>3 DEF ChainInv
<1>3. CASE InsertStep
  <2>1. PICK p \in Slots, j \in Jobs : Inserts(p, j)
    BY <1>3, InsertShape DEF ChainInv
  <2>2. \A x \in Slots \ {p} : Armed(x)' /\ JobOf(x)' \notin forked' =>
            /\ SameFiring(x) /\ Armed(x) /\ JobOf(x)' = JobOf(x)
            /\ JobOf(x) # j /\ JobOf(x) \notin forked
    BY <2>1 DEF Inserts, SameFiring, JobOf
  <2>3. JobOf(p)' = j
    BY <2>1 DEF Inserts, JobOf
  <2>4. AtMostOneArmed'
    BY <2>2, <2>3 DEF ChainInv, AtMostOneArmed
  <2>5. PlanIsExectime'
    <3> SUFFICES ASSUME NEW x \in Slots, Armed(x)', gua_jobs'[JobOf(x)'] # NoJob,
                        JobOf(x)' \notin forked'
                 PROVE  river_job'[x].plan = gua_jobs'[JobOf(x)'].exectime
      BY DEF PlanIsExectime
    <3>1. CASE x = p
      BY <2>1, <2>3, <3>1 DEF Inserts
    <3>2. CASE x # p
      <4>1. /\ SameFiring(x) /\ Armed(x) /\ JobOf(x)' = JobOf(x)
            /\ JobOf(x) # j /\ JobOf(x) \notin forked
        BY <2>2, <3>2
      <4>2. JobOf(x) \in Jobs
        BY <1>1, <4>1, ArmedJob
      <4>3. gua_jobs'[JobOf(x)] = gua_jobs[JobOf(x)]
        BY <2>1, <4>1, <4>2 DEF Inserts
      <4> QED BY <4>1, <4>3 DEF SameFiring, ChainInv, PlanIsExectime
    <3> QED BY <3>1, <3>2
  <2> QED BY <1>1, <2>4, <2>5 DEF ChainInv
<1> QED BY <1>1, <1>2, <1>3, StepShape

\* The chain invariant holds in every behaviour.
LEMMA ChainInvariant == Spec => []ChainInv
<1>1. Init => ChainInv
  BY InitChain
<1>2. ChainInv /\ [Next]_vars => ChainInv'
  BY NextChain
<1> QED BY <1>1, <1>2, PTL DEF Spec

\* Type correctness: in particular no occurrence of guaDeliverWorker is ever
\* attempted more than max_attempts times.
THEOREM TypeCorrect == Spec => []TypeOK
<1>1. ChainInv => TypeOK
  BY DEF ChainInv, TypeInv
<1> QED BY <1>1, ChainInvariant, PTL

\* One chain per job: two occurrences of a job that can both still fire or
\* schedule exist only after one of the three forks the code allows.
THEOREM OneChain == Spec => []AtMostOneArmed
<1>1. ChainInv => AtMostOneArmed
  BY DEF ChainInv
<1> QED BY <1>1, ChainInvariant, PTL

\* The exectime that List shows is the plan time of the occurrence to come.
THEOREM ExectimeCorrect == Spec => []ExectimeIsNextFire
<1>1. ChainInv => ExectimeIsNextFire
  BY DEF ChainInv, PlanIsExectime, ExectimeIsNextFire, IsActive
<1> QED BY <1>1, ChainInvariant, PTL

-----------------------------------------------------------------------------
(* An active job is alive *)

\* The occurrence that keeps j alive: armed, and carrying the group name of j's
\* definition, in its arguments and in what Work has loaded, so that RemoveGroup
\* and DeleteJobs cannot cancel it without deleting the definition, and the
\* occurrence it schedules is such a one again.
Witness(o, j) ==
    /\ Armed(o) /\ JobOf(o) = j
    /\ river_job[o].group = gua_jobs[j].group
    /\ At(o, "deliver") \/ At(o, "settle") => work[o].def.group = gua_jobs[j].group

AliveInv == \A j \in Jobs : IsActive(j) /\ j \notin severed => \E o \in Slots : Witness(o, j)

\* A witness whose slot is not touched stays one.
LEMMA WitnessFrame ==
    ASSUME NEW o \in Slots, NEW j \in Jobs, Witness(o, j), gua_jobs'[j].group = gua_jobs[j].group,
           river_job'[o] = river_job[o], work'[o] = work[o]
    PROVE  Witness(o, j)'
BY ArmedFrame DEF Witness, At

\* Where definitions are only kept, a job active after the step had a witness.
LEMMA WitnessBefore ==
    ASSUME AliveInv, JobsKept, severed \subseteq severed',
           NEW j \in Jobs, IsActive(j)', j \notin severed'
    PROVE  gua_jobs'[j].group = gua_jobs[j].group /\ IsActive(j) /\ \E x \in Slots : Witness(x, j)
BY DEF AliveInv, JobsKept, IsActive

\* A fresh occurrence with the definition's group is a witness.
LEMMA FreshWitness ==
    ASSUME NEW o \in Slots, NEW j \in Jobs, NEW g \in Groups, NEW at \in PlanTimes,
           river_job'[o] = Occurrence(j, g, at), work'[o] = Idle, gua_jobs'[j].group = g
    PROVE  Witness(o, j)'
<1>1. Occurrence(j, g, at) # NoRow
  BY OccurrenceType, NoRowAssumption
<1> QED BY <1>1, OccurrenceType DEF Witness, Armed, IsRow, JobOf, At

\* The only active job of an initial state has an occurrence waiting.
LEMMA InitAlive == Init => AliveInv
<1> SUFFICES ASSUME Init, NEW j \in Jobs, IsActive(j) PROVE \E o \in Slots : Witness(o, j)
  BY DEF AliveInv
<1>1. PICK g \in Groups, i \in Jobs, n \in Names, u \in Urls, at \in Times, o \in Slots :
                /\ gua_jobs = [k \in Jobs |->
                       IF k = i THEN [group |-> g, name |-> n, url |-> u,
                                      pattern |-> "bad", exectime |-> at, active |-> TRUE]
                       ELSE NoJob]
                /\ river_job = [p \in Slots |->
                       IF p = o THEN Occurrence(i, g, at) ELSE NoRow]
  BY DEF Init, IsActive
<1>2. i = j /\ gua_jobs[j].group = g
  BY <1>1 DEF IsActive
<1>3. river_job[o] = Occurrence(j, g, at) /\ work[o] = Idle
  BY <1>1, <1>2 DEF Init
<1>4. Occurrence(j, g, at) # NoRow
  BY OccurrenceType, NoRowAssumption
<1>5. Witness(o, j)
  BY <1>2, <1>3, <1>4, OccurrenceType DEF Witness, Armed, IsRow, JobOf, At
<1> QED BY <1>5

\* A deactivated job is not active.
LEMMA DeactivatedActive ==
    ASSUME TypeOK, NEW j \in Jobs
    PROVE  Deactivated(j)[j] = NoJob \/ Deactivated(j)[j].active = FALSE
<1>1. CASE gua_jobs[j] # NoJob
  <2>1. gua_jobs[j] \in JobRow
    BY <1>1 DEF TypeOK
  <2>2. [gua_jobs[j] EXCEPT !.active = FALSE].active = FALSE
    BY <2>1 DEF JobRow
  <2> QED BY <1>1, <2>2 DEF Deactivated, TypeOK
<1> QED BY <1>1 DEF Deactivated

\* A record of a returning Work is an executor.
LEMMA ReturnIsExec ==
    ASSUME NEW e, NEW r \in {"ok", "err"},
           e = [pc |-> "report", def |-> NoJob, res |-> r, cancelled |-> FALSE]
    PROVE  e # Idle /\ e.pc = "report" /\ e.res = r
<1>1. e \in Exec
  BY ReturnType
<1>2. e # Idle
  BY <1>1, IdleAssumption
<1>3. e.pc = "report" /\ e.res = r
  OBVIOUS
<1> QED BY <1>2, <1>3

\* scheduleNext's transaction always changes the table.
LEMMA ScheduleChanges ==
    ASSUME TypeInv, NEW o \in Slots, ScheduleNext(o),
           NEW next \in NextTimes(work[o].def.pattern), ScheduleNextTx(o, next)
    PROVE  river_job' # river_job
<1>1. PICK p \in Free : river_job' = [river_job EXCEPT ![p] =
                                          Occurrence(JobOf(o), work[o].def.group, next)]
  BY DEF ScheduleNextTx
<1>2. JobOf(o) \in Jobs /\ work[o].def.group \in Groups /\ next \in PlanTimes
  BY DEF ScheduleNext, At, JobOf, IsRow, NextTimes, Row, Def, TypeInv, TypeOK, Consistent
<1>3. river_job'[p] # NoRow
  BY <1>1, <1>2, OccurrenceType, NoRowAssumption DEF Free, TypeInv, TypeOK
<1> QED BY <1>1, <1>3 DEF Free

\* Every step hands the witness on, records that it was lost, or ends the job's activity.
LEMMA NextAlive == TypeInv /\ AliveInv /\ [Next]_vars => AliveInv'
<1> SUFFICES ASSUME TypeInv, AliveInv, [Next]_vars PROVE AliveInv'
  OBVIOUS
<1>1. ASSUME NEW g \in Groups, RegisterGroup(g)
      PROVE  AliveInv'
  <2> SUFFICES ASSUME NEW i \in Jobs, IsActive(i)', i \notin severed'
               PROVE  \E x \in Slots : Witness(x, i)'
    BY DEF AliveInv
  <2>1. JobsKept
    BY <1>1 DEF RegisterGroup, JobsKept
  <2>2. severed \subseteq severed'
    BY <1>1 DEF RegisterGroup, history
  <2>3. gua_jobs'[i].group = gua_jobs[i].group /\ IsActive(i)
    BY <2>1, <2>2, WitnessBefore
  <2>4. PICK x \in Slots : Witness(x, i)
    BY <2>1, <2>2, WitnessBefore
  <2>5. river_job'[x] = river_job[x] /\ work'[x] = work[x]
    BY <1>1 DEF RegisterGroup
  <2> QED BY <2>3, <2>4, <2>5, WitnessFrame
<1>2. ASSUME NEW g \in Groups, RemoveGroup(g)
      PROVE  AliveInv'
  <2> SUFFICES ASSUME NEW i \in Jobs, IsActive(i)', i \notin severed'
               PROVE  \E x \in Slots : Witness(x, i)'
    BY DEF AliveInv
  <2>1. JobsKept
    BY <1>2 DEF RemoveGroup, JobsKept, Owns, TypeInv, TypeOK, history
  <2>2. severed \subseteq severed'
    BY <1>2 DEF RemoveGroup, history
  <2>3. gua_jobs'[i].group = gua_jobs[i].group /\ IsActive(i)
    BY <2>1, <2>2, WitnessBefore
  <2>4. PICK x \in Slots : Witness(x, i)
    BY <2>1, <2>2, WitnessBefore
  <2>5. river_job'[x] = river_job[x] /\ work'[x] = work[x]
    BY <1>2, <2>3, <2>4 DEF RemoveGroup, Without, Witness, IsActive
  <2> QED BY <2>3, <2>4, <2>5, WitnessFrame
<1>3. ASSUME NEW g \in Groups, NEW j \in Jobs, NEW n \in Names, NEW u \in Urls,
             NEW p \in Patterns, NEW at \in Times, Push(j, g, n, u, p, at)
      PROVE  AliveInv'
  <2> SUFFICES ASSUME NEW i \in Jobs, IsActive(i)', i \notin severed'
               PROVE  \E x \in Slots : Witness(x, i)'
    BY DEF AliveInv
  <2>1. PICK q \in Free : river_job' = [river_job EXCEPT ![q] = Occurrence(j, g, at)]
    BY <1>3 DEF Push
  <2>2. q \in Slots /\ river_job'[q] = Occurrence(j, g, at) /\ work'[q] = Idle
    BY <1>3, <2>1 DEF Push, Free, CancelOccurrencesTx, Without, IsRow, TypeInv, TypeOK, Consistent
  <2>3. gua_jobs'[j].group = g
    <3>1. gua_jobs'[j] = [group |-> g, name |-> n, url |-> u, pattern |-> p,
                          exectime |-> at, active |-> TRUE]
      BY <1>3 DEF Push, TypeInv, TypeOK
    <3> QED BY <3>1
  <2>4. CASE i = j
    BY <2>2, <2>3, <2>4, FreshWitness
  <2>5. CASE i # j
    <3>1. gua_jobs'[i] = gua_jobs[i] /\ i \notin severed
      BY <1>3, <2>5 DEF Push, Rearmed, TypeInv, TypeOK
    <3>2. PICK x \in Slots : Witness(x, i)
      BY <3>1 DEF AliveInv, IsActive
    <3>3. river_job'[x] = river_job[x] /\ work'[x] = work[x]
      BY <1>3, <2>1, <2>5, <3>2
         DEF Push, Free, CancelOccurrencesTx, Without, Witness, Armed, IsRow, TypeInv, TypeOK
    <3> QED BY <3>1, <3>2, <3>3, WitnessFrame
  <2> QED BY <2>4, <2>5
<1>4. ASSUME NEW g \in Groups, NEW j \in Jobs, NEW u \in Urls, Edit(g, j, u)
      PROVE  AliveInv'
  <2> SUFFICES ASSUME NEW i \in Jobs, IsActive(i)', i \notin severed'
               PROVE  \E x \in Slots : Witness(x, i)'
    BY DEF AliveInv
  <2>1. JobsKept
    <3>1. gua_jobs[j] \in JobRow
      BY <1>4 DEF Edit, Owns, TypeInv, TypeOK
    <3>2. /\ [gua_jobs[j] EXCEPT !.url = u] \in JobRow
          /\ gua_jobs' = [gua_jobs EXCEPT ![j] = [gua_jobs[j] EXCEPT !.url = u]]
      BY <1>4, <3>1, JobRowType DEF Edit
    <3>3. /\ [gua_jobs[j] EXCEPT !.url = u].exectime = gua_jobs[j].exectime
          /\ [gua_jobs[j] EXCEPT !.url = u].pattern = gua_jobs[j].pattern
          /\ [gua_jobs[j] EXCEPT !.url = u].group = gua_jobs[j].group
          /\ [gua_jobs[j] EXCEPT !.url = u].active => gua_jobs[j].active
      BY <3>1 DEF JobRow
    <3> QED BY <3>1, <3>2, <3>3, NoJobAssumption DEF JobsKept, TypeInv, TypeOK
  <2>2. severed \subseteq severed'
    BY <1>4 DEF Edit, history
  <2>3. gua_jobs'[i].group = gua_jobs[i].group /\ IsActive(i)
    BY <2>1, <2>2, WitnessBefore
  <2>4. PICK x \in Slots : Witness(x, i)
    BY <2>1, <2>2, WitnessBefore
  <2>5. river_job'[x] = river_job[x] /\ work'[x] = work[x]
    BY <1>4 DEF Edit
  <2> QED BY <2>3, <2>4, <2>5, WitnessFrame
<1>5. ASSUME NEW g \in Groups, NEW j \in Jobs, NEW at \in Times, Active(g, j, at)
      PROVE  AliveInv'
  <2> SUFFICES ASSUME NEW i \in Jobs, IsActive(i)', i \notin severed'
               PROVE  \E x \in Slots : Witness(x, i)'
    BY DEF AliveInv
  <2>1. PICK p \in Free : river_job' = [CancelOccurrencesTx(j) EXCEPT ![p] = Occurrence(j, g, at)]
    BY <1>5 DEF Active
  <2>2. p \in Slots /\ river_job'[p] = Occurrence(j, g, at) /\ work'[p] = Idle
    BY <1>5, <2>1 DEF Active, Free, CancelOccurrencesTx, Without, IsRow, TypeInv, TypeOK, Consistent
  <2>3. gua_jobs'[j].group = g
    <3>1. gua_jobs[j] \in JobRow /\ gua_jobs[j].group = g
      BY <1>5 DEF Active, Owns, TypeInv, TypeOK
    <3>2. gua_jobs'[j] = [gua_jobs[j] EXCEPT !.active = TRUE, !.exectime = at]
      BY <1>5 DEF Active, TypeInv, TypeOK
    <3>3. [gua_jobs[j] EXCEPT !.active = TRUE, !.exectime = at].group = gua_jobs[j].group
      BY <3>1 DEF JobRow
    <3> QED BY <3>1, <3>2, <3>3
  <2>4. CASE i = j
    BY <2>2, <2>3, <2>4, FreshWitness
  <2>5. CASE i # j
    <3>1. gua_jobs'[i] = gua_jobs[i] /\ i \notin severed
      BY <1>5, <2>5 DEF Active, Rearmed, TypeInv, TypeOK
    <3>2. PICK x \in Slots : Witness(x, i)
      BY <3>1 DEF AliveInv, IsActive
    <3>3. river_job'[x] = river_job[x] /\ work'[x] = work[x]
      BY <1>5, <2>1, <2>5, <3>2
         DEF Active, Free, CancelOccurrencesTx, Without, Witness, Armed, IsRow, TypeInv, TypeOK
    <3> QED BY <3>1, <3>2, <3>3, WitnessFrame
  <2> QED BY <2>4, <2>5
<1>6. ASSUME NEW g \in Groups, NEW j \in Jobs, Pause(g, j)
      PROVE  AliveInv'
  <2> SUFFICES ASSUME NEW i \in Jobs, IsActive(i)', i \notin severed'
               PROVE  \E x \in Slots : Witness(x, i)'
    BY DEF AliveInv
  <2>1. JobsKept
    <3>1. gua_jobs[j] \in JobRow
      BY <1>6 DEF Pause, Owns, TypeInv, TypeOK
    <3>2. /\ [gua_jobs[j] EXCEPT !.active = FALSE] \in JobRow
          /\ gua_jobs' = [gua_jobs EXCEPT ![j] = [gua_jobs[j] EXCEPT !.active = FALSE]]
      BY <1>6, <3>1, JobRowType DEF Pause
    <3>3. /\ [gua_jobs[j] EXCEPT !.active = FALSE].exectime = gua_jobs[j].exectime
          /\ [gua_jobs[j] EXCEPT !.active = FALSE].pattern = gua_jobs[j].pattern
          /\ [gua_jobs[j] EXCEPT !.active = FALSE].group = gua_jobs[j].group
          /\ [gua_jobs[j] EXCEPT !.active = FALSE].active => gua_jobs[j].active
      BY <3>1 DEF JobRow
    <3> QED BY <3>1, <3>2, <3>3, NoJobAssumption DEF JobsKept, TypeInv, TypeOK
  <2>2. severed \subseteq severed'
    BY <1>6 DEF Pause, history
  <2>3. gua_jobs'[i].group = gua_jobs[i].group /\ IsActive(i)
    BY <2>1, <2>2, WitnessBefore
  <2>4. PICK x \in Slots : Witness(x, i)
    BY <2>1, <2>2, WitnessBefore
  <2>5. river_job'[x] = river_job[x] /\ work'[x] = work[x]
    <3>1. i # j
      <4>1. gua_jobs[j] \in JobRow
        BY <1>6 DEF Pause, Owns, TypeInv, TypeOK
      <4>2. gua_jobs'[j] = [gua_jobs[j] EXCEPT !.active = FALSE]
        BY <1>6 DEF Pause, TypeInv, TypeOK
      <4>3. [gua_jobs[j] EXCEPT !.active = FALSE].active = FALSE
        BY <4>1 DEF JobRow
      <4> QED BY <4>2, <4>3 DEF IsActive
    <3> QED BY <1>6, <2>4, <3>1 DEF Pause, CancelOccurrencesTx, Without, Witness
  <2> QED BY <2>3, <2>4, <2>5, WitnessFrame
<1>7. ASSUME NEW g \in Groups, NEW j \in Jobs, Delete(g, j)
      PROVE  AliveInv'
  <2> SUFFICES ASSUME NEW i \in Jobs, IsActive(i)', i \notin severed'
               PROVE  \E x \in Slots : Witness(x, i)'
    BY DEF AliveInv
  <2>1. JobsKept
    BY <1>7 DEF Delete, JobsKept, Owns, TypeInv, TypeOK, history
  <2>2. severed \subseteq severed'
    BY <1>7 DEF Delete, history
  <2>3. gua_jobs'[i].group = gua_jobs[i].group /\ IsActive(i)
    BY <2>1, <2>2, WitnessBefore
  <2>4. PICK x \in Slots : Witness(x, i)
    BY <2>1, <2>2, WitnessBefore
  <2>5. river_job'[x] = river_job[x] /\ work'[x] = work[x]
    <3>1. i # j
      BY <1>7 DEF Delete, IsActive, TypeInv, TypeOK
    <3> QED BY <1>7, <2>4, <3>1 DEF Delete, CancelOccurrencesTx, Without, Witness
  <2> QED BY <2>3, <2>4, <2>5, WitnessFrame
<1>8. ASSUME NEW g \in Groups, NEW names \in SUBSET Names, DeleteJobs(g, names)
      PROVE  AliveInv'
  <2> SUFFICES ASSUME NEW i \in Jobs, IsActive(i)', i \notin severed'
               PROVE  \E x \in Slots : Witness(x, i)'
    BY DEF AliveInv
  <2>1. JobsKept
    BY <1>8 DEF DeleteJobs, JobsKept, Owns, TypeInv, TypeOK, history
  <2>2. severed \subseteq severed'
    BY <1>8 DEF DeleteJobs, history
  <2>3. gua_jobs'[i].group = gua_jobs[i].group /\ IsActive(i)
    BY <2>1, <2>2, WitnessBefore
  <2>4. PICK x \in Slots : Witness(x, i)
    BY <2>1, <2>2, WitnessBefore
  <2>5. river_job'[x] = river_job[x] /\ work'[x] = work[x]
    BY <1>8, <2>3, <2>4 DEF DeleteJobs, Without, Witness, IsActive
  <2> QED BY <2>3, <2>4, <2>5, WitnessFrame
<1>9. ASSUME NEW o \in Slots, JobSchedule(o)
      PROVE  AliveInv'
  <2> SUFFICES ASSUME NEW i \in Jobs, IsActive(i)', i \notin severed'
               PROVE  \E x \in Slots : Witness(x, i)'
    BY DEF AliveInv
  <2>1. JobsKept
    BY <1>9 DEF JobSchedule, JobsKept, tables
  <2>2. severed \subseteq severed'
    BY <1>9 DEF JobSchedule, SwallowingErrors, SeveredIfLast, tables, history
  <2>3. gua_jobs'[i].group = gua_jobs[i].group /\ IsActive(i)
    BY <2>1, <2>2, WitnessBefore
  <2>4. PICK x \in Slots : Witness(x, i)
    BY <2>1, <2>2, WitnessBefore
  <2>5. CASE x # o
    <3>1. river_job'[x] = river_job[x] /\ work'[x] = work[x]
      BY <1>9, <2>5 DEF JobSchedule, Due, Scheduled, tables, TypeInv, TypeOK
    <3> QED BY <2>3, <2>4, <3>1, WitnessFrame
  <2>6. CASE x = o
    <3>1. JobOf(o) = i
      BY <2>4, <2>6 DEF Witness
    <3> QED
      BY <1>9, <2>3, <2>4, <2>6, <3>1, NoRowAssumption, IdleAssumption, ReturnType, StartType
         DEF JobSchedule, Due, Scheduled, IsActive,
           tables, history, Witness, Armed, IsRow, Running, Pending, At, JobOf, LastAttempt,
           TypeInv, TypeOK, Consistent, Row, Exec
  <2> QED BY <2>5, <2>6
<1>10. ASSUME NEW o \in Slots, JobGetAvailable(o)
      PROVE  AliveInv'
  <2> SUFFICES ASSUME NEW i \in Jobs, IsActive(i)', i \notin severed'
               PROVE  \E x \in Slots : Witness(x, i)'
    BY DEF AliveInv
  <2>1. JobsKept
    BY <1>10 DEF JobGetAvailable, JobsKept, tables
  <2>2. severed \subseteq severed'
    BY <1>10 DEF JobGetAvailable, SwallowingErrors, SeveredIfLast, tables, history
  <2>3. gua_jobs'[i].group = gua_jobs[i].group /\ IsActive(i)
    BY <2>1, <2>2, WitnessBefore
  <2>4. PICK x \in Slots : Witness(x, i)
    BY <2>1, <2>2, WitnessBefore
  <2>5. CASE x # o
    <3>1. river_job'[x] = river_job[x] /\ work'[x] = work[x]
      BY <1>10, <2>5 DEF JobGetAvailable, Claimed, tables, TypeInv, TypeOK
    <3> QED BY <2>3, <2>4, <3>1, WitnessFrame
  <2>6. CASE x = o
    <3>1. JobOf(o) = i /\ IsRow(o)
      BY <2>4, <2>6 DEF Witness, Armed
    <3>2. river_job[o] \in Row /\ river_job'[o] = Claimed(river_job[o])
      BY <1>10, <3>1 DEF JobGetAvailable, IsRow, TypeInv, TypeOK
    <3>3. river_job'[o].job = river_job[o].job /\ river_job'[o].group = river_job[o].group
      BY <3>2 DEF Claimed, Row
    <3>4. river_job'[o] # NoRow
      BY <1>10, <3>2, ClaimedType, NoRowAssumption
    <3>5. work'[o] # Idle /\ work'[o].pc = "load"
      <4>1. work'[o] = [pc |-> "load", def |-> NoJob, res |-> "ok", cancelled |-> FALSE]
        BY <1>10 DEF JobGetAvailable, TypeInv, TypeOK
      <4>2. work'[o] \in Exec
        BY <4>1, StartType
      <4>3. work'[o].pc = "load"
        BY <4>1
      <4> QED BY <4>2, <4>3, IdleAssumption
    <3> QED BY <2>3, <2>4, <2>6, <3>3, <3>4, <3>5 DEF Witness, Armed, IsRow, At, JobOf
  <2> QED BY <2>5, <2>6
<1>11. ASSUME NEW o \in Slots, LoadJob(o)
      PROVE  AliveInv'
  <2> SUFFICES ASSUME NEW i \in Jobs, IsActive(i)', i \notin severed'
               PROVE  \E x \in Slots : Witness(x, i)'
    BY DEF AliveInv
  <2>1. JobsKept
    BY <1>11 DEF LoadJob, JobsKept, tables
  <2>2. severed \subseteq severed'
    BY <1>11 DEF LoadJob, SwallowingErrors, SeveredIfLast, tables, history
  <2>3. gua_jobs'[i].group = gua_jobs[i].group /\ IsActive(i)
    BY <2>1, <2>2, WitnessBefore
  <2>4. PICK x \in Slots : Witness(x, i)
    BY <2>1, <2>2, WitnessBefore
  <2>5. CASE x # o
    <3>1. river_job'[x] = river_job[x] /\ work'[x] = work[x]
      BY <1>11, <2>5 DEF LoadJob, Return, SeveredIfLast, tables, TypeInv, TypeOK
    <3> QED BY <2>3, <2>4, <3>1, WitnessFrame
  <2>6. CASE x = o
    <3>1. JobOf(o) = i
      BY <2>4, <2>6 DEF Witness
    <3> QED
      BY <1>11, <2>3, <2>4, <2>6, <3>1, NoRowAssumption, IdleAssumption, ReturnType, StartType
         DEF LoadJob, Return, SeveredIfLast, IsActive,
           tables, history, Witness, Armed, IsRow, Running, Pending, At, JobOf, LastAttempt,
           TypeInv, TypeOK, Consistent, Row, Exec
  <2> QED BY <2>5, <2>6
<1>12. ASSUME NEW o \in Slots, Deliver(o)
      PROVE  AliveInv'
  <2> SUFFICES ASSUME NEW i \in Jobs, IsActive(i)', i \notin severed'
               PROVE  \E x \in Slots : Witness(x, i)'
    BY DEF AliveInv
  <2>1. JobsKept
    BY <1>12 DEF Deliver, JobsKept, tables
  <2>2. severed \subseteq severed'
    BY <1>12 DEF Deliver, SwallowingErrors, SeveredIfLast, tables, history
  <2>3. gua_jobs'[i].group = gua_jobs[i].group /\ IsActive(i)
    BY <2>1, <2>2, WitnessBefore
  <2>4. PICK x \in Slots : Witness(x, i)
    BY <2>1, <2>2, WitnessBefore
  <2>5. CASE x # o
    <3>1. river_job'[x] = river_job[x] /\ work'[x] = work[x]
      BY <1>12, <2>5 DEF Deliver, tables, TypeInv, TypeOK
    <3> QED BY <2>3, <2>4, <3>1, WitnessFrame
  <2>6. CASE x = o
    <3>1. JobOf(o) = i
      BY <2>4, <2>6 DEF Witness
    <3> QED
      BY <1>12, <2>3, <2>4, <2>6, <3>1, NoRowAssumption, IdleAssumption, ReturnType, StartType
         DEF Deliver, IsActive,
           tables, history, Witness, Armed, IsRow, Running, Pending, At, JobOf, LastAttempt,
           TypeInv, TypeOK, Consistent, Row, Exec
  <2> QED BY <2>5, <2>6
<1>13. ASSUME NEW o \in Slots, RetryLater(o)
      PROVE  AliveInv'
  <2> SUFFICES ASSUME NEW i \in Jobs, IsActive(i)', i \notin severed'
               PROVE  \E x \in Slots : Witness(x, i)'
    BY DEF AliveInv
  <2>1. JobsKept
    BY <1>13 DEF RetryLater, JobsKept, tables
  <2>2. severed \subseteq severed'
    BY <1>13 DEF RetryLater, SwallowingErrors, SeveredIfLast, tables, history
  <2>3. gua_jobs'[i].group = gua_jobs[i].group /\ IsActive(i)
    BY <2>1, <2>2, WitnessBefore
  <2>4. PICK x \in Slots : Witness(x, i)
    BY <2>1, <2>2, WitnessBefore
  <2>5. CASE x # o
    <3>1. river_job'[x] = river_job[x] /\ work'[x] = work[x]
      BY <1>13, <2>5 DEF RetryLater, Return, tables, TypeInv, TypeOK
    <3> QED BY <2>3, <2>4, <3>1, WitnessFrame
  <2>6. CASE x = o
    <3>1. JobOf(o) = i
      BY <2>4, <2>6 DEF Witness
    <3> QED
      BY <1>13, <2>3, <2>4, <2>6, <3>1, NoRowAssumption, IdleAssumption, ReturnType, StartType
         DEF RetryLater, Return, IsActive,
           tables, history, Witness, Armed, IsRow, Running, Pending, At, JobOf, LastAttempt,
           TypeInv, TypeOK, Consistent, Row, Exec
  <2> QED BY <2>5, <2>6
<1>14. ASSUME NEW o \in Slots, PauseExhausted(o)
      PROVE  AliveInv'
  <2> SUFFICES ASSUME NEW i \in Jobs, IsActive(i)', i \notin severed'
               PROVE  \E x \in Slots : Witness(x, i)'
    BY DEF AliveInv
  <2>1. JobsKept
    BY <1>14, DeactivatedKeeps
       DEF PauseExhausted, JobsKept, SwallowingErrors, JobOf, IsRow, At,
           TypeInv, TypeOK, Consistent, Row
  <2>2. severed \subseteq severed'
    BY <1>14 DEF PauseExhausted, SwallowingErrors, SeveredIfLast, tables, history
  <2>3. gua_jobs'[i].group = gua_jobs[i].group /\ IsActive(i)
    BY <2>1, <2>2, WitnessBefore
  <2>4. PICK x \in Slots : Witness(x, i)
    BY <2>1, <2>2, WitnessBefore
  <2>5. CASE x # o
    <3>1. river_job'[x] = river_job[x] /\ work'[x] = work[x]
      BY <1>14, <2>5 DEF PauseExhausted, Return, tables, TypeInv, TypeOK
    <3> QED BY <2>3, <2>4, <3>1, WitnessFrame
  <2>6. CASE x = o
    <3>1. JobOf(o) = i
      BY <2>4, <2>6 DEF Witness
    <3>2. ~IsActive(i)' \/ i \in severed'
      BY <1>14, <3>1, DeactivatedActive DEF PauseExhausted, SwallowingErrors, IsActive, TypeInv, TypeOK
    <3> QED BY <3>2
  <2> QED BY <2>5, <2>6
<1>15. ASSUME NEW o \in Slots, DropOnce(o)
      PROVE  AliveInv'
  <2> SUFFICES ASSUME NEW i \in Jobs, IsActive(i)', i \notin severed'
               PROVE  \E x \in Slots : Witness(x, i)'
    BY DEF AliveInv
  <2>1. JobsKept
    BY <1>15 DEF DropOnce, JobsKept, SwallowingErrors, TypeInv, TypeOK
  <2>2. severed \subseteq severed'
    BY <1>15 DEF DropOnce, SwallowingErrors, SeveredIfLast, tables, history
  <2>3. gua_jobs'[i].group = gua_jobs[i].group /\ IsActive(i)
    BY <2>1, <2>2, WitnessBefore
  <2>4. PICK x \in Slots : Witness(x, i)
    BY <2>1, <2>2, WitnessBefore
  <2>5. CASE x # o
    <3>1. river_job'[x] = river_job[x] /\ work'[x] = work[x]
      BY <1>15, <2>5 DEF DropOnce, Return, tables, TypeInv, TypeOK
    <3> QED BY <2>3, <2>4, <3>1, WitnessFrame
  <2>6. CASE x = o
    <3>1. JobOf(o) = i
      BY <2>4, <2>6 DEF Witness
    <3>2. ~IsActive(i)' \/ i \in severed'
      BY <1>15, <3>1 DEF DropOnce, SwallowingErrors, IsActive, TypeInv, TypeOK
    <3> QED BY <3>2
  <2> QED BY <2>5, <2>6
<1>16. ASSUME NEW o \in Slots, PauseBadPattern(o)
      PROVE  AliveInv'
  <2> SUFFICES ASSUME NEW i \in Jobs, IsActive(i)', i \notin severed'
               PROVE  \E x \in Slots : Witness(x, i)'
    BY DEF AliveInv
  <2>1. JobsKept
    BY <1>16, DeactivatedKeeps
       DEF PauseBadPattern, JobsKept, SwallowingErrors, JobOf, IsRow, At,
           TypeInv, TypeOK, Consistent, Row
  <2>2. severed \subseteq severed'
    BY <1>16 DEF PauseBadPattern, SwallowingErrors, SeveredIfLast, tables, history
  <2>3. gua_jobs'[i].group = gua_jobs[i].group /\ IsActive(i)
    BY <2>1, <2>2, WitnessBefore
  <2>4. PICK x \in Slots : Witness(x, i)
    BY <2>1, <2>2, WitnessBefore
  <2>5. CASE x # o
    <3>1. river_job'[x] = river_job[x] /\ work'[x] = work[x]
      BY <1>16, <2>5 DEF PauseBadPattern, Return, tables, TypeInv, TypeOK
    <3> QED BY <2>3, <2>4, <3>1, WitnessFrame
  <2>6. CASE x = o
    <3>1. JobOf(o) = i
      BY <2>4, <2>6 DEF Witness
    <3>2. ~IsActive(i)' \/ i \in severed'
      BY <1>16, <3>1, DeactivatedActive DEF PauseBadPattern, SwallowingErrors, IsActive, TypeInv, TypeOK
    <3> QED BY <3>2
  <2> QED BY <2>5, <2>6
<1>17. ASSUME NEW o \in Slots, ScheduleNext(o)
      PROVE  AliveInv'
  <2> SUFFICES ASSUME NEW i \in Jobs, IsActive(i)', i \notin severed'
               PROVE  \E x \in Slots : Witness(x, i)'
    BY DEF AliveInv
  <2>1. severed \subseteq severed'
    BY <1>17 DEF ScheduleNext, SeveredIfLast
  <2>2. CASE UNCHANGED <<gua_jobs, river_job>>
    <3>1. JobsKept
      BY <2>2 DEF JobsKept
    <3>2. IsActive(i)
      BY <2>1, <3>1, WitnessBefore
    <3>3. PICK x \in Slots : Witness(x, i)
      BY <2>1, <3>1, WitnessBefore
    <3>4. CASE x # o
      <4>1. work'[x] = work[x]
        BY <1>17, <3>4 DEF ScheduleNext, Return, TypeInv, TypeOK
      <4> QED BY <2>2, <3>3, <4>1, WitnessFrame
    <3>5. CASE x = o
      <4>1. JobOf(o) = i /\ IsRow(o)
        BY <3>3, <3>5 DEF Witness, Armed
      <4>2. Return(o, "err") /\ ~LastAttempt(o)
        BY <1>17, <2>2, <3>2, <4>1, NoRowAssumption, OccurrenceType, ScheduleChanges
           DEF ScheduleNext, SeveredIfLast
      <4>3. work'[o] = [pc |-> "report", def |-> NoJob, res |-> "err", cancelled |-> FALSE]
        BY <4>2 DEF Return, TypeInv, TypeOK
      <4>4. work'[o] # Idle /\ work'[o].pc = "report" /\ work'[o].res = "err"
        BY <4>3, ReturnIsExec
      <4> QED BY <2>2, <3>3, <3>5, <4>2, <4>4 DEF Witness, Armed, IsRow, JobOf, LastAttempt, At
    <3> QED BY <3>4, <3>5
  <2>3. ASSUME NEW next \in NextTimes(work[o].def.pattern), ScheduleNextTx(o, next)
        PROVE  \E x \in Slots : Witness(x, i)'
    <3> DEFINE j == JobOf(o)
               g == work[o].def.group
    <3>1. PICK p \in Free : river_job' = [river_job EXCEPT ![p] = Occurrence(j, g, next)]
      BY <2>3 DEF ScheduleNextTx
    <3>2. IsRow(o) /\ work[o].def \in Def
      BY <1>17 DEF ScheduleNext, At, TypeInv, Consistent
    <3>3. j \in Jobs /\ g \in Groups /\ next \in PlanTimes
      BY <2>3, <3>2 DEF IsRow, JobOf, Def, NextTimes, Row, TypeInv, TypeOK
    <3>4. p \in Slots /\ p # o /\ river_job'[p] = Occurrence(j, g, next) /\ work'[p] = Idle
      BY <1>17, <3>1, <3>2 DEF ScheduleNext, Return, Free, IsRow, TypeInv, TypeOK, Consistent
    <3>5. gua_jobs[j] \in JobRow /\ gua_jobs'[j] = [gua_jobs[j] EXCEPT !.exectime = next] /\ IsActive(j)
      BY <2>3, <3>3 DEF ScheduleNextTx, IsActive, TypeInv, TypeOK
    <3>6. gua_jobs'[j].group = gua_jobs[j].group
      BY <3>5 DEF JobRow
    <3>7. \A l \in Jobs \ {j} : gua_jobs'[l] = gua_jobs[l]
      BY <2>3, <3>3 DEF ScheduleNextTx, TypeInv, TypeOK
    <3>8. IsActive(i) /\ i \notin severed /\ gua_jobs'[i].group = gua_jobs[i].group
      BY <2>1, <3>5, <3>6, <3>7 DEF IsActive
    <3>9. PICK x \in Slots : Witness(x, i)
      BY <3>8 DEF AliveInv
    <3>10. CASE x # o
      <4>1. river_job'[x] = river_job[x] /\ work'[x] = work[x]
        BY <1>17, <3>1, <3>9, <3>10
           DEF ScheduleNext, Return, Free, Witness, Armed, IsRow, TypeInv, TypeOK
      <4> QED BY <3>8, <3>9, <4>1, WitnessFrame
    <3>11. CASE x = o
      <4>1. i = j /\ gua_jobs'[j].group = g
        BY <1>17, <3>6, <3>9, <3>11 DEF ScheduleNext, Witness
      <4> QED BY <3>3, <3>4, <4>1, FreshWitness
    <3> QED BY <3>10, <3>11
  <2> QED BY <1>17, <2>2, <2>3 DEF ScheduleNext
<1>18. ASSUME NEW o \in Slots, Complete(o)
      PROVE  AliveInv'
  <2> SUFFICES ASSUME NEW i \in Jobs, IsActive(i)', i \notin severed'
               PROVE  \E x \in Slots : Witness(x, i)'
    BY DEF AliveInv
  <2>1. JobsKept
    BY <1>18 DEF Complete, JobsKept, tables
  <2>2. severed \subseteq severed'
    BY <1>18 DEF Complete, SwallowingErrors, SeveredIfLast, tables, history
  <2>3. gua_jobs'[i].group = gua_jobs[i].group /\ IsActive(i)
    BY <2>1, <2>2, WitnessBefore
  <2>4. PICK x \in Slots : Witness(x, i)
    BY <2>1, <2>2, WitnessBefore
  <2>5. CASE x # o
    <3>1. river_job'[x] = river_job[x] /\ work'[x] = work[x]
      BY <1>18, <2>5 DEF Complete, SetErrored, RetriesLeft, tables, TypeInv, TypeOK
    <3> QED BY <2>3, <2>4, <3>1, WitnessFrame
  <2>6. CASE x = o
    <3>1. JobOf(o) = i
      BY <2>4, <2>6 DEF Witness
    <3> QED
      BY <1>18, <2>3, <2>4, <2>6, <3>1, NoRowAssumption, IdleAssumption, ReturnType, StartType
         DEF Complete, SetErrored, RetriesLeft, IsActive,
           tables, history, Witness, Armed, IsRow, Running, Pending, At, JobOf, LastAttempt,
           TypeInv, TypeOK, Consistent, Row, Exec
  <2> QED BY <2>5, <2>6
<1>19. ASSUME NEW o \in Slots, CancelWork(o)
      PROVE  AliveInv'
  <2> SUFFICES ASSUME NEW i \in Jobs, IsActive(i)', i \notin severed'
               PROVE  \E x \in Slots : Witness(x, i)'
    BY DEF AliveInv
  <2>1. JobsKept
    BY <1>19 DEF CancelWork, JobsKept, tables
  <2>2. severed \subseteq severed'
    BY <1>19 DEF CancelWork, SwallowingErrors, SeveredIfLast, tables, history
  <2>3. gua_jobs'[i].group = gua_jobs[i].group /\ IsActive(i)
    BY <2>1, <2>2, WitnessBefore
  <2>4. PICK x \in Slots : Witness(x, i)
    BY <2>1, <2>2, WitnessBefore
  <2>5. CASE x # o
    <3>1. river_job'[x] = river_job[x] /\ work'[x] = work[x]
      BY <1>19, <2>5 DEF CancelWork, tables, TypeInv, TypeOK
    <3> QED BY <2>3, <2>4, <3>1, WitnessFrame
  <2>6. CASE x = o
    <3>1. IsRow(o) /\ UNCHANGED river_job /\ work[o] \in Exec
      BY <1>19, <2>4, <2>6 DEF Witness, Armed, CancelWork, tables, At, TypeInv, TypeOK
    <3>2. work'[o] = [work[o] EXCEPT !.cancelled = TRUE]
      BY <1>19, <3>1 DEF CancelWork, TypeInv, TypeOK
    <3>3. [work[o] EXCEPT !.cancelled = TRUE] \in Exec
      BY <3>1, ExecType
    <3>4. work'[o] # Idle /\ work[o] # Idle
      BY <3>1, <3>2, <3>3, IdleAssumption
    <3>5. work'[o].pc = work[o].pc /\ work'[o].def = work[o].def /\ work'[o].res = work[o].res
      BY <3>1, <3>2 DEF Exec
    <3> QED BY <2>3, <2>4, <2>6, <3>1, <3>4, <3>5 DEF Witness, Armed, IsRow, At, JobOf, LastAttempt
  <2> QED BY <2>5, <2>6
<1>20. ASSUME NEW o \in Slots, LoseExecutor(o)
      PROVE  AliveInv'
  <2> SUFFICES ASSUME NEW i \in Jobs, IsActive(i)', i \notin severed'
               PROVE  \E x \in Slots : Witness(x, i)'
    BY DEF AliveInv
  <2>1. JobsKept
    BY <1>20 DEF LoseExecutor, JobsKept, tables
  <2>2. severed \subseteq severed'
    BY <1>20 DEF LoseExecutor, SwallowingErrors, SeveredIfLast, tables, history
  <2>3. gua_jobs'[i].group = gua_jobs[i].group /\ IsActive(i)
    BY <2>1, <2>2, WitnessBefore
  <2>4. PICK x \in Slots : Witness(x, i)
    BY <2>1, <2>2, WitnessBefore
  <2>5. CASE x # o
    <3>1. river_job'[x] = river_job[x] /\ work'[x] = work[x]
      BY <1>20, <2>5 DEF LoseExecutor, tables, TypeInv, TypeOK
    <3> QED BY <2>3, <2>4, <3>1, WitnessFrame
  <2>6. CASE x = o
    <3>1. JobOf(o) = i
      BY <2>4, <2>6 DEF Witness
    <3> QED
      BY <1>20, <2>3, <2>4, <2>6, <3>1, NoRowAssumption, IdleAssumption, ReturnType, StartType
         DEF LoseExecutor, IsActive,
           tables, history, Witness, Armed, IsRow, Running, Pending, At, JobOf, LastAttempt,
           TypeInv, TypeOK, Consistent, Row, Exec
  <2> QED BY <2>5, <2>6
<1>21. ASSUME NEW o \in Slots, JobRescue(o)
      PROVE  AliveInv'
  <2> SUFFICES ASSUME NEW i \in Jobs, IsActive(i)', i \notin severed'
               PROVE  \E x \in Slots : Witness(x, i)'
    BY DEF AliveInv
  <2>1. JobsKept
    BY <1>21 DEF JobRescue, JobsKept, tables
  <2>2. severed \subseteq severed'
    BY <1>21 DEF JobRescue, SwallowingErrors, SeveredIfLast, tables, history
  <2>3. gua_jobs'[i].group = gua_jobs[i].group /\ IsActive(i)
    BY <2>1, <2>2, WitnessBefore
  <2>4. PICK x \in Slots : Witness(x, i)
    BY <2>1, <2>2, WitnessBefore
  <2>5. CASE x # o
    <3>1. river_job'[x] = river_job[x] /\ work'[x] = work[x]
      BY <1>21, <2>5 DEF JobRescue, Rescued, tables, TypeInv, TypeOK
    <3> QED BY <2>3, <2>4, <3>1, WitnessFrame
  <2>6. CASE x = o
    <3>1. ~LastAttempt(o) /\ river_job[o] \in Row /\ work'[o] = Idle
      BY <1>21, <2>4, <2>6 DEF JobRescue, Running, Witness, Armed, At, IsRow, TypeInv, TypeOK
    <3>2. river_job'[o] = [river_job[o] EXCEPT !.state = "retryable"]
      BY <1>21, <3>1, MaxAttemptsAssumption DEF JobRescue, Rescued, LastAttempt, Row, TypeInv, TypeOK
    <3>3. [river_job[o] EXCEPT !.state = "retryable"] \in Row
      BY <3>1 DEF Row
    <3>4. river_job'[o] # NoRow
      BY <3>2, <3>3, NoRowAssumption
    <3>5. /\ river_job'[o].job = river_job[o].job /\ river_job'[o].group = river_job[o].group
          /\ river_job'[o].state = "retryable"
      BY <3>1, <3>2 DEF Row
    <3> QED BY <2>3, <2>4, <2>6, <3>1, <3>4, <3>5 DEF Witness, Armed, IsRow, At, JobOf
  <2> QED BY <2>5, <2>6
<1>22. CASE UNCHANGED vars
  <2> SUFFICES ASSUME NEW i \in Jobs, IsActive(i)', i \notin severed'
               PROVE  \E x \in Slots : Witness(x, i)'
    BY DEF AliveInv
  <2>1. UNCHANGED <<gua_jobs, river_job, work, severed>>
    BY <1>22 DEF vars
  <2>2. PICK x \in Slots : Witness(x, i)
    BY <2>1 DEF AliveInv, IsActive
  <2> QED BY <2>1, <2>2, WitnessFrame
<1> QED
  BY <1>1, <1>2, <1>3, <1>4, <1>5, <1>6, <1>7, <1>8, <1>9, <1>10, <1>11,
     <1>12, <1>13, <1>14, <1>15, <1>16, <1>17, <1>18, <1>19, <1>20, <1>21,
     <1>22
     DEF Next, ClientStep, GroupStep, JobStep, QueueStep, WorkStep, FaultStep

\* An active definition has an occurrence that will fire, unless its chain was
\* severed in one of the ways the code allows.
THEOREM Alive == Spec => []NeverSilentlyDead
<1>1. Init => AliveInv
  BY InitAlive
<1>2. ChainInv /\ AliveInv /\ [Next]_vars => AliveInv'
  BY NextAlive DEF ChainInv
<1>3. AliveInv => NeverSilentlyDead
  BY DEF AliveInv, NeverSilentlyDead, Witness, ArmedOf
<1> QED BY <1>1, <1>2, <1>3, ChainInvariant, PTL DEF Spec

-----------------------------------------------------------------------------
(***************************************************************************)
(* What guaDeliverWorker.Work may rely on: the definition it settles is    *)
(* the one it loaded, a fire-once job that was delivered is not delivered  *)
(* again, and occurrences are inserted for active jobs only.               *)
(***************************************************************************)

-----------------------------------------------------------------------------
(* The invariants, slot by slot *)

\* Work is past loadJob at o.
PastLoad(o) == At(o, "deliver") \/ At(o, "settle")

\* Work has just delivered at o, and has not settled yet.
Delivered(o) == At(o, "settle") /\ work[o].res = "ok"

\* SettlesWhatItLoaded at o.
LoadedAt(o) ==
    PastLoad(o) /\ JobOf(o) \notin forked /\ gua_jobs[JobOf(o)] # NoJob
        => /\ work[o].def.pattern = gua_jobs[JobOf(o)].pattern
           /\ work[o].def.group = gua_jobs[JobOf(o)].group

\* An occurrence that was delivered and can still come to deliver again is not
\* one of a fire-once job, as the definition is now and as Work holds it.
AckedAt(o) ==
    o \in acked /\ Armed(o) /\ JobOf(o) \notin forked /\ ~Delivered(o)
        => /\ gua_jobs[JobOf(o)] # NoJob => gua_jobs[JobOf(o)].pattern # "once"
           /\ PastLoad(o) => work[o].def.pattern # "once"

DeliveryInv == \A o \in Slots : LoadedAt(o) /\ AckedAt(o)

-----------------------------------------------------------------------------
(* What a step does to the run of Work at one slot *)

\* It leaves it alone.
Rests(x) == work'[x] = work[x] /\ (x \in acked' => x \in acked)

\* It begins one, or cancels its context.
Begins(x) == work[x] = Idle /\ work'[x] # Idle /\ work'[x].pc = "load" /\ acked' = acked
Cancels(x) ==
    /\ work[x] # Idle /\ work'[x] # Idle
    /\ work'[x].pc = work[x].pc /\ work'[x].def = work[x].def /\ work'[x].res = work[x].res
    /\ acked' = acked

\* It loads the definition.
Loads(x) ==
    /\ At(x, "load") /\ gua_jobs[JobOf(x)] # NoJob
    /\ work'[x] # Idle /\ work'[x].pc = "deliver"
    /\ work'[x].def.pattern = gua_jobs[JobOf(x)].pattern
    /\ work'[x].def.group = gua_jobs[JobOf(x)].group
    /\ UNCHANGED <<gua_jobs, river_job, acked>>

\* It ends the call.
Calls(x) ==
    /\ At(x, "deliver")
    /\ work'[x] # Idle /\ work'[x].pc = "settle" /\ work'[x].def = work[x].def
    /\ work'[x].res # "ok" => acked' = acked

\* Work returns: nil, or an error with which it may be run again.  After a
\* delivery only scheduleNext returns an error.
Returns(x) ==
    /\ work'[x] # Idle /\ work'[x].pc = "report" /\ acked' = acked
    /\ \/ work'[x].res = "ok"
       \/ At(x, "load")
       \/ At(x, "settle") /\ (work[x].res = "ok" => work[x].def.pattern \in {"recurring", "never"})

\* It ends: reported, or lost.
Ends(x) == work'[x] = Idle /\ acked' \subseteq acked /\ (x \notin acked' \/ At(x, "report"))

Moves(x) ==
    Rests(x) \/ Begins(x) \/ Cancels(x) \/ Loads(x) \/ Calls(x) \/ Returns(x) \/ Ends(x)

\* A return, as a value of work.
LEMMA ReturnMoves ==
    ASSUME TypeInv, NEW o \in Slots, NEW r \in {"ok", "err"}, Return(o, r)
    PROVE  /\ work'[o] # Idle /\ work'[o].pc = "report" /\ work'[o].res = r
           /\ \A x \in Slots : x # o => work'[x] = work[x]
<1>1. work'[o] = [pc |-> "report", def |-> NoJob, res |-> r, cancelled |-> FALSE]
  BY DEF Return, TypeInv, TypeOK
<1>2. \A x \in Slots : x # o => work'[x] = work[x]
  BY DEF Return, TypeInv, TypeOK
<1> QED
  BY <1>1, <1>2, ReturnIsExec

\* Every step of the queue is one of these at every slot.
LEMMA QueueMoves ==
    ASSUME TypeInv, NEW o \in Slots, QueueStep(o)
    PROVE  \A x \in Slots : Moves(x)
<1>0. work \in [Slots -> Exec \cup {Idle}] /\ (work[o] # Idle => work[o] \in Exec)
  BY DEF TypeInv, TypeOK
<1>1. CASE JobSchedule(o)
  BY <1>1 DEF JobSchedule, history, Moves, Rests
<1>2. CASE JobGetAvailable(o)
  <2>1. \A x \in Slots : x # o => work'[x] = work[x]
    BY <1>0, <1>2 DEF JobGetAvailable
  <2>2. work'[o] = [pc |-> "load", def |-> NoJob, res |-> "ok", cancelled |-> FALSE]
    BY <1>0, <1>2 DEF JobGetAvailable
  <2>3. work'[o] # Idle
    BY <2>2, StartType, IdleAssumption
  <2>4. work'[o].pc = "load" /\ acked' = acked
    BY <1>2, <2>2 DEF JobGetAvailable, history
  <2>5. work[o] = Idle
    BY <1>2 DEF JobGetAvailable, TypeInv, Consistent, Pending
  <2> QED
    BY <2>1, <2>3, <2>4, <2>5 DEF Moves, Rests, Begins
<1>3. CASE LoadJob(o)
  <2>0. UNCHANGED <<gua_jobs, river_job, acked>> /\ At(o, "load")
    BY <1>3 DEF LoadJob, tables
  <2>1. ASSUME NEW r \in {"ok", "err"}, Return(o, r)
        PROVE  \A x \in Slots : Moves(x)
    BY <2>0, <2>1, ReturnMoves DEF Moves, Rests, Returns
  <2>2. CASE /\ IsActive(JobOf(o))
             /\ LET row == gua_jobs[JobOf(o)] IN
                work' = [work EXCEPT ![o].pc = "deliver", ![o].def =
                    [group |-> row.group, url |-> row.url, pattern |-> row.pattern]]
    <3> DEFINE row == gua_jobs[JobOf(o)]
               d == [group |-> row.group, url |-> row.url, pattern |-> row.pattern]
    <3>1. d.pattern = row.pattern /\ d.group = row.group
      OBVIOUS
    <3>2. d \in Def
      <4>1. JobOf(o) \in Jobs /\ row \in JobRow
        BY <2>0, <2>2 DEF At, IsActive, TypeInv, TypeOK, Consistent, IsRow, JobOf, Row
      <4> QED
        BY <4>1 DEF JobRow, Def
    <3> HIDE DEF d
    <3>3. /\ work'[o] = [work[o] EXCEPT !.pc = "deliver", !.def = d]
          /\ \A x \in Slots : x # o => work'[x] = work[x]
      BY <1>0, <2>2 DEF d
    <3>4. work'[o] # Idle /\ work'[o].pc = "deliver" /\ work'[o].def = d
      <4>1. work[o] \in Exec
        BY <1>0, <2>0 DEF At
      <4>2. work'[o] \in Exec
        BY <3>2, <3>3, <4>1, ExecType, Zenon
      <4> QED
        BY <3>3, <4>1, <4>2, IdleAssumption DEF Exec
    <3>5. gua_jobs[JobOf(o)] # NoJob
      BY <2>2 DEF IsActive
    <3> QED
      BY <2>0, <3>1, <3>3, <3>4, <3>5 DEF Moves, Rests, Loads
  <2> QED
    BY <1>3, <2>1, <2>2 DEF LoadJob
<1>4. CASE Deliver(o)
  <2>0. At(o, "deliver") /\ work[o] \in Exec
    BY <1>0, <1>4 DEF Deliver, At
  <2>1. PICK r \in {"ok", "err"} :
           /\ work' = [work EXCEPT ![o].pc = "settle", ![o].res = r]
           /\ IF r = "ok" THEN acked' = acked \cup {o} ELSE acked' = acked
    BY <1>4 DEF Deliver
  <2>2. work'[o] = [work[o] EXCEPT !.pc = "settle", !.res = r]
    BY <1>0, <2>1
  <2>3. work'[o] \in Exec /\ work'[o].pc = "settle" /\ work'[o].def = work[o].def /\ work'[o].res = r
    <3>1. work'[o] \in Exec
      BY <2>0, <2>2, ExecType, ZenonT(60)
    <3> QED
      BY <2>0, <2>2, <3>1 DEF Exec
  <2>4. \A x \in Slots : x # o => work'[x] = work[x] /\ (x \in acked' => x \in acked)
    BY <1>0, <2>1
  <2>5. Calls(o)
    BY <2>0, <2>1, <2>3, IdleAssumption DEF Calls
  <2> QED
    BY <2>4, <2>5 DEF Moves, Rests
<1>5. CASE RetryLater(o)
  <2>1. /\ acked' = acked /\ At(o, "settle") /\ work[o].res = "err" /\ Return(o, "err")
    BY <1>5 DEF RetryLater, history
  <2> QED
    BY <2>1, ReturnMoves DEF Moves, Rests, Returns
<1>6. CASE PauseExhausted(o)
  <2>1. /\ acked' = acked /\ At(o, "settle") /\ work[o].res = "err" /\ Return(o, "err")
    BY <1>6 DEF PauseExhausted
  <2> QED
    BY <2>1, ReturnMoves DEF Moves, Rests, Returns
<1>7. CASE DropOnce(o) \/ PauseBadPattern(o)
  <2>1. acked' = acked /\ Return(o, "ok")
    BY <1>7 DEF DropOnce, PauseBadPattern
  <2> QED
    BY <2>1, ReturnMoves DEF Moves, Rests, Returns
<1>8. CASE ScheduleNext(o)
  <2>1. /\ acked' = acked /\ At(o, "settle") /\ work[o].def.pattern \in {"recurring", "never"}
        /\ \E r \in {"ok", "err"} : Return(o, r)
    BY <1>8 DEF ScheduleNext
  <2> QED
    BY <2>1, ReturnMoves DEF Moves, Rests, Returns
<1>9. CASE Complete(o)
  <2>1. /\ At(o, "report") /\ acked' \subseteq acked
        /\ work' = [work EXCEPT ![o] = Idle]
    BY <1>9 DEF Complete, AckedIn
  <2> QED
    BY <1>0, <2>1 DEF Moves, Rests, Ends
<1>10. CASE CancelWork(o)
  <2>0. work[o] # Idle /\ work[o] \in Exec
    BY <1>0, <1>10 DEF CancelWork, At
  <2>1. work'[o] = [work[o] EXCEPT !.cancelled = TRUE] /\ acked' = acked
    BY <1>0, <1>10 DEF CancelWork, history
  <2>2. \A x \in Slots : x # o => work'[x] = work[x]
    BY <1>0, <1>10 DEF CancelWork
  <2>3. Cancels(o)
    <3>1. work'[o] \in Exec
      BY <2>0, <2>1, ExecType, Zenon
    <3>2. /\ work'[o].pc = work[o].pc /\ work'[o].def = work[o].def
          /\ work'[o].res = work[o].res
      BY <2>0, <2>1 DEF Exec
    <3> QED
      BY <2>0, <2>1, <3>1, <3>2, IdleAssumption DEF Cancels
  <2> QED
    BY <2>1, <2>2, <2>3 DEF Moves, Rests
<1>11. CASE LoseExecutor(o)
  <2>1. acked' = acked \ {o} /\ work' = [work EXCEPT ![o] = Idle]
    BY <1>11 DEF LoseExecutor
  <2> QED
    BY <1>0, <2>1 DEF Moves, Rests, Ends
<1>12. CASE JobRescue(o)
  BY <1>12 DEF JobRescue, AckedIn, Moves, Rests
<1> QED
  BY <1>1, <1>2, <1>3, <1>4, <1>5, <1>6, <1>7, <1>8, <1>9, <1>10, <1>11, <1>12
     DEF QueueStep, WorkStep, FaultStep

\* Clients touch no run of Work.
LEMMA ClientRests ==
    ASSUME ClientStep
    PROVE  work' = work /\ acked' \subseteq acked
BY ZenonT(60) DEF ClientStep, GroupStep, JobStep, RegisterGroup, RemoveGroup, Push, Edit, Active, Pause,
   Delete, DeleteJobs, AckedIn, history

\* So every step is one of these at every slot.
LEMMA EveryMove ==
    ASSUME TypeInv, [Next]_vars, NEW x \in Slots
    PROVE  Moves(x)
<1>1. CASE ClientStep \/ UNCHANGED vars
  BY <1>1, ClientRests DEF Moves, Rests, vars
<1> QED
  BY <1>1, QueueMoves DEF Next

-----------------------------------------------------------------------------
(* The invariants are inductive *)

\* An armed occurrence outside forked was there before the step, armed, with the
\* same firing, and its definition, if there is one, is the one that was there.
LEMMA Carried ==
    ASSUME ChainInv, [Next]_vars, NEW x \in Slots, IsRow(x), Armed(x)', (JobOf(x) \notin forked)'
    PROVE  /\ Armed(x) /\ JobOf(x) \notin forked /\ JobOf(x)' = JobOf(x)
           /\ (gua_jobs[JobOf(x)] # NoJob)' =>
                 /\ gua_jobs[JobOf(x)] # NoJob
                 /\ gua_jobs'[JobOf(x)].pattern = gua_jobs[JobOf(x)].pattern
                 /\ gua_jobs'[JobOf(x)].group = gua_jobs[JobOf(x)].group
<1>0. JobOf(x) \in Jobs
  BY DEF ChainInv, TypeInv, TypeOK, IsRow, JobOf, Row
<1>1. CASE Quiet
  <2>1. SameFiring(x) /\ (Armed(x) \/ JobOf(x) \in forked') /\ forked \subseteq forked' /\ JobsKept
    BY <1>1 DEF Quiet
  <2>2. JobOf(x)' = JobOf(x)
    BY <2>1 DEF SameFiring, JobOf
  <2> QED
    BY <1>0, <2>1, <2>2 DEF JobsKept
<1>2. ASSUME NEW p \in Slots, NEW j \in Jobs, Inserts(p, j)
      PROVE  /\ Armed(x) /\ JobOf(x) \notin forked /\ JobOf(x)' = JobOf(x)
             /\ gua_jobs'[JobOf(x)] = gua_jobs[JobOf(x)]
  <2>1. x # p /\ SameFiring(x) /\ Armed(x)
    BY <1>2 DEF Inserts
  <2>2. JobOf(x)' = JobOf(x)
    BY <2>1 DEF SameFiring, JobOf
  <2>3. JobOf(x) # j
    BY <1>2, <2>1, <2>2 DEF Inserts
  <2> QED
    BY <1>0, <1>2, <2>1, <2>2, <2>3 DEF Inserts
<1>3. InsertStep => \E p \in Slots, j \in Jobs : Inserts(p, j)
  BY InsertShape DEF ChainInv
<1> QED
  BY <1>1, <1>2, <1>3, StepShape DEF ChainInv

\* Work past loadJob keeps its occurrence armed.
LEMMA PastLoadArmed ==
    ASSUME TypeInv, NEW x \in Slots, PastLoad(x)
    PROVE  Armed(x) /\ IsRow(x)
BY DEF TypeInv, Consistent, PastLoad, Armed, At

\* A run of Work, or an acknowledgement, is of a row.
LEMMA BusyIsRow ==
    ASSUME TypeInv, NEW x \in Slots, work[x] # Idle \/ x \in acked
    PROVE  IsRow(x)
BY DEF TypeInv, Consistent

\* LoadedAt is kept at every slot.
LEMMA StepLoaded ==
    ASSUME ChainInv, [Next]_vars, NEW x \in Slots, LoadedAt(x)
    PROVE  LoadedAt(x)'
<1> SUFFICES ASSUME PastLoad(x)', (JobOf(x) \notin forked)', (gua_jobs[JobOf(x)] # NoJob)'
             PROVE  (/\ work[x].def.pattern = gua_jobs[JobOf(x)].pattern
                     /\ work[x].def.group = gua_jobs[JobOf(x)].group)'
  BY DEF LoadedAt
<1>1. TypeInv /\ TypeInv'
  BY NextType DEF ChainInv
<1>2. Armed(x)'
  BY <1>1, PastLoadArmed DEF TypeInv, Consistent, PastLoad, Armed, At
<1>3. ASSUME PastLoad(x), work'[x].def = work[x].def
      PROVE  (/\ work[x].def.pattern = gua_jobs[JobOf(x)].pattern
              /\ work[x].def.group = gua_jobs[JobOf(x)].group)'
  <2>1. IsRow(x)
    BY <1>1, <1>3, PastLoadArmed
  <2>2. /\ JobOf(x) \notin forked /\ JobOf(x)' = JobOf(x)
        /\ gua_jobs[JobOf(x)] # NoJob
        /\ gua_jobs'[JobOf(x)].pattern = gua_jobs[JobOf(x)].pattern
        /\ gua_jobs'[JobOf(x)].group = gua_jobs[JobOf(x)].group
    BY <1>2, <2>1, Carried
  <2> QED
    BY <1>3, <2>2 DEF LoadedAt
<1>4. CASE Rests(x) \/ Cancels(x) \/ Calls(x)
  BY <1>3, <1>4 DEF Rests, Cancels, Calls, PastLoad, At
<1>5. CASE Loads(x)
  BY <1>5 DEF Loads, JobOf
<1>6. CASE Begins(x) \/ Returns(x) \/ Ends(x)
  BY <1>6 DEF Begins, Returns, Ends, PastLoad, At
<1> QED
  BY <1>1, <1>4, <1>5, <1>6, EveryMove DEF Moves

\* AckedAt is kept at every slot.
LEMMA StepAcked ==
    ASSUME ChainInv, [Next]_vars, NEW x \in Slots, LoadedAt(x), AckedAt(x)
    PROVE  AckedAt(x)'
<1> SUFFICES ASSUME x \in acked', Armed(x)', (JobOf(x) \notin forked)', ~Delivered(x)'
             PROVE  (/\ gua_jobs[JobOf(x)] # NoJob => gua_jobs[JobOf(x)].pattern # "once"
                     /\ PastLoad(x) => work[x].def.pattern # "once")'
  BY DEF AckedAt
<1>1. TypeInv
  BY DEF ChainInv
<1>2. x \in acked /\ IsRow(x)
  <2>1. x \in acked
    BY <1>1, EveryMove
       DEF Moves, Rests, Begins, Cancels, Loads, Calls, Returns, Ends, Delivered, At
  <2> QED
    BY <1>1, <2>1, BusyIsRow
<1>3. /\ Armed(x) /\ JobOf(x) \notin forked /\ JobOf(x)' = JobOf(x)
      /\ (gua_jobs[JobOf(x)] # NoJob)' =>
            /\ gua_jobs[JobOf(x)] # NoJob
            /\ gua_jobs'[JobOf(x)].pattern = gua_jobs[JobOf(x)].pattern
  BY <1>2, Carried
<1>4. CASE ~Delivered(x)
  <2>1. /\ gua_jobs[JobOf(x)] # NoJob => gua_jobs[JobOf(x)].pattern # "once"
        /\ PastLoad(x) => work[x].def.pattern # "once"
    BY <1>2, <1>3, <1>4 DEF AckedAt
  <2>2. (gua_jobs[JobOf(x)] # NoJob => gua_jobs[JobOf(x)].pattern # "once")'
    BY <1>3, <2>1
  <2>3. (PastLoad(x) => work[x].def.pattern # "once")'
    BY <1>1, <2>1, EveryMove
       DEF Moves, Rests, Begins, Cancels, Loads, Calls, Returns, Ends, PastLoad, At
  <2> QED
    BY <2>2, <2>3
<1>5. CASE Delivered(x)
  <2>1. ~At(x, "deliver") /\ ~At(x, "load") /\ ~At(x, "report")
    BY <1>5 DEF Delivered, At
  <2>2. ~(Rests(x) \/ Cancels(x))
    BY <1>5 DEF Rests, Cancels, Delivered, At
  <2>3. ~(Loads(x) \/ Calls(x) \/ Ends(x))
    BY <2>1 DEF Loads, Calls, Ends
  <2>4. ~Begins(x)
    BY <1>5 DEF Begins, Delivered, At
  <2>5. CASE Returns(x)
    <3>1. work'[x] # Idle /\ work'[x].pc = "report"
      BY <2>5 DEF Returns
    <3>2. work'[x].res # "ok"
      <4>1. (Armed(x) /\ At(x, "report") => work[x].res = "err")'
        <5>1. ~Pending(x)'
          <6>1. TypeInv'
            BY NextType DEF ChainInv
          <6> QED
            BY <3>1, <6>1 DEF TypeInv, Consistent
        <5> QED
          BY <3>1, <5>1 DEF Armed, At, Pending
      <4> QED
        BY <3>1, <4>1 DEF At
    <3>3. work[x].def.pattern # "once"
      BY <1>5, <2>1, <2>5, <3>2 DEF Returns, Delivered
    <3>4. gua_jobs[JobOf(x)] # NoJob => gua_jobs[JobOf(x)].pattern # "once"
      BY <1>3, <1>5, <3>3 DEF LoadedAt, PastLoad, Delivered
    <3>5. ~PastLoad(x)'
      BY <3>1 DEF PastLoad, At
    <3> QED
      BY <1>3, <3>4, <3>5
  <2> QED
    BY <1>1, <2>2, <2>3, <2>4, <2>5, EveryMove DEF Moves
<1> QED
  BY <1>4, <1>5

\* Nothing is past loadJob, and nothing delivered, when the database is opened.
LEMMA InitDelivery == Init => DeliveryInv
BY DEF Init, DeliveryInv, LoadedAt, AckedAt, PastLoad, At

\* The invariant holds in every reachable state.
LEMMA DeliveryInvariant == Spec => [](ChainInv /\ DeliveryInv)
<1>1. ChainInv /\ DeliveryInv /\ [Next]_vars => DeliveryInv'
  <2> SUFFICES ASSUME ChainInv, DeliveryInv, [Next]_vars, NEW x \in Slots
               PROVE  LoadedAt(x)' /\ AckedAt(x)'
    BY DEF DeliveryInv
  <2> QED
    BY StepLoaded, StepAcked DEF DeliveryInv
<1> QED
  BY InitDelivery, ChainInvariant, <1>1, PTL DEF Spec

-----------------------------------------------------------------------------
(* Insertions *)

\* A step that is not an insertion makes no row.
LEMMA NoNewRow ==
    ASSUME TypeInv, [Next]_vars, NEW x \in Slots, ~IsRow(x), IsRow(x)'
    PROVE  InsertStep
<1> SUFFICES ASSUME ~InsertStep
             PROVE  FALSE
  OBVIOUS
<1>0. river_job \in [Slots -> Row \cup {NoRow}] /\ river_job[x] = NoRow /\ river_job'[x] # NoRow
  BY DEF TypeInv, TypeOK, IsRow
<1>1. ASSUME NEW S, river_job' = Without(S)
      PROVE  FALSE
  BY <1>0, <1>1 DEF Without
<1>2. CASE UNCHANGED river_job
  BY <1>0, <1>2
<1>3. ASSUME NEW o \in Slots, NEW r, IsRow(o), river_job' = [river_job EXCEPT ![o] = r]
      PROVE  FALSE
  BY <1>0, <1>3 DEF IsRow
<1>4. CASE ClientStep
  <2>1. ASSUME NEW g \in Groups, GroupStep(g)
        PROVE  FALSE
    BY <1>1, <1>2, <2>1 DEF GroupStep, RegisterGroup, RemoveGroup
  <2>2. ASSUME NEW g \in Groups, NEW j \in Jobs, JobStep(g, j)
        PROVE  FALSE
    <3>1. ASSUME NEW u \in Urls, Edit(g, j, u)
          PROVE  FALSE
      BY <1>2, <3>1 DEF Edit
    <3>2. CASE Pause(g, j) \/ Delete(g, j)
      BY <1>1, <3>2 DEF Pause, Delete, CancelOccurrencesTx
    <3> QED
      BY <2>2, <3>1, <3>2 DEF JobStep, InsertStep
  <2>3. ASSUME NEW g \in Groups, NEW names, DeleteJobs(g, names)
        PROVE  FALSE
    BY <1>1, <2>3 DEF DeleteJobs
  <2> QED
    BY <1>4, <2>1, <2>2, <2>3 DEF ClientStep
<1>5. ASSUME NEW o \in Slots, QueueStep(o)
      PROVE  FALSE
  <2>1. CASE JobSchedule(o)
    BY <1>3, <2>1 DEF JobSchedule
  <2>2. CASE JobGetAvailable(o)
    BY <1>3, <2>2 DEF JobGetAvailable
  <2>3. CASE LoadJob(o) \/ Deliver(o) \/ RetryLater(o) \/ CancelWork(o) \/ LoseExecutor(o)
    BY <1>2, <2>3 DEF LoadJob, Deliver, RetryLater, CancelWork, LoseExecutor, tables
  <2>4. CASE PauseExhausted(o) \/ DropOnce(o) \/ PauseBadPattern(o)
    BY <1>2, <2>4 DEF PauseExhausted, DropOnce, PauseBadPattern
  <2>5. CASE ScheduleNext(o)
    BY <1>2, <2>5 DEF ScheduleNext, InsertStep
  <2>6. CASE Complete(o)
    <3>1. work[o] # Idle
      BY <2>6 DEF Complete, At
    <3>2. IsRow(o)
      BY <3>1, BusyIsRow
    <3> QED
      BY <1>3, <2>6, <3>2 DEF Complete
  <2>7. CASE JobRescue(o)
    BY <1>3, <2>7 DEF JobRescue, Running
  <2> QED
    BY <1>5, <2>1, <2>2, <2>3, <2>4, <2>5, <2>6, <2>7 DEF QueueStep, WorkStep, FaultStep
<1>6. CASE UNCHANGED vars
  BY <1>2, <1>6 DEF vars
<1> QED
  BY <1>4, <1>5, <1>6 DEF Next

\* An insertion puts the occurrence of an active definition, with its exectime.
LEMMA NewRowActive ==
    ASSUME TypeInv, InsertStep, NEW x \in Slots, ~IsRow(x), IsRow(x)'
    PROVE  LET row == gua_jobs'[river_job'[x].job] IN
           row # NoJob /\ row.active /\ row.exectime = river_job'[x].plan
<1>0. /\ gua_jobs \in [Jobs -> JobRow \cup {NoJob}]
      /\ river_job \in [Slots -> Row \cup {NoRow}] /\ river_job[x] = NoRow /\ river_job'[x] # NoRow
  BY DEF TypeInv, TypeOK, IsRow
<1> SUFFICES \E j \in Jobs, g \in Groups, at \in PlanTimes, row \in JobRow :
                /\ river_job'[x] = Occurrence(j, g, at)
                /\ gua_jobs'[j] = row /\ row.active /\ row.exectime = at
  BY OccurrenceType, NoJobAssumption
<1>1. ASSUME NEW g \in Groups, NEW j \in Jobs, NEW n \in Names, NEW u \in Urls,
             NEW p \in Patterns, NEW at \in Times, Push(j, g, n, u, p, at)
      PROVE  \E row \in JobRow :
                /\ river_job'[x] = Occurrence(j, g, at)
                /\ gua_jobs'[j] = row /\ row.active /\ row.exectime = at
  <2> DEFINE row == [group |-> g, name |-> n, url |-> u, pattern |-> p,
                     exectime |-> at, active |-> TRUE]
  <2>1. row \in JobRow /\ row.active /\ row.exectime = at
    BY DEF JobRow
  <2>2. gua_jobs'[j] = row
    BY <1>0, <1>1 DEF Push
  <2>3. river_job'[x] = Occurrence(j, g, at)
    BY <1>0, <1>1 DEF Push
  <2> QED
    BY <2>1, <2>2, <2>3
<1>2. ASSUME NEW g \in Groups, NEW j \in Jobs, NEW at \in Times, Active(g, j, at)
      PROVE  \E row \in JobRow :
                /\ river_job'[x] = Occurrence(j, g, at)
                /\ gua_jobs'[j] = row /\ row.active /\ row.exectime = at
  <2>1. gua_jobs[j] \in JobRow
    BY <1>0, <1>2 DEF Active, Owns
  <2>2. gua_jobs'[j] = [gua_jobs[j] EXCEPT !.active = TRUE, !.exectime = at]
    BY <1>0, <1>2 DEF Active
  <2>3. gua_jobs'[j] \in JobRow
    <3>1. at \in PlanTimes
      OBVIOUS
    <3> QED
      BY <2>1, <2>2, <3>1, JobRowType, Zenon
  <2>4. gua_jobs'[j].active /\ gua_jobs'[j].exectime = at
    BY <2>1, <2>2 DEF JobRow
  <2>5. river_job'[x] = Occurrence(j, g, at)
    <3>1. PICK o \in Free : river_job' = [CancelOccurrencesTx(j) EXCEPT ![o] = Occurrence(j, g, at)]
      BY <1>2 DEF Active
    <3>2. CancelOccurrencesTx(j)[x] = NoRow /\ x \in DOMAIN CancelOccurrencesTx(j)
      BY <1>0 DEF CancelOccurrencesTx, Without
    <3>3. CancelOccurrencesTx(j) = [y \in Slots |-> CancelOccurrencesTx(j)[y]]
      BY DEF CancelOccurrencesTx, Without
    <3> QED
      BY <1>0, <3>1, <3>2, <3>3
  <2> QED
    BY <2>3, <2>4, <2>5
<1>3. ASSUME NEW o \in Slots, ScheduleNext(o),
             NEW next \in NextTimes(work[o].def.pattern), ScheduleNextTx(o, next)
      PROVE  \E j \in Jobs, g \in Groups, at \in PlanTimes, row \in JobRow :
                /\ river_job'[x] = Occurrence(j, g, at)
                /\ gua_jobs'[j] = row /\ row.active /\ row.exectime = at
  <2> DEFINE j == JobOf(o)
             g == work[o].def.group
  <2>1. At(o, "settle") /\ IsActive(j)
    BY <1>3 DEF ScheduleNext, ScheduleNextTx
  <2>2. j \in Jobs /\ g \in Groups /\ next \in PlanTimes
    <3>1. IsRow(o) /\ work[o].def \in Def
      BY <2>1 DEF TypeInv, Consistent, At
    <3> QED
      BY <1>0, <3>1 DEF IsRow, JobOf, Row, Def, NextTimes
  <2>3. gua_jobs[j] \in JobRow /\ gua_jobs[j].active
    BY <1>0, <2>1, <2>2 DEF IsActive
  <2>4. gua_jobs'[j] = [gua_jobs[j] EXCEPT !.exectime = next]
    BY <1>0, <1>3, <2>2 DEF ScheduleNextTx
  <2>5. gua_jobs'[j] \in JobRow
    BY <2>2, <2>3, <2>4, JobRowType, Zenon
  <2>6. gua_jobs'[j].active /\ gua_jobs'[j].exectime = next
    BY <2>3, <2>4 DEF JobRow
  <2>7. river_job'[x] = Occurrence(j, g, next)
    BY <1>0, <1>3 DEF ScheduleNextTx
  <2> HIDE DEF j, g
  <2> QED
    BY <2>2, <2>5, <2>6, <2>7
<1> QED
  BY <1>1, <1>2, <1>3 DEF InsertStep

-----------------------------------------------------------------------------
(* The theorems *)

\* pause, drop and scheduleNext name a definition by id alone; it is the one
\* Work loaded before the delivery, in whatever order clients and other
\* executors move meanwhile, unless the job was deleted and pushed again
\* (riverquene.go, Work: loadJob, then its UPDATE and DELETE statements).
THEOREM SettlesTheLoaded == Spec => []SettlesWhatItLoaded
<1>1. DeliveryInv => SettlesWhatItLoaded
  BY DEF DeliveryInv, LoadedAt, PastLoad, SettlesWhatItLoaded
<1> QED
  BY DeliveryInvariant, <1>1, PTL

\* A fire-once job whose delivery succeeded is not delivered again by a retry,
\* whatever statement fails after the delivery ("Never return an error here",
\* riverquene.go).
THEOREM OnceIsOnce == Spec => []OnceNotRedelivered
<1>1. ChainInv /\ DeliveryInv => OnceNotRedelivered
  <2> SUFFICES ASSUME ChainInv, DeliveryInv, NEW o \in Slots, At(o, "deliver"),
                      work[o].def.pattern = "once", JobOf(o) \notin forked, o \in acked
               PROVE  FALSE
    BY DEF OnceNotRedelivered
  <2>1. PastLoad(o) /\ ~Delivered(o)
    BY DEF PastLoad, Delivered, At
  <2>2. Armed(o)
    BY <2>1, PastLoadArmed DEF ChainInv
  <2> QED
    BY <2>1, <2>2 DEF DeliveryInv, AckedAt
<1> QED
  BY DeliveryInvariant, <1>1, PTL

\* Every step that inserts an occurrence, of Push, Active or scheduleNext,
\* leaves its definition active with the occurrence's plan time: "if the job was
\* paused or deleted in the meantime nothing is inserted" (scheduleNext).
THEOREM InsertsForActive == Spec => InsertOnlyForActive
<1> DEFINE Good == \A o \in Slots :
              river_job[o] = NoRow /\ river_job'[o] # NoRow =>
                  LET row == gua_jobs'[river_job'[o].job] IN
                  row # NoJob /\ row.active /\ row.exectime = river_job'[o].plan
<1>1. TypeInv /\ [Next]_vars => [Good]_vars
  <2> SUFFICES ASSUME TypeInv, [Next]_vars, NEW o \in Slots, ~IsRow(o), IsRow(o)'
               PROVE  LET row == gua_jobs'[river_job'[o].job] IN
                      row # NoJob /\ row.active /\ row.exectime = river_job'[o].plan
    BY DEF IsRow
  <2> QED
    BY NoNewRow, NewRowActive
<1>2. Spec => []TypeInv
  <2>1. ChainInv => TypeInv
    BY DEF ChainInv
  <2> QED
    BY <2>1, ChainInvariant, PTL
<1> QED
  BY <1>1, <1>2, PTL DEF Spec, InsertOnlyForActive

-----------------------------------------------------------------------------
(***************************************************************************)
(* RiverQuene implements JobStore: every step of the detailed model, seen  *)
(* through the mapping of RiverQueneStore, is a step of the store or no    *)
(* change of it.                                                           *)
(***************************************************************************)

-----------------------------------------------------------------------------
(* The mapping, row by row *)

JobBar(r) ==
    IF r = NoJob THEN NoJob
    ELSE [group |-> r.group, exectime |-> r.exectime, active |-> r.active]

RowBar(r) ==
    IF r = NoRow THEN NoRow
    ELSE [job |-> r.job, group |-> r.group, plan |-> r.plan, phase |-> Phase(r)]

StoreDef == [group : Groups, exectime : PlanTimes, active : BOOLEAN]
StoreOcc == [job : Jobs, group : Groups, plan : PlanTimes, phase : {"fresh", "retry", "running"}]

\* What the mapping keeps of a definition.
LEMMA JobBarFacts ==
    ASSUME NEW r \in JobRow
    PROVE  /\ JobBar(r) \in StoreDef /\ JobBar(r) # NoJob /\ r # NoJob
           /\ JobBar(r).group = r.group /\ JobBar(r).active = r.active
<1>1. JobBar(r) = [group |-> r.group, exectime |-> r.exectime, active |-> r.active] /\ r # NoJob
  BY NoJobAssumption DEF JobBar
<1>2. JobBar(r) \in StoreDef
  BY <1>1 DEF StoreDef, JobRow
<1> QED
  BY <1>1, <1>2, StoreNullAssumption DEF StoreDef

\* The mapping forgets the target, and follows the other fields.
LEMMA JobBarUpdates ==
    ASSUME NEW r \in JobRow
    PROVE  /\ \A u \in Urls : JobBar([r EXCEPT !.url = u]) = JobBar(r)
           /\ \A b \in BOOLEAN : JobBar([r EXCEPT !.active = b]) = [JobBar(r) EXCEPT !.active = b]
           /\ \A at \in PlanTimes :
                 JobBar([r EXCEPT !.exectime = at]) = [JobBar(r) EXCEPT !.exectime = at]
           /\ \A b \in BOOLEAN, at \in PlanTimes :
                 JobBar([r EXCEPT !.active = b, !.exectime = at])
                 = [JobBar(r) EXCEPT !.active = b, !.exectime = at]
<1>1. ASSUME NEW x \in JobRow
      PROVE  JobBar(x) = [group |-> x.group, exectime |-> x.exectime, active |-> x.active]
  BY NoJobAssumption DEF JobBar
<1>2. ASSUME NEW u \in Urls
      PROVE  JobBar([r EXCEPT !.url = u]) = JobBar(r)
  <2>1. [r EXCEPT !.url = u] \in JobRow
    BY DEF JobRow
  <2> QED
    BY <1>1, <2>1 DEF JobRow
<1>3. ASSUME NEW b \in BOOLEAN
      PROVE  /\ [r EXCEPT !.active = b] \in JobRow
             /\ JobBar([r EXCEPT !.active = b]) = [JobBar(r) EXCEPT !.active = b]
  <2>1. [r EXCEPT !.active = b] \in JobRow
    BY DEF JobRow
  <2> QED
    BY <1>1, <2>1 DEF JobRow
<1>4. ASSUME NEW x \in JobRow, NEW at \in PlanTimes
      PROVE  JobBar([x EXCEPT !.exectime = at]) = [JobBar(x) EXCEPT !.exectime = at]
  <2>1. [x EXCEPT !.exectime = at] \in JobRow
    BY DEF JobRow
  <2> QED
    BY <1>1, <2>1 DEF JobRow
<1>5. ASSUME NEW b \in BOOLEAN, NEW at \in PlanTimes
      PROVE  JobBar([r EXCEPT !.active = b, !.exectime = at])
             = [JobBar(r) EXCEPT !.active = b, !.exectime = at]
  <2>1. /\ [r EXCEPT !.active = b] \in JobRow
        /\ JobBar([r EXCEPT !.active = b]) = [JobBar(r) EXCEPT !.active = b]
    BY <1>3, Zenon
  <2>2. JobBar([[r EXCEPT !.active = b] EXCEPT !.exectime = at])
        = [JobBar([r EXCEPT !.active = b]) EXCEPT !.exectime = at]
    BY <1>4, <2>1, Zenon
  <2> QED
    BY <2>1, <2>2, Zenon
<1> QED
  BY <1>2, <1>3, <1>4, <1>5, Zenon

\* What the mapping keeps of a row.
LEMMA RowBarFacts ==
    ASSUME NEW r \in Row
    PROVE  /\ RowBar(r) \in StoreOcc /\ RowBar(r) # NoRow /\ r # NoRow
           /\ RowBar(r) = [job |-> r.job, group |-> r.group, plan |-> r.plan, phase |-> Phase(r)]
           /\ RowBar(r).job = r.job /\ RowBar(r).group = r.group /\ RowBar(r).phase = Phase(r)
           /\ Phase(r) \in {"fresh", "retry"} <=> r.state \in PendingStates
           /\ Phase(r) = "running" <=> r.state = "running"
<1>1. /\ RowBar(r) = [job |-> r.job, group |-> r.group, plan |-> r.plan, phase |-> Phase(r)]
      /\ r # NoRow
  BY NoRowAssumption DEF RowBar
<1>2. /\ Phase(r) \in {"fresh", "retry", "running"}
      /\ Phase(r) \in {"fresh", "retry"} <=> r.state \in PendingStates
      /\ Phase(r) = "running" <=> r.state = "running"
  BY DEF Phase, Row
<1>3. RowBar(r) \in StoreOcc
  BY <1>1, <1>2 DEF StoreOcc, Row
<1> QED
  BY <1>1, <1>2, <1>3, StoreNullAssumption DEF StoreOcc

\* A new occurrence is fresh.
LEMMA RowBarFresh ==
    ASSUME NEW j \in Jobs, NEW g \in Groups, NEW at \in PlanTimes
    PROVE  RowBar(Occurrence(j, g, at)) = [job |-> j, group |-> g, plan |-> at, phase |-> "fresh"]
<1>1. Phase(Occurrence(j, g, at)) = "fresh"
  BY OccurrenceType DEF Phase
<1> QED
  BY <1>1, OccurrenceType, RowBarFacts

\* River's scheduler changes nothing the store sees.
LEMMA RowBarScheduled ==
    ASSUME NEW r \in Row, Due(r)
    PROVE  RowBar(Scheduled(r)) = RowBar(r)
<1>1. /\ Scheduled(r) \in Row /\ Scheduled(r).job = r.job /\ Scheduled(r).group = r.group
      /\ Scheduled(r).plan = r.plan /\ Scheduled(r).attempt = r.attempt
      /\ Scheduled(r).state = "available"
  BY DEF Scheduled, Row
<1>2. Phase(Scheduled(r)) = Phase(r)
  BY <1>1 DEF Phase, Due
<1> QED
  BY <1>1, <1>2, RowBarFacts

\* A claim makes the row a running one.
LEMMA RowBarClaimed ==
    ASSUME NEW r \in Row, Claimed(r) \in Row
    PROVE  RowBar(Claimed(r)) = [RowBar(r) EXCEPT !.phase = "running"]
<1>1. /\ Claimed(r).job = r.job /\ Claimed(r).group = r.group
      /\ Claimed(r).plan = r.plan /\ Claimed(r).state = "running"
  BY DEF Claimed, Row
<1>2. Phase(Claimed(r)) = "running"
  BY <1>1 DEF Phase
<1>3. RowBar(Claimed(r)) = [job |-> r.job, group |-> r.group, plan |-> r.plan, phase |-> "running"]
  BY <1>1, <1>2, RowBarFacts
<1>4. RowBar(r) = [job |-> r.job, group |-> r.group, plan |-> r.plan, phase |-> Phase(r)]
  BY RowBarFacts
<1> QED
  BY <1>3, <1>4

\* A failed attempt that was counted makes the row one that waits for a retry.
LEMMA RowBarRetry ==
    ASSUME NEW r \in Row, r.attempt # 0, NEW s \in {"available", "retryable"}
    PROVE  RowBar([r EXCEPT !.state = s]) = [RowBar(r) EXCEPT !.phase = "retry"]
<1> DEFINE q == [r EXCEPT !.state = s]
<1>1. /\ q \in Row /\ q.job = r.job /\ q.group = r.group
      /\ q.plan = r.plan /\ q.state = s /\ q.attempt = r.attempt
  BY DEF Row
<1> HIDE DEF q
<1>2. Phase(q) = "retry"
  BY <1>1 DEF Phase
<1>3. RowBar(q) = [job |-> r.job, group |-> r.group, plan |-> r.plan, phase |-> "retry"]
  BY <1>1, <1>2, RowBarFacts
<1>4. RowBar(r) = [job |-> r.job, group |-> r.group, plan |-> r.plan, phase |-> Phase(r)]
  BY RowBarFacts
<1> QED
  BY <1>3, <1>4 DEF q

-----------------------------------------------------------------------------
(* The mapping, table by table *)

\* The mapped tables, before and after a step.
LEMMA Bars ==
    /\ StoreJobs = [j \in Jobs |-> JobBar(gua_jobs[j])]
    /\ StoreJobs' = [j \in Jobs |-> JobBar(gua_jobs'[j])]
    /\ StoreRows = [o \in Slots |-> RowBar(river_job[o])]
    /\ StoreRows' = [o \in Slots |-> RowBar(river_job'[o])]
BY DEF StoreJobs, StoreRows, JobBar, RowBar

\* A row and a definition of the store are there when the model's are.
LEMMA BarsNull ==
    ASSUME TypeOK
    PROVE  /\ \A j \in Jobs : StoreJobs[j] = NoJob <=> gua_jobs[j] = NoJob
           /\ \A o \in Slots : StoreRows[o] = NoRow <=> ~IsRow(o)
           /\ \A j \in Jobs : gua_jobs[j] # NoJob =>
                 gua_jobs[j] \in JobRow /\ StoreJobs[j].group = gua_jobs[j].group
                 /\ StoreJobs[j].active = gua_jobs[j].active
           /\ \A o \in Slots : IsRow(o) =>
                 /\ river_job[o] \in Row
                 /\ StoreRows[o].job = JobOf(o) /\ StoreRows[o].group = river_job[o].group
                 /\ StoreRows[o].phase \in {"fresh", "retry"} <=> Pending(o)
                 /\ StoreRows[o].phase = "running" <=> Running(o)
<1>1. ASSUME NEW j \in Jobs
      PROVE  /\ StoreJobs[j] = NoJob <=> gua_jobs[j] = NoJob
             /\ gua_jobs[j] # NoJob =>
                 gua_jobs[j] \in JobRow /\ StoreJobs[j].group = gua_jobs[j].group
                 /\ StoreJobs[j].active = gua_jobs[j].active
  <2>1. StoreJobs[j] = JobBar(gua_jobs[j])
    BY Bars
  <2>2. CASE gua_jobs[j] = NoJob
    BY <2>1, <2>2 DEF JobBar
  <2>3. CASE gua_jobs[j] # NoJob
    <3>1. gua_jobs[j] \in JobRow
      BY <2>3 DEF TypeOK
    <3> QED
      BY <2>1, <2>3, <3>1, JobBarFacts
  <2> QED
    BY <2>2, <2>3
<1>2. ASSUME NEW o \in Slots
      PROVE  /\ StoreRows[o] = NoRow <=> ~IsRow(o)
             /\ IsRow(o) =>
                 /\ river_job[o] \in Row
                 /\ StoreRows[o].job = JobOf(o) /\ StoreRows[o].group = river_job[o].group
                 /\ StoreRows[o].phase \in {"fresh", "retry"} <=> Pending(o)
                 /\ StoreRows[o].phase = "running" <=> Running(o)
  <2>1. StoreRows[o] = RowBar(river_job[o])
    BY Bars
  <2>2. CASE ~IsRow(o)
    BY <2>1, <2>2 DEF RowBar, IsRow
  <2>3. CASE IsRow(o)
    <3>1. river_job[o] \in Row
      BY <2>3 DEF TypeOK, IsRow
    <3>2. /\ RowBar(river_job[o]) # NoRow
          /\ RowBar(river_job[o]).job = river_job[o].job
          /\ RowBar(river_job[o]).group = river_job[o].group
          /\ RowBar(river_job[o]).phase \in {"fresh", "retry"} <=> river_job[o].state \in PendingStates
          /\ RowBar(river_job[o]).phase = "running" <=> river_job[o].state = "running"
      BY <3>1, RowBarFacts
    <3> QED
      BY <2>1, <2>3, <3>1, <3>2 DEF JobOf, Pending, Running
  <2> QED
    BY <2>2, <2>3
<1> QED
  BY <1>1, <1>2

\* The sets the store's operations speak of.
LEMMA StoreSets ==
    ASSUME TypeOK
    PROVE  /\ Store!InPhase({"fresh", "retry"}) = {o \in Slots : Pending(o)}
           /\ Store!InPhase({"running"}) = {o \in Slots : Running(o)}
           /\ \A ids : Store!OfJob(ids) = {o \in Slots : Pending(o) /\ JobOf(o) \in ids}
           /\ \A g : Store!OfGroup(g) = {o \in Slots : Pending(o) /\ river_job[o].group = g}
           /\ \A g : Store!Owned(g) = {j \in Jobs : Owns(g, j)}
           /\ Free = {x \in Slots : StoreRows[x] = NoRow}
<1>1. Store!InPhase({"fresh", "retry"}) = {o \in Slots : Pending(o)}
  BY BarsNull DEF Store!InPhase, Pending
<1>2. Store!InPhase({"running"}) = {o \in Slots : Running(o)}
  BY BarsNull DEF Store!InPhase, Running
<1>3. ASSUME NEW ids
      PROVE  Store!OfJob(ids) = {o \in Slots : Pending(o) /\ JobOf(o) \in ids}
  BY <1>1, BarsNull DEF Store!OfJob, Pending
<1>4. ASSUME NEW g
      PROVE  Store!OfGroup(g) = {o \in Slots : Pending(o) /\ river_job[o].group = g}
  BY <1>1, BarsNull DEF Store!OfGroup, Pending
<1>5. ASSUME NEW g
      PROVE  Store!Owned(g) = {j \in Jobs : Owns(g, j)}
  BY BarsNull DEF Store!Owned, Owns
<1>6. Free = {x \in Slots : StoreRows[x] = NoRow}
  BY BarsNull DEF Free, IsRow
<1> QED
  BY <1>1, <1>2, <1>3, <1>4, <1>5, <1>6

\* One definition changes.
LEMMA OneJob ==
    ASSUME TypeOK, NEW j \in Jobs, NEW r, gua_jobs' = [gua_jobs EXCEPT ![j] = r]
    PROVE  StoreJobs' = [StoreJobs EXCEPT ![j] = JobBar(r)]
<1>1. \A i \in Jobs : gua_jobs'[i] = IF i = j THEN r ELSE gua_jobs[i]
  BY DEF TypeOK
<1>2. StoreJobs' = [i \in Jobs |-> JobBar(gua_jobs'[i])] /\ StoreJobs = [i \in Jobs |-> JobBar(gua_jobs[i])]
  BY Bars
<1> QED
  BY <1>1, <1>2

\* One row changes.
LEMMA OneRow ==
    ASSUME TypeOK, NEW o \in Slots, NEW r, river_job' = [river_job EXCEPT ![o] = r]
    PROVE  StoreRows' = [StoreRows EXCEPT ![o] = RowBar(r)]
<1>1. \A x \in Slots : river_job'[x] = IF x = o THEN r ELSE river_job[x]
  BY DEF TypeOK
<1>2. StoreRows' = [x \in Slots |-> RowBar(river_job'[x])] /\ StoreRows = [x \in Slots |-> RowBar(river_job[x])]
  BY Bars
<1> QED
  BY <1>1, <1>2

\* Nothing changes.
LEMMA SameBars ==
    /\ UNCHANGED gua_jobs => StoreJobs' = StoreJobs
    /\ UNCHANGED river_job => StoreRows' = StoreRows
BY Bars

\* Definitions go.
LEMMA GoneJobs ==
    ASSUME TypeOK, NEW del,
           gua_jobs' = [j \in Jobs |-> IF j \in del THEN NoJob ELSE gua_jobs[j]]
    PROVE  StoreJobs' = Store!WithoutJobs(del)
<1>1. JobBar(NoJob) = NoJob
  BY DEF JobBar
<1> QED
  BY <1>1, Bars DEF Store!WithoutJobs

\* Rows go.
LEMMA GoneRows ==
    ASSUME TypeOK, NEW S
    PROVE  /\ river_job' = Without(S) =>
                 StoreRows' = [o \in Slots |-> IF o \in S THEN NoRow ELSE StoreRows[o]]
           /\ \A o \in Slots : RowBar(Without(S)[o]) = IF o \in S THEN NoRow ELSE StoreRows[o]
<1>1. RowBar(NoRow) = NoRow
  BY DEF RowBar
<1>2. \A o \in Slots : RowBar(Without(S)[o]) = IF o \in S THEN NoRow ELSE StoreRows[o]
  BY <1>1, Bars DEF Without
<1> QED
  BY <1>2, Bars

\* To delete every row of `may` is a way to take back the fresh ones of `must`.
LEMMA AllTaken ==
    ASSUME TypeOK, NEW must, NEW may, must \subseteq may
    PROVE  [o \in Slots |-> IF o \in may THEN NoRow ELSE StoreRows[o]] \in Store!TakenBack(must, may)
<1>1. may \in {x \in SUBSET may : must \cap Store!InPhase({"fresh"}) \subseteq x}
  OBVIOUS
<1> QED
  BY <1>1, Zenon DEF Store!TakenBack

\* A fresh occurrence is one more row.
LEMMA OneAdded ==
    ASSUME TypeOK, NEW o \in Free, NEW j \in Jobs, NEW g \in Groups, NEW at \in PlanTimes,
           river_job' = [river_job EXCEPT ![o] = Occurrence(j, g, at)]
    PROVE  StoreRows' \in Store!Added(StoreRows, j, g, at)
<1>1. o \in Slots
  BY DEF Free
<1>2. StoreRows' = [StoreRows EXCEPT ![o] = [job |-> j, group |-> g, plan |-> at, phase |-> "fresh"]]
  BY <1>1, OneRow, RowBarFresh
<1>3. o \in {x \in Slots : StoreRows[x] = NoRow}
  BY StoreSets
<1> QED
  BY <1>2, <1>3, Zenon DEF Store!Added

-----------------------------------------------------------------------------
(* A running row has had an attempt counted *)

RunCounted == \A o \in Slots : Running(o) => river_job[o].attempt # 0

\* A row that runs after a step ran before it, or was claimed by it.
LEMMA RunsOrClaimed ==
    ASSUME TypeInv, [Next]_vars, NEW x \in Slots, Running(x)'
    PROVE  \/ river_job'[x] = river_job[x]
           \/ river_job'[x] = Claimed(river_job[x]) /\ river_job[x] \in Row
<1>0. /\ river_job \in [Slots -> Row \cup {NoRow}]
      /\ river_job'[x] # NoRow /\ river_job'[x].state = "running"
  BY DEF TypeInv, TypeOK, Running, IsRow
<1>1. ASSUME NEW S, river_job' = Without(S)
      PROVE  river_job'[x] = river_job[x]
  BY <1>0, <1>1 DEF Without
<1>2. ASSUME NEW o \in Slots, NEW r, river_job' = [river_job EXCEPT ![o] = r],
             r = NoRow \/ r.state # "running"
      PROVE  river_job'[x] = river_job[x]
  BY <1>0, <1>2
<1>3. ASSUME NEW j, NEW g, NEW at
      PROVE  Occurrence(j, g, at).state # "running"
  BY DEF Occurrence
<1>4. CASE ClientStep
  <2>1. ASSUME NEW g \in Groups, GroupStep(g)
        PROVE  river_job'[x] = river_job[x]
    BY <1>1, <2>1 DEF GroupStep, RegisterGroup, RemoveGroup
  <2>2. ASSUME NEW g \in Groups, NEW j \in Jobs, JobStep(g, j)
        PROVE  river_job'[x] = river_job[x]
    <3>1. ASSUME NEW n \in Names, NEW u \in Urls, NEW p \in Patterns, NEW at \in Times,
                 Push(j, g, n, u, p, at)
          PROVE  river_job'[x] = river_job[x]
      <4>1. PICK o \in Free : river_job' = [river_job EXCEPT ![o] = Occurrence(j, g, at)]
        BY <3>1, Zenon DEF Push
      <4> QED
        BY <1>2, <1>3, <4>1 DEF Free
    <3>2. ASSUME NEW at \in Times, Active(g, j, at)
          PROVE  river_job'[x] = river_job[x]
      <4>1. PICK o \in Free :
               river_job' = [CancelOccurrencesTx(j) EXCEPT ![o] = Occurrence(j, g, at)]
        BY <3>2 DEF Active
      <4>2. \A y \in Slots : CancelOccurrencesTx(j)[y] \in {NoRow, river_job[y]}
        BY DEF CancelOccurrencesTx, Without
      <4>3. CancelOccurrencesTx(j) = [y \in Slots |-> CancelOccurrencesTx(j)[y]]
        BY DEF CancelOccurrencesTx, Without
      <4> QED
        BY <1>0, <1>3, <4>1, <4>2, <4>3
    <3>3. CASE Pause(g, j) \/ Delete(g, j)
      BY <1>1, <3>3 DEF Pause, Delete, CancelOccurrencesTx
    <3>4. ASSUME NEW u \in Urls, Edit(g, j, u)
          PROVE  river_job'[x] = river_job[x]
      BY <3>4 DEF Edit
    <3> QED
      BY <2>2, <3>1, <3>2, <3>3, <3>4 DEF JobStep
  <2>3. ASSUME NEW g \in Groups, NEW names, DeleteJobs(g, names)
        PROVE  river_job'[x] = river_job[x]
    BY <1>1, <2>3 DEF DeleteJobs
  <2> QED
    BY <1>4, <2>1, <2>2, <2>3 DEF ClientStep
<1>5. ASSUME NEW o \in Slots, QueueStep(o)
      PROVE  \/ river_job'[x] = river_job[x]
             \/ river_job'[x] = Claimed(river_job[x]) /\ river_job[x] \in Row
  <2>0. IsRow(o) => river_job[o] \in Row
    BY <1>0 DEF IsRow
  <2>1. CASE JobSchedule(o)
    <3>1. Scheduled(river_job[o]).state # "running"
      BY <2>0, <2>1 DEF JobSchedule, Scheduled, Row
    <3> QED
      BY <1>2, <2>1, <3>1 DEF JobSchedule
  <2>2. CASE JobGetAvailable(o)
    BY <1>0, <2>0, <2>2 DEF JobGetAvailable
  <2>3. CASE LoadJob(o) \/ Deliver(o) \/ RetryLater(o) \/ CancelWork(o) \/ LoseExecutor(o)
    BY <2>3 DEF LoadJob, Deliver, RetryLater, CancelWork, LoseExecutor, tables
  <2>4. CASE PauseExhausted(o) \/ DropOnce(o) \/ PauseBadPattern(o)
    BY <2>4 DEF PauseExhausted, DropOnce, PauseBadPattern
  <2>5. CASE ScheduleNext(o)
    <3>1. UNCHANGED river_job \/ \E next \in NextTimes(work[o].def.pattern) : ScheduleNextTx(o, next)
      BY <2>5 DEF ScheduleNext
    <3>2. ASSUME NEW next, ScheduleNextTx(o, next)
          PROVE  river_job'[x] = river_job[x]
      BY <1>2, <1>3, <3>2 DEF ScheduleNextTx, Free
    <3> QED
      BY <3>1, <3>2
  <2>6. CASE Complete(o)
    <3>1. PICK r \in (IF work[o].res = "ok" THEN {NoRow} ELSE SetErrored(river_job[o])) :
             river_job' = [river_job EXCEPT ![o] = r]
      BY <2>6 DEF Complete
    <3>2. river_job[o] \in Row
      BY <2>0, <2>6 DEF Complete, At, TypeInv, Consistent
    <3>3. r = NoRow \/ r.state # "running"
      BY <3>1, <3>2 DEF SetErrored, Row
    <3> QED
      BY <1>2, <3>1, <3>3
  <2>7. CASE JobRescue(o)
    <3>1. river_job[o] \in Row
      BY <2>0, <2>7 DEF JobRescue, Running
    <3>2. Rescued(river_job[o]) = NoRow \/ Rescued(river_job[o]).state # "running"
      BY <3>1 DEF Rescued, Row
    <3> QED
      BY <1>2, <2>7, <3>2 DEF JobRescue
  <2> QED
    BY <1>5, <2>1, <2>2, <2>3, <2>4, <2>5, <2>6, <2>7 DEF QueueStep, WorkStep, FaultStep
<1>6. CASE UNCHANGED vars
  BY <1>6 DEF vars
<1> QED
  BY <1>4, <1>5, <1>6 DEF Next

\* Every step keeps RunCounted.
LEMMA StepCounted == TypeInv /\ RunCounted /\ [Next]_vars => RunCounted'
<1> SUFFICES ASSUME TypeInv, RunCounted, [Next]_vars, NEW x \in Slots, Running(x)'
             PROVE  river_job'[x].attempt # 0
  BY DEF RunCounted
<1>1. CASE river_job'[x] = river_job[x]
  BY <1>1 DEF RunCounted, Running, IsRow
<1>2. CASE river_job'[x] = Claimed(river_job[x]) /\ river_job[x] \in Row
  BY <1>2 DEF Claimed, Row
<1> QED
  BY <1>1, <1>2, RunsOrClaimed

-----------------------------------------------------------------------------
(* Client steps *)

\* RegisterGroup.
LEMMA RegisterGroupMaps ==
    ASSUME NEW g \in Groups, RegisterGroup(g)
    PROVE  Store!RegisterGroup(g)
BY SameBars DEF RegisterGroup, Store!RegisterGroup

\* RemoveGroup takes every waiting occurrence that names the group.
LEMMA RemoveGroupMaps ==
    ASSUME TypeOK, NEW g \in Groups, RemoveGroup(g)
    PROVE  Store!RemoveGroup(g)
<1> DEFINE S == {o \in Slots : Pending(o) /\ river_job[o].group = g}
           own == {j \in Jobs : Owns(g, j)}
<1>1. Store!OfGroup(g) = S /\ Store!Owned(g) = own
  BY StoreSets
<1>2. StoreRows' \in Store!TakenBack({o \in Store!OfGroup(g) : StoreRows[o].job \in Store!Owned(g)},
                                     Store!OfGroup(g))
  <2>1. river_job' = Without(S)
    BY DEF RemoveGroup
  <2>2. StoreRows' = [o \in Slots |-> IF o \in S THEN NoRow ELSE StoreRows[o]]
    BY <2>1, GoneRows
  <2>3. {o \in S : StoreRows[o].job \in Store!Owned(g)} \subseteq S
    OBVIOUS
  <2> HIDE DEF S
  <2> QED
    BY <1>1, <2>2, <2>3, AllTaken
<1>3. StoreJobs' = Store!WithoutJobs(Store!Owned(g))
  <2>1. gua_jobs' = [j \in Jobs |-> IF j \in own THEN NoJob ELSE gua_jobs[j]]
    BY DEF RemoveGroup, Owns
  <2> HIDE DEF own
  <2> QED
    BY <1>1, <2>1, GoneJobs
<1> QED
  BY <1>2, <1>3 DEF RemoveGroup, Store!RemoveGroup

\* Push adds a definition and its first occurrence.
LEMMA PushMaps ==
    ASSUME TypeOK, NEW j \in Jobs, NEW g \in Groups, NEW n \in Names, NEW u \in Urls,
           NEW p \in Patterns, NEW at \in Times, Push(j, g, n, u, p, at)
    PROVE  Store!Push(j, g, at)
<1> DEFINE r == [group |-> g, name |-> n, url |-> u, pattern |-> p,
                 exectime |-> at, active |-> TRUE]
<1>1. /\ g \in gua_groups /\ gua_jobs[j] = NoJob /\ UNCHANGED gua_groups
      /\ gua_jobs' = [gua_jobs EXCEPT ![j] = r]
  BY Zenon DEF Push
<1>2. r \in JobRow
  BY DEF JobRow
<1>3. JobBar(r) = [group |-> g, exectime |-> at, active |-> TRUE]
  BY <1>2, NoJobAssumption DEF JobBar
<1> HIDE DEF r
<1>4. StoreJobs' = [StoreJobs EXCEPT ![j] = [group |-> g, exectime |-> at, active |-> TRUE]]
  BY <1>1, <1>3, OneJob
<1>5. PICK o \in Free : river_job' = [river_job EXCEPT ![o] = Occurrence(j, g, at)]
  BY Zenon DEF Push
<1>6. StoreRows' \in Store!Added(StoreRows, j, g, at)
  BY <1>5, OneAdded
<1>7. StoreJobs[j] = NoJob
  BY <1>1, BarsNull
<1> QED
  BY <1>1, <1>4, <1>6, <1>7 DEF Store!Push

\* Edit changes nothing the store sees.
LEMMA EditMaps ==
    ASSUME TypeOK, NEW g \in Groups, NEW j \in Jobs, NEW u \in Urls, Edit(g, j, u)
    PROVE  UNCHANGED <<gua_groups, StoreJobs, StoreRows>>
<1>1. gua_jobs[j] \in JobRow
  BY DEF Edit, Owns, TypeOK
<1>2. gua_jobs' = [gua_jobs EXCEPT ![j] = [gua_jobs[j] EXCEPT !.url = u]]
  BY DEF Edit, TypeOK
<1>3. StoreJobs' = [StoreJobs EXCEPT ![j] = JobBar(gua_jobs[j])]
  <2>1. JobBar([gua_jobs[j] EXCEPT !.url = u]) = JobBar(gua_jobs[j])
    BY <1>1, JobBarUpdates, Zenon
  <2>2. StoreJobs' = [StoreJobs EXCEPT ![j] = JobBar([gua_jobs[j] EXCEPT !.url = u])]
    BY <1>2, OneJob, Zenon
  <2> QED
    BY <2>1, <2>2, Zenon
<1>4. StoreJobs' = StoreJobs
  BY <1>3, Bars
<1> QED
  BY <1>4, SameBars DEF Edit

\* Active replaces the waiting occurrences of the job by a new one.
LEMMA ActiveMaps ==
    ASSUME TypeOK, NEW g \in Groups, NEW j \in Jobs, NEW at \in Times, Active(g, j, at)
    PROVE  Store!Active(g, j, at)
<1> DEFINE S == {o \in Slots : Pending(o) /\ JobOf(o) = j}
           t == [o \in Slots |-> IF o \in S THEN NoRow ELSE StoreRows[o]]
<1>1. Owns(g, j) /\ gua_jobs[j] \in JobRow /\ at \in PlanTimes
  BY DEF Active, Owns, TypeOK
<1>2. j \in Store!Owned(g) /\ Store!OfJob({j}) = S
  BY <1>1, StoreSets
<1>3. StoreJobs' = [StoreJobs EXCEPT ![j].active = TRUE, ![j].exectime = at]
  <2>1. gua_jobs' = [gua_jobs EXCEPT ![j] = [gua_jobs[j] EXCEPT !.active = TRUE, !.exectime = at]]
    BY DEF Active, TypeOK
  <2>2. StoreJobs' = [StoreJobs EXCEPT ![j] = [JobBar(gua_jobs[j]) EXCEPT !.active = TRUE, !.exectime = at]]
    <3>1. JobBar([gua_jobs[j] EXCEPT !.active = TRUE, !.exectime = at])
          = [JobBar(gua_jobs[j]) EXCEPT !.active = TRUE, !.exectime = at]
      BY <1>1, JobBarUpdates, Zenon
    <3>2. StoreJobs' = [StoreJobs EXCEPT ![j] =
                           JobBar([gua_jobs[j] EXCEPT !.active = TRUE, !.exectime = at])]
      BY <2>1, OneJob, Zenon
    <3> QED
      BY <3>1, <3>2, Zenon
  <2>3. StoreJobs[j] = JobBar(gua_jobs[j]) /\ StoreJobs = [i \in Jobs |-> JobBar(gua_jobs[i])]
    BY Bars
  <2> QED
    BY <2>2, <2>3
<1>4. t \in Store!TakenBack(Store!OfJob({j}), Store!OfJob({j}))
  BY <1>2, AllTaken
<1>5. PICK o \in Free : river_job' = [CancelOccurrencesTx(j) EXCEPT ![o] = Occurrence(j, g, at)]
  BY Zenon DEF Active
<1>6. StoreRows' = [t EXCEPT ![o] = [job |-> j, group |-> g, plan |-> at, phase |-> "fresh"]]
  <2>1. CancelOccurrencesTx(j) = Without(S)
    BY DEF CancelOccurrencesTx
  <2>2. \A x \in Slots : RowBar(Without(S)[x]) = t[x]
    <3> HIDE DEF S
    <3> QED
      BY GoneRows
  <2>3. \A x \in Slots : river_job'[x] = IF x = o THEN Occurrence(j, g, at) ELSE Without(S)[x]
    <3>1. DOMAIN Without(S) = Slots /\ Without(S) = [x \in Slots |-> Without(S)[x]]
      BY DEF Without
    <3> QED
      BY <1>5, <2>1, <3>1
  <2>4. RowBar(Occurrence(j, g, at)) = [job |-> j, group |-> g, plan |-> at, phase |-> "fresh"]
    BY <1>1, RowBarFresh
  <2>5. StoreRows' = [x \in Slots |-> RowBar(river_job'[x])]
    BY Bars
  <2>6. StoreRows' = [x \in Slots |-> IF x = o THEN RowBar(Occurrence(j, g, at)) ELSE t[x]]
    BY <2>2, <2>3, <2>5
  <2> HIDE DEF S
  <2> QED
    BY <2>4, <2>6
<1>7. StoreRows' \in Store!Added(t, j, g, at)
  <2>1. o \in {x \in Slots : StoreRows[x] = NoRow}
    BY <1>5, StoreSets
  <2> QED
    BY <1>6, <2>1, Zenon DEF Store!Added
<1>8. UNCHANGED gua_groups
  BY DEF Active
<1> HIDE DEF t
<1> QED
  BY <1>2, <1>3, <1>4, <1>7, <1>8 DEF Store!Active

\* Pause takes the waiting occurrences of the job.
LEMMA PauseMaps ==
    ASSUME TypeOK, NEW g \in Groups, NEW j \in Jobs, Pause(g, j)
    PROVE  Store!Pause(g, j)
<1> DEFINE S == {o \in Slots : Pending(o) /\ JobOf(o) = j}
<1>1. gua_jobs[j] \in JobRow /\ j \in Store!Owned(g) /\ Store!OfJob({j}) = S
  BY StoreSets DEF Pause, Owns, TypeOK
<1>2. StoreJobs' = [StoreJobs EXCEPT ![j].active = FALSE]
  <2>1. gua_jobs' = [gua_jobs EXCEPT ![j] = [gua_jobs[j] EXCEPT !.active = FALSE]]
    BY DEF Pause, TypeOK
  <2>2. StoreJobs' = [StoreJobs EXCEPT ![j] = [JobBar(gua_jobs[j]) EXCEPT !.active = FALSE]]
    <3>1. JobBar([gua_jobs[j] EXCEPT !.active = FALSE])
          = [JobBar(gua_jobs[j]) EXCEPT !.active = FALSE]
      BY <1>1, JobBarUpdates, Zenon
    <3>2. StoreJobs' = [StoreJobs EXCEPT ![j] =
                           JobBar([gua_jobs[j] EXCEPT !.active = FALSE])]
      BY <2>1, OneJob, Zenon
    <3> QED
      BY <3>1, <3>2, Zenon
  <2>3. StoreJobs[j] = JobBar(gua_jobs[j]) /\ StoreJobs = [i \in Jobs |-> JobBar(gua_jobs[i])]
    BY Bars
  <2> QED
    BY <2>2, <2>3
<1>3. StoreRows' \in Store!TakenBack(Store!OfJob({j}), Store!OfJob({j}))
  <2>1. river_job' = Without(S)
    BY DEF Pause, CancelOccurrencesTx
  <2> HIDE DEF S
  <2>2. StoreRows' = [o \in Slots |-> IF o \in S THEN NoRow ELSE StoreRows[o]]
    BY <2>1, GoneRows
  <2> QED
    BY <1>1, <2>2, AllTaken
<1> QED
  BY <1>1, <1>2, <1>3 DEF Pause, Store!Pause

\* Delete takes them with the definition.
LEMMA DeleteMaps ==
    ASSUME TypeOK, NEW g \in Groups, NEW j \in Jobs, Delete(g, j)
    PROVE  Store!Delete(g, j)
<1> DEFINE S == {o \in Slots : Pending(o) /\ JobOf(o) = j}
<1>1. j \in Store!Owned(g) /\ Store!OfJob({j}) = S
  BY StoreSets DEF Delete
<1>2. StoreJobs' = Store!WithoutJobs({j})
  <2>1. gua_jobs' = [i \in Jobs |-> IF i \in {j} THEN NoJob ELSE gua_jobs[i]]
    BY DEF Delete, TypeOK
  <2> QED
    BY <2>1, GoneJobs
<1>3. StoreRows' \in Store!TakenBack(Store!OfJob({j}), Store!OfJob({j}))
  <2>1. river_job' = Without(S)
    BY DEF Delete, CancelOccurrencesTx
  <2> HIDE DEF S
  <2>2. StoreRows' = [o \in Slots |-> IF o \in S THEN NoRow ELSE StoreRows[o]]
    BY <2>1, GoneRows
  <2> QED
    BY <1>1, <2>2, AllTaken
<1> QED
  BY <1>1, <1>2, <1>3 DEF Delete, Store!Delete

\* DeleteJobs deletes jobs of the group, and their waiting occurrences that name it.
LEMMA DeleteJobsMaps ==
    ASSUME TypeOK, NEW g \in Groups, NEW names, DeleteJobs(g, names)
    PROVE  \E del \in SUBSET Store!Owned(g) : Store!DeleteJobs(g, del)
<1> DEFINE del == {j \in Jobs : Owns(g, j) /\ gua_jobs[j].name \in names}
           S == {o \in Slots : Pending(o) /\ river_job[o].group = g /\ JobOf(o) \in del}
<1>1. /\ gua_jobs' = [j \in Jobs |-> IF j \in del THEN NoJob ELSE gua_jobs[j]]
      /\ river_job' = Without(S)
      /\ UNCHANGED gua_groups
  BY Zenon DEF DeleteJobs
<1>2. del \subseteq Store!Owned(g)
  BY StoreSets
<1>3. Store!OfJob(del) \cap Store!OfGroup(g) = S
  <2> HIDE DEF del
  <2>1. /\ Store!OfJob(del) = {o \in Slots : Pending(o) /\ JobOf(o) \in del}
        /\ Store!OfGroup(g) = {o \in Slots : Pending(o) /\ river_job[o].group = g}
    BY StoreSets, Zenon
  <2> QED
    BY <2>1
<1> HIDE DEF del, S
<1>4. StoreJobs' = Store!WithoutJobs(del)
  BY <1>1, GoneJobs
<1>5. StoreRows' = [o \in Slots |-> IF o \in S THEN NoRow ELSE StoreRows[o]]
  BY <1>1, GoneRows
<1>6. StoreRows' \in Store!TakenBack(S, S)
  BY <1>5, AllTaken
<1> QED
  BY <1>1, <1>2, <1>3, <1>4, <1>6 DEF Store!DeleteJobs

-----------------------------------------------------------------------------
(* River and the executors *)

\* An executor past loadJob runs an occurrence of its job.
LEMMA WorkIsRun ==
    ASSUME TypeInv, NEW o \in Slots, work[o] # Idle
    PROVE  /\ Running(o) /\ river_job[o] \in Row /\ JobOf(o) \in Jobs
           /\ o \in Store!InPhase({"running"}) /\ Store!IsRun(JobOf(o))
<1>1. IsRow(o) /\ ~Pending(o) /\ river_job[o] \in Row
  BY DEF TypeInv, TypeOK, Consistent, IsRow
<1>2. Running(o) /\ JobOf(o) \in Jobs
  BY <1>1 DEF Pending, Running, JobOf, Row
<1>3. o \in Store!InPhase({"running"}) /\ StoreRows[o].job = JobOf(o)
  BY <1>1, <1>2, StoreSets, BarsNull DEF TypeInv
<1> QED
  BY <1>1, <1>2, <1>3 DEF Store!IsRun

\* A claim.
LEMMA ClaimMaps ==
    ASSUME TypeInv, NEW o \in Slots, JobGetAvailable(o)
    PROVE  Store!Claim(o)
<1>1. river_job[o] \in Row /\ Pending(o) /\ Claimed(river_job[o]) \in Row
  BY ClaimedType DEF JobGetAvailable, TypeInv, TypeOK, IsRow, Pending
<1>2. o \in Store!InPhase({"fresh", "retry"})
  BY <1>1, StoreSets DEF TypeInv
<1>3. river_job' = [river_job EXCEPT ![o] = Claimed(river_job[o])]
  BY DEF JobGetAvailable
<1>4. StoreRows' = [StoreRows EXCEPT ![o] = [RowBar(river_job[o]) EXCEPT !.phase = "running"]]
  <2>1. StoreRows' = [StoreRows EXCEPT ![o] = RowBar(Claimed(river_job[o]))]
    BY <1>3, OneRow, Zenon DEF TypeInv
  <2>2. RowBar(Claimed(river_job[o])) = [RowBar(river_job[o]) EXCEPT !.phase = "running"]
    BY <1>1, RowBarClaimed, Zenon
  <2> QED
    BY <2>1, <2>2, Zenon
<1>5. StoreRows[o] = RowBar(river_job[o])
  BY Bars
<1>6. StoreRows' = [StoreRows EXCEPT ![o].phase = "running"]
  BY <1>4, <1>5, Zenon
<1>7. UNCHANGED <<gua_groups, StoreJobs>>
  BY SameBars DEF JobGetAvailable
<1> QED
  BY <1>2, <1>6, <1>7, Zenon DEF Store!Claim

\* The scheduler, a load, a delivery, a cancelled context, a lost executor and a
\* failed attempt change nothing the store sees.
LEMMA Unseen ==
    ASSUME TypeInv, NEW o \in Slots,
           JobSchedule(o) \/ LoadJob(o) \/ Deliver(o) \/ RetryLater(o) \/ CancelWork(o)
           \/ LoseExecutor(o)
    PROVE  UNCHANGED <<gua_groups, StoreJobs, StoreRows>>
<1>1. CASE JobSchedule(o)
  <2>1. river_job[o] \in Row /\ Due(river_job[o])
    BY <1>1 DEF JobSchedule, TypeInv, TypeOK, IsRow
  <2>2. StoreRows' = [StoreRows EXCEPT ![o] = RowBar(Scheduled(river_job[o]))]
    BY <1>1, OneRow DEF JobSchedule, TypeInv
  <2>3. StoreRows' = StoreRows
    BY <2>1, <2>2, RowBarScheduled, Bars
  <2> QED
    BY <1>1, <2>3, SameBars DEF JobSchedule
<1>2. CASE LoadJob(o) \/ Deliver(o) \/ RetryLater(o) \/ CancelWork(o) \/ LoseExecutor(o)
  <2>1. UNCHANGED <<gua_groups, gua_jobs, river_job>>
    BY <1>2, Zenon DEF LoadJob, Deliver, RetryLater, CancelWork, LoseExecutor, tables
  <2> QED
    BY <2>1, SameBars
<1> QED
  BY <1>1, <1>2

\* A row that ran is handed back, or finished.
LEMMA HandBack ==
    ASSUME TypeInv, RunCounted, NEW o \in Slots, Running(o), UNCHANGED <<gua_groups, gua_jobs>>,
           NEW r, river_job' = [river_job EXCEPT ![o] = r],
           r = NoRow \/ \E s \in {"available", "retryable"} : r = [river_job[o] EXCEPT !.state = s]
    PROVE  Store!Requeue(o) \/ Store!Finish(o)
<1>1. river_job[o] \in Row /\ river_job[o].attempt # 0
  BY DEF TypeInv, TypeOK, RunCounted, Running, IsRow
<1>2. o \in Store!InPhase({"running"})
  BY StoreSets DEF TypeInv
<1>3. StoreRows' = [StoreRows EXCEPT ![o] = RowBar(r)]
  BY OneRow, Zenon DEF TypeInv
<1>4. UNCHANGED <<gua_groups, StoreJobs>>
  BY SameBars
<1>5. CASE r = NoRow
  <2>1. RowBar(r) = NoRow
    BY <1>5 DEF RowBar
  <2> QED
    BY <1>2, <1>3, <1>4, <2>1, Zenon DEF Store!Finish
<1>6. ASSUME NEW s \in {"available", "retryable"}, r = [river_job[o] EXCEPT !.state = s]
      PROVE  Store!Requeue(o)
  <2>1. RowBar(r) = [RowBar(river_job[o]) EXCEPT !.phase = "retry"]
    BY <1>1, <1>6, RowBarRetry, Zenon
  <2>2. RowBar(river_job[o]) = StoreRows[o]
    BY Bars
  <2>3. StoreRows' = [StoreRows EXCEPT ![o].phase = "retry"]
    BY <1>3, <2>1, <2>2, Zenon
  <2> QED
    BY <1>2, <1>4, <2>3, Zenon DEF Store!Requeue
<1> QED
  BY <1>5, <1>6

\* The completer, and the rescuer.
LEMMA EndMaps ==
    ASSUME TypeInv, RunCounted, NEW o \in Slots, Complete(o) \/ JobRescue(o)
    PROVE  Store!Requeue(o) \/ Store!Finish(o)
<1>1. CASE Complete(o)
  <2>1. PICK r \in (IF work[o].res = "ok" THEN {NoRow} ELSE SetErrored(river_job[o])) :
           river_job' = [river_job EXCEPT ![o] = r]
    BY <1>1 DEF Complete
  <2>2. r = NoRow \/ \E s \in {"available", "retryable"} : r = [river_job[o] EXCEPT !.state = s]
    BY <2>1 DEF SetErrored
  <2>3. Running(o) /\ UNCHANGED <<gua_groups, gua_jobs>>
    BY <1>1, WorkIsRun DEF Complete, At
  <2> QED
    BY <2>1, <2>2, <2>3, HandBack, Zenon
<1>2. CASE JobRescue(o)
  <2>1. /\ river_job' = [river_job EXCEPT ![o] = Rescued(river_job[o])]
        /\ Running(o) /\ UNCHANGED <<gua_groups, gua_jobs>>
    BY <1>2 DEF JobRescue
  <2>2. \/ Rescued(river_job[o]) = NoRow
        \/ \E s \in {"available", "retryable"} :
              Rescued(river_job[o]) = [river_job[o] EXCEPT !.state = s]
    BY DEF Rescued
  <2> QED
    BY <2>1, <2>2, HandBack, Zenon
<1> QED
  BY <1>1, <1>2

\* A pause of a definition that is still there is a Stop, of one that is gone
\* nothing.
LEMMA DeactivatedMaps ==
    ASSUME TypeInv, NEW o \in Slots, work[o] # Idle, gua_jobs' = Deactivated(JobOf(o)),
           UNCHANGED <<gua_groups, river_job>>
    PROVE  Store!Stop(JobOf(o)) \/ UNCHANGED <<gua_groups, StoreJobs, StoreRows>>
<1> DEFINE j == JobOf(o)
<1>1. j \in Jobs /\ Store!IsRun(j)
  BY WorkIsRun
<1> HIDE DEF j
<1>2. CASE gua_jobs[j] = NoJob
  BY <1>2, SameBars DEF Deactivated, j
<1>3. CASE gua_jobs[j] # NoJob
  <2>1. gua_jobs[j] \in JobRow /\ StoreJobs[j] # NoJob
    BY <1>1, <1>3, BarsNull DEF TypeInv, TypeOK
  <2>2. gua_jobs' = [gua_jobs EXCEPT ![j] = [gua_jobs[j] EXCEPT !.active = FALSE]]
    BY <1>1, <1>3 DEF Deactivated, TypeInv, TypeOK, j
  <2>3. JobBar([gua_jobs[j] EXCEPT !.active = FALSE]) = [JobBar(gua_jobs[j]) EXCEPT !.active = FALSE]
    BY <2>1, JobBarUpdates, Zenon
  <2>4. StoreJobs' = [StoreJobs EXCEPT ![j] = JobBar([gua_jobs[j] EXCEPT !.active = FALSE])]
    BY <1>1, <2>2, OneJob, Zenon DEF TypeInv
  <2>5. StoreJobs[j] = JobBar(gua_jobs[j])
    BY <1>1, Bars
  <2>6. StoreJobs' = [StoreJobs EXCEPT ![j].active = FALSE]
    BY <2>3, <2>4, <2>5, Zenon
  <2>7. UNCHANGED <<gua_groups, StoreRows>>
    BY SameBars
  <2> QED
    BY <1>1, <2>1, <2>6, <2>7, Zenon DEF Store!Stop, j
<1> QED
  BY <1>2, <1>3

\* What settles a delivery: a Stop, a Drop, or nothing when the statement fails.
LEMMA SettleMaps ==
    ASSUME TypeInv, NEW o \in Slots, PauseExhausted(o) \/ PauseBadPattern(o) \/ DropOnce(o)
    PROVE  \/ \E j \in Jobs : Store!Stop(j) \/ Store!Drop(j)
           \/ UNCHANGED <<gua_groups, StoreJobs, StoreRows>>
<1>1. work[o] # Idle /\ UNCHANGED <<gua_groups, river_job>>
  BY DEF PauseExhausted, PauseBadPattern, DropOnce, At
<1>2. JobOf(o) \in Jobs /\ Store!IsRun(JobOf(o))
  BY <1>1, WorkIsRun
<1>3. CASE UNCHANGED gua_jobs
  BY <1>1, <1>3, SameBars
<1>4. CASE gua_jobs' = Deactivated(JobOf(o))
  BY <1>1, <1>2, <1>4, DeactivatedMaps
<1>5. CASE gua_jobs' = [gua_jobs EXCEPT ![JobOf(o)] = NoJob]
  <2>1. gua_jobs' = [i \in Jobs |-> IF i \in {JobOf(o)} THEN NoJob ELSE gua_jobs[i]]
    BY <1>2, <1>5 DEF TypeInv, TypeOK
  <2>2. StoreJobs' = Store!WithoutJobs({JobOf(o)})
    BY <2>1, GoneJobs DEF TypeInv
  <2>3. Store!Drop(JobOf(o))
    BY <1>1, <1>2, <2>2, SameBars DEF Store!Drop
  <2> QED
    BY <1>2, <2>3
<1> QED
  BY <1>3, <1>4, <1>5 DEF PauseExhausted, PauseBadPattern, DropOnce, SwallowingErrors

\* scheduleNext schedules, or rolls back.
LEMMA ScheduleMaps ==
    ASSUME TypeInv, NEW o \in Slots, ScheduleNext(o)
    PROVE  \/ \E j \in Jobs, g \in Groups, at \in PlanTimes : Store!ScheduleNext(j, g, at)
           \/ UNCHANGED <<gua_groups, StoreJobs, StoreRows>>
<1>1. At(o, "settle") /\ work[o] # Idle /\ UNCHANGED gua_groups
  BY DEF ScheduleNext, At
<1>2. \/ UNCHANGED <<gua_jobs, river_job>>
      \/ \E next \in NextTimes(work[o].def.pattern) : ScheduleNextTx(o, next)
  BY DEF ScheduleNext
<1>3. ASSUME NEW next \in NextTimes(work[o].def.pattern), ScheduleNextTx(o, next)
      PROVE  \E j \in Jobs, g \in Groups, at \in PlanTimes : Store!ScheduleNext(j, g, at)
  <2> DEFINE j == JobOf(o)
             g == work[o].def.group
  <2>1. j \in Jobs /\ Store!IsRun(j) /\ next \in PlanTimes
    BY <1>1, WorkIsRun DEF NextTimes
  <2>2. g \in Groups
    BY <1>1 DEF TypeInv, Consistent, Def
  <2>3. PICK p \in Free : river_job' = [river_job EXCEPT ![p] = Occurrence(j, g, next)]
    BY <1>3, Zenon DEF ScheduleNextTx
  <2>4. IsActive(j) /\ gua_jobs' = [gua_jobs EXCEPT ![j].exectime = next]
    BY <1>3, Zenon DEF ScheduleNextTx
  <2> HIDE DEF j, g
  <2>5. gua_jobs[j] \in JobRow /\ StoreJobs[j] # NoJob /\ StoreJobs[j].active
    BY <2>1, <2>4, BarsNull DEF IsActive, TypeInv
  <2>6. StoreJobs' = [StoreJobs EXCEPT ![j].exectime = next]
    <3>1. gua_jobs' = [gua_jobs EXCEPT ![j] = [gua_jobs[j] EXCEPT !.exectime = next]]
      BY <2>1, <2>4 DEF TypeInv, TypeOK
    <3>2. StoreJobs' = [StoreJobs EXCEPT ![j] = JobBar([gua_jobs[j] EXCEPT !.exectime = next])]
      BY <2>1, <3>1, OneJob, Zenon DEF TypeInv
    <3>3. JobBar([gua_jobs[j] EXCEPT !.exectime = next])
          = [JobBar(gua_jobs[j]) EXCEPT !.exectime = next]
      BY <2>1, <2>5, JobBarUpdates, Zenon
    <3>4. StoreJobs[j] = JobBar(gua_jobs[j])
      BY <2>1, Bars
    <3> QED
      BY <3>2, <3>3, <3>4, Zenon
  <2>7. StoreRows' \in Store!Added(StoreRows, j, g, next)
    BY <2>1, <2>2, <2>3, OneAdded, Zenon DEF TypeInv
  <2>8. Store!ScheduleNext(j, g, next)
    BY <1>1, <2>1, <2>5, <2>6, <2>7, Zenon DEF Store!ScheduleNext
  <2> QED
    BY <2>1, <2>2, <2>8
<1> QED
  BY <1>1, <1>2, <1>3, SameBars

-----------------------------------------------------------------------------
(* The refinement *)

\* An initial database of the model is one of the store.
LEMMA InitMaps == Init => Store!Init /\ RunCounted
<1> SUFFICES ASSUME Init PROVE Store!Init /\ RunCounted
  OBVIOUS
<1>1. TypeOK
  BY InitType DEF TypeInv
<1>2. \A j \in Jobs : gua_jobs[j] # NoJob => gua_jobs[j].group \in gua_groups
  BY DEF Init
<1>3. \A o \in Slots : IsRow(o) =>
         /\ Pending(o) /\ river_job[o] \in Row
         /\ gua_jobs[JobOf(o)] # NoJob /\ gua_jobs[JobOf(o)].group = river_job[o].group
         /\ gua_jobs[JobOf(o)].active
  <2>1. CASE river_job = [o \in Slots |-> NoRow]
    BY <2>1 DEF IsRow
  <2>2. CASE river_job # [o \in Slots |-> NoRow]
    <3>1. PICK g \in Groups, j \in Jobs, n \in Names, u \in Urls, at \in Times, o \in Slots :
              /\ gua_jobs = [i \in Jobs |->
                     IF i = j THEN [group |-> g, name |-> n, url |-> u,
                                    pattern |-> "bad", exectime |-> at, active |-> TRUE]
                     ELSE NoJob]
              /\ river_job = [p \in Slots |->
                     IF p = o THEN Occurrence(j, g, at) ELSE NoRow]
      BY <2>2 DEF Init
    <3>2. \A x \in Slots : IsRow(x) => river_job[x] = Occurrence(j, g, at)
      BY <3>1 DEF IsRow
    <3>3. /\ gua_jobs[j].group = g /\ gua_jobs[j].active /\ gua_jobs[j] # NoJob
      <4>1. "bad" \in Patterns
        BY <2>2 DEF Init
      <4>2. gua_jobs[j] \in JobRow
        BY <3>1, <4>1 DEF JobRow
      <4> QED
        BY <3>1, <4>2, NoJobAssumption
    <3> QED
      BY <3>2, <3>3, OccurrenceType DEF Pending, JobOf
  <2> QED
    BY <2>1, <2>2
<1>4. gua_groups \in SUBSET Groups
  BY <1>1 DEF TypeOK
<1>5. StoreJobs \in [Jobs -> StoreDef \cup {NoJob}]
  <2>1. ASSUME NEW j \in Jobs
        PROVE  JobBar(gua_jobs[j]) \in StoreDef \cup {NoJob}
    <3>1. gua_jobs[j] \in JobRow \/ gua_jobs[j] = NoJob
      BY <1>1 DEF TypeOK
    <3>2. JobBar(NoJob) = NoJob
      BY DEF JobBar
    <3> QED
      BY <3>1, <3>2, JobBarFacts
  <2> QED
    BY <2>1, Bars
<1>6. StoreRows \in [Slots -> StoreOcc \cup {NoRow}]
  <2>1. ASSUME NEW o \in Slots
        PROVE  RowBar(river_job[o]) \in StoreOcc \cup {NoRow}
    <3>1. river_job[o] \in Row \/ river_job[o] = NoRow
      BY <1>1 DEF TypeOK
    <3>2. RowBar(NoRow) = NoRow
      BY DEF RowBar
    <3> QED
      BY <3>1, <3>2, RowBarFacts
  <2> QED
    BY <2>1, Bars
<1>7. \A j \in Jobs : StoreJobs[j] # NoJob => StoreJobs[j].group \in gua_groups
  BY <1>1, <1>2, BarsNull
<1>8. \A o \in Store!InPhase({"fresh"}) :
         /\ StoreRows[o].job \in Store!Owned(StoreRows[o].group)
         /\ StoreJobs[StoreRows[o].job].active
  <2> SUFFICES ASSUME NEW o \in Slots, IsRow(o)
               PROVE  /\ StoreRows[o].job \in Store!Owned(StoreRows[o].group)
                      /\ StoreJobs[StoreRows[o].job].active
    BY <1>1, BarsNull DEF Store!InPhase
  <2>1. JobOf(o) \in Jobs
    BY <1>3 DEF JobOf, Row
  <2>2. StoreRows[o].job = JobOf(o) /\ StoreRows[o].group = river_job[o].group
    BY <1>1, BarsNull
  <2>3. StoreJobs[JobOf(o)].active /\ JobOf(o) \in Store!Owned(river_job[o].group)
    BY <1>1, <1>3, <2>1, BarsNull DEF Store!Owned
  <2> QED
    BY <2>2, <2>3
<1>9. RunCounted
  BY <1>3 DEF RunCounted, Running, Pending
<1> QED
  BY <1>4, <1>5, <1>6, <1>7, <1>8, <1>9
     DEF Store!Init, Store!Def, Store!Occ, StoreDef, StoreOcc

\* Every client transaction is a step of the store, or none.
LEMMA ClientMaps ==
    ASSUME TypeInv, ClientStep
    PROVE  [Store!Next]_(Store!vars)
<1>0. TypeOK
  BY DEF TypeInv
<1>1. ASSUME NEW g \in Groups, GroupStep(g)
      PROVE  Store!GroupStep
  BY <1>0, <1>1, RegisterGroupMaps, RemoveGroupMaps DEF GroupStep, Store!GroupStep
<1>2. ASSUME NEW g \in Groups, NEW j \in Jobs, JobStep(g, j)
      PROVE  Store!JobStep \/ UNCHANGED <<gua_groups, StoreJobs, StoreRows>>
  <2>1. ASSUME NEW n \in Names, NEW u \in Urls, NEW p \in Patterns, NEW at \in Times,
               Push(j, g, n, u, p, at)
        PROVE  Store!JobStep
    <3>1. Store!Push(j, g, at) /\ at \in PlanTimes
      BY <1>0, <2>1, PushMaps
    <3> QED
      BY <3>1 DEF Store!JobStep
  <2>2. ASSUME NEW at \in Times, Active(g, j, at)
        PROVE  Store!JobStep
    <3>1. Store!Active(g, j, at) /\ at \in PlanTimes
      BY <1>0, <2>2, ActiveMaps
    <3> QED
      BY <3>1 DEF Store!JobStep
  <2>3. CASE Pause(g, j)
    BY <1>0, <2>3, PauseMaps DEF Store!JobStep
  <2>4. CASE Delete(g, j)
    BY <1>0, <2>4, DeleteMaps DEF Store!JobStep
  <2>5. ASSUME NEW u \in Urls, Edit(g, j, u)
        PROVE  UNCHANGED <<gua_groups, StoreJobs, StoreRows>>
    BY <1>0, <2>5, EditMaps
  <2> QED
    BY <1>2, <2>1, <2>2, <2>3, <2>4, <2>5, Zenon DEF JobStep
<1>3. ASSUME NEW g \in Groups, NEW names, DeleteJobs(g, names)
      PROVE  Store!JobStep
  <2>1. \E del \in SUBSET Store!Owned(g) : Store!DeleteJobs(g, del)
    BY <1>0, <1>3, DeleteJobsMaps, Zenon
  <2> QED
    BY <2>1, Zenon DEF Store!JobStep
<1> QED
  BY <1>1, <1>2, <1>3, Zenon DEF ClientStep, Store!Next, Store!vars

\* Every step of River and of an executor is a step of the store, or none.
LEMMA QueueMaps ==
    ASSUME TypeInv, RunCounted, NEW o \in Slots, QueueStep(o)
    PROVE  [Store!Next]_(Store!vars)
<1>1. CASE JobGetAvailable(o)
  <2>1. Store!Claim(o)
    BY <1>1, ClaimMaps
  <2> QED
    BY <2>1, Zenon DEF Store!Next, Store!ExecutorStep
<1>2. CASE JobSchedule(o) \/ LoadJob(o) \/ Deliver(o) \/ RetryLater(o) \/ CancelWork(o)
           \/ LoseExecutor(o)
  BY <1>2, Unseen, Zenon DEF Store!vars
<1>3. CASE PauseExhausted(o) \/ PauseBadPattern(o) \/ DropOnce(o)
  BY <1>3, SettleMaps, Zenon DEF Store!Next, Store!ExecutorStep, Store!vars
<1>4. CASE ScheduleNext(o)
  BY <1>4, ScheduleMaps, Zenon DEF Store!Next, Store!ExecutorStep, Store!vars
<1>5. CASE Complete(o) \/ JobRescue(o)
  <2>1. Store!Requeue(o) \/ Store!Finish(o)
    BY <1>5, EndMaps, Zenon
  <2> QED
    BY <2>1, Zenon DEF Store!Next, Store!ExecutorStep
<1> QED
  BY <1>1, <1>2, <1>3, <1>4, <1>5, Zenon DEF QueueStep, WorkStep, FaultStep

\* Every step of the queue is a step of the store, or none.
LEMMA NextMaps == TypeInv /\ RunCounted /\ [Next]_vars => [Store!Next]_(Store!vars)
<1> SUFFICES ASSUME TypeInv, RunCounted, [Next]_vars
             PROVE  [Store!Next]_(Store!vars)
  OBVIOUS
<1>1. CASE ClientStep
  BY <1>1, ClientMaps
<1>2. ASSUME NEW o \in Slots, QueueStep(o)
      PROVE  [Store!Next]_(Store!vars)
  BY <1>2, QueueMaps
<1>3. CASE UNCHANGED vars
  BY <1>3, SameBars DEF vars, Store!vars
<1> QED
  BY <1>1, <1>2, <1>3, Zenon DEF Next

\* The queue of riverquene.go implements the store that the Quene interface of
\* types.go promises: a client operation is one atomic change of its own group,
\* job and occurrences, and only an executor that runs an occurrence of a job
\* schedules, stops or drops it.
THEOREM Refinement == Spec => ImplementsStore
<1>1. Init => Store!Init /\ TypeInv /\ RunCounted
  BY InitMaps, InitType
<1>2. TypeInv /\ RunCounted /\ [Next]_vars => TypeInv' /\ RunCounted'
  BY NextType, StepCounted
<1>3. TypeInv /\ RunCounted /\ [Next]_vars => [Store!Next]_(Store!vars)
  BY NextMaps
<1> QED
  BY <1>1, <1>2, <1>3, PTL DEF Spec, ImplementsStore, Store!Spec
=============================================================================
