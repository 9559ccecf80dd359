----------------------------- MODULE RiverQuene -----------------------------
(***************************************************************************)
(* gua's queue: delayquene/riverquene.go over one Postgres database.       *)
(*                                                                         *)
(* Clients manage groups and job definitions through short transactions    *)
(* (Push, Edit, Active, Pause, Delete, DeleteJobs, RegisterGroup,          *)
(* RemoveGroup).  Executors of any number of gua nodes claim due           *)
(* occurrences and run guaDeliverWorker.Work: load the definition, deliver *)
(* the envelope, settle (pause, drop, or schedule the next occurrence) and *)
(* report to River.  Executors can be cancelled (drain timeout, per-job    *)
(* timeout), can vanish (node crash, lost completion), and every statement *)
(* they send to the database can fail.                                     *)
(*                                                                         *)
(* Grain of atomicity.  An action is one database transaction, or one      *)
(* remote call, of the code.  Work holds no transaction across its calls,  *)
(* so its steps interleave freely with the clients and with each other.    *)
(* A client transaction is one step: statement-level races between two     *)
(* client transactions are outside this module.                            *)
(*                                                                         *)
(* Simplifications.  Nodes are not named: a node crash is the loss of its  *)
(* executors, a shutdown the cancellation of them.  Clocks are abstracted: *)
(* a scheduled row becomes due at any moment, an abandoned row is rescued  *)
(* at any moment after its executor is gone (riverJobTimeout <             *)
(* rescueAfter keeps a live executor from being rescued).  The log         *)
(* gua_executions is written by Work and read by nothing in this module,   *)
(* and is left out of it.                                                  *)
(***************************************************************************)
EXTENDS RiverJob, FiniteSets

CONSTANTS
    Names,       \* job names (DeleteJobs filters on them)
    Urls,        \* delivery targets
    Patterns,    \* interval patterns: "once", "recurring", "never", "bad"
    Slots,       \* bound: rows river_job can hold at a time; a slot is the row's id
    MaxWorkers,  \* executors of the whole fleet
    MaxBacklog,  \* outcomes of Work that River's completer holds unwritten
    Faults,      \* the failures considered: "storage", "cancel", "lost"
    NoJob,       \* no such definition
    Idle         \* no executor

\* "recurring": a pattern with a next date; "never": one that parses but matches
\* no date (30 February); "bad": one that does not parse.
ASSUME PatternsAssumption == Patterns \subseteq {"once", "recurring", "never", "bad"}
ASSUME FaultsAssumption == Faults \subseteq {"storage", "cancel", "lost"}
\* NewRiver replaces a MaxWorkers <= 0 by the default 50.
ASSUME MaxWorkersAssumption == MaxWorkers \in Nat \ {0}
ASSUME MaxBacklogAssumption == MaxBacklog \in Nat

JobRow == [group : Groups, name : Names, url : Urls, pattern : Patterns,
           exectime : PlanTimes, active : BOOLEAN]

\* What Work keeps of the definition it loaded.
Def == [group : Groups, url : Urls, pattern : Patterns]

\* A run of Work: where it stands, the definition it loaded, the result of the
\* delivery (or, at "report", of Work), and whether its context is cancelled.
Exec == [pc : {"load", "deliver", "settle", "report"}, def : Def \cup {NoJob},
         res : {"ok", "err"}, cancelled : BOOLEAN]

ASSUME NoJobAssumption == NoJob \notin JobRow \cup Def
ASSUME IdleAssumption == Idle \notin Exec

VARIABLES
    gua_groups,  \* the registered groups
    gua_jobs,    \* the definitions: [Jobs -> JobRow or NoJob]
    river_job,   \* the live occurrences: [Slots -> Row or NoRow]
    work,        \* the executor running each occurrence: [Slots -> Exec or Idle]
    \* history variables: no guard reads them
    forked,      \* jobs that may own two chains of occurrences, see below
    severed,     \* jobs whose chain may have ended without a trace, see below
    acked        \* occurrences whose delivery succeeded in an execution not lost since

tables == <<gua_groups, gua_jobs, river_job>>
history == <<forked, severed, acked>>
vars == <<gua_groups, gua_jobs, river_job, work, forked, severed, acked>>

-----------------------------------------------------------------------------
(* Reading the state *)

IsRow(o) == river_job[o] # NoRow
Pending(o) == IsRow(o) /\ river_job[o].state \in PendingStates
Running(o) == IsRow(o) /\ river_job[o].state = "running"
At(o, pc) == work[o] # Idle /\ work[o].pc = pc
JobOf(o) == river_job[o].job
IsActive(j) == gua_jobs[j] # NoJob /\ gua_jobs[j].active

\* Mutant: the worker's test is off by one.
LastAttemptOffByOne(o) == river_job[o].attempt > MaxAttempts

\* The worker's own test, `job.Attempt >= job.MaxAttempts`.
LastAttempt(o) == river_job[o].attempt >= MaxAttempts

\* An occurrence is armed while it can still lead to a delivery or to the next
\* occurrence of its job: it waits, or is being worked, or will be retried, or
\* is abandoned in `running` with a rescue to come.
Armed(o) ==
    /\ IsRow(o)
    /\ \/ river_job[o].state \in PendingStates
       \/ At(o, "load") \/ At(o, "deliver") \/ At(o, "settle")
       \/ At(o, "report") /\ work[o].res = "err" /\ ~LastAttempt(o)
       \/ work[o] = Idle /\ ~LastAttempt(o)

ArmedOf(j) == {o \in Slots : Armed(o) /\ JobOf(o) = j}

Free == {o \in Slots : river_job[o] = NoRow}

\* Bound: a client inserts only where one more slot stays free, so that the
\* table's size never keeps a worker from scheduling.
Roomy == \E o, p \in Free : o # p

-----------------------------------------------------------------------------
(* Clients: one transaction each.  A refused request changes nothing. *)

RegisterGroup(g) ==
    /\ g \notin gua_groups
    /\ gua_groups' = gua_groups \cup {g}
    /\ UNCHANGED <<gua_jobs, river_job, work, history>>

\* DELETE FROM river_job of the given rows.
Without(rows) == [o \in Slots |-> IF o \in rows THEN NoRow ELSE river_job[o]]

\* acked only speaks of live rows.
AckedIn(rows) == {o \in acked : rows[o] # NoRow}

\* Mutant: the state list forgets `retryable`.
CancelForgetsRetryable(j) ==
    Without({o \in Slots : Pending(o) /\ JobOf(o) = j /\ river_job[o].state # "retryable"})

CancelOccurrencesTx(j) == Without({o \in Slots : Pending(o) /\ JobOf(o) = j})

\* DELETE of the group's definitions, of its pending occurrences, of the group.
RemoveGroup(g) ==
    /\ g \in gua_groups
    /\ gua_groups' = gua_groups \ {g}
    /\ gua_jobs' = [j \in Jobs |->
           IF gua_jobs[j] # NoJob /\ gua_jobs[j].group = g THEN NoJob ELSE gua_jobs[j]]
    /\ river_job' = Without({o \in Slots : Pending(o) /\ river_job[o].group = g})
    /\ acked' = AckedIn(river_job')
    /\ UNCHANGED <<work, forked, severed>>

\* (history) A client inserts a fresh occurrence for j while the armed
\* occurrences `others` of j live on: j is armed again, with a second chain if
\* there are any.
Rearmed(j, others) ==
    /\ severed' = severed \ {j}
    /\ forked' = IF others = {} THEN forked \ {j} ELSE forked \cup {j}

\* Push refuses a pattern that does not parse, an unknown group, a known id.
Push(j, g, n, u, p, at) ==
    /\ p # "bad"
    /\ g \in gua_groups
    /\ gua_jobs[j] = NoJob
    /\ Roomy
    /\ gua_jobs' = [gua_jobs EXCEPT ![j] =
           [group |-> g, name |-> n, url |-> u, pattern |-> p,
            exectime |-> at, active |-> TRUE]]
    /\ \E o \in Free : river_job' = [river_job EXCEPT ![o] = Occurrence(j, g, at)]
    /\ Rearmed(j, ArmedOf(j))
    /\ UNCHANGED <<gua_groups, work, acked>>

\* Mutant: the WHERE clause forgets the group.
OwnsById(g, j) == gua_jobs[j] # NoJob

\* The `WHERE id=$1 AND group_name=$2` of the next four operations.
Owns(g, j) == gua_jobs[j] # NoJob /\ gua_jobs[j].group = g

\* Mutant: Edit also moves the job to the caller's group.
EditMoves(g, j, u) ==
    /\ gua_jobs[j] # NoJob
    /\ gua_jobs' = [gua_jobs EXCEPT ![j].url = u, ![j].group = g]
    /\ UNCHANGED <<gua_groups, river_job, work, history>>

Edit(g, j, u) ==
    /\ Owns(g, j)
    /\ gua_jobs' = [gua_jobs EXCEPT ![j].url = u]
    /\ UNCHANGED <<gua_groups, river_job, work, history>>

Active(g, j, at) ==
    /\ Owns(g, j)
    /\ Roomy
    /\ gua_jobs' = [gua_jobs EXCEPT ![j].active = TRUE, ![j].exectime = at]
    /\ LET kept == CancelOccurrencesTx(j) IN
       /\ \E o \in Free : river_job' = [kept EXCEPT ![o] = Occurrence(j, g, at)]
       /\ Rearmed(j, {o \in ArmedOf(j) : Running(o)})
       /\ acked' = AckedIn(kept)
    /\ UNCHANGED <<gua_groups, work>>

\* Mutant: the occurrence is left to the worker's own check.
PauseKeepsOccurrence(g, j) ==
    /\ Owns(g, j)
    /\ gua_jobs' = [gua_jobs EXCEPT ![j].active = FALSE]
    /\ UNCHANGED <<gua_groups, river_job, work, acked, forked, severed>>

Pause(g, j) ==
    /\ Owns(g, j)
    /\ gua_jobs' = [gua_jobs EXCEPT ![j].active = FALSE]
    /\ river_job' = CancelOccurrencesTx(j)
    /\ acked' = AckedIn(river_job')
    /\ UNCHANGED <<gua_groups, work, forked, severed>>

Delete(g, j) ==
    /\ Owns(g, j)
    /\ gua_jobs' = [gua_jobs EXCEPT ![j] = NoJob]
    /\ river_job' = CancelOccurrencesTx(j)
    /\ acked' = AckedIn(river_job')
    /\ UNCHANGED <<gua_groups, work, forked, severed>>

\* names is Names for name == "" (every job of the group), else one name.
DeleteJobs(g, names) ==
    LET del == {j \in Jobs : Owns(g, j) /\ gua_jobs[j].name \in names} IN
    /\ del # {}
    /\ gua_jobs' = [j \in Jobs |-> IF j \in del THEN NoJob ELSE gua_jobs[j]]
    /\ river_job' = Without({o \in Slots :
           Pending(o) /\ river_job[o].group = g /\ JobOf(o) \in del})
    /\ acked' = AckedIn(river_job')
    /\ UNCHANGED <<gua_groups, work, forked, severed>>

-----------------------------------------------------------------------------
(* River: the scheduler and the producers *)

JobSchedule(o) ==
    /\ IsRow(o) /\ Due(river_job[o])
    /\ river_job' = [river_job EXCEPT ![o] = Scheduled(@)]
    /\ UNCHANGED <<gua_groups, gua_jobs, work, history>>

\* An executor is free again once its outcome is in the completer's backlog.
FreeWorker ==
    LET busy == {p \in Slots : work[p] # Idle}
        waiting == {p \in busy : At(p, "report")} IN
    /\ Cardinality(busy \ waiting) < MaxWorkers
    /\ Cardinality(busy) < MaxWorkers + MaxBacklog

\* An executor with a free worker claims the row and enters Work.
JobGetAvailable(o) ==
    /\ IsRow(o) /\ river_job[o].state = "available"
    /\ FreeWorker
    /\ river_job' = [river_job EXCEPT ![o] = Claimed(@)]
    /\ work' = [work EXCEPT ![o] =
           [pc |-> "load", def |-> NoJob, res |-> "ok", cancelled |-> FALSE]]
    /\ UNCHANGED <<gua_groups, gua_jobs, history>>

-----------------------------------------------------------------------------
(* guaDeliverWorker.Work *)

\* A statement sent with a cancelled context fails; any other may, when the
\* database or the connection to it does.
MayFail(o) == work[o].cancelled \/ "storage" \in Faults
MaySucceed(o) == ~work[o].cancelled

\* Work returns nil ("ok") or an error.
Return(o, res) ==
    work' = [work EXCEPT ![o] =
        [pc |-> "report", def |-> NoJob, res |-> res, cancelled |-> FALSE]]

\* (history) Work returns an error that River will not retry.
SeveredIfLast(o) == severed' = IF LastAttempt(o) THEN severed \cup {JobOf(o)} ELSE severed

LoadJob(o) ==
    /\ At(o, "load")
    /\ \/ /\ MaySucceed(o) /\ IsActive(JobOf(o))
          /\ LET row == gua_jobs[JobOf(o)] IN
             work' = [work EXCEPT ![o].pc = "deliver", ![o].def =
                 [group |-> row.group, url |-> row.url, pattern |-> row.pattern]]
          /\ UNCHANGED severed
       \/ /\ MaySucceed(o) /\ ~IsActive(JobOf(o))
          /\ Return(o, "ok")
          /\ UNCHANGED severed
       \/ /\ MayFail(o)
          /\ Return(o, "err")
          /\ SeveredIfLast(o)
    /\ UNCHANGED <<tables, forked, acked>>

\* deliver: the consumer accepts, or anything else happens (refusal, timeout,
\* unreachable target, cancelled context).
Deliver(o) ==
    /\ At(o, "deliver")
    /\ \/ /\ MaySucceed(o)
          /\ work' = [work EXCEPT ![o].pc = "settle", ![o].res = "ok"]
          /\ acked' = acked \cup {o}
       \/ /\ work' = [work EXCEPT ![o].pc = "settle", ![o].res = "err"]
          /\ UNCHANGED acked
    /\ UNCHANGED <<tables, forked, severed>>

\* `derr != nil` with attempts left.
RetryLater(o) ==
    /\ At(o, "settle") /\ work[o].res = "err" /\ ~LastAttempt(o)
    /\ Return(o, "err")
    /\ UNCHANGED <<tables, history>>

\* UPDATE gua_jobs SET active=false WHERE id=$1
Deactivated(j) ==
    IF gua_jobs[j] = NoJob THEN gua_jobs ELSE [gua_jobs EXCEPT ![j].active = FALSE]

\* The statement succeeds, or fails and the failure is logged and swallowed.
SwallowingErrors(o, jobs) ==
    \/ MaySucceed(o) /\ gua_jobs' = jobs /\ UNCHANGED severed
    \/ MayFail(o) /\ severed' = severed \cup {JobOf(o)} /\ UNCHANGED gua_jobs

\* `derr != nil` on the last attempt: pause the definition.
PauseExhausted(o) ==
    /\ At(o, "settle") /\ work[o].res = "err" /\ LastAttempt(o)
    /\ SwallowingErrors(o, Deactivated(JobOf(o)))
    /\ Return(o, "err")
    /\ UNCHANGED <<gua_groups, river_job, forked, acked>>

\* Mutant: Work returns the error of a failed drop, and River retries.
DropOnceOrRetry(o) ==
    /\ At(o, "settle") /\ work[o].res = "ok" /\ work[o].def.pattern = "once"
    /\ \/ /\ MaySucceed(o)
          /\ gua_jobs' = [gua_jobs EXCEPT ![JobOf(o)] = NoJob]
          /\ Return(o, "ok")
       \/ MayFail(o) /\ Return(o, "err") /\ UNCHANGED gua_jobs
    /\ UNCHANGED <<gua_groups, river_job, history>>

\* Delivered, fire-once: drop the definition.
DropOnce(o) ==
    /\ At(o, "settle") /\ work[o].res = "ok" /\ work[o].def.pattern = "once"
    /\ SwallowingErrors(o, [gua_jobs EXCEPT ![JobOf(o)] = NoJob])
    /\ Return(o, "ok")
    /\ UNCHANGED <<gua_groups, river_job, forked, acked>>

\* Delivered, but the pattern no longer parses: pause the definition.
PauseBadPattern(o) ==
    /\ At(o, "settle") /\ work[o].res = "ok" /\ work[o].def.pattern = "bad"
    /\ SwallowingErrors(o, Deactivated(JobOf(o)))
    /\ Return(o, "ok")
    /\ UNCHANGED <<gua_groups, river_job, forked, acked>>

\* sch.Next(time.Now()): some later time, or the zero time.
NextTimes(pattern) == IF pattern = "never" THEN {ZeroTime} ELSE Times

\* Mutant: the definition keeps its old exectime.
ScheduleNextKeepsExectime(o, next) ==
    /\ IsActive(JobOf(o))
    /\ \E p \in Free :
           river_job' = [river_job EXCEPT ![p] =
               Occurrence(JobOf(o), work[o].def.group, next)]
    /\ UNCHANGED gua_jobs

\* Mutant: RowsAffected() is not looked at.
ScheduleNextUnguarded(o, next) ==
    /\ gua_jobs' = IF IsActive(JobOf(o))
                   THEN [gua_jobs EXCEPT ![JobOf(o)].exectime = next] ELSE gua_jobs
    /\ \E p \in Free :
           river_job' = [river_job EXCEPT ![p] =
               Occurrence(JobOf(o), work[o].def.group, next)]

\* The transaction of scheduleNext.
ScheduleNextTx(o, next) ==
    /\ IsActive(JobOf(o))
    /\ gua_jobs' = [gua_jobs EXCEPT ![JobOf(o)].exectime = next]
    /\ \E p \in Free :
           river_job' = [river_job EXCEPT ![p] =
               Occurrence(JobOf(o), work[o].def.group, next)]

\* Delivered, recurring: schedule the next occurrence.
ScheduleNext(o) ==
    /\ At(o, "settle") /\ work[o].res = "ok" /\ work[o].def.pattern \in {"recurring", "never"}
    /\ \/ /\ MaySucceed(o)
          /\ \E next \in NextTimes(work[o].def.pattern) : ScheduleNextTx(o, next)
          /\ Return(o, "ok")
          /\ UNCHANGED <<forked, severed>>
       \/ /\ MaySucceed(o) /\ ~IsActive(JobOf(o))     \* RowsAffected() == 0
          /\ Return(o, "ok")
          /\ UNCHANGED <<gua_jobs, river_job, forked, severed>>
       \/ /\ MayFail(o)                               \* rolled back
          /\ Return(o, "err")
          /\ SeveredIfLast(o)
          /\ UNCHANGED <<gua_jobs, river_job, forked>>
       \/ /\ MaySucceed(o) /\ Faults \cap {"storage", "cancel"} # {}
          /\ \E next \in NextTimes(work[o].def.pattern) : ScheduleNextTx(o, next)
          /\ Return(o, "err")                         \* committed, the answer lost
          /\ forked' = IF LastAttempt(o) THEN forked ELSE forked \cup {JobOf(o)}
          /\ UNCHANGED severed
    /\ UNCHANGED <<gua_groups, acked>>

-----------------------------------------------------------------------------
(* River: the completer, and what can happen to an executor *)

\* The completer writes the outcome of Work to the row.
Complete(o) ==
    /\ At(o, "report")
    /\ \E r \in (IF work[o].res = "ok" THEN {NoRow} ELSE SetErrored(river_job[o])) :
           river_job' = [river_job EXCEPT ![o] = r]
    /\ work' = [work EXCEPT ![o] = Idle]
    /\ acked' = AckedIn(river_job')
    /\ UNCHANGED <<gua_groups, gua_jobs, forked, severed>>

\* The soft stop's drain timeout, or River's JobTimeout, cancels Work's context.
CancelWork(o) ==
    /\ "cancel" \in Faults
    /\ At(o, "load") \/ At(o, "deliver") \/ At(o, "settle")
    /\ work' = [work EXCEPT ![o].cancelled = TRUE]
    /\ UNCHANGED <<tables, history>>

\* The node crashes, or the completer gives up after its retries: the row stays
\* `running` and nobody works it.
LoseExecutor(o) ==
    /\ "lost" \in Faults
    /\ work[o] # Idle
    /\ work' = [work EXCEPT ![o] = Idle]
    /\ acked' = acked \ {o}
    /\ forked' = IF work[o].pc = "report" /\ work[o].res = "ok" /\ ~LastAttempt(o)
                 THEN forked \cup {JobOf(o)} ELSE forked
    /\ severed' = IF work[o].pc # "report" /\ LastAttempt(o)
                  THEN severed \cup {JobOf(o)} ELSE severed
    /\ UNCHANGED tables

\* JobRescuer: rescueAfter has passed, the executor is gone.
JobRescue(o) ==
    /\ Running(o) /\ work[o] = Idle
    /\ river_job' = [river_job EXCEPT ![o] = Rescued(@)]
    /\ acked' = AckedIn(river_job')
    /\ UNCHANGED <<gua_groups, gua_jobs, work, forked, severed>>

-----------------------------------------------------------------------------
(* The specification *)

\* An empty database, or one written before Push validated patterns: a
\* definition whose pattern does not parse, waiting to fire.
Init ==
    /\ work = [o \in Slots |-> Idle]
    /\ forked = {} /\ severed = {} /\ acked = {}
    /\ \/ /\ gua_groups = {}
          /\ gua_jobs = [j \in Jobs |-> NoJob]
          /\ river_job = [o \in Slots |-> NoRow]
       \/ /\ "bad" \in Patterns
          /\ \E g \in Groups, j \in Jobs, n \in Names, u \in Urls, at \in Times, o \in Slots :
                /\ gua_groups = {g}
                /\ gua_jobs = [i \in Jobs |->
                       IF i = j THEN [group |-> g, name |-> n, url |-> u,
                                      pattern |-> "bad", exectime |-> at, active |-> TRUE]
                       ELSE NoJob]
                /\ river_job = [p \in Slots |->
                       IF p = o THEN Occurrence(j, g, at) ELSE NoRow]

GroupStep(g) == RegisterGroup(g) \/ RemoveGroup(g)

JobStep(g, j) ==
    \/ \E n \in Names, u \in Urls, p \in Patterns, at \in Times : Push(j, g, n, u, p, at)
    \/ \E u \in Urls : Edit(g, j, u)
    \/ \E at \in Times : Active(g, j, at)
    \/ Pause(g, j)
    \/ Delete(g, j)

ClientStep ==
    \/ \E g \in Groups : GroupStep(g)
    \/ \E g \in Groups, j \in Jobs : JobStep(g, j)
    \/ \E g \in Groups : DeleteJobs(g, Names)
    \/ \E g \in Groups, n \in Names : DeleteJobs(g, {n})

WorkStep(o) ==
    \/ LoadJob(o) \/ Deliver(o)
    \/ RetryLater(o) \/ PauseExhausted(o) \/ DropOnce(o) \/ PauseBadPattern(o) \/ ScheduleNext(o)
    \/ Complete(o)

FaultStep(o) == CancelWork(o) \/ LoseExecutor(o)

QueueStep(o) == JobSchedule(o) \/ JobGetAvailable(o) \/ WorkStep(o) \/ FaultStep(o) \/ JobRescue(o)

Next == ClientStep \/ \E o \in Slots : QueueStep(o)

Spec == Init /\ [][Next]_vars

\* The time the code's scheduling guarantees: River's scheduler and rescuer run
\* on a timer on the elected leader; a delivery is bounded by its timeout and
\* Work has no loop, so an executor that is not lost moves on; River claims
\* available rows in the order of scheduled_at, so a row that is claimable again
\* and again is claimed.
Fairness ==
    \A o \in Slots :
        /\ WF_vars(JobSchedule(o))
        /\ SF_vars(JobGetAvailable(o))
        /\ WF_vars(WorkStep(o))
        /\ WF_vars(JobRescue(o))

FairSpec == Spec /\ Fairness

-----------------------------------------------------------------------------
(* Properties *)

\* Every variable has its type; in particular no occurrence is attempted more
\* often than max_attempts allows (jobGetAvailable adds one to attempt without
\* a test: reportError and the rescuer must have discarded the row before).
TypeOK ==
    /\ gua_groups \in SUBSET Groups
    /\ gua_jobs \in [Jobs -> JobRow \cup {NoJob}]
    /\ river_job \in [Slots -> Row \cup {NoRow}]
    /\ work \in [Slots -> Exec \cup {Idle}]
    /\ forked \in SUBSET Jobs /\ severed \in SUBSET Jobs /\ acked \in SUBSET Slots

\* A job has one chain of occurrences: never two that can both still fire or
\* schedule.  The exceptions are exactly the ways the code can fork a chain:
\* Active or Push while an occurrence is being worked (only pending rows are
\* cancelled), an execution lost after it scheduled its successor, and a
\* scheduleNext that committed but answered with an error.
AtMostOneArmed ==
    \A o, p \in Slots :
        Armed(o) /\ Armed(p) /\ JobOf(o) = JobOf(p) /\ JobOf(o) \notin forked => o = p

\* A definition shown as active has an occurrence that will fire: the chain is
\* handed on before the old occurrence ends, exhausted jobs are paused.  The
\* exceptions are exactly the ways the code can end a chain silently: a last
\* attempt that fails outside deliver (load, scheduleNext), a last attempt that
\* is lost, and a pause or drop whose statement fails and is only logged (see
\* ActiveIsArmed).
NeverSilentlyDead ==
    \A j \in Jobs : IsActive(j) /\ j \notin severed => ArmedOf(j) # {}

\* The exectime that List shows is the plan time of the occurrence to come, for
\* every way that sets either (Push, Active, scheduleNext, retries).
ExectimeIsNextFire ==
    \A o \in Slots :
        Armed(o) /\ IsActive(JobOf(o)) /\ JobOf(o) \notin forked
            => river_job[o].plan = gua_jobs[JobOf(o)].exectime

\* "Never return an error here - a retry would re-deliver a job that already
\* succeeded": an occurrence of a fire-once job whose delivery succeeded is not
\* delivered again, unless the execution was lost before River knew.
OnceNotRedelivered ==
    \A o \in Slots :
        /\ At(o, "deliver") /\ work[o].def.pattern = "once" /\ JobOf(o) \notin forked
        => o \notin acked

\* What Work pauses, drops or reschedules by id alone is the definition it
\* loaded: its group and pattern are still the loaded ones, unless the job was
\* deleted and pushed again meanwhile.
SettlesWhatItLoaded ==
    \A o \in Slots :
        /\ At(o, "deliver") \/ At(o, "settle")
        /\ JobOf(o) \notin forked
        /\ gua_jobs[JobOf(o)] # NoJob
        => /\ work[o].def.pattern = gua_jobs[JobOf(o)].pattern
           /\ work[o].def.group = gua_jobs[JobOf(o)].group

\* "If the job was paused or deleted in the meantime nothing is inserted": a
\* step that inserts an occurrence leaves its definition active, with the
\* occurrence's plan time on it.
InsertOnlyForActive ==
    [][\A o \in Slots :
          river_job[o] = NoRow /\ river_job'[o] # NoRow =>
              LET row == gua_jobs'[river_job'[o].job] IN
              row # NoJob /\ row.active /\ row.exectime = river_job'[o].plan]_vars

\* Every occurrence ends: whatever fails, is cancelled, is lost or is rescued,
\* its row is finalised or cancelled after at most max_attempts runs.
EveryFiringEnds == \A o \in Slots : IsRow(o) ~> ~IsRow(o)

\* Left alone, an active job is delivered successfully, or visibly stops being
\* active (exhausted and paused, or dropped): from some point on without client
\* requests, activity leads to one of the two, unless the job's chain is cut in
\* one of the ways NeverSilentlyDead excepts.
FiresOrStops ==
    <>[][~ClientStep]_vars =>
        \A j \in Jobs :
            IsActive(j) ~> \/ ~IsActive(j)
                           \/ j \in severed
                           \/ \E o \in acked : IsRow(o) /\ JobOf(o) = j

\* docs/ARCHITECTURE.md: "`Active` never adds a second occurrence".
ActiveNeverAddsASecond ==
    \A o, p \in Slots : Pending(o) /\ Pending(p) /\ JobOf(o) = JobOf(p) => o = p

\* An active job has an occurrence that can still lead to a delivery: MaxAttempts
\* is how often one firing is tried "before it is given up and the job is paused"
\* (riverquene.go:29-30), "so the exhausted job stays visible"
\* (docs/ARCHITECTURE.md:50-52).  Not so when the last attempt fails at loadJob:
\* Work only returns the error (riverquene.go:243-244) and River discards the row.
ActiveIsArmed == \A j \in Jobs : IsActive(j) => ArmedOf(j) # {}
=============================================================================
