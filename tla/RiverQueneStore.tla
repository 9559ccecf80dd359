--------------------------- MODULE RiverQueneStore --------------------------
(***************************************************************************)
(* RiverQuene implements JobStore: whatever fails, is cancelled, is lost   *)
(* or is retried in an executor, each step of the detailed model is one    *)
(* operation of the store or no change of it.                              *)
(*                                                                         *)
(* The mapping forgets the delivery target, the name and the pattern of a  *)
(* definition, the executors, and of River's states and attempt counts     *)
(* everything but whether a row waits for its first run, waits for another *)
(* one, or runs.                                                           *)
(***************************************************************************)
EXTENDS RiverQuene

\* The null values are no rows of the store either.
ASSUME StoreNullAssumption ==
    /\ NoJob \notin [group : Groups, exectime : PlanTimes, active : BOOLEAN]
    /\ NoRow \notin [job : Jobs, group : Groups, plan : PlanTimes,
                    phase : {"fresh", "retry", "running"}]

StoreJobs ==
    [j \in Jobs |->
        IF gua_jobs[j] = NoJob THEN NoJob
        ELSE [group |-> gua_jobs[j].group, exectime |-> gua_jobs[j].exectime,
              active |-> gua_jobs[j].active]]

Phase(row) ==
    IF row.state = "running" THEN "running" ELSE IF row.attempt = 0 THEN "fresh" ELSE "retry"

StoreRows ==
    [o \in Slots |->
        IF river_job[o] = NoRow THEN NoRow
        ELSE [job |-> river_job[o].job, group |-> river_job[o].group,
              plan |-> river_job[o].plan, phase |-> Phase(river_job[o])]]

Store == INSTANCE JobStore WITH
    Times <- PlanTimes, groups <- gua_groups, jobs <- StoreJobs, rows <- StoreRows

\* The queue keeps the promises of the Quene interface (types.go): a client
\* operation is atomic and touches only its own group, job and occurrences, and
\* only an executor that runs a job's occurrence schedules, stops or drops it,
\* also when it is retried, cancelled, lost and rescued.
ImplementsStore == Store!Spec
=============================================================================
