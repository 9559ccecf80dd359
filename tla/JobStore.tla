------------------------------ MODULE JobStore ------------------------------
(***************************************************************************)
(* What gua's store promises: the Quene interface of delayquene/types.go,  *)
(* every operation one atomic step on three tables.                        *)
(*                                                                         *)
(* A client operation changes its own group, its own job and the           *)
(* occurrences of its own job and nothing else; only an executor that runs *)
(* an occurrence of a job schedules, stops or drops that job.  An          *)
(* occurrence is `fresh` until River hands it to an executor, and waits    *)
(* again, as `retry`, when that execution did not end it.                  *)
(*                                                                         *)
(* Operations that take back occurrences must take back every fresh one.   *)
(* They may leave one that waits for a retry: it can have come back from   *)
(* an executor between the statement that deletes and the commit, and the  *)
(* worker looks at the definition again before it delivers.                *)
(***************************************************************************)

CONSTANTS
    Jobs,    \* job ids
    Groups,  \* group names
    Times,   \* plan times
    Slots,   \* the rows the table of occurrences can hold
    NoJob,   \* no such definition
    NoRow    \* no such occurrence

VARIABLES
    groups,  \* the registered groups
    jobs,    \* the definitions: [Jobs -> Def or NoJob]
    rows     \* the live occurrences: [Slots -> Occ or NoRow]

vars == <<groups, jobs, rows>>

Def == [group : Groups, exectime : Times, active : BOOLEAN]
Occ == [job : Jobs, group : Groups, plan : Times, phase : {"fresh", "retry", "running"}]

-----------------------------------------------------------------------------
(* Reading the state *)

InPhase(phases) == {o \in Slots : rows[o] # NoRow /\ rows[o].phase \in phases}
OfJob(ids) == {o \in InPhase({"fresh", "retry"}) : rows[o].job \in ids}
OfGroup(g) == {o \in InPhase({"fresh", "retry"}) : rows[o].group = g}
Owned(g) == {j \in Jobs : jobs[j] # NoJob /\ jobs[j].group = g}
IsRun(j) == \E o \in InPhase({"running"}) : rows[o].job = j

\* Some table in which the fresh ones of `must` and any of `may` are gone.
TakenBack(must, may) ==
    {[o \in Slots |-> IF o \in gone THEN NoRow ELSE rows[o]] :
        gone \in {x \in SUBSET may : must \cap InPhase({"fresh"}) \subseteq x}}

\* The tables that have one more, fresh, occurrence than t.
Added(t, j, g, at) ==
    {[t EXCEPT ![o] = [job |-> j, group |-> g, plan |-> at, phase |-> "fresh"]] :
        o \in {x \in Slots : rows[x] = NoRow}}

WithoutJobs(ids) == [j \in Jobs |-> IF j \in ids THEN NoJob ELSE jobs[j]]

-----------------------------------------------------------------------------
(* Clients *)

RegisterGroup(g) ==
    /\ groups' = groups \cup {g}
    /\ UNCHANGED <<jobs, rows>>

\* An occurrence that names the group but whose job lives in another group by
\* now may go or stay.
RemoveGroup(g) ==
    /\ g \in groups
    /\ groups' = groups \ {g}
    /\ jobs' = WithoutJobs(Owned(g))
    /\ rows' \in TakenBack({o \in OfGroup(g) : rows[o].job \in Owned(g)}, OfGroup(g))

Push(j, g, at) ==
    /\ g \in groups
    /\ jobs[j] = NoJob
    /\ jobs' = [jobs EXCEPT ![j] =
           [group |-> g, exectime |-> at, active |-> TRUE]]
    /\ rows' \in Added(rows, j, g, at)
    /\ UNCHANGED groups

Active(g, j, at) ==
    /\ j \in Owned(g)
    /\ jobs' = [jobs EXCEPT ![j].active = TRUE, ![j].exectime = at]
    /\ \E t \in TakenBack(OfJob({j}), OfJob({j})) : rows' \in Added(t, j, g, at)
    /\ UNCHANGED groups

Pause(g, j) ==
    /\ j \in Owned(g)
    /\ jobs' = [jobs EXCEPT ![j].active = FALSE]
    /\ rows' \in TakenBack(OfJob({j}), OfJob({j}))
    /\ UNCHANGED groups

Delete(g, j) ==
    /\ j \in Owned(g)
    /\ jobs' = WithoutJobs({j})
    /\ rows' \in TakenBack(OfJob({j}), OfJob({j}))
    /\ UNCHANGED groups

\* All jobs of the group or those of one name; a job pushed while the operation
\* runs may stay.  The statement looks for occurrences that name the group, too.
DeleteJobs(g, del) ==
    /\ del \subseteq Owned(g)
    /\ jobs' = WithoutJobs(del)
    /\ rows' \in TakenBack(OfJob(del) \cap OfGroup(g), OfJob(del) \cap OfGroup(g))
    /\ UNCHANGED groups

-----------------------------------------------------------------------------
(* River and the executors *)

Claim(o) ==
    /\ o \in InPhase({"fresh", "retry"})
    /\ rows' = [rows EXCEPT ![o].phase = "running"]
    /\ UNCHANGED <<groups, jobs>>

Requeue(o) ==
    /\ o \in InPhase({"running"})
    /\ rows' = [rows EXCEPT ![o].phase = "retry"]
    /\ UNCHANGED <<groups, jobs>>

Finish(o) ==
    /\ o \in InPhase({"running"})
    /\ rows' = [rows EXCEPT ![o] = NoRow]
    /\ UNCHANGED <<groups, jobs>>

ScheduleNext(j, g, at) ==
    /\ IsRun(j)
    /\ jobs[j] # NoJob /\ jobs[j].active
    /\ jobs' = [jobs EXCEPT ![j].exectime = at]
    /\ rows' \in Added(rows, j, g, at)
    /\ UNCHANGED groups

Stop(j) ==
    /\ IsRun(j)
    /\ jobs[j] # NoJob
    /\ jobs' = [jobs EXCEPT ![j].active = FALSE]
    /\ UNCHANGED <<groups, rows>>

Drop(j) ==
    /\ IsRun(j)
    /\ jobs' = WithoutJobs({j})
    /\ UNCHANGED <<groups, rows>>

-----------------------------------------------------------------------------

\* A database of gua: definitions live in registered groups and every fresh
\* occurrence belongs to an active definition of its group.
Init ==
    /\ groups \in SUBSET Groups
    /\ jobs \in [Jobs -> Def \cup {NoJob}]
    /\ rows \in [Slots -> Occ \cup {NoRow}]
    /\ \A j \in Jobs : jobs[j] # NoJob => jobs[j].group \in groups
    /\ \A o \in InPhase({"fresh"}) :
           /\ rows[o].job \in Owned(rows[o].group)
           /\ jobs[rows[o].job].active

GroupStep == \E g \in Groups : RegisterGroup(g) \/ RemoveGroup(g)

JobStep ==
    \/ \E g \in Groups, j \in Jobs, at \in Times : Push(j, g, at) \/ Active(g, j, at)
    \/ \E g \in Groups, j \in Jobs : Pause(g, j) \/ Delete(g, j)
    \/ \E g \in Groups : \E del \in SUBSET Owned(g) : DeleteJobs(g, del)

ExecutorStep ==
    \/ \E o \in Slots : Claim(o) \/ Requeue(o) \/ Finish(o)
    \/ \E j \in Jobs, g \in Groups, at \in Times : ScheduleNext(j, g, at)
    \/ \E j \in Jobs : Stop(j) \/ Drop(j)

Next == GroupStep \/ ExecutorStep \/ JobStep

Spec == Init /\ [][Next]_vars
=============================================================================
