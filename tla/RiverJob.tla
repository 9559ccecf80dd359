------------------------------ MODULE RiverJob ------------------------------
(***************************************************************************)
(* One row of the table river_job, as gua uses it, and what River does to  *)
(* it.  A row is one OCCURRENCE: one planned firing of a gua job.  It      *)
(* carries the identity of the firing (job id, group name, plan time) and  *)
(* River's own bookkeeping (state, attempt).  max_attempts is the same for *)
(* every row: the client-wide default that NewRiver configures.            *)
(*                                                                         *)
(* River's three final states (completed, discarded, cancelled) are not    *)
(* told apart: no code of gua reads a finalised row and River never runs   *)
(* one again, so a finalised row is simply gone (NoRow).                   *)
(***************************************************************************)
EXTENDS Naturals

CONSTANTS
    Jobs,         \* job ids
    Groups,       \* group names
    Times,        \* ordinary unix times (exec_time, plan_time)
    ZeroTime,     \* Go's zero time.Time: what SpecSchedule.Next returns when no date matches
    MaxAttempts,  \* RiverConfig.MaxAttempts, after NewRiver's default
    NoRow         \* "there is no such row"

\* NewRiver replaces a MaxAttempts <= 0 by the default 25.
ASSUME MaxAttemptsAssumption == MaxAttempts \in Nat \ {0}

\* An ordinary time never equals Go's zero time: exec_time < 0 is rejected, and
\* the zero time is the negative unix time -62135596800.
ASSUME ZeroTimeAssumption == ZeroTime \notin Times

\* The states gua's SQL calls pending: `pendingStates`.
PendingStates == {"available", "scheduled", "retryable", "pending"}

PlanTimes == Times \cup {ZeroTime}

Row == [job : Jobs, group : Groups, plan : PlanTimes,
        state : PendingStates \cup {"running"}, attempt : 0..MaxAttempts]

ASSUME NoRowAssumption == NoRow \notin Row

\* InsertTx with InsertOpts{ScheduledAt: at}: a non-zero time is `scheduled`;
\* a zero time counts as "not given" and the row is `available` at once.
Occurrence(j, g, at) ==
    [job |-> j, group |-> g, plan |-> at, attempt |-> 0,
     state |-> IF at = ZeroTime THEN "available" ELSE "scheduled"]

\* Mutant: retryable rows are never promoted.
DueOnlyScheduled(r) == r.state = "scheduled"

\* JobSchedule moves a due row to available.
Due(r) == r.state \in {"scheduled", "retryable"}
Scheduled(r) == [r EXCEPT !.state = "available"]

\* JobGetAvailable claims an available row and counts the attempt.
Claimed(r) == [r EXCEPT !.state = "running", !.attempt = @ + 1]

\* reportError: `jobRow.Attempt >= jobRow.MaxAttempts` discards the row; a
\* retry is available at once when its backoff is within the scheduler's
\* interval, otherwise retryable.
RetriesLeft(r) == ~(r.attempt >= MaxAttempts)

\* Mutant: a failed attempt is given back, as River's snooze does.
SetErroredUncounted(r) ==
    {[r EXCEPT !.state = s, !.attempt = @ - 1] : s \in {"available", "retryable"}}

SetErrored(r) ==
    IF RetriesLeft(r)
    THEN {[r EXCEPT !.state = s] : s \in {"available", "retryable"}}
    ELSE {NoRow}

\* Mutant: off by one in the rescuer.
RescuedOffByOne(r) ==
    IF r.attempt <= MaxAttempts THEN [r EXCEPT !.state = "retryable"] ELSE NoRow

\* JobRescuer.makeRetryDecision for a row stuck in `running`.
Rescued(r) ==
    IF r.attempt < MaxAttempts THEN [r EXCEPT !.state = "retryable"] ELSE NoRow
=============================================================================
