# gua: a TLA+ verification project

gua is a delayed and recurring job trigger.  Clients register *groups*, push
*job definitions* into them (an execution time, an interval pattern, an HTTP or
gRPC target) over a REST or a gRPC admin API; gua delivers a trigger envelope to
the target when the time has come, retries failed deliveries, and schedules the
next firing of a recurring job.  All state is in one Postgres database shared by
any number of gua nodes; the queueing is done by River, a vendored job queue
over the same database.  The node itself keeps no state between two steps except
the executions in flight.

This directory holds the models of that system, the TLC configurations that
check them on small instances, and machine-checked proofs.

## 1. Inventory

| component | source | state | operations |
|---|---|---|---|
| queue core | `delayquene/riverquene.go` | tables `gua_groups`, `gua_jobs`; rows of kind `gua_delivery` in `river_job`; executions of `Work` in flight | `RegisterGroup`, `RemoveGroup`, `Push`, `Edit`, `Active`, `Pause`, `Delete`, `DeleteJobs`; `guaDeliverWorker.Work` (`loadJob`, `deliver`, `scheduleNext`); `Close` |
| River | `vendor/github.com/riverqueue/river` | `river_job` (`state`, `attempt`, `scheduled_at`) | insert, schedule, claim, complete / retry / discard, rescue, soft stop |
| execution history | `delayquene/riverquene.go` | table `gua_executions` | `recordExecution`, periodic `pruneWorker`, `History` |
| cron patterns | `delayquene/parser.go`, `delayquene/spec.go` | none (pure) | `Parse`, `getField`, `getRange`, `SpecSchedule.Next`, `Every` |
| gRPC client pool | `delayquene/grpcpool.go` | `conns` under an RW lock | `conn`, `Close` |
| admin APIs | `httpv1/http.go`, `grpc.go`, routes in `cmd.go`, validation in `delayquene/types.go` | none | decode, call the queue, map the error |
| start and shutdown | `cmdriver.go`, `cmd.go`, `main.go` | listeners, servers, the queue | start, signal or server error, drain, close |
| the rest | `logging.go`, `ui.go`, `internal/httpclient`, `proto/`, `example/` | none | logging, static files, one POST, generated stubs, a sample consumer |

### How the parts interact

* A client request is one database transaction (the admin APIs add nothing but
  decoding).  `Push` and `Active` write the definition *and* insert its next
  occurrence in the same transaction; `Pause`, `Delete`, `DeleteJobs` and
  `RemoveGroup` change definitions *and* delete the pending occurrences.
* An **occurrence** is a `river_job` row that carries only an identity: job id,
  group name, plan time.  River makes it `available` when it is due, an executor
  of some node claims it (`running`, `attempt + 1`) and calls `Work`.
* `Work` loads the definition, delivers, and **settles**: a failed last attempt
  pauses the definition, a delivered fire-once job is dropped, a delivered
  recurring job gets its next occurrence (`scheduleNext`, one transaction).  Its
  return value makes River complete, retry or discard the row.  So the chain of a
  recurring job's firings is carried on by the worker itself, one link at a time,
  and no transaction spans the load, the delivery, the settling and the report.

### What is hard

* *Interleaving*: clients act between any two steps of `Work`, and cancel only
  pending rows, never the one being worked.
* *Stale reads*: the definition is read once, before a delivery of up to ten
  minutes, and what is settled afterwards is found by id alone.
* *Crashes and lost answers*: an execution can vanish after any step; River's
  rescuer re-runs the row; a commit may take effect and still answer an error.
* *Errors while handling errors*: each settling statement may itself fail, with
  the worker's context already cancelled by the drain or job timeout.
* *Counters at their limit*: gua's own last-attempt test, River's discard test
  and the rescuer's test must agree.
* *Transactions*: operations of several statements run at READ COMMITTED, each
  statement with its own snapshot and its own row locks.
* *Deadlines*: delivery, job and rescue timeouts on one side, the deadlines of
  the shutdown on the other, each enforced by another party.
* *Liveness*: whatever fails, an occurrence must end and a job must fire again or
  visibly stop; a process told to stop must stop.

What makes each part correct:

* queue core: one chain of occurrences per job; an active job has an occurrence
  to come; `exectime` shows its time; no re-delivery of a delivered fire-once
  job; a worker settles the definition it loaded; nothing is inserted for a job
  paused or deleted in the meantime; every firing ends.
* transactions: each is as if it ran alone; none waits for another for ever.
* time: an occurrence never has two executors; a delivery gets the time asked
  for; records older than the TTL go in the end.
* cron: `Parse` accepts what the grammar says and denotes the sets it says;
  `Next` is the least matching instant after its argument, or the zero time.
* gRPC pool: one connection per target, none left open after `Close`.
* admin APIs: REST and gRPC answer and do the same; what they let through can be
  delivered; what they list is what is stored.
* shutdown: requests are drained before River, River before the pools, within
  the deadlines, and the process ends.

The full hazard list, with source lines and the property that covers each, is
`hazards` in `PROJECT.json`.

## 2. Modules

| module | content |
|---|---|
| `RiverJob` | one row of `river_job` and what River does to it: insert, promotion of due rows, claim, the outcome of a failed attempt, rescue |
| `RiverQuene` | the queue core: state, client transactions, `Work`, faults, fairness, properties |
| `MCRiverQuene` | instance for TLC (slot symmetry); the constants' values are in the `.cfg` files |
| `RiverQueneProofs` | theorems and proofs about `RiverQuene`: chains of occurrences; executions of `Work`; the refinement |
| `JobStore` | abstract specification: what the `Quene` interface promises, every operation one atomic step on groups, definitions and occurrences |
| `RiverQueneStore` | the refinement mapping from `RiverQuene` to `JobStore` |
| `AdminTx`, `MCAdminTx`, `AdminTxProofs` | the transactions statement by statement under READ COMMITTED, with row locks; also implements `JobStore` |
| `Execution`, `ExecutionProofs` | time: delivery, job and rescue timeouts over several nodes, the history and its prune job |
| `AdminApi`, `MCAdminApi`, `AdminApiProofs` | the REST and the gRPC transport over the queue's calls and validation |
| `GrpcPool` | the pool of gRPC connections |
| `Node`, `MCNode`, `NodeProofs` | one process: start, workers, admin handlers, the two pools (composes `GrpcPool`), shutdown |
| `CronParser`, `MCCronParser`, `CronParserProofs` | `Parse`: an interval pattern to a schedule, one range of one field per step; small fields and patterns for TLC |
| `CronNext`, `MCCronNext`, `CronNextProofs` | `SpecSchedule.Next`: the search for the next activation, one loop iteration per step; a small calendar for TLC |
| `MCCron` | both calls for TLC, each on inputs of its own |
| `NatLemmas` | least elements, induction and division with remainder, for the proofs |

`RiverQuene` and `AdminTx` look at the same tables from two sides (what executors
do in detail, what transactions do in detail) and meet in `JobStore`, which both
implement.  `AdminApi` takes the calls as atomic, which `AdminTx` justifies outside
the pairs of `Clash`; of these, `Push` against `RemoveGroup` is taken apart in
`AdminApi` too (`Look`, `LatePush`), and the other is about occurrences, which
`AdminApi` leaves out.
`RiverQuene` rescues only abandoned rows, which `Execution` justifies.  `RiverQuene`
and the cron models meet in two places: `RiverQuene`'s pattern kinds are the
outcomes of `CronParser` ("bad": it reports an error) and of `CronNext`
("recurring": a later time, "never": the zero time), and the bit sets that
`CronParser` computes, star bits included, are the schedules of `CronNext`.

### State of `RiverQuene`

| variable | code |
|---|---|
| `gua_groups` | table `gua_groups` (the names) |
| `gua_jobs` | table `gua_jobs`: per id, `NoJob` or group, name, url, pattern, exectime, active.  Payload, timeout and memo are data no property tells apart |
| `river_job` | live rows of kind `gua_delivery`: per slot (row id), `NoRow` or job, group, plan (the three arguments), state, attempt.  Finalised rows are `NoRow`: nothing reads them and River never runs them again |
| `work` | per slot, `Idle` or the execution of `Work`: position, loaded definition, result, whether its context is cancelled |
| `forked`, `severed`, `acked` | history variables; no guard reads them (see 3) |

### Actions of `RiverQuene`

| action | code |
|---|---|
| `RegisterGroup` ... `DeleteJobs` | the method of that name; guards are its early returns and `WHERE` clauses.  A refused request changes nothing and is no step |
| `JobSchedule`, `JobGetAvailable`, `JobRescue` | River's SQL of that name, the rescuer |
| `LoadJob` | `Work`'s first statement and the three returns after it |
| `Deliver` | `q.deliver`: success or any failure; no success under a cancelled context |
| `RetryLater`, `PauseExhausted` | the branch `derr != nil`, with and without attempts left |
| `DropOnce`, `PauseBadPattern`, `ScheduleNext` | the three ways to settle a delivered occurrence |
| `Complete` | River's executor and completer write `Work`'s outcome to the row.  The executor is free for another row before that, once the outcome is in the completer's backlog (`FreeWorker`, `MaxBacklog`) |
| `CancelWork` | drain timeout of `Close`, River's job timeout |
| `LoseExecutor` | node crash, or a completer that has given up |

An action is one transaction or one remote call.  Every statement of `Work` may
fail (`MayFail`), must fail when the context is cancelled, and the commit of
`scheduleNext` may take effect and still report an error.  Fault kinds are
switched by the constant `Faults`, so that each run says under which faults it
holds.

Abstractions: patterns are four kinds ("once", "recurring", "never" for one that
parses but matches no date, "bad" for one that does not parse and is only in
databases written before `Push` validated); times are opaque values, `ZeroTime`
is Go's zero time, for which River's insert takes "now"; clocks are left out, so
a row is due, and an abandoned row rescued, at any moment; nodes are not named,
a crash is the loss of executors one by one (any set of them, in any order);
a client transaction is atomic (see `AdminTx`).

### `JobStore` and its two implementations

`JobStore` has three variables (`groups`, `jobs`, `rows`) and says of each
operation what it may change: a client operation its own group, job and
occurrences; an executor only the job whose occurrence it runs.  An occurrence
is *fresh* until it first runs; an operation that takes occurrences back must
take back every fresh one, and may leave one that waits for a retry (it can have
come back from an executor between the deleting statement and the commit;
`Work` looks at the definition again before it delivers).

`RiverQueneStore` maps `RiverQuene` to it by forgetting targets, names, patterns,
executors and attempt counts; every step, under every fault, must be one
operation of `JobStore` or a stutter.

`AdminTx` has the committed tables and `tx`, the open transaction of each
session: operation, arguments, the statement it stands at, the rows found, locked
and deleted.  A statement's snapshot is taken in one step (`BeginClient`,
`Scan`), rows are locked one by one in scan order (`Lock`: wait for the holder,
then evaluate the `WHERE` clause again), writes become visible at `Commit...`; a
transaction may be rolled back at any point.  `DeleteJobs` is one statement and
keeps its first snapshot for both halves, as `WITH` does.  Postgres itself
(snapshots, locks, scan order) is external.  The mapping is the identity: a
transaction takes effect at its commit.

### `Execution`

No clock: everything that waits has an age, and `Tick` ages everything by one
unless a deadline that must be acted on has been reached (`Due`).  A row is
rescued when it has been running for longer than `RescueAfter`; a call ends when
its context does, `Work` within `Grace` of River's job timeout.  `Wrap` is int64
multiplication on a small width, so that a timeout can overflow to a negative and
to a small positive duration.  The prune job is unique in all states but cancelled
and discarded, so `InsertPrune` does nothing while a completed row is kept
(`Retention`, River's 24 hours).

### `AdminApi`

A request of either transport is decoded into a call record, the queue's
operators (`Push`, `Edit`, ...) give the sentinel error, the value and the new
tables, and the transport maps the error and converts the value (`RestValue`;
`GrpcValue` and `JobInfo`, which takes a url apart and has no timeout).  A call is
one step but for a `Push` that other calls come between: `Look` finds the group,
`LatePush` inserts the job whatever has become of the group.  A body may be over
1 MiB, which REST refuses and gRPC does not.  Names are members of two sets (valid,
refused); a `request_url` is a sequence of tokens, since `buildRequestURL` and
`parseRequestURL` put it together and take it apart.  Storage may fail before or
after the commit.  Occurrences are left out (`RiverQuene` has them).

### `GrpcPool` and `Node`

`GrpcPool` has the two critical sections of `conn` (look under the read lock;
look again and dial under the write lock) and `Close`.  `Node` has `main`, the
position of `startRiver` (new, listen, serving, http, grpc, river, pool, exited,
killed), the workers (load, look, dial, call, record, settle, sql; from the load
and the settling also back to rest) and the requests (sql, think)
with the Postgres connections they hold, and three deadlines: `shutCtx` for both
servers, River's soft stop, and the context of `Close`.  A deadline may pass at
any moment of its wait; only the order of the last two (10 s, 15 s) is kept.
A forced `grpcServer.Stop` leaves handlers running, as in the code.

### The cron modules

`CronParser` takes a pattern as the pieces `strings.Fields` and `strings.Split`
make of it: fields, in a field the expressions between commas, in an expression
the tokens between hyphens and slashes (a number, a name, a star, or junk).
`CountFields` is the choice between the five- and the six-field parser and
`expandFields`, `ParseRange` one turn of `getField`'s loop (`getRange`,
`getBits`), `ParseDescriptor` and `ParseEvery` the two kinds of descriptor.  A
bit set is the set of its bits, the star bit is 63.

`CronNext` has the code's variables (`t`, `added`) and one action per loop of
`Next`, `goto WRAP` included.  The calendar is a parameter (`FirstDay` adds up the
lengths of the months, a day's date is the month it falls in); Go's time package is
external and modelled as the code uses it: instants are numbers, `Year` ...
`Second` are local fields, `AddDate` works on the local reading, and a reading
that the start of summer time skips denotes the instant Go's `time.Date` picks.

## 3. Properties

*Known windows.*  The code has windows in which a chain can fork or end; the
properties name each one instead of leaving it out, by two history variables:

* `forked`: jobs for which (a) `Active`, or `Push` after `Delete`, inserted an
  occurrence while an older one was being worked; (b) an execution was lost after
  `Work` returned nil and before River recorded it; (c) `scheduleNext` committed
  and reported an error, with attempts left.  It is reset when the job is armed
  again with no older armed occurrence.
* `severed`: jobs for which a last attempt failed outside the delivery (load,
  `scheduleNext`), was lost, or whose pausing or dropping statement failed.  It is
  reset when a client arms the job again.

The theorems say that these are *all* the windows.

| property | meaning |
|---|---|
| `TypeOK` | types; in particular `attempt <= MaxAttempts`, which River's claim does not test |
| `AtMostOneArmed` | a job has at most one occurrence that can still fire or schedule, unless forked |
| `NeverSilentlyDead` | an active job has an occurrence to come, unless severed |
| `ExectimeIsNextFire` | `exectime` of an active job is the plan time of the occurrence to come, unless forked |
| `OnceNotRedelivered` | a delivered fire-once occurrence is not delivered again, unless its execution was lost |
| `SettlesWhatItLoaded` | the definition a worker settles by id has the group and pattern it loaded, unless forked |
| `InsertOnlyForActive` | (action) a step that inserts an occurrence leaves its definition active with that exectime |
| `EveryFiringEnds` | (liveness) every row is finalised or cancelled in the end |
| `FiresOrStops` | (liveness) left alone, an active job is delivered or stops being active |
| `ParsedAsWritten` | `Parse` rejects a cron pattern exactly when it makes no sense, and else the schedule has the values written, in both forms |
| `DescriptorsAgree` | a descriptor is the cron pattern it abbreviates, star bits included |
| `EveryMovesOn` | `@every`: whole seconds, at least one; the next time is later and on the second |
| `NextIsLeast` | `Next` returns the least matching instant after its argument; the zero time only if the years it covers have none |
| `NextTerminates` | (liveness) the search ends, also for dates that do not exist and fields without values |
| `ImplementsStore` | (refinement) `RiverQuene` implements `JobStore` under every fault |
| `Atomic` | (refinement) `AdminTx` implements `JobStore`: every transaction is as if it ran alone, outside the pairs of `Clash` |
| `AdminTx!TypeOK` | types; no definition and no occurrence is locked by two transactions |
| `NoDeadlock` | open transactions never all wait for each other: one of them has a next step (`ENABLED`) |
| `NoCircularWait` | no set of open transactions waits in a circle; `MayWaitFor` takes every session with deleted occurrences as one that may be in the way |
| `NeverTwoExecutors` | an occurrence has at most one live executor in the cluster, and its row is running |
| `GivenTheTimeAsked` | a call is given the job's timeout if a Duration can hold it, capped, and never none |
| `PrunedInTheEnd` | the history does not grow for ever: no record is older than the TTL, the retention of the last prune's row, an interval and a lag together; that is not what the documents say (`PrunedOnInterval`) |
| `TransportsAgree` | the same request by REST and by gRPC has the same effect and error, the same id of an added job and the same listed jobs but for the timeout, which `ListJobs` does not show, also when storage fails; a message over 1 MiB has no REST request to agree with (413) |
| `StoredIsDeliverable` | every stored definition has a url the worker can split and a pattern it can schedule by |
| `ListRoundTrip` | writing back what `ListJobs` shows changes nothing |
| `NothingOutOfReach` | what `/v1/status` counts is listed under some name, also jobs whose group is gone, and can be paused and deleted there |
| `RepeatTells` | a request whose commit took effect and answered an error can be repeated: no second effect, and the status tells |
| `Node!TypeOK` | types; exactly those at a statement hold a Postgres connection, never more than the pool has |
| `OneConnPerTarget` | one open connection per target, and the pool knows every open one |
| `DrainsBeforeClosing` | before a deadline passed nobody finds a pool or a connection closed |
| `ExitsDrained` | at the exit nothing is cut off unless its deadline passed, and nothing is left open |
| `ShutdownEnds` | (liveness) a shutdown ends, whatever consumers and handlers do |

What a document or a comment says and the code does not keep (see Findings):

| property | what is said |
|---|---|
| `ActiveNeverAddsASecond` | `Active` never adds a second occurrence |
| `ActiveIsArmed` | a job whose attempts are used up is paused, not active and dead |
| `JobsHaveGroups` | a job's group exists |
| `PrunedOnInterval` | old records are deleted every interval |

### Runs

| run | instance | states | shows |
|---|---|---|---|
| `chain` | 1 job, every kind of pattern (the zero time too), 2 attempts, 2 workers, all faults | 947 000 | types, one chain, no silent death, no re-delivery |
| `replan` | 1 job id, 2 times, 2 groups (deleted and pushed again elsewhere while old rows live), 2 attempts, lost executors | 384 000 | exectime agrees with the occurrence; inserts only for active jobs; workers settle what they loaded; group-wide cancellation spares survivors; the refinement of `JobStore` |
| `fires` | 1 job, fire-once and recurring, 2 attempts, all faults, fair | 57 000 | every occurrence ends; a job fires or stops; the refinement of `JobStore` under all faults |
| `admin_tx` | 2 sessions, 2 jobs, 2 groups, 2 occurrences, 2 executors, rollbacks; the pairs of `Clash` excluded | 1 087 000 | transactions are atomic and free of deadlock |
| `api` | 4 names (2 valid), 3 job names, urls and targets with nested prefixes and blanks, bodies that fit and that do not, all routes and methods, storage failing before and after the commit | 3 000 | the two transports agree; what is stored can be delivered, listed, written back and reached; repeats tell |
| `node` | 2 workers, 1 HTTP and 1 gRPC request, 2 targets, a pool of 2, fair | 90 000 | pools under races; shutdown order and end |
| `execution` | 2 nodes; timeouts 0, normal, above the cap, wrapping to negative and to small | 488 000 | no two executors; time given; history pruned |
| `cron` | *Parse:* every way to write one field, in patterns of 5 and 6 fields (and 0, 1, 4, 7); all descriptors; durations from -1.25s to 3.25s. *Next:* 168 schedules of dates and 96 of times of day (empty fields too), from every second of a leap year, the clock put forward once in the daytime | 935 000 | `Parse` denotes what is written; `Next` terminates with the least match, or there is none in five years |
| `active_adds`, `silent_death`, `orphan_group`, `prune_interval` | as the passing run of the same module, or smaller | - | the findings below (expected violations) |

*Bounds.*  In `RiverQuene`, `Slots` = 3: one occurrence being worked, one that replaced it and one
a worker is about to insert; `Roomy` keeps clients from taking the last free
slot, so that the bound never blocks a lone worker.  `MaxAttempts` is 2:
a first and a last attempt, one retry between them.  `MaxBacklog` (River's is 20 000) is
0 in the passing runs: the two workers of `chain` let two occurrences of a job be worked at
the same time, and one worker that claims a row while the outcome of another is not yet
written does nothing that two workers do not.  Two rows in the completer's backlog while a
third is worked are not in a run; the theorems hold for any backlog.  Slots are interchangeable
(`SlotSymmetry`), used only in runs without liveness.  The calendar of the cron
run has months of different lengths, a leap day every four years (so that a
search may need four of its five years), weeks that do not divide years, and
two or more values in every field, so that every field can wrap around; what is
bounded is the length of each unit, not the algorithm.  `CronNext` keeps the
code's five years.  In `AdminTx` two sessions are enough for every pairwise race;
two jobs let statements that lock several rows meet in both orders; `Room` starts
an inserting operation only when a slot is left for it.  In `Execution` the
constants are small but ordered as the code's (delivery 10 min < job 10.5 min <
rescue 15 min; `TimesAssumption`), and ages beyond the last deadline are one.  In
`Node` the pool is smaller than its users, so that acquiring can wait.

*Fairness* (`Fairness`).  Weak fairness for the scheduler and the rescuer, which
River's elected leader runs on a timer; weak fairness for the steps of an
execution, since a delivery has a timeout and `Work` has no loop; strong fairness
for the claim of a row, since producers fetch available rows in the order of
`scheduled_at` whenever a worker is free.  No fairness for clients, for faults,
or for the success of anything.  In `Node`: timers run, single statements end,
`startRiver` takes its next step; nothing is assumed of consumers, of handlers, or
that River's workers ever finish.

### Findings

* `active_adds`: `Active` during a delivery leads to two pending occurrences and
  two chains that never merge; `docs/ARCHITECTURE.md` says it never adds a second.
* `silent_death`: the last attempt fails at `loadJob`; `Work` only returns the error,
  River discards the row, and the job is active with no occurrence.  The comment on
  `MaxAttempts` and the architecture document say that the job is paused then.
  `NeverSilentlyDead` shows that this is one of the ways recorded in `severed`, and
  that there are no others (see the observations for two more of them).
* `orphan_group`: `Push` has seen its group, `RemoveGroup` commits, `Push` commits:
  the job is active in a group that does not exist.  The admin API can still
  address it (its operations test the job's group name, not the group) and list it
  under the group's old name (`NothingOutOfReach`), but a list of groups does not
  lead to it.
* `prune_interval`: `pruneArgs` is unique by arguments over River's default states,
  `completed` included, and completed rows are kept for 24 hours: the prune runs about
  once a day, not every 10 minutes as `MONITORING.md` says.

### Observations without a run

* Two more ways to an active job with no occurrence, both excepted by name in
  `NeverSilentlyDead`: the statement that pauses an exhausted job uses the worker's
  context and fails when the drain timeout has cancelled it (`riverquene.go:260`,
  against the comment above it); and `scheduleNext` fails on the last attempt, whose
  error River does not retry (`riverquene.go:288`, against the comment below it).
* `timeout` times `time.Second` wraps around for products above 2^63 ns, before it is
  compared with the cap: a huge timeout becomes the default, or a moment.
* gRPC's `ListJobs` does not show the timeout, which `AddJob` sets and REST's list
  shows, though `grpc.go:15` calls the gRPC API a mirror of the REST one;
  `TransportsAgree` compares every other field.
* Where summer time starts at midnight (Cairo, Beirut, Havana, Santiago), the day
  loop of `Next` (`spec.go:107`) meets a midnight that does not exist, goes on from
  another hour and skips an activation; `CronNext` shows it with `GapAt` at the
  start of a day.  The run `cron` has the gap in the daytime, and the theorem
  `NextFindsLeast` has that as its hypothesis (`GapInTheDay`).
* A pattern that parses and matches no date (30 February) gives the zero time,
  which River takes for "now": the job fires again as soon as it is delivered.
* `Parse` accepts a field that is only commas, with no value, and passes over what
  follows a star in a range (`*-5`) (`parser.go:197`).
* "The worker records every attempt" (`MONITORING.md`): not when the insert fails
  or the context has ended.
* A 3xx answer counts as delivered (`status >= 400` fails).
* `PATCH` without a payload clears the payload; `GET` and `DELETE` of the jobs, and the history,
  of an unknown group answer 200.  REST refuses a body over 1 MiB, gRPC takes
  messages up to 4 MiB.
* `DeleteJobs` waits for a job with the snapshot it has taken, and misses the
  occurrence that a concurrent `Active` or `scheduleNext` commits (`Clash`).
  `Work` finds no definition and drops it, unless the id has been pushed again.
* `shutCtx` is shared: an HTTP request that takes the whole 10 s leaves gRPC
  requests none.  A failure of `net.Listen` ends the process without `Close` while
  River is already running; the deliveries in flight are rescued 15 minutes later.

## 4. Proofs

Every theorem holds for all values of the constants that satisfy the named
assumptions of the modules: any number of jobs, groups, slots, workers, attempts,
sessions, nodes, requests and targets, under every set of faults; any patterns and
durations, any calendar, any schedule and any start.  The
assumptions say what the code fixes and no more: limits are positive, the "none"
values lie outside the sets they extend, the zero time is no ordinary time, the
timeouts are ordered as the code's are, names are finitely many strings (their
length is bounded), a database has finitely many sessions, the six fields of a
pattern begin where the code's bounds begin, the calendar reaches beyond the
years a search covers.

| module | theorem | statement |
|---|---|---|
| `RiverQueneProofs` | `TypeCorrect` | `Spec => []TypeOK` |
| | `OneChain` | `Spec => []AtMostOneArmed` |
| | `ExectimeCorrect` | `Spec => []ExectimeIsNextFire` |
| | `Alive` | `Spec => []NeverSilentlyDead` |
| | `SettlesTheLoaded` | `Spec => []SettlesWhatItLoaded` |
| | `OnceIsOnce` | `Spec => []OnceNotRedelivered` |
| | `InsertsForActive` | `Spec => InsertOnlyForActive` |
| | `Refinement` | `Spec => ImplementsStore` |
| `AdminTxProofs` | `LocksExclude` | `Spec => []TypeOK` |
| | `TransactionsAreAtomic` | `~Overlap => (Spec => Atomic)` |
| | `NoTransactionDeadlock` | `Spec => []NoCircularWait` |
| `CronParserProofs` | `PatternsAreRead` | `ParseSpec => []ParsedAsWritten` |
| | `DescriptorsAreRead` | `ParseSpec => []DescriptorsAgree` |
| | `EveryAdvances` | `ParseSpec => []EveryMovesOn` |
| `CronNextProofs` | `NextFindsLeast` | `GapInTheDay => (Spec => []NextIsLeast)` |
| `AdminApiProofs` | `TransportsMirror` | `Spec => []TransportsAgree` |
| | `StoredCorrect` | `Spec => []StoredIsDeliverable` |
| | `ListedIsStored` | `Spec => []ListRoundTrip` |
| | `AllInReach` | `Spec => []NothingOutOfReach` |
| | `RepeatsTell` | `Spec => []RepeatTells` |
| `ExecutionProofs` | `SingleExecutor` | `Spec => []NeverTwoExecutors` |
| | `CallsAreBounded` | `Spec => []GivenTheTimeAsked` |
| | `HistoryIsPruned` | `Spec => []PrunedInTheEnd` |
| `NodeProofs` | `NodeTypeCorrect` | `Spec => []TypeOK` |
| | `PoolCorrect` | `Spec => []OneConnPerTarget` |
| | `DrainsFirst` | `Spec => []DrainsBeforeClosing` |
| | `ExitIsClean` | `Spec => []ExitsDrained` |

*Type correctness* of `RiverQuene` is not inductive alone: that a claim keeps
`attempt <= MaxAttempts` needs that a row waiting to run has attempts left and
no executor, that every executor has a row, and that `Work` has a definition
while it delivers and settles.  `Consistent` states these; `TypeInv` is
`TypeOK /\ Consistent`.

*One chain, and exectime*: `ChainInv` is `TypeInv`, `AtMostOneArmed` and
`PlanIsExectime`, which is `ExectimeIsNextFire` for paused jobs too (else `Pause`
followed by nothing that sets the time would lose it).  Each step is either an
**insert** (`Push`, `Active`, a committed `scheduleNext`) or **quiet**: rows are removed or moved, none becomes armed that was not, none
changes identity, and no definition becomes active or changes exectime (lemma
`StepShape`).  Quiet steps preserve the invariant for one common reason; for an
insert it has to be shown that the row that made way is no longer armed, or that
the job is recorded as forked.

*Alive*: the occurrence that witnesses an active job's life is followed through
the step.  `Witness` also demands that the row, and what `Work` has loaded, carry
the definition's group name, since `RemoveGroup` and `DeleteJobs` cancel by it:
the witness stays armed, or hands over to the row just inserted, or the
definition is gone or paused, or the job is recorded as severed.

*What a worker settles, and delivers again*: `DeliveryInv` says both slot by slot,
on top of `ChainInv`.  `LoadedAt` covers an execution from the load to the
settling, not only at the settling; `AckedAt` covers a delivered occurrence that
can come to deliver again, which must then not be of a fire-once job, neither as
the definition is now nor as `Work` holds it.  Lemma `EveryMove` reduces a step to
what it does to one execution (rests, begins, is cancelled, loads, calls,
returns, ends); a definition pushed again under an old id is where the
exclusion of forks is used.

*The refinement* `ImplementsStore` goes action by action (`PushMaps`, `ClaimMaps`,
`HandBack`, `ScheduleMaps`, ...): each client operation, claim, settling and
report is the operation of `JobStore` with the same name on the mapped tables,
and the steps that only move an executor or an attempt count are stutters.  It
needs `TypeInv` and `RunCounted`, that a running row has an attempt counted: else
a row handed back to River would look as if it had never run.

*Transactions*: `TxInv` says of every open transaction where it can stand and what
it has done by then (`Shape`), that what it has locked still matches its `WHERE`
clause (`Holds`), that the occurrences it will delete are its own and, once it is
about to commit, all the fresh ones (`Takes`, `TakesAll`: whoever wanted to add one
would have to hold the job), and that a worker's row is still running (`Stands`);
`Apart` says of two open transactions that they share no lock.  A statement
touches one transaction and no table; a commit changes tables only where it holds
locks, so the others stay in order, and by these facts it is the operation of
`JobStore`.  Only `Serial` (the group of a `Push` exists, `RemoveGroup` and
`DeleteJobs` see all there is) needs `~Overlap`, that is, the pairs of `Clash`
excluded; the exclusion of locks does not.

*No deadlock*: `Shape` also says that the jobs a statement has locked are before
those it has yet to lock, that nothing is locked before the first statement on
`gua_jobs`, and that occurrences are deleted after all jobs are locked.  So in any
set of sessions one waits for none of the others (`NoCycle`): one that is about to
commit; if there is none, one that deletes its group or starts a statement; if
there is none, one that has all its jobs; else, of those still locking jobs, the
one whose next job is the last in the order of the table.  This holds for any
number of sessions and for the pairs of `Clash` too; that two statements visit
the rows of one table in the same order is the one thing it takes from Postgres
(`InScanOrder`).

*Patterns*: the loop invariant of `ParseInv` says that the bits gathered so far are
those of the expressions read so far, field by field, and that these are
sensible; a refused pattern has an expression that is not.  It rests on
`GetBitsAre`: `getBits`, which steps through the values with a recursive function,
gives the values a multiple of the step away from the first.

*The next activation*: `SearchInv` says of the candidate `t`, while the search goes
on, that no instant from `Upcoming` up to it matches; that the fields of the loops
already passed match; and that, once the search has moved `t`, in each of month,
day, hour and minute `t` either is the first instant of that unit or matches.  The
last part is why the code may skip the truncation when `added` is set: a field
that does not match is then at its start (`From`).  A step goes to the first
instant of the next unit, passing only instants of the unit that does not match
(`MonthEnd`, `DayEnd`, `HourEnd`, `MinuteEnd`), and when a bigger unit has changed on
the way the field shows its first value, so that the code goes back to `WRAP`
(`AlignedFields`).  Below this are the calendar (every day is in exactly one month)
and the clock (`FromWall` undoes `Wall` for every reading that the clock shows).
`GapInTheDay`, that the clock is put forward at a full hour and the skipped hours
do not contain a midnight, is needed in one place only: midnights must be on the
clock.  Without it the theorem is false (see the observation above).

*Induction.*  `NatLemmas` has no axiom of its own: induction over numbers comes as
"a non-empty set of naturals has a least element" (`LeastElement`, from the
library's theorem on well-founded orders) applied to the set of counterexamples.
A recursive function (`FirstDay`, the loop of `getBits`) is shown to have a solution
first; it then is one.

*The admin API*: `ApiInv` is `StoredIsDeliverable` and types; it does not say that a
definition's group exists, which the code does not ensure.  It is kept by *any* call
of the queue, not only by those that the enumerated requests make (`CallKeeps`), and
the two transports agree on *any* message in *any* state of the tables
(`AnyMessageAgrees`): the calls they make are equal where the operation looks, and
where `buildRequestURL` refuses, the url that REST passes on does not split.  For the
lists, that building undoes parsing (also `ListRoundTrip`) makes a row of `ListJobs`
and a row of REST's list the same job.  `AllInReach` counts the listed ids over all
valid names; `RepeatsTell` goes route by route over what the first request left.

*Time*: `OwnsTheRow` adds to `NeverTwoExecutors` that a live executor is as old as
the lock on its row and no older than River's job timeout and `Grace`, so that
the rescuer, which waits for `RescueAfter`, never finds one; `GivenByTimeout`
remembers which call the time was given to; `NotOverdue` bounds the age of a
record by where the prune job stands (waiting, done and kept, gone), which is what
the single bound of `PrunedInTheEnd` is put together from.  Neither says more than
the code keeps: what the documents add is in `PrunedOnInterval`,
which is violated, or in the observations.

*Shutdown*: `PoolInv` (what is cached for a target was dialled for it, the open
connections are the cached ones) and `ProcInv` (who can stand where, who holds what) are
the two pools; `MainInv` and `RestInv` say what `startRiver` has taken down at each
position and who has come to rest, or which deadline has passed instead.
`DrainsBeforeClosing` and `ExitsDrained` follow from the last two.

Not proved, and why: liveness under fairness (`EveryFiringEnds`, `FiresOrStops`,
`NextTerminates`, `ShutdownEnds`) and `NoDeadlock`, which says `ENABLED`, are out of
the prover's reach and only model-checked.  `NoDeadlock` is kept beside
`NoCircularWait` because it also excludes that a transaction is stuck for another
reason than a lock.

## 5. Not modelled

Of River: leader election, LISTEN/NOTIFY and queue maintenance, which do not
touch the life cycle of a row.  The limit of 100 connections per host of the HTTP
client: a delivery that waits for one ends with its context like any other.
`ExistsGroup`, `Ping`, `Healthz`, `Readyz`, `Version` read only and no property is about
them.  Flags, environment and logging (`main.go`, `logging.go`), the UI, the generated
protobuf code and the example consumer carry no state.

## 6. What is left

Every safety invariant, action property and refinement that a run checks is also
a theorem, except `NoDeadlock`; the liveness properties rest on TLC.  Should the
code change: a new operation of the queue is an action of `RiverQuene`, a
transaction of `AdminTx` and a step of `JobStore`, with a case in `StepShape`,
`TxStep` and the refinement; a new endpoint is a case of `AdminApi`.  A zone whose
clock is put back (an hour that happens twice) is not modelled in `CronNext`:
`Wall` would no longer be increasing.
