------------------------------ MODULE AdminTx -------------------------------
(***************************************************************************)
(* The transactions of delayquene/riverquene.go, statement by statement.   *)
(*                                                                         *)
(* Every operation of the queue runs in its own session, in one Postgres   *)
(* transaction at READ COMMITTED.  A statement sees what was committed     *)
(* when it starts.  UPDATE and DELETE lock the rows they find one by one;  *)
(* a row that another transaction has written is waited for, and when that *)
(* transaction has committed the WHERE clause is evaluated again on the    *)
(* new version: a row deleted meanwhile is passed over, a row inserted     *)
(* meanwhile is not found.  INSERT ... ON CONFLICT waits for a transaction *)
(* that has inserted or deleted the key.  Writes become visible at COMMIT. *)
(*                                                                         *)
(* BEGIN is one step with the first statement, and a statement whose only  *)
(* effect is invisible to the other sessions (the insert of an occurrence) *)
(* one with the COMMIT.  The occurrences a statement deletes are locked in *)
(* one step, when none of them is locked by another session.  Two          *)
(* statements that visit the same jobs visit them in the same order        *)
(* (Postgres scans the same index of the same table).                      *)
(*                                                                         *)
(* The executors are reduced to what they do to the tables: the claim, the *)
(* settling transaction of Work, and the end of the execution.             *)
(***************************************************************************)
EXTENDS Naturals, FiniteSets

CONSTANTS
    Jobs,     \* job ids, numbers: the order in which the table is scanned
    Groups, Times,
    Slots,    \* bound: rows river_job can hold at a time
    Sess,     \* database sessions
    MaxWorkers,  \* executors in the cluster
    Overlap,  \* TRUE: any two operations may overlap; FALSE: see Clash
    NoJob, NoRow, NoTx

ASSUME JobsAssumption == Jobs \subseteq Nat
ASSUME SessAssumption == IsFiniteSet(Sess)
ASSUME OverlapAssumption == Overlap \in BOOLEAN
\* An operation without a job or a time among its arguments carries any.
ASSUME ArgumentsAssumption == Jobs # {} /\ Times # {}

VARIABLES
    groups, jobs, rows,  \* the committed tables
    tx                   \* the open transactions: [Sess -> Tx or NoTx]

tables == <<groups, jobs, rows>>
vars == <<groups, jobs, rows, tx>>

Store == INSTANCE JobStore

ClientOps == {"push", "active", "pause", "delete", "deletejobs", "removegroup"}
WorkOps == {"next", "stop", "drop"}   \* scheduleNext, pause exhausted, drop fire-once

\* A transaction: its operation and arguments, the statement it stands at, the
\* jobs the statement has found and not locked yet, the jobs it has written,
\* and the occurrences it has deleted.  DeleteJobs, one statement, keeps in
\* occs the occurrences its snapshot showed.
Tx == [op : ClientOps \cup WorkOps, g : Groups, j : Jobs, at : Times,
       row : Slots \cup {NoRow},
       pc : {"insert", "scan", "lock", "delgroup", "commit"},
       targets : SUBSET Jobs, held : SUBSET Jobs, occs : SUBSET Slots]

\* The null values are no records.
ASSUME NullAssumption == NoJob \notin Store!Def /\ NoRow \notin Store!Occ /\ NoTx \notin Tx

-----------------------------------------------------------------------------
(* Reading the state *)

Open == {s \in Sess : tx[s] # NoTx}
Others(s) == Open \ {s}
HeldByOther(s, j) == \E t \in Others(s) : j \in tx[t].held
LockedOccs(S) == UNION {tx[t].occs : t \in {u \in S \cap Open : tx[u].op # "deletejobs"}}

Pending == {o \in Slots : rows[o] # NoRow /\ rows[o].phase # "running"}
Free == {o \in Slots : rows[o] = NoRow}

\* Mutant: scheduleNext updates the definition by id alone.
MatchesPaused(t) ==
    {j \in Jobs :
        /\ jobs[j] # NoJob
        /\ t.op \in {"active", "pause", "delete", "next", "stop", "drop"} => j = t.j
        /\ t.op \in {"active", "pause", "delete", "deletejobs", "removegroup"} => jobs[j].group = t.g}

\* The WHERE clause of a transaction's statement on gua_jobs.
Matches(t) ==
    {j \in Jobs :
        /\ jobs[j] # NoJob
        /\ t.op \in {"active", "pause", "delete", "next", "stop", "drop"} => j = t.j
        /\ t.op \in {"active", "pause", "delete", "deletejobs", "removegroup"} => jobs[j].group = t.g
        /\ t.op = "next" => jobs[j].active}

\* Bound: an operation that inserts an occurrence starts only when a slot is
\* left for it.
Room == Cardinality(Free) >
            Cardinality({s \in Open : tx[s].op \in {"push", "active", "next"}})

\* The pairs of operations that do not behave as if one ran after the other:
\* Push reads the group without locking it, and DeleteJobs looks for
\* occurrences in the snapshot it took before it waited for a job.
Clash(t, u) ==
    \/ t.op = "push" /\ u.op = "removegroup" /\ t.g = u.g
    \/ t.op = "deletejobs" /\ u.op \in {"active", "next"}

MayBegin(t) == Overlap \/ \A s \in Open : ~Clash(t, tx[s]) /\ ~Clash(tx[s], t)

-----------------------------------------------------------------------------
(* BEGIN, and the statements of a transaction *)

NewTx(op, g, j, at, row) ==
    [op |-> op, g |-> g, j |-> j, at |-> at, row |-> row,
     pc |-> "scan", targets |-> {}, held |-> {}, occs |-> {}]

AnyJob == CHOOSE j \in Jobs : TRUE
AnyTime == CHOOSE at \in Times : TRUE

Begin(s, t) ==
    /\ MayBegin(t)
    /\ t.op \in {"push", "active", "next"} => Room
    /\ tx' = [tx EXCEPT ![s] = t]
    /\ UNCHANGED tables

\* The statement on gua_jobs starts: its snapshot, of which DeleteJobs keeps the
\* jobs with the name it is given, or all.
Scanned(t, wanted) ==
    LET found == Matches(t) \cap wanted IN
    [t EXCEPT !.pc = "lock", !.targets = found,
              !.occs = IF t.op = "deletejobs"
                       THEN {o \in Pending : rows[o].group = t.g /\ rows[o].job \in found}
                       ELSE {}]

\* A client's call whose first statement finds a row; one that finds none is
\* refused and changes nothing.
BeginClient(s, t, wanted) ==
    /\ \/ Matches(t) \cap wanted # {}
       \/ t.op = "removegroup" /\ t.g \in groups
    /\ Begin(s, Scanned(t, wanted))

\* Push: SELECT 1 FROM gua_groups, no lock.
BeginPush(s, t) ==
    /\ t.g \in groups
    /\ Begin(s, [t EXCEPT !.pc = "insert"])

ClientCall(s) ==
    \/ \E g \in Groups, j \in Jobs, at \in Times :
           \/ BeginPush(s, NewTx("push", g, j, at, NoRow))
           \/ BeginClient(s, NewTx("active", g, j, at, NoRow), {j})
    \/ \E g \in Groups, j \in Jobs, op \in {"pause", "delete"} :
           BeginClient(s, NewTx(op, g, j, AnyTime, NoRow), {j})
    \/ \E g \in Groups : BeginClient(s, NewTx("removegroup", g, AnyJob, AnyTime, NoRow), Jobs)
    \/ \E g \in Groups, wanted \in SUBSET Jobs :
           BeginClient(s, NewTx("deletejobs", g, AnyJob, AnyTime, NoRow), wanted)

\* Work has loaded the definition, with its group, and settles later.
BeginWork(s) ==
    \E o \in Slots \ (Free \cup Pending), op \in WorkOps, at \in Times :
        LET j == rows[o].job IN
        /\ jobs[j] # NoJob /\ jobs[j].active
        /\ \A t \in Open : tx[t].row # o
        /\ Begin(s, NewTx(op, jobs[j].group, j, at, o))

Scan(s) ==
    /\ tx[s].pc = "scan"
    /\ tx' = [tx EXCEPT ![s] = Scanned(@, {tx[s].j})]
    /\ UNCHANGED tables

\* COMMIT or ROLLBACK of a transaction that has written nothing.
End(s) == tx' = [tx EXCEPT ![s] = NoTx] /\ UNCHANGED tables

\* Mutant: the duplicate test reads the table and waits for nobody.
InsertJobUnlocked(s) ==
    /\ tx[s].pc = "insert"
    /\ IF jobs[tx[s].j] = NoJob
       THEN /\ tx' = [tx EXCEPT ![s].pc = "commit", ![s].held = {tx[s].j}]
            /\ UNCHANGED tables
       ELSE End(s)

\* Push: INSERT INTO gua_jobs ... ON CONFLICT (id) DO NOTHING.
InsertJob(s) ==
    /\ tx[s].pc = "insert"
    /\ ~HeldByOther(s, tx[s].j)
    /\ IF jobs[tx[s].j] = NoJob
       THEN /\ tx' = [tx EXCEPT ![s].pc = "commit", ![s].held = {tx[s].j}]
            /\ UNCHANGED tables
       ELSE End(s)

\* The jobs a statement may lock next.
InScanOrder(S) == {j \in S : \A k \in S : j <= k}

Lock(s) ==
    /\ tx[s].pc = "lock"
    /\ \E j \in InScanOrder(tx[s].targets) :
           /\ ~HeldByOther(s, j)
           /\ tx' = [tx EXCEPT ![s].targets = @ \ {j},
                               ![s].held = @ \cup ({j} \cap Matches(tx[s]))]
    /\ UNCHANGED tables

Locked(s) == tx[s].pc = "lock" /\ tx[s].targets = {}

\* RowsAffected() = 0: ErrNotFound, nothing to schedule, or a count of zero.
NoRows(s) ==
    /\ Locked(s) /\ tx[s].held = {} /\ tx[s].op # "removegroup"
    /\ End(s)

\* Mutant: the occurrences are cancelled before the definition is written.
DeleteOccsFirst(s) ==
    /\ tx[s].pc = "lock" /\ (tx[s].targets # {} => tx[s].occs = {})
    /\ \/ tx[s].op \in {"active", "pause", "delete"} /\ tx[s].targets \cup tx[s].held # {}
       \/ tx[s].op = "removegroup"
    /\ LET found == {o \in Pending :
               IF tx[s].op = "removegroup" THEN rows[o].group = tx[s].g
               ELSE rows[o].job = tx[s].j} IN
       /\ found \cap LockedOccs(Others(s)) = {}
       /\ tx' = [tx EXCEPT ![s].occs = found,
                 ![s].pc = IF tx[s].targets # {} THEN "lock"
                           ELSE IF tx[s].op = "removegroup" THEN "delgroup" ELSE "commit"]
    /\ UNCHANGED tables

\* cancelOccurrencesTx, and the same by group.
DeleteOccs(s) ==
    /\ Locked(s)
    /\ \/ tx[s].op \in {"active", "pause", "delete"} /\ tx[s].held # {}
       \/ tx[s].op = "removegroup"
    /\ LET found == {o \in Pending :
               IF tx[s].op = "removegroup" THEN rows[o].group = tx[s].g
               ELSE rows[o].job = tx[s].j} IN
       /\ found \cap LockedOccs(Others(s)) = {}
       /\ tx' = [tx EXCEPT ![s].occs = found,
                 ![s].pc = IF tx[s].op = "removegroup" THEN "delgroup" ELSE "commit"]
    /\ UNCHANGED tables

\* RemoveGroup: DELETE FROM gua_groups; no row found is ErrNotFound.
DeleteGroup(s) ==
    /\ tx[s].pc = "delgroup"
    /\ \A t \in Others(s) :
           ~(tx[t].op = "removegroup" /\ tx[t].g = tx[s].g /\ tx[t].pc = "commit")
    /\ IF tx[s].g \in groups
       THEN tx' = [tx EXCEPT ![s].pc = "commit"] /\ UNCHANGED tables
       ELSE End(s)

-----------------------------------------------------------------------------
(* COMMIT *)

WithoutJobs(ids) == [j \in Jobs |-> IF j \in ids THEN NoJob ELSE jobs[j]]
WithoutRows(occs) == [o \in Slots |-> IF o \in occs THEN NoRow ELSE rows[o]]

\* The tables with one more occurrence than t.
WithOccurrence(t, j, g, at) ==
    {[t EXCEPT ![o] = [job |-> j, group |-> g, plan |-> at, phase |-> "fresh"]] : o \in Free}

\* The transaction ends and the others go on: they no longer find jobs and
\* occurrences that are gone.
Close(s, ids, occs) ==
    tx' = [t \in Sess |->
        IF t = s \/ tx[t] = NoTx THEN NoTx
        ELSE [tx[t] EXCEPT !.targets = @ \ ids,
                           !.occs = IF tx[t].op = "deletejobs" THEN @ \ occs ELSE @]]

CommitPush(s) ==
    LET t == tx[s] IN
    /\ t.op = "push" /\ t.pc = "commit"
    /\ jobs' = [jobs EXCEPT ![t.j] = [group |-> t.g, exectime |-> t.at, active |-> TRUE]]
    /\ rows' \in WithOccurrence(rows, t.j, t.g, t.at)
    /\ Close(s, {}, {})
    /\ UNCHANGED groups

CommitActive(s) ==
    LET t == tx[s] IN
    /\ t.op = "active" /\ t.pc = "commit"
    /\ jobs' = [jobs EXCEPT ![t.j].active = TRUE, ![t.j].exectime = t.at]
    /\ rows' \in WithOccurrence(WithoutRows(t.occs), t.j, t.g, t.at)
    /\ Close(s, {}, t.occs)
    /\ UNCHANGED groups

CommitPause(s) ==
    LET t == tx[s] IN
    /\ t.op = "pause" /\ t.pc = "commit"
    /\ jobs' = [jobs EXCEPT ![t.j].active = FALSE]
    /\ rows' = WithoutRows(t.occs)
    /\ Close(s, {}, t.occs)
    /\ UNCHANGED groups

CommitDelete(s) ==
    LET t == tx[s] IN
    /\ t.op \in {"delete", "removegroup"} /\ t.pc = "commit"
    /\ groups' = IF t.op = "removegroup" THEN groups \ {t.g} ELSE groups
    /\ jobs' = WithoutJobs(t.held)
    /\ rows' = WithoutRows(t.occs)
    /\ Close(s, t.held, t.occs)

\* The second half of the statement: of the occurrences in the snapshot, those
\* of the deleted jobs that still wait.
CommitDeleteJobs(s) ==
    LET t == tx[s]
        doomed == {o \in t.occs \cap Pending : rows[o].job \in t.held} IN
    /\ Locked(s) /\ t.op = "deletejobs" /\ t.held # {}
    /\ doomed \cap LockedOccs(Others(s)) = {}
    /\ jobs' = WithoutJobs(t.held)
    /\ rows' = WithoutRows(doomed)
    /\ Close(s, t.held, doomed)
    /\ UNCHANGED groups

CommitWork(s) ==
    LET t == tx[s] IN
    /\ Locked(s) /\ t.op \in WorkOps /\ t.held # {}
    /\ \/ /\ t.op = "next"
          /\ jobs' = [jobs EXCEPT ![t.j].exectime = t.at]
          /\ rows' \in WithOccurrence(rows, t.j, t.g, t.at)
          /\ Close(s, {}, {})
       \/ /\ t.op = "stop"
          /\ jobs' = [jobs EXCEPT ![t.j].active = FALSE]
          /\ Close(s, {}, {}) /\ UNCHANGED rows
       \/ /\ t.op = "drop"
          /\ jobs' = WithoutJobs(t.held)
          /\ Close(s, t.held, {}) /\ UNCHANGED rows
    /\ UNCHANGED groups

\* A statement fails, the connection or the node is lost, or Postgres picks the
\* transaction as a deadlock's victim: everything is rolled back.
Rollback(s) == End(s)

-----------------------------------------------------------------------------
(* Single statements *)

\* INSERT INTO gua_groups ... ON CONFLICT DO NOTHING waits for a RemoveGroup
\* that has deleted the row.
RegisterGroup(g) ==
    /\ \A s \in Open : ~(tx[s].op = "removegroup" /\ tx[s].g = g /\ tx[s].pc = "commit")
    /\ g \notin groups
    /\ groups' = groups \cup {g}
    /\ UNCHANGED <<jobs, rows, tx>>

\* JobGetAvailable: FOR UPDATE SKIP LOCKED.
Claim(o) ==
    /\ o \in Pending /\ o \notin LockedOccs(Sess)
    /\ Cardinality(Slots \ (Free \cup Pending)) < MaxWorkers
    /\ rows' = [rows EXCEPT ![o].phase = "running"]
    /\ UNCHANGED <<groups, jobs, tx>>

\* The completer (or the rescuer) ends an execution whose Work has returned.
Report(o) ==
    /\ o \notin Free \cup Pending
    /\ \A t \in Open : tx[t].row # o
    /\ \/ rows' = [rows EXCEPT ![o].phase = "retry"] /\ UNCHANGED tx
       \/ /\ rows' = WithoutRows({o})
          /\ tx' = [t \in Sess |-> IF tx[t] = NoTx THEN NoTx ELSE [tx[t] EXCEPT !.occs = @ \ {o}]]
    /\ UNCHANGED <<groups, jobs>>

-----------------------------------------------------------------------------
(* The specification *)

Init ==
    /\ groups = {}
    /\ jobs = [j \in Jobs |-> NoJob]
    /\ rows = [o \in Slots |-> NoRow]
    /\ tx = [s \in Sess |-> NoTx]

Advance(s) ==
    \/ InsertJob(s) \/ Scan(s) \/ Lock(s) \/ NoRows(s) \/ DeleteOccs(s) \/ DeleteGroup(s)
    \/ CommitPush(s) \/ CommitActive(s) \/ CommitPause(s) \/ CommitDelete(s)
    \/ CommitDeleteJobs(s) \/ CommitWork(s)

Next ==
    \/ \E s \in Sess \ Open : ClientCall(s) \/ BeginWork(s)
    \/ \E s \in Open : Advance(s) \/ Rollback(s)
    \/ \E g \in Groups : RegisterGroup(g)
    \/ \E o \in Slots : Claim(o) \/ Report(o)

Spec == Init /\ [][Next]_vars

-----------------------------------------------------------------------------
(* Properties *)

\* Every variable has its type, and no row is locked twice: two transactions
\* never both write the same definition or delete the same occurrence.
TypeOK ==
    /\ groups \in SUBSET Groups
    /\ jobs \in [Jobs -> Store!Def \cup {NoJob}]
    /\ rows \in [Slots -> Store!Occ \cup {NoRow}]
    /\ tx \in [Sess -> Tx \cup {NoTx}]
    /\ \A s \in Open : \A t \in Others(s) :
           tx[s].held \cap tx[t].held = {} /\ LockedOccs({s}) \cap LockedOccs({t}) = {}

\* Every transaction is as if it ran alone, at its COMMIT: the statements, the
\* locks they take and their order make Push, Active, Pause, Delete, DeleteJobs,
\* RemoveGroup and Work's settling atomic with respect to each other (outside
\* the pairs of Clash) and to River's claims.
Atomic == Store!Spec

\* Open transactions never all wait for each other's locks: jobs are locked
\* before occurrences, occurrences before groups, and jobs in one order.  As
\* every transaction has finitely many statements, each of them ends.
NoDeadlock == Open # {} => \E s \in Open : ENABLED Advance(s)

\* The sessions a session may have to wait for: those that have written the job
\* its statement comes to next; when it has its jobs, those that have deleted
\* occurrences; and, to delete its group, one that has deleted it.
MayWaitFor(s) ==
    LET t == tx[s]
        wanted == IF t.pc = "insert" THEN {t.j} ELSE InScanOrder(t.targets)
    IN  {u \in Others(s) :
            \/ tx[u].held \cap wanted # {}
            \/ Locked(s) /\ LockedOccs({u}) # {}
            \/ /\ t.pc = "delgroup"
               /\ tx[u].op = "removegroup" /\ tx[u].g = t.g /\ tx[u].pc = "commit"}

\* No two, three or more transactions of riverquene.go wait for each other in a
\* circle, whatever the rest of the sessions do.
NoCircularWait == \A S \in SUBSET Open : S # {} => \E s \in S : MayWaitFor(s) \cap S = {}

\* types.go on Push: "The group must exist"; on RemoveGroup: "deletes a group
\* together with all its jobs and occurrences".
JobsHaveGroups == \A j \in Jobs : jobs[j] # NoJob => jobs[j].group \in groups
=============================================================================
