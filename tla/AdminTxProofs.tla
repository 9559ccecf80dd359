--------------------------- MODULE AdminTxProofs ----------------------------
(***************************************************************************)
(* Proofs about AdminTx, for every set of jobs, groups, times, slots and   *)
(* sessions: row locks are exclusive, and the statements of a transaction, *)
(* interleaved with those of the others, amount to one step of JobStore;   *)
(* and transactions never wait for each other in a circle.                 *)
(***************************************************************************)
EXTENDS AdminTx, NatLemmas, FiniteSetTheorems

-----------------------------------------------------------------------------
(* The inductive invariant *)

JobOps == {"active", "pause", "delete"}
Inserters == {"push", "active", "next"}
Fresh == {o \in Slots : rows[o] # NoRow /\ rows[o].phase = "fresh"}

\* The statement an operation can stand at, and what it has done by then; jobs
\* are locked in the order of the table.
Shape(t) ==
    /\ t.op = "push" => t.pc \in {"insert", "commit"} /\ t.occs = {}
    /\ t.op \in JobOps => t.pc \in {"lock", "commit"}
    /\ t.op = "removegroup" => t.pc \in {"lock", "delgroup", "commit"}
    /\ t.op = "deletejobs" => t.pc = "lock"
    /\ t.op \in WorkOps => t.pc \in {"scan", "lock"}
    /\ t.pc # "lock" => t.targets = {}
    /\ t.pc \in {"insert", "scan"} => t.held = {}
    /\ \A j \in t.held, k \in t.targets : j < k
    /\ t.op # "removegroup" /\ t.pc = "commit" => t.held # {}
    /\ t.op # "deletejobs" /\ t.pc \notin {"delgroup", "commit"} => t.occs = {}

\* What a transaction has locked still answers its WHERE clause, and what it
\* has yet to lock is still there.
Holds(t) ==
    /\ t.op = "push" => \A j \in t.held : j = t.j /\ jobs[j] = NoJob
    /\ t.op # "push" => t.held \subseteq Matches(t)
    /\ \A j \in t.targets : jobs[j] # NoJob

\* The occurrences a transaction is about to delete wait and are its own.
Takes(t) ==
    /\ t.op # "deletejobs" => t.occs \subseteq Pending
    /\ t.op \in JobOps => \A o \in t.occs : rows[o].job = t.j
    /\ t.op \in {"removegroup", "deletejobs"} =>
           \A o \in t.occs : rows[o] # NoRow /\ rows[o].group = t.g

\* It has them all: no other session can have added one, since it would have to
\* hold the job.
TakesAll(t) ==
    /\ t.op \in JobOps /\ t.pc = "commit" =>
           \A o \in Fresh : rows[o].job = t.j => o \in t.occs
    /\ t.op = "removegroup" /\ t.pc # "lock" =>
           \A o \in Fresh : rows[o].group = t.g /\ rows[o].job \in t.held => o \in t.occs

\* A worker that settles runs an occurrence of its job; a group that is about to
\* be deleted is there.
Stands(t) ==
    /\ t.op \in WorkOps =>
           /\ t.row \in Slots /\ rows[t.row] # NoRow
           /\ rows[t.row].phase = "running" /\ rows[t.row].job = t.j
    /\ t.op = "removegroup" /\ t.pc = "commit" => t.g \in groups

\* What the pairs of Clash would break.
Serial(t) ==
    /\ t.op = "push" => t.g \in groups
    /\ t.op = "removegroup" =>
           \A j \in Jobs : jobs[j] # NoJob /\ jobs[j].group = t.g => j \in t.targets \cup t.held
    /\ t.op = "deletejobs" =>
           \A o \in Fresh :
               rows[o].group = t.g /\ rows[o].job \in t.targets \cup t.held => o \in t.occs

TxOK(t) ==
    Shape(t) /\ Holds(t) /\ Takes(t) /\ TakesAll(t) /\ Stands(t) /\ (~Overlap => Serial(t))

\* Two open transactions.
Apart(t, u) ==
    /\ t.held \cap u.held = {}
    /\ t.op # "deletejobs" /\ u.op # "deletejobs" => t.occs \cap u.occs = {}
    /\ ~(/\ t.op = "removegroup" /\ u.op = "removegroup" /\ t.g = u.g
         /\ t.pc = "commit" /\ u.pc = "commit")
    /\ ~Overlap => ~Clash(t, u)

TableType ==
    /\ groups \in SUBSET Groups
    /\ jobs \in [Jobs -> Store!Def \cup {NoJob}]
    /\ rows \in [Slots -> Store!Occ \cup {NoRow}]

TxInv ==
    /\ TableType
    /\ tx \in [Sess -> Tx \cup {NoTx}]
    /\ \A s \in Sess : tx[s] # NoTx => TxOK(tx[s])
    /\ \A s, u \in Sess : s # u /\ tx[s] # NoTx /\ tx[u] # NoTx => Apart(tx[s], tx[u])

-----------------------------------------------------------------------------
(* Frames *)

\* A transaction stays in order while the tables do not change.
LEMMA SameTables ==
    ASSUME UNCHANGED tables, NEW u \in Sess, TxOK(tx'[u])
    PROVE  TxOK(tx[u])'
<1>1. groups' = groups /\ jobs' = jobs /\ rows' = rows
  BY DEF tables
<1>2. Pending' = Pending /\ Fresh' = Fresh
  BY <1>1 DEF Pending, Fresh
<1>3. Matches(tx[u])' = Matches(tx'[u])
  BY <1>1 DEF Matches
<1>4. Shape(tx[u])' /\ Holds(tx[u])'
  BY <1>1, <1>3, Zenon DEF TxOK, Shape, Holds
<1>5. Takes(tx[u])' /\ TakesAll(tx[u])'
  BY <1>1, <1>2, Zenon DEF TxOK, Takes, TakesAll
<1>6. Stands(tx[u])' /\ (~Overlap => Serial(tx[u])')
  BY <1>1, <1>2, Zenon DEF TxOK, Stands, Serial
<1> QED
  BY <1>4, <1>5, <1>6 DEF TxOK

\* A session begins, or goes on with, a transaction that is in order and apart
\* from the others.
LEMMA OwnKeeps ==
    ASSUME TxInv, UNCHANGED tables, NEW s \in Sess, NEW t \in Tx,
           tx' = [tx EXCEPT ![s] = t], TxOK(t),
           \A u \in Sess : u # s /\ tx[u] # NoTx => Apart(t, tx[u]) /\ Apart(tx[u], t)
    PROVE  TxInv'
<1>1. TableType'
  BY DEF TxInv, TableType, tables
<1>2. /\ tx' \in [Sess -> Tx \cup {NoTx}] /\ tx'[s] = t
      /\ \A u \in Sess : u # s => tx'[u] = tx[u]
  BY DEF TxInv
<1>3. ASSUME NEW u \in Sess, tx'[u] # NoTx
      PROVE  TxOK(tx[u])'
  <2>1. TxOK(tx'[u])
    BY <1>2, <1>3, Zenon DEF TxInv
  <2> QED
    BY <2>1, SameTables
<1>4. ASSUME NEW u \in Sess, NEW v \in Sess, u # v, tx'[u] # NoTx, tx'[v] # NoTx
      PROVE  Apart(tx'[u], tx'[v])
  <2>1. CASE u = s
    BY <1>2, <1>4, <2>1, Zenon
  <2>2. CASE v = s
    BY <1>2, <1>4, <2>2, Zenon
  <2>3. CASE u # s /\ v # s
    BY <1>2, <1>4, <2>3, Zenon DEF TxInv
  <2> QED
    BY <2>1, <2>2, <2>3
<1>5. \A u, v \in Sess : u # v /\ tx'[u] # NoTx /\ tx'[v] # NoTx => Apart(tx[u], tx[v])'
  BY <1>4, Zenon DEF Apart, Clash
<1> QED
  BY <1>1, <1>2, <1>3, <1>5, Zenon DEF TxInv

\* COMMIT of nothing, and ROLLBACK.
LEMMA EndKeeps ==
    ASSUME TxInv, NEW s \in Sess, End(s)
    PROVE  TxInv'
<1>1. TableType'
  BY DEF TxInv, TableType, tables, End
<1>2. /\ tx' \in [Sess -> Tx \cup {NoTx}] /\ tx'[s] = NoTx
      /\ \A u \in Sess : u # s => tx'[u] = tx[u]
  BY DEF TxInv, End
<1>3. ASSUME NEW u \in Sess, tx'[u] # NoTx
      PROVE  TxOK(tx[u])'
  <2>1. TxOK(tx'[u])
    BY <1>2, <1>3, Zenon DEF TxInv
  <2> QED
    BY <2>1, SameTables DEF End
<1>4. ASSUME NEW u \in Sess, NEW v \in Sess, u # v, tx'[u] # NoTx, tx'[v] # NoTx
      PROVE  Apart(tx'[u], tx'[v])
  BY <1>2, <1>4, Zenon DEF TxInv
<1>5. \A u, v \in Sess : u # v /\ tx'[u] # NoTx /\ tx'[v] # NoTx => Apart(tx[u], tx[v])'
  BY <1>4, Zenon DEF Apart, Clash
<1> QED
  BY <1>1, <1>2, <1>3, <1>5, Zenon DEF TxInv

-----------------------------------------------------------------------------
(* BEGIN and the statements of a transaction keep the invariant *)

\* A transaction that starts in order has locked nothing the others hold.
LEMMA BeginKeeps ==
    ASSUME TxInv, NEW s \in Sess, NEW t \in Tx, Begin(s, t), tx[s] = NoTx, TxOK(t),
           t.held = {}, t.pc \notin {"delgroup", "commit"}
    PROVE  TxInv'
<1>1. t.op # "deletejobs" => t.occs = {}
  BY DEF TxOK, Shape
<1>2. ASSUME NEW u \in Sess, u # s, tx[u] # NoTx
      PROVE  ~Overlap => ~Clash(t, tx[u]) /\ ~Clash(tx[u], t)
  BY <1>2 DEF Begin, MayBegin, Open
<1>3. ASSUME NEW u \in Sess, u # s, tx[u] # NoTx
      PROVE  Apart(t, tx[u]) /\ Apart(tx[u], t)
  BY <1>1, <1>2, <1>3 DEF Apart
<1>4. tx' = [tx EXCEPT ![s] = t] /\ UNCHANGED tables
  BY DEF Begin
<1> QED
  BY <1>3, <1>4, OwnKeeps

\* The record of a transaction whose statement on gua_jobs has started.
LEMMA ScannedType ==
    ASSUME TableType, NEW t \in Tx, NEW wanted
    PROVE  /\ Scanned(t, wanted) \in Tx
           /\ Scanned(t, wanted).op = t.op /\ Scanned(t, wanted).g = t.g
           /\ Scanned(t, wanted).j = t.j /\ Scanned(t, wanted).at = t.at
           /\ Scanned(t, wanted).row = t.row /\ Scanned(t, wanted).held = t.held
           /\ Scanned(t, wanted).pc = "lock"
           /\ Scanned(t, wanted).targets = Matches(t) \cap wanted
           /\ Scanned(t, wanted).occs =
                  IF t.op = "deletejobs"
                  THEN {o \in Pending : rows[o].group = t.g /\ rows[o].job \in Matches(t) \cap wanted}
                  ELSE {}
<1>1. Matches(t) \subseteq Jobs
  BY DEF Matches
<1>2. Pending \subseteq Slots
  BY DEF Pending
<1> DEFINE found == Matches(t) \cap wanted
           occs == IF t.op = "deletejobs"
                   THEN {o \in Pending : rows[o].group = t.g /\ rows[o].job \in found} ELSE {}
<1>3. Scanned(t, wanted) = [t EXCEPT !.pc = "lock", !.targets = found, !.occs = occs]
  BY Zenon DEF Scanned
<1>4. found \in SUBSET Jobs /\ occs \in SUBSET Slots
  BY <1>1, <1>2
<1> HIDE DEF found, occs
<1>5. /\ Scanned(t, wanted) \in Tx
      /\ Scanned(t, wanted).op = t.op /\ Scanned(t, wanted).g = t.g
      /\ Scanned(t, wanted).j = t.j /\ Scanned(t, wanted).at = t.at
      /\ Scanned(t, wanted).row = t.row /\ Scanned(t, wanted).held = t.held
      /\ Scanned(t, wanted).pc = "lock"
      /\ Scanned(t, wanted).targets = found
      /\ Scanned(t, wanted).occs = occs
  BY <1>3, <1>4 DEF Tx
<1> QED
  BY <1>5, Zenon DEF found, occs

\* Such a transaction is in order.
LEMMA ScannedOK ==
    ASSUME TableType, NEW t \in Tx, NEW wanted, t.held = {}, t.op # "push", Stands(t),
           t.pc # "commit", t.op = "removegroup" => wanted = Jobs
    PROVE  /\ TxOK(Scanned(t, wanted)) /\ Scanned(t, wanted) \in Tx
           /\ Scanned(t, wanted).held = {} /\ Scanned(t, wanted).pc = "lock"
           /\ Scanned(t, wanted).op = t.op /\ Scanned(t, wanted).g = t.g
<1> DEFINE x == Scanned(t, wanted)
<1>1. /\ x \in Tx /\ x.op = t.op /\ x.g = t.g /\ x.j = t.j /\ x.row = t.row
      /\ x.held = {} /\ x.pc = "lock" /\ x.targets = Matches(t) \cap wanted
      /\ x.occs = IF t.op = "deletejobs"
                  THEN {o \in Pending : rows[o].group = t.g /\ rows[o].job \in Matches(t) \cap wanted}
                  ELSE {}
  BY ScannedType, ZenonT(60)
<1> HIDE DEF x
<1>2. Shape(x)
  BY <1>1 DEF Shape, JobOps, WorkOps
<1>3. Holds(x)
  BY <1>1 DEF Holds, Matches
<1>4. Takes(x)
  BY <1>1 DEF Takes, Pending, JobOps
<1>5. TakesAll(x)
  BY <1>1 DEF TakesAll
<1>6. Stands(x)
  BY <1>1 DEF Stands
<1>7. Serial(x)
  <2>1. x.op = "removegroup" =>
           \A j \in Jobs : jobs[j] # NoJob /\ jobs[j].group = x.g => j \in x.targets
    BY <1>1 DEF Matches
  <2>2. x.op = "deletejobs" =>
           \A o \in Fresh :
               rows[o].group = x.g /\ rows[o].job \in x.targets => o \in x.occs
    BY <1>1 DEF Fresh, Pending
  <2> QED
    BY <1>1, <2>1, <2>2 DEF Serial
<1> QED
  BY <1>1, <1>2, <1>3, <1>4, <1>5, <1>6, <1>7 DEF TxOK, x

\* The record of a new transaction.
LEMMA NewTxType ==
    ASSUME NEW op \in ClientOps \cup WorkOps, NEW g \in Groups, NEW j \in Jobs, NEW at \in Times,
           NEW row \in Slots \cup {NoRow}
    PROVE  /\ NewTx(op, g, j, at, row) \in Tx
           /\ NewTx(op, g, j, at, row).op = op /\ NewTx(op, g, j, at, row).g = g
           /\ NewTx(op, g, j, at, row).j = j /\ NewTx(op, g, j, at, row).row = row
           /\ NewTx(op, g, j, at, row).pc = "scan" /\ NewTx(op, g, j, at, row).targets = {}
           /\ NewTx(op, g, j, at, row).held = {} /\ NewTx(op, g, j, at, row).occs = {}
BY DEF NewTx, Tx

\* A client's call that begins with an UPDATE or a DELETE.
LEMMA BeginClientKeeps ==
    ASSUME TxInv, NEW s \in Sess, tx[s] = NoTx, NEW op \in ClientOps \ {"push"},
           NEW g \in Groups, NEW j \in Jobs, NEW at \in Times, NEW wanted,
           op = "removegroup" => wanted = Jobs,
           BeginClient(s, NewTx(op, g, j, at, NoRow), wanted)
    PROVE  TxInv'
<1> DEFINE t == NewTx(op, g, j, at, NoRow)
<1>1. t \in Tx /\ t.op = op /\ t.held = {} /\ t.pc = "scan"
  BY NewTxType
<1>2. Begin(s, Scanned(t, wanted))
  BY DEF BeginClient
<1> HIDE DEF t
<1>3. Stands(t)
  BY <1>1 DEF Stands, WorkOps, ClientOps
<1>4. TableType
  BY DEF TxInv
<1>5. /\ TxOK(Scanned(t, wanted)) /\ Scanned(t, wanted) \in Tx
      /\ Scanned(t, wanted).held = {} /\ Scanned(t, wanted).pc = "lock"
  BY <1>1, <1>3, <1>4, ScannedOK
<1> QED
  BY <1>2, <1>5, BeginKeeps

\* Push begins.
LEMMA BeginPushKeeps ==
    ASSUME TxInv, NEW s \in Sess, tx[s] = NoTx, NEW g \in Groups, NEW j \in Jobs,
           NEW at \in Times, BeginPush(s, NewTx("push", g, j, at, NoRow))
    PROVE  TxInv'
<1> DEFINE t == [NewTx("push", g, j, at, NoRow) EXCEPT !.pc = "insert"]
<1>1. /\ t \in Tx /\ t.op = "push" /\ t.g = g /\ t.held = {} /\ t.pc = "insert"
      /\ t.targets = {} /\ t.occs = {}
  BY DEF NewTx, Tx, ClientOps
<1>2. Begin(s, t) /\ g \in groups
  BY DEF BeginPush, NewTx
<1> HIDE DEF t
<1>3. TxOK(t)
  BY <1>1, <1>2
     DEF TxOK, Shape, Holds, Takes, TakesAll, Stands, Serial, JobOps, WorkOps
<1> QED
  BY <1>1, <1>2, <1>3, BeginKeeps

\* Work begins to settle.
LEMMA BeginWorkKeeps ==
    ASSUME TxInv, NEW s \in Sess, tx[s] = NoTx, BeginWork(s)
    PROVE  TxInv'
<1>1. PICK o \in Slots \ (Free \cup Pending), op \in WorkOps, at \in Times :
          /\ jobs[rows[o].job] # NoJob
          /\ Begin(s, NewTx(op, jobs[rows[o].job].group, rows[o].job, at, o))
  BY DEF BeginWork
<1>2. rows[o] # NoRow /\ rows[o].phase = "running" /\ rows[o].job \in Jobs
  BY DEF TxInv, TableType, Free, Pending, Store!Occ
<1>3. jobs[rows[o].job].group \in Groups
  BY <1>1, <1>2 DEF TxInv, TableType, Store!Def
<1> DEFINE t == NewTx(op, jobs[rows[o].job].group, rows[o].job, at, o)
<1>4. /\ t \in Tx /\ t.op = op /\ t.j = rows[o].job /\ t.row = o /\ t.held = {} /\ t.pc = "scan"
      /\ t.targets = {} /\ t.occs = {}
  BY <1>2, <1>3, NewTxType
<1> HIDE DEF t
<1>5. TxOK(t)
  BY <1>2, <1>4
     DEF TxOK, Shape, Holds, Takes, TakesAll, Stands, Serial, JobOps, WorkOps
<1> QED
  BY <1>1, <1>4, <1>5, BeginKeeps DEF t

\* Whatever a session begins keeps the invariant.
LEMMA CallKeeps ==
    ASSUME TxInv, NEW s \in Sess, tx[s] = NoTx, ClientCall(s) \/ BeginWork(s)
    PROVE  TxInv'
<1>1. AnyJob \in Jobs /\ AnyTime \in Times
  BY ArgumentsAssumption DEF AnyJob, AnyTime
<1>2. ASSUME NEW g \in Groups, NEW j \in Jobs, NEW at \in Times,
             BeginPush(s, NewTx("push", g, j, at, NoRow))
      PROVE  TxInv'
  BY <1>2, BeginPushKeeps
<1>3. ASSUME NEW g \in Groups, NEW j \in Jobs, NEW at \in Times, NEW wanted,
             NEW op \in {"active", "pause", "delete", "deletejobs"},
             BeginClient(s, NewTx(op, g, j, at, NoRow), wanted)
      PROVE  TxInv'
  BY <1>3, BeginClientKeeps DEF ClientOps
<1>4. ASSUME NEW g \in Groups,
             BeginClient(s, NewTx("removegroup", g, AnyJob, AnyTime, NoRow), Jobs)
      PROVE  TxInv'
  BY <1>1, <1>4, BeginClientKeeps DEF ClientOps
<1>5. ASSUME NEW g \in Groups, NEW j \in Jobs, NEW op \in {"pause", "delete"},
             BeginClient(s, NewTx(op, g, j, AnyTime, NoRow), {j})
      PROVE  TxInv'
  BY <1>1, <1>3, <1>5
<1>6. ASSUME NEW g \in Groups, NEW wanted \in SUBSET Jobs,
             BeginClient(s, NewTx("deletejobs", g, AnyJob, AnyTime, NoRow), wanted)
      PROVE  TxInv'
  BY <1>1, <1>3, <1>6
<1>7. ASSUME NEW g \in Groups, NEW j \in Jobs, NEW at \in Times,
             BeginClient(s, NewTx("active", g, j, at, NoRow), {j})
      PROVE  TxInv'
  BY <1>3, <1>7
<1> QED
  BY <1>2, <1>4, <1>5, <1>6, <1>7, BeginWorkKeeps, Zenon DEF ClientCall

\* What the invariant says of an open transaction.
LEMMA OpenFacts ==
    ASSUME TxInv, NEW s \in Open
    PROVE  /\ s \in Sess /\ tx[s] # NoTx /\ tx[s] \in Tx /\ TxOK(tx[s]) /\ TableType
           /\ Shape(tx[s]) /\ Holds(tx[s]) /\ Takes(tx[s]) /\ TakesAll(tx[s]) /\ Stands(tx[s])
           /\ \A u \in Sess : u # s /\ tx[u] # NoTx => Apart(tx[s], tx[u]) /\ Apart(tx[u], tx[s])
BY DEF Open, TxInv, TxOK

\* The other sessions.
LEMMA OthersFacts ==
    ASSUME NEW s \in Sess
    PROVE  /\ \A u : u \in Others(s) <=> u \in Sess /\ u # s /\ tx[u] # NoTx
           /\ \A u \in Sess : \A o : u # s /\ tx[u] # NoTx /\ tx[u].op # "deletejobs" /\ o \in tx[u].occs
                 => o \in LockedOccs(Others(s))
<1>1. \A u : u \in Others(s) <=> u \in Sess /\ u # s /\ tx[u] # NoTx
  BY DEF Others, Open
<1>2. ASSUME NEW u \in Sess, NEW o, u # s, tx[u] # NoTx, tx[u].op # "deletejobs", o \in tx[u].occs
      PROVE  o \in LockedOccs(Others(s))
  <2>1. u \in {v \in Others(s) \cap Open : tx[v].op # "deletejobs"}
    BY <1>2 DEF Others, Open
  <2> QED
    BY <1>2, <2>1 DEF LockedOccs
<1> QED
  BY <1>1, <1>2

\* Work's UPDATE starts.
LEMMA ScanKeeps ==
    ASSUME TxInv, NEW s \in Open, Scan(s)
    PROVE  TxInv'
<1> DEFINE t == tx[s]
           x == Scanned(t, {t.j})
<1>1. /\ s \in Sess /\ t \in Tx /\ Shape(t) /\ Stands(t) /\ TableType /\ t.pc = "scan"
      /\ \A u \in Sess : u # s /\ tx[u] # NoTx => Apart(t, tx[u]) /\ Apart(tx[u], t)
  BY OpenFacts DEF Scan
<1>2. t.op \in WorkOps /\ t.held = {}
  BY <1>1 DEF Shape, JobOps, WorkOps, Tx, ClientOps
<1>3. tx' = [tx EXCEPT ![s] = x] /\ UNCHANGED tables
  BY <1>1 DEF Scan
<1> HIDE DEF t
<1>4. /\ TxOK(x) /\ x \in Tx /\ x.held = {} /\ x.pc = "lock" /\ x.op = t.op /\ x.g = t.g
  BY <1>1, <1>2, ScannedOK DEF WorkOps
<1> HIDE DEF x
<1>5. x.occs = {}
  BY <1>2, <1>4 DEF TxOK, Shape, WorkOps
<1>6. ASSUME NEW u \in Sess, u # s, tx[u] # NoTx
      PROVE  Apart(x, tx[u]) /\ Apart(tx[u], x)
  BY <1>1, <1>4, <1>5, <1>6 DEF Apart, Clash
<1> QED
  BY <1>1, <1>3, <1>4, <1>6, OwnKeeps

\* Push inserts its definition, or finds it taken.
LEMMA InsertJobKeeps ==
    ASSUME TxInv, NEW s \in Open, InsertJob(s)
    PROVE  TxInv'
<1> DEFINE t == tx[s]
           x == [t EXCEPT !.pc = "commit", !.held = {t.j}]
<1>1. /\ s \in Sess /\ t \in Tx /\ TxOK(t) /\ TableType /\ t.pc = "insert"
      /\ \A u \in Sess : u # s /\ tx[u] # NoTx => Apart(t, tx[u]) /\ Apart(tx[u], t)
  BY OpenFacts DEF InsertJob
<1>2. t.op = "push" /\ t.targets = {} /\ t.occs = {}
  BY <1>1 DEF TxOK, Shape, JobOps, WorkOps, Tx, ClientOps
<1>3. CASE jobs[t.j] # NoJob
  <2>1. End(s)
    BY <1>3 DEF InsertJob
  <2> QED
    BY <1>1, <2>1, EndKeeps
<1>4. CASE jobs[t.j] = NoJob
  <2>1. tx' = [tx EXCEPT ![s] = x] /\ UNCHANGED tables
    BY <1>1, <1>4, Zenon DEF InsertJob
  <2>2. \A u \in Sess : u # s /\ tx[u] # NoTx => t.j \notin tx[u].held
    BY <1>1, OthersFacts DEF InsertJob, HeldByOther
  <2> HIDE DEF t
  <2>3. /\ x \in Tx /\ x.op = "push" /\ x.g = t.g /\ x.pc = "commit" /\ x.held = {t.j} /\ x.j = t.j
        /\ x.targets = {} /\ x.occs = {}
    BY <1>1, <1>2 DEF Tx
  <2> HIDE DEF x
  <2>4. TxOK(x)
    BY <1>1, <1>2, <1>4, <2>3
       DEF TxOK, Shape, Holds, Takes, TakesAll, Stands, Serial, JobOps, WorkOps
  <2>5. ASSUME NEW u \in Sess, u # s, tx[u] # NoTx
        PROVE  Apart(x, tx[u]) /\ Apart(tx[u], x)
    BY <1>1, <1>2, <2>2, <2>3, <2>5 DEF Apart, Clash
  <2> QED
    BY <1>1, <2>1, <2>3, <2>4, <2>5, OwnKeeps
<1> QED
  BY <1>3, <1>4

\* A statement locks the next of its jobs, or passes over one that no longer
\* answers its WHERE clause.
LEMMA LockKeeps ==
    ASSUME TxInv, NEW s \in Open, Lock(s)
    PROVE  TxInv'
<1> DEFINE t == tx[s]
<1>1. /\ s \in Sess /\ t \in Tx /\ TxOK(t) /\ TableType /\ t.pc = "lock" /\ UNCHANGED tables
      /\ \A u \in Sess : u # s /\ tx[u] # NoTx => Apart(t, tx[u]) /\ Apart(tx[u], t)
  BY OpenFacts DEF Lock
<1>2. PICK j \in InScanOrder(t.targets) :
         /\ ~HeldByOther(s, j)
         /\ tx' = [tx EXCEPT ![s].targets = @ \ {j}, ![s].held = @ \cup ({j} \cap Matches(t))]
  BY Zenon DEF Lock
<1> DEFINE more == {j} \cap Matches(t)
           x == [t EXCEPT !.targets = @ \ {j}, !.held = @ \cup more]
<1>3. tx' = [tx EXCEPT ![s] = x]
  BY <1>1, <1>2, Zenon
<1>4. \A u \in Sess : u # s /\ tx[u] # NoTx => j \notin tx[u].held
  BY <1>1, <1>2, OthersFacts DEF HeldByOther
<1> HIDE DEF t
<1>5. j \in Jobs /\ j \in t.targets /\ t.op # "push"
  BY <1>1, <1>2 DEF InScanOrder, Tx, TxOK, Shape
<1>6. /\ x \in Tx /\ x.op = t.op /\ x.g = t.g /\ x.pc = t.pc /\ x.j = t.j /\ x.row = t.row
      /\ x.targets = t.targets \ {j} /\ x.held = t.held \cup more
      /\ x.occs = t.occs
  <2>1. more \in SUBSET Jobs
    BY <1>5
  <2> HIDE DEF more
  <2> QED
    BY <1>1, <1>5, <2>1 DEF Tx
<1>7. Matches(x) = Matches(t)
  BY <1>6 DEF Matches
<1> HIDE DEF x
<1>8. Shape(x) /\ Holds(x) /\ Takes(x) /\ TakesAll(x) /\ Stands(x)
  <2>1. Shape(x)
    <3>1. ASSUME NEW h \in x.held, NEW k \in x.targets PROVE h < k
      <4>1. h = j \/ h \in t.held
        BY <1>6
      <4>2. k \in t.targets /\ k # j
        BY <1>6
      <4>3. j <= k /\ j \in Nat /\ k \in Nat
        BY <1>1, <1>2, <1>5, <4>2, JobsAssumption DEF InScanOrder, Tx
      <4>4. h \in t.held => h < k
        BY <1>1, <4>2 DEF TxOK, Shape
      <4> QED
        BY <4>1, <4>2, <4>3, <4>4
    <3>2. Shape(t)
      BY <1>1 DEF TxOK
    <3> QED
      BY <1>1, <1>5, <1>6, <3>1, <3>2 DEF Shape
  <2>2. Holds(x)
    BY <1>1, <1>5, <1>6, <1>7 DEF TxOK, Holds
  <2>3. Takes(x)
    BY <1>1, <1>6 DEF TxOK, Takes
  <2>4. TakesAll(x)
    BY <1>1, <1>6 DEF TxOK, TakesAll
  <2>5. Stands(x)
    BY <1>1, <1>6 DEF TxOK, Stands
  <2> QED
    BY <2>1, <2>2, <2>3, <2>4, <2>5
<1>9. ~Overlap => Serial(x)
  <2> SUFFICES ASSUME ~Overlap PROVE Serial(x)
    OBVIOUS
  <2>1. Serial(t)
    BY <1>1 DEF TxOK
  <2>2. ASSUME x.op = "removegroup", NEW i \in Jobs, jobs[i] # NoJob, jobs[i].group = x.g
        PROVE  i \in x.targets \cup x.held
    <3>1. i \in t.targets \cup t.held
      BY <1>6, <2>1, <2>2 DEF Serial
    <3>2. i \in Matches(t)
      BY <1>6, <2>2 DEF Matches
    <3> QED
      BY <1>6, <3>1, <3>2
  <2>3. x.targets \cup x.held \subseteq t.targets \cup t.held
    BY <1>5, <1>6
  <2> QED
    BY <1>5, <1>6, <2>1, <2>2, <2>3 DEF Serial
<1>10. ASSUME NEW u \in Sess, u # s, tx[u] # NoTx
       PROVE  Apart(x, tx[u]) /\ Apart(tx[u], x)
  <2>1. x.held \subseteq t.held \cup {j}
    BY <1>6
  <2> QED
    BY <1>1, <1>4, <1>6, <1>10, <2>1 DEF Apart, Clash
<1> QED
  BY <1>1, <1>3, <1>6, <1>8, <1>9, <1>10, OwnKeeps DEF TxOK

\* The occurrences of a job, or of a group, are locked for deletion.
LEMMA DeleteOccsKeeps ==
    ASSUME TxInv, NEW s \in Open, DeleteOccs(s)
    PROVE  TxInv'
<1> DEFINE t == tx[s]
           found == {o \in Pending : IF t.op = "removegroup" THEN rows[o].group = t.g
                                     ELSE rows[o].job = t.j}
           pc == IF t.op = "removegroup" THEN "delgroup" ELSE "commit"
           x == [t EXCEPT !.occs = found, !.pc = pc]
<1>1. /\ s \in Sess /\ t \in Tx /\ TxOK(t) /\ TableType /\ t.pc = "lock" /\ t.targets = {}
      /\ \A u \in Sess : u # s /\ tx[u] # NoTx => Apart(t, tx[u]) /\ Apart(tx[u], t)
  BY OpenFacts DEF DeleteOccs, Locked
<1>2. (t.op \in JobOps /\ t.held # {}) \/ t.op = "removegroup"
  BY DEF DeleteOccs, JobOps
<1>3. tx' = [tx EXCEPT ![s] = x] /\ UNCHANGED tables
  BY <1>1, Zenon DEF DeleteOccs
<1>4. found \cap LockedOccs(Others(s)) = {}
  BY Zenon DEF DeleteOccs
<1>5. \A u \in Sess : u # s /\ tx[u] # NoTx /\ tx[u].op # "deletejobs" => found \cap tx[u].occs = {}
  <2> HIDE DEF found
  <2> QED
    BY <1>1, <1>4, OthersFacts
<1>6. found \in SUBSET Slots
  BY DEF Pending
<1> HIDE DEF t
<1>7. /\ x \in Tx /\ x.op = t.op /\ x.g = t.g /\ x.pc = pc /\ x.j = t.j /\ x.row = t.row
      /\ x.targets = {} /\ x.held = t.held /\ x.occs = found
  <2> HIDE DEF found
  <2> QED
    BY <1>1, <1>6 DEF Tx
<1>8. Matches(x) = Matches(t)
  BY <1>7 DEF Matches
<1> HIDE DEF x
<1>9. Shape(x) /\ Holds(x) /\ Takes(x) /\ TakesAll(x) /\ Stands(x)
  <2>1. Shape(x)
    BY <1>2, <1>7 DEF Shape, JobOps, WorkOps
  <2>2. Holds(x)
    BY <1>1, <1>7, <1>8 DEF TxOK, Holds
  <2>3. Takes(x)
    BY <1>2, <1>7 DEF Takes, JobOps, Pending
  <2>4. TakesAll(x)
    <3>1. Fresh \subseteq Pending
      BY DEF Fresh, Pending
    <3> QED
      BY <1>2, <1>7, <3>1 DEF TakesAll, JobOps
  <2>5. Stands(x)
    BY <1>2, <1>7 DEF Stands, JobOps, WorkOps
  <2> QED
    BY <2>1, <2>2, <2>3, <2>4, <2>5
<1>10. ~Overlap => Serial(x)
  BY <1>1, <1>2, <1>7 DEF TxOK, Serial, JobOps
<1> HIDE DEF found
<1>11. ASSUME NEW u \in Sess, u # s, tx[u] # NoTx
       PROVE  Apart(x, tx[u]) /\ Apart(tx[u], x)
  BY <1>1, <1>2, <1>5, <1>7, <1>11 DEF Apart, Clash, JobOps
<1> QED
  BY <1>1, <1>3, <1>7, <1>9, <1>10, <1>11, OwnKeeps DEF TxOK

\* RemoveGroup deletes the group, or finds it gone.
LEMMA DeleteGroupKeeps ==
    ASSUME TxInv, NEW s \in Open, DeleteGroup(s)
    PROVE  TxInv'
<1> DEFINE t == tx[s]
           x == [t EXCEPT !.pc = "commit"]
<1>1. /\ s \in Sess /\ t \in Tx /\ TxOK(t) /\ TableType /\ t.pc = "delgroup"
      /\ \A u \in Sess : u # s /\ tx[u] # NoTx => Apart(t, tx[u]) /\ Apart(tx[u], t)
  BY OpenFacts DEF DeleteGroup
<1>2. t.op = "removegroup" /\ t.targets = {}
  BY <1>1 DEF TxOK, Shape, JobOps, WorkOps, Tx, ClientOps
<1>3. CASE t.g \notin groups
  <2>1. End(s)
    BY <1>3 DEF DeleteGroup
  <2> QED
    BY <1>1, <2>1, EndKeeps
<1>4. CASE t.g \in groups
  <2>1. tx' = [tx EXCEPT ![s] = x] /\ UNCHANGED tables
    BY <1>1, <1>4, Zenon DEF DeleteGroup
  <2>2. \A u \in Sess : u # s /\ tx[u] # NoTx =>
           ~(tx[u].op = "removegroup" /\ tx[u].g = t.g /\ tx[u].pc = "commit")
    BY <1>1, OthersFacts DEF DeleteGroup
  <2> HIDE DEF t
  <2>3. /\ x \in Tx /\ x.op = t.op /\ x.g = t.g /\ x.pc = "commit" /\ x.j = t.j /\ x.row = t.row
        /\ x.targets = t.targets /\ x.held = t.held /\ x.occs = t.occs
    BY <1>1 DEF Tx
  <2>4. Matches(x) = Matches(t)
    BY <2>3 DEF Matches
  <2> HIDE DEF x
  <2>5. Shape(x) /\ Stands(x)
    BY <1>2, <1>4, <2>3 DEF Shape, Stands, JobOps, WorkOps
  <2>6. Holds(x)
    BY <1>1, <2>3, <2>4 DEF TxOK, Holds
  <2>7. Takes(x) /\ TakesAll(x)
    BY <1>1, <1>2, <2>3 DEF TxOK, Takes, TakesAll, JobOps
  <2>8. ~Overlap => Serial(x)
    BY <1>1, <1>2, <2>3 DEF TxOK, Serial
  <2>9. ASSUME NEW u \in Sess, u # s, tx[u] # NoTx
        PROVE  Apart(x, tx[u]) /\ Apart(tx[u], x)
    BY <1>1, <1>2, <2>2, <2>3, <2>9 DEF Apart, Clash
  <2> QED
    BY <1>1, <2>1, <2>3, <2>5, <2>6, <2>7, <2>8, <2>9, OwnKeeps DEF TxOK
<1> QED
  BY <1>3, <1>4

-----------------------------------------------------------------------------
(* COMMIT keeps the invariant *)

\* What the COMMIT of s does, when it deletes the definitions `ids` and the
\* occurrences `gone`: it writes what it holds, and takes what nobody else does.
Committed(s, ids, gone) ==
    LET t == tx[s] IN
    /\ gone \subseteq Pending
    /\ \A u \in Sess : u # s /\ tx[u] # NoTx /\ tx[u].op # "deletejobs" => gone \cap tx[u].occs = {}
    /\ \A j \in Jobs : j \notin t.held => jobs'[j] = jobs[j]
    /\ \A j \in ids : jobs'[j] = NoJob
    /\ \A j \in Jobs : jobs[j] # NoJob /\ j \notin ids => jobs'[j] # NoJob
    /\ \A j \in Jobs : jobs'[j] # NoJob =>
           \/ jobs[j] # NoJob /\ jobs'[j].group = jobs[j].group
           \/ t.op = "push" /\ jobs'[j].group = t.g
    /\ \A o \in Slots :
           \/ rows'[o] = IF o \in gone THEN NoRow ELSE rows[o]
           \/ rows[o] = NoRow /\ rows'[o].job \in t.held /\ t.op \in Inserters
    /\ \A g \in groups : g \in groups' \/ (t.op = "removegroup" /\ t.pc = "commit" /\ g = t.g)
    /\ Close(s, ids, gone)

\* What is left of the other transactions when s has closed.
ClosedBy(s, ids, gone) ==
    /\ tx' \in [Sess -> Tx \cup {NoTx}]
    /\ tx'[s] = NoTx
    /\ \A u \in Sess : tx'[u] # NoTx =>
           /\ u # s /\ tx[u] # NoTx /\ tx[u] \in Tx /\ tx'[u] \in Tx
           /\ tx'[u].op = tx[u].op /\ tx'[u].g = tx[u].g /\ tx'[u].j = tx[u].j
           /\ tx'[u].row = tx[u].row /\ tx'[u].pc = tx[u].pc
           /\ tx'[u].held = tx[u].held /\ tx'[u].targets = tx[u].targets \ ids
           /\ tx'[u].occs = IF tx[u].op = "deletejobs" THEN tx[u].occs \ gone ELSE tx[u].occs

\* The other transactions lose what s has deleted, and nothing else.
LEMMA Closed ==
    ASSUME TxInv, NEW s \in Sess, NEW ids, NEW gone, Close(s, ids, gone)
    PROVE  ClosedBy(s, ids, gone)
<1> DEFINE left(t) == [t EXCEPT !.targets = @ \ ids,
                                !.occs = IF t.op = "deletejobs" THEN @ \ gone ELSE @]
<1>1. ASSUME NEW t \in Tx
      PROVE  /\ left(t) \in Tx /\ left(t).op = t.op /\ left(t).g = t.g /\ left(t).j = t.j
             /\ left(t).row = t.row /\ left(t).pc = t.pc /\ left(t).held = t.held
             /\ left(t).targets = t.targets \ ids
             /\ left(t).occs = IF t.op = "deletejobs" THEN t.occs \ gone ELSE t.occs
  <2> DEFINE T == t.targets \ ids
             O == IF t.op = "deletejobs" THEN t.occs \ gone ELSE t.occs
  <2>1. left(t) = [t EXCEPT !.targets = T, !.occs = O]
    BY DEF Tx
  <2>2. T \in SUBSET Jobs /\ O \in SUBSET Slots
    BY DEF Tx
  <2> HIDE DEF T, O, left
  <2>3. /\ left(t) \in Tx /\ left(t).op = t.op /\ left(t).g = t.g /\ left(t).j = t.j
        /\ left(t).row = t.row /\ left(t).pc = t.pc /\ left(t).held = t.held
        /\ left(t).targets = T /\ left(t).occs = O
    BY <2>1, <2>2 DEF Tx
  <2> QED
    BY <2>3 DEF T, O
<1>2. tx' = [u \in Sess |-> IF u = s \/ tx[u] = NoTx THEN NoTx ELSE left(tx[u])]
  BY Zenon DEF Close
<1> HIDE DEF left
<1>3. \A u \in Sess : tx[u] # NoTx => tx[u] \in Tx
  BY DEF TxInv
<1>4. \A u \in Sess : tx'[u] = IF u = s \/ tx[u] = NoTx THEN NoTx ELSE left(tx[u])
  BY <1>2
<1>5. ASSUME NEW u \in Sess, tx'[u] # NoTx
      PROVE  u # s /\ tx[u] # NoTx /\ tx[u] \in Tx /\ tx'[u] = left(tx[u])
  BY <1>3, <1>4, <1>5
<1>6. \A u \in Sess : tx'[u] \in Tx \cup {NoTx}
  BY <1>1, <1>3, <1>4
<1> QED
  BY <1>1, <1>2, <1>4, <1>5, <1>6 DEF ClosedBy

\* A COMMIT leaves the other transactions in order, and apart.
LEMMA CommitKeeps ==
    ASSUME TxInv, NEW s \in Open, NEW ids, NEW gone, Committed(s, ids, gone), TableType'
    PROVE  TxInv'
<1>1. s \in Sess /\ tx[s] # NoTx
  BY DEF Open
<1>2. ClosedBy(s, ids, gone)
  BY <1>1, Closed DEF Committed
<1>3. ASSUME NEW u \in Sess, tx'[u] # NoTx
      PROVE  TxOK(tx[u])'
  <2> DEFINE t == tx[s]
             a == tx[u]
             b == tx'[u]
  <2>1. /\ u # s /\ a # NoTx /\ a \in Tx /\ TxOK(a) /\ Apart(t, a) /\ Apart(a, t)
        /\ b \in Tx /\ b.op = a.op /\ b.g = a.g /\ b.j = a.j /\ b.row = a.row /\ b.pc = a.pc
        /\ b.held = a.held /\ b.targets = a.targets \ ids
        /\ b.occs = IF a.op = "deletejobs" THEN a.occs \ gone ELSE a.occs
    BY <1>1, <1>2, <1>3 DEF TxInv, ClosedBy
  <2>2. Holds(t) /\ (~Overlap => Serial(t))
    BY <1>1 DEF TxInv, TxOK
  <2> HIDE DEF t, a, b
  <2>3. Shape(b)
    BY <2>1 DEF TxOK, Shape
  <2>4. /\ \A j \in a.held : jobs'[j] = jobs[j] /\ j \notin t.held
        /\ a.held \subseteq Jobs /\ a.targets \subseteq Jobs
    BY <2>1 DEF Committed, Apart, Tx, t
  <2>5. \A o \in Slots : a.op # "deletejobs" /\ o \in a.occs => rows'[o] = rows[o]
    BY <1>1, <1>3, <2>1 DEF Committed, TxOK, Takes, Pending, a, t
  <2>6. ASSUME NEW o \in Fresh'
        PROVE  \/ o \in Fresh /\ o \notin gone /\ rows'[o] = rows[o]
               \/ rows'[o].job \in t.held /\ t.op \in Inserters
    BY <2>6 DEF Fresh, Committed, t
  <2>7. Holds(tx[u])'
    <3>1. a.op = "push" => \A j \in b.held : j = b.j /\ jobs'[j] = NoJob
      BY <2>1, <2>4 DEF TxOK, Holds
    <3>2. a.op # "push" => b.held \subseteq Matches(tx[u])'
      <4> SUFFICES ASSUME a.op # "push", NEW j \in a.held
                   PROVE  j \in Matches(tx[u])'
        BY <2>1
      <4>1. j \in Matches(a) /\ jobs'[j] = jobs[j]
        BY <2>1, <2>4 DEF TxOK, Holds
      <4>2. /\ tx'[u].op = a.op /\ tx'[u].g = a.g /\ tx'[u].j = a.j
        BY <2>1 DEF b
      <4> QED
        BY <4>1, <4>2 DEF Matches
    <3>3. \A j \in b.targets : jobs'[j] # NoJob
      BY <2>1, <2>4 DEF TxOK, Holds, Committed
    <3> QED
      BY <2>1, <3>1, <3>2, <3>3 DEF Holds, b
  <2>8. Takes(tx[u])'
    <3>1. \A o \in a.occs : o \in Slots
      BY <2>1 DEF Tx
    <3>2. b.op # "deletejobs" => \A o \in b.occs : rows'[o] = rows[o] /\ o \in a.occs
      BY <2>1, <2>5, <3>1
    <3>3. b.op = "deletejobs" => \A o \in b.occs : rows'[o] = rows[o] /\ o \in a.occs
      BY <2>1, <3>1 DEF Committed, TxOK, Takes
    <3>4. b.op # "deletejobs" => b.occs \subseteq Pending'
      BY <2>1, <3>1, <3>2 DEF TxOK, Takes, Pending
    <3> QED
      BY <2>1, <3>2, <3>3, <3>4 DEF TxOK, Takes, JobOps, b
  <2>9. TakesAll(tx[u])'
    <3>1. ASSUME b.op \in JobOps, b.pc = "commit", NEW o \in Fresh', rows'[o].job = b.j
          PROVE  o \in b.occs
      <4>1. b.j \in a.held
        BY <2>1, <3>1 DEF TxOK, Shape, Holds, Matches, JobOps
      <4>2. o \in Fresh /\ rows'[o] = rows[o]
        BY <2>4, <2>6, <3>1, <4>1
      <4> QED
        BY <2>1, <3>1, <4>2 DEF TxOK, TakesAll, JobOps
    <3>2. ASSUME b.op = "removegroup", b.pc # "lock", NEW o \in Fresh', rows'[o].group = b.g,
                 rows'[o].job \in b.held
          PROVE  o \in b.occs
      <4>1. o \in Fresh /\ rows'[o] = rows[o]
        BY <2>1, <2>4, <2>6, <3>2
      <4> QED
        BY <2>1, <3>2, <4>1 DEF TxOK, TakesAll
    <3> QED
      BY <3>1, <3>2, Zenon DEF TakesAll, b
  <2>10. Stands(tx[u])'
    <3>1. ASSUME b.op \in WorkOps
          PROVE  rows'[b.row] = rows[b.row] /\ b.row \in Slots /\ rows[b.row] # NoRow
      BY <2>1, <3>1 DEF TxOK, Stands, Committed, Pending
    <3>2. ASSUME b.op = "removegroup", b.pc = "commit"
          PROVE  b.g \in groups'
      BY <2>1, <3>2 DEF TxOK, Stands, Committed, Apart, t
    <3> QED
      BY <2>1, <3>1, <3>2 DEF TxOK, Stands, b
  <2>11. ~Overlap => Serial(tx[u])'
    <3> SUFFICES ASSUME ~Overlap PROVE Serial(tx[u])'
      OBVIOUS
    <3>0. Serial(a) /\ ~Clash(t, a) /\ ~Clash(a, t)
      BY <2>1 DEF TxOK, Apart
    <3>1. b.op = "push" => b.g \in groups'
      BY <2>1, <3>0 DEF Serial, Committed, Clash, t
    <3>2. ASSUME b.op = "removegroup", NEW j \in Jobs, jobs'[j] # NoJob, jobs'[j].group = b.g
          PROVE  j \in b.targets \cup b.held
      <4>1. jobs[j] # NoJob /\ jobs[j].group = b.g /\ j \notin ids
        BY <2>1, <3>0, <3>2 DEF Committed, Clash, t
      <4> QED
        BY <2>1, <3>0, <3>2, <4>1 DEF Serial
    <3>3. ASSUME b.op = "deletejobs", NEW o \in Fresh', rows'[o].group = b.g,
                 rows'[o].job \in b.targets \cup b.held
          PROVE  o \in b.occs
      <4>1. CASE o \in Fresh /\ o \notin gone /\ rows'[o] = rows[o]
        BY <2>1, <3>0, <3>3, <4>1 DEF Serial
      <4>2. CASE rows'[o].job \in t.held /\ t.op \in Inserters
        <5>1. t.op = "push"
          BY <2>1, <3>0, <3>3, <4>2 DEF Clash, Inserters
        <5>2. jobs[rows'[o].job] = NoJob
          BY <2>2, <4>2, <5>1 DEF Holds
        <5> QED
          BY <2>1, <2>4, <3>3, <4>2, <5>2 DEF TxOK, Holds
      <4> QED
        BY <2>6, <3>3, <4>1, <4>2
    <3> QED
      BY <3>1, <3>2, <3>3, Zenon DEF Serial, b
  <2> QED
    BY <2>3, <2>7, <2>8, <2>9, <2>10, <2>11 DEF TxOK, Shape, b
<1>4. ASSUME NEW u \in Sess, NEW v \in Sess, u # v, tx'[u] # NoTx, tx'[v] # NoTx
      PROVE  Apart(tx[u], tx[v])'
  <2>1. Apart(tx[u], tx[v])
    BY <1>2, <1>4 DEF TxInv, ClosedBy
  <2> QED
    BY <1>2, <1>4, <2>1 DEF Apart, Clash, ClosedBy
<1> QED
  BY <1>2, <1>3, <1>4, Zenon DEF TxInv, ClosedBy

-----------------------------------------------------------------------------
(* Every COMMIT is such a step, and one operation of the store *)

\* The store's sets of occurrences and jobs.
LEMMA PhaseSets ==
    ASSUME TableType
    PROVE  /\ Store!InPhase({"fresh"}) = Fresh
           /\ Store!InPhase({"fresh", "retry"}) = Pending
           /\ Fresh \subseteq Pending
           /\ \A ids : Store!OfJob(ids) = {o \in Pending : rows[o].job \in ids}
           /\ \A g : Store!OfGroup(g) = {o \in Pending : rows[o].group = g}
           /\ \A ids : Store!WithoutJobs(ids) = WithoutJobs(ids)
           /\ \A t, j, g, at : Store!Added(t, j, g, at) = WithOccurrence(t, j, g, at)
<1>1. Store!InPhase({"fresh"}) = Fresh
  BY DEF Store!InPhase, Fresh
<1>2. Store!InPhase({"fresh", "retry"}) = Pending
  BY DEF Store!InPhase, Pending, TableType, Store!Occ
<1>3. Fresh \subseteq Pending
  BY DEF Fresh, Pending
<1>4. \A ids : Store!OfJob(ids) = {o \in Pending : rows[o].job \in ids}
  BY <1>2, Zenon DEF Store!OfJob
<1>5. \A g : Store!OfGroup(g) = {o \in Pending : rows[o].group = g}
  BY <1>2, Zenon DEF Store!OfGroup
<1>6. \A ids : Store!WithoutJobs(ids) = WithoutJobs(ids)
  BY Zenon DEF Store!WithoutJobs, WithoutJobs
<1>7. \A t, j, g, at : Store!Added(t, j, g, at) = WithOccurrence(t, j, g, at)
  BY Zenon DEF Store!Added, WithOccurrence, Free
<1> QED
  BY <1>1, <1>2, <1>3, <1>4, <1>5, <1>6, <1>7, Zenon

\* To delete `gone` takes back the fresh ones of `must`.
LEMMA TakesBack ==
    ASSUME NEW must, NEW may, NEW gone, gone \subseteq may,
           must \cap Store!InPhase({"fresh"}) \subseteq gone
    PROVE  WithoutRows(gone) \in Store!TakenBack(must, may)
<1>1. gone \in {x \in SUBSET may : must \cap Store!InPhase({"fresh"}) \subseteq x}
  OBVIOUS
<1> QED
  BY <1>1, Zenon DEF Store!TakenBack, WithoutRows

\* A transaction on one job that has found it.
LEMMA HeldJob ==
    ASSUME TxInv, NEW s \in Open, tx[s].op \in JobOps \cup WorkOps, tx[s].held # {}
    PROVE  /\ tx[s].held = {tx[s].j} /\ tx[s].j \in Jobs /\ tx[s].g \in Groups /\ tx[s].at \in Times
           /\ jobs[tx[s].j] \in Store!Def /\ jobs[tx[s].j] # NoJob
           /\ tx[s].op \in JobOps => jobs[tx[s].j].group = tx[s].g /\ tx[s].j \in Store!Owned(tx[s].g)
           /\ tx[s].op = "next" => jobs[tx[s].j].active
<1> DEFINE t == tx[s]
<1>1. t \in Tx /\ TableType /\ t.held \subseteq Matches(t) /\ t.op \in JobOps \cup WorkOps /\ t.held # {}
  BY OpenFacts DEF Holds, JobOps, WorkOps
<1> HIDE DEF t
<1>2. \A j \in Matches(t) :
         /\ j = t.j /\ jobs[j] # NoJob /\ j \in Jobs
         /\ t.op \in JobOps => jobs[j].group = t.g
         /\ t.op = "next" => jobs[j].active
  BY <1>1 DEF Matches, JobOps, WorkOps
<1>3. t.held = {t.j} /\ t.j \in Matches(t)
  BY <1>1, <1>2
<1>4. jobs[t.j] \in Store!Def
  BY <1>2, <1>3, <1>1 DEF TableType
<1>5. t.g \in Groups /\ t.at \in Times
  BY <1>1 DEF Tx
<1> QED
  BY <1>2, <1>3, <1>4, <1>5 DEF t, Store!Owned

\* Deleted rows leave a table of rows.
LEMMA WithoutRowsType ==
    ASSUME TableType, NEW gone
    PROVE  /\ WithoutRows(gone) \in [Slots -> Store!Occ \cup {NoRow}]
           /\ \A o \in Slots : WithoutRows(gone)[o] = IF o \in gone THEN NoRow ELSE rows[o]
BY DEF WithoutRows, TableType

\* Deleted definitions leave a table of definitions.
LEMMA WithoutJobsType ==
    ASSUME TableType, NEW ids
    PROVE  /\ WithoutJobs(ids) \in [Jobs -> Store!Def \cup {NoJob}]
           /\ \A j \in Jobs : WithoutJobs(ids)[j] = IF j \in ids THEN NoJob ELSE jobs[j]
BY DEF WithoutJobs, TableType

\* One row more is a table of rows.
LEMMA WithOccurrenceType ==
    ASSUME NEW t \in [Slots -> Store!Occ \cup {NoRow}], NEW j \in Jobs, NEW g \in Groups,
           NEW at \in Times, NEW r \in WithOccurrence(t, j, g, at)
    PROVE  /\ r \in [Slots -> Store!Occ \cup {NoRow}]
           /\ \A o \in Slots : r[o] = t[o] \/ (rows[o] = NoRow /\ r[o].job = j)
<1> DEFINE new == [job |-> j, group |-> g, plan |-> at, phase |-> "fresh"]
<1>1. new \in Store!Occ /\ new.job = j
  BY DEF Store!Occ
<1>2. PICK o \in Free : r = [t EXCEPT ![o] = new]
  BY Zenon DEF WithOccurrence
<1> HIDE DEF new
<1>3. o \in Slots /\ rows[o] = NoRow
  BY DEF Free
<1>4. \A x \in Slots : r[x] = IF x = o THEN new ELSE t[x]
  BY <1>2, <1>3
<1>5. \A x \in Slots : r[x] \in Store!Occ \cup {NoRow}
  BY <1>1, <1>4
<1>6. r = [x \in Slots |-> r[x]]
  BY <1>2, <1>3
<1>7. r \in [Slots -> Store!Occ \cup {NoRow}]
  BY <1>5, <1>6
<1>8. ASSUME NEW x \in Slots
      PROVE  r[x] = t[x] \/ (rows[x] = NoRow /\ r[x].job = j)
  <2>1. CASE x = o
    BY <1>1, <1>3, <1>4, <2>1
  <2>2. CASE x # o
    BY <1>4, <2>2
  <2> QED
    BY <2>1, <2>2
<1> QED
  BY <1>7, <1>8

\* One definition changes, not its group.
LEMMA OneJobType ==
    ASSUME TableType, NEW j \in Jobs, jobs[j] \in Store!Def, NEW d \in Store!Def,
           d.group = jobs[j].group, jobs' = [jobs EXCEPT ![j] = d]
    PROVE  /\ jobs' \in [Jobs -> Store!Def \cup {NoJob}]
           /\ \A i \in Jobs : i # j => jobs'[i] = jobs[i]
           /\ \A i \in Jobs : jobs[i] # NoJob => jobs'[i] # NoJob
           /\ \A i \in Jobs : jobs'[i] # NoJob => jobs[i] # NoJob /\ jobs'[i].group = jobs[i].group
<1>1. d # NoJob /\ jobs[j] # NoJob
  BY NullAssumption
<1> QED
  BY <1>1 DEF TableType

\* COMMIT of Push.
LEMMA CommitPushStep ==
    ASSUME TxInv, NEW s \in Open, CommitPush(s)
    PROVE  TxInv' /\ (~Overlap => Store!Push(tx[s].j, tx[s].g, tx[s].at))
<1> DEFINE t == tx[s]
           d == [group |-> t.g, exectime |-> t.at, active |-> TRUE]
<1>1. /\ t \in Tx /\ TableType /\ Shape(t) /\ Holds(t) /\ (~Overlap => Serial(t))
      /\ t.op = "push" /\ t.pc = "commit" /\ UNCHANGED groups /\ Close(s, {}, {})
      /\ jobs' = [jobs EXCEPT ![t.j] = d] /\ rows' \in WithOccurrence(rows, t.j, t.g, t.at)
  BY OpenFacts, Zenon DEF CommitPush, TxOK
<1>2. t.j \in Jobs /\ t.g \in Groups /\ t.at \in Times
  BY <1>1 DEF Tx
<1>3. t.held = {t.j} /\ jobs[t.j] = NoJob
  BY <1>1 DEF Shape, Holds
<1>4. d \in Store!Def /\ d.group = t.g
  BY <1>2 DEF Store!Def
<1> HIDE DEF d
<1>5. /\ jobs' \in [Jobs -> Store!Def \cup {NoJob}] /\ jobs'[t.j] = d /\ d # NoJob
      /\ \A i \in Jobs : i # t.j => jobs'[i] = jobs[i]
  BY <1>1, <1>2, <1>4, NullAssumption DEF TableType
<1>6. /\ rows' \in [Slots -> Store!Occ \cup {NoRow}]
      /\ \A o \in Slots : rows'[o] = rows[o] \/ (rows[o] = NoRow /\ rows'[o].job = t.j)
  BY <1>1, <1>2, WithOccurrenceType DEF TableType
<1>7. TableType'
  BY <1>1, <1>5, <1>6 DEF TableType
<1>8. Committed(s, {}, {})
  <2>1. \A j \in Jobs : j \notin t.held => jobs'[j] = jobs[j]
    BY <1>3, <1>5
  <2>2. \A j \in Jobs : jobs[j] # NoJob /\ j \notin {} => jobs'[j] # NoJob
    BY <1>5
  <2>3. \A j \in Jobs : jobs'[j] # NoJob =>
           \/ jobs[j] # NoJob /\ jobs'[j].group = jobs[j].group
           \/ t.op = "push" /\ jobs'[j].group = t.g
    BY <1>1, <1>4, <1>5
  <2>4. \A o \in Slots :
           \/ rows'[o] = IF o \in {} THEN NoRow ELSE rows[o]
           \/ rows[o] = NoRow /\ rows'[o].job \in t.held /\ t.op \in Inserters
    BY <1>1, <1>3, <1>6 DEF Inserters
  <2>5. {} \subseteq Pending /\ (\A g \in groups : g \in groups')
    BY <1>1
  <2>6. \A u \in Sess : {} \cap tx[u].occs = {}
    OBVIOUS
  <2> QED
    BY <1>1, <2>1, <2>2, <2>3, <2>4, <2>5, <2>6, Zenon DEF Committed
<1>9. TxInv'
  BY <1>7, <1>8, CommitKeeps
<1>10. ASSUME ~Overlap PROVE Store!Push(t.j, t.g, t.at)
  <2>1. t.g \in groups
    BY <1>1, <1>10 DEF Serial
  <2>2. rows' \in Store!Added(rows, t.j, t.g, t.at)
    BY <1>1, Zenon DEF Store!Added, WithOccurrence, Free
  <2> QED
    BY <1>1, <1>3, <2>1, <2>2, Zenon DEF Store!Push, d
<1> QED
  BY <1>9, <1>10

\* What a commit deletes no other transaction has locked.
LEMMA OwnOccs ==
    ASSUME TxInv, NEW s \in Open, tx[s].op # "deletejobs"
    PROVE  /\ tx[s].occs \subseteq Pending
           /\ \A u \in Sess : u # s /\ tx[u] # NoTx /\ tx[u].op # "deletejobs" =>
                 tx[s].occs \cap tx[u].occs = {}
BY OpenFacts DEF Takes, Apart

\* At COMMIT, Active, Pause and Delete hold the job and all its waiting rows.
LEMMA JobOpFacts ==
    ASSUME TxInv, NEW s \in Open, tx[s].op \in JobOps, tx[s].pc = "commit"
    PROVE  /\ tx[s].held # {}
           /\ WithoutRows(tx[s].occs) \in Store!TakenBack(Store!OfJob({tx[s].j}), Store!OfJob({tx[s].j}))
<1> DEFINE t == tx[s]
<1>1. TableType /\ Shape(t) /\ Takes(t) /\ TakesAll(t) /\ t.op \in JobOps /\ t.pc = "commit"
  BY OpenFacts
<1> HIDE DEF t
<1>2. t.held # {}
  BY <1>1 DEF Shape, JobOps
<1>3. /\ Store!OfJob({t.j}) = {o \in Pending : rows[o].job \in {t.j}}
      /\ Store!InPhase({"fresh"}) = Fresh
  BY <1>1, PhaseSets
<1>4. t.occs \subseteq Store!OfJob({t.j})
  BY <1>1, <1>3 DEF Takes, JobOps
<1>5. Store!OfJob({t.j}) \cap Store!InPhase({"fresh"}) \subseteq t.occs
  BY <1>1, <1>3 DEF TakesAll
<1>6. WithoutRows(t.occs) \in Store!TakenBack(Store!OfJob({t.j}), Store!OfJob({t.j}))
  BY <1>4, <1>5, TakesBack
<1> QED
  BY <1>2, <1>6 DEF t

\* COMMIT of Active.
LEMMA CommitActiveStep ==
    ASSUME TxInv, NEW s \in Open, CommitActive(s)
    PROVE  TxInv' /\ Store!Active(tx[s].g, tx[s].j, tx[s].at)
<1> DEFINE t == tx[s]
           d == [jobs[t.j] EXCEPT !.active = TRUE, !.exectime = t.at]
<1>1. /\ t.op = "active" /\ t.op \in JobOps /\ t.pc = "commit" /\ UNCHANGED groups
      /\ Close(s, {}, t.occs)
      /\ jobs' = [jobs EXCEPT ![t.j].active = TRUE, ![t.j].exectime = t.at]
      /\ rows' \in WithOccurrence(WithoutRows(t.occs), t.j, t.g, t.at)
  BY DEF CommitActive, JobOps
<1>2. TableType /\ t.occs \subseteq Pending
  BY <1>1, OpenFacts, OwnOccs
<1>3. /\ t.held # {}
      /\ WithoutRows(t.occs) \in Store!TakenBack(Store!OfJob({t.j}), Store!OfJob({t.j}))
  BY <1>1, JobOpFacts
<1>4. /\ t.held = {t.j} /\ t.j \in Jobs /\ t.g \in Groups /\ t.at \in Times
      /\ jobs[t.j] \in Store!Def /\ t.j \in Store!Owned(t.g)
  BY <1>1, <1>3, HeldJob
<1>5. jobs' = [jobs EXCEPT ![t.j] = d]
  BY <1>1, <1>2, <1>4 DEF TableType
<1>6. d \in Store!Def /\ d.group = jobs[t.j].group
  BY <1>4 DEF Store!Def
<1> HIDE DEF d
<1>7. /\ jobs' \in [Jobs -> Store!Def \cup {NoJob}]
      /\ \A i \in Jobs : i # t.j => jobs'[i] = jobs[i]
      /\ \A i \in Jobs : jobs[i] # NoJob => jobs'[i] # NoJob
      /\ \A i \in Jobs : jobs'[i] # NoJob => jobs[i] # NoJob /\ jobs'[i].group = jobs[i].group
  BY <1>2, <1>4, <1>5, <1>6, OneJobType
<1>8. /\ WithoutRows(t.occs) \in [Slots -> Store!Occ \cup {NoRow}]
      /\ \A o \in Slots : WithoutRows(t.occs)[o] = IF o \in t.occs THEN NoRow ELSE rows[o]
  BY <1>2, WithoutRowsType
<1>9. /\ rows' \in [Slots -> Store!Occ \cup {NoRow}]
      /\ \A o \in Slots : rows'[o] = WithoutRows(t.occs)[o] \/ (rows[o] = NoRow /\ rows'[o].job = t.j)
  BY <1>1, <1>4, <1>8, WithOccurrenceType
<1>10. TableType'
  BY <1>1, <1>2, <1>7, <1>9 DEF TableType
<1>11. Committed(s, {}, t.occs)
  <2>1. \A o \in Slots :
           \/ rows'[o] = IF o \in t.occs THEN NoRow ELSE rows[o]
           \/ rows[o] = NoRow /\ rows'[o].job \in t.held /\ t.op \in Inserters
    BY <1>1, <1>4, <1>8, <1>9 DEF Inserters
  <2>2. \A j \in Jobs : j \notin t.held => jobs'[j] = jobs[j]
    BY <1>4, <1>7
  <2>3. \A u \in Sess : u # s /\ tx[u] # NoTx /\ tx[u].op # "deletejobs" => t.occs \cap tx[u].occs = {}
    BY <1>1, OwnOccs
  <2> QED
    BY <1>1, <1>2, <1>7, <2>1, <2>2, <2>3, Zenon DEF Committed
<1>12. rows' \in Store!Added(WithoutRows(t.occs), t.j, t.g, t.at)
  BY <1>1, Zenon DEF Store!Added, WithOccurrence, Free
<1>13. Store!Active(t.g, t.j, t.at)
  BY <1>1, <1>3, <1>4, <1>12, Zenon DEF Store!Active
<1> QED
  BY <1>10, <1>11, <1>13, CommitKeeps

\* COMMIT of Pause.
LEMMA CommitPauseStep ==
    ASSUME TxInv, NEW s \in Open, CommitPause(s)
    PROVE  TxInv' /\ Store!Pause(tx[s].g, tx[s].j)
<1> DEFINE t == tx[s]
           d == [jobs[t.j] EXCEPT !.active = FALSE]
<1>1. /\ t.op = "pause" /\ t.op \in JobOps /\ t.pc = "commit" /\ UNCHANGED groups
      /\ Close(s, {}, t.occs)
      /\ jobs' = [jobs EXCEPT ![t.j].active = FALSE]
      /\ rows' = WithoutRows(t.occs)
  BY DEF CommitPause, JobOps
<1>2. TableType /\ t.occs \subseteq Pending
  BY <1>1, OpenFacts, OwnOccs
<1>3. /\ t.held # {}
      /\ WithoutRows(t.occs) \in Store!TakenBack(Store!OfJob({t.j}), Store!OfJob({t.j}))
  BY <1>1, JobOpFacts
<1>4. /\ t.held = {t.j} /\ t.j \in Jobs /\ jobs[t.j] \in Store!Def /\ t.j \in Store!Owned(t.g)
  BY <1>1, <1>3, HeldJob
<1>5. jobs' = [jobs EXCEPT ![t.j] = d]
  BY <1>1, <1>2, <1>4 DEF TableType
<1>6. d \in Store!Def /\ d.group = jobs[t.j].group
  BY <1>4 DEF Store!Def
<1> HIDE DEF d
<1>7. /\ jobs' \in [Jobs -> Store!Def \cup {NoJob}]
      /\ \A i \in Jobs : i # t.j => jobs'[i] = jobs[i]
      /\ \A i \in Jobs : jobs[i] # NoJob => jobs'[i] # NoJob
      /\ \A i \in Jobs : jobs'[i] # NoJob => jobs[i] # NoJob /\ jobs'[i].group = jobs[i].group
  BY <1>2, <1>4, <1>5, <1>6, OneJobType
<1>8. /\ rows' \in [Slots -> Store!Occ \cup {NoRow}]
      /\ \A o \in Slots : rows'[o] = IF o \in t.occs THEN NoRow ELSE rows[o]
  BY <1>1, <1>2, WithoutRowsType
<1>9. TableType'
  BY <1>1, <1>2, <1>7, <1>8 DEF TableType
<1>10. Committed(s, {}, t.occs)
  <2>1. \A j \in Jobs : j \notin t.held => jobs'[j] = jobs[j]
    BY <1>4, <1>7
  <2>2. \A u \in Sess : u # s /\ tx[u] # NoTx /\ tx[u].op # "deletejobs" => t.occs \cap tx[u].occs = {}
    BY <1>1, OwnOccs
  <2> QED
    BY <1>1, <1>2, <1>7, <1>8, <2>1, <2>2, Zenon DEF Committed
<1>11. Store!Pause(t.g, t.j)
  BY <1>1, <1>3, <1>4, Zenon DEF Store!Pause
<1> QED
  BY <1>9, <1>10, <1>11, CommitKeeps

\* Deleted definitions and rows are a commit.
LEMMA DeletesCommitted ==
    ASSUME TxInv, NEW s \in Open, tx[s].op # "push", NEW gone, gone \subseteq Pending,
           \A u \in Sess : u # s /\ tx[u] # NoTx /\ tx[u].op # "deletejobs" => gone \cap tx[u].occs = {},
           jobs' = WithoutJobs(tx[s].held), rows' = WithoutRows(gone), Close(s, tx[s].held, gone),
           groups' \subseteq groups,
           \A g \in groups : g \in groups' \/ (tx[s].op = "removegroup" /\ tx[s].pc = "commit" /\ g = tx[s].g)
    PROVE  TxInv'
<1> DEFINE ids == tx[s].held
<1>1. TableType /\ ids \subseteq Jobs
  BY OpenFacts DEF Tx
<1>2. /\ jobs' \in [Jobs -> Store!Def \cup {NoJob}]
      /\ \A j \in Jobs : jobs'[j] = IF j \in ids THEN NoJob ELSE jobs[j]
  BY <1>1, WithoutJobsType
<1>3. /\ rows' \in [Slots -> Store!Occ \cup {NoRow}]
      /\ \A o \in Slots : rows'[o] = IF o \in gone THEN NoRow ELSE rows[o]
  BY <1>1, WithoutRowsType
<1>4. TableType'
  BY <1>1, <1>2, <1>3 DEF TableType
<1>5. Committed(s, ids, gone)
  <2>1. /\ \A j \in Jobs : j \notin ids => jobs'[j] = jobs[j]
        /\ \A j \in ids : jobs'[j] = NoJob
        /\ \A j \in Jobs : jobs[j] # NoJob /\ j \notin ids => jobs'[j] # NoJob
        /\ \A j \in Jobs : jobs'[j] # NoJob => jobs[j] # NoJob /\ jobs'[j].group = jobs[j].group
    BY <1>1, <1>2
  <2> QED
    BY <1>3, <2>1, Zenon DEF Committed
<1> QED
  BY <1>4, <1>5, CommitKeeps

\* COMMIT of Delete and of RemoveGroup.
LEMMA CommitDeleteStep ==
    ASSUME TxInv, NEW s \in Open, CommitDelete(s)
    PROVE  /\ TxInv'
           /\ \/ tx[s].op = "delete" /\ Store!Delete(tx[s].g, tx[s].j)
              \/ tx[s].op = "removegroup" /\ (~Overlap => Store!RemoveGroup(tx[s].g))
<1> DEFINE t == tx[s]
<1>1. /\ t.op \in {"delete", "removegroup"} /\ t.pc = "commit" /\ Close(s, t.held, t.occs)
      /\ groups' = IF t.op = "removegroup" THEN groups \ {t.g} ELSE groups
      /\ jobs' = WithoutJobs(t.held) /\ rows' = WithoutRows(t.occs)
  BY DEF CommitDelete
<1>2. TableType /\ Shape(t) /\ Holds(t) /\ Takes(t) /\ TakesAll(t) /\ Stands(t) /\ t \in Tx
  BY OpenFacts
<1>3. /\ t.occs \subseteq Pending
      /\ \A u \in Sess : u # s /\ tx[u] # NoTx /\ tx[u].op # "deletejobs" => t.occs \cap tx[u].occs = {}
  BY <1>1, OwnOccs
<1>4. TxInv'
  <2>1. /\ groups' \subseteq groups /\ t.op # "push"
        /\ \A g \in groups : g \in groups' \/ (t.op = "removegroup" /\ t.pc = "commit" /\ g = t.g)
    BY <1>1
  <2> QED
    BY <1>1, <1>3, <2>1, DeletesCommitted
<1>5. CASE t.op = "delete"
  <2>1. /\ t.held # {}
        /\ WithoutRows(t.occs) \in Store!TakenBack(Store!OfJob({t.j}), Store!OfJob({t.j}))
    BY <1>1, <1>5, JobOpFacts DEF JobOps
  <2>2. t.held = {t.j} /\ t.j \in Store!Owned(t.g)
    BY <1>5, <2>1, HeldJob DEF JobOps
  <2>3. jobs' = Store!WithoutJobs({t.j})
    BY <1>1, <2>2, Zenon DEF Store!WithoutJobs, WithoutJobs
  <2>4. Store!Delete(t.g, t.j)
    BY <1>1, <1>5, <2>1, <2>2, <2>3 DEF Store!Delete
  <2> QED
    BY <1>4, <1>5, <2>4
<1>6. CASE t.op = "removegroup"
  <2>1. ASSUME ~Overlap PROVE Store!RemoveGroup(t.g)
    <3>1. Serial(t)
      BY <2>1, OpenFacts DEF TxOK
    <3> HIDE DEF t
    <3>2. t.held = Store!Owned(t.g)
      <4>1. t.held \subseteq Store!Owned(t.g)
        BY <1>2, <1>6 DEF Holds, Matches, Store!Owned
      <4>2. t.targets = {}
        BY <1>1, <1>2 DEF Shape
      <4>3. Store!Owned(t.g) \subseteq t.held
        BY <1>6, <3>1, <4>2 DEF Serial, Store!Owned
      <4> QED
        BY <4>1, <4>3
    <3>3. jobs' = Store!WithoutJobs(Store!Owned(t.g))
      BY <1>1, <3>2, Zenon DEF Store!WithoutJobs, WithoutJobs
    <3> DEFINE may == Store!OfGroup(t.g)
               must == {o \in may : rows[o].job \in Store!Owned(t.g)}
    <3>4. may = {o \in Pending : rows[o].group = t.g} /\ Store!InPhase({"fresh"}) = Fresh
      BY <1>2, PhaseSets
    <3>5. t.occs \subseteq may
      BY <1>2, <1>3, <1>6, <3>4 DEF Takes
    <3>6. must \cap Store!InPhase({"fresh"}) \subseteq t.occs
      BY <1>1, <1>2, <1>6, <3>2, <3>4 DEF TakesAll
    <3>7. rows' \in Store!TakenBack(must, may)
      <4> HIDE DEF must, may
      <4> QED
        BY <1>1, <3>5, <3>6, TakesBack
    <3>8. t.g \in groups /\ groups' = groups \ {t.g}
      BY <1>1, <1>2, <1>6 DEF Stands
    <3> QED
      BY <3>3, <3>7, <3>8, Zenon DEF Store!RemoveGroup
  <2> QED
    BY <1>4, <1>6, <2>1
<1> QED
  BY <1>1, <1>5, <1>6

\* DeleteJobs, one statement.
LEMMA CommitDeleteJobsStep ==
    ASSUME TxInv, NEW s \in Open, CommitDeleteJobs(s)
    PROVE  TxInv' /\ (~Overlap => /\ tx[s].held \in SUBSET Store!Owned(tx[s].g)
                                  /\ Store!DeleteJobs(tx[s].g, tx[s].held))
<1> DEFINE t == tx[s]
           doomed == {o \in t.occs \cap Pending : rows[o].job \in t.held}
<1>1. /\ t.op = "deletejobs" /\ UNCHANGED groups /\ Close(s, t.held, doomed)
      /\ doomed \cap LockedOccs(Others(s)) = {}
      /\ jobs' = WithoutJobs(t.held) /\ rows' = WithoutRows(doomed)
  BY Zenon DEF CommitDeleteJobs
<1>2. TableType /\ Holds(t) /\ Takes(t) /\ s \in Sess
  BY OpenFacts
<1>3. doomed \subseteq Pending
  OBVIOUS
<1>4. TxInv'
  <2> HIDE DEF doomed
  <2>1. \A u \in Sess : u # s /\ tx[u] # NoTx /\ tx[u].op # "deletejobs" => doomed \cap tx[u].occs = {}
    BY <1>1, <1>2, OthersFacts
  <2> QED
    BY <1>1, <1>3, <2>1, DeletesCommitted
<1>5. ASSUME ~Overlap
      PROVE  t.held \in SUBSET Store!Owned(t.g) /\ Store!DeleteJobs(t.g, t.held)
  <2>1. Serial(t)
    BY <1>5, OpenFacts DEF TxOK
  <2> HIDE DEF t
  <2>2. t.held \subseteq Store!Owned(t.g)
    BY <1>1, <1>2 DEF Holds, Matches, Store!Owned
  <2>3. jobs' = Store!WithoutJobs(t.held)
    BY <1>1, Zenon DEF Store!WithoutJobs, WithoutJobs
  <2> DEFINE may == Store!OfJob(t.held) \cap Store!OfGroup(t.g)
  <2>4. /\ may = {o \in Pending : rows[o].job \in t.held /\ rows[o].group = t.g}
        /\ Store!InPhase({"fresh"}) = Fresh
    <3>1. /\ Store!OfJob(t.held) = {o \in Pending : rows[o].job \in t.held}
          /\ Store!OfGroup(t.g) = {o \in Pending : rows[o].group = t.g}
          /\ Store!InPhase({"fresh"}) = Fresh
      BY <1>2, PhaseSets
    <3> QED
      BY <3>1
  <2>5. doomed \subseteq may
    BY <1>1, <1>2, <2>4 DEF Takes
  <2>6. may \cap Store!InPhase({"fresh"}) \subseteq doomed
    BY <1>1, <2>1, <2>4 DEF Serial
  <2>7. rows' \in Store!TakenBack(may, may)
    <3> HIDE DEF may, doomed
    <3> QED
      BY <1>1, <2>5, <2>6, TakesBack
  <2> QED
    BY <1>1, <2>2, <2>3, <2>7 DEF Store!DeleteJobs
<1> QED
  BY <1>4, <1>5

\* The settling of Work, its UPDATE or DELETE and COMMIT.
LEMMA CommitWorkStep ==
    ASSUME TxInv, NEW s \in Open, CommitWork(s)
    PROVE  /\ TxInv'
           /\ tx[s].j \in Jobs /\ tx[s].g \in Groups /\ tx[s].at \in Times
           /\ \/ Store!ScheduleNext(tx[s].j, tx[s].g, tx[s].at)
              \/ Store!Stop(tx[s].j) \/ Store!Drop(tx[s].j)
<1> DEFINE t == tx[s]
<1>1. t.op \in WorkOps /\ t.held # {} /\ UNCHANGED groups
  BY DEF CommitWork
<1>2. TableType /\ Stands(t) /\ t \in Tx
  BY OpenFacts
<1>3. /\ t.held = {t.j} /\ t.j \in Jobs /\ t.g \in Groups /\ t.at \in Times
      /\ jobs[t.j] \in Store!Def /\ jobs[t.j] # NoJob /\ (t.op = "next" => jobs[t.j].active)
  BY <1>1, HeldJob
<1>4. Store!IsRun(t.j)
  <2>1. t.row \in Store!InPhase({"running"}) /\ rows[t.row].job = t.j
    BY <1>1, <1>2 DEF Stands, Store!InPhase
  <2> QED
    BY <2>1 DEF Store!IsRun
<1>5. CASE /\ t.op = "next" /\ jobs' = [jobs EXCEPT ![t.j].exectime = t.at]
           /\ rows' \in WithOccurrence(rows, t.j, t.g, t.at) /\ Close(s, {}, {})
  <2> DEFINE d == [jobs[t.j] EXCEPT !.exectime = t.at]
  <2>1. jobs' = [jobs EXCEPT ![t.j] = d]
    BY <1>2, <1>3, <1>5 DEF TableType
  <2>2. d \in Store!Def /\ d.group = jobs[t.j].group
    BY <1>3 DEF Store!Def
  <2> HIDE DEF d
  <2>3. /\ jobs' \in [Jobs -> Store!Def \cup {NoJob}]
        /\ \A i \in Jobs : i # t.j => jobs'[i] = jobs[i]
        /\ \A i \in Jobs : jobs[i] # NoJob => jobs'[i] # NoJob
        /\ \A i \in Jobs : jobs'[i] # NoJob => jobs[i] # NoJob /\ jobs'[i].group = jobs[i].group
    BY <1>2, <1>3, <2>1, <2>2, OneJobType
  <2>4. /\ rows' \in [Slots -> Store!Occ \cup {NoRow}]
        /\ \A o \in Slots : rows'[o] = rows[o] \/ (rows[o] = NoRow /\ rows'[o].job = t.j)
    BY <1>2, <1>3, <1>5, WithOccurrenceType DEF TableType
  <2>5. TableType'
    BY <1>1, <1>2, <2>3, <2>4 DEF TableType
  <2>6. Committed(s, {}, {})
    <3>1. \A j \in Jobs : j \notin t.held => jobs'[j] = jobs[j]
      BY <1>3, <2>3
    <3>2. \A o \in Slots :
             \/ rows'[o] = IF o \in {} THEN NoRow ELSE rows[o]
             \/ rows[o] = NoRow /\ rows'[o].job \in t.held /\ t.op \in Inserters
      BY <1>3, <1>5, <2>4 DEF Inserters
    <3>3. {} \subseteq Pending /\ (\A g \in groups : g \in groups')
      BY <1>1
    <3>4. \A u \in Sess : {} \cap tx[u].occs = {}
      OBVIOUS
    <3> QED
      BY <1>5, <2>3, <3>1, <3>2, <3>3, <3>4, Zenon DEF Committed
  <2>7. rows' \in Store!Added(rows, t.j, t.g, t.at)
    BY <1>5, Zenon DEF Store!Added, WithOccurrence, Free
  <2>8. Store!ScheduleNext(t.j, t.g, t.at)
    BY <1>1, <1>3, <1>4, <1>5, <2>7, Zenon DEF Store!ScheduleNext
  <2> QED
    BY <1>3, <2>5, <2>6, <2>8, CommitKeeps
<1>6. CASE /\ t.op = "stop" /\ jobs' = [jobs EXCEPT ![t.j].active = FALSE]
           /\ Close(s, {}, {}) /\ UNCHANGED rows
  <2> DEFINE d == [jobs[t.j] EXCEPT !.active = FALSE]
  <2>1. jobs' = [jobs EXCEPT ![t.j] = d]
    BY <1>2, <1>3, <1>6 DEF TableType
  <2>2. d \in Store!Def /\ d.group = jobs[t.j].group
    BY <1>3 DEF Store!Def
  <2> HIDE DEF d
  <2>3. /\ jobs' \in [Jobs -> Store!Def \cup {NoJob}]
        /\ \A i \in Jobs : i # t.j => jobs'[i] = jobs[i]
        /\ \A i \in Jobs : jobs[i] # NoJob => jobs'[i] # NoJob
        /\ \A i \in Jobs : jobs'[i] # NoJob => jobs[i] # NoJob /\ jobs'[i].group = jobs[i].group
    BY <1>2, <1>3, <2>1, <2>2, OneJobType
  <2>4. TableType'
    BY <1>1, <1>2, <1>6, <2>3 DEF TableType
  <2>5. Committed(s, {}, {})
    <3>1. \A j \in Jobs : j \notin t.held => jobs'[j] = jobs[j]
      BY <1>3, <2>3
    <3>2. \A o \in Slots : rows'[o] = IF o \in {} THEN NoRow ELSE rows[o]
      BY <1>6
    <3>3. {} \subseteq Pending /\ (\A g \in groups : g \in groups')
      BY <1>1
    <3>4. \A u \in Sess : {} \cap tx[u].occs = {}
      OBVIOUS
    <3> QED
      BY <1>6, <2>3, <3>1, <3>2, <3>3, <3>4, Zenon DEF Committed
  <2>6. Store!Stop(t.j)
    BY <1>1, <1>3, <1>4, <1>6, Zenon DEF Store!Stop
  <2> QED
    BY <1>3, <2>4, <2>5, <2>6, CommitKeeps
<1>7. CASE /\ t.op = "drop" /\ jobs' = WithoutJobs(t.held)
           /\ Close(s, t.held, {}) /\ UNCHANGED rows
  <2>1. rows' = WithoutRows({})
    BY <1>2, <1>7 DEF WithoutRows, TableType
  <2>2. /\ {} \subseteq Pending /\ groups' \subseteq groups /\ (\A g \in groups : g \in groups')
        /\ \A u \in Sess : {} \cap tx[u].occs = {}
    BY <1>1
  <2>3. TxInv'
    BY <1>7, <2>1, <2>2, DeletesCommitted
  <2>4. jobs' = Store!WithoutJobs({t.j})
    BY <1>3, <1>7, Zenon DEF Store!WithoutJobs, WithoutJobs
  <2>5. Store!Drop(t.j)
    BY <1>1, <1>4, <1>7, <2>4 DEF Store!Drop
  <2> QED
    BY <1>3, <2>3, <2>5
<1> QED
  BY <1>5, <1>6, <1>7, Zenon DEF CommitWork

-----------------------------------------------------------------------------
(* Single statements *)

\* A new group disturbs no transaction.
LEMMA RegisterGroupStep ==
    ASSUME TxInv, NEW g \in Groups, RegisterGroup(g)
    PROVE  TxInv' /\ Store!RegisterGroup(g)
<1>1. groups \subseteq groups' /\ jobs' = jobs /\ rows' = rows /\ tx' = tx /\ groups' = groups \cup {g}
  BY DEF RegisterGroup
<1>2. TableType'
  BY <1>1 DEF TxInv, TableType
<1>3. Fresh' = Fresh /\ Pending' = Pending
  BY <1>1 DEF Fresh, Pending
<1>4. ASSUME NEW u \in Sess, tx[u] # NoTx
      PROVE  TxOK(tx[u])'
  <2>1. TxOK(tx[u])
    BY <1>4 DEF TxInv
  <2>2. Shape(tx[u])' /\ Holds(tx[u])' /\ Takes(tx[u])' /\ TakesAll(tx[u])'
    <3>1. Matches(tx[u])' = Matches(tx[u])
      BY <1>1 DEF Matches
    <3> QED
      BY <1>1, <1>3, <2>1, <3>1, Zenon DEF TxOK, Shape, Holds, Takes, TakesAll
  <2>3. Stands(tx[u])' /\ (~Overlap => Serial(tx[u])')
    BY <1>1, <1>3, <2>1 DEF TxOK, Stands, Serial
  <2> QED
    BY <2>2, <2>3 DEF TxOK
<1>5. TxInv'
  BY <1>1, <1>2, <1>4, Zenon DEF TxInv, Apart, Clash
<1> QED
  BY <1>1, <1>5 DEF Store!RegisterGroup

\* What River does to a row that no transaction has locked or settles.
LEMMA RowKeeps ==
    ASSUME TxInv, TableType', NEW o \in Slots, UNCHANGED <<groups, jobs>>,
           \A x \in Slots : x # o => rows'[x] = rows[x],
           rows'[o] # NoRow => /\ rows[o] # NoRow /\ rows'[o].phase # "fresh"
                               /\ rows'[o].job = rows[o].job /\ rows'[o].group = rows[o].group,
           \A u \in Sess : tx[u] # NoTx =>
               /\ tx[u].op # "deletejobs" => o \notin tx[u].occs
               /\ tx[u].op \in WorkOps => tx[u].row # o,
           tx' \in [Sess -> Tx \cup {NoTx}],
           \A u \in Sess : tx'[u] # NoTx =>
               /\ tx[u] # NoTx
               /\ tx'[u].op = tx[u].op /\ tx'[u].g = tx[u].g /\ tx'[u].j = tx[u].j
               /\ tx'[u].row = tx[u].row /\ tx'[u].pc = tx[u].pc
               /\ tx'[u].held = tx[u].held /\ tx'[u].targets = tx[u].targets
               /\ tx'[u].occs \subseteq tx[u].occs /\ tx[u].occs \subseteq tx'[u].occs \cup {o}
               /\ rows'[o] = NoRow => o \notin tx'[u].occs
    PROVE  TxInv'
<1>1. Fresh' = Fresh \ {o} /\ (\A x \in Fresh' : rows'[x] = rows[x])
  BY DEF Fresh
<1>2. ASSUME NEW u \in Sess, tx'[u] # NoTx
      PROVE  TxOK(tx[u])'
  <2> DEFINE a == tx[u]
             b == tx'[u]
  <2>1. /\ a # NoTx /\ a \in Tx /\ TxOK(a)
        /\ b.op = a.op /\ b.g = a.g /\ b.j = a.j /\ b.row = a.row /\ b.pc = a.pc
        /\ b.held = a.held /\ b.targets = a.targets
        /\ b.occs \subseteq a.occs /\ a.occs \subseteq b.occs \cup {o}
        /\ rows'[o] = NoRow => o \notin b.occs
        /\ a.op # "deletejobs" => o \notin a.occs
        /\ a.op \in WorkOps => a.row # o
    BY <1>2 DEF TxInv
  <2>2. Matches(tx[u])' = Matches(a)
    BY <2>1 DEF Matches, b
  <2> HIDE DEF a, b
  <2>3. a.occs \subseteq Slots
    BY <2>1 DEF Tx
  <2>4. Shape(b)
    BY <2>1 DEF TxOK, Shape
  <2>5. Holds(tx[u])'
    BY <2>1, <2>2 DEF TxOK, Holds, b
  <2>6. Takes(tx[u])'
    <3>1. b.op # "deletejobs" => \A x \in b.occs : x \in Pending /\ rows'[x] = rows[x]
      BY <2>1, <2>3 DEF TxOK, Takes
    <3>2. b.op # "deletejobs" => b.occs \subseteq Pending'
      BY <3>1 DEF Pending
    <3>3. b.op = "deletejobs" => \A x \in b.occs : rows'[x] # NoRow /\ rows'[x].group = b.g
      BY <2>1, <2>3 DEF TxOK, Takes
    <3>4. b.op \in JobOps => \A x \in b.occs : rows'[x].job = b.j
      BY <2>1, <3>1 DEF TxOK, Takes, JobOps
    <3>5. b.op = "removegroup" => \A x \in b.occs : rows'[x] # NoRow /\ rows'[x].group = b.g
      BY <2>1, <3>1 DEF TxOK, Takes
    <3> QED
      BY <3>2, <3>3, <3>4, <3>5, Zenon DEF Takes, b
  <2>7. TakesAll(tx[u])'
    <3>1. b.op \in JobOps /\ b.pc = "commit" =>
             \A x \in Fresh' : rows'[x].job = b.j => x \in b.occs
      BY <1>1, <2>1 DEF TxOK, TakesAll
    <3>2. b.op = "removegroup" /\ b.pc # "lock" =>
             \A x \in Fresh' : rows'[x].group = b.g /\ rows'[x].job \in b.held => x \in b.occs
      BY <1>1, <2>1 DEF TxOK, TakesAll
    <3> QED
      BY <3>1, <3>2, Zenon DEF TakesAll, b
  <2>8. Stands(tx[u])'
    BY <2>1 DEF TxOK, Stands, b
  <2>9. ~Overlap => Serial(tx[u])'
    <3> SUFFICES ASSUME ~Overlap PROVE Serial(tx[u])'
      OBVIOUS
    <3>1. Serial(a)
      BY <2>1 DEF TxOK
    <3>2. b.op = "deletejobs" => \A x \in Fresh' :
             rows'[x].group = b.g /\ rows'[x].job \in b.targets \cup b.held => x \in b.occs
      BY <1>1, <2>1, <3>1 DEF Serial
    <3>3. b.op = "removegroup" => \A j \in Jobs :
             jobs'[j] # NoJob /\ jobs'[j].group = b.g => j \in b.targets \cup b.held
      BY <2>1, <3>1 DEF Serial
    <3>4. b.op = "push" => b.g \in groups'
      BY <2>1, <3>1 DEF Serial
    <3> QED
      BY <3>2, <3>3, <3>4, Zenon DEF Serial, b
  <2> QED
    BY <2>4, <2>5, <2>6, <2>7, <2>8, <2>9 DEF TxOK, Shape, b
<1>3. ASSUME NEW u \in Sess, NEW v \in Sess, u # v, tx'[u] # NoTx, tx'[v] # NoTx
      PROVE  Apart(tx[u], tx[v])'
  <2>1. Apart(tx[u], tx[v])
    BY <1>3 DEF TxInv
  <2> QED
    BY <1>3, <2>1 DEF Apart, Clash
<1> QED
  BY <1>2, <1>3, Zenon DEF TxInv

\* One row changes its phase.
LEMMA PhaseChanges ==
    ASSUME TableType, NEW o \in Slots, rows[o] # NoRow, NEW p \in {"retry", "running"},
           rows' = [rows EXCEPT ![o].phase = p]
    PROVE  /\ rows' \in [Slots -> Store!Occ \cup {NoRow}]
           /\ \A x \in Slots : x # o => rows'[x] = rows[x]
           /\ rows'[o] # NoRow /\ rows'[o].phase # "fresh"
           /\ rows'[o].job = rows[o].job /\ rows'[o].group = rows[o].group
<1> DEFINE new == [rows[o] EXCEPT !.phase = p]
<1>1. rows[o] \in Store!Occ
  BY DEF TableType
<1>2. /\ new \in Store!Occ /\ new.phase = p /\ new.job = rows[o].job /\ new.group = rows[o].group
  BY <1>1 DEF Store!Occ
<1>3. rows' = [rows EXCEPT ![o] = new]
  BY DEF TableType
<1> HIDE DEF new
<1>4. new # NoRow
  BY <1>2, NullAssumption
<1> QED
  BY <1>2, <1>3, <1>4 DEF TableType

\* A claim skips locked rows.
LEMMA ClaimStep ==
    ASSUME TxInv, NEW o \in Slots, Claim(o)
    PROVE  TxInv' /\ Store!Claim(o)
<1>1. /\ TableType /\ o \in Pending /\ o \notin LockedOccs(Sess) /\ rows[o] # NoRow
      /\ rows' = [rows EXCEPT ![o].phase = "running"] /\ UNCHANGED <<groups, jobs, tx>>
  BY DEF TxInv, Claim, Pending
<1>2. /\ rows' \in [Slots -> Store!Occ \cup {NoRow}]
      /\ \A x \in Slots : x # o => rows'[x] = rows[x]
      /\ rows'[o] # NoRow /\ rows'[o].phase # "fresh"
      /\ rows'[o].job = rows[o].job /\ rows'[o].group = rows[o].group
  BY <1>1, PhaseChanges
<1>3. TableType'
  BY <1>1, <1>2 DEF TableType
<1>4. ASSUME NEW u \in Sess, tx[u] # NoTx
      PROVE  /\ tx[u].op # "deletejobs" => o \notin tx[u].occs
             /\ tx[u].op \in WorkOps => tx[u].row # o
  <2>1. tx[u].op # "deletejobs" => o \notin tx[u].occs
    BY <1>1, <1>4 DEF LockedOccs, Open
  <2>2. Stands(tx[u])
    BY <1>4 DEF TxInv, TxOK
  <2> QED
    BY <1>1, <2>1, <2>2 DEF Stands, Pending
<1>5. tx' \in [Sess -> Tx \cup {NoTx}] /\ tx' = tx
  BY <1>1 DEF TxInv
<1>6. TxInv'
  BY <1>1, <1>2, <1>3, <1>4, <1>5, RowKeeps
<1>7. o \in Store!InPhase({"fresh", "retry"})
  BY <1>1, PhaseSets
<1> QED
  BY <1>1, <1>6, <1>7, Zenon DEF Store!Claim

\* The end of an execution.
LEMMA ReportStep ==
    ASSUME TxInv, NEW o \in Slots, Report(o)
    PROVE  TxInv' /\ (Store!Requeue(o) \/ Store!Finish(o))
<1>1. /\ TableType /\ o \notin Free /\ o \notin Pending /\ UNCHANGED <<groups, jobs>>
      /\ \A u \in Open : tx[u].row # o
  BY DEF TxInv, Report
<1>2. rows[o] # NoRow /\ rows[o].phase = "running" /\ o \in Store!InPhase({"running"})
  BY <1>1 DEF Free, Pending, Store!InPhase
<1>3. ASSUME NEW u \in Sess, tx[u] # NoTx
      PROVE  /\ tx[u].op # "deletejobs" => o \notin tx[u].occs
             /\ tx[u].op \in WorkOps => tx[u].row # o
  <2>1. Takes(tx[u])
    BY <1>3 DEF TxInv, TxOK
  <2> QED
    BY <1>1, <1>3, <2>1 DEF Takes, Open
<1>4. CASE rows' = [rows EXCEPT ![o].phase = "retry"] /\ UNCHANGED tx
  <2>1. /\ rows' \in [Slots -> Store!Occ \cup {NoRow}]
        /\ \A x \in Slots : x # o => rows'[x] = rows[x]
        /\ rows'[o] # NoRow /\ rows'[o].phase # "fresh"
        /\ rows'[o].job = rows[o].job /\ rows'[o].group = rows[o].group
    BY <1>1, <1>2, <1>4, PhaseChanges
  <2>2. TableType' /\ tx' \in [Sess -> Tx \cup {NoTx}] /\ tx' = tx
    BY <1>1, <1>4, <2>1 DEF TableType, TxInv
  <2>3. TxInv'
    BY <1>1, <1>2, <1>3, <2>1, <2>2, RowKeeps
  <2>4. Store!Requeue(o)
    BY <1>1, <1>2, <1>4, Zenon DEF Store!Requeue
  <2> QED
    BY <2>3, <2>4
<1>5. CASE /\ rows' = WithoutRows({o})
           /\ tx' = [t \in Sess |-> IF tx[t] = NoTx THEN NoTx ELSE [tx[t] EXCEPT !.occs = @ \ {o}]]
  <2>1. /\ rows' \in [Slots -> Store!Occ \cup {NoRow}]
        /\ \A x \in Slots : x # o => rows'[x] = rows[x]
        /\ rows'[o] = NoRow
    BY <1>1, <1>5, WithoutRowsType
  <2> DEFINE left(t) == [t EXCEPT !.occs = @ \ {o}]
  <2>2. ASSUME NEW t \in Tx
        PROVE  /\ left(t) \in Tx /\ left(t).op = t.op /\ left(t).g = t.g /\ left(t).j = t.j
               /\ left(t).row = t.row /\ left(t).pc = t.pc
               /\ left(t).held = t.held /\ left(t).targets = t.targets /\ left(t).occs = t.occs \ {o}
    BY DEF Tx
  <2>3. tx' = [t \in Sess |-> IF tx[t] = NoTx THEN NoTx ELSE left(tx[t])]
    BY <1>5, Zenon
  <2> HIDE DEF left
  <2>4. \A u \in Sess : tx[u] # NoTx => tx[u] \in Tx
    BY DEF TxInv
  <2>5. /\ \A u \in Sess : tx'[u] \in Tx \cup {NoTx}
        /\ \A u \in Sess : tx'[u] # NoTx => tx[u] # NoTx /\ tx[u] \in Tx /\ tx'[u] = left(tx[u])
    BY <2>2, <2>3, <2>4
  <2>6. tx' \in [Sess -> Tx \cup {NoTx}]
    BY <2>3, <2>5
  <2>7. ASSUME NEW u \in Sess, tx'[u] # NoTx
        PROVE  /\ tx[u] # NoTx
               /\ tx'[u].op = tx[u].op /\ tx'[u].g = tx[u].g /\ tx'[u].j = tx[u].j
               /\ tx'[u].row = tx[u].row /\ tx'[u].pc = tx[u].pc
               /\ tx'[u].held = tx[u].held /\ tx'[u].targets = tx[u].targets
               /\ tx'[u].occs \subseteq tx[u].occs /\ tx[u].occs \subseteq tx'[u].occs \cup {o}
               /\ rows'[o] = NoRow => o \notin tx'[u].occs
    BY <2>2, <2>5, <2>7
  <2>8. TableType'
    BY <1>1, <2>1 DEF TableType
  <2>9. TxInv'
    BY <1>1, <1>3, <2>1, <2>6, <2>7, <2>8, RowKeeps
  <2>10. rows' = [rows EXCEPT ![o] = NoRow]
    BY <1>1, <1>5 DEF WithoutRows, TableType
  <2>11. Store!Finish(o)
    BY <1>1, <1>2, <2>10, Zenon DEF Store!Finish
  <2> QED
    BY <2>9, <2>11
<1> QED
  BY <1>4, <1>5, Zenon DEF Report

-----------------------------------------------------------------------------
(* The theorems *)

\* The initial state.
LEMMA InitTx == Init => TxInv
BY DEF Init, TxInv, TableType

\* A step that changes no table is no step of the store.
LEMMA Unseen ==
    ASSUME UNCHANGED tables
    PROVE  UNCHANGED <<groups, jobs, rows>>
BY DEF tables

\* A transaction goes on: the invariant holds, and the store has taken one step
\* or none.
LEMMA AdvanceStep ==
    ASSUME TxInv, NEW s \in Open, Advance(s)
    PROVE  TxInv' /\ (~Overlap => [Store!Next]_(Store!vars))
<1>1. s \in Sess /\ tx[s] \in Tx
  BY OpenFacts
<1>2. tx[s].j \in Jobs /\ tx[s].g \in Groups /\ tx[s].at \in Times
  BY <1>1 DEF Tx
<1>3. CASE InsertJob(s) \/ Scan(s) \/ Lock(s) \/ NoRows(s) \/ DeleteOccs(s) \/ DeleteGroup(s)
  <2>1. UNCHANGED tables
    BY <1>3, Zenon DEF InsertJob, Scan, Lock, NoRows, DeleteOccs, DeleteGroup, End
  <2>2. NoRows(s) => TxInv'
    BY <1>1, EndKeeps DEF NoRows
  <2>3. TxInv'
    BY <1>3, <2>2, InsertJobKeeps, ScanKeeps, LockKeeps, DeleteOccsKeeps, DeleteGroupKeeps
  <2> QED
    BY <2>1, <2>3, Unseen DEF Store!vars
<1>4. CASE CommitPush(s)
  <2>1. TxInv' /\ (~Overlap => Store!Push(tx[s].j, tx[s].g, tx[s].at))
    BY <1>4, CommitPushStep
  <2> QED
    BY <1>2, <2>1, Zenon DEF Store!Next, Store!JobStep
<1>5. CASE CommitActive(s)
  <2>1. TxInv' /\ Store!Active(tx[s].g, tx[s].j, tx[s].at)
    BY <1>5, CommitActiveStep
  <2> QED
    BY <1>2, <2>1, Zenon DEF Store!Next, Store!JobStep
<1>6. CASE CommitPause(s)
  <2>1. TxInv' /\ Store!Pause(tx[s].g, tx[s].j)
    BY <1>6, CommitPauseStep
  <2> QED
    BY <1>2, <2>1, Zenon DEF Store!Next, Store!JobStep
<1>7. CASE CommitDelete(s)
  <2>1. /\ TxInv'
        /\ \/ Store!Delete(tx[s].g, tx[s].j)
           \/ ~Overlap => Store!RemoveGroup(tx[s].g)
    BY <1>7, CommitDeleteStep
  <2> QED
    BY <1>2, <2>1, Zenon DEF Store!Next, Store!JobStep, Store!GroupStep
<1>8. CASE CommitDeleteJobs(s)
  <2>1. TxInv' /\ (~Overlap => /\ tx[s].held \in SUBSET Store!Owned(tx[s].g)
                               /\ Store!DeleteJobs(tx[s].g, tx[s].held))
    BY <1>8, CommitDeleteJobsStep
  <2> QED
    BY <1>2, <2>1, Zenon DEF Store!Next, Store!JobStep
<1>9. CASE CommitWork(s)
  <2>1. /\ TxInv'
        /\ \/ Store!ScheduleNext(tx[s].j, tx[s].g, tx[s].at)
           \/ Store!Stop(tx[s].j) \/ Store!Drop(tx[s].j)
    BY <1>9, CommitWorkStep
  <2> QED
    BY <1>2, <2>1, Zenon DEF Store!Next, Store!ExecutorStep
<1> QED
  BY <1>3, <1>4, <1>5, <1>6, <1>7, <1>8, <1>9, Zenon DEF Advance

\* Every step.
LEMMA TxStep ==
    TxInv /\ [Next]_vars => TxInv' /\ (~Overlap => [Store!Next]_(Store!vars))
<1> SUFFICES ASSUME TxInv, [Next]_vars
             PROVE  TxInv' /\ (~Overlap => [Store!Next]_(Store!vars))
  OBVIOUS
<1>1. ASSUME NEW s \in Sess \ Open, ClientCall(s) \/ BeginWork(s)
      PROVE  TxInv' /\ [Store!Next]_(Store!vars)
  <2>1. tx[s] = NoTx
    BY DEF Open
  <2>2. UNCHANGED tables
    BY <1>1, ZenonT(30) DEF ClientCall, BeginWork, BeginPush, BeginClient, Begin
  <2>3. TxInv'
    BY <1>1, <2>1, CallKeeps
  <2> QED
    BY <2>2, <2>3, Unseen DEF Store!vars
<1>2. ASSUME NEW s \in Open, Advance(s)
      PROVE  TxInv' /\ (~Overlap => [Store!Next]_(Store!vars))
  BY <1>2, AdvanceStep
<1>3. ASSUME NEW s \in Open, Rollback(s)
      PROVE  TxInv' /\ [Store!Next]_(Store!vars)
  <2>1. End(s) /\ s \in Sess
    BY <1>3 DEF Rollback, Open
  <2>2. TxInv'
    BY <2>1, EndKeeps
  <2> QED
    BY <2>1, <2>2, Unseen DEF Store!vars, End
<1>4. ASSUME NEW g \in Groups, RegisterGroup(g)
      PROVE  TxInv' /\ [Store!Next]_(Store!vars)
  <2>1. TxInv' /\ Store!RegisterGroup(g)
    BY <1>4, RegisterGroupStep
  <2> QED
    BY <2>1, Zenon DEF Store!Next, Store!GroupStep
<1>5. ASSUME NEW o \in Slots, Claim(o) \/ Report(o)
      PROVE  TxInv' /\ [Store!Next]_(Store!vars)
  <2>1. TxInv' /\ (Store!Claim(o) \/ Store!Requeue(o) \/ Store!Finish(o))
    BY <1>5, ClaimStep, ReportStep
  <2> QED
    BY <2>1, Zenon DEF Store!Next, Store!ExecutorStep
<1>6. CASE UNCHANGED vars
  <2>1. UNCHANGED tables /\ tx' = tx
    BY <1>6 DEF vars, tables
  <2>2. ASSUME NEW u \in Sess, tx[u] # NoTx
        PROVE  TxOK(tx[u])'
    <3>1. TxOK(tx'[u])
      BY <2>1, <2>2 DEF TxInv
    <3> QED
      BY <2>1, <3>1, SameTables
  <2>3. TableType' /\ tx' \in [Sess -> Tx \cup {NoTx}]
    BY <2>1 DEF TxInv, TableType, tables
  <2>4. TxInv'
    BY <2>1, <2>2, <2>3, Zenon DEF TxInv, Apart, Clash
  <2> QED
    BY <2>1, <2>4, Unseen DEF Store!vars
<1> QED
  BY <1>1, <1>2, <1>3, <1>4, <1>5, <1>6, Zenon DEF Next

\* The invariant, in every behaviour.
LEMMA TxInvariant == Spec => []TxInv
<1>1. TxInv /\ [Next]_vars => TxInv'
  BY TxStep
<1> QED
  BY <1>1, InitTx, PTL DEF Spec

\* Type correctness and exclusive locks: no two open transactions of
\* riverquene.go, whatever they are, have written the same definition or deleted
\* the same occurrence, also for operations that may overlap freely.
THEOREM LocksExclude == Spec => []TypeOK
<1>1. TxInv => TypeOK
  <2> SUFFICES ASSUME TxInv PROVE TypeOK
    OBVIOUS
  <2>1. ASSUME NEW s \in Open, NEW u \in Others(s)
        PROVE  tx[s].held \cap tx[u].held = {} /\ LockedOccs({s}) \cap LockedOccs({u}) = {}
    <3>1. Apart(tx[s], tx[u])
      BY DEF TxInv, Others, Open
    <3>2. \A v \in Open : \A o : o \in LockedOccs({v}) => o \in tx[v].occs /\ tx[v].op # "deletejobs"
      BY DEF LockedOccs
    <3> QED
      BY <3>1, <3>2 DEF Apart, Others
  <2> QED
    BY <2>1 DEF TypeOK, TxInv, TableType
<1> QED
  BY <1>1, TxInvariant, PTL

\* Serialisability of the admin operations: outside the pairs of Clash, any
\* interleaving of the statements of Push, Active, Pause, Delete, DeleteJobs,
\* RemoveGroup and of the settling of Work, with failures and rollbacks anywhere
\* and River claiming and ending executions meanwhile, is a sequence of atomic
\* operations of the store.
THEOREM TransactionsAreAtomic == ~Overlap => (Spec => Atomic)
<1> SUFFICES ASSUME ~Overlap PROVE Spec => Atomic
  OBVIOUS
<1>1. Init => Store!Init
  BY DEF Init, Store!Init, Store!InPhase
<1>2. TxInv /\ [Next]_vars => [Store!Next]_(Store!vars)
  BY TxStep
<1> QED
  BY <1>1, <1>2, TxInvariant, PTL DEF Spec, Atomic, Store!Spec

-----------------------------------------------------------------------------
(* No circular wait *)

\* Among finitely many numbers there is a greatest.
LEMMA GreatestValue ==
    ASSUME NEW L, IsFiniteSet(L), L # {}, NEW m \in [L -> Nat]
    PROVE  \E x \in L : \A y \in L : m[y] <= m[x]
<1> DEFINE Above(x) == {y \in L : m[y] > m[x]}
           Counts == {Cardinality(Above(x)) : x \in L}
<1>1. \A x \in L : IsFiniteSet(Above(x)) /\ Cardinality(Above(x)) \in Nat
  BY FS_Subset, FS_CardinalityType
<1>2. Counts \in SUBSET Nat /\ Counts # {}
  BY <1>1
<1>3. PICK c \in Counts : \A d \in Counts : c <= d
  BY <1>2, LeastElement
<1>4. PICK x \in L : c = Cardinality(Above(x))
  BY <1>3
<1>5. ASSUME NEW y \in L, m[y] > m[x] PROVE FALSE
  <2>1. Above(y) \in SUBSET Above(x)
    BY <1>5
  <2>2. y \in Above(x) /\ y \notin Above(y)
    BY <1>5
  <2>3. Cardinality(Above(y)) \in Counts
    OBVIOUS
  <2> HIDE DEF Above, Counts
  <2>4. Cardinality(Above(y)) <= Cardinality(Above(x))
    BY <1>1, <2>1, FS_Subset
  <2>5. Cardinality(Above(x)) # Cardinality(Above(y))
    BY <1>1, <2>1, <2>2, FS_Subset
  <2>6. c <= Cardinality(Above(y))
    BY <1>3, <2>3
  <2> QED
    BY <1>1, <1>4, <2>4, <2>5, <2>6
<1> QED
  BY <1>5

\* Who waits for whom, by the statement the two stand at: a session that commits
\* waits for nobody, ...
LEMMA WaitsBy ==
    ASSUME TxInv, NEW s \in Open, NEW u \in MayWaitFor(s)
    PROVE  /\ u \in Open /\ tx[s].pc \in {"insert", "lock", "delgroup"}
           /\ tx[s].pc = "delgroup" => tx[u].pc = "commit"
           /\ Locked(s) => tx[u].pc \in {"delgroup", "commit"}
           /\ tx[s].pc = "insert" => tx[u].held # {}
           /\ tx[s].pc = "lock" /\ ~Locked(s) =>
                  \E j \in tx[s].targets : j \in tx[u].held /\ \A k \in tx[s].targets : j <= k
<1> DEFINE t == tx[s]
           w == tx[u]
<1>1. u \in Open /\ u \in Others(s)
  BY DEF MayWaitFor, Others
<1>2. t \in Tx /\ w \in Tx /\ Shape(t) /\ Shape(w)
  BY <1>1, OpenFacts
<1>3. LockedOccs({u}) # {} => w.op # "deletejobs" /\ w.occs # {}
  BY <1>1 DEF LockedOccs
<1>4. LockedOccs({u}) # {} => w.pc \in {"delgroup", "commit"}
  BY <1>2, <1>3 DEF Shape
<1>5. InScanOrder({}) = {}
  BY DEF InScanOrder
<1>6. t.pc \notin {"insert", "lock"} => t.targets = {}
  BY <1>2 DEF Shape
<1>7. \/ w.held \cap (IF t.pc = "insert" THEN {t.j} ELSE InScanOrder(t.targets)) # {}
      \/ Locked(s) /\ LockedOccs({u}) # {}
      \/ t.pc = "delgroup" /\ w.op = "removegroup" /\ w.g = t.g /\ w.pc = "commit"
  BY DEF MayWaitFor
<1>8. CASE Locked(s) /\ LockedOccs({u}) # {}
  <2>1. t.pc = "lock"
    BY <1>8 DEF Locked
  <2> QED
    BY <1>1, <1>4, <1>8, <2>1
<1>9. CASE t.pc = "delgroup" /\ w.pc = "commit"
  <2>1. ~Locked(s)
    BY <1>9 DEF Locked
  <2> QED
    BY <1>1, <1>9, <2>1
<1>10. CASE t.pc = "insert" /\ w.held \cap {t.j} # {}
  <2>1. ~Locked(s)
    BY <1>10 DEF Locked
  <2> QED
    BY <1>1, <1>10, <2>1
<1>11. CASE t.pc # "insert" /\ w.held \cap InScanOrder(t.targets) # {}
  <2>1. t.targets # {} /\ t.pc = "lock"
    BY <1>5, <1>6, <1>11
  <2>2. ~Locked(s)
    BY <2>1 DEF Locked
  <2>3. \E j \in t.targets : j \in w.held /\ \A k \in t.targets : j <= k
    BY <1>11 DEF InScanOrder
  <2> QED
    BY <1>1, <2>1, <2>2, <2>3
<1> QED
  BY <1>7, <1>8, <1>9, <1>10, <1>11

\* In any set of sessions one waits for none of the others: one that commits;
\* else one that is about to delete a group or to start a statement; else one
\* that has locked its jobs; else, of those that lock jobs, the one whose next
\* job is the last.
LEMMA NoCycle ==
    ASSUME TxInv, NEW S \in SUBSET Open, S # {}
    PROVE  \E s \in S : MayWaitFor(s) \cap S = {}
<1>0. ASSUME NEW s \in S
      PROVE  s \in Open /\ tx[s] \in Tx /\ Shape(tx[s])
             /\ tx[s].pc \in {"insert", "scan", "lock", "delgroup", "commit"}
  <2>1. s \in Open /\ tx[s] \in Tx /\ Shape(tx[s])
    BY OpenFacts
  <2> QED
    BY <2>1 DEF Tx
<1>1. CASE \E s \in S : tx[s].pc \in {"commit", "scan"}
  <2>1. PICK s \in S : tx[s].pc \in {"commit", "scan"}
    BY <1>1
  <2>2. MayWaitFor(s) = {}
    BY <1>0, <2>1, WaitsBy
  <2> QED
    BY <2>2
<1>2. CASE (\A s \in S : tx[s].pc # "commit") /\ \E s \in S : tx[s].pc = "delgroup"
  <2>1. PICK s \in S : tx[s].pc = "delgroup"
    BY <1>2
  <2>2. MayWaitFor(s) \cap S = {}
    BY <1>0, <1>2, <2>1, WaitsBy
  <2> QED
    BY <2>2
<1>3. CASE (\A s \in S : tx[s].pc \in {"insert", "lock"}) /\ \E s \in S : Locked(s)
  <2>1. PICK s \in S : Locked(s)
    BY <1>3
  <2>2. MayWaitFor(s) \cap S = {}
    BY <1>0, <1>3, <2>1, WaitsBy
  <2> QED
    BY <2>2
<1>4. CASE \A s \in S : tx[s].pc \in {"insert", "lock"} /\ ~Locked(s)
  <2> DEFINE L == {s \in S : tx[s].pc = "lock"}
  \* Who waits, waits for one that locks jobs.
  <2>1. ASSUME NEW s \in S, NEW u \in MayWaitFor(s) \cap S PROVE u \in L
    <3>1. tx[u].held # {}
      BY <1>0, <1>4, <2>1, WaitsBy
    <3> QED
      BY <1>0, <1>4, <3>1 DEF Shape
  <2>2. CASE L = {}
    <3>1. PICK s \in S : TRUE
      OBVIOUS
    <3>2. MayWaitFor(s) \cap S = {}
      BY <2>1, <2>2
    <3> QED
      BY <3>2
  <2>3. CASE L # {}
    <3>1. IsFiniteSet(L)
      <4>1. L \in SUBSET Sess
        BY DEF Open
      <4> QED
        BY <4>1, SessAssumption, FS_Subset
    \* The job a session comes to next.
    <3>2. ASSUME NEW s \in L
          PROVE  \E j \in tx[s].targets : j \in Nat /\ \A k \in tx[s].targets : j <= k
      <4>1. tx[s].targets \in SUBSET Nat
        BY <1>0, JobsAssumption DEF Tx
      <4>2. tx[s].targets # {}
        BY <1>4 DEF Locked
      <4> QED
        BY <4>1, <4>2, LeastElement
    <3> DEFINE first(s) == CHOOSE j \in tx[s].targets : j \in Nat /\ \A k \in tx[s].targets : j <= k
               m == [s \in L |-> first(s)]
    <3>3. ASSUME NEW s \in L
          PROVE  /\ first(s) \in tx[s].targets /\ first(s) \in Nat
                 /\ \A k \in tx[s].targets : first(s) <= k
      BY <3>2, Zenon
    <3>4. \A s \in L : m[s] = first(s)
      OBVIOUS
    <3> HIDE DEF first
    <3>5. m \in [L -> Nat]
      BY <3>3
    <3> HIDE DEF m
    <3>6. PICK s \in L : \A u \in L : m[u] <= m[s]
      BY <2>3, <3>1, <3>5, GreatestValue
    <3>7. ASSUME NEW u \in MayWaitFor(s) \cap S PROVE FALSE
      <4>1. u \in L /\ u \in S /\ s \in S
        BY <2>1
      <4>2. PICK j \in tx[s].targets : j \in tx[u].held /\ \A k \in tx[s].targets : j <= k
        BY <1>0, <1>4, <4>1, WaitsBy
      <4>3. j <= first(s) /\ first(s) <= j /\ j \in Nat
        BY <1>0, <3>3, <4>1, <4>2, JobsAssumption DEF Tx
      <4>4. j < first(u)
        <5>1. first(u) \in tx[u].targets
          BY <3>3, <4>1
        <5> QED
          BY <1>0, <4>1, <4>2, <5>1 DEF Shape
      <4>5. first(u) <= first(s) /\ first(s) \in Nat /\ first(u) \in Nat
        BY <3>3, <3>4, <3>6, <4>1
      <4> QED
        BY <4>3, <4>4, <4>5
    <3> QED
      BY <3>6, <3>7
  <2> QED
    BY <2>2, <2>3
<1> QED
  BY <1>0, <1>1, <1>2, <1>3, <1>4

\* The transactions of riverquene.go never deadlock: for any number of sessions,
\* and whether or not operations that clash may overlap, no set of them waits in
\* a circle.
THEOREM NoTransactionDeadlock == Spec => []NoCircularWait
<1>1. TxInv => NoCircularWait
  BY NoCycle DEF NoCircularWait
<1> QED
  BY <1>1, TxInvariant, PTL
=============================================================================
