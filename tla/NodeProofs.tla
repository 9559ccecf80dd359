----------------------------- MODULE NodeProofs -----------------------------
(***************************************************************************)
(* Proofs about Node and GrpcPool: one connection per target, the two      *)
(* pools closed only when what uses them has ended or was given up, for    *)
(* any number of workers, requests, targets and Postgres connections.      *)
(***************************************************************************)
EXTENDS Node, FiniteSetTheorems, TLAPS

\* The map of grpcPool: what is cached for a target was dialled for it, and the
\* open connections are the cached ones.
PoolInv ==
    /\ conns \in [Targets -> Conn \cup {NoConn}]
    /\ \A t \in Targets : conns[t] # NoConn => conns[t].target = t
    /\ open = {conns[t] : t \in Targets} \ {NoConn}
    /\ dialled \in Nat

\* Workers and requests: where they can stand, and what a worker holds there.
ProcInv ==
    /\ TypeOK
    /\ IsFiniteSet(held)
    /\ \A r \in Requests : pc[r] \in {"idle", "think", "sql"}
    /\ \A w \in Workers : pc[w] # "think"
    /\ on \in [Workers -> Targets \cup Conn \cup {NoConn}]
    /\ \A w \in Workers : pc[w] \in {"look", "dial"} => on[w] \in Targets

\* What startRiver has taken down when it stands at main.
MainInv ==
    /\ main = "http" => "http" \notin serving
    /\ main \in {"grpc", "river", "pool", "exited"} => serving = {}
    /\ main = "new" => river = "off"
    /\ main \in {"river", "pool", "exited"} => river # "running"
    /\ main \in {"pool", "exited"} => river = "stopped" \/ "stop" \in expired
    /\ pg \in {"closing", "closed"} => main \in {"pool", "exited"}
    /\ main = "exited" => held = {}

\* Who has come to rest by then.
RestInv ==
    /\ river = "stopped" => \A w \in Workers : pc[w] = "idle"
    /\ main \in {"grpc", "river", "pool", "exited"} =>
          "shut" \in expired \/ \A r \in Of("http") : pc[r] = "idle"
    /\ main \in {"river", "pool", "exited"} =>
          "shut" \in expired \/ \A r \in Of("grpc") : pc[r] = "idle"
    /\ main \in {"pool", "exited"} => open = {} \/ "stop" \in expired

NodeInv == PoolInv /\ ProcInv /\ MainInv /\ RestInv /\ DrainsBeforeClosing

-----------------------------------------------------------------------------
(* The pool of gRPC connections *)

\* The Lock section of conn returns an open connection of the target, or none,
\* and closes nothing.
LEMMA DialKeeps ==
    ASSUME PoolInv, NEW t \in Targets, NEW c, Dial(t, c)
    PROVE  PoolInv' /\ open \subseteq open' /\ c \in open' \cup {NoConn} /\ c \in Conn \cup {NoConn}
<1>1. CASE c = conns[t] /\ UNCHANGED poolVars
  BY <1>1 DEF PoolInv, poolVars
<1>2. CASE c = NoConn /\ UNCHANGED poolVars
  BY <1>2 DEF PoolInv, poolVars
<1>3. CASE /\ conns[t] = NoConn
           /\ c = [target |-> t, id |-> dialled]
           /\ conns' = [conns EXCEPT ![t] = c]
           /\ open' = open \cup {c}
           /\ dialled' = dialled + 1
  <2>1. c \in Conn /\ c # NoConn /\ c.target = t
    BY <1>3, NoConnAssumption DEF PoolInv, Conn
  <2>2. conns' \in [Targets -> Conn \cup {NoConn}]
    BY <1>3, <2>1 DEF PoolInv
  <2>3. \A u \in Targets : conns'[u] = IF u = t THEN c ELSE conns[u]
    BY <1>3 DEF PoolInv
  <2>4. open' = {conns'[u] : u \in Targets} \ {NoConn}
    <3>1. ASSUME NEW d \in open'
          PROVE  d \in {conns'[u] : u \in Targets} \ {NoConn}
      BY <1>3, <2>1, <2>3, <3>1 DEF PoolInv
    <3>2. ASSUME NEW u \in Targets, conns'[u] # NoConn
          PROVE  conns'[u] \in open'
      BY <1>3, <2>3, <3>2 DEF PoolInv
    <3> QED
      BY <3>1, <3>2
  <2>5. \A u \in Targets : conns'[u] # NoConn => conns'[u].target = u
    BY <2>1, <2>3 DEF PoolInv
  <2>6. dialled' \in Nat
    BY <1>3 DEF PoolInv
  <2> QED
    BY <1>3, <2>1, <2>2, <2>4, <2>5, <2>6 DEF PoolInv
<1> QED
  BY <1>1, <1>2, <1>3, Zenon DEF Dial

\* Close leaves no connection open.
LEMMA CloseKeeps ==
    ASSUME PoolInv, CloseAll
    PROVE  PoolInv' /\ open' = {}
<1>1. open' = {} /\ conns' = NoConns /\ dialled' = dialled
  BY DEF PoolInv, CloseAll
<1> QED
  BY <1>1 DEF PoolInv, NoConns

\* One connection per target follows.
LEMMA PoolInvGives == PoolInv => OneConnPerTarget
BY DEF PoolInv, OneConnPerTarget

\* Nothing but a dial and Close touches the pool.
LEMMA PoolFrame ==
    ASSUME [Next]_vars
    PROVE  UNCHANGED poolVars \/ RiverDown \/ \E w \in Workers : DialFor(w)
BY Zenon DEF Next, Shutdown, Deadlines, vars, NewRiver, Abort, Serve, BeginShutdown, HttpDown, GrpcDown,
   PoolDown, ShutExpires, SoftStopExpires, StopExpires, RiverStops, Fetch, Loaded, Look,
   Called, Recorded, Settle, Settled, Statement, StatementEnds, Answer

\* Every step keeps the pool's map in order.
LEMMA StepPool == PoolInv /\ ProcInv /\ [Next]_vars => PoolInv'
<1> SUFFICES ASSUME PoolInv, ProcInv, [Next]_vars
             PROVE  PoolInv'
  OBVIOUS
<1>1. CASE UNCHANGED poolVars
  BY <1>1 DEF PoolInv, poolVars
<1>2. CASE RiverDown
  BY <1>2, CloseKeeps DEF RiverDown
<1>3. ASSUME NEW w \in Workers, DialFor(w)
      PROVE  PoolInv'
  <2>1. on[w] \in Targets
    BY <1>3 DEF DialFor, ProcInv
  <2> QED
    BY <1>3, <2>1, DialKeeps DEF DialFor
<1> QED
  BY <1>1, <1>2, <1>3, PoolFrame

-----------------------------------------------------------------------------
(* The Postgres pool *)

Holding == {"load", "record", "sql"}

\* The part of TypeOK that is about workers, requests and the Postgres pool.
HeldInv ==
    /\ pc \in [Procs -> {"idle", "load", "look", "dial", "call", "record", "settle", "think", "sql"}]
    /\ held = {p \in Procs : pc[p] \in Holding}
    /\ IsFiniteSet(held) /\ Cardinality(held) <= PoolSize
    /\ refused \subseteq Procs

\* A statement takes one of the PoolSize connections, or is refused.
LEMMA AcquireKeeps ==
    ASSUME HeldInv, NEW p \in Procs, pc[p] \notin Holding, NEW at \in Holding,
           NEW other \in {"idle", "settle"}, Acquire(p, at, other)
    PROVE  HeldInv' /\ \E to \in {at, other} : pc' = [pc EXCEPT ![p] = to]
<1>1. CASE /\ Cardinality(held) < PoolSize
           /\ held' = held \cup {p}
           /\ pc' = [pc EXCEPT ![p] = at]
           /\ UNCHANGED refused
  <2>1. IsFiniteSet(held') /\ Cardinality(held') <= PoolSize
    <3>1. Cardinality(held) \in Nat
      BY FS_CardinalityType DEF HeldInv
    <3>2. IsFiniteSet(held') /\ Cardinality(held') \in {Cardinality(held), Cardinality(held) + 1}
      BY <1>1, FS_AddElement DEF HeldInv
    <3> QED
      BY <1>1, <3>1, <3>2, PoolSizeAssumption
  <2>2. held' = {q \in Procs : pc'[q] \in Holding}
    BY <1>1 DEF HeldInv
  <2> QED
    BY <1>1, <2>1, <2>2 DEF HeldInv, Holding
<1>2. CASE /\ refused' = refused \cup {p}
           /\ pc' = [pc EXCEPT ![p] = other]
           /\ UNCHANGED held
  <2>1. held' = {q \in Procs : pc'[q] \in Holding}
    BY <1>2 DEF HeldInv, Holding
  <2> QED
    BY <1>2, <2>1 DEF HeldInv
<1> QED
  BY <1>1, <1>2, Zenon DEF Acquire

\* The end of a statement gives its connection back.
LEMMA ReleaseKeeps ==
    ASSUME HeldInv, NEW p \in Procs, NEW at \in {"idle", "look", "call", "settle", "think"}, Release(p, at),
           UNCHANGED refused
    PROVE  HeldInv'
<1>1. held' = held \ {p} /\ pc' = [pc EXCEPT ![p] = at]
  BY DEF Release
<1>2. IsFiniteSet(held') /\ Cardinality(held') <= PoolSize
  <2>1. Cardinality(held) \in Nat
    BY FS_CardinalityType DEF HeldInv
  <2>2. IsFiniteSet(held') /\ Cardinality(held') \in {Cardinality(held), Cardinality(held) - 1}
    BY <1>1, FS_RemoveElement DEF HeldInv
  <2> QED
    BY <2>1, <2>2, PoolSizeAssumption DEF HeldInv
<1>3. held' = {q \in Procs : pc'[q] \in Holding}
  BY <1>1 DEF HeldInv, Holding
<1> QED
  BY <1>1, <1>2, <1>3 DEF HeldInv

\* A step between two statements leaves the pool alone.
LEMMA MoveKeeps ==
    ASSUME HeldInv, NEW p \in Procs, pc[p] \notin Holding,
           NEW at \in {"idle", "dial", "call", "settle"}, pc' = [pc EXCEPT ![p] = at],
           UNCHANGED <<held, refused>>
    PROVE  HeldInv'
<1>1. held' = {q \in Procs : pc'[q] \in Holding}
  BY DEF HeldInv, Holding
<1> QED
  BY <1>1 DEF HeldInv

\* ProcInv apart from HeldInv and the variables of startRiver.
StandInv ==
    /\ \A r \in Requests : pc[r] \in {"idle", "think", "sql"}
    /\ \A w \in Workers : pc[w] # "think"
    /\ on \in [Workers -> Targets \cup Conn \cup {NoConn}]
    /\ \A w \in Workers : pc[w] \in {"look", "dial"} => on[w] \in Targets

StartType ==
    /\ main \in {"new", "listen", "serving", "http", "grpc", "river", "pool", "exited", "killed"}
    /\ serving \subseteq {"http", "grpc"}
    /\ river \in {"off", "running", "stopping", "cancelled", "stopped"}
    /\ pg \in {"none", "open", "closing", "closed"}
    /\ expired \subseteq {"shut", "stop"}

\* ProcInv is these three.
LEMMA ProcInvParts == ProcInv <=> StartType /\ HeldInv /\ StandInv
BY Zenon DEF ProcInv, TypeOK, StartType, HeldInv, StandInv, Holding

\* startRiver, River and the deadlines, apart from the workers and the requests.
NodeStep ==
    NewRiver \/ Abort \/ Serve \/ BeginShutdown \/ Shutdown \/ Deadlines \/ RiverStops

\* They move nobody and take nobody's connection.
LEMMA NodeFrame ==
    ASSUME NodeStep
    PROVE  UNCHANGED <<held, pc, on, refused>>
BY Zenon DEF NodeStep, Shutdown, Deadlines, NewRiver, Abort, Serve, BeginShutdown, HttpDown,
   GrpcDown, RiverDown, PoolDown, ShutExpires, SoftStopExpires, StopExpires, RiverStops

WorkerStep(w) ==
    \/ Fetch(w) \/ Loaded(w) \/ Look(w) \/ DialFor(w)
    \/ Called(w) \/ Recorded(w) \/ Settle(w) \/ Settled(w)
RequestStep(r) == Statement(r) \/ StatementEnds(r) \/ Answer(r)

\* Workers and requests change nothing of startRiver's.
LEMMA StartFrame ==
    ASSUME (\E w \in Workers : WorkerStep(w)) \/ (\E r \in Requests : RequestStep(r))
    PROVE  Alive /\ UNCHANGED <<main, serving, river, pg, expired>>
BY Zenon DEF WorkerStep, RequestStep, Fetch, Loaded, Look, DialFor, Called, Recorded, Settle, Settled,
   Statement, StatementEnds, Answer

\* The next-state relation by who takes the step.
LEMMA NextCases ==
    ASSUME [Next]_vars
    PROVE  \/ NodeStep \/ UNCHANGED vars
           \/ \E w \in Workers : WorkerStep(w)
           \/ \E r \in Requests : RequestStep(r)
BY Zenon DEF Next, NodeStep, WorkerStep, RequestStep

\* A worker's step: it alone moves, along the steps of Work.
LEMMA WorkerMoves ==
    ASSUME PoolInv, ProcInv, NEW w \in Workers, WorkerStep(w)
    PROVE  /\ HeldInv'
           /\ \E at \in {"idle", "load", "look", "dial", "call", "record", "settle", "sql"} :
                 pc' = [pc EXCEPT ![w] = at]
           /\ \E c \in Targets \cup Conn \cup {NoConn} : on' = [on EXCEPT ![w] = c]
           /\ pc'[w] \in {"look", "dial"} => on'[w] \in Targets
           /\ pc'[w] = "call" => on'[w] \in open' \cup {NoConn}
<1>1. /\ w \in Procs /\ HeldInv /\ StandInv /\ pc \in [Procs -> {"idle", "load", "look", "dial", "call", "record", "settle", "think", "sql"}]
      /\ on \in [Workers -> Targets \cup Conn \cup {NoConn}]
  BY ProcInvParts DEF Procs, HeldInv, StandInv
<1>2. CASE Fetch(w)
  <2>1. HeldInv' /\ \E to \in {"load", "idle"} : pc' = [pc EXCEPT ![w] = to]
    BY <1>1, <1>2, AcquireKeeps DEF Fetch, Holding
  <2>2. on' = [on EXCEPT ![w] = on[w]] /\ on[w] \in Targets \cup Conn \cup {NoConn}
    BY <1>1, <1>2 DEF Fetch
  <2>3. pc'[w] \in {"load", "idle"}
    BY <1>1, <2>1
  <2> QED
    BY <2>1, <2>2, <2>3
<1>3. CASE Loaded(w)
  <2>0. UNCHANGED refused
    BY <1>3 DEF Loaded
  <2>4. CASE Release(w, "idle") /\ UNCHANGED on
    <3>1. HeldInv'
      BY <1>1, <2>0, <2>4, ReleaseKeeps
    <3>2. pc' = [pc EXCEPT ![w] = "idle"] /\ on' = [on EXCEPT ![w] = on[w]]
      BY <1>1, <2>4 DEF Release
    <3> QED
      BY <1>1, <3>1, <3>2
  <2>1. CASE Release(w, "call") /\ on' = [on EXCEPT ![w] = NoConn]
    <3>1. HeldInv'
      BY <1>1, <2>0, <2>1, ReleaseKeeps
    <3> QED
      BY <1>1, <2>1, <3>1 DEF Release
  <2>2. ASSUME NEW t \in Targets, Release(w, "look"), on' = [on EXCEPT ![w] = t]
        PROVE  /\ HeldInv'
               /\ pc' = [pc EXCEPT ![w] = "look"]
               /\ on'[w] \in Targets
    <3>1. HeldInv'
      BY <1>1, <2>0, <2>2, ReleaseKeeps
    <3> QED
      BY <1>1, <2>2, <3>1 DEF Release
  <2>3. CASE \E t \in Targets : Release(w, "look") /\ on' = [on EXCEPT ![w] = t]
    BY <1>1, <2>2, <2>3
  <2> QED
    BY <1>3, <2>1, <2>3, <2>4 DEF Loaded
<1>4. CASE Look(w)
  <2>1. on[w] \in Targets
    BY <1>4 DEF Look, ProcInv
  <2>2. conns[on[w]] \in Conn \cup {NoConn} /\ conns[on[w]] \in open \cup {NoConn} /\ open' = open
    BY <1>4, <2>1 DEF PoolInv, Look, poolVars
  <2>3. UNCHANGED <<held, refused>> /\ pc[w] \notin Holding
    BY <1>4 DEF Look, Holding
  <2>4. CASE pc' = [pc EXCEPT ![w] = "dial"] /\ on' = on
    <3>1. HeldInv'
      BY <1>1, <2>3, <2>4, MoveKeeps
    <3> QED
      BY <1>1, <2>1, <2>4, <3>1
  <2>5. CASE pc' = [pc EXCEPT ![w] = "call"] /\ on' = [on EXCEPT ![w] = conns[on[w]]]
    <3>1. HeldInv'
      BY <1>1, <2>3, <2>5, MoveKeeps
    <3> QED
      BY <1>1, <2>2, <2>5, <3>1
  <2> QED
    BY <1>4, <2>4, <2>5 DEF Look, Cached
<1>5. CASE DialFor(w)
  <2>1. on[w] \in Targets
    BY <1>5 DEF DialFor, ProcInv
  <2>2. PICK c \in open \cup {NoConn, [target |-> on[w], id |-> dialled]} :
           Dial(on[w], c) /\ on' = [on EXCEPT ![w] = c]
    BY <1>5 DEF DialFor
  <2>3. c \in open' \cup {NoConn} /\ c \in Conn \cup {NoConn}
    BY <2>1, <2>2, DialKeeps
  <2>4. pc' = [pc EXCEPT ![w] = "call"] /\ UNCHANGED <<held, refused>> /\ pc[w] \notin Holding
    BY <1>5 DEF DialFor, Holding
  <2>5. HeldInv'
    BY <1>1, <2>4, MoveKeeps
  <2> QED
    BY <1>1, <2>2, <2>3, <2>4, <2>5
<1>6. CASE Called(w)
  <2>1. pc[w] \notin Holding
    BY <1>6 DEF Called, Holding
  <2>2. HeldInv' /\ \E to \in {"record", "settle"} : pc' = [pc EXCEPT ![w] = to]
    <3>1. CASE Acquire(w, "record", "settle")
      BY <1>1, <2>1, <3>1, AcquireKeeps DEF Holding
    <3>2. CASE GoOn(w, "settle")
      BY <1>1, <2>1, <3>2, MoveKeeps DEF GoOn
    <3> QED
      BY <1>6, <3>1, <3>2 DEF Called
  <2>3. on' = [on EXCEPT ![w] = NoConn]
    BY <1>6 DEF Called
  <2> QED
    BY <1>1, <2>2, <2>3
<1>8. CASE Recorded(w)
  <2>1. HeldInv'
    BY <1>1, <1>8, ReleaseKeeps DEF Recorded
  <2>2. pc' = [pc EXCEPT ![w] = "settle"] /\ on' = [on EXCEPT ![w] = on[w]]
    BY <1>1, <1>8 DEF Recorded, Release
  <2> QED
    BY <1>1, <2>1, <2>2
<1>9. CASE Settle(w)
  <2>1. pc[w] \notin Holding
    BY <1>9 DEF Settle, Holding
  <2>2. HeldInv' /\ \E to \in {"sql", "idle"} : pc' = [pc EXCEPT ![w] = to]
    <3>1. CASE Acquire(w, "sql", "idle")
      BY <1>1, <2>1, <3>1, AcquireKeeps DEF Holding
    <3>2. CASE GoOn(w, "idle")
      BY <1>1, <2>1, <3>2, MoveKeeps DEF GoOn
    <3> QED
      BY <1>9, <3>1, <3>2 DEF Settle
  <2>3. on' = [on EXCEPT ![w] = on[w]]
    BY <1>1, <1>9 DEF Settle
  <2> QED
    BY <1>1, <2>2, <2>3
<1>7. CASE Settled(w)
  <2>1. HeldInv'
    BY <1>1, <1>7, ReleaseKeeps DEF Settled
  <2>2. pc' = [pc EXCEPT ![w] = "idle"] /\ on' = on
    BY <1>7 DEF Settled, Release
  <2> QED
    BY <1>1, <2>1, <2>2
<1> QED
  BY <1>2, <1>3, <1>4, <1>5, <1>6, <1>7, <1>8, <1>9 DEF WorkerStep

\* A request's step: it alone moves, between its statements.
LEMMA RequestMoves ==
    ASSUME ProcInv, NEW r \in Requests, RequestStep(r)
    PROVE  /\ HeldInv' /\ on' = on
           /\ \E at \in {"idle", "think", "sql"} : pc' = [pc EXCEPT ![r] = at]
           /\ pc[r] # "idle" \/ Server[r] \in serving
<1>1. r \in Procs /\ HeldInv
  BY ProcInvParts DEF Procs
<1>2. CASE Statement(r)
  <2>1. HeldInv' /\ \E to \in {"sql", "idle"} : pc' = [pc EXCEPT ![r] = to]
    BY <1>1, <1>2, AcquireKeeps DEF Statement, Holding
  <2> QED
    BY <1>2, <2>1 DEF Statement
<1>3. CASE StatementEnds(r)
  <2>1. HeldInv'
    BY <1>1, <1>3, ReleaseKeeps DEF StatementEnds
  <2> QED
    BY <1>3, <2>1 DEF StatementEnds, Release
<1>4. CASE Answer(r)
  <2>1. HeldInv'
    BY <1>1, <1>4, MoveKeeps DEF Answer, Holding
  <2> QED
    BY <1>4, <2>1 DEF Answer
<1> QED
  BY <1>2, <1>3, <1>4 DEF RequestStep

\* Every step keeps everyone in place and the Postgres pool within PoolSize.
LEMMA StepProc == PoolInv /\ ProcInv /\ [Next]_vars => ProcInv'
<1> SUFFICES ASSUME PoolInv, ProcInv, [Next]_vars
             PROVE  ProcInv'
  OBVIOUS
<1>1. StartType /\ HeldInv /\ StandInv
  BY ProcInvParts
<1>2. \A w \in Workers : w \notin Requests
  BY ProcsAssumption
<1>3. CASE NodeStep
  <2>1. StartType'
    <3>1. CASE NewRiver \/ Abort \/ Serve \/ BeginShutdown
      BY <1>1, <3>1 DEF StartType, NewRiver, Abort, Serve, BeginShutdown
    <3>2. CASE Shutdown
      BY <1>1, <3>2 DEF StartType, Shutdown, HttpDown, GrpcDown, RiverDown, PoolDown
    <3>3. CASE Deadlines \/ RiverStops
      BY <1>1, <3>3 DEF StartType, Deadlines, ShutExpires, SoftStopExpires, StopExpires, RiverStops
    <3> QED
      BY <1>3, <3>1, <3>2, <3>3 DEF NodeStep
  <2>2. HeldInv' /\ StandInv'
    <3>1. UNCHANGED <<held, pc, on, refused>>
      BY <1>3, NodeFrame
    <3> QED
      BY <1>1, <3>1 DEF HeldInv, StandInv
  <2> QED
    BY <2>1, <2>2 DEF ProcInv, TypeOK, StartType, HeldInv, StandInv, Holding
<1>4. ASSUME NEW w \in Workers, WorkerStep(w)
      PROVE  ProcInv'
  <2>1. StartType'
    BY <1>1, <1>4, StartFrame DEF StartType
  <2>2. StandInv'
    <3>1. /\ \A p \in Procs : p # w => pc'[p] = pc[p]
          /\ pc'[w] # "think"
      BY <1>1, <1>4, WorkerMoves DEF HeldInv, Procs
    <3>2. /\ on' \in [Workers -> Targets \cup Conn \cup {NoConn}]
          /\ \A v \in Workers : v # w => on'[v] = on[v]
      BY <1>1, <1>4, WorkerMoves DEF StandInv
    <3>3. pc'[w] \in {"look", "dial"} => on'[w] \in Targets
      BY <1>4, WorkerMoves
    <3> QED
      BY <1>1, <1>2, <3>1, <3>2, <3>3 DEF StandInv, Procs
  <2>3. HeldInv'
    BY <1>4, WorkerMoves
  <2> QED
    BY <2>1, <2>2, <2>3 DEF ProcInv, TypeOK, StartType, HeldInv, StandInv, Holding
<1>5. ASSUME NEW r \in Requests, RequestStep(r)
      PROVE  ProcInv'
  <2>1. StartType'
    BY <1>1, <1>5, StartFrame DEF StartType
  <2>2. StandInv'
    <3>1. /\ \A p \in Procs : p # r => pc'[p] = pc[p]
          /\ pc'[r] \in {"idle", "think", "sql"} /\ on' = on
      BY <1>1, <1>5, RequestMoves DEF HeldInv, Procs
    <3> QED
      BY <1>1, <1>2, <3>1 DEF StandInv, Procs
  <2>3. HeldInv'
    BY <1>5, RequestMoves
  <2> QED
    BY <2>1, <2>2, <2>3 DEF ProcInv, TypeOK, StartType, HeldInv, StandInv, Holding
<1>6. CASE UNCHANGED vars
  BY <1>6 DEF vars, ProcInv, TypeOK
<1> QED
  BY <1>3, <1>4, <1>5, <1>6, NextCases

\* startRiver takes things down in its order, and closes the Postgres pool last.
LEMMA StepMain == PoolInv /\ ProcInv /\ MainInv /\ [Next]_vars => MainInv'
<1> SUFFICES ASSUME PoolInv, ProcInv, MainInv, [Next]_vars
             PROVE  MainInv'
  OBVIOUS
<1>1. CASE NewRiver \/ Abort \/ Serve \/ BeginShutdown
  BY <1>1 DEF MainInv, NewRiver, Abort, Serve, BeginShutdown
<1>2. CASE HttpDown \/ GrpcDown
  BY <1>2 DEF MainInv, HttpDown, GrpcDown
<1>3. CASE RiverDown \/ PoolDown
  BY <1>3 DEF MainInv, RiverDown, PoolDown
<1>4. CASE Deadlines \/ RiverStops
  BY <1>4 DEF MainInv, Deadlines, ShutExpires, SoftStopExpires, StopExpires, RiverStops
<1>5. CASE (\E w \in Workers : WorkerStep(w)) \/ (\E r \in Requests : RequestStep(r))
  BY <1>5, StartFrame DEF MainInv, Alive
<1>6. CASE UNCHANGED vars
  BY <1>6 DEF MainInv, vars
<1> QED
  BY <1>1, <1>2, <1>3, <1>4, <1>5, <1>6, NextCases DEF NodeStep, Shutdown

\* Who has come to rest stays at rest: a stopped River dispatches nothing, and a
\* server that is down accepts nothing.
LEMMA StepRest == PoolInv /\ ProcInv /\ MainInv /\ RestInv /\ [Next]_vars => RestInv'
<1> SUFFICES ASSUME PoolInv, ProcInv, MainInv, RestInv, [Next]_vars
             PROVE  RestInv'
  OBVIOUS
<1>1. CASE NodeStep /\ UNCHANGED poolVars
  <2>1. pc' = pc /\ open' = open
    BY <1>1, NodeFrame DEF poolVars
  <2>2. CASE NewRiver \/ Abort \/ Serve \/ BeginShutdown
    BY <2>1, <2>2 DEF RestInv, Of, NewRiver, Abort, Serve, BeginShutdown
  <2>3. CASE HttpDown
    BY <2>1, <2>3 DEF RestInv, Of, Busy, HttpDown
  <2>4. CASE GrpcDown
    BY <2>1, <2>4 DEF RestInv, Of, Busy, GrpcDown
  <2>5. CASE PoolDown
    BY <2>1, <2>5 DEF RestInv, Of, PoolDown
  <2>6. CASE Deadlines
    BY <2>1, <2>6 DEF RestInv, Of, Deadlines, ShutExpires, SoftStopExpires, StopExpires
  <2>7. CASE RiverStops
    BY <2>1, <2>7 DEF RestInv, Of, Busy, RiverStops
  <2>8. CASE RiverDown
    <3>1. open' = {}
      BY <2>8, CloseKeeps DEF RiverDown
    <3> QED
      BY <2>1, <2>8, <3>1 DEF RestInv, Of, RiverDown
  <2> QED
    BY <1>1, <2>2, <2>3, <2>4, <2>5, <2>6, <2>7, <2>8 DEF NodeStep, Shutdown
<1>2. CASE RiverDown
  <2>1. pc' = pc /\ open' = {}
    BY <1>2, CloseKeeps DEF RiverDown
  <2> QED
    BY <1>2, <2>1 DEF RestInv, Of, RiverDown
<1>3. ASSUME NEW w \in Workers, WorkerStep(w)
      PROVE  RestInv'
  <2>1. UNCHANGED <<main, river, expired>>
    BY <1>3, StartFrame
  <2>2. river # "stopped"
    <3>1. SUFFICES ASSUME \A v \in Workers : pc[v] = "idle", river = "stopped"
                   PROVE  FALSE
      BY DEF RestInv
    <3> QED
      BY <1>3, <3>1 DEF WorkerStep, Fetch, Loaded, Look, DialFor, Called, Recorded, Settle, Settled
  <2>3. main \in {"pool", "exited"} => "stop" \in expired
    BY <2>2 DEF MainInv
  <2>4. \A r \in Requests : pc'[r] = pc[r]
    BY <1>3, WorkerMoves, ProcsAssumption DEF ProcInv, TypeOK, Procs
  <2> QED
    BY <2>1, <2>2, <2>3, <2>4 DEF RestInv, Of
<1>4. ASSUME NEW r \in Requests, RequestStep(r)
      PROVE  RestInv'
  <2>1. UNCHANGED <<main, river, expired>>
    BY <1>4, StartFrame
  <2>2. open' = open
    BY <1>4 DEF RequestStep, Statement, StatementEnds, Answer, poolVars
  <2>3. \A p \in Procs : p # r => pc'[p] = pc[p]
    BY <1>4, RequestMoves DEF ProcInv, TypeOK
  <2>4. \A w \in Workers : pc'[w] = pc[w]
    BY <2>3, ProcsAssumption DEF Procs
  <2>5. main \in {"grpc", "river", "pool", "exited"} /\ "shut" \notin expired => r \notin Of("http")
    BY <1>4, RequestMoves DEF MainInv, RestInv
  <2>6. main \in {"river", "pool", "exited"} /\ "shut" \notin expired => r \notin Of("grpc")
    BY <1>4, RequestMoves DEF MainInv, RestInv
  <2> QED
    BY <2>1, <2>2, <2>3, <2>4, <2>5, <2>6 DEF RestInv, Of, Procs
<1>5. CASE UNCHANGED vars
  BY <1>5 DEF RestInv, Of, vars, poolVars
<1>6. NodeStep => UNCHANGED poolVars \/ RiverDown
  BY Zenon DEF NodeStep, Shutdown, Deadlines, NewRiver, Abort, Serve, BeginShutdown, HttpDown,
     GrpcDown, PoolDown, ShutExpires, SoftStopExpires, StopExpires, RiverStops
<1> QED
  BY <1>1, <1>2, <1>3, <1>4, <1>5, <1>6, NextCases

\* Nobody is cut off: Close empties the pools when River's workers are idle, and
\* the Postgres pool refuses nobody while somebody is at work.
LEMMA StepDrains == NodeInv /\ [Next]_vars => DrainsBeforeClosing'
<1> SUFFICES ASSUME NodeInv, [Next]_vars
             PROVE  DrainsBeforeClosing'
  OBVIOUS
<1> USE DEF NodeInv
<1>1. CASE NodeStep /\ UNCHANGED poolVars
  <2>1. UNCHANGED <<pc, on, refused, open>>
    BY <1>1, NodeFrame DEF poolVars
  <2>2. expired \subseteq expired'
    BY <1>1, Zenon DEF NodeStep, Shutdown, Deadlines, NewRiver, Abort, Serve, BeginShutdown, HttpDown,
       GrpcDown, RiverDown, PoolDown, ShutExpires, SoftStopExpires, StopExpires, RiverStops
  <2> QED
    BY <2>1, <2>2 DEF DrainsBeforeClosing
<1>2. CASE RiverDown
  <2>1. UNCHANGED <<pc, on, refused, expired>>
    BY <1>2 DEF RiverDown
  <2>2. "stop" \in expired \/ \A w \in Workers : pc[w] = "idle"
    BY <1>2 DEF RiverDown, RestInv
  <2> QED
    BY <2>1, <2>2 DEF DrainsBeforeClosing
<1>3. ASSUME NEW w \in Workers, WorkerStep(w)
      PROVE  DrainsBeforeClosing'
  <2>1. UNCHANGED <<main, river, pg, expired>>
    BY <1>3, StartFrame
  <2>2. river # "stopped"
    <3>1. SUFFICES ASSUME \A v \in Workers : pc[v] = "idle", river = "stopped"
                   PROVE  FALSE
      BY DEF RestInv
    <3> QED
      BY <1>3, <3>1 DEF WorkerStep, Fetch, Loaded, Look, DialFor, Called, Recorded, Settle, Settled
  <2>3. pg \in {"closing", "closed"} => "stop" \in expired
    BY <2>2 DEF MainInv
  <2>4. \/ refused' = refused
        \/ refused' = refused \cup {w} /\ pg \in {"closing", "closed"}
    BY <1>3 DEF WorkerStep, Fetch, Loaded, Look, DialFor, Called, Recorded, Settle, Settled, Acquire, GoOn
  <2>5. open \subseteq open'
    <3>1. CASE DialFor(w)
      <4>1. on[w] \in Targets
        BY <3>1 DEF DialFor, ProcInv
      <4> QED
        BY <3>1, <4>1, DialKeeps DEF DialFor
    <3>2. CASE ~DialFor(w)
      BY <1>3, <3>2 DEF WorkerStep, Fetch, Loaded, Look, Called, Recorded, Settle, Settled, poolVars
    <3> QED
      BY <3>1, <3>2
  <2>6. \A v \in Workers : v # w => pc'[v] = pc[v] /\ on'[v] = on[v]
    BY <1>3, WorkerMoves DEF ProcInv, TypeOK, Procs
  <2>7. pc'[w] = "call" => on'[w] \in open' \cup {NoConn}
    BY <1>3, WorkerMoves
  <2>8. w \notin Requests
    BY ProcsAssumption
  <2> QED
    BY <2>1, <2>3, <2>4, <2>5, <2>6, <2>7, <2>8 DEF DrainsBeforeClosing
<1>4. ASSUME NEW r \in Requests, RequestStep(r)
      PROVE  DrainsBeforeClosing'
  <2>1. UNCHANGED <<main, river, pg, expired>>
    BY <1>4, StartFrame
  <2>2. open' = open /\ on' = on
    BY <1>4, RequestMoves DEF RequestStep, Statement, StatementEnds, Answer, poolVars
  <2>3. \A w \in Workers : pc'[w] = pc[w]
    BY <1>4, RequestMoves, ProcsAssumption DEF ProcInv, TypeOK, Procs
  <2>4. r \in Of("http") \/ r \in Of("grpc")
    BY ServerAssumption DEF Of
  <2>5. main \in {"pool", "exited"} => "shut" \in expired
    BY <1>4, <2>4, RequestMoves DEF MainInv, RestInv
  <2>6. \/ refused' = refused
        \/ refused' = refused \cup {r} /\ "shut" \in expired
    BY <1>4, <2>5 DEF RequestStep, Statement, StatementEnds, Answer, Acquire, MainInv
  <2>7. r \notin Workers
    BY ProcsAssumption
  <2> QED
    BY <2>1, <2>2, <2>3, <2>6, <2>7 DEF DrainsBeforeClosing
<1>5. CASE UNCHANGED vars
  BY <1>5 DEF DrainsBeforeClosing, vars, poolVars
<1>6. NodeStep => UNCHANGED poolVars \/ RiverDown
  BY Zenon DEF NodeStep, Shutdown, Deadlines, NewRiver, Abort, Serve, BeginShutdown, HttpDown,
     GrpcDown, PoolDown, ShutExpires, SoftStopExpires, StopExpires, RiverStops
<1> QED
  BY <1>1, <1>2, <1>3, <1>4, <1>5, <1>6, NextCases

\* A process that starts satisfies the invariant.
LEMMA InitNode == Init => NodeInv
<1> SUFFICES ASSUME Init
             PROVE  NodeInv
  OBVIOUS
<1>1. PoolInv
  BY DEF Init, PoolInit, PoolInv, NoConns
<1>2. ProcInv
  <2>1. IsFiniteSet(held) /\ Cardinality(held) <= PoolSize
    BY FS_EmptySet, PoolSizeAssumption DEF Init
  <2> QED
    BY <2>1 DEF Init, ProcInv, TypeOK, Procs
<1>3. MainInv /\ RestInv /\ DrainsBeforeClosing
  BY DEF Init, PoolInit, MainInv, RestInv, DrainsBeforeClosing, Procs
<1> QED
  BY <1>1, <1>2, <1>3 DEF NodeInv

\* The invariant holds in every reachable state.
LEMMA NodeInvariant == Spec => []NodeInv
<1>1. NodeInv /\ [Next]_vars => NodeInv'
  BY StepPool, StepProc, StepMain, StepRest, StepDrains DEF NodeInv
<1> QED
  BY InitNode, <1>1, PTL DEF Spec

-----------------------------------------------------------------------------
(* The theorems *)

\* The Postgres pool never has more connections out than PoolSize, and who
\* holds one is who runs a statement: every statement gives its connection back
\* (pgxpool as riverquene.go uses it, with the deferred Rollbacks).
THEOREM NodeTypeCorrect == Spec => []TypeOK
<1>1. NodeInv => TypeOK
  BY DEF NodeInv, ProcInv
<1> QED
  BY NodeInvariant, <1>1, PTL

\* However many deliveries race to dial, and whenever Close runs among them, a
\* target has one connection, and every open connection is in the map that Close
\* empties (grpcpool.go:12-15).
THEOREM PoolCorrect == Spec => []OneConnPerTarget
<1>1. NodeInv => OneConnPerTarget
  BY PoolInvGives DEF NodeInv
<1> QED
  BY NodeInvariant, <1>1, PTL

\* Unless a deadline passed, shutdown cuts nobody off: no delivery is on a
\* closed connection, no worker and no handler finds the Postgres pool closed
\* (cmdriver.go:119-122, riverquene.go:441-449).
THEOREM DrainsFirst == Spec => []DrainsBeforeClosing
<1>1. NodeInv => DrainsBeforeClosing
  BY DEF NodeInv
<1> QED
  BY NodeInvariant, <1>1, PTL

\* When startRiver returns, what it waited for has ended or its deadline passed,
\* and no connection is left open or out.
THEOREM ExitIsClean == Spec => []ExitsDrained
<1>1. NodeInv => ExitsDrained
  <2> SUFFICES ASSUME NodeInv, main = "exited"
               PROVE  /\ Busy(Workers) = {} \/ "stop" \in expired
                      /\ Busy(Requests) = {} \/ "shut" \in expired
                      /\ open = {} \/ "stop" \in expired
                      /\ held = {}
    BY DEF ExitsDrained
  <2>1. Busy(Workers) = {} \/ "stop" \in expired
    BY DEF NodeInv, MainInv, RestInv, Busy
  <2>2. \A r \in Requests : r \in Of("http") \/ r \in Of("grpc")
    BY ServerAssumption DEF Of
  <2>3. Busy(Requests) = {} \/ "shut" \in expired
    BY <2>2 DEF NodeInv, RestInv, Busy
  <2> QED
    BY <2>1, <2>3 DEF NodeInv, MainInv, RestInv
<1> QED
  BY NodeInvariant, <1>1, PTL
=============================================================================
