-------------------------------- MODULE Node --------------------------------
(***************************************************************************)
(* One gua process: startRiver (cmdriver.go) with NewRiver and Close of    *)
(* riverquene.go.                                                          *)
(*                                                                         *)
(* main is where startRiver stands.  River's workers load a definition,    *)
(* deliver, record the attempt and settle the occurrence; admin handlers   *)
(* answer requests.                                                        *)
(* Both use the Postgres pool, statement by statement, and deliveries the  *)
(* pool of gRPC connections.  Shutdown takes these things down one after   *)
(* the other, each wait with a deadline: shutCtx for both servers, River's *)
(* soft stop (drainTimeout, then the deliveries' contexts are cancelled)   *)
(* and the context of Close.  A deadline may pass at any moment of its     *)
(* wait, except that the soft stop (10 s) is sooner than Close's (15 s).   *)
(***************************************************************************)
EXTENDS GrpcPool

CONSTANTS
    Workers,      \* River's executors (MaxWorkers)
    Requests,     \* admin requests that can be in progress at once
    Server,       \* [Requests -> {"http", "grpc"}]
    PoolSize      \* pgxpool's MaxConns

ASSUME ServerAssumption == Server \in [Requests -> {"http", "grpc"}]
ASSUME PoolSizeAssumption == PoolSize \in Nat \ {0}
ASSUME ProcsAssumption == Workers \cap Requests = {}

VARIABLES
    main,         \* new, listen, serving, http, grpc, river, pool, exited, killed
    serving,      \* servers that accept requests
    river,        \* off, running, stopping, cancelled, stopped
    pg,           \* the Postgres pool: none, open, closing, closed
    held,         \* workers and requests that hold a Postgres connection
    pc,           \* where each worker and request stands
    on,           \* worker -> the connection or target it delivers by
    expired,      \* deadlines that have passed: subset of {"shut", "stop"}
    refused       \* workers and requests that found the Postgres pool closed

vars == <<poolVars, main, serving, river, pg, held, pc, on, expired, refused>>

Procs == Workers \cup Requests
Busy(P) == {p \in P : pc[p] # "idle"}
Of(s) == {r \in Requests : Server[r] = s}
Alive == main \notin {"exited", "killed"}

TypeOK ==
    /\ main \in {"new", "listen", "serving", "http", "grpc", "river", "pool", "exited", "killed"}
    /\ serving \subseteq {"http", "grpc"}
    /\ river \in {"off", "running", "stopping", "cancelled", "stopped"}
    /\ pg \in {"none", "open", "closing", "closed"}
    /\ pc \in [Procs -> {"idle", "load", "look", "dial", "call", "record", "settle", "think", "sql"}]
    /\ held = {p \in Procs : pc[p] \in {"load", "record", "sql"}} /\ Cardinality(held) <= PoolSize
    /\ expired \subseteq {"shut", "stop"} /\ refused \subseteq Procs

Init ==
    /\ PoolInit
    /\ main = "new" /\ serving = {} /\ river = "off" /\ pg = "none" /\ held = {}
    /\ pc = [p \in Procs |-> "idle"] /\ on = [w \in Workers |-> NoConn]
    /\ expired = {} /\ refused = {}

-----------------------------------------------------------------------------
(* The Postgres pool, as its users see it *)

\* p takes a connection for its next statement and goes on at `at`; a closed
\* pool refuses it, and p goes on at `other`.
Acquire(p, at, other) ==
    \/ /\ pg = "open" /\ Cardinality(held) < PoolSize
       /\ held' = held \cup {p}
       /\ pc' = [pc EXCEPT ![p] = at]
       /\ UNCHANGED refused
    \/ /\ pg \in {"closing", "closed"}
       /\ refused' = refused \cup {p}
       /\ pc' = [pc EXCEPT ![p] = other]
       /\ UNCHANGED held

Release(p, at) ==
    /\ held' = held \ {p}
    /\ pc' = [pc EXCEPT ![p] = at]

\* p has no statement to send here, or its context has ended.
GoOn(p, at) ==
    /\ pc' = [pc EXCEPT ![p] = at]
    /\ UNCHANGED <<held, refused>>

-----------------------------------------------------------------------------
(* River's workers *)

\* River dispatches an occurrence; Work starts with loadJob.
Fetch(w) ==
    /\ Alive /\ river = "running" /\ pc[w] = "idle"
    /\ Acquire(w, "load", "idle")
    /\ UNCHANGED <<poolVars, main, serving, river, pg, on, expired>>

\* The definition is read: an HTTP delivery, or a gRPC one to a target t.  Work
\* returns when it is gone or paused, or could not be read.
Loaded(w) ==
    /\ Alive /\ pc[w] = "load"
    /\ \/ Release(w, "idle") /\ UNCHANGED on
       \/ Release(w, "call") /\ on' = [on EXCEPT ![w] = NoConn]
       \/ \E t \in Targets : Release(w, "look") /\ on' = [on EXCEPT ![w] = t]
    /\ UNCHANGED <<poolVars, main, serving, river, pg, expired, refused>>

\* grpcPool.conn, first section.
Look(w) ==
    /\ Alive /\ pc[w] = "look"
    /\ IF Cached(on[w]) = NoConn
       THEN pc' = [pc EXCEPT ![w] = "dial"] /\ UNCHANGED on
       ELSE pc' = [pc EXCEPT ![w] = "call"] /\ on' = [on EXCEPT ![w] = Cached(on[w])]
    /\ UNCHANGED <<poolVars, main, serving, river, pg, held, expired, refused>>

\* grpcPool.conn, second section; a target NewClient refuses fails the delivery.
DialFor(w) ==
    /\ Alive /\ pc[w] = "dial"
    /\ \E c \in open \cup {NoConn, [target |-> on[w], id |-> dialled]} :
          Dial(on[w], c) /\ on' = [on EXCEPT ![w] = c]
    /\ pc' = [pc EXCEPT ![w] = "call"]
    /\ UNCHANGED <<main, serving, river, pg, held, expired, refused>>

\* The consumer answers, fails, or the context ends: recordExecution, which only
\* logs a failure, and sends nothing when there is no history.
Called(w) ==
    /\ Alive /\ pc[w] = "call"
    /\ Acquire(w, "record", "settle") \/ GoOn(w, "settle")
    /\ on' = [on EXCEPT ![w] = NoConn]
    /\ UNCHANGED <<poolVars, main, serving, river, pg, expired>>

Recorded(w) ==
    /\ Alive /\ pc[w] = "record"
    /\ Release(w, "settle")
    /\ UNCHANGED <<poolVars, main, serving, river, pg, on, expired, refused>>

\* The statement that pauses, drops or schedules; none after a failure that River
\* will retry.
Settle(w) ==
    /\ Alive /\ pc[w] = "settle"
    /\ Acquire(w, "sql", "idle") \/ GoOn(w, "idle")
    /\ UNCHANGED <<poolVars, main, serving, river, pg, on, expired>>

\* Mutant: scheduleNext without its deferred Rollback.
SettledWithoutRollback(w) ==
    /\ Alive /\ w \in Workers /\ pc[w] = "sql"
    /\ pc' = [pc EXCEPT ![w] = "idle"]
    /\ UNCHANGED <<poolVars, main, serving, river, pg, held, on, expired, refused>>

Settled(w) ==
    /\ Alive /\ w \in Workers /\ pc[w] = "sql"
    /\ Release(w, "idle")
    /\ UNCHANGED <<poolVars, main, serving, river, pg, on, expired, refused>>

-----------------------------------------------------------------------------
(* Admin requests *)

\* A handler starts, or goes on to its next statement.
Statement(r) ==
    /\ Alive
    /\ pc[r] = "think" \/ (pc[r] = "idle" /\ Server[r] \in serving)
    /\ Acquire(r, "sql", "idle")
    /\ UNCHANGED <<poolVars, main, serving, river, pg, on, expired>>

StatementEnds(r) ==
    /\ Alive /\ pc[r] = "sql"
    /\ Release(r, "think")
    /\ UNCHANGED <<poolVars, main, serving, river, pg, on, expired, refused>>

Answer(r) ==
    /\ Alive /\ pc[r] = "think"
    /\ pc' = [pc EXCEPT ![r] = "idle"]
    /\ UNCHANGED <<poolVars, main, serving, river, pg, held, on, expired, refused>>

-----------------------------------------------------------------------------
(* startRiver *)

\* Migrations, tables, workers: River runs when NewRiver returns.
NewRiver ==
    /\ main = "new" /\ main' = "listen"
    /\ pg' = "open" /\ river' = "running"
    /\ UNCHANGED <<poolVars, serving, held, pc, on, expired, refused>>

\* A failure of NewRiver, of net.Listen, or a signal before signal.Notify: the
\* process ends where it stands, without Close.
Abort ==
    /\ main \in {"new", "listen"} /\ main' = "killed"
    /\ UNCHANGED <<poolVars, serving, river, pg, held, pc, on, expired, refused>>

Serve ==
    /\ main = "listen" /\ main' = "serving"
    /\ serving' = {"http", "grpc"}
    /\ UNCHANGED <<poolVars, river, pg, held, pc, on, expired, refused>>

\* A signal, or a server whose Serve fails, ends the select; server.Shutdown
\* closes the HTTP listener.
BeginShutdown ==
    /\ main = "serving" /\ main' = "http"
    /\ serving' \in {{"grpc"}, {}}
    /\ UNCHANGED <<poolVars, river, pg, held, pc, on, expired, refused>>

\* shutCtx: one deadline for both servers.
ShutExpires ==
    /\ main \in {"http", "grpc"} /\ "shut" \notin expired
    /\ expired' = expired \cup {"shut"}
    /\ UNCHANGED <<poolVars, main, serving, river, pg, held, pc, on, refused>>

\* Shutdown returns; GracefulStop closes the gRPC listener.
HttpDown ==
    /\ main = "http" /\ (Busy(Of("http")) = {} \/ "shut" \in expired)
    /\ main' = "grpc" /\ serving' = {}
    /\ UNCHANGED <<poolVars, river, pg, held, pc, on, expired, refused>>

\* Mutant: Close closes the connections before it stops River.
ConnsClosedFirst ==
    /\ main = "grpc" /\ (Busy(Of("grpc")) = {} \/ "shut" \in expired)
    /\ CloseAll
    /\ main' = "river" /\ river' = "stopping"
    /\ UNCHANGED <<serving, pg, held, pc, on, expired, refused>>

\* GracefulStop returns, or Stop leaves the handlers behind; Close calls River's
\* Stop, which fetches no more.
GrpcDown ==
    /\ main = "grpc" /\ (Busy(Of("grpc")) = {} \/ "shut" \in expired)
    /\ main' = "river" /\ river' = "stopping"
    /\ UNCHANGED <<poolVars, serving, pg, held, pc, on, expired, refused>>

SoftStopExpires ==
    /\ Alive /\ river = "stopping" /\ river' = "cancelled"
    /\ UNCHANGED <<poolVars, main, serving, pg, held, pc, on, expired, refused>>

RiverStops ==
    /\ Alive /\ river \in {"stopping", "cancelled"} /\ Busy(Workers) = {}
    /\ river' = "stopped"
    /\ UNCHANGED <<poolVars, main, serving, pg, held, pc, on, expired, refused>>

\* Close's own context, 5 s after the soft stop.
StopExpires ==
    /\ main = "river" /\ river = "cancelled" /\ "stop" \notin expired
    /\ expired' = expired \cup {"stop"}
    /\ UNCHANGED <<poolVars, main, serving, river, pg, held, pc, on, refused>>

\* client.Stop returns; grpcPool.Close; pool.Close refuses from now on.
RiverDown ==
    /\ main = "river" /\ (river = "stopped" \/ "stop" \in expired)
    /\ CloseAll
    /\ main' = "pool" /\ pg' = "closing"
    /\ UNCHANGED <<serving, river, held, pc, on, expired, refused>>

\* Mutant: pool.Close has to wait for the deliveries too.
PoolDownIdle ==
    /\ main = "pool" /\ Busy(Procs) = {}
    /\ pg' = "closed" /\ main' = "exited"
    /\ UNCHANGED <<poolVars, serving, river, held, pc, on, expired, refused>>

\* Mutant: startRiver returns without pool.Close.
PoolLeftOpen ==
    /\ main = "pool"
    /\ pg' = "closed" /\ main' = "exited"
    /\ UNCHANGED <<poolVars, serving, river, held, pc, on, expired, refused>>

\* pool.Close waits for every connection that is out.
PoolDown ==
    /\ main = "pool" /\ held = {}
    /\ pg' = "closed" /\ main' = "exited"
    /\ UNCHANGED <<poolVars, serving, river, held, pc, on, expired, refused>>

Shutdown == HttpDown \/ GrpcDown \/ RiverDown \/ PoolDown
Deadlines == ShutExpires \/ SoftStopExpires \/ StopExpires

Next ==
    \/ NewRiver \/ Abort \/ Serve \/ BeginShutdown \/ Shutdown \/ Deadlines \/ RiverStops
    \/ \E w \in Workers :
          \/ Fetch(w) \/ Loaded(w) \/ Look(w) \/ DialFor(w)
          \/ Called(w) \/ Recorded(w) \/ Settle(w) \/ Settled(w)
    \/ \E r \in Requests : Statement(r) \/ StatementEnds(r) \/ Answer(r)

\* Timers run, statements end, and startRiver takes its steps.  Nothing is
\* assumed of consumers and of handlers.
Fairness ==
    /\ WF_vars(Shutdown) /\ WF_vars(Deadlines)
    /\ \A w \in Workers : WF_vars(Loaded(w)) /\ WF_vars(Recorded(w)) /\ WF_vars(Settled(w))
    /\ \A r \in Requests : WF_vars(StatementEnds(r))

Spec == Init /\ [][Next]_vars /\ Fairness

-----------------------------------------------------------------------------
(* Properties *)

\* Unless a deadline passed, nobody loses what it works with: no delivery is on
\* a connection that was closed, and neither a worker nor a handler finds the
\* Postgres pool closed (cmdriver.go:119-122, riverquene.go:441-449).
DrainsBeforeClosing ==
    /\ "stop" \notin expired =>
          /\ refused \cap Workers = {}
          /\ \A w \in Workers : pc[w] = "call" => on[w] \in open \cup {NoConn}
    /\ "shut" \notin expired => refused \cap Requests = {}

\* When startRiver returns, no delivery and no handler is cut off unless its
\* deadline passed, no gRPC connection stays open, and no Postgres connection
\* is out.
ExitsDrained ==
    main = "exited" =>
        /\ Busy(Workers) = {} \/ "stop" \in expired
        /\ Busy(Requests) = {} \/ "shut" \in expired
        /\ open = {} \/ "stop" \in expired
        /\ held = {}

\* A process told to stop does stop, whatever consumers and handlers do: every
\* wait of the shutdown has a deadline but that of pool.Close, which waits for
\* single statements only.
ShutdownEnds == main = "http" ~> main = "exited"
=============================================================================
