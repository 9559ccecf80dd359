------------------------------ MODULE GrpcPool ------------------------------
(***************************************************************************)
(* delayquene/grpcpool.go: one *grpc.ClientConn per delivery target.       *)
(*                                                                         *)
(* conn(target) looks under the read lock, and only when it finds nothing  *)
(* takes the write lock, looks again and dials.  Close closes what the map *)
(* holds and empties it.  Each critical section is one step; between the   *)
(* two of conn, any other can run.                                         *)
(***************************************************************************)
EXTENDS Integers, FiniteSets

CONSTANTS
    Targets,      \* delivery targets GRPC@<host:port>
    NoConn

Conn == [target : Targets, id : Nat]

ASSUME NoConnAssumption == NoConn \notin Conn

VARIABLES
    conns,        \* p.conns: target -> connection or NoConn
    open,         \* connections dialled and not closed
    dialled       \* connections dialled so far: the name of the next one

poolVars == <<conns, open, dialled>>

NoConns == [t \in Targets |-> NoConn]

PoolInit == conns = NoConns /\ open = {} /\ dialled = 0

\* The RLock section of conn.
Cached(t) == conns[t]

\* Mutant: no second look under the write lock.
DialUnchecked(t, c) ==
    /\ c = [target |-> t, id |-> dialled]
    /\ conns' = [conns EXCEPT ![t] = c]
    /\ open' = open \cup {c}
    /\ dialled' = dialled + 1

\* The Lock section of conn: c is what it returns, NoConn when NewClient refuses
\* the target.
Dial(t, c) ==
    IF conns[t] # NoConn THEN c = conns[t] /\ UNCHANGED poolVars
    ELSE \/ /\ c = [target |-> t, id |-> dialled]
            /\ conns' = [conns EXCEPT ![t] = c]
            /\ open' = open \cup {c}
            /\ dialled' = dialled + 1
         \/ c = NoConn /\ UNCHANGED poolVars

\* Close.
CloseAll ==
    /\ open' = open \ {conns[t] : t \in Targets}
    /\ conns' = NoConns
    /\ UNCHANGED dialled

\* Recurring deliveries share one connection per target, and the pool can close
\* every connection that is open: the comment at grpcpool.go:12-15, whatever
\* deliveries race to dial and whenever Close runs among them.
OneConnPerTarget ==
    /\ \A c, d \in open : c.target = d.target => c = d
    /\ open = {conns[t] : t \in Targets} \ {NoConn}
=============================================================================
