SPECIFICATION Spec
CONSTANTS
    Targets = {t1, t2}
    NoConn = NoConn
    Workers = {w1, w2}
    Requests = {"rh", "rg"}
    Server <- MCServer
    PoolSize = 2
INVARIANTS
    TypeOK
    OneConnPerTarget
    DrainsBeforeClosing
    ExitsDrained
PROPERTIES
    ShutdownEnds
CHECK_DEADLOCK FALSE
