SPECIFICATION Spec
CONSTANTS
    Jobs = {j1}
    Groups = {g1}
    Names = {n1}
    Urls = {u1}
    Patterns = {"once", "recurring", "bad", "never"}
    Times = {t1}
    ZeroTime = zero
    MaxAttempts = 2
    Slots = {s1, s2, s3}
    MaxWorkers = 2
    MaxBacklog = 0
    Faults = {"storage", "cancel", "lost"}
    NoRow = NoRow
    NoJob = NoJob
    Idle = Idle
SYMMETRY SlotSymmetry
INVARIANTS
    TypeOK
    AtMostOneArmed
    NeverSilentlyDead
    OnceNotRedelivered
