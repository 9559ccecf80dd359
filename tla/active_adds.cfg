SPECIFICATION Spec
CONSTANTS
    Jobs = {j1}
    Groups = {g1}
    Names = {n1}
    Urls = {u1}
    Patterns = {"recurring"}
    Times = {t1}
    ZeroTime = zero
    MaxAttempts = 2
    Slots = {s1, s2, s3}
    MaxWorkers = 1
    MaxBacklog = 1
    Faults = {}
    NoRow = NoRow
    NoJob = NoJob
    Idle = Idle
INVARIANTS
    ActiveNeverAddsASecond
