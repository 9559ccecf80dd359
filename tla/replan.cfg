SPECIFICATION Spec
CONSTANTS
    Jobs = {j1}
    Groups = {g1, g2}
    Names = {n1}
    Urls = {u1}
    Patterns = {"recurring"}
    Times = {t1, t2}
    ZeroTime = zero
    MaxAttempts = 2
    Slots = {s1, s2, s3}
    MaxWorkers = 1
    MaxBacklog = 0
    Faults = {"lost"}
    NoRow = NoRow
    NoJob = NoJob
    Idle = Idle
SYMMETRY SlotSymmetry
INVARIANTS
    SettlesWhatItLoaded
    NeverSilentlyDead
    ExectimeIsNextFire
PROPERTIES
    InsertOnlyForActive
    ImplementsStore
