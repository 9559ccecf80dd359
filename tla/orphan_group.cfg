SPECIFICATION Spec
CONSTANTS
    Jobs = {1, 2}
    Groups = {g1, g2}
    Times = {t1}
    Slots = {s1, s2}
    Sess = {c1, c2}
    MaxWorkers = 2
    Overlap = TRUE
    NoJob = NoJob
    NoRow = NoRow
    NoTx = NoTx
SYMMETRY Symmetry
INVARIANTS
    JobsHaveGroups
