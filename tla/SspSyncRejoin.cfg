CONSTANTS
    s1 = s1
    s2 = s2
    r1 = r1
    r2 = r2
    Ssps = {s1}
    Rows = {r1, r2}
    Poison = {2}
    MaxBuffer = 1
    RecloneAfter = 1
    AdmitAfter = 2
    MaxBatch = 2
    MaxSeq = 2
    MaxGen = 2
    Faults = {"crash", "sweep", "timeout", "retry", "lost", "post", "info", "clone"}
    MaxFaults = 2
    Slots = {1, 2}
SPECIFICATION Spec
INVARIANTS TypeOK ReadyIsCurrent
SYMMETRY MCSymmetry
