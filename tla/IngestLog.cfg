CONSTANTS
    r1 = r1
    r2 = r2
    t1 = t1
    t2 = t2
    Rows = {r1, r2}
    Tables = {t1, t2}
    TableOf <- MCTableOf
    Handlers = {h1}
    Faults = {"fold", "read"}
    MaxSeq = 4
    MaxChanges = 3
    MaxCrashes = 1
SPECIFICATION Spec
SYMMETRY MCSymmetry
INVARIANTS TypeOK Converged HashesDescribeRows
CHECK_DEADLOCK FALSE
