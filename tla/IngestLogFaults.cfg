CONSTANTS
    r1 = r1
    r2 = r2
    t1 = t1
    t2 = t1
    Rows = {r1, r2}
    Tables = {t1}
    TableOf <- MCTableOf
    Handlers = {h1, h2}
    Faults = {"marker", "apply", "hash", "commit"}
    MaxSeq = 3
    MaxChanges = 1
    MaxCrashes = 1
SPECIFICATION Spec
INVARIANTS NoAcceptedChangeLost
PROPERTIES CutNeverRecedes AcceptedIsApplied
CHECK_DEADLOCK FALSE
