CONSTANTS
    a = a
    b = b
    Steps = {a, b}
    Deps <- MCDeps
    Passes = {p1, p2}
    p1 = p1
    p2 = p2
    MaxDispatchAttempts = 1
    Scenarios = {{"crash"}, {"create"}, {"row"}, {"reap"}, {"kill", "retry"}}
    MaxRetries = 1
SPECIFICATION Spec
INVARIANTS TypeOK DependenciesFirst SuccessIsComplete ScheduleAgrees
PROPERTIES SuccessIsKept RunTerminates
CHECK_DEADLOCK FALSE
