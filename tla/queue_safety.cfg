\* Two workers compete for two executions of one routine while it is edited and
\* deleted; one database error and one crash may strike anywhere.
CONSTANTS
    w1 = w1  w2 = w2  e1 = e1  e2 = e2  e3 = e3
    r1 = r1  r2 = r2  a1 = a1  a2 = a2  a3 = a3
    None = None
    Workers = {w1, w2}
    Executions = {e1, e2}
    Routines = {r1}
    Actions = {a1, a2}
    FailingActions = {a2}
    InitialActions <- TwoActions
    MaxTime = 0
    MaxFaults = 1
    MaxCrashes = 1
SPECIFICATION Spec
SYMMETRY Symmetry
INVARIANTS TypeOK SingleHolder HeldIsRunning EachActionOnce
PROPERTIES StatusLifecycle ImplementsLedger
