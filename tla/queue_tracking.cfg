\* One worker, as deployed, while the routine is edited and deleted between its steps:
\* it has one action, another one, which fails, may be created before or after it.
\* Time passes, and executions are scheduled for later.
CONSTANTS
    w1 = w1  w2 = w2  e1 = e1  e2 = e2  e3 = e3
    r1 = r1  r2 = r2  a1 = a1  a2 = a2  a3 = a3
    None = None
    Workers = {w1}
    Executions = {e1, e2}
    Routines = {r1}
    Actions = {a1, a2}
    FailingActions = {a2}
    InitialActions <- OneAction
    MaxTime = 1
    MaxFaults = 1
    MaxCrashes = 1
SPECIFICATION Spec
SYMMETRY Symmetry
INVARIANTS TrackingIsExact StartsInScheduleOrder
PROPERTY FinalStatusIsHonest
