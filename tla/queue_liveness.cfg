\* One worker, as deployed, executions due now or later; one error and one crash may
\* strike, and the routine may be deleted.
CONSTANTS
    w1 = w1  w2 = w2  e1 = e1  e2 = e2  e3 = e3
    r1 = r1  r2 = r2  a1 = a1  a2 = a2  a3 = a3
    None = None
    Workers = {w1}
    Executions = {e1, e2}
    Routines = {r1}
    Actions = {a1}
    FailingActions = {}
    InitialActions <- OneAction
    MaxTime = 1
    MaxFaults = 1
    MaxCrashes = 1
SPECIFICATION LiveSpec
PROPERTIES QueuedLeavesQueue WorkerComesBack UntouchedEnds
