\* One request at a time, with an interval that overflows; two errors, two restarts.
CONSTANTS
    r1 = r1  r2 = r2  q1 = q1  q2 = q2  c1 = c1  c2 = c2  i1 = i1  i9 = i9
    NoConfig = NoConfig
    EveryMinute = EveryMinute
    NoJob = NoJob
    None = None
    Crons = {c1, c2}
    Requests = {q1}
    Routines = {r1}
    Intervals = {i1, i9}
    Oversized = {i9}
    NewRoutines <- AnyNew
    Updates <- AnyUpdate
    MaxFaults = 2
    MaxRestarts = 2
SPECIFICATION Spec
INVARIANTS JobsMatchUndisturbedRows RowsAreValid
CHECK_DEADLOCK FALSE
