\* One request at a time, no error: an active routine becomes manual.
CONSTANTS
    r1 = r1  r2 = r2  q1 = q1  q2 = q2  c1 = c1  c2 = c2  i1 = i1  i9 = i9
    NoConfig = NoConfig
    EveryMinute = EveryMinute
    NoJob = NoJob
    None = None
    Crons = {c1}
    Requests = {q1}
    Routines = {r1}
    Intervals = {i1}
    Oversized = {}
    NewRoutines <- ActiveNew
    Updates <- AnyUpdate
    MaxFaults = 0
    MaxRestarts = 0
SPECIFICATION Spec
INVARIANT JobsMatchRows
CHECK_DEADLOCK FALSE
