\* Two requests at a time on one routine; one error, one restart.
CONSTANTS
    r1 = r1  r2 = r2  q1 = q1  q2 = q2  c1 = c1  c2 = c2  i1 = i1  i9 = i9
    NoConfig = NoConfig
    EveryMinute = EveryMinute
    NoJob = NoJob
    None = None
    Crons = {c1}
    Requests = {q1, q2}
    Routines = {r1}
    Intervals = {i1}
    Oversized = {}
    NewRoutines <- ActiveNew
    Updates <- SomeUpdates
    MaxFaults = 1
    MaxRestarts = 1
SPECIFICATION LiveSpec
INVARIANT TypeOK
PROPERTY RequestsEnd
CHECK_DEADLOCK FALSE
