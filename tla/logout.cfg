\* One request, one pair of tokens, one failed call.
CONSTANTS
    q1 = q1  q2 = q2  t1 = t1  t2 = t2  t3 = t3  t4 = t4
    None = None
    Requests = {q1}
    Tokens = {t1, t2}
    Life = 1
    MaxTime = 1
    MaxFaults = 1
    MayDie = FALSE
SPECIFICATION Spec
PROPERTY LogoutSucceeds
CHECK_DEADLOCK FALSE
