\* Two requests at a time and three pairs of tokens, that is a sign-in refreshed
\* twice or two sign-ins; JWTs of two seconds, made and revoked on the half second too,
\* watched until those of the first second have expired.
CONSTANTS
    q1 = q1  q2 = q2  t1 = t1  t2 = t2  t3 = t3  t4 = t4
    None = None
    Requests = {q1, q2}
    Tokens = {t1, t2, t3}
    Life = 2
    MaxTime = 4
    MaxFaults = 1
    MayDie = TRUE
SYMMETRY Interchangeable
SPECIFICATION Spec
INVARIANTS TypeOK OneLivePerSignIn BrowserIsCurrent SignedOutStaysOut RevokedUntilTheLastSecond
PROPERTY RefreshIsOneTime
CHECK_DEADLOCK FALSE
