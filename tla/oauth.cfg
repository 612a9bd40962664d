\* Two sign-ins with two accounts, two callbacks at a time, one failed call, two
\* accounts that change their address.
CONSTANTS
    q1 = q1  q2 = q2  s1 = s1  s2 = s2  a1 = a1  a2 = a2
    e1 = e1  e2 = e2  e3 = e3  c1 = c1  c2 = c2
    None = None
    Requests = {q1, q2}
    States = {s1, s2}
    Codes = {c1, c2}
    Accounts = {a1, a2}
    Emails = {e1, e2, e3}
    MaxFaults = 1
    MaxRenames = 2
SYMMETRY Interchangeable
SPECIFICATION Spec
INVARIANTS TypeOK StateHasVerifier SubjectIsOwn
PROPERTY StatesAreOneTime
CHECK_DEADLOCK FALSE
