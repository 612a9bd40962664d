\* The dashboard, one more protected page and the login page; two checks and
\* two sign-outs at once; four clicks, two failed requests, a change in another tab.
CONSTANTS
    routines = routines  k1 = k1  k2 = k2  j1 = j1  j2 = j2
    Home = home
    Login = login
    Blank = blank
    None = None
    Protected = {home, routines}
    Checks = {k1, k2}
    Logouts = {j1, j2}
    MaxClicks = 4
    MaxFaults = 2
    MaxShifts = 1
SPECIFICATION Spec
INVARIANTS TypeOK SettledPageFits BeliefIsCurrent
PROPERTY NavigationEnds
CHECK_DEADLOCK FALSE
