\* Two forms, to edit one routine or to create others under its name or
\* another one in two spellings; two edits, three saves and two failed requests.
CONSTANTS
    f1 = f1  f2 = f2  r1 = r1  r2 = r2  r3 = r3  a1 = a1  a2 = a2  a3 = a3  a4 = a4  a5 = a5  a6 = a6  a7 = a7  a8 = a8
    d1 = d1  d2 = d2  n1 = n1  n2 = n2  n3 = n3  n0 = n0
    None = None
    Forms = {f1, f2}
    Routines = {r1, r2, r3}
    Actions = {a1, a2, a3, a4, a5, a6, a7, a8}
    Drafts = {d1, d2}
    Names = {n1, n2, n3}
    Lower <- TwoNames
    OldRoutine = r1
    OldName = n1
    OldActions <- TwoActions
    MaxFaults = 2
    MaxEdits = 2
    MaxSaves = 3
SYMMETRY Interchangeable
SPECIFICATION Spec
INVARIANTS TypeOK AddedOnce NamesClashForCause
PROPERTY SavedIsShown
CHECK_DEADLOCK FALSE
