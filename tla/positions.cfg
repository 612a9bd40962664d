\* Two requests at a time on a list of three actions; a fourth may be created.
CONSTANTS
    q1 = q1  q2 = q2  a1 = a1  a2 = a2  a3 = a3  a4 = a4
    None = None
    Requests = {q1, q2}
    Actions = {a1, a2, a3, a4}
    InitialList <- Three
    Operations = {"create", "delete", "move", "reorder"}
    MaxRequests = 3
SPECIFICATION Spec
SYMMETRY Symmetry
INVARIANTS TypeOK ContiguousInTurn
PROPERTY ImplementsList
CHECK_DEADLOCK FALSE
