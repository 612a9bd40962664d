---------------------------- MODULE ActionPositions ----------------------------
(***************************************************************************)
(* The rows of table actions that belong to one routine, and the requests  *)
(* that create, move, reorder and delete them (backend/routine_services.py *)
(* 305-460).  Each request is one transaction of several statements on     *)
(* PostgreSQL, isolation READ COMMITTED: a statement sees what was         *)
(* committed when it began, waits for the rows other transactions have     *)
(* locked, and looks at them again once they are free.  The constraint     *)
(* UNIQUE (routine_id, position) is checked at the commit.                 *)
(*                                                                         *)
(* Any request may be rolled back at any point: an invalid configuration   *)
(* found after the flush, a database error, a deadlock PostgreSQL broke.   *)
(***************************************************************************)
EXTENDS Naturals, Sequences, FiniteSets, FiniteSetsExt

CONSTANTS
    Requests,     \* request threads
    Actions,      \* primary keys of actions
    InitialList,  \* the routine's actions at the start, in order
    None,         \* no request, no action
    Operations,   \* what clients do: a part of AllOperations
    MaxRequests   \* bound on the number of requests

AllOperations == {"create", "delete", "move", "reorder"}

ASSUME RequestAssumption == Operations \subseteq AllOperations /\ MaxRequests \in Nat

ASSUME NoneAssumption == None \notin Requests \union Actions

ASSUME ListAssumption ==
    /\ InitialList \in Seq(Actions)
    /\ \A i, j \in 1..Len(InitialList) : InitialList[i] = InitialList[j] => i = j

VARIABLES
    pos,    \* pos[a]: the committed position of action a, 0 if it has no row
    spare,  \* action keys not handed out yet
    lock,   \* lock[a]: the transaction that changed or deleted row a
    pc, op,
    act,    \* the action the request is about
    old,    \* its position as the request read it
    at,     \* the position asked for; the first position to shift
    mine,   \* mine[q][a]: the position transaction q gives row a, 0 to delete it
    seen,   \* the rows the UPDATE statement under way has found
    begun,  \* the number of requests so far
    \* History, read by no action.
    overlapped  \* were two requests under way at once?

request == <<pc, op, act, old, at, mine, seen>>
vars == <<pos, spare, lock, request, begun, overlapped>>

Rows == {a \in Actions : pos[a] > 0}
Nothing == [a \in Actions |-> 0]

\* Mutant: READ UNCOMMITTED.
DirtyView(q, a) == IF lock[a] # None THEN mine[lock[a]][a] ELSE pos[a]

\* Row a as transaction q sees it.
View(q, a) == IF lock[a] = q THEN mine[q][a] ELSE pos[a]

Free(q, a) == lock[a] \in {None, q}

-----------------------------------------------------------------------------
Init ==
    /\ pos = [a \in Actions |->
                IF \E i \in 1..Len(InitialList) : InitialList[i] = a
                THEN CHOOSE i \in 1..Len(InitialList) : InitialList[i] = a ELSE 0]
    /\ spare = {a \in Actions : \A i \in 1..Len(InitialList) : InitialList[i] # a}
    /\ lock = [a \in Actions |-> None]
    /\ pc = [q \in Requests |-> "idle"]
    /\ op = [q \in Requests |-> "none"]
    /\ act = [q \in Requests |-> None]
    /\ old = [q \in Requests |-> 0]
    /\ at = [q \in Requests |-> 0]
    /\ mine = [q \in Requests |-> Nothing]
    /\ seen = [q \in Requests |-> {}]
    /\ begun = 0
    /\ overlapped = FALSE

\* Request q starts: it will do o to action a, whose position it has read.
Begin(q, o, a, p) ==
    /\ pc[q] = "idle"
    /\ o \in Operations
    /\ begun < MaxRequests
    /\ begun' = begun + 1
    /\ overlapped' = (overlapped \/ \E other \in Requests : pc[other] # "idle")
    /\ pc' = [pc EXCEPT ![q] = p]
    /\ op' = [op EXCEPT ![q] = o]
    /\ act' = [act EXCEPT ![q] = a]

Goto(q, p) ==
    /\ pc' = [pc EXCEPT ![q] = p]
    /\ UNCHANGED <<op, act, begun, overlapped>>

\* The transaction of q ends and gives its locks back.
End(q) ==
    /\ pc' = [pc EXCEPT ![q] = "idle"]
    /\ op' = [op EXCEPT ![q] = "none"]
    /\ act' = [act EXCEPT ![q] = None]
    /\ old' = [old EXCEPT ![q] = 0]
    /\ at' = [at EXCEPT ![q] = 0]
    /\ mine' = [mine EXCEPT ![q] = Nothing]
    /\ seen' = [seen EXCEPT ![q] = {}]
    /\ lock' = [a \in Actions |-> IF lock[a] = q THEN None ELSE lock[a]]
    /\ UNCHANGED <<begun, overlapped>>

\* The statement of q writes the positions w[a] to the rows S and locks them.
Write(q, S, w) ==
    /\ \A a \in S : Free(q, a)
    /\ lock' = [a \in Actions |-> IF a \in S THEN q ELSE lock[a]]
    /\ mine' = [mine EXCEPT ![q] = [a \in Actions |-> IF a \in S THEN w[a] ELSE @[a]]]

-----------------------------------------------------------------------------
(* create_action and delete_action.                                         *)

NextAppendPosition == Max({pos[a] : a \in Actions}) + 1

\* Without a position the new action goes to the end, no row is shifted.
AppendAtEnd(q, a) ==
    /\ a \in spare
    /\ Begin(q, "create", a, "commit")
    /\ spare' = spare \ {a}
    /\ at' = [at EXCEPT ![q] = NextAppendPosition]
    /\ UNCHANGED <<pos, lock, old, mine, seen>>

\* With one, the rows from there on are shifted down first.
Insert(q, a, p) ==
    /\ a \in spare
    /\ Begin(q, "create", a, "shift")
    /\ spare' = spare \ {a}
    /\ at' = [at EXCEPT ![q] = p]
    /\ UNCHANGED <<pos, lock, old, mine, seen>>

\* delete_action keeps the position the request read when it began.
ReadForDelete(q, a) ==
    /\ a \in Rows
    /\ Begin(q, "delete", a, "remove")
    /\ at' = [at EXCEPT ![q] = pos[a] + 1]
    /\ UNCHANGED <<pos, spare, lock, old, mine, seen>>

\* DELETE; one that finds no row any more only warns.
Remove(q) ==
    /\ pc[q] = "remove"
    /\ Write(q, {act[q]} \intersect Rows, Nothing)
    /\ Goto(q, "shift")
    /\ UNCHANGED <<pos, spare, old, at, seen>>

\* Mutant: the rows after the given position are shifted, not the one at it.
ToShiftAfter(q) == {a \in Actions : View(q, a) > at[q]}

\* The rows the UPDATE of q is about.
ToShift(q) == {a \in Actions : View(q, a) >= at[q] /\ View(q, a) > 0}

\* The UPDATE begins: it finds the rows to shift.
FindRows(q) ==
    /\ pc[q] = "shift"
    /\ seen' = [seen EXCEPT ![q] = ToShift(q)]
    /\ Goto(q, "shifting")
    /\ UNCHANGED <<pos, spare, lock, old, at, mine>>

\* The new position of a row that is shifted.
Shifted(q, a) == IF op[q] = "create" THEN View(q, a) + 1 ELSE View(q, a) - 1

\* It goes on once they are free, with those that still match.
ShiftRows(q) ==
    /\ pc[q] = "shifting"
    /\ \A a \in seen[q] : Free(q, a)
    /\ Write(q, seen[q] \intersect ToShift(q), [a \in Actions |-> Shifted(q, a)])
    /\ seen' = [seen EXCEPT ![q] = {}]
    /\ Goto(q, "commit")
    /\ UNCHANGED <<pos, spare, old, at>>

-----------------------------------------------------------------------------
(* update_action with a position, and reorder_actions.                      *)

\* update_action: the request reads its action,
ReadForMove(q, a, p) ==
    /\ a \in Rows
    /\ Begin(q, "move", a, "find")
    /\ old' = [old EXCEPT ![q] = pos[a]]
    /\ at' = [at EXCEPT ![q] = p]
    /\ UNCHANGED <<pos, spare, lock, mine, seen>>

\* Mutant: the other action is left without a position.
FindOtherOneWay(q) ==
    /\ pc[q] = "find"
    /\ \E b \in Rows \ {act[q]} : pos[b] = at[q]
    /\ LET b == CHOOSE b \in Rows \ {act[q]} : pos[b] = at[q] IN
        mine' = [mine EXCEPT ![q] = [@ EXCEPT ![act[q]] = at[q], ![b] = None]]
    /\ IF old[q] = at[q] THEN Goto(q, "commit") ELSE Goto(q, "write")
    /\ UNCHANGED <<pos, spare, lock, old, at, seen>>

\* then looks for the action at the position asked for: the two change places,
\* by the positions as they were read.  Without one the request is refused
\* (Abort).
FindOther(q) ==
    /\ pc[q] = "find"
    /\ \E b \in Rows \ {act[q]} : pos[b] = at[q]
    /\ LET b == CHOOSE b \in Rows \ {act[q]} : pos[b] = at[q] IN
        mine' = [mine EXCEPT ![q] = [@ EXCEPT ![act[q]] = at[q], ![b] = old[q]]]
    /\ IF old[q] = at[q] THEN Goto(q, "commit") ELSE Goto(q, "write")
    /\ UNCHANGED <<pos, spare, lock, old, at, seen>>

\* reorder_actions: the list names every action once; those whose position
\* changes are written.
ReadForReorder(q, ids) ==
    /\ Cardinality({ids[i] : i \in DOMAIN ids}) = Cardinality(Rows)
    /\ Begin(q, "reorder", None, "write")
    /\ mine' = [mine EXCEPT ![q] = [a \in Actions |->
                    IF \E i \in DOMAIN ids : ids[i] = a /\ pos[a] # i
                    THEN CHOOSE i \in DOMAIN ids : ids[i] = a ELSE 0]]
    /\ UNCHANGED <<pos, spare, lock, old, at, seen>>

\* The flush updates the rows by their keys and fails if one is gone.
WriteRows(q) ==
    LET S == {a \in Actions : mine[q][a] > 0} IN
    /\ pc[q] = "write"
    /\ \A a \in S : Free(q, a)
    /\ IF S \subseteq Rows
       THEN Write(q, S, mine[q]) /\ Goto(q, "commit") /\ UNCHANGED <<old, at, seen>>
       ELSE End(q)
    /\ UNCHANGED <<pos, spare>>

-----------------------------------------------------------------------------
\* The positions if q commits: its own and the committed ones, and the new row.
Merged(q) ==
    [a \in Actions |-> IF op[q] = "create" /\ act[q] = a THEN at[q] ELSE View(q, a)]

Unique(f) == \A a, b \in Actions : f[a] = f[b] /\ f[a] > 0 => a = b

\* The commit checks the constraint and fails when two rows share a position.
Commit(q) ==
    /\ pc[q] = "commit"
    /\ pos' = IF Unique(Merged(q)) THEN Merged(q) ELSE pos
    /\ End(q)
    /\ UNCHANGED spare

Abort(q) ==
    /\ pc[q] # "idle"
    /\ End(q)
    /\ UNCHANGED <<pos, spare>>

Arrive(q) ==
    \/ \E a \in Actions :
        \/ AppendAtEnd(q, a)
        \/ \E p \in 1..NextAppendPosition : Insert(q, a, p)
        \/ ReadForDelete(q, a)
        \/ \E p \in {pos[b] : b \in Rows} : ReadForMove(q, a, p)
    \/ \E ids \in [1..Cardinality(Rows) -> Rows] : ReadForReorder(q, ids)

Next ==
    \E q \in Requests :
        \/ Arrive(q)
        \/ Remove(q)
        \/ FindRows(q)
        \/ ShiftRows(q)
        \/ FindOther(q)
        \/ WriteRows(q)
        \/ Commit(q)
        \/ Abort(q)

Spec == Init /\ [][Next]_vars

-----------------------------------------------------------------------------
TypeOK ==
    /\ pos \in [Actions -> Nat]
    /\ spare \subseteq Actions
    /\ lock \in [Actions -> Requests \union {None}]
    /\ pc \in [Requests -> {"idle", "remove", "shift", "shifting", "find", "write", "commit"}]
    /\ op \in [Requests -> AllOperations \union {"none"}]
    /\ act \in [Requests -> Actions \union {None}]
    /\ old \in [Requests -> Nat]
    /\ at \in [Requests -> Nat]
    /\ mine \in [Requests -> [Actions -> Nat]]
    /\ seen \in [Requests -> SUBSET Actions]
    /\ begun \in 0..MaxRequests
    /\ overlapped \in BOOLEAN

\* "After deletion, all actions with a higher position are decremented by one so
\* the sequence remains contiguous" (routine_services.py:444): the positions of
\* the n actions are 1 to n.
Contiguous == {pos[a] : a \in Rows} = 1..Cardinality(Rows)

\* The part of that promise the code keeps: as long as requests come one after
\* another, whatever they do and wherever they fail.
ContiguousInTurn == ~ overlapped => Contiguous

\* The routine's actions in the order of their positions.
OrderedActions ==
    [i \in 1..Cardinality(Rows) |->
        CHOOSE a \in Rows : Cardinality({b \in Rows : pos[b] <= pos[a]}) = i]

List == INSTANCE ActionList WITH list <- OrderedActions

\* However requests overlap, each one inserts an action, removes one or
\* rearranges them, in one piece, or does nothing: the others keep their order.
ImplementsList == List!Spec
=============================================================================
