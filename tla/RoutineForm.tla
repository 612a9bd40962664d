----------------------------- MODULE RoutineForm -----------------------------
(***************************************************************************)
(* The routine form of the frontend (features/routines/                    *)
(* useRoutineFormPage.ts) on top of the requests it sends (backend/        *)
(* routine_routes.py, routine_services.py).  A form is a draft of a        *)
(* routine in one tab; a save sends it piece by piece: the routine itself, *)
(* the deletions all at once, each new action, and last the order.         *)
(*                                                                         *)
(* One step is one request with its answer; two requests read, check and   *)
(* then write, which are steps of their own: the creation of a routine and *)
(* the order of its actions.  A request may fail without effect ("error")  *)
(* or have its answer lost ("late").  Other tabs save meanwhile, and the   *)
(* form can still be edited, or left, when its request goes on without it. *)
(* The positions behind a list, and how the other requests interleave in   *)
(* the database, are the subject of ActionPositions.                       *)
(***************************************************************************)
EXTENDS Naturals, FiniteSets, Sequences, SequencesExt

CONSTANTS
    Forms,       \* the forms that are ever opened
    Routines,    \* primary keys of routines
    Actions,     \* primary keys of actions
    Drafts,      \* actions added in a form and not yet known by an id
    Names,       \* names of routines
    Lower,       \* Lower[n]: name n in lower case
    None,        \* no routine, no name
    OldRoutine,  \* a routine that is there from the start
    OldName,     \* its name
    OldActions,  \* and its list of actions
    MaxFaults,   \* bound on requests that fail and forms that are left
    MaxEdits,    \* bound on the edits of forms
    MaxSaves     \* bound on saves

ASSUME DataAssumption ==
    /\ OldRoutine \in Routines /\ OldName \in Names
    /\ OldActions \in Seq(Actions) /\ IsInjective(OldActions)
    /\ Drafts \intersect Actions = {}
    /\ None \notin Routines \union Names \union Drafts \union Actions
    /\ DOMAIN Lower = Names
ASSUME BoundAssumption == {MaxFaults, MaxEdits, MaxSaves} \subseteq Nat

VARIABLES
    \* The database.
    name,    \* name[r]: the name of routine r, None before it is created
    list,    \* list[r]: its actions in order
    origin,  \* origin[a]: the draft action a was created from, or None
    \* The forms.
    pc,
    target,  \* target[f]: the routine form f edits, None if it creates one
    title,   \* title[f]: the name in the form
    local,   \* localActions: ids of actions, and drafts
    removed, \* removedActionIds
    left,    \* forms whose tab was closed during a save
    \* Their saves.
    awaited, \* awaited[f]: the deletions Promise.all waits for
    todo,    \* todo[f]: the drafts still to be sent
    made,    \* made[f]: keyToNewId (newIds), pairs of a draft and an id
    created, \* created[f]: the routine a creating save has inserted
    stray,   \* deletions that were sent and nobody waits for any more
    ids,     \* ids[f]: the ids of the order that is being written
    seen,    \* seen[f]: the list its request has compared them with
    \* History, read by no action, and bounds.
    touched, \* forms edited since their save began
    remade,  \* drafts whose action was created by a save that then failed
    raced,   \* names two creations checked at once, or an update wrote
    faults, edits, saves

database == <<name, list, origin>>
form == <<target, title, local, removed, left>>
order == <<ids, seen>>
save == <<awaited, todo, made, created, stray, order>>
history == <<touched, remade, raced>>
bounds == <<faults, edits, saves>>
vars == <<database, pc, form, save, history, bounds>>

Saving == {"update", "delete", "check", "insert", "create", "order"}
Exists(r) == name[r] # None
Creates(f) == target[f] = None
RoutineOf(f) == IF Creates(f) THEN created[f] ELSE target[f]
IsDraft(x) == x \in Drafts

\* Keys are never used again.
FreshRoutines == {r \in Routines : ~ Exists(r)}
FreshActions == {a \in Actions : origin[a] = None} \ ToSet(OldActions)
FreshDrafts == Drafts \ (Range(origin)
                         \union UNION {ToSet(local[f]) \union ToSet(todo[f]) : f \in Forms})

\* The key a counter or a sequence gives out: any one, they are all alike.
NextOf(keys) == CHOOSE k \in keys : TRUE

\* KeptUpTo(l, S)[n]: those of the first n entries of l that are in S.
KeptUpTo(l, S) ==
    LET kept[n \in 0..Len(l)] ==
            IF n = 0 THEN <<>>
            ELSE IF l[n] \in S THEN Append(kept[n-1], l[n]) ELSE kept[n-1]
    IN  kept

\* A filtered list: the entries of l that are in S, in order.
Only(l, S) == KeptUpTo(l, S)[Len(l)]

\* The drafts of a list of the form, in order.
DraftsOf(l) == Only(l, Drafts)

\* The id of an entry of the form: its own, or that of the action made from it.
IdOf(f, x) == IF IsDraft(x) THEN CHOOSE a \in Actions : <<x, a>> \in ToSet(made[f]) ELSE x
HasId(f, x) == IsDraft(x) => \E a \in Actions : <<x, a>> \in ToSet(made[f])

\* Mutant: the ids of the creations are put after the ones there were.
FinalIdsOldFirst(f) ==
    LET new == [i \in DOMAIN made[f] |-> made[f][i][2]]
    IN  IF Creates(f) THEN new ELSE Only(local[f], Actions) \o new

\* finalIds: the entries without an id, added while saving, are left out.  A
\* creating form sends what it has made instead.
FinalIds(f) ==
    IF Creates(f) THEN [i \in DOMAIN made[f] |-> made[f][i][2]]
    ELSE LET known == Only(local[f], {x \in ToSet(local[f]) : HasId(f, x)})
         IN  [i \in DOMAIN known |-> IdOf(f, known[i])]

-----------------------------------------------------------------------------
Init ==
    /\ name = [r \in Routines |-> IF r = OldRoutine THEN OldName ELSE None]
    /\ list = [r \in Routines |-> IF r = OldRoutine THEN OldActions ELSE <<>>]
    /\ origin = [a \in Actions |-> None]
    /\ pc = [f \in Forms |-> "closed"]
    /\ target = [f \in Forms |-> None]
    /\ title = [f \in Forms |-> None]
    /\ local = [f \in Forms |-> <<>>]
    /\ removed = [f \in Forms |-> {}]
    /\ left = {}
    /\ awaited = [f \in Forms |-> {}]
    /\ todo = [f \in Forms |-> <<>>]
    /\ made = [f \in Forms |-> <<>>]
    /\ created = [f \in Forms |-> None]
    /\ stray = {}
    /\ ids = [f \in Forms |-> <<>>]
    /\ seen = [f \in Forms |-> <<>>]
    /\ touched = {}
    /\ remade = {}
    /\ raced = {}
    /\ faults = 0
    /\ edits = 0
    /\ saves = 0

-----------------------------------------------------------------------------
(* The user.                                                                *)

\* The form is filled from the routine once, when its query is first answered; a
\* creating form starts empty.
Open(f, r) ==
    /\ pc[f] = "closed" /\ title[f] = None /\ f \notin left
    /\ r # None => Exists(r)
    /\ pc' = [pc EXCEPT ![f] = "open"]
    /\ target' = [target EXCEPT ![f] = r]
    /\ \E n \in IF r = None THEN Names ELSE {name[r]} : title' = [title EXCEPT ![f] = n]
    /\ local' = [local EXCEPT ![f] = IF r = None THEN <<>> ELSE list[r]]
    /\ UNCHANGED <<database, removed, left, save, history, bounds>>

\* Nothing keeps the user from editing the list while a save runs.
Edit(f) ==
    /\ pc[f] \in Saving \union {"open"}
    /\ f \notin left
    /\ edits < MaxEdits
    /\ edits' = edits + 1
    /\ touched' = IF pc[f] = "open" THEN touched ELSE touched \union {f}
    /\ UNCHANGED <<database, pc, target, left, save, remade, raced, faults, saves>>

AddAction(f) ==
    /\ Edit(f)
    /\ FreshDrafts # {}
    /\ local' = [local EXCEPT ![f] = Append(@, NextOf(FreshDrafts))]
    /\ UNCHANGED <<title, removed>>

\* Mutant: a draft that is removed is to be deleted, too.
RemoveAny(f, i) ==
    /\ Edit(f)
    /\ removed' = [removed EXCEPT ![f] = @ \union {local[f][i]}]
    /\ local' = [local EXCEPT ![f] = RemoveAt(@, i)]
    /\ UNCHANGED title

\* An action that has an id is to be deleted.
RemoveAction(f, i) ==
    /\ Edit(f)
    /\ removed' = IF IsDraft(local[f][i]) THEN removed
                  ELSE [removed EXCEPT ![f] = @ \union {local[f][i]}]
    /\ local' = [local EXCEPT ![f] = RemoveAt(@, i)]
    /\ UNCHANGED title

\* A drag and drop of the list.
MoveAction(f, i) ==
    /\ Edit(f)
    /\ local' = [local EXCEPT ![f] = InsertAt(RemoveAt(@, i), 1, @[i])]
    /\ UNCHANGED <<title, removed>>

ChangeName(f, n) ==
    /\ Edit(f)
    /\ pc[f] = "open"
    /\ title' = [title EXCEPT ![f] = n]
    /\ UNCHANGED <<local, removed>>

\* The Save button, disabled while saving.
StartSave(f) ==
    /\ pc[f] = "open"
    /\ saves < MaxSaves
    /\ saves' = saves + 1
    /\ pc' = [pc EXCEPT ![f] = IF Creates(f) THEN "check" ELSE "update"]
    /\ touched' = touched \ {f}
    /\ UNCHANGED <<database, form, save, remade, raced, faults, edits>>

-----------------------------------------------------------------------------
(* The requests of a save.                                                  *)

\* What becomes of the request of form f, or of a part of it.
Outcome(f, o) ==
    /\ IF o = "ok" \/ f \in left THEN UNCHANGED faults
       ELSE faults < MaxFaults /\ faults' = faults + 1
    /\ UNCHANGED <<edits, saves>>

\* Nobody takes the answer to a form that was left.
Answer(f, o) == Outcome(f, o) /\ (o = "ok" => f \notin left)

Goto(f, p) == pc' = [pc EXCEPT ![f] = p]

\* The save is over, in state p: what it had made is forgotten, the drafts in the
\* form stay drafts.  The deletions in S go on by themselves.
Finish(f, p, S) ==
    /\ Goto(f, p)
    /\ awaited' = [awaited EXCEPT ![f] = {}]
    /\ todo' = [todo EXCEPT ![f] = <<>>]
    /\ made' = [made EXCEPT ![f] = <<>>]
    /\ created' = [created EXCEPT ![f] = None]
    /\ stray' = stray \union S
    /\ ids' = [ids EXCEPT ![f] = <<>>]
    /\ seen' = [seen EXCEPT ![f] = <<>>]

MadeDrafts(f) == {m[1] : m \in ToSet(made[f])}

\* A save that fails shows its error; the form is as it was, and may make the
\* drafts in D again.
FailHaving(f, S, D) ==
    /\ Finish(f, IF f \in left THEN "closed" ELSE "open", S)
    /\ remade' = IF f \in left THEN remade ELSE remade \union D
    /\ UNCHANGED touched

Fail(f, S) == FailHaving(f, S, MadeDrafts(f))

\* PUT /routines/{id}: the name is not compared with those of other routines.
Update(f, o) ==
    LET r == target[f] IN
    /\ pc[f] = "update"
    /\ Answer(f, o)
    /\ name' = IF o = "error" THEN name ELSE [name EXCEPT ![r] = title[f]]
    /\ raced' = IF name'[r] # name[r] THEN raced \union {Lower[title[f]]} ELSE raced
    /\ IF o = "ok"
       THEN /\ Goto(f, "delete")
            /\ awaited' = [awaited EXCEPT ![f] = removed[f]]
            /\ UNCHANGED <<todo, made, created, stray, order, touched, remade>>
       ELSE Fail(f, {})
    /\ UNCHANGED <<list, origin, form>>

Without(a) == [r \in Routines |-> Only(list[r], Actions \ {a})]
OnServer(a) == \E r \in Routines : a \in ToSet(list[r])

\* DELETE /actions/{id}, one of those sent at once: 404 for an action that is
\* gone.  The first one to fail ends the save, the others go on.
DeleteAction(f, a, o) ==
    /\ pc[f] = "delete"
    /\ a \in awaited[f]
    /\ Answer(f, o)
    /\ list' = IF o = "error" THEN list ELSE Without(a)
    /\ IF o = "ok" /\ OnServer(a)
       THEN /\ awaited' = [awaited EXCEPT ![f] = @ \ {a}]
            /\ UNCHANGED <<pc, todo, made, created, stray, order, touched, remade>>
       ELSE Fail(f, awaited[f] \ {a})
    /\ UNCHANGED <<name, origin, form, raced>>

\* All deletions were answered: the drafts the form has now are sent.
StartCreating(f) ==
    /\ pc[f] = "delete"
    /\ awaited[f] = {}
    /\ Goto(f, "create")
    /\ todo' = [todo EXCEPT ![f] = DraftsOf(local[f])]
    /\ UNCHANGED <<database, form, awaited, made, created, stray, order, history, bounds>>

\* Mutant: the name is compared as it is spelled.
CheckNameExactly(f, o) ==
    LET n == Lower[title[f]]
        rivals == {g \in Forms : pc[g] = "insert" /\ Lower[title[g]] = n}
    IN
    /\ pc[f] = "check"
    /\ Outcome(f, o)
    /\ IF o = "ok" /\ \A r \in Routines : Exists(r) => name[r] # title[f]
       THEN /\ Goto(f, "insert")
            /\ raced' = IF rivals # {} THEN raced \union {n} ELSE raced
            /\ UNCHANGED <<save, touched, remade>>
       ELSE Fail(f, {}) /\ UNCHANGED raced
    /\ UNCHANGED <<database, form>>

\* get_routine_by_name of create_routine_handler: 409 if there is one, 500 (the
\* exception of scalar_one_or_none) if there are several.
CheckName(f, o) ==
    LET n == Lower[title[f]]
        rivals == {g \in Forms : pc[g] = "insert" /\ Lower[title[g]] = n}
    IN
    /\ pc[f] = "check"
    /\ Outcome(f, o)
    /\ IF o = "ok" /\ \A r \in Routines : Exists(r) => Lower[name[r]] # n
       THEN /\ Goto(f, "insert")
            /\ raced' = IF rivals # {} THEN raced \union {n} ELSE raced
            /\ UNCHANGED <<save, touched, remade>>
       ELSE Fail(f, {}) /\ UNCHANGED raced
    /\ UNCHANGED <<database, form>>

\* create_routine: the INSERT and its commit.  A form without actions is done.
Insert(f, o) ==
    LET r == NextOf(FreshRoutines) IN
    /\ pc[f] = "insert"
    /\ FreshRoutines # {}
    /\ Answer(f, o)
    /\ name' = IF o = "error" THEN name ELSE [name EXCEPT ![r] = title[f]]
    /\ IF o # "ok" THEN Fail(f, {})
       ELSE /\ UNCHANGED <<touched, remade>>
            /\ IF local[f] = <<>> THEN Finish(f, "closed", {})
               ELSE /\ Goto(f, "create")
                    /\ created' = [created EXCEPT ![f] = r]
                    /\ todo' = [todo EXCEPT ![f] = local[f]]
                    /\ UNCHANGED <<awaited, made, stray, order>>
    /\ UNCHANGED <<list, origin, form, raced>>

\* Mutant: a creation whose answer was lost is sent again.
CreateActionAgain(f, o) ==
    LET a == NextOf(FreshActions)
        d == Head(todo[f])
        r == RoutineOf(f)
    IN
    /\ pc[f] = "create"
    /\ todo[f] # <<>>
    /\ FreshActions # {}
    /\ Answer(f, o)
    /\ IF o = "error" THEN UNCHANGED <<list, origin>>
       ELSE /\ list' = [list EXCEPT ![r] = Append(@, a)]
            /\ origin' = [origin EXCEPT ![a] = d]
    /\ IF o = "ok"
       THEN made' = [made EXCEPT ![f] = Append(@, <<d, a>>)] /\ todo' = [todo EXCEPT ![f] = Tail(@)]
       ELSE UNCHANGED <<made, todo>>
    /\ UNCHANGED <<pc, awaited, created, stray, order, touched, remade, name, form, raced>>

\* POST /routines/{id}/actions: the next draft is appended.
CreateAction(f, o) ==
    LET a == NextOf(FreshActions)
        d == Head(todo[f])
        r == RoutineOf(f)
    IN
    /\ pc[f] = "create"
    /\ todo[f] # <<>>
    /\ FreshActions # {}
    /\ Answer(f, o)
    /\ IF o = "error" THEN UNCHANGED <<list, origin>>
       ELSE /\ list' = [list EXCEPT ![r] = Append(@, a)]
            /\ origin' = [origin EXCEPT ![a] = d]
    /\ IF o = "ok"
       THEN /\ made' = [made EXCEPT ![f] = Append(@, <<d, a>>)]
            /\ todo' = [todo EXCEPT ![f] = Tail(@)]
            /\ UNCHANGED <<pc, awaited, created, stray, order, touched, remade>>
       ELSE FailHaving(f, {}, MadeDrafts(f) \union (IF o = "late" THEN {d} ELSE {}))
    /\ UNCHANGED <<name, form, raced>>

\* PUT /routines/{id}/actions reads the routine's actions: 422 unless the ids are
\* exactly theirs.
ReadOrder(f, o) ==
    LET r == RoutineOf(f)
        sent == FinalIds(f)
    IN
    /\ pc[f] = "create"
    /\ todo[f] = <<>>
    /\ sent # <<>>
    /\ Outcome(f, o)
    /\ IF o = "ok" /\ IsInjective(sent) /\ ToSet(sent) = ToSet(list[r])
       THEN /\ Goto(f, "order")
            /\ ids' = [ids EXCEPT ![f] = sent]
            /\ seen' = [seen EXCEPT ![f] = list[r]]
            /\ UNCHANGED <<awaited, todo, made, created, stray, touched, remade>>
       ELSE Fail(f, {})
    /\ UNCHANGED <<database, form, raced>>

\* The lists that have the rows of l.
Rearranged(l) == {m \in [DOMAIN l -> ToSet(l)] : ToSet(m) = ToSet(l)}

\* Only the rows whose position is not the one read are written, without a lock
\* on the routine: a list that another request has changed since is mixed up.
Written(f, l) == IF l = seen[f] THEN {ids[f]} ELSE Rearranged(l)

\* The positions are written and committed; then the form goes away.
WriteOrder(f, o) ==
    LET r == RoutineOf(f) IN
    /\ pc[f] = "order"
    /\ Answer(f, o)
    /\ \/ o = "error" /\ UNCHANGED list
       \/ o # "error" /\ \E l \in Written(f, list[r]) : list' = [list EXCEPT ![r] = l]
    /\ IF o = "ok"
       THEN Finish(f, "closed", {}) /\ UNCHANGED <<touched, remade>>
       ELSE Fail(f, {})
    /\ UNCHANGED <<name, origin, form, raced>>

\* A row that is gone, or two that got one position, are refused.
RefuseOrder(f) ==
    /\ pc[f] = "order"
    /\ list[RoutineOf(f)] # seen[f]
    /\ Fail(f, {})
    /\ UNCHANGED <<database, form, raced, bounds>>

\* Without any id there is nothing to order: the form goes away.
SkipOrder(f) ==
    /\ pc[f] = "create"
    /\ todo[f] = <<>>
    /\ FinalIds(f) = <<>>
    /\ Finish(f, "closed", {})
    /\ UNCHANGED <<database, form, history, bounds>>

-----------------------------------------------------------------------------
(* Around the save.                                                         *)

\* A deletion nobody waits for reaches the server, or is lost.
StrayDelete(a, o) ==
    /\ a \in stray
    /\ IF o = "ok" THEN UNCHANGED faults ELSE faults < MaxFaults /\ faults' = faults + 1
    /\ stray' = stray \ {a}
    /\ list' = IF o = "error" THEN list ELSE Without(a)
    /\ UNCHANGED <<name, origin, pc, form, awaited, todo, made, created, order>>
    /\ UNCHANGED <<history, edits, saves>>

\* The tab is closed, or a 401 sends it to the login page: nothing more is sent,
\* but what was sent may still reach the server.
Leave(f) ==
    /\ pc[f] \in Saving
    /\ f \notin left
    /\ faults < MaxFaults
    /\ faults' = faults + 1
    /\ left' = left \union {f}
    /\ touched' = touched \union {f}
    /\ IF pc[f] = "delete" THEN Finish(f, "closed", awaited[f]) ELSE UNCHANGED <<pc, save>>
    /\ UNCHANGED <<database, target, title, local, removed, remade, raced, edits, saves>>

-----------------------------------------------------------------------------
Outcomes == {"ok", "error", "late"}

User(f) ==
    \/ \E r \in Routines \union {None} : Open(f, r)
    \/ AddAction(f)
    \/ \E i \in 1..Len(local[f]) : RemoveAction(f, i) \/ (i > 1 /\ MoveAction(f, i))
    \/ \E n \in Names \ {title[f]} : ChangeName(f, n)
    \/ StartSave(f)
    \/ Leave(f)

Send(f) ==
    \/ StartCreating(f)
    \/ RefuseOrder(f)
    \/ SkipOrder(f)
    \/ \E o \in {"ok", "error"} : CheckName(f, o) \/ ReadOrder(f, o)
    \/ \E o \in Outcomes :
        \/ Update(f, o)
        \/ WriteOrder(f, o)
        \/ \E a \in Actions : DeleteAction(f, a, o)
        \/ Insert(f, o)
        \/ CreateAction(f, o)

Next ==
    \/ \E f \in Forms : User(f) \/ Send(f)
    \/ \E a \in Actions, o \in {"ok", "error"} : StrayDelete(a, o)

Spec == Init /\ [][Next]_vars

-----------------------------------------------------------------------------
(* Properties.                                                              *)

TypeOK ==
    /\ name \in [Routines -> Names \union {None}]
    /\ list \in [Routines -> Seq(Actions)]
    /\ origin \in [Actions -> Drafts \union {None}]
    /\ pc \in [Forms -> Saving \union {"open", "closed"}]
    /\ target \in [Forms -> Routines \union {None}]
    /\ title \in [Forms -> Names \union {None}]
    /\ local \in [Forms -> Seq(Actions \union Drafts)]
    /\ removed \in [Forms -> SUBSET Actions]
    /\ left \subseteq Forms
    /\ awaited \in [Forms -> SUBSET Actions]
    /\ todo \in [Forms -> Seq(Drafts)]
    /\ made \in [Forms -> Seq(Drafts \X Actions)]
    /\ created \in [Forms -> Routines \union {None}]
    /\ stray \subseteq Actions
    /\ ids \in [Forms -> Seq(Actions)]
    /\ seen \in [Forms -> Seq(Actions)]
    /\ touched \subseteq Forms /\ remade \subseteq Drafts
    /\ faults \in 0..MaxFaults

\* What an action shows: the draft it was created from, or itself.
Content(a) == IF a \in Actions /\ origin[a] # None THEN origin[a] ELSE a
Contents(l) == [i \in DOMAIN l |-> Content(l[i])]

\* A save that says "Saved" has left the routine with the actions the form shows,
\* in its order, whatever other tabs did up to the last request and whatever an
\* earlier try left behind, unless the list was edited during the save, or another
\* request changed the routine's list between the read and the commit of
\* reorder_actions.  (A form without actions sends no order, and vouches for
\* nothing.)
SavedIsShown ==
    [][\A f \in Forms, r \in Routines :
          /\ pc[f] \in Saving /\ pc'[f] = "closed"
          /\ f \notin touched' /\ local[f] # <<>> /\ r = RoutineOf(f)
          /\ list[r] = seen[f] \/ pc[f] # "order"
          => Contents(list[r])' = Contents(local[f])']_vars

\* An action that was added once is in its routine once, unless the save that
\* created it failed later on and was tried again.
AddedOnce ==
    \A r \in Routines : \A i, j \in 1..Len(list[r]) :
        i # j /\ Content(list[r][i]) = Content(list[r][j]) => Content(list[r][i]) \in remade

\* Two routines have one name, up to case, only if their creations overlapped or
\* an update gave one of them the name: the check is not part of the INSERT, and
\* an update makes none.
NamesClashForCause ==
    \A r, s \in Routines :
        r # s /\ Exists(r) /\ Exists(s) /\ Lower[name[r]] = Lower[name[s]] =>
            Lower[name[r]] \in raced
=============================================================================
