---------------------------- MODULE ExecutionQueue ----------------------------
(***************************************************************************)
(* The execution queue of backend/execution_engine.py: callers insert rows *)
(* in routine_executions, worker threads poll the table, claim one ready   *)
(* row with SELECT ... FOR UPDATE SKIP LOCKED and run the routine's actions *)
(* one by one, recording progress in action_executions.                    *)
(*                                                                         *)
(* One step of this module is one database transaction, or the stretch of  *)
(* code between two of them; where a transaction holds row locks that the  *)
(* worker meets (its own claim, and the deletion of a routine), its        *)
(* statements and its end are steps of their own.  Every transaction of    *)
(* the worker may end in an error, with or without having been committed;  *)
(* a process may crash between any two steps.  The deployment has one      *)
(* worker; the code claims (execution_engine.py:272) that more would be    *)
(* safe, so the number of workers is a parameter.                          *)
(***************************************************************************)
EXTENDS Naturals, Sequences, SequencesExt

CONSTANTS
    Workers,         \* queue workers, one daemon thread per process
    Executions,      \* primary keys of routine_executions
    Routines,        \* primary keys of routines
    Actions,         \* primary keys of actions
    FailingActions,  \* the actions whose body raises (a bad sleep config, say)
    InitialActions,  \* InitialActions[r]: r's actions, in position order, at the start
    None,            \* "no execution", "no routine", "no worker"
    MaxTime,         \* bound on the clock
    MaxFaults,       \* bound on database errors
    MaxCrashes       \* bound on process crashes

ASSUME FailingAssumption == FailingActions \subseteq Actions

ASSUME NoneAssumption == None \notin (Executions \union Routines \union Workers)

ASSUME BoundAssumption ==
    /\ MaxTime \in Nat
    /\ MaxFaults \in Nat
    /\ MaxCrashes \in Nat

Distinct(s) == \A i, j \in 1..Len(s) : s[i] = s[j] => i = j

\* Every action row belongs to one routine and has one place in it.
ASSUME InitialActionsAssumption ==
    /\ InitialActions \in [Routines -> Seq(Actions)]
    /\ \A r \in Routines : Distinct(InitialActions[r])

VARIABLES
    \* The database.
    routines,   \* the routines that exist
    actions,    \* actions[r]: r's actions in position order, <<>> if r is gone
    spare,      \* action keys not handed out yet
    status,     \* routine_executions.status, "absent" before and "deleted" after
    routineOf,  \* routine_executions.routine_id
    queuedAt,   \* routine_executions.queued_at
    sched,      \* routine_executions.scheduled_for
    track,      \* track[e][a]: status of the action_executions row, or "none"
    deletion,   \* deletion[r]: how far a delete_routine of r in flight has come
    doom,       \* doom[e]: what it has done to row e: listed it, or deleted it
    \* The worker threads.
    pc,         \* what the worker does next
    now,        \* the time _claim_next read before its SELECT
    job,        \* the execution the worker has locked or claimed
    plan,       \* the list _load_actions returned
    at,         \* index in plan of the current action
    known,      \* did _create_pending_action_executions return the row ids?
    \* The environment.
    clock, faults, crashes,
    \* History, read by no action.
    ran,        \* ran[e]: the action bodies started on behalf of e, in order
    hit,        \* the executions a database error or a crash has touched
    passed      \* passed[e]: the due rows a deletion hid when e was selected

erasure == <<deletion, doom>>
db == <<routines, actions, spare, status, routineOf, queuedAt, sched, track, erasure>>
thread == <<pc, now, job, plan, at, known>>
env == <<clock, faults, crashes>>
history == <<ran, hit, passed>>
vars == <<db, thread, env, history>>

Times == 0..MaxTime

ExecutionStatus == {"absent", "queued", "running", "completed", "failed", "deleted"}
ActionStatus == {"none", "pending", "running", "completed", "failed"}

\* Where a worker that has claimed an execution may be.
RunPcs == {"refresh", "load", "track", "mark", "body", "done",
           "finish", "failAction", "failExec"}
Pcs == {"down", "poll", "select", "commit"} \union RunPcs

\* The worker holds the row lock of its SELECT ... FOR UPDATE.
Locked(e) == \E w \in Workers : pc[w] = "commit" /\ job[w] = e

\* A deletion in flight has deleted row e and holds its lock until it ends.
Gone(e) == doom[e] = "gone"

\* The worker has claimed e and is not finished with it.
Executes(w, e) == pc[w] \in RunPcs /\ job[w] = e

RowExists(e) == status[e] \notin {"absent", "deleted"}

-----------------------------------------------------------------------------
Init ==
    /\ routines = Routines
    /\ actions = InitialActions
    /\ spare = {a \in Actions : \A r \in Routines :
                    \A i \in 1..Len(InitialActions[r]) : InitialActions[r][i] # a}
    /\ status = [e \in Executions |-> "absent"]
    /\ routineOf = [e \in Executions |-> None]
    /\ queuedAt = [e \in Executions |-> 0]
    /\ sched = [e \in Executions |-> 0]
    /\ track = [e \in Executions |-> [a \in Actions |-> "none"]]
    /\ pc = [w \in Workers |-> "poll"]
    /\ now = [w \in Workers |-> 0]
    /\ job = [w \in Workers |-> None]
    /\ plan = [w \in Workers |-> <<>>]
    /\ at = [w \in Workers |-> 1]
    /\ known = [w \in Workers |-> FALSE]
    /\ clock = 0
    /\ faults = 0
    /\ crashes = 0
    /\ deletion = [r \in Routines |-> "none"]
    /\ doom = [e \in Executions |-> "free"]
    /\ ran = [e \in Executions |-> <<>>]
    /\ hit = {}
    /\ passed = [e \in Executions |-> {}]

-----------------------------------------------------------------------------
(* Callers: the run endpoint and APScheduler insert rows, the CRUD endpoints *)
(* change routines and their actions.  Each is one database transaction,     *)
(* the deletion of a routine its statements; one that fails is rolled back   *)
(* and changes nothing.                                                      *)

\* A row of routine r inserted while its deletion is in flight: the deletion did
\* not load it, and the foreign key will refuse to lose the routine.
Refuse(r) == deletion' = [deletion EXCEPT ![r] = IF @ = "none" THEN @ ELSE "refused"]

\* enqueue_routine_run, on the caller's session or on its own.  run_now passes
\* any time the user likes, past or future; run_routine and a run without a
\* body mean now.  The foreign key to routines refuses a row for a deleted one.
Enqueue(e, r, s) ==
    /\ status[e] = "absent"
    /\ r \in routines
    /\ status' = [status EXCEPT ![e] = "queued"]
    /\ routineOf' = [routineOf EXCEPT ![e] = r]
    /\ queuedAt' = [queuedAt EXCEPT ![e] = clock]
    /\ sched' = [sched EXCEPT ![e] = s]
    /\ Refuse(r)
    /\ UNCHANGED <<routines, actions, spare, track, doom, thread, env, history>>

\* create_action: the new row takes position i, later rows move down, which waits
\* for a deletion that has deleted them.
CreateAction(r, a, i) ==
    /\ r \in routines
    /\ a \in spare
    /\ i <= Len(actions[r]) => deletion[r] = "none"
    /\ Refuse(r)
    /\ actions' = [actions EXCEPT ![r] = InsertAt(@, i, a)]
    /\ spare' = spare \ {a}
    /\ UNCHANGED <<routines, status, routineOf, queuedAt, sched, track, doom, thread,
                   env, history>>

Swapped(s, i, j) == [s EXCEPT ![i] = s[j], ![j] = s[i]]
Permuted(s, p) == [i \in 1..Len(s) |-> s[p[i]]]

\* update_action with a position: two rows of the routine change places, once no
\* deletion holds them.
SwapActions(r, i, j) ==
    /\ r \in routines
    /\ deletion[r] = "none"
    /\ i # j
    /\ actions' = [actions EXCEPT ![r] = Swapped(@, i, j)]
    /\ UNCHANGED <<routines, spare, status, routineOf, queuedAt, sched, track,
                   erasure, thread, env, history>>

\* reorder_actions: the rows are renumbered in the order of the permutation p.
ReorderActions(r, p) ==
    /\ r \in routines
    /\ deletion[r] = "none"
    /\ IsInjective(p)
    /\ actions' = [actions EXCEPT ![r] = Permuted(@, p)]
    /\ UNCHANGED <<routines, spare, status, routineOf, queuedAt, sched, track,
                   erasure, thread, env, history>>

\* delete_action: the foreign key of action_executions refuses to lose a row
\* that was ever tracked.
DeleteAction(r, i) ==
    /\ r \in routines
    /\ deletion[r] = "none"
    /\ \A e \in Executions : track[e][actions[r][i]] = "none"
    /\ actions' = [actions EXCEPT ![r] = RemoveAt(@, i)]
    /\ UNCHANGED <<routines, spare, status, routineOf, queuedAt, sched, track,
                   erasure, thread, env, history>>

\* delete_routine: session.delete loads the rows the cascade reaches and the flush
\* of commit() deletes the actions first: a tracked one makes it fail.
BeginDeletion(r) ==
    /\ r \in routines
    /\ deletion[r] = "none"
    /\ \A i \in 1..Len(actions[r]) :
            \A e \in Executions : track[e][actions[r][i]] = "none"
    /\ deletion' = [deletion EXCEPT ![r] = "flushing"]
    /\ doom' = [e \in Executions |->
                   IF routineOf[e] = r /\ RowExists(e) THEN "listed" ELSE doom[e]]
    /\ UNCHANGED <<routines, actions, spare, status, routineOf, queuedAt, sched, track,
                   thread, env, history>>

\* The flush deletes its executions one by one, and waits for a row that a worker
\* is claiming.
DeleteRow(e) ==
    /\ doom[e] = "listed"
    /\ ~ Locked(e)
    /\ doom' = [doom EXCEPT ![e] = "gone"]
    /\ UNCHANGED <<routines, actions, spare, status, routineOf, queuedAt, sched, track,
                   deletion, thread, env, history>>

\* The locks of the deletion of r are released.
EndDeletion(r) ==
    /\ deletion' = [deletion EXCEPT ![r] = "none"]
    /\ doom' = [e \in Executions |-> IF routineOf[e] = r THEN "free" ELSE doom[e]]
    /\ UNCHANGED <<spare, routineOf, queuedAt, sched, track, thread, clock, crashes, history>>

\* No row refers to the routine any more: it is deleted and all of it committed.
CommitDeletion(r) ==
    /\ deletion[r] = "flushing"
    /\ \A e \in Executions : routineOf[e] = r /\ RowExists(e) => Gone(e)
    /\ routines' = routines \ {r}
    /\ actions' = [actions EXCEPT ![r] = <<>>]
    /\ status' = [e \in Executions |->
                     IF routineOf[e] = r THEN "deleted" ELSE status[e]]
    /\ EndDeletion(r)
    /\ UNCHANGED faults

\* The foreign key refuses, or an error strikes the request: all rows are back.
RollbackDeletion(r) ==
    /\ deletion[r] # "none"
    /\ IF deletion[r] = "refused" THEN UNCHANGED faults
       ELSE faults < MaxFaults /\ faults' = faults + 1
    /\ EndDeletion(r)
    /\ UNCHANGED <<routines, actions, status>>

-----------------------------------------------------------------------------
(* The worker: _poll_loop, _claim_next and RoutineExecutor.run.  A step that *)
(* talks to the database takes its outcome: "ok"; "error", an exception and  *)
(* no effect; or "late", an exception after the commit took effect.          *)

\* Account for the outcome o of a step of worker w.
Suffer(w, o) ==
    IF o = "ok" THEN UNCHANGED <<env, history>>
    ELSE /\ faults < MaxFaults
         /\ faults' = faults + 1
         /\ hit' = IF job[w] = None THEN hit ELSE hit \union {job[w]}
         /\ UNCHANGED <<clock, crashes, ran, passed>>

\* The thread goes to p and forgets everything about the execution it had.
Release(w, p) ==
    /\ pc' = [pc EXCEPT ![w] = p]
    /\ now' = [now EXCEPT ![w] = 0]
    /\ job' = [job EXCEPT ![w] = None]
    /\ plan' = [plan EXCEPT ![w] = <<>>]
    /\ at' = [at EXCEPT ![w] = 1]
    /\ known' = [known EXCEPT ![w] = FALSE]

\* The thread goes to p and keeps its local variables.
Goto(w, p) ==
    /\ pc' = [pc EXCEPT ![w] = p]
    /\ UNCHANGED <<now, job, plan, at, known>>

\* The rows that meet the WHERE clause of worker w's SELECT.
Due(w) == {e \in Executions : status[e] = "queued" /\ sched[e] <= now[w]}

\* Mutant: FOR UPDATE SKIP LOCKED is forgotten.
ReadyIgnoringLocks(w) == {e \in Due(w) : ~ Gone(e)}

\* The rows it may return: due and locked neither by another worker nor by a
\* deletion in flight, none scheduled earlier.
Ready(w) == {e \in Due(w) : ~ Locked(e) /\ ~ Gone(e)}

\* Mutant: ORDER BY scheduled_for is forgotten.
Unordered(w) == Ready(w)

Oldest(w) == {e \in Ready(w) : \A f \in Ready(w) : sched[e] <= sched[f]}

\* _claim_next reads the clock, once, before it queries.
ReadClock(w) ==
    /\ pc[w] = "poll"
    /\ now' = [now EXCEPT ![w] = clock]
    /\ pc' = [pc EXCEPT ![w] = "select"]
    /\ UNCHANGED <<db, job, plan, at, known, env, history>>

\* SELECT ... ORDER BY scheduled_for LIMIT 1 FOR UPDATE SKIP LOCKED finds a row.
Select(w, e) ==
    /\ pc[w] = "select"
    /\ e \in Oldest(w)
    /\ pc' = [pc EXCEPT ![w] = "commit"]
    /\ job' = [job EXCEPT ![w] = e]
    /\ passed' = [passed EXCEPT ![e] = {f \in Due(w) : Gone(f)}]
    /\ UNCHANGED <<db, now, plan, at, known, env, ran, hit>>

\* The SELECT finds nothing, or raises: the loop sleeps and polls again.
SelectNothing(w, o) ==
    /\ pc[w] = "select"
    /\ o = "ok" => Ready(w) = {}
    /\ Release(w, "poll")
    /\ Suffer(w, o)
    /\ UNCHANGED db

\* Mutant: a failed commit is taken for a success.
CommitClaimBlindly(w, o) ==
    /\ pc[w] = "commit"
    /\ status' = IF o = "error" THEN status ELSE [status EXCEPT ![job[w]] = "running"]
    /\ Goto(w, "refresh")
    /\ Suffer(w, o)
    /\ UNCHANGED <<routines, actions, spare, routineOf, queuedAt, sched, track, erasure>>

\* Mutant: the claim is never committed.
ForgetToCommit(w, o) ==
    /\ pc[w] = "commit"
    /\ Release(w, "poll")
    /\ Suffer(w, o)
    /\ UNCHANGED db

\* status and started_at are committed and the row lock is released.  After an
\* exception _claim_next answers None, whatever the database holds.
CommitClaim(w, o) ==
    /\ pc[w] = "commit"
    /\ status' = IF o = "error" THEN status ELSE [status EXCEPT ![job[w]] = "running"]
    /\ IF o = "ok" THEN Goto(w, "refresh") ELSE Release(w, "poll")
    /\ Suffer(w, o)
    /\ UNCHANGED <<routines, actions, spare, routineOf, queuedAt, sched, track, erasure>>

\* commit() expired the row's attributes, so the return statement reads it
\* again: an error, or a row deleted in between, and _claim_next answers None.
Refresh(w, o) ==
    /\ pc[w] = "refresh"
    /\ IF o = "ok" /\ RowExists(job[w]) THEN Goto(w, "load") ELSE Release(w, "poll")
    /\ Suffer(w, o)
    /\ UNCHANGED db

\* _load_actions: the routine's actions as they are now, none if it is gone.
LoadActions(w, o) ==
    /\ pc[w] = "load"
    /\ IF o = "ok"
       THEN /\ pc' = [pc EXCEPT ![w] = "track"]
            /\ plan' = [plan EXCEPT ![w] = actions[routineOf[job[w]]]]
            /\ UNCHANGED <<now, job, at, known>>
       ELSE Goto(w, "failExec")
    /\ Suffer(w, o)
    /\ UNCHANGED db

Planned(w) == {plan[w][i] : i \in 1..Len(plan[w])}
NextAction(w, i) == IF i <= Len(plan[w]) THEN "mark" ELSE "finish"

\* The foreign keys let worker w insert its action_executions rows.
Trackable(w) ==
    /\ RowExists(job[w])
    /\ \A a \in Planned(w) : \E i \in 1..Len(actions[routineOf[job[w]]]) :
            actions[routineOf[job[w]]][i] = a

\* _create_pending_action_executions: one row per planned action, or none; after
\* an exception, late ones included, the executor has no row ids and goes on.  The
\* foreign keys wait for a deletion that has deleted the actions.
TrackActions(w, o) ==
    /\ pc[w] = "track"
    /\ (o # "error" /\ plan[w] # <<>>) => deletion[routineOf[job[w]]] = "none"
    /\ track' = IF o = "error" \/ ~ Trackable(w) THEN track
                ELSE [track EXCEPT ![job[w]] =
                        [a \in Actions |-> IF a \in Planned(w) THEN "pending" ELSE @[a]]]
    /\ known' = [known EXCEPT ![w] = (o = "ok" /\ Trackable(w))]
    /\ pc' = [pc EXCEPT ![w] = NextAction(w, 1)]
    /\ Suffer(w, o)
    /\ UNCHANGED <<routines, actions, spare, status, routineOf, queuedAt, sched, erasure,
                   now, job, plan, at>>

\* _update_action_execution_status for the current action: skipped when the row
\* id is not known, its errors are logged and swallowed.
UpdateTrack(w, s, o) ==
    /\ track' = IF o = "ok" /\ known[w]
                THEN [track EXCEPT ![job[w]][plan[w][at[w]]] = s] ELSE track
    /\ Suffer(w, o)
    /\ UNCHANGED <<routines, actions, spare, status, routineOf, queuedAt, sched, erasure>>

\* The current action is marked running.
MarkRunning(w, o) ==
    /\ pc[w] = "mark"
    /\ UpdateTrack(w, "running", o)
    /\ Goto(w, "body")

\* Mutant: an exception of the body is swallowed.
RunBodySwallowing(w) ==
    /\ pc[w] = "body"
    /\ ran' = [ran EXCEPT ![job[w]] = Append(@, plan[w][at[w]])]
    /\ Goto(w, "done")
    /\ UNCHANGED <<db, env, hit, passed>>

\* Mutant: the exception handler forgets the action that raised.
RunBodyUntracked(w) ==
    /\ pc[w] = "body"
    /\ ran' = [ran EXCEPT ![job[w]] = Append(@, plan[w][at[w]])]
    /\ Goto(w, IF plan[w][at[w]] \in FailingActions THEN "failExec" ELSE "done")
    /\ UNCHANGED <<db, env, hit, passed>>

\* The body of the current action starts, with no connection held; it sleeps or
\* logs, and may raise.
RunBody(w) ==
    /\ pc[w] = "body"
    /\ ran' = [ran EXCEPT ![job[w]] = Append(@, plan[w][at[w]])]
    /\ Goto(w, IF plan[w][at[w]] \notin FailingActions THEN "done"
               ELSE IF known[w] THEN "failAction" ELSE "failExec")
    /\ UNCHANGED <<db, env, hit, passed>>

\* Mutant: an action whose completion cannot be recorded is run again.
MarkCompletedOrRetry(w, o) ==
    /\ pc[w] = "done"
    /\ UpdateTrack(w, "completed", o)
    /\ at' = [at EXCEPT ![w] = IF o = "ok" THEN @ + 1 ELSE @]
    /\ pc' = [pc EXCEPT ![w] = NextAction(w, at'[w])]
    /\ UNCHANGED <<now, job, plan, known>>

\* Mutant: the position is moved the wrong way.
MarkCompletedBackwards(w, o) ==
    /\ pc[w] = "done"
    /\ UpdateTrack(w, "completed", o)
    /\ at' = [at EXCEPT ![w] = @ - 1]
    /\ pc' = [pc EXCEPT ![w] = NextAction(w, at[w])]
    /\ UNCHANGED <<now, job, plan, known>>

\* The current action is marked completed and the loop moves on.
MarkCompleted(w, o) ==
    /\ pc[w] = "done"
    /\ UpdateTrack(w, "completed", o)
    /\ at' = [at EXCEPT ![w] = @ + 1]
    /\ pc' = [pc EXCEPT ![w] = NextAction(w, at[w] + 1)]
    /\ UNCHANGED <<now, job, plan, known>>

\* The exception handler marks the action that raised.
MarkFailed(w, o) ==
    /\ pc[w] = "failAction"
    /\ UpdateTrack(w, "failed", o)
    /\ Goto(w, "failExec")

\* Mutant: the final status is written without looking for the row first.
EndExecutionBlindly(w, s, o) ==
    /\ Gone(job[w]) => o = "error"
    /\ status' = IF o = "ok" THEN [status EXCEPT ![job[w]] = s] ELSE status
    /\ Release(w, "poll")
    /\ Suffer(w, o)
    /\ UNCHANGED <<routines, actions, spare, routineOf, queuedAt, sched, track, erasure>>

\* Mutant: the final status is written again and again until the row has it.
EndExecutionRetrying(w, s, o) ==
    LET found == o = "ok" /\ RowExists(job[w]) IN
    /\ Gone(job[w]) => o = "error"
    /\ status' = IF found THEN [status EXCEPT ![job[w]] = s] ELSE status
    /\ IF found THEN Release(w, "poll") ELSE UNCHANGED thread
    /\ Suffer(w, o)
    /\ UNCHANGED <<routines, actions, spare, routineOf, queuedAt, sched, track, erasure>>

\* Mutant: a final status is lost.
EndExecutionSilently(w, s, o) ==
    /\ Gone(job[w]) => o = "error"
    /\ Release(w, "poll")
    /\ Suffer(w, o)
    /\ UNCHANGED db

\* _update_execution_status with the final status s: a missing row is skipped,
\* errors are logged and swallowed; then the loop polls again.  The UPDATE waits
\* for a deletion that has deleted the row, and fails if that is committed.
EndExecution(w, s, o) ==
    /\ Gone(job[w]) => o = "error"
    /\ status' = IF o = "ok" /\ RowExists(job[w])
                 THEN [status EXCEPT ![job[w]] = s] ELSE status
    /\ Release(w, "poll")
    /\ Suffer(w, o)
    /\ UNCHANGED <<routines, actions, spare, routineOf, queuedAt, sched, track, erasure>>

Complete(w, o) == pc[w] = "finish" /\ EndExecution(w, "completed", o)

Fail(w, o) == pc[w] = "failExec" /\ EndExecution(w, "failed", o)

-----------------------------------------------------------------------------
(* The environment.                                                         *)

Tick ==
    /\ clock < MaxTime
    /\ clock' = clock + 1
    /\ UNCHANGED <<db, thread, faults, crashes, history>>

\* The process dies: the thread's state is lost, an open transaction is rolled
\* back.  Nothing in the code looks for executions left running.
Crash(w) ==
    /\ pc[w] # "down"
    /\ crashes < MaxCrashes
    /\ crashes' = crashes + 1
    /\ hit' = IF job[w] = None THEN hit ELSE hit \union {job[w]}
    /\ Release(w, "down")
    /\ UNCHANGED <<db, clock, faults, ran, passed>>

\* Mutant: a starting worker requeues what it finds running.
StartRequeueing(w) ==
    /\ pc[w] = "down"
    /\ Goto(w, "poll")
    /\ status' = [e \in Executions |->
                     IF status[e] = "running" THEN "queued" ELSE status[e]]
    /\ UNCHANGED <<routines, actions, spare, routineOf, queuedAt, sched, track, erasure>>
    /\ UNCHANGED <<env, history>>

\* A new process imports execution_engine, which starts its worker.
Start(w) ==
    /\ pc[w] = "down"
    /\ Goto(w, "poll")
    /\ UNCHANGED <<db, env, history>>

-----------------------------------------------------------------------------
Caller ==
    \/ \E e \in Executions, r \in Routines, s \in Times : Enqueue(e, r, s)
    \/ \E r \in Routines :
        \/ \E a \in Actions, i \in 1..Len(actions[r])+1 : CreateAction(r, a, i)
        \/ \E i, j \in 1..Len(actions[r]) : SwapActions(r, i, j)
        \/ \E p \in [1..Len(actions[r]) -> 1..Len(actions[r])] : ReorderActions(r, p)
        \/ \E i \in 1..Len(actions[r]) : DeleteAction(r, i)
        \/ BeginDeletion(r)
        \/ CommitDeletion(r)
        \/ RollbackDeletion(r)
    \/ \E e \in Executions : DeleteRow(e)

\* What is left of a deletion in flight.
Deleting(r) ==
    \/ \E e \in Executions : routineOf[e] = r /\ DeleteRow(e)
    \/ CommitDeletion(r)
    \/ RollbackDeletion(r)

Claiming(w) ==
    \/ ReadClock(w)
    \/ \E e \in Executions : Select(w, e)
    \/ \E o \in {"ok", "error"} : SelectNothing(w, o) \/ Refresh(w, o)
    \/ \E o \in {"ok", "error", "late"} : CommitClaim(w, o)

Running(w) ==
    \/ RunBody(w)
    \/ \E o \in {"ok", "error"} :
        \/ LoadActions(w, o)
        \/ MarkRunning(w, o)
        \/ MarkCompleted(w, o)
        \/ MarkFailed(w, o)
        \/ Complete(w, o)
        \/ Fail(w, o)
    \/ \E o \in {"ok", "error", "late"} : TrackActions(w, o)

Next ==
    \/ Caller
    \/ Tick
    \/ \E w \in Workers : Claiming(w) \/ Running(w) \/ Crash(w) \/ Start(w)

Spec == Init /\ [][Next]_vars

\* The thread keeps running while its process lives; what it may wait for is the
\* end of a deletion, which waits for it only while it commits a claim.  The
\* process is restarted after a crash and time passes.
Fairness ==
    /\ WF_vars(Tick)
    /\ \A r \in Routines : WF_vars(Deleting(r))
    /\ \A w \in Workers : WF_vars(Claiming(w) \/ Running(w)) /\ WF_vars(Start(w))

LiveSpec == Spec /\ Fairness

-----------------------------------------------------------------------------
(* Properties.                                                              *)

TypeOK ==
    /\ routines \subseteq Routines
    /\ actions \in [Routines -> Seq(Actions)]
    /\ spare \subseteq Actions
    /\ status \in [Executions -> ExecutionStatus]
    /\ routineOf \in [Executions -> Routines \union {None}]
    /\ queuedAt \in [Executions -> Times]
    /\ sched \in [Executions -> Times]
    /\ track \in [Executions -> [Actions -> ActionStatus]]
    /\ pc \in [Workers -> Pcs]
    /\ now \in [Workers -> Times]
    /\ job \in [Workers -> Executions \union {None}]
    /\ plan \in [Workers -> Seq(Actions)]
    /\ at \in [Workers -> Nat \ {0}]
    /\ known \in [Workers -> BOOLEAN]
    /\ clock \in Times
    /\ faults \in 0..MaxFaults
    /\ crashes \in 0..MaxCrashes
    /\ deletion \in [Routines -> {"none", "flushing", "refused"}]
    /\ doom \in [Executions -> {"free", "listed", "gone"}]
    /\ ran \in [Executions -> Seq(Actions)]
    /\ hit \subseteq Executions
    /\ passed \in [Executions -> SUBSET Executions]

\* No two workers hold the same execution, whether they have only locked its row
\* or are running it (_claim_next's promise, execution_engine.py:272).
SingleHolder ==
    \A v, w \in Workers : v # w /\ job[v] # None => job[v] # job[w]

\* While a worker runs an execution its row says so, whatever other workers,
\* callers, errors and crashes do; only the routine's deletion can take it away.
HeldIsRunning ==
    \A w \in Workers : pc[w] \in RunPcs => status[job[w]] \in {"running", "deleted"}

\* The body of an action starts at most once on behalf of an execution, across
\* retried polls, swallowed errors, crashes and restarts.
EachActionOnce ==
    \A e \in Executions : Distinct(ran[e])

\* The row of an execution only moves forward: queued, running, then one final
\* status that never changes; it may be deleted at any time.
StatusLifecycle ==
    [][\A e \in Executions : status'[e] # status[e] =>
          \/ <<status[e], status'[e]>> \in
                {<<"absent", "queued">>, <<"queued", "running">>,
                 <<"running", "completed">>, <<"running", "failed">>}
          \/ status[e] # "absent" /\ status'[e] = "deleted"]_vars

\* An execution becomes completed only when every action of the list its worker
\* loaded has run, in order, none of them raising, however the routine was edited
\* meanwhile; it becomes failed only when one raised or the list was never loaded.
FinalStatusIsHonest ==
    [][\A e \in Executions : status'[e] # status[e] =>
          /\ status'[e] = "completed" =>
                \E w \in Workers :
                    /\ Executes(w, e)
                    /\ ran[e] = plan[w]
                    /\ Planned(w) \intersect FailingActions = {}
          /\ status'[e] = "failed" =>
                \/ ran[e] # <<>> /\ Last(ran[e]) \in FailingActions
                \/ ran[e] = <<>> /\ e \in hit]_vars

\* What action_executions should say of a finished execution.
TrackAsRan(e) ==
    LET started == {ran[e][i] : i \in 1..Len(ran[e])}
    IN  /\ \A a \in started : track[e][a] =
                IF a \in FailingActions THEN "failed" ELSE "completed"
        /\ \A a \in Actions \ started : track[e][a] \in
                IF status[e] = "completed" THEN {"none"} ELSE {"none", "pending"}

\* Once an execution that no error touched is finished, its action_executions
\* rows tell exactly what ran; or there are none at all, when the routine was
\* edited between the loading of its actions and the creation of the rows.
TrackingIsExact ==
    \A e \in Executions : status[e] \in {"completed", "failed"} /\ e \notin hit =>
        \/ TrackAsRan(e)
        \/ \A a \in Actions : track[e][a] = "none"

\* With one worker, executions start in the order of scheduled_for: one that was
\* in the queue before a later one became ready is not left behind, whatever fails
\* and is retried, unless the deletion of its routine was under way when the later
\* one was selected and SKIP LOCKED passed over its row.
StartsInScheduleOrder ==
    \A e, f \in Executions :
        /\ sched[e] < sched[f]
        /\ queuedAt[e] < sched[f]
        /\ e \notin passed[f]
        /\ status[f] \in {"running", "completed", "failed"}
        => status[e] # "queued"

\* Whatever is in the queue is eventually claimed, or deleted.
QueuedLeavesQueue ==
    \A e \in Executions : status[e] = "queued" ~> status[e] # "queued"

\* A worker always comes back to poll the queue: no routine, error or deletion
\* keeps it for ever.
WorkerComesBack == \A w \in Workers : []<>(pc[w] = "poll")

\* A queued execution ends, however its routine is edited, unless an error or a
\* crash struck it; what strikes others does not hold it up.
UntouchedEnds ==
    \A e \in Executions :
        status[e] = "queued" ~>
            status[e] \in {"completed", "failed", "deleted"} \/ e \in hit

-----------------------------------------------------------------------------
(* The inductive invariant behind the safety properties.                    *)

\* What a worker's program counter says of the row it holds.
Claimed ==
    \A w \in Workers :
        /\ job[w] = None <=> pc[w] \in {"down", "poll", "select"}
        /\ pc[w] = "commit" => status[job[w]] = "queued"

\* A worker and a deletion never hold the lock of one row.
OneLock == \A w \in Workers : pc[w] = "commit" => ~ Gone(job[w])

RoutineKnown == \A e \in Executions : status[e] = "absent" <=> routineOf[e] = None

\* A routine never holds an action twice, or one that is still to be created.
ActionsDistinct ==
    \A r \in Routines :
        Distinct(actions[r]) /\ \A i \in 1..Len(actions[r]) : actions[r][i] \notin spare

NotStarted == \A e \in Executions : status[e] \in {"absent", "queued"} => ran[e] = <<>>

\* Worker w has run the first n actions of its plan, and none of them raised.
HasRun(w, n) ==
    /\ n <= Len(plan[w])
    /\ Len(ran[job[w]]) = n
    /\ \A i \in 1..n : ran[job[w]][i] = plan[w][i] /\ plan[w][i] \notin FailingActions

\* Why worker w may be about to fail its execution.
HasFailed(w) ==
    LET done == ran[job[w]]
    IN  IF done = <<>> THEN job[w] \in hit ELSE done[Len(done)] \in FailingActions

\* How far worker w has come with its plan.
OnCourse(w) ==
    /\ Distinct(plan[w])
    /\ pc[w] \in {"down", "poll", "select"} => at[w] = 1
    /\ pc[w] \in {"commit", "refresh", "load", "track"} => at[w] = 1 /\ ran[job[w]] = <<>>
    /\ pc[w] \in {"mark", "body"} => at[w] <= Len(plan[w]) /\ HasRun(w, at[w] - 1)
    /\ pc[w] = "done" => HasRun(w, at[w])
    /\ pc[w] = "finish" => HasRun(w, Len(plan[w]))
    /\ pc[w] = "failAction" => at[w] <= Len(plan[w])
    /\ pc[w] \in {"failAction", "failExec"} => HasFailed(w)

Progress == \A w \in Workers : OnCourse(w)

IInv ==
    /\ TypeOK
    /\ Claimed
    /\ OneLock
    /\ HeldIsRunning
    /\ SingleHolder
    /\ RoutineKnown
    /\ ActionsDistinct
    /\ NotStarted
    /\ EachActionOnce
    /\ Progress

-----------------------------------------------------------------------------
(* The queue implements the ledger: a worker holds a job from the commit of  *)
(* its claim on.                                                             *)

Holder(e) == IF \E w \in Workers : Executes(w, e)
             THEN CHOOSE w \in Workers : Executes(w, e) ELSE None

Ledger == INSTANCE JobLedger WITH
    Jobs <- Executions, Effects <- Actions, NoWorker <- None,
    holder <- [e \in Executions |-> Holder(e)], work <- ran

\* Each execution is claimed once, worked on by its holder only and ended by its
\* holder only, each action once: every step is one the ledger allows.
ImplementsLedger == Ledger!Spec
=============================================================================
