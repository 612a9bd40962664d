---------------------------- MODULE SchedulerSync ----------------------------
(***************************************************************************)
(* Routines and their APScheduler jobs (backend/routine_services.py,       *)
(* backend/scheduler.py, the lifespan of backend/main.py).  The rows live  *)
(* in PostgreSQL, the jobs in the memory of the API process, and each      *)
(* request changes both, one after the other, while other requests run in  *)
(* other threads.                                                          *)
(*                                                                         *)
(* One step is a statement or a commit of a request's transaction, or one  *)
(* call of the scheduler.  Rows are read committed; an UPDATE or a DELETE  *)
(* locks its row until its transaction ends.  A commit may fail without    *)
(* effect ("error") or after it took effect ("late"); the process may      *)
(* restart at any time and loses its jobs.                                 *)
(***************************************************************************)
EXTENDS Naturals

CONSTANTS
    Requests,     \* request threads
    Routines,     \* primary keys of routines
    Crons,        \* configurations {"cron": ...} with a valid expression
    Intervals,    \* configurations {"seconds": n} with a positive n
    Oversized,    \* the intervals IntervalTrigger overflows on
    NoConfig,     \* schedule_config is null
    EveryMinute,  \* the trigger of an interval routine without "seconds"
    NoJob,        \* no job is registered
    None,         \* no request, no routine
    NewRoutines,  \* the routines clients create
    Updates,      \* the update payloads clients send: records of the given fields
    MaxFaults,    \* bound on database errors
    MaxRestarts   \* bound on restarts

Types == {"manual", "cron", "interval"}
Configs == Crons \union Intervals \union {NoConfig}
Rows == [type: Types, config: Configs, active: BOOLEAN]
Triggers == Crons \union Intervals \union {EveryMinute}

\* validate_routine_schedule.
Valid(t, c) ==
    /\ t = "manual" => c = NoConfig
    /\ t = "cron" => c \in Crons
    /\ t = "interval" => c \in Intervals

\* What RoutineUpdate accepts: a type comes with its configuration.
Acceptable(p) ==
    /\ DOMAIN p \subseteq {"type", "config", "active"}
    /\ "active" \in DOMAIN p => p.active \in BOOLEAN
    /\ "config" \in DOMAIN p => p.config \in Configs
    /\ "type" \in DOMAIN p =>
        /\ p.type \in Types
        /\ IF "config" \in DOMAIN p THEN Valid(p.type, p.config) ELSE p.type = "manual"

ASSUME PayloadAssumption ==
    /\ Oversized \subseteq Intervals
    /\ NewRoutines \subseteq {d \in Rows : Valid(d.type, d.config)}
    /\ \A p \in Updates : Acceptable(p)

ASSUME ConstantAssumption ==
    /\ NoJob \notin Triggers \union {NoConfig}
    /\ NoConfig \notin Crons \union Intervals
    /\ Crons \intersect Intervals = {}
    /\ None \notin Requests \union Routines \union {NoJob} \union Triggers

ASSUME BoundAssumption == MaxFaults \in Nat /\ MaxRestarts \in Nat

VARIABLES
    \* The database.
    exists,    \* is the row absent, present or deleted?
    row,       \* the committed schedule columns
    tracked,   \* routines with action_executions rows: they cannot be deleted
    lock,      \* lock[r]: the request whose open transaction changed row r
    \* The process.
    up,        \* is the application running?
    job,       \* the trigger of job "routine_<r>", NoJob if there is none
    \* The requests.
    pc, target,
    loaded,    \* the row as the request read it: update_routine's snapshot
    next,      \* the row with the payload merged in, in the session's memory
    did,       \* scheduler_action
    \* The environment and the history.
    faults, restarts,
    disturbed  \* routines something happened to that the code does not repair

database == <<exists, row, tracked, lock>>
request == <<pc, target, loaded, next, did>>
vars == <<database, up, job, request, faults, restarts, disturbed>>

Blank == [type |-> "manual", config |-> NoConfig, active |-> FALSE]

Idle(q) == pc[q] = "idle"
Present(r) == exists[r] = "present"
Busy(r) == \E q \in Requests : ~ Idle(q) /\ target[q] = r

\* A routine in this state should have a job.
Scheduled(d) == d.active /\ d.type # "manual"

\* register_routine does not raise.
Registrable(d) ==
    /\ d.type = "cron" => d.config \in Crons
    /\ d.type = "interval" => d.config \notin Oversized

TriggerOf(d) ==
    IF d.type = "cron" \/ d.config \in Intervals THEN d.config ELSE EveryMinute

\* register_routine: add or replace the job, nothing for a manual routine.
Registered(r, d) ==
    IF d.type = "manual" THEN job ELSE [job EXCEPT ![r] = TriggerOf(d)]

\* Mutant: the job's slot is emptied, the job is not removed.
UnregisteredByNull(r) == [job EXCEPT ![r] = None]

\* unregister_routine: remove the job if there is one.
Unregistered(r) == [job EXCEPT ![r] = NoJob]

\* What the rows say a routine's job should be.
Expected(r) ==
    IF Present(r) /\ Scheduled(row[r]) THEN TriggerOf(row[r]) ELSE NoJob

-----------------------------------------------------------------------------
Init ==
    /\ exists = [r \in Routines |-> "absent"]
    /\ row = [r \in Routines |-> Blank]
    /\ tracked = {}
    /\ lock = [r \in Routines |-> None]
    /\ up = TRUE
    /\ job = [r \in Routines |-> NoJob]
    /\ pc = [q \in Requests |-> "idle"]
    /\ target = [q \in Requests |-> None]
    /\ loaded = [q \in Requests |-> Blank]
    /\ next = [q \in Requests |-> Blank]
    /\ did = [q \in Requests |-> "nothing"]
    /\ faults = 0
    /\ restarts = 0
    /\ disturbed = {}

-----------------------------------------------------------------------------
(* Requests.                                                                *)

\* Request q starts on routine r, having read the row d.
Begin(q, r, d, p) ==
    /\ up
    /\ Idle(q)
    /\ pc' = [pc EXCEPT ![q] = p]
    /\ target' = [target EXCEPT ![q] = r]
    /\ loaded' = [loaded EXCEPT ![q] = d]
    /\ disturbed' = IF Busy(r) THEN disturbed \union {r} ELSE disturbed

Goto(q, p) ==
    /\ pc' = [pc EXCEPT ![q] = p]
    /\ UNCHANGED <<target, loaded, next, did>>

\* The response is sent, its session closed.
End(q) ==
    /\ pc' = [pc EXCEPT ![q] = "idle"]
    /\ target' = [target EXCEPT ![q] = None]
    /\ loaded' = [loaded EXCEPT ![q] = Blank]
    /\ next' = [next EXCEPT ![q] = Blank]
    /\ did' = [did EXCEPT ![q] = "nothing"]

\* A database call of a request may fail.
Outcome(o) == IF o = "ok" THEN UNCHANGED faults
              ELSE faults < MaxFaults /\ faults' = faults + 1

\* Routine r is disturbed if c.
Disturb(r, c) == disturbed' = IF c THEN disturbed \union {r} ELSE disturbed

\* create_routine: the row is committed first.
Create(q, r, d, o) ==
    /\ exists[r] = "absent"
    /\ Outcome(o)
    /\ IF o = "ok" THEN Begin(q, r, d, "refresh")
       ELSE /\ up
            /\ Idle(q)
            /\ Disturb(r, o = "late" /\ Scheduled(d))
            /\ UNCHANGED <<pc, target, loaded>>
    /\ IF o = "error" THEN UNCHANGED <<exists, row>>
       ELSE /\ exists' = [exists EXCEPT ![r] = "present"]
            /\ row' = [row EXCEPT ![r] = d]
    /\ UNCHANGED <<tracked, lock, up, job, next, did, restarts>>

\* session.refresh reads the row back, as others may have left it.
RefreshCreated(q, o) ==
    LET r == target[q] IN
    /\ pc[q] = "refresh"
    /\ Outcome(o)
    /\ IF o = "ok" /\ Present(r)
       THEN /\ IF Scheduled(row[r])
               THEN /\ pc' = [pc EXCEPT ![q] = "register"]
                    /\ loaded' = [loaded EXCEPT ![q] = row[r]]
                    /\ UNCHANGED <<target, next, did>>
               ELSE End(q)
            /\ UNCHANGED disturbed
       ELSE End(q) /\ Disturb(r, Expected(r) # NoJob)
    /\ UNCHANGED <<database, up, job, restarts>>

\* Only then is the job registered; when that raises the row stays.
RegisterCreated(q) ==
    LET r == target[q] IN
    /\ pc[q] = "register"
    /\ job' = IF Registrable(loaded[q]) THEN Registered(r, loaded[q]) ELSE job
    /\ Disturb(r, ~ Registrable(loaded[q]))
    /\ End(q)
    /\ UNCHANGED <<database, up, faults, restarts>>

\* The row with the given fields of the payload set; a routine made manual has
\* no configuration.
Merged(d, p) ==
    LET Field(f) == IF f \in DOMAIN p THEN p[f] ELSE d[f]
    IN  [type |-> Field("type"),
         config |-> IF "type" \in DOMAIN p /\ p["type"] = "manual" THEN NoConfig ELSE Field("config"),
         active |-> Field("active")]

\* Mutant: only the payload is validated, not the merged schedule.
ReadForUpdateUnchecked(q, r, p) ==
    /\ Present(r)
    /\ LET d == Merged(row[r], p) IN
        /\ d # row[r]
        /\ next' = [next EXCEPT ![q] = d]
    /\ Begin(q, r, row[r], "flush")
    /\ UNCHANGED <<database, up, job, did, faults, restarts>>

\* update_routine reads the row, merges and validates.  An invalid merge is
\* refused and one that changes nothing has no effect.
ReadForUpdate(q, r, p) ==
    /\ Present(r)
    /\ LET d == Merged(row[r], p) IN
        /\ Valid(d.type, d.config)
        /\ d # row[r]
        /\ next' = [next EXCEPT ![q] = d]
    /\ Begin(q, r, row[r], "flush")
    /\ UNCHANGED <<database, up, job, did, faults, restarts>>

\* session.flush: the UPDATE waits for the row lock and takes it; it fails when
\* the row is gone.
Flush(q, o) ==
    LET r == target[q] IN
    /\ pc[q] = "flush"
    /\ lock[r] = None
    /\ Outcome(o)
    /\ IF o = "ok" /\ Present(r)
       THEN lock' = [lock EXCEPT ![r] = q] /\ Goto(q, "sync")
       ELSE UNCHANGED lock /\ End(q)
    /\ UNCHANGED <<exists, row, tracked, up, job, restarts, disturbed>>

\* What update_routine has the scheduler do, going by what it read.
Action(q) ==
    LET old == loaded[q]
        new == next[q]
    IN  IF old.active /\ ~ new.active THEN "unregister"
        ELSE IF ~ Scheduled(new) THEN "nothing"
        ELSE IF ~ old.active THEN "register"
        ELSE IF old.type # new.type \/ old.config # new.config THEN "replace"
        ELSE "nothing"

\* The scheduler is changed before the commit.  When register_routine raises,
\* the transaction is rolled back and nothing was done to the job.  An active
\* routine that becomes manual keeps the job it had.
SyncScheduler(q) ==
    LET r == target[q] IN
    /\ pc[q] = "sync"
    /\ IF Action(q) \in {"register", "replace"} /\ ~ Registrable(next[q])
       THEN /\ End(q)
            /\ lock' = [lock EXCEPT ![r] = None]
            /\ UNCHANGED job
       ELSE /\ did' = [did EXCEPT ![q] = Action(q)]
            /\ pc' = [pc EXCEPT ![q] = "commit"]
            /\ job' = CASE Action(q) = "nothing" -> job
                        [] Action(q) = "unregister" -> Unregistered(r)
                        [] OTHER -> Registered(r, next[q])
            /\ UNCHANGED <<lock, target, loaded, next>>
    /\ UNCHANGED <<exists, row, tracked, up, faults, restarts, disturbed>>

\* The update makes an active scheduled routine manual and leaves it active.
KeepsJob(q) == Scheduled(loaded[q]) /\ next[q].active /\ next[q].type = "manual"

\* The columns the UPDATE sets: those whose value differs from what was read.
Written(q) ==
    LET old == loaded[q]
        new == next[q]
        now == row[target[q]]
    IN  [type |-> IF new.type # old.type THEN new.type ELSE now.type,
         config |-> IF new.config # old.config THEN new.config ELSE now.config,
         active |-> IF new.active # old.active THEN new.active ELSE now.active]

\* Mutant: the row lock outlives a failed commit.
CommitUpdateLeaking(q, o) ==
    LET r == target[q] IN
    /\ pc[q] = "commit"
    /\ Outcome(o)
    /\ row' = IF o = "error" THEN row ELSE [row EXCEPT ![r] = Written(q)]
    /\ lock' = IF o = "ok" THEN [lock EXCEPT ![r] = None] ELSE lock
    /\ IF o = "ok" \/ did[q] = "nothing" THEN End(q) ELSE Goto(q, "restore")
    /\ Disturb(r, (o = "late" /\ did[q] # "nothing") \/ (o # "error" /\ KeepsJob(q)))
    /\ UNCHANGED <<exists, tracked, up, job, restarts>>

\* Mutant: the scheduler is not restored after a failed commit.
CommitUpdateOnly(q, o) ==
    LET r == target[q] IN
    /\ pc[q] = "commit"
    /\ Outcome(o)
    /\ row' = IF o = "error" THEN row ELSE [row EXCEPT ![r] = Written(q)]
    /\ lock' = [lock EXCEPT ![r] = None]
    /\ End(q)
    /\ Disturb(r, (o = "late" /\ did[q] # "nothing") \/ (o # "error" /\ KeepsJob(q)))
    /\ UNCHANGED <<exists, tracked, up, job, restarts>>

\* session.commit; after an exception the session is rolled back and, if the
\* scheduler was changed, its state restored.
CommitUpdate(q, o) ==
    LET r == target[q] IN
    /\ pc[q] = "commit"
    /\ Outcome(o)
    /\ row' = IF o = "error" THEN row ELSE [row EXCEPT ![r] = Written(q)]
    /\ lock' = [lock EXCEPT ![r] = None]
    /\ IF o = "ok" \/ did[q] = "nothing" THEN End(q) ELSE Goto(q, "restore")
    /\ Disturb(r, (o = "late" /\ did[q] # "nothing") \/ (o # "error" /\ KeepsJob(q)))
    /\ UNCHANGED <<exists, tracked, up, job, restarts>>

\* restore_previous_scheduler_state: the old job is put back, or the new one
\* removed if the routine was inactive; that takes the routine's id, which the
\* rollback expired, from the database again.  A routine that was active and
\* manual keeps the job of the update that failed.
Restore(q, o) ==
    LET r == target[q]
        old == loaded[q]
    IN
    /\ pc[q] = "restore"
    /\ Outcome(o)
    /\ o # "ok" => ~ old.active
    /\ job' = IF Scheduled(old) THEN IF Registrable(old) THEN Registered(r, old) ELSE job
              ELSE IF ~ old.active /\ o = "ok" /\ Present(r) THEN Unregistered(r)
              ELSE job
    /\ Disturb(r, o # "ok" \/ (did[q] # "unregister" /\ ~ Scheduled(old) /\ old.active))
    /\ End(q)
    /\ UNCHANGED <<database, up, restarts>>

\* delete_routine: the routine is found,
ReadForDelete(q, r) ==
    /\ Present(r)
    /\ Begin(q, r, row[r], "unregister")
    /\ UNCHANGED <<database, up, job, next, did, faults, restarts>>

\* its job removed,
Unregister(q) ==
    /\ pc[q] = "unregister"
    /\ job' = Unregistered(target[q])
    /\ Goto(q, "delete")
    /\ UNCHANGED <<database, up, faults, restarts, disturbed>>

\* and its row deleted, once no other transaction has it locked.  The foreign key
\* of action_executions makes that fail for a routine that has run, and nobody
\* puts the job back.
Delete(q, o) ==
    LET r == target[q] IN
    /\ pc[q] = "delete"
    /\ lock[r] = None
    /\ Outcome(o)
    /\ IF o = "error" \/ r \in tracked
       THEN UNCHANGED exists /\ Disturb(r, TRUE)
       ELSE exists' = [exists EXCEPT ![r] = "deleted"] /\ UNCHANGED disturbed
    /\ End(q)
    /\ UNCHANGED <<row, tracked, lock, up, job, restarts>>

-----------------------------------------------------------------------------
(* The environment.                                                         *)

\* The queue worker has run an action of r, by hand or on schedule.
Execute(r) ==
    /\ up
    /\ Present(r)
    /\ tracked' = tracked \union {r}
    /\ UNCHANGED <<exists, row, lock, up, job, request, faults, restarts, disturbed>>

\* The process stops: jobs and requests are lost, transactions rolled back.
Stop ==
    /\ up
    /\ restarts < MaxRestarts
    /\ restarts' = restarts + 1
    /\ up' = FALSE
    /\ job' = [r \in Routines |-> NoJob]
    /\ lock' = [r \in Routines |-> None]
    /\ pc' = [q \in Requests |-> "idle"]
    /\ target' = [q \in Requests |-> None]
    /\ loaded' = [q \in Requests |-> Blank]
    /\ next' = [q \in Requests |-> Blank]
    /\ did' = [q \in Requests |-> "nothing"]
    /\ disturbed' = {}
    /\ UNCHANGED <<exists, row, tracked, faults>>

\* The lifespan of the application registers a job for every active routine that
\* is not manual, then starts the scheduler.  If one cannot be registered the
\* exception ends the start-up.
Boot ==
    /\ ~ up
    /\ \A r \in Routines : Expected(r) # NoJob => Registrable(row[r])
    /\ up' = TRUE
    /\ job' = [r \in Routines |-> Expected(r)]
    /\ UNCHANGED <<database, request, faults, restarts, disturbed>>

-----------------------------------------------------------------------------
Outcomes == {"ok", "error", "late"}

\* A client sends request q.
Arrive(q) ==
    \E r \in Routines :
        \/ \E d \in NewRoutines, o \in Outcomes : Create(q, r, d, o)
        \/ \E p \in Updates : ReadForUpdate(q, r, p)
        \/ ReadForDelete(q, r)

\* Request q goes on.
Proceed(q) ==
    \/ RegisterCreated(q)
    \/ SyncScheduler(q)
    \/ Unregister(q)
    \/ \E o \in {"ok", "error"} : RefreshCreated(q, o) \/ Flush(q, o) \/ Restore(q, o)
    \/ \E o \in Outcomes : CommitUpdate(q, o) \/ Delete(q, o)

Next ==
    \/ \E q \in Requests : Arrive(q) \/ Proceed(q)
    \/ \E r \in Routines : Execute(r)
    \/ Stop
    \/ Boot

Spec == Init /\ [][Next]_vars

\* A thread runs while its process lives; PostgreSQL grants a row lock in the end.
LiveSpec == Spec /\ \A q \in Requests : SF_vars(Proceed(q))

-----------------------------------------------------------------------------
(* Properties.                                                              *)

Pcs == {"idle", "refresh", "register", "flush", "sync", "commit", "restore",
        "unregister", "delete"}

TypeOK ==
    /\ exists \in [Routines -> {"absent", "present", "deleted"}]
    /\ row \in [Routines -> Rows]
    /\ tracked \subseteq Routines
    /\ lock \in [Routines -> Requests \union {None}]
    /\ up \in BOOLEAN
    /\ job \in [Routines -> Triggers \union {NoJob}]
    /\ pc \in [Requests -> Pcs]
    /\ target \in [Requests -> Routines \union {None}]
    /\ loaded \in [Requests -> Rows]
    /\ next \in [Requests -> Rows]
    /\ did \in [Requests -> {"nothing", "register", "replace", "unregister"}]
    /\ faults \in 0..MaxFaults
    /\ restarts \in 0..MaxRestarts
    /\ disturbed \subseteq Routines

\* Nobody is busy with routine r.
Quiet(r) == up /\ ~ Busy(r)

\* "This avoids ... drifting the database away from the scheduler's registered
\* jobs" (docs/architecture.md:47).
JobsMatchRows == \A r \in Routines : Quiet(r) => job[r] = Expected(r)

\* The part of that promise the code keeps: between requests a routine has the
\* job its row calls for, whatever failed on the way and however often the
\* process restarted, unless one of the listed things disturbed it: requests
\* that overlapped, an uncertain commit, an active routine made manual or an
\* active manual one whose update failed, a deletion that failed, an overflow.
JobsMatchUndisturbedRows ==
    \A r \in Routines \ disturbed : Quiet(r) => job[r] = Expected(r)

\* "Updates now validate the merged post-update schedule before commit ... This
\* avoids persisting invalid routine state" (docs/architecture.md:45).
RowsAreValid == \A r \in Routines : Valid(row[r].type, row[r].config)

\* A request never waits for ever: every row lock is given back, by whatever
\* path the request that took it ends.
RequestsEnd == \A q \in Requests : ~ Idle(q) ~> Idle(q)
=============================================================================
