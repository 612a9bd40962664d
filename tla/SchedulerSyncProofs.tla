------------------------ MODULE SchedulerSyncProofs ------------------------
(***************************************************************************)
(* Proofs about SchedulerSync, for any number of requests and routines,    *)
(* any payloads, failures and restarts: its types, the jobs of             *)
(* undisturbed routines, and the validity of rows when requests come one   *)
(* at a time.                                                              *)
(***************************************************************************)
EXTENDS SchedulerSync, TLAPS

-----------------------------------------------------------------------------
(* Types.                                                                   *)

RequestTypes ==
    /\ pc \in [Requests -> Pcs]
    /\ target \in [Requests -> Routines \union {None}]
    /\ loaded \in [Requests -> Rows]
    /\ next \in [Requests -> Rows]
    /\ did \in [Requests -> {"nothing", "register", "replace", "unregister"}]

\* A request has a routine while it is served, and there is none without a process.
Targets ==
    /\ \A q \in Requests : Idle(q) <=> target[q] = None
    /\ ~ up => \A q \in Requests : Idle(q)

Typed == TypeOK /\ Targets

LEMMA TypedFacts ==
    ASSUME Typed
    PROVE  /\ TypeOK /\ RequestTypes /\ Targets
           /\ \A q \in Requests : target[q] \in Routines <=> ~ Idle(q)
           /\ \A d \in Rows : /\ d.type \in Types /\ d.config \in Configs /\ d.active \in BOOLEAN
           /\ Blank \in Rows
BY ConstantAssumption DEF Typed, TypeOK, RequestTypes, Targets, Rows, Blank, Types, Configs

LEMMA InitTyped == Init => Typed
BY ConstantAssumption, BoundAssumption
   DEF Init, Typed, TypeOK, Targets, Idle, Pcs, Rows, Blank, Types, Configs

\* What register_routine registers is a trigger.
LEMMA TriggerTyped ==
    ASSUME NEW d \in Rows, Registrable(d)
    PROVE  TriggerOf(d) \in Triggers
BY DEF Registrable, TriggerOf, Triggers, Rows, Types, Configs

LEMMA JobTyped ==
    ASSUME Typed, NEW r \in Routines, NEW d \in Rows
    PROVE  /\ Registrable(d) => Registered(r, d) \in [Routines -> Triggers \union {NoJob}]
           /\ Unregistered(r) \in [Routines -> Triggers \union {NoJob}]
BY TriggerTyped DEF Typed, TypeOK, Registered, Unregistered

\* The merged row is a row.
LEMMA MergedTyped ==
    ASSUME NEW d \in Rows, NEW p, Acceptable(p)
    PROVE  Merged(d, p) \in Rows
<1>1. d.type \in Types /\ d.config \in Configs /\ d.active \in BOOLEAN
  BY DEF Rows
<1>2. d["type"] = d.type /\ d["config"] = d.config /\ d["active"] = d.active
  OBVIOUS
<1> QED BY <1>1, <1>2 DEF Acceptable, Merged, Rows, Configs

LEMMA WrittenTyped ==
    ASSUME Typed, NEW q \in Requests, ~ Idle(q)
    PROVE  Written(q) \in Rows
BY TypedFacts DEF Written, Rows, RequestTypes, TypeOK

\* A request that begins, goes on or ends keeps its types.
LEMMA GotoTyped ==
    ASSUME Typed, NEW q \in Requests, NEW p \in Pcs \ {"idle"}, ~ Idle(q), Goto(q, p)
    PROVE  RequestTypes' /\ \A s \in Requests : (Idle(s) <=> target[s] = None)'
BY TypedFacts DEF Goto, RequestTypes, Targets, Idle

LEMMA EndTyped ==
    ASSUME Typed, NEW q \in Requests, End(q)
    PROVE  RequestTypes' /\ \A s \in Requests : (Idle(s) <=> target[s] = None)'
BY TypedFacts DEF End, RequestTypes, Targets, Idle, Pcs

LEMMA BeginTyped ==
    ASSUME Typed, NEW q \in Requests, NEW r \in Routines, NEW d \in Rows, NEW p \in Pcs \ {"idle"},
           Begin(q, r, d, p), next' \in [Requests -> Rows], UNCHANGED did
    PROVE  /\ RequestTypes' /\ \A s \in Requests : (Idle(s) <=> target[s] = None)'
           /\ disturbed' \subseteq Routines
BY TypedFacts, ConstantAssumption DEF Begin, RequestTypes, Targets, Idle, Typed, TypeOK

LEMMA StepTyped == Typed /\ [Next]_vars => Typed'
<1> SUFFICES ASSUME Typed, [Next]_vars
             PROVE  Typed'
  OBVIOUS
<1> USE TypedFacts
<1> DEFINE Counted == faults' \in 0..MaxFaults
<1>0. \A o : Outcome(o) => Counted
  BY BoundAssumption DEF Outcome, TypeOK
<1>1. ASSUME NEW q \in Requests, NEW r \in Routines, NEW d \in NewRoutines, NEW o \in Outcomes, Create(q, r, d, o)
      PROVE  Typed'
  <2>1. d \in Rows
    BY PayloadAssumption
  <2>2. RequestTypes' /\ (\A s \in Requests : (Idle(s) <=> target[s] = None)') /\ disturbed' \subseteq Routines
    <3>1. CASE o = "ok"
      BY <1>1, <2>1, <3>1, BeginTyped DEF Create, RequestTypes, Pcs
    <3>2. CASE o # "ok"
      BY <1>1, <3>2 DEF Create, RequestTypes, Targets, Idle, Disturb, TypeOK
    <3> QED BY <3>1, <3>2
  <2>3. up /\ UNCHANGED <<tracked, lock, up, job, restarts>>
    BY <1>1 DEF Create, Begin
  <2>4. /\ exists' \in [Routines -> {"absent", "present", "deleted"}]
        /\ row' \in [Routines -> Rows]
    BY <1>1, <2>1 DEF Create, TypeOK
  <2>5. Counted
    BY <1>0, <1>1 DEF Create
  <2> QED BY <2>2, <2>3, <2>4, <2>5 DEF Typed, TypeOK, Targets, RequestTypes
<1>2. ASSUME NEW q \in Requests, NEW r \in Routines, NEW p \in Updates, ReadForUpdate(q, r, p)
      PROVE  Typed'
  <2>1. Merged(row[r], p) \in Rows /\ row[r] \in Rows
    BY MergedTyped, PayloadAssumption DEF TypeOK
  <2>2. RequestTypes' /\ (\A s \in Requests : (Idle(s) <=> target[s] = None)') /\ disturbed' \subseteq Routines
    BY <1>2, <2>1, BeginTyped DEF ReadForUpdate, RequestTypes, Pcs
  <2>3. up /\ UNCHANGED <<database, up, job, faults, restarts>>
    BY <1>2 DEF ReadForUpdate, Begin
  <2> QED BY <2>2, <2>3 DEF database, Typed, TypeOK, Targets, RequestTypes
<1>3. ASSUME NEW q \in Requests, NEW r \in Routines, ReadForDelete(q, r)
      PROVE  Typed'
  <2>2. RequestTypes' /\ (\A s \in Requests : (Idle(s) <=> target[s] = None)') /\ disturbed' \subseteq Routines
    BY <1>3, BeginTyped DEF ReadForDelete, RequestTypes, Pcs, TypeOK
  <2>3. up /\ UNCHANGED <<database, up, job, faults, restarts>>
    BY <1>3 DEF ReadForDelete, Begin
  <2> QED BY <2>2, <2>3 DEF database, Typed, TypeOK, Targets, RequestTypes
<1>4. ASSUME NEW q \in Requests, NEW o \in {"ok", "error"}, RefreshCreated(q, o)
      PROVE  Typed'
  <2>1. ~ Idle(q) /\ target[q] \in Routines /\ up
    BY <1>4 DEF RefreshCreated, Idle, Targets
  <2>2. RequestTypes' /\ (\A s \in Requests : (Idle(s) <=> target[s] = None)')
    <3>1. CASE End(q)
      BY <3>1, EndTyped
    <3>2. CASE ~ End(q)
      BY <1>4, <2>1, <3>2 DEF RefreshCreated, RequestTypes, Targets, Idle, Pcs, TypeOK
    <3> QED BY <3>1, <3>2
  <2> QED BY <1>0, <1>4, <2>1, <2>2 DEF RefreshCreated, Disturb, Typed, TypeOK, Targets, RequestTypes, database
<1>5. ASSUME NEW q \in Requests, RegisterCreated(q)
      PROVE  Typed'
  <2>1. ~ Idle(q) /\ target[q] \in Routines /\ up
    BY <1>5 DEF RegisterCreated, Idle, Targets
  <2>2. job' \in [Routines -> Triggers \union {NoJob}]
    BY <1>5, <2>1, JobTyped DEF RegisterCreated, RequestTypes, TypeOK
  <2> QED BY <1>5, <2>1, <2>2, EndTyped DEF RegisterCreated, Disturb, Typed, TypeOK, Targets, RequestTypes, database
<1>6. ASSUME NEW q \in Requests, NEW o \in {"ok", "error"}, Flush(q, o)
      PROVE  Typed'
  <2>1. ~ Idle(q) /\ target[q] \in Routines /\ up
    BY <1>6 DEF Flush, Idle, Targets
  <2>2. RequestTypes' /\ (\A s \in Requests : (Idle(s) <=> target[s] = None)')
    BY <1>6, <2>1, EndTyped, GotoTyped DEF Flush, Pcs
  <2>3. Counted /\ UNCHANGED <<exists, row, tracked, up, job, restarts, disturbed>>
    BY <1>0, <1>6 DEF Flush
  <2>4. lock' \in [Routines -> Requests \union {None}]
    BY <1>6 DEF Flush, TypeOK
  <2> QED BY <2>1, <2>2, <2>3, <2>4 DEF Typed, TypeOK, Targets, RequestTypes
<1>7. ASSUME NEW q \in Requests, SyncScheduler(q)
      PROVE  Typed'
  <2>1. ~ Idle(q) /\ target[q] \in Routines /\ up
    BY <1>7 DEF SyncScheduler, Idle, Targets
  <2>2. Action(q) \in {"nothing", "register", "replace", "unregister"}
    BY DEF Action
  <2>3. RequestTypes' /\ (\A s \in Requests : (Idle(s) <=> target[s] = None)')
    <3>1. CASE End(q)
      BY <3>1, EndTyped
    <3>2. CASE ~ End(q)
      BY <1>7, <2>1, <2>2, <3>2 DEF SyncScheduler, RequestTypes, Targets, Idle, Pcs
    <3> QED BY <3>1, <3>2
  <2>4. job' \in [Routines -> Triggers \union {NoJob}]
    BY <1>7, <2>1, <2>2, JobTyped DEF SyncScheduler, RequestTypes, TypeOK
  <2>5. UNCHANGED <<exists, row, tracked, up, faults, restarts, disturbed>>
    BY <1>7 DEF SyncScheduler
  <2>6. lock' \in [Routines -> Requests \union {None}]
    BY <1>7 DEF SyncScheduler, TypeOK
  <2> QED BY <2>1, <2>3, <2>4, <2>5, <2>6 DEF Typed, TypeOK, Targets, RequestTypes
<1>8. ASSUME NEW q \in Requests, NEW o \in Outcomes, CommitUpdate(q, o)
      PROVE  Typed'
  <2>1. ~ Idle(q) /\ target[q] \in Routines /\ up /\ Written(q) \in Rows
    BY <1>8, WrittenTyped DEF CommitUpdate, Idle, Targets
  <2>2. RequestTypes' /\ (\A s \in Requests : (Idle(s) <=> target[s] = None)')
    BY <1>8, <2>1, EndTyped, GotoTyped DEF CommitUpdate, Pcs
  <2> QED BY <1>0, <1>8, <2>1, <2>2 DEF CommitUpdate, Disturb, Typed, TypeOK, Targets, RequestTypes
<1>9. ASSUME NEW q \in Requests, NEW o \in {"ok", "error"}, Restore(q, o)
      PROVE  Typed'
  <2>1. ~ Idle(q) /\ target[q] \in Routines /\ up
    BY <1>9 DEF Restore, Idle, Targets
  <2>2. job' \in [Routines -> Triggers \union {NoJob}]
    BY <1>9, <2>1, JobTyped DEF Restore, RequestTypes, TypeOK
  <2> QED BY <1>0, <1>9, <2>1, <2>2, EndTyped DEF Restore, Disturb, Typed, TypeOK, Targets, RequestTypes, database
<1>10. ASSUME NEW q \in Requests, Unregister(q)
       PROVE  Typed'
  <2>1. ~ Idle(q) /\ target[q] \in Routines /\ up
    BY <1>10 DEF Unregister, Idle, Targets
  <2>2. job' \in [Routines -> Triggers \union {NoJob}]
    BY <1>10, <2>1 DEF Unregister, Unregistered, TypeOK
  <2>3. RequestTypes' /\ (\A s \in Requests : (Idle(s) <=> target[s] = None)')
    BY <1>10, <2>1, GotoTyped DEF Unregister, Pcs
  <2> QED BY <1>10, <2>1, <2>2, <2>3 DEF Unregister, Typed, TypeOK, Targets, RequestTypes, database
<1>11. ASSUME NEW q \in Requests, NEW o \in Outcomes, Delete(q, o)
       PROVE  Typed'
  <2>1. ~ Idle(q) /\ target[q] \in Routines /\ up
    BY <1>11 DEF Delete, Idle, Targets
  <2>2. RequestTypes' /\ (\A s \in Requests : (Idle(s) <=> target[s] = None)')
    BY <1>11, EndTyped DEF Delete
  <2>3. exists' \in [Routines -> {"absent", "present", "deleted"}]
    BY <1>11 DEF Delete, TypeOK
  <2>4. Counted /\ disturbed' \subseteq Routines
    BY <1>0, <1>11, <2>1 DEF Delete, Disturb, TypeOK
  <2>5. UNCHANGED <<row, tracked, lock, up, job, restarts>>
    BY <1>11 DEF Delete
  <2> QED BY <2>1, <2>2, <2>3, <2>4, <2>5 DEF Typed, TypeOK, Targets, RequestTypes
<1>12. ASSUME NEW r \in Routines, Execute(r)
       PROVE  Typed'
  BY <1>12 DEF Execute, request, Typed, TypeOK, Targets, Idle
<1>13. CASE Stop
  <2>1. restarts' \in 0..MaxRestarts
    BY <1>13, BoundAssumption DEF Stop, TypeOK
  <2>2. RequestTypes' /\ Targets'
    BY <1>13 DEF Stop, RequestTypes, Targets, Idle, Pcs
  <2> QED BY <1>13, <2>1, <2>2 DEF Stop, Typed, TypeOK, RequestTypes
<1>14. CASE Boot
  <2>1. \A r \in Routines : Expected(r) \in Triggers \union {NoJob}
    BY <1>14, TriggerTyped DEF Boot, Expected, TypeOK
  <2> QED BY <1>14, <2>1 DEF Boot, database, request, Typed, TypeOK, Targets, Idle
<1>15. CASE UNCHANGED vars
  BY <1>15 DEF vars, database, request, Typed, TypeOK, Targets, Idle
<1>16. ASSUME NEW q \in Requests, Arrive(q)
       PROVE  Typed'
  BY <1>1, <1>2, <1>3, <1>16 DEF Arrive
<1>17. ASSUME NEW q \in Requests, Proceed(q)
       PROVE  Typed'
  BY <1>4, <1>5, <1>6, <1>7, <1>8, <1>9, <1>10, <1>11, <1>17 DEF Proceed
<1> QED BY <1>12, <1>13, <1>14, <1>15, <1>16, <1>17 DEF Next

\* Every variable keeps its type.
THEOREM TypeCorrect == Spec => []TypeOK
<1>1. Typed => TypeOK
  BY DEF Typed
<1> QED BY <1>1, InitTyped, StepTyped, PTL DEF Spec

-----------------------------------------------------------------------------
(* Rows, when requests come one at a time.                                  *)

\* The row a lone request writes is the one it validated.
Validated ==
    \A q \in Requests :
        pc[q] \in {"flush", "sync", "commit"} =>
            loaded[q] = row[target[q]] /\ Valid(next[q].type, next[q].config)

\* update_routine validates the merged schedule (routine_services.py:312): with
\* one request at a time no failure, restart or order of calls makes a row invalid.
THEOREM LoneRequestsKeepRowsValid ==
    ASSUME NEW q0, Requests = {q0}
    PROVE  Spec => []RowsAreValid
<1> DEFINE IInv == RowsAreValid /\ Validated
<1>1. Init => IInv
  BY DEF Init, RowsAreValid, Validated, Valid, Blank
<1>2. Typed /\ IInv /\ [Next]_vars => IInv'
  <2> SUFFICES ASSUME Typed, IInv, [Next]_vars
               PROVE  IInv'
    OBVIOUS
  <2>1. RequestTypes /\ Targets /\ row \in [Routines -> Rows] /\ None \notin Routines
    BY TypedFacts, ConstantAssumption DEF TypeOK
  <2> USE DEF RowsAreValid, Validated, RequestTypes, Targets, Idle
  <2>2. ASSUME NEW q \in Requests, Arrive(q)
        PROVE  IInv'
    <3>1. ASSUME NEW r \in Routines, NEW d \in NewRoutines, NEW o \in Outcomes, Create(q, r, d, o)
          PROVE  IInv'
      BY <2>1, <3>1, PayloadAssumption DEF Create, Begin
    <3>2. ASSUME NEW r \in Routines, NEW p \in Updates, ReadForUpdate(q, r, p)
          PROVE  IInv'
      BY <2>1, <3>2 DEF ReadForUpdate, Begin, database
    <3>3. ASSUME NEW r \in Routines, ReadForDelete(q, r)
          PROVE  IInv'
      BY <2>1, <3>3 DEF ReadForDelete, Begin, database
    <3> QED BY <2>2, <3>1, <3>2, <3>3 DEF Arrive
  <2>3. ASSUME NEW q \in Requests, Proceed(q)
        PROVE  IInv'
    <3>1. CASE UNCHANGED row /\ pc'[q] \notin {"flush", "sync", "commit"}
      BY <2>1, <3>1
    <3>2. CASE UNCHANGED <<row, target, loaded, next>> /\ pc[q] \in {"flush", "sync", "commit"}
      BY <2>1, <3>2
    <3>3. ASSUME NEW o \in Outcomes, CommitUpdate(q, o)
          PROVE  IInv'
      <4>1. Written(q) = [type |-> next[q].type, config |-> next[q].config, active |-> next[q].active]
        BY <3>3 DEF CommitUpdate, Written
      <4>2. pc'[q] \notin {"flush", "sync", "commit"}
        BY <2>1, <3>3 DEF CommitUpdate, End, Goto
      <4>3. Valid(Written(q).type, Written(q).config)
        BY <3>3, <4>1 DEF CommitUpdate
      <4> QED BY <2>1, <3>3, <4>2, <4>3 DEF CommitUpdate
    <3>4. CASE SyncScheduler(q)
      BY <2>1, <3>1, <3>2, <3>4 DEF SyncScheduler, End
    <3>5. ASSUME NEW o \in {"ok", "error"}, Flush(q, o)
          PROVE  IInv'
      BY <2>1, <3>1, <3>2, <3>5 DEF Flush, End, Goto
    <3>6. ASSUME NEW o \in {"ok", "error"}, RefreshCreated(q, o)
          PROVE  IInv'
      BY <2>1, <3>1, <3>6 DEF RefreshCreated, End, database
    <3>7. CASE RegisterCreated(q)
      BY <2>1, <3>1, <3>7 DEF RegisterCreated, End, database
    <3>8. ASSUME NEW o \in {"ok", "error"}, Restore(q, o)
          PROVE  IInv'
      BY <2>1, <3>1, <3>8 DEF Restore, End, database
    <3>9. CASE Unregister(q)
      BY <2>1, <3>1, <3>9 DEF Unregister, Goto, database
    <3>10. ASSUME NEW o \in Outcomes, Delete(q, o)
           PROVE  IInv'
      BY <2>1, <3>1, <3>10 DEF Delete, End
    <3> QED BY <2>3, <3>3, <3>4, <3>5, <3>6, <3>7, <3>8, <3>9, <3>10 DEF Proceed
  <2>4. ASSUME NEW r \in Routines, Execute(r)
        PROVE  IInv'
    BY <2>4 DEF Execute, request
  <2>5. CASE Stop
    BY <2>1, <2>5 DEF Stop
  <2>6. CASE Boot
    BY <2>6 DEF Boot, request, database
  <2>7. CASE UNCHANGED vars
    BY <2>7 DEF vars, request, database
  <2> QED BY <2>2, <2>3, <2>4, <2>5, <2>6, <2>7 DEF Next
<1> QED BY <1>1, <1>2, InitTyped, StepTyped, PTL DEF Spec

-----------------------------------------------------------------------------
(* The jobs of undisturbed routines, for any number of requests.            *)

\* Routine r has the job its row calls for, and could be given it again.
Fits(r) ==
    /\ job[r] = Expected(r)
    /\ Present(r) /\ Scheduled(row[r]) => Registrable(row[r])

\* The job of routine r after the scheduler did a for request q.
JobAfter(q, a) ==
    CASE a = "nothing" -> Expected(target[q])
      [] a = "unregister" -> NoJob
      [] OTHER -> TriggerOf(next[q])

\* A request that changed the scheduler knows the row and what it did.
Changed(q) ==
    LET r == target[q] IN
    /\ Present(r) /\ loaded[q] = row[r]
    /\ Scheduled(row[r]) => Registrable(row[r])
    /\ did[q] = Action(q)
    /\ job[r] = JobAfter(q, did[q])
    /\ did[q] \in {"register", "replace"} => Registrable(next[q])

\* Where a request that is alone on its routine has left row and job.
Midway(q) ==
    LET r == target[q] IN
    /\ Present(r)
    /\ pc[q] \in {"refresh", "register", "delete"} => job[r] = NoJob
    /\ pc[q] = "register" => loaded[q] = row[r] /\ Scheduled(row[r])
    /\ pc[q] \in {"flush", "sync"} => loaded[q] = row[r] /\ Fits(r)
    /\ pc[q] \in {"commit", "restore"} => Changed(q)
    /\ pc[q] = "restore" => did[q] # "nothing"

Alone(r) == \A p, q \in Requests : target[p] = r /\ target[q] = r => p = q

Tidy(r) ==
    /\ Alone(r)
    /\ Quiet(r) => Fits(r)
    /\ \A q \in Requests : target[q] = r => Midway(q)

\* A request's routine was created.
Known == \A r \in Routines : exists[r] = "absent" => ~ Busy(r)

AllTidy == Known /\ \A r \in Routines \ disturbed : Tidy(r)

\* A step of request q touches no other request, and no routine but r.
ActsOn(q, r) ==
    /\ \A s \in Routines \ {r} :
        /\ exists'[s] = exists[s] /\ row'[s] = row[s] /\ job'[s] = job[s]
        /\ s \in disturbed' <=> s \in disturbed
    /\ \A p \in Requests \ {q} :
        /\ pc'[p] = pc[p] /\ target'[p] = target[p]
        /\ loaded'[p] = loaded[p] /\ next'[p] = next[p] /\ did'[p] = did[p]
    /\ target[q] \in {None, r} /\ target'[q] \in {None, r}
    /\ up' = up
    /\ disturbed \subseteq disturbed'

\* and leaves r tidy, unless it is disturbed.
LeavesTidy(q, r) ==
    /\ ActsOn(q, r)
    /\ exists'[r] # "absent"
    /\ r \notin disturbed' =>
        /\ \A p \in Requests : target[p] = r => p = q
        /\ \/ target'[q] = None /\ Fits(r)'
           \/ target'[q] = r /\ Midway(q)'

\* Routines and requests a step does not touch stay as tidy as they were.
LEMMA Elsewhere ==
    ASSUME Typed, Typed', NEW q \in Requests, NEW r \in Routines, ActsOn(q, r),
           NEW s \in Routines \ {r}, Tidy(s)
    PROVE  Tidy(s)'
<1>1. \A p \in Requests : target'[p] = s <=> target[p] = s
  BY ConstantAssumption DEF ActsOn
<1>2. \A p \in Requests : target[p] = s => p # q
  BY ConstantAssumption DEF ActsOn
<1>3. Expected(s)' = Expected(s) /\ (Fits(s)' <=> Fits(s)) /\ (Present(s)' <=> Present(s))
  BY DEF ActsOn, Expected, Fits, Present
<1>4. Quiet(s)' <=> Quiet(s)
  <2>1. Busy(s)' <=> Busy(s)
    BY <1>1, <1>2 DEF Busy, Idle, ActsOn
  <2> QED BY <2>1 DEF Quiet, ActsOn
<1>5. ASSUME NEW p \in Requests, target[p] = s
      PROVE  Midway(p)' <=> Midway(p)
  <2>1. /\ pc'[p] = pc[p] /\ target'[p] = target[p] /\ loaded'[p] = loaded[p]
        /\ next'[p] = next[p] /\ did'[p] = did[p]
        /\ row'[s] = row[s] /\ job'[s] = job[s]
    BY <1>2, <1>5 DEF ActsOn
  <2>2. Action(p)' = Action(p)
    BY <2>1 DEF Action
  <2>3. JobAfter(p, did[p])' = JobAfter(p, did[p])
    BY <1>3, <1>5, <2>1 DEF JobAfter
  <2>4. Changed(p)' <=> Changed(p)
    BY <1>3, <1>5, <2>1, <2>2, <2>3 DEF Changed
  <2> QED BY <1>3, <1>5, <2>1, <2>4 DEF Midway
<1> QED BY <1>1, <1>3, <1>4, <1>5 DEF Tidy, Alone

LEMMA TidyStep ==
    ASSUME Typed, Typed', AllTidy, NEW q \in Requests, NEW r \in Routines, LeavesTidy(q, r)
    PROVE  AllTidy'
<1> USE DEF LeavesTidy
<1>1. Known'
  <2>1. \A s \in Routines \ {r} : Busy(s)' => Busy(s)
    BY ConstantAssumption DEF Busy, ActsOn, Idle
  <2> QED BY <2>1 DEF Known, AllTidy, ActsOn
<1>2. ASSUME NEW s \in Routines \ {r}, s \notin disturbed'
      PROVE  Tidy(s)'
  BY <1>2, Elsewhere DEF AllTidy, ActsOn
<1>3. ASSUME r \notin disturbed'
      PROVE  Tidy(r)'
  <2>1. \A p \in Requests : target'[p] = r => p = q
    BY <1>3 DEF ActsOn
  <2>2. target'[q] = r => Busy(r)'
    BY TypedFacts, ConstantAssumption DEF Typed, Targets, Busy
  <2> QED BY <1>3, <2>1, <2>2, ConstantAssumption DEF Tidy, Alone, Quiet
<1> QED BY <1>1, <1>2, <1>3 DEF AllTidy

LEMMA StillTidy ==
    ASSUME AllTidy, UNCHANGED <<exists, row, job, up, request, disturbed>>
    PROVE  AllTidy'
<1> USE DEF request
<1>1. \A q \in Requests : Action(q)' = Action(q)
  BY DEF Action
<1>2. \A r \in Routines : Expected(r)' = Expected(r) /\ (Fits(r)' <=> Fits(r))
  BY DEF Expected, Fits, Present
<1>3. \A q \in Requests : JobAfter(q, did[q])' = JobAfter(q, did[q])
  BY DEF JobAfter, Expected, Present
<1>4. \A q \in Requests : Changed(q)' <=> Changed(q)
  BY <1>1, <1>3 DEF Changed, Present
<1>5. \A q \in Requests : Midway(q)' <=> Midway(q)
  BY <1>4 DEF Midway, Present, Fits, Expected
<1> QED BY <1>2, <1>5 DEF AllTidy, Known, Tidy, Alone, Quiet, Busy, Idle

\* A request that arrives finds its routine tidy and its job in place.
LEMMA ArriveTidy ==
    ASSUME Typed, Typed', AllTidy, NEW q \in Requests, Arrive(q)
    PROVE  AllTidy'
<1> USE TypedFacts, ConstantAssumption
<1>1. ASSUME NEW r \in Routines, r \notin disturbed, up, ~ Busy(r)
      PROVE  Fits(r) /\ \A p \in Requests : target[p] # r
  BY <1>1 DEF AllTidy, Tidy, Quiet, Busy, Targets
<1>2. ASSUME NEW r \in Routines, NEW d \in Rows, NEW p \in Pcs, Begin(q, r, d, p),
             \A s \in Routines \ {r} :
                 exists'[s] = exists[s] /\ row'[s] = row[s] /\ job'[s] = job[s],
             next' = [next EXCEPT ![q] = next'[q]], UNCHANGED <<up, did>>
      PROVE  ActsOn(q, r)
  BY <1>2 DEF Begin, ActsOn, RequestTypes, Targets, TypeOK
<1>3. ASSUME NEW r \in Routines, NEW d \in NewRoutines, NEW o \in Outcomes, Create(q, r, d, o)
      PROVE  AllTidy'
  <2>1. d \in Rows
    BY PayloadAssumption
  <2>2. exists[r] = "absent" /\ ~ Busy(r) /\ up
    BY <1>3 DEF Create, Begin, AllTidy, Known
  <2>3. CASE o = "ok"
    <3>1. ActsOn(q, r)
      BY <1>2, <1>3, <2>1, <2>3 DEF Create, RequestTypes, TypeOK, Pcs
    <3>2. exists'[r] = "present" /\ target'[q] = r /\ pc'[q] = "refresh"
      BY <1>3, <2>3 DEF Create, Begin, RequestTypes, TypeOK
    <3>3. ASSUME r \notin disturbed
          PROVE  job'[r] = NoJob
      BY <1>1, <1>3, <2>2, <3>3 DEF Create, Fits, Expected, Present
    <3>4. ASSUME r \notin disturbed
          PROVE  Midway(q)'
      BY <3>2, <3>3, <3>4 DEF Midway, Present
    <3> QED BY <1>1, <2>2, <3>1, <3>2, <3>4, TidyStep DEF LeavesTidy, ActsOn
  <2>4. CASE o # "ok"
    <3>1. CASE o = "error"
      <4>1. UNCHANGED <<exists, row, job, up, request, disturbed>>
        BY <1>3, <2>4, <3>1 DEF Create, Disturb, request
      <4> QED BY <4>1, StillTidy
    <3>2. CASE o = "late"
      <4>1. /\ UNCHANGED <<job, up, request>> /\ target[q] = None
            /\ exists' = [exists EXCEPT ![r] = "present"] /\ row' = [row EXCEPT ![r] = d]
            /\ disturbed' = IF Scheduled(d) THEN disturbed \union {r} ELSE disturbed
        BY <1>3, <3>2 DEF Create, Disturb, request, Targets
      <4>2. ActsOn(q, r)
        BY <4>1 DEF ActsOn, request, TypeOK
      <4>3. exists'[r] = "present" /\ row'[r] = d
        BY <4>1 DEF TypeOK
      <4>4. ASSUME r \notin disturbed'
            PROVE  Fits(r)'
        <5>1. ~ Scheduled(d) /\ job[r] = NoJob
          BY <1>1, <2>2, <4>1, <4>4 DEF Fits, Expected, Present
        <5> QED BY <4>1, <4>3, <5>1 DEF Fits, Expected, Scheduled
      <4> QED BY <1>1, <2>2, <4>1, <4>2, <4>3, <4>4, TidyStep DEF LeavesTidy, request
    <3> QED BY <2>4, <3>1, <3>2 DEF Outcomes
  <2> QED BY <2>3, <2>4
<1>4. ASSUME NEW r \in Routines, NEW p \in Updates, ReadForUpdate(q, r, p)
      PROVE  AllTidy'
  <2>1. ActsOn(q, r)
    BY <1>2, <1>4 DEF ReadForUpdate, database, RequestTypes, TypeOK, Pcs
  <2>2. /\ exists'[r] = "present" /\ target'[q] = r /\ pc'[q] = "flush" /\ loaded'[q] = row[r]
        /\ UNCHANGED <<exists, row, job>> /\ up
        /\ r \notin disturbed' => ~ Busy(r)
    BY <1>4 DEF ReadForUpdate, Begin, database, RequestTypes, Present
  <2>3. Fits(r) => Midway(q)'
    BY <2>2 DEF Midway, Fits, Present, Expected
  <2> QED BY <1>1, <2>1, <2>2, <2>3, TidyStep DEF LeavesTidy, ActsOn
<1>5. ASSUME NEW r \in Routines, ReadForDelete(q, r)
      PROVE  AllTidy'
  <2>1. ActsOn(q, r)
    BY <1>2, <1>5 DEF ReadForDelete, database, RequestTypes, TypeOK, Pcs
  <2>2. /\ exists'[r] = "present" /\ target'[q] = r /\ pc'[q] = "unregister"
        /\ up /\ (r \notin disturbed' => ~ Busy(r))
    BY <1>5 DEF ReadForDelete, Begin, database, RequestTypes, Present
  <2>3. Midway(q)'
    BY <2>2 DEF Midway, Present
  <2> QED BY <1>1, <2>1, <2>2, <2>3, TidyStep DEF LeavesTidy, ActsOn
<1> QED BY <1>3, <1>4, <1>5 DEF Arrive

\* What the rows call for, spelled out.
LEMMA ExpectedJob ==
    ASSUME NEW r \in Routines, Present(r)
    PROVE  /\ Scheduled(row[r]) => Expected(r) = TriggerOf(row[r])
           /\ ~ Scheduled(row[r]) => Expected(r) = NoJob
BY DEF Expected

\* An update that nothing disturbs is done with the job its new row calls for.
LEMMA UpdateFits ==
    ASSUME Typed, NEW q \in Requests, target[q] \in Routines, Changed(q), ~ KeepsJob(q)
    PROVE  /\ Written(q) = next[q]
           /\ job[target[q]] = IF Scheduled(next[q]) THEN TriggerOf(next[q]) ELSE NoJob
           /\ Scheduled(next[q]) => Registrable(next[q])
<1> DEFINE r == target[q]
           old == loaded[q]
           new == next[q]
<1>1. /\ new = [type |-> new.type, config |-> new.config, active |-> new.active]
      /\ old.active \in BOOLEAN /\ new.active \in BOOLEAN
  BY TypedFacts DEF RequestTypes, Rows
<1>2. Written(q) = [type |-> new.type, config |-> new.config, active |-> new.active]
  BY DEF Written, Changed
<1>3. job[r] = JobAfter(q, Action(q)) /\ row[r] = old /\ Present(r)
  BY DEF Changed
<1> SUFFICES /\ job[r] = IF Scheduled(new) THEN TriggerOf(new) ELSE NoJob
             /\ Scheduled(new) => Registrable(new)
  BY <1>1, <1>2
<1>4. CASE Action(q) = "nothing"
  <2>1. job[r] = Expected(r)
    BY <1>3, <1>4 DEF JobAfter
  <2>2. CASE ~ Scheduled(new)
    <3>1. ~ Scheduled(old)
      BY <1>1, <1>4, <2>2 DEF Action, Scheduled, KeepsJob
    <3> QED BY <1>3, <2>1, <2>2, <3>1, ExpectedJob
  <2>3. CASE Scheduled(new)
    <3>1. old.active /\ old.type = new.type /\ old.config = new.config
      BY <1>1, <1>4, <2>3 DEF Action
    <3>2. Scheduled(old) /\ TriggerOf(old) = TriggerOf(new) /\ (Registrable(old) <=> Registrable(new))
      BY <2>3, <3>1 DEF Scheduled, TriggerOf, Registrable
    <3>3. Registrable(old)
      BY <1>3, <3>2 DEF Changed
    <3> QED BY <1>3, <2>1, <2>3, <3>2, <3>3, ExpectedJob
  <2> QED BY <2>2, <2>3
<1>5. CASE Action(q) = "unregister"
  <2>1. job[r] = NoJob
    BY <1>3, <1>5 DEF JobAfter
  <2>2. ~ Scheduled(new)
    BY <1>5 DEF Action, Scheduled
  <2> QED BY <2>1, <2>2
<1>6. CASE Action(q) \in {"register", "replace"}
  <2>1. job[r] = TriggerOf(new) /\ Registrable(new)
    BY <1>3, <1>6 DEF JobAfter, Changed
  <2>2. Scheduled(new)
    BY <1>6 DEF Action
  <2> QED BY <2>1, <2>2
<1>7. Action(q) \in {"nothing", "unregister", "register", "replace"}
  BY DEF Action
<1> QED BY <1>4, <1>5, <1>6, <1>7

\* The frame of a step that ends its request, or goes on with it.
LEMMA FrameOf ==
    ASSUME Typed, NEW q \in Requests, NEW r \in Routines, target[q] = r,
           \A s \in Routines \ {r} :
               exists'[s] = exists[s] /\ row'[s] = row[s] /\ job'[s] = job[s],
           UNCHANGED up,
           UNCHANGED disturbed \/ \E c : Disturb(r, c)
    PROVE  /\ End(q) => ActsOn(q, r) /\ target'[q] = None
           /\ \A p : Goto(q, p) => ActsOn(q, r) /\ pc'[q] = p /\ target'[q] = r
<1>1. \A s \in Routines \ {r} : s \in disturbed' <=> s \in disturbed
  BY DEF Disturb
<1>2. disturbed \subseteq disturbed'
  BY DEF Disturb
<1>3. ASSUME End(q)
      PROVE  ActsOn(q, r) /\ target'[q] = None
  <2>1. target'[q] = None
    BY <1>3, TypedFacts DEF End, RequestTypes
  <2>2. \A p \in Requests \ {q} :
            /\ pc'[p] = pc[p] /\ target'[p] = target[p]
            /\ loaded'[p] = loaded[p] /\ next'[p] = next[p] /\ did'[p] = did[p]
    BY <1>3, TypedFacts DEF End, RequestTypes
  <2> QED BY <1>1, <1>2, <2>1, <2>2 DEF ActsOn
<1>4. ASSUME NEW p, Goto(q, p)
      PROVE  ActsOn(q, r) /\ pc'[q] = p /\ target'[q] = r
  <2>1. pc' = [pc EXCEPT ![q] = p] /\ UNCHANGED <<target, loaded, next, did>>
    BY <1>4 DEF Goto
  <2>2. pc'[q] = p /\ \A s \in Requests \ {q} : pc'[s] = pc[s]
    BY <2>1, TypedFacts DEF RequestTypes
  <2> QED BY <1>1, <1>2, <2>1, <2>2 DEF ActsOn
<1> QED BY <1>3, <1>4

LEMMA ProceedTarget ==
    ASSUME Typed, NEW q \in Requests, Proceed(q)
    PROVE  target[q] \in Routines /\ ~ Idle(q)
BY TypedFacts, ConstantAssumption
   DEF Proceed, Idle, RegisterCreated, SyncScheduler, Unregister, RefreshCreated, Flush,
       Restore, CommitUpdate, Delete

\* A request that goes on leaves its routine as Midway says, or disturbs it.
LEMMA ProceedTidy ==
    ASSUME Typed, Typed', AllTidy, NEW q \in Requests, Proceed(q),
           NEW r \in Routines, target[q] = r
    PROVE  AllTidy'
<1> DEFINE old == loaded[q]
           Others == \A s \in Routines \ {r} :
                         exists'[s] = exists[s] /\ row'[s] = row[s] /\ job'[s] = job[s]
           Kept == r \notin disturbed'
           Done == target'[q] = None /\ Fits(r)'
           Under == target'[q] = r /\ Midway(q)'
<1>2. exists[r] # "absent"
  BY ProceedTarget DEF AllTidy, Known, Busy
<1>3. r \notin disturbed => Alone(r) /\ Midway(q)
  BY DEF AllTidy, Tidy
<1>4. ASSUME ActsOn(q, r), exists'[r] # "absent", Kept => Done \/ Under
      PROVE  AllTidy'
  <2>1. LeavesTidy(q, r)
    BY <1>3, <1>4 DEF LeavesTidy, ActsOn, Alone
  <2> QED BY <2>1, TidyStep
<1>5. CASE RegisterCreated(q)
  <2>1. End(q) /\ UNCHANGED <<exists, row, up>> /\ Disturb(r, ~ Registrable(old)) /\ pc[q] = "register"
    BY <1>5 DEF RegisterCreated, database
  <2>2. Others
    BY <1>5, <2>1, TypedFacts DEF RegisterCreated, Registered, TypeOK
  <2>3. ASSUME Kept
        PROVE  Fits(r)'
    <3>1. r \notin disturbed /\ Registrable(old)
      BY <2>1, <2>3 DEF Disturb
    <3>2. Present(r) /\ old = row[r] /\ Scheduled(row[r])
      BY <1>3, <2>1, <3>1 DEF Midway
    <3>3. job'[r] = TriggerOf(row[r])
      BY <1>5, <3>1, <3>2, TypedFacts DEF RegisterCreated, Registered, Scheduled, TypeOK
    <3> QED BY <2>1, <3>1, <3>2, <3>3 DEF Fits, Expected, Present
  <2> QED BY <1>2, <1>4, <2>1, <2>2, <2>3, FrameOf
<1>6. ASSUME NEW o \in {"ok", "error"}, RefreshCreated(q, o)
      PROVE  AllTidy'
  <2>1. UNCHANGED <<exists, row, job, up>> /\ pc[q] = "refresh"
    BY <1>6 DEF RefreshCreated, database
  <2>2. CASE ~ (o = "ok" /\ Present(r))
    <3>1. End(q) /\ Disturb(r, Expected(r) # NoJob)
      BY <1>6, <2>2 DEF RefreshCreated
    <3>2. ASSUME Kept
          PROVE  Fits(r)'
      <4>1. r \notin disturbed /\ Expected(r) = NoJob
        BY <3>1, <3>2 DEF Disturb
      <4>2. job[r] = NoJob /\ Present(r)
        BY <1>3, <2>1, <4>1 DEF Midway
      <4>3. ~ Scheduled(row[r]) \/ TriggerOf(row[r]) = NoJob
        BY <4>1, <4>2, ExpectedJob
      <4>4. TriggerOf(row[r]) = NoJob => Registrable(row[r])
        BY ConstantAssumption, TypedFacts
           DEF TriggerOf, Registrable, TypeOK, Rows, Types, Configs, Triggers
      <4> QED BY <2>1, <4>1, <4>2, <4>3, <4>4 DEF Fits, Expected, Present
    <3> QED BY <1>2, <1>4, <2>1, <3>1, <3>2, FrameOf
  <2>3. CASE o = "ok" /\ Present(r) /\ ~ Scheduled(row[r])
    <3>1. End(q) /\ UNCHANGED disturbed
      BY <1>6, <2>3 DEF RefreshCreated
    <3>2. ASSUME Kept
          PROVE  Fits(r)'
      <4>1. job[r] = NoJob
        BY <1>3, <2>1, <3>1, <3>2 DEF Midway
      <4> QED BY <2>1, <2>3, <4>1 DEF Fits, Expected, Present
    <3> QED BY <1>2, <1>4, <2>1, <3>1, <3>2, FrameOf
  <2>4. CASE o = "ok" /\ Present(r) /\ Scheduled(row[r])
    <3>1. /\ pc' = [pc EXCEPT ![q] = "register"] /\ loaded' = [loaded EXCEPT ![q] = row[r]]
          /\ UNCHANGED <<target, next, did, disturbed>>
      BY <1>6, <2>4 DEF RefreshCreated
    <3>2. ActsOn(q, r)
      BY <2>1, <3>1, TypedFacts DEF ActsOn, RequestTypes
    <3>3. pc'[q] = "register" /\ loaded'[q] = row[r]
      BY <3>1, TypedFacts DEF RequestTypes
    <3>4. ASSUME Kept
          PROVE  Midway(q)'
      <4>1. job[r] = NoJob
        BY <1>3, <2>1, <3>1, <3>4 DEF Midway
      <4> QED BY <2>1, <2>4, <3>1, <3>3, <4>1 DEF Midway, Present
    <3> QED BY <1>2, <1>4, <2>1, <3>1, <3>2, <3>4
  <2> QED BY <2>2, <2>3, <2>4
<1>7. ASSUME NEW o \in {"ok", "error"}, Flush(q, o)
      PROVE  AllTidy'
  <2>1. UNCHANGED <<exists, row, job, up, disturbed>> /\ pc[q] = "flush"
    BY <1>7 DEF Flush
  <2>2. Kept => Fits(r) /\ Present(r) /\ loaded[q] = row[r]
    BY <1>3, <2>1 DEF Midway
  <2>3. Fits(r)' <=> Fits(r)
    BY <2>1 DEF Fits, Expected, Present
  <2>4. CASE End(q)
    BY <1>2, <1>4, <2>1, <2>2, <2>3, <2>4, FrameOf
  <2>5. CASE Goto(q, "sync")
    <3>1. ActsOn(q, r) /\ pc'[q] = "sync" /\ target'[q] = r /\ loaded'[q] = loaded[q]
      BY <2>1, <2>5, FrameOf DEF Goto
    <3>2. Kept => Midway(q)'
      BY <2>1, <2>2, <2>3, <3>1 DEF Midway, Present
    <3> QED BY <1>2, <1>4, <2>1, <3>1, <3>2
  <2> QED BY <1>7, <2>4, <2>5 DEF Flush
<1>8. CASE SyncScheduler(q)
  <2>1. UNCHANGED <<exists, row, up, disturbed>> /\ pc[q] = "sync"
    BY <1>8 DEF SyncScheduler
  <2>2. Kept => Fits(r) /\ Present(r) /\ loaded[q] = row[r]
    BY <1>3, <2>1 DEF Midway
  <2>3. CASE Action(q) \in {"register", "replace"} /\ ~ Registrable(next[q])
    <3>1. End(q) /\ UNCHANGED job
      BY <1>8, <2>3 DEF SyncScheduler
    <3>2. Fits(r)' <=> Fits(r)
      BY <2>1, <3>1 DEF Fits, Expected, Present
    <3> QED BY <1>2, <1>4, <2>1, <2>2, <3>1, <3>2, FrameOf
  <2>4. CASE ~ (Action(q) \in {"register", "replace"} /\ ~ Registrable(next[q]))
    <3>1. /\ did' = [did EXCEPT ![q] = Action(q)] /\ pc' = [pc EXCEPT ![q] = "commit"]
          /\ UNCHANGED <<target, loaded, next>>
          /\ job' = CASE Action(q) = "nothing" -> job
                      [] Action(q) = "unregister" -> Unregistered(r)
                      [] OTHER -> Registered(r, next[q])
      BY <1>8, <2>4 DEF SyncScheduler
    <3>2. Others
      BY <2>1, <3>1, TypedFacts DEF Registered, Unregistered, TypeOK
    <3>3. ActsOn(q, r)
      BY <2>1, <3>1, <3>2, TypedFacts DEF ActsOn, RequestTypes
    <3>4. did'[q] = Action(q) /\ pc'[q] = "commit" /\ (Action(q) = Action(q)')
      BY <3>1, TypedFacts DEF RequestTypes, Action
    <3>5. Action(q) \in {"register", "replace"} => next[q].type # "manual"
      BY DEF Action, Scheduled
    <3>6. Kept => job'[r] = JobAfter(q, Action(q))'
      <4>1. CASE Action(q) = "nothing"
        BY <2>1, <2>2, <3>1, <3>4, <4>1 DEF JobAfter, Fits, Expected, Present
      <4>2. CASE Action(q) = "unregister"
        BY <3>1, <3>4, <4>2, TypedFacts DEF JobAfter, Unregistered, TypeOK
      <4>3. CASE Action(q) \in {"register", "replace"}
        BY <3>1, <3>4, <3>5, <4>3, TypedFacts DEF JobAfter, Registered, TypeOK
      <4> QED BY <4>1, <4>2, <4>3 DEF Action
    <3>7. Kept => Changed(q)'
      BY <2>1, <2>2, <2>4, <3>1, <3>4, <3>6 DEF Changed, Fits, Present
    <3>8. Kept => Midway(q)'
      BY <2>1, <2>2, <3>1, <3>4, <3>7 DEF Midway, Present
    <3> QED BY <1>2, <1>4, <2>1, <3>1, <3>3, <3>8
  <2> QED BY <2>3, <2>4
<1>9. CASE Unregister(q)
  <2>1. /\ UNCHANGED <<exists, row, up, disturbed>> /\ pc[q] = "unregister"
        /\ job' = Unregistered(r) /\ Goto(q, "delete")
    BY <1>9 DEF Unregister, database
  <2>2. Others /\ job'[r] = NoJob
    BY <2>1, TypedFacts DEF Unregistered, TypeOK
  <2>3. ActsOn(q, r) /\ pc'[q] = "delete" /\ target'[q] = r
    BY <2>1, <2>2, FrameOf
  <2>4. Kept => Midway(q)'
    BY <1>3, <2>1, <2>2, <2>3 DEF Midway, Present
  <2> QED BY <1>2, <1>4, <2>1, <2>3, <2>4
<1>10. ASSUME NEW o \in Outcomes, Delete(q, o)
       PROVE  AllTidy'
  <2>1. UNCHANGED <<row, job, up>> /\ pc[q] = "delete" /\ End(q)
    BY <1>10 DEF Delete
  <2>2. CASE UNCHANGED exists /\ Disturb(r, TRUE)
    BY <1>2, <1>4, <2>1, <2>2, FrameOf DEF Disturb
  <2>3. CASE exists' = [exists EXCEPT ![r] = "deleted"] /\ UNCHANGED disturbed
    <3>1. Others /\ exists'[r] = "deleted"
      BY <2>1, <2>3, TypedFacts DEF TypeOK
    <3>2. Kept => job[r] = NoJob
      BY <1>3, <2>1, <2>3 DEF Midway
    <3>3. Kept => Fits(r)'
      BY <2>1, <3>1, <3>2 DEF Fits, Expected, Present
    <3> QED BY <1>4, <2>1, <2>3, <3>1, <3>3, FrameOf
  <2> QED BY <1>10, <2>2, <2>3 DEF Delete
<1>11. ASSUME NEW o \in Outcomes, CommitUpdate(q, o)
       PROVE  AllTidy'
  <2>1. /\ UNCHANGED <<exists, job, up>> /\ pc[q] = "commit"
        /\ row' = IF o = "error" THEN row ELSE [row EXCEPT ![r] = Written(q)]
        /\ Disturb(r, (o = "late" /\ did[q] # "nothing") \/ (o # "error" /\ KeepsJob(q)))
        /\ IF o = "ok" \/ did[q] = "nothing" THEN End(q) ELSE Goto(q, "restore")
    BY <1>11 DEF CommitUpdate
  <2>2. Others
    BY <2>1, TypedFacts DEF TypeOK
  <2>3. Kept => Changed(q)
    BY <1>3, <2>1 DEF Midway, Disturb
  <2>4. CASE o = "error" /\ did[q] = "nothing"
    <3>1. Kept => job[r] = Expected(r) /\ (Scheduled(row[r]) => Registrable(row[r]))
      BY <2>3, <2>4 DEF Changed, JobAfter
    <3>2. Kept => Fits(r)'
      BY <2>1, <2>4, <3>1 DEF Fits, Expected, Present
    <3> QED BY <1>2, <1>4, <2>1, <2>2, <2>4, <3>2, FrameOf
  <2>5. CASE o = "error" /\ did[q] # "nothing"
    <3>1. Goto(q, "restore") /\ UNCHANGED row
      BY <2>1, <2>5
    <3>2. ActsOn(q, r) /\ pc'[q] = "restore" /\ target'[q] = r
      BY <2>1, <2>2, <3>1, FrameOf
    <3>3. JobAfter(q, did[q])' = JobAfter(q, did[q]) /\ Action(q)' = Action(q)
      BY <2>1, <3>1 DEF Goto, JobAfter, Action, Expected, Present
    <3>4. Changed(q)' <=> Changed(q)
      BY <2>1, <3>1, <3>3 DEF Goto, Changed, Present
    <3>5. Kept => Midway(q)'
      BY <2>1, <2>3, <2>5, <3>1, <3>2, <3>4 DEF Midway, Changed, Present, Goto
    <3> QED BY <1>2, <1>4, <2>1, <3>2, <3>5
  <2>6. CASE o \in {"ok", "late"}
    <3>1. row'[r] = Written(q)
      BY <2>1, <2>6, TypedFacts DEF TypeOK
    <3>2. Kept => ~ KeepsJob(q) /\ (o = "ok" \/ did[q] = "nothing")
      BY <2>1, <2>6 DEF Disturb
    <3>3. Kept => End(q)
      BY <2>1, <3>2
    <3>4. Kept => Fits(r)'
      BY <2>1, <2>3, <3>1, <3>2, UpdateFits DEF Fits, Expected, Present, Changed
    <3>5. ActsOn(q, r)
      BY <2>1, <2>2, FrameOf
    <3> QED BY <1>2, <1>4, <2>1, <2>2, <3>3, <3>4, <3>5, FrameOf
  <2> QED BY <2>4, <2>5, <2>6 DEF Outcomes
<1>12. ASSUME NEW o \in {"ok", "error"}, Restore(q, o)
       PROVE  AllTidy'
  <2>1. /\ UNCHANGED <<exists, row, up>> /\ pc[q] = "restore" /\ End(q)
        /\ Disturb(r, o # "ok" \/ (did[q] # "unregister" /\ ~ Scheduled(old) /\ old.active))
        /\ job' = IF Scheduled(old) THEN IF Registrable(old) THEN Registered(r, old) ELSE job
                  ELSE IF ~ old.active /\ o = "ok" /\ Present(r) THEN Unregistered(r)
                  ELSE job
    BY <1>12 DEF Restore, database
  <2>2. Others
    BY <2>1, TypedFacts DEF Registered, Unregistered, TypeOK
  <2>3. ASSUME Kept
        PROVE  Fits(r)'
    <3>1. r \notin disturbed /\ o = "ok" /\ ~ (did[q] # "unregister" /\ ~ Scheduled(old) /\ old.active)
      BY <2>1, <2>3 DEF Disturb
    <3>2. Changed(q) /\ Present(r) /\ old = row[r]
      BY <1>3, <2>1, <3>1 DEF Midway, Changed
    <3>3. CASE Scheduled(old)
      <4>1. Registrable(old)
        BY <3>2, <3>3 DEF Changed
      <4>2. job'[r] = TriggerOf(old)
        BY <2>1, <3>3, <4>1, TypedFacts DEF Registered, Scheduled, TypeOK
      <4> QED BY <2>1, <3>2, <3>3, <4>1, <4>2 DEF Fits, Expected, Present
    <3>4. CASE ~ Scheduled(old) /\ ~ old.active
      <4>1. job'[r] = NoJob
        BY <2>1, <3>1, <3>2, <3>4, TypedFacts DEF Unregistered, TypeOK
      <4> QED BY <2>1, <3>2, <3>4, <4>1 DEF Fits, Expected, Present
    <3>5. CASE ~ Scheduled(old) /\ old.active
      <4>1. job[r] = NoJob
        BY <3>1, <3>2, <3>5 DEF Changed, JobAfter
      <4>2. job'[r] = NoJob
        BY <2>1, <3>5, <4>1
      <4> QED BY <2>1, <3>2, <3>5, <4>2 DEF Fits, Expected, Present
    <3> QED BY <3>3, <3>4, <3>5
  <2> QED BY <1>2, <1>4, <2>1, <2>2, <2>3, FrameOf
<1> QED BY <1>5, <1>6, <1>7, <1>8, <1>9, <1>10, <1>11, <1>12 DEF Proceed

\* Between requests a routine has the job its row calls for, unless it was
\* disturbed, for any number of requests that interleave and any payloads:
\* routine_services.py:282-408, with restore_previous_scheduler_state and the
\* start-up of main.py.
THEOREM JobsAlwaysMatch == Spec => []JobsMatchUndisturbedRows
<1>1. Init => AllTidy
  <2>1. Init => /\ \A r \in Routines : exists[r] = "absent" /\ job[r] = NoJob
                /\ \A q \in Requests : target[q] = None
    BY DEF Init
  <2>2. \A r \in Routines : r # None
    BY ConstantAssumption
  <2> QED BY <2>1, <2>2 DEF AllTidy, Known, Tidy, Alone, Busy, Fits, Expected, Present
<1>2. Typed /\ AllTidy /\ [Next]_vars => AllTidy'
  <2> SUFFICES ASSUME Typed, AllTidy, [Next]_vars
               PROVE  AllTidy'
    OBVIOUS
  <2>1. Typed'
    BY StepTyped
  <2>2. ASSUME NEW q \in Requests, Arrive(q)
        PROVE  AllTidy'
    BY <2>1, <2>2, ArriveTidy
  <2>3. ASSUME NEW q \in Requests, Proceed(q)
        PROVE  AllTidy'
    BY <2>1, <2>3, ProceedTarget, ProceedTidy
  <2>4. ASSUME NEW r \in Routines, Execute(r)
        PROVE  AllTidy'
    BY <2>4, StillTidy DEF Execute
  <2>5. CASE Stop
    <3>1. ~ up' /\ \A q \in Requests : target'[q] = None /\ pc'[q] = "idle"
      BY <2>5 DEF Stop
    <3>2. \A r \in Routines : r # None
      BY ConstantAssumption
    <3> QED BY <3>1, <3>2 DEF AllTidy, Known, Tidy, Alone, Quiet, Busy, Idle
  <2>6. CASE Boot
    <3>1. /\ UNCHANGED <<exists, row, target, pc>> /\ ~ up
          /\ \A r \in Routines : job'[r] = Expected(r) /\ (Expected(r) # NoJob => Registrable(row[r]))
      BY <2>6 DEF Boot, database, request
    <3>2. \A q \in Requests : target[q] = None /\ Idle(q)
      BY <3>1 DEF Typed, Targets
    <3>3. \A r \in Routines : Scheduled(row[r]) /\ TriggerOf(row[r]) = NoJob => Registrable(row[r])
      BY ConstantAssumption, TypedFacts
         DEF TriggerOf, Registrable, TypeOK, Rows, Types, Configs, Triggers
    <3>4. ASSUME NEW r \in Routines
          PROVE  Fits(r)'
      BY <3>1, <3>3 DEF Fits, Expected, Present
    <3>5. \A r \in Routines : r # None
      BY ConstantAssumption
    <3> QED BY <3>1, <3>2, <3>4, <3>5 DEF AllTidy, Known, Tidy, Alone, Busy, Idle
  <2>7. CASE UNCHANGED vars
    BY <2>7, StillTidy DEF vars, request, database
  <2> QED BY <2>2, <2>3, <2>4, <2>5, <2>6, <2>7 DEF Next
<1>3. AllTidy => JobsMatchUndisturbedRows
  BY DEF AllTidy, Tidy, Fits, JobsMatchUndisturbedRows
<1> QED BY <1>1, <1>2, <1>3, InitTyped, StepTyped, PTL DEF Spec
=============================================================================
