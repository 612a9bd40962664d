--------------------------- MODULE LedgerRefinement ---------------------------
(***************************************************************************)
(* The proof that ExecutionQueue implements JobLedger: initial states map  *)
(* to initial states and every step of the queue to one of the ledger, or  *)
(* to no step.                                                             *)
(***************************************************************************)
EXTENDS ExecutionQueueProofs

\* The ledger's view of who holds what.
Holders == [e \in Executions |-> Holder(e)]

\* The worker that executes e is its holder.
LEMMA HolderIs ==
    ASSUME IInv, NEW w \in Workers, NEW e \in Executions, Executes(w, e)
    PROVE  Holder(e) = w
<1>1. \A v \in Workers : Executes(v, e) => v = w
  BY NoneAssumption DEF IInv, SingleHolder, Executes
<1> QED BY <1>1 DEF Holder

\* An execution nobody executes has no holder.
LEMMA HolderNone ==
    ASSUME NEW e \in Executions, \A w \in Workers : ~ Executes(w, e)
    PROVE  Holder(e) = None
BY DEF Holder

\* The holders stay when nobody starts or stops executing anything.
LEMMA HoldersStay ==
    ASSUME IInv, IInv',
           \A v \in Workers, f \in Executions : Executes(v, f)' <=> Executes(v, f)
    PROVE  Holders' = Holders
<1> SUFFICES ASSUME NEW f \in Executions PROVE Holder(f)' = Holder(f)
  BY DEF Holders
<1>1. ASSUME NEW v \in Workers, Executes(v, f)
      PROVE  Holder(f)' = Holder(f)
  <2>1. Holder(f) = v
    BY <1>1, HolderIs
  <2>2. Executes(v, f)'
    BY <1>1
  <2>3. \A u \in Workers : Executes(u, f)' => u = v
    BY <2>2, NoneAssumption DEF IInv, SingleHolder, Executes
  <2>4. Holder(f)' = v
    BY <2>2, <2>3 DEF Holder
  <2> QED BY <2>1, <2>4
<1>2. CASE \A v \in Workers : ~ Executes(v, f)
  BY <1>2 DEF Holder
<1> QED BY <1>1, <1>2

\* The threads, and with them the holders, are left alone.
LEMMA SameThreadsHolders ==
    ASSUME IInv, IInv', UNCHANGED <<pc, job>>
    PROVE  Holders' = Holders
<1>1. \A v \in Workers, f \in Executions : Executes(v, f)' <=> Executes(v, f)
  BY DEF Executes
<1> QED BY <1>1, HoldersStay

\* A worker moves within an execution, or outside of any.
LEMMA MoveHolders ==
    ASSUME IInv, IInv', NEW w \in Workers, job' = job,
           \A v \in Workers \ {w} : pc'[v] = pc[v],
           pc'[w] \in RunPcs <=> pc[w] \in RunPcs
    PROVE  Holders' = Holders
<1>1. \A v \in Workers, f \in Executions : Executes(v, f)' <=> Executes(v, f)
  BY DEF Executes
<1> QED BY <1>1, HoldersStay

\* A worker that executes nothing is released: nothing to see for the ledger.
LEMMA IdleReleaseHolders ==
    ASSUME IInv, IInv', NEW w \in Workers, NEW p \in {"poll", "down"}, Release(w, p),
           pc[w] \notin RunPcs
    PROVE  Holders' = Holders
<1>1. pc' = [pc EXCEPT ![w] = p] /\ job' = [job EXCEPT ![w] = None] /\ p \notin RunPcs
  BY DEF Release, RunPcs
<1>2. \A v \in Workers, f \in Executions : Executes(v, f)' <=> Executes(v, f)
  BY <1>1 DEF IInv, TypeOK, Executes
<1> QED BY <1>2, HoldersStay

\* A worker that executes e is released: e loses its holder.
LEMMA ReleaseHolders ==
    ASSUME IInv, IInv', NEW w \in Workers, NEW p \in {"poll", "down"}, Release(w, p),
           NEW e \in Executions, Executes(w, e)
    PROVE  Holders[e] = w /\ Holders' = [Holders EXCEPT ![e] = None]
<1>1. pc' = [pc EXCEPT ![w] = p] /\ job' = [job EXCEPT ![w] = None] /\ p \notin RunPcs
  BY DEF Release, RunPcs
<1>2. job[w] = e /\ pc[w] \in RunPcs
  BY DEF Executes
<1>3. Holder(e) = w
  BY HolderIs
<1>4. \A v \in Workers : ~ Executes(v, e)'
  BY <1>1, <1>2, NoneAssumption DEF IInv, TypeOK, SingleHolder, Executes
<1>5. Holder(e)' = None
  BY <1>4 DEF Holder
<1>6. ASSUME NEW f \in Executions, f # e
      PROVE  Holder(f)' = Holder(f)
  <2>1. \A v \in Workers : Executes(v, f)' <=> Executes(v, f)
    BY <1>1, <1>2, <1>6, NoneAssumption DEF IInv, TypeOK, Executes
  <2>2. ASSUME NEW v \in Workers, Executes(v, f)
        PROVE  Holder(f)' = Holder(f)
    <3>1. Holder(f) = v
      BY <2>2, HolderIs
    <3>2. \A u \in Workers : Executes(u, f)' => u = v
      BY <2>1, <2>2, NoneAssumption DEF IInv, SingleHolder, Executes
    <3>3. Holder(f)' = v
      BY <2>1, <2>2, <3>2 DEF Holder
    <3> QED BY <3>1, <3>3
  <2>3. CASE \A v \in Workers : ~ Executes(v, f)
    BY <2>1, <2>3 DEF Holder
  <2> QED BY <2>2, <2>3
<1>7. \A f \in Executions :
        Holders'[f] = IF f = e THEN None ELSE Holders[f]
  <2>1. \A f \in Executions : Holder(f)' = IF f = e THEN None ELSE Holder(f)
    BY <1>5, <1>6
  <2> QED BY <2>1 DEF Holders
<1>8. Holders' = [f \in Executions |-> Holders'[f]]
      /\ Holders = [f \in Executions |-> Holders[f]]
  BY DEF Holders
<1>9. Holders[e] = w
  BY <1>3 DEF Holders
<1> QED BY <1>7, <1>8, <1>9

\* A worker learns that its claim was committed: it becomes the holder.
LEMMA ClaimHolders ==
    ASSUME IInv, IInv', NEW w \in Workers, pc[w] = "commit",
           pc' = [pc EXCEPT ![w] = "refresh"], job' = job
    PROVE  /\ job[w] \in Executions
           /\ \A f \in Executions : Holders[f] # w
           /\ Holders' = [Holders EXCEPT ![job[w]] = w]
<1>0. job[w] \in Executions
  BY HeldFacts
<1>1. ASSUME NEW f \in Executions, f # job[w]
      PROVE  Holder(f)' = Holder(f)
  <2>1. \A v \in Workers : Executes(v, f)' <=> Executes(v, f)
    BY <1>1 DEF IInv, TypeOK, Executes, RunPcs
  <2>2. ASSUME NEW v \in Workers, Executes(v, f)
        PROVE  Holder(f)' = Holder(f)
    <3>1. Holder(f) = v
      BY <2>2, HolderIs
    <3>2. \A u \in Workers : Executes(u, f)' => u = v
      BY <2>1, <2>2, NoneAssumption DEF IInv, SingleHolder, Executes
    <3>3. Holder(f)' = v
      BY <2>1, <2>2, <3>2 DEF Holder
    <3> QED BY <3>1, <3>3
  <2>3. CASE \A v \in Workers : ~ Executes(v, f)
    BY <2>1, <2>3 DEF Holder
  <2> QED BY <2>2, <2>3
<1>2. Holder(job[w])' = w
  <2>1. Executes(w, job[w])'
    BY DEF IInv, TypeOK, Executes, RunPcs
  <2>2. \A u \in Workers : Executes(u, job[w])' => u = w
    BY <1>0, NoneAssumption DEF IInv, SingleHolder, Executes
  <2> QED BY <2>1, <2>2 DEF Holder
<1>3. \A f \in Executions : Holder(f) # w
  <2>1. \A f \in Executions : ~ Executes(w, f)
    BY DEF Executes, RunPcs
  <2> QED BY <2>1, NoneAssumption DEF Holder
<1>4. \A f \in Executions : Holders'[f] = IF f = job[w] THEN w ELSE Holders[f]
  <2>1. \A f \in Executions : Holder(f)' = IF f = job[w] THEN w ELSE Holder(f)
    BY <1>1, <1>2
  <2> QED BY <2>1 DEF Holders
<1>5. Holders' = [f \in Executions |-> Holders'[f]]
      /\ Holders = [f \in Executions |-> Holders[f]]
  BY DEF Holders
<1>6. \A f \in Executions : Holders[f] # w
  BY <1>3 DEF Holders
<1> QED BY <1>0, <1>4, <1>5, <1>6

-----------------------------------------------------------------------------
(* The steps of the ledger, seen from the queue.                            *)

LedgerStep == [Ledger!Next]_(Ledger!vars)

\* A step that changes nothing the ledger sees is a stutter of it.
LEMMA Stutters ==
    ASSUME status' = status, Holders' = Holders, ran' = ran
    PROVE  LedgerStep
BY DEF LedgerStep, Ledger!vars, Holders

\* An execution that enters the queue is a job recorded.
LEMMA Enqueues ==
    ASSUME NEW e \in Executions, status[e] = "absent",
           status' = [status EXCEPT ![e] = "queued"], Holders' = Holders, ran' = ran
    PROVE  LedgerStep
<1>1. Ledger!Enqueue(e)
  BY DEF Ledger!Enqueue, Holders
<1> QED BY <1>1 DEF LedgerStep, Ledger!Next

\* A committed claim its worker knows of is a claim of the ledger.
LEMMA Claims ==
    ASSUME NEW w \in Workers, NEW e \in Executions, status[e] = "queued",
           \A f \in Executions : Holders[f] # w,
           status' = [status EXCEPT ![e] = "running"],
           Holders' = [Holders EXCEPT ![e] = w], ran' = ran
    PROVE  LedgerStep
<1>1. Ledger!Claim(w, e)
  BY DEF Ledger!Claim, Holders
<1> QED BY <1>1 DEF LedgerStep, Ledger!Next

\* One its worker never learns of is a claim in vain.
LEMMA ClaimsInVain ==
    ASSUME NEW e \in Executions, status[e] = "queued",
           status' = [status EXCEPT ![e] = "running"], Holders' = Holders, ran' = ran
    PROVE  LedgerStep
<1>1. Ledger!ClaimInVain(e)
  BY DEF Ledger!ClaimInVain, Holders
<1> QED BY <1>1 DEF LedgerStep, Ledger!Next

\* An action body is an effect the job never had.
LEMMA Works ==
    ASSUME NEW w \in Workers, NEW e \in Executions, NEW a \in Actions,
           Holders[e] = w, \A i \in 1..Len(ran[e]) : ran[e][i] # a,
           ran' = [ran EXCEPT ![e] = Append(@, a)], status' = status, Holders' = Holders
    PROVE  LedgerStep
<1>1. Ledger!Work(w, e, a)
  BY DEF Ledger!Work, Holders
<1> QED BY <1>1 DEF LedgerStep, Ledger!Next

\* A recorded final status ends the job.
LEMMA Finishes ==
    ASSUME NEW w \in Workers, NEW e \in Executions, NEW s \in {"completed", "failed"},
           Holders[e] = w, status[e] = "running",
           status' = [status EXCEPT ![e] = s],
           Holders' = [Holders EXCEPT ![e] = None], ran' = ran
    PROVE  LedgerStep
<1>1. Ledger!Finish(w, e, s)
  BY DEF Ledger!Finish, Holders
<1> QED BY <1>1 DEF LedgerStep, Ledger!Next, Ledger!Final

\* A worker that gives up without recording a status loses its job.
LEMMA Loses ==
    ASSUME NEW w \in Workers, NEW e \in Executions, Holders[e] = w,
           Holders' = [Holders EXCEPT ![e] = None], status' = status, ran' = ran
    PROVE  LedgerStep
<1>1. Ledger!Lose(w, e)
  BY DEF Ledger!Lose, Holders
<1> QED BY <1>1 DEF LedgerStep, Ledger!Next

\* Deleted executions are removed jobs.
LEMMA Removes ==
    ASSUME NEW S \in SUBSET Executions, \A e \in S : status[e] # "absent",
           status' = [e \in Executions |-> IF e \in S THEN "deleted" ELSE status[e]],
           Holders' = Holders, ran' = ran
    PROVE  LedgerStep
<1>1. Ledger!Remove(S)
  BY DEF Ledger!Remove, Holders
<1> QED BY <1>1 DEF LedgerStep, Ledger!Next

\* A worker lets go of what it has, and records nothing.
LEMMA LetsGo ==
    ASSUME IInv, IInv', NEW w \in Workers, NEW p \in {"poll", "down"}, Release(w, p),
           status' = status, ran' = ran
    PROVE  LedgerStep
<1>1. CASE pc[w] \in RunPcs
  <2>1. job[w] \in Executions
    BY <1>1, HeldFacts
  <2>2. Executes(w, job[w])
    BY <1>1 DEF Executes
  <2> QED BY <2>1, <2>2, ReleaseHolders, Loses
<1>2. CASE pc[w] \notin RunPcs
  BY <1>2, IdleReleaseHolders, Stutters
<1> QED BY <1>1, <1>2

\* A worker moves on within its execution, and nothing else happens.
LEMMA MovesOn ==
    ASSUME IInv, IInv', NEW w \in Workers, pc[w] \in RunPcs, NEW p \in RunPcs,
           pc' = [pc EXCEPT ![w] = p], job' = job, status' = status, ran' = ran
    PROVE  LedgerStep
<1>1. pc'[w] \in RunPcs /\ \A v \in Workers \ {w} : pc'[v] = pc[v]
  BY DEF IInv, TypeOK
<1>2. Holders' = Holders
  BY <1>1, MoveHolders
<1> QED BY <1>2, Stutters

-----------------------------------------------------------------------------
(* Every step of the queue is one of the ledger.                            *)

\* Each action of the queue maps to a step of the ledger or to a stutter.
LEMMA StepSimulation ==
    ASSUME IInv, IInv', [Next]_vars
    PROVE  LedgerStep
<1>1. ASSUME NEW e \in Executions, NEW r \in Routines, NEW s \in Times,
             Enqueue(e, r, s)
      PROVE  LedgerStep
  <2>1. Holders' = Holders
    BY <1>1, SameThreadsHolders DEF Enqueue, thread
  <2>2. status[e] = "absent" /\ status' = [status EXCEPT ![e] = "queued"] /\ ran' = ran
    BY <1>1 DEF Enqueue, history
  <2> QED BY <2>1, <2>2, Enqueues
<1>2. CASE UNCHANGED <<pc, job, status, ran>>
  BY <1>2, SameThreadsHolders, Stutters
<1>3. ASSUME NEW r \in Routines, CommitDeletion(r)
      PROVE  LedgerStep
  <2> DEFINE S == {e \in Executions : routineOf[e] = r}
  <2>1. Holders' = Holders
    BY <1>3, SameThreadsHolders DEF CommitDeletion, EndDeletion, thread
  <2>2. \A e \in S : status[e] # "absent"
    BY NoneAssumption DEF IInv, RoutineKnown
  <2>3. status' = [e \in Executions |-> IF e \in S THEN "deleted" ELSE status[e]]
        /\ ran' = ran
    BY <1>3 DEF CommitDeletion, EndDeletion, history
  <2> QED BY <2>1, <2>2, <2>3, Removes
<1>4. CASE Caller
  BY <1>1, <1>2, <1>3, <1>4
     DEF Caller, CreateAction, SwapActions, ReorderActions, DeleteAction, BeginDeletion,
         RollbackDeletion, EndDeletion, DeleteRow, thread, history
<1>5. ASSUME NEW w \in Workers, ReadClock(w)
      PROVE  LedgerStep
  <2>1. Holders' = Holders
    BY <1>5, MoveHolders DEF IInv, TypeOK, ReadClock, RunPcs
  <2> QED BY <1>5, <2>1, Stutters DEF ReadClock, db, history
<1>6. ASSUME NEW w \in Workers, NEW e \in Executions, Select(w, e)
      PROVE  LedgerStep
  <2>1. \A v \in Workers, f \in Executions : Executes(v, f)' <=> Executes(v, f)
    BY <1>6 DEF IInv, TypeOK, Select, Executes, RunPcs
  <2> QED BY <1>6, <2>1, HoldersStay, Stutters DEF Select, db, history
<1>7. ASSUME NEW w \in Workers, NEW o \in {"ok", "error"}, SelectNothing(w, o)
      PROVE  LedgerStep
  <2>1. Release(w, "poll") /\ status' = status /\ ran' = ran
    BY <1>7, SufferFacts DEF IInv, SelectNothing, db
  <2> QED BY <2>1, LetsGo
<1>8. ASSUME NEW w \in Workers, NEW o \in {"ok", "error", "late"}, CommitClaim(w, o)
      PROVE  LedgerStep
  <2>1. pc[w] = "commit" /\ pc[w] \notin RunPcs /\ job[w] \in Executions /\ ran' = ran
    BY <1>8, HeldFacts, SufferFacts DEF IInv, CommitClaim, RunPcs
  <2>2. status[job[w]] = "queued"
    BY <2>1 DEF IInv, Claimed
  <2>3. CASE o = "ok"
    <3>1. pc' = [pc EXCEPT ![w] = "refresh"] /\ job' = job
          /\ status' = [status EXCEPT ![job[w]] = "running"]
      BY <1>8, <2>3 DEF CommitClaim, Goto
    <3>2. (\A f \in Executions : Holders[f] # w)
          /\ Holders' = [Holders EXCEPT ![job[w]] = w]
      BY <2>1, <3>1, ClaimHolders
    <3> QED BY <2>1, <2>2, <3>1, <3>2, Claims
  <2>4. CASE o = "error"
    <3>1. Release(w, "poll") /\ status' = status
      BY <1>8, <2>4 DEF CommitClaim
    <3> QED BY <2>1, <3>1, LetsGo
  <2>5. CASE o = "late"
    <3>1. Release(w, "poll") /\ status' = [status EXCEPT ![job[w]] = "running"]
      BY <1>8, <2>5 DEF CommitClaim
    <3>2. Holders' = Holders
      BY <2>1, <3>1, IdleReleaseHolders
    <3> QED BY <2>1, <2>2, <3>1, <3>2, ClaimsInVain
  <2> QED BY <2>3, <2>4, <2>5
<1>9. ASSUME NEW w \in Workers, NEW o \in {"ok", "error"}, Refresh(w, o)
      PROVE  LedgerStep
  <2>1. status' = status /\ ran' = ran /\ pc[w] \in RunPcs
    BY <1>9, SufferFacts DEF IInv, Refresh, db, RunPcs
  <2>2. CASE Release(w, "poll")
    BY <2>1, <2>2, LetsGo
  <2>3. CASE Goto(w, "load")
    <3>1. pc' = [pc EXCEPT ![w] = "load"] /\ job' = job /\ "load" \in RunPcs
      BY <2>3 DEF Goto, RunPcs
    <3> QED BY <2>1, <3>1, MovesOn
  <2> QED BY <1>9, <2>2, <2>3 DEF Refresh
<1>10. ASSUME NEW w \in Workers, NEW o \in {"ok", "error"},
              LoadActions(w, o) \/ MarkRunning(w, o) \/ MarkCompleted(w, o) \/ MarkFailed(w, o)
       PROVE  LedgerStep
  <2>1. status' = status /\ ran' = ran /\ pc[w] \in RunPcs /\ job' = job
    BY <1>10, SufferFacts
       DEF IInv, LoadActions, MarkRunning, MarkCompleted, MarkFailed, UpdateTrack, Goto,
           db, RunPcs
  <2>2. PICK p \in RunPcs : pc' = [pc EXCEPT ![w] = p]
    BY <1>10
       DEF LoadActions, MarkRunning, MarkCompleted, MarkFailed, NextAction, Goto, RunPcs
  <2> QED BY <2>1, <2>2, MovesOn
<1>11. ASSUME NEW w \in Workers, NEW o \in {"ok", "error", "late"}, TrackActions(w, o)
       PROVE  LedgerStep
  <2>1. status' = status /\ ran' = ran /\ pc[w] \in RunPcs /\ job' = job
    BY <1>11, SufferFacts DEF IInv, TrackActions, RunPcs
  <2>2. PICK p \in RunPcs : pc' = [pc EXCEPT ![w] = p]
    BY <1>11 DEF TrackActions, NextAction, RunPcs
  <2> QED BY <2>1, <2>2, MovesOn
<1>12. ASSUME NEW w \in Workers, RunBody(w)
       PROVE  LedgerStep
  <2> DEFINE e == job[w]
             a == plan[w][at[w]]
  <2>1. pc[w] \in RunPcs /\ e \in Executions
    BY <1>12, HeldFacts DEF RunBody, RunPcs
  <2>2. /\ at[w] \in Nat \ {0} /\ at[w] <= Len(plan[w]) /\ HasRun(w, at[w] - 1)
        /\ Distinct(plan[w]) /\ plan[w] \in Seq(Actions)
    BY <1>12 DEF IInv, TypeOK, Progress, OnCourse, RunBody
  <2>3. at[w] \in 1..Len(plan[w]) /\ Len(plan[w]) \in Nat
    BY <2>2, LenProperties
  <2>4. a \in Actions
    BY <2>2, <2>3, ElementOfSeq
  <2>5. \A i \in 1..Len(ran[e]) : ran[e][i] # a
    <3>1. Len(ran[e]) = at[w] - 1 /\ \A i \in 1..at[w]-1 : ran[e][i] = plan[w][i]
      BY <2>2 DEF HasRun
    <3> QED BY <2>2, <2>3, <3>1 DEF Distinct
  <2>6. /\ ran' = [ran EXCEPT ![e] = Append(@, a)] /\ status' = status /\ job' = job
        /\ \A v \in Workers \ {w} : pc'[v] = pc[v]
        /\ pc'[w] \in RunPcs
    BY <1>12 DEF IInv, TypeOK, RunBody, Goto, db, RunPcs
  <2>7. Holders' = Holders
    BY <2>1, <2>6, MoveHolders
  <2>8. Holders[e] = w
    BY <2>1, HolderIs DEF Holders, Executes
  <2> HIDE DEF e, a
  <2> QED BY <2>1, <2>4, <2>5, <2>6, <2>7, <2>8, Works
<1>13. ASSUME NEW w \in Workers, NEW o \in {"ok", "error"}, NEW s \in {"completed", "failed"},
              pc[w] \in RunPcs, EndExecution(w, s, o)
       PROVE  LedgerStep
  <2>1. Release(w, "poll") /\ ran' = ran /\ job[w] \in Executions
    BY <1>13, HeldFacts, SufferFacts DEF IInv, EndExecution
  <2>2. status[job[w]] \in {"running", "deleted"}
    BY <1>13 DEF IInv, HeldIsRunning
  <2>3. CASE status' = status
    BY <2>1, <2>3, LetsGo
  <2>4. CASE status[job[w]] = "running" /\ status' = [status EXCEPT ![job[w]] = s]
    <3>1. Holders[job[w]] = w /\ Holders' = [Holders EXCEPT ![job[w]] = None]
      BY <1>13, <2>1, ReleaseHolders DEF Executes
    <3> QED BY <2>1, <2>4, <3>1, Finishes
  <2> QED BY <1>13, <2>2, <2>3, <2>4 DEF EndExecution, RowExists
<1>14. ASSUME NEW w \in Workers, NEW o \in {"ok", "error"}, Complete(w, o) \/ Fail(w, o)
       PROVE  LedgerStep
  BY <1>13, <1>14 DEF Complete, Fail, RunPcs
<1>15. ASSUME NEW w \in Workers, Crash(w)
       PROVE  LedgerStep
  BY <1>15, LetsGo DEF Crash, db
<1>16. ASSUME NEW w \in Workers, Start(w)
       PROVE  LedgerStep
  <2>1. Holders' = Holders
    BY <1>16, MoveHolders DEF IInv, TypeOK, Start, Goto, RunPcs
  <2> QED BY <1>16, <2>1, Stutters DEF Start, db, history
<1>17. ASSUME NEW w \in Workers, Claiming(w)
       PROVE  LedgerStep
  BY <1>5, <1>6, <1>7, <1>8, <1>9, <1>17 DEF Claiming
<1>18. ASSUME NEW w \in Workers, Running(w)
       PROVE  LedgerStep
  BY <1>10, <1>11, <1>12, <1>14, <1>18 DEF Running
<1>19. CASE Tick \/ UNCHANGED vars
  BY <1>2, <1>19 DEF Tick, vars, db, thread, history
<1> QED BY <1>4, <1>15, <1>16, <1>17, <1>18, <1>19 DEF Next

\* The queue starts where the ledger does.
LEMMA InitSimulation == Init => Ledger!Init
<1> SUFFICES ASSUME Init PROVE Ledger!Init
  OBVIOUS
<1>1. \A e \in Executions : Holder(e) = None
  BY HolderNone DEF Init, Executes, RunPcs
<1> QED BY <1>1 DEF Init, Ledger!Init

\* The queue implements the ledger: each execution is claimed once, worked on
\* and ended by its holder alone, each of its actions run at most once.
THEOREM Refinement == Spec => ImplementsLedger
<1>1. Init => Ledger!Init
  BY InitSimulation
<1>2. IInv /\ IInv' /\ [Next]_vars => [Ledger!Next]_(Ledger!vars)
  BY StepSimulation DEF LedgerStep
<1>3. Spec => Ledger!Init /\ [][Ledger!Next]_(Ledger!vars)
  BY <1>1, <1>2, Invariance, PTL DEF Spec
<1> QED BY <1>3 DEF ImplementsLedger, Ledger!Spec
=============================================================================
