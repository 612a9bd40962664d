------------------------- MODULE ExecutionQueueProofs -------------------------
(***************************************************************************)
(* Proofs about ExecutionQueue, for any number of workers, executions,     *)
(* routines and actions and any budget of errors and crashes: the          *)
(* inductive invariant IInv, the safety properties it implies, and that    *)
(* every step is one JobLedger allows.                                     *)
(***************************************************************************)
EXTENDS ExecutionQueue, SequenceTheorems, TLAPS

-----------------------------------------------------------------------------
(* Lists of distinct actions.                                               *)

\* A function on 1..n is a sequence of length n.
LEMMA FunctionIsSeq ==
    ASSUME NEW S, NEW n \in Nat, NEW f \in [1..n -> S]
    PROVE  f \in Seq(S) /\ Len(f) = n
<1>1. f \in Seq(S)
  BY SeqDef
<1>2. DOMAIN f = 1..Len(f) /\ Len(f) \in Nat
  BY <1>1, LenProperties
<1>3. n <= Len(f)
  <2>1. n = 0 \/ n \in 1..Len(f)
    BY <1>2
  <2> QED BY <2>1, <1>2
<1>4. Len(f) <= n
  <2>1. Len(f) = 0 \/ Len(f) \in 1..n
    BY <1>2
  <2> QED BY <2>1, <1>2
<1> QED BY <1>1, <1>2, <1>3, <1>4

\* Inserting an action a routine does not have keeps its list distinct; nothing
\* else gets in (the list create_action leaves).
LEMMA InsertAtFacts ==
    ASSUME NEW S, NEW s \in Seq(S), NEW a \in S, NEW i \in 1..Len(s)+1
    PROVE  /\ InsertAt(s, i, a) \in Seq(S)
           /\ \A k \in 1..Len(InsertAt(s, i, a)) :
                InsertAt(s, i, a)[k] = a \/ \E m \in 1..Len(s) : InsertAt(s, i, a)[k] = s[m]
           /\ Distinct(s) /\ (\A m \in 1..Len(s) : s[m] # a) => Distinct(InsertAt(s, i, a))
<1> DEFINE u == SubSeq(s, 1, i-1)
           v == SubSeq(s, i, Len(s))
           t == InsertAt(s, i, a)
<1>1. Len(s) \in Nat /\ \A k \in 1..Len(s) : s[k] \in S
  BY LenProperties, ElementOfSeq
<1>2. u \in Seq(S) /\ Len(u) = i-1 /\ \A k \in 1..i-1 : u[k] = s[k]
  <2>1. \A k \in 1..(i-1) : s[k] \in S
    BY <1>1
  <2>2. Len(u) = (IF 1 <= i-1 THEN i-1-1+1 ELSE 0) /\ u \in Seq(S)
        /\ \A k \in 1..(i-1)-1+1 : u[k] = s[1+k-1]
    BY <2>1, <1>1, SubSeqProperties
  <2> QED BY <2>2, <1>1
<1>3. v \in Seq(S) /\ Len(v) = Len(s)-i+1 /\ \A k \in 1..Len(s)-i+1 : v[k] = s[k+i-1]
  <2>1. \A k \in i..Len(s) : s[k] \in S
    BY <1>1
  <2>2. Len(v) = (IF i <= Len(s) THEN Len(s)-i+1 ELSE 0) /\ v \in Seq(S)
        /\ \A k \in 1..Len(s)-i+1 : v[k] = s[i+k-1]
    BY <2>1, <1>1, SubSeqProperties
  <2> QED BY <2>2, <1>1
<1>4. <<a>> \in Seq(S) /\ Len(<<a>>) = 1 /\ <<a>>[1] = a
  OBVIOUS
<1> HIDE DEF u, v
<1> DEFINE x == u \o <<a>>
<1>5. /\ x \in Seq(S)
      /\ Len(x) = i
      /\ \A k \in 1..i : x[k] = IF k < i THEN s[k] ELSE a
  BY <1>1, <1>2, <1>4, ConcatProperties
<1>6. /\ t \in Seq(S)
      /\ Len(t) = Len(s) + 1
      /\ \A k \in 1..Len(s)+1 :
            t[k] = IF k < i THEN s[k] ELSE IF k = i THEN a ELSE s[k-1]
  <2>1. t = x \o v
    BY DEF InsertAt, u, v
  <2> HIDE DEF t, x
  <2>2. /\ t \in Seq(S)
        /\ Len(t) = i + (Len(s)-i+1)
        /\ \A k \in 1..i + (Len(s)-i+1) :
              t[k] = IF k <= i THEN x[k] ELSE v[k-i]
    BY <2>1, <1>3, <1>5, ConcatProperties
  <2>3. ASSUME NEW k \in 1..Len(s)+1
        PROVE  t[k] = IF k < i THEN s[k] ELSE IF k = i THEN a ELSE s[k-1]
    <3>1. CASE k <= i
      BY <3>1, <2>2, <1>1, <1>5
    <3>2. CASE k > i
      <4>1. k-i \in 1..Len(s)-i+1 /\ (k-i)+i-1 = k-1
        BY <3>2, <1>1
      <4>2. t[k] = v[k-i]
        BY <3>2, <2>2, <1>1
      <4> QED BY <4>1, <4>2, <3>2, <1>3
    <3> QED BY <3>1, <3>2, <1>1
  <2>4. Len(t) = Len(s) + 1
    BY <2>2, <1>1
  <2>5. \A k \in 1..Len(s)+1 : t[k] = IF k < i THEN s[k] ELSE IF k = i THEN a ELSE s[k-1]
    BY <2>3
  <2> QED BY <2>2, <2>4, <2>5
<1> HIDE DEF t
<1>7. \A k \in 1..Len(t) : t[k] = a \/ \E m \in 1..Len(s) : t[k] = s[m]
  <2> SUFFICES ASSUME NEW k \in 1..Len(t), t[k] # a
               PROVE  \E m \in 1..Len(s) : t[k] = s[m]
    OBVIOUS
  <2>1. k \in 1..Len(s)+1 /\ k # i
    BY <1>1, <1>6
  <2>2. CASE k < i
    BY <2>1, <2>2, <1>1, <1>6, SMTT(40)
  <2>3. CASE k > i
    <3>1. k-1 \in 1..Len(s)
      BY <2>1, <2>3, <1>1
    <3> QED BY <2>1, <2>3, <3>1, <1>6
  <2> QED BY <2>1, <2>2, <2>3, <1>1
<1>8. ASSUME Distinct(s), \A m \in 1..Len(s) : s[m] # a
      PROVE  Distinct(t)
  <2> DEFINE old(k) == IF k < i THEN k ELSE k-1
  <2>1. \A k \in 1..Len(s)+1 : k # i => old(k) \in 1..Len(s) /\ t[k] = s[old(k)]
    BY <1>1, <1>6
  <2>2. \A k, m \in 1..Len(s)+1 : k # i /\ m # i /\ old(k) = old(m) => k = m
    BY <1>1
  <2>3. t[i] = a
    BY <1>1, <1>6
  <2> HIDE DEF old
  <2>4. \A k, m \in 1..Len(s)+1 : t[k] = t[m] => k = m
    BY <1>8, <2>1, <2>2, <2>3 DEF Distinct
  <2> QED BY <2>4, <1>6 DEF Distinct
<1> QED BY <1>6, <1>7, <1>8 DEF t

\* Removing an action keeps a list distinct; nothing gets in (delete_action).
LEMMA RemoveAtFacts ==
    ASSUME NEW S, NEW s \in Seq(S), NEW i \in 1..Len(s)
    PROVE  /\ RemoveAt(s, i) \in Seq(S)
           /\ \A k \in 1..Len(RemoveAt(s, i)) :
                \E m \in 1..Len(s) : RemoveAt(s, i)[k] = s[m]
           /\ Distinct(s) => Distinct(RemoveAt(s, i))
<1> DEFINE u == SubSeq(s, 1, i-1)
           v == SubSeq(s, i+1, Len(s))
           t == RemoveAt(s, i)
           old(k) == IF k < i THEN k ELSE k+1
<1>1. Len(s) \in Nat /\ \A k \in 1..Len(s) : s[k] \in S
  BY LenProperties, ElementOfSeq
<1>2. u \in Seq(S) /\ Len(u) = i-1 /\ \A k \in 1..i-1 : u[k] = s[k]
  <2>1. \A k \in 1..(i-1) : s[k] \in S
    BY <1>1
  <2>2. Len(u) = (IF 1 <= i-1 THEN i-1-1+1 ELSE 0) /\ u \in Seq(S)
        /\ \A k \in 1..(i-1)-1+1 : u[k] = s[1+k-1]
    BY <2>1, <1>1, SubSeqProperties
  <2> QED BY <2>2, <1>1
<1>3. v \in Seq(S) /\ Len(v) = Len(s)-i /\ \A k \in 1..Len(s)-i : v[k] = s[k+i]
  <2>1. \A k \in (i+1)..Len(s) : s[k] \in S
    BY <1>1
  <2>2. Len(v) = (IF i+1 <= Len(s) THEN Len(s)-(i+1)+1 ELSE 0) /\ v \in Seq(S)
        /\ \A k \in 1..Len(s)-(i+1)+1 : v[k] = s[(i+1)+k-1]
    BY <2>1, <1>1, SubSeqProperties
  <2> QED BY <2>2, <1>1
<1>4. t = u \o v
  BY DEF RemoveAt
<1> HIDE DEF u, v, t
<1>5. /\ t \in Seq(S)
      /\ Len(t) = Len(s)-1
      /\ \A k \in 1..Len(s)-1 : t[k] = s[old(k)] /\ old(k) \in 1..Len(s)
  <2>1. /\ t \in Seq(S)
        /\ Len(t) = (i-1) + (Len(s)-i)
        /\ \A k \in 1..(i-1) + (Len(s)-i) :
              t[k] = IF k <= i-1 THEN u[k] ELSE v[k-(i-1)]
    <3>1. /\ t \in Seq(S)
          /\ Len(t) = Len(u) + Len(v)
          /\ \A k \in 1..Len(u) + Len(v) :
                t[k] = IF k <= Len(u) THEN u[k] ELSE v[k-Len(u)]
      BY <1>2, <1>3, <1>4, ConcatProperties, Zenon
    <3> QED BY <3>1, <1>2, <1>3
  <2>2. ASSUME NEW k \in 1..Len(s)-1
        PROVE  t[k] = s[old(k)] /\ old(k) \in 1..Len(s)
    <3>1. CASE k < i
      BY <3>1, <2>1, <1>1, <1>2, SMTT(40)
    <3>2. CASE k >= i
      <4>1. k-(i-1) \in 1..Len(s)-i /\ (k-(i-1))+i = k+1
        BY <3>2, <1>1
      <4>2. t[k] = v[k-(i-1)]
        BY <3>2, <2>1, <1>1
      <4> QED BY <4>1, <4>2, <3>2, <1>1, <1>3
    <3> QED BY <3>1, <3>2, <1>1
  <2>3. Len(t) = Len(s)-1
    BY <2>1, <1>1
  <2>4. \A k \in 1..Len(s)-1 : t[k] = s[old(k)] /\ old(k) \in 1..Len(s)
    BY <2>2
  <2> QED BY <2>1, <2>3, <2>4
<1>6. \A k, m \in 1..Len(s)-1 : old(k) = old(m) => k = m
  BY <1>1
<1> HIDE DEF old
<1>7. \A k \in 1..Len(t) : \E m \in 1..Len(s) : t[k] = s[m]
  BY <1>5
<1>8. Distinct(s) => Distinct(t)
  BY <1>5, <1>6, SMTT(40) DEF Distinct
<1> QED BY <1>5, <1>7, <1>8 DEF t

\* Exchanging two actions keeps a list distinct; nothing gets in (update_action).
LEMMA SwapFacts ==
    ASSUME NEW S, NEW s \in Seq(S), NEW i \in 1..Len(s), NEW j \in 1..Len(s), i # j
    PROVE  /\ Swapped(s, i, j) \in Seq(S)
           /\ \A k \in 1..Len(Swapped(s, i, j)) :
                \E m \in 1..Len(s) : Swapped(s, i, j)[k] = s[m]
           /\ Distinct(s) => Distinct(Swapped(s, i, j))
<1> DEFINE t == Swapped(s, i, j)
<1>1. Len(s) \in Nat /\ s \in [1..Len(s) -> S]
  BY LenProperties
<1>2. t \in [1..Len(s) -> S]
  BY <1>1 DEF Swapped
<1>3. t \in Seq(S) /\ Len(t) = Len(s)
  BY <1>1, <1>2, FunctionIsSeq
<1>4. \A k \in 1..Len(s) : t[k] = IF k = i THEN s[j] ELSE IF k = j THEN s[i] ELSE s[k]
  BY <1>1 DEF Swapped
<1> HIDE DEF t
<1>5. \A k \in 1..Len(t) : \E m \in 1..Len(s) : t[k] = s[m]
  BY <1>3, <1>4
<1>6. Distinct(s) => Distinct(t)
  BY <1>3, <1>4 DEF Distinct
<1> QED BY <1>3, <1>5, <1>6 DEF t

\* Permuting a list of distinct actions keeps it so (reorder_actions).
LEMMA PermuteFacts ==
    ASSUME NEW S, NEW s \in Seq(S), NEW p \in [1..Len(s) -> 1..Len(s)],
           IsInjective(p)
    PROVE  /\ Permuted(s, p) \in Seq(S)
           /\ \A k \in 1..Len(Permuted(s, p)) :
                \E m \in 1..Len(s) : Permuted(s, p)[k] = s[m]
           /\ Distinct(s) => Distinct(Permuted(s, p))
<1> DEFINE t == Permuted(s, p)
<1>1. Len(s) \in Nat /\ s \in [1..Len(s) -> S]
  BY LenProperties
<1>2. t \in [1..Len(s) -> S]
  BY <1>1 DEF Permuted
<1>3. t \in Seq(S) /\ Len(t) = Len(s)
  BY <1>1, <1>2, FunctionIsSeq
<1>4. \A k \in 1..Len(s) : t[k] = s[p[k]] /\ p[k] \in 1..Len(s)
  BY <1>1 DEF Permuted
<1> HIDE DEF t
<1>5. \A k \in 1..Len(t) : \E m \in 1..Len(s) : t[k] = s[m]
  BY <1>3, <1>4
<1>6. Distinct(s) => Distinct(t)
  BY <1>3, <1>4 DEF Distinct, IsInjective
<1> QED BY <1>3, <1>5, <1>6 DEF t

-----------------------------------------------------------------------------
(* Type correctness.                                                        *)

\* What the outcome of a step does to the environment and the history.
LEMMA SufferFacts ==
    ASSUME TypeOK, NEW w \in Workers, NEW o, Suffer(w, o)
    PROVE  /\ clock' = clock /\ crashes' = crashes /\ ran' = ran /\ passed' = passed
           /\ faults' \in 0..MaxFaults
           /\ hit' \subseteq Executions /\ hit \subseteq hit'
           /\ o # "ok" /\ job[w] # None => job[w] \in hit'
<1>1. CASE o = "ok"
  BY <1>1 DEF Suffer, TypeOK, env, history
<1>2. CASE o # "ok"
  BY <1>2, BoundAssumption DEF Suffer, TypeOK
<1> QED BY <1>1, <1>2

\* A thread that is released forgets everything.
LEMMA ReleaseFacts ==
    ASSUME TypeOK, NEW w \in Workers, NEW p \in Pcs, Release(w, p)
    PROVE  /\ pc' = [pc EXCEPT ![w] = p] /\ pc' \in [Workers -> Pcs]
           /\ job' = [job EXCEPT ![w] = None]
           /\ job' \in [Workers -> Executions \union {None}]
           /\ now' \in [Workers -> Times]
           /\ plan' = [plan EXCEPT ![w] = <<>>] /\ plan' \in [Workers -> Seq(Actions)]
           /\ at' = [at EXCEPT ![w] = 1] /\ at' \in [Workers -> Nat \ {0}]
           /\ known' \in [Workers -> BOOLEAN]
<1>1. 0 \in Times
  BY BoundAssumption DEF Times
<1>2. <<>> \in Seq(Actions)
  BY EmptySeq
<1> QED BY <1>1, <1>2 DEF Release, TypeOK

\* A worker that runs an execution holds a row that was once in the queue.
LEMMA HeldFacts ==
    ASSUME IInv, NEW w \in Workers, pc[w] \in RunPcs \union {"commit"}
    PROVE  job[w] \in Executions /\ routineOf[job[w]] \in Routines
<1>1. pc[w] \notin {"down", "poll", "select"}
  BY DEF RunPcs
<1>2. job[w] \in Executions
  BY <1>1 DEF IInv, TypeOK, Claimed
<1>3. status[job[w]] # "absent"
  BY DEF IInv, Claimed, HeldIsRunning
<1>4. routineOf[job[w]] # None /\ routineOf[job[w]] \in Routines \union {None}
  BY <1>2, <1>3 DEF IInv, TypeOK, RoutineKnown
<1> QED BY <1>2, <1>4

\* Every variable keeps its type.
LEMMA TypeStep ==
    ASSUME IInv, [Next]_vars
    PROVE  TypeOK'
<1>1. ASSUME NEW e \in Executions, NEW r \in Routines, NEW s \in Times,
             Enqueue(e, r, s)
      PROVE  TypeOK'
  BY <1>1 DEF IInv, TypeOK, erasure, Refuse, Enqueue, thread, env, history, ExecutionStatus
<1>2. ASSUME NEW r \in Routines, NEW a \in Actions, NEW i \in 1..Len(actions[r])+1,
             CreateAction(r, a, i)
      PROVE  TypeOK'
  BY <1>2, InsertAtFacts DEF IInv, TypeOK, erasure, Refuse, CreateAction, thread, env, history
<1>3. ASSUME NEW r \in Routines, NEW i \in 1..Len(actions[r]), NEW j \in 1..Len(actions[r]),
             SwapActions(r, i, j)
      PROVE  TypeOK'
  BY <1>3, SwapFacts DEF IInv, TypeOK, erasure, SwapActions, thread, env, history
<1>4. ASSUME NEW r \in Routines, NEW p \in [1..Len(actions[r]) -> 1..Len(actions[r])],
             ReorderActions(r, p)
      PROVE  TypeOK'
  BY <1>4, PermuteFacts DEF IInv, TypeOK, erasure, ReorderActions, thread, env, history
<1>5. ASSUME NEW r \in Routines, NEW i \in 1..Len(actions[r]),
             DeleteAction(r, i)
      PROVE  TypeOK'
  BY <1>5, RemoveAtFacts DEF IInv, TypeOK, erasure, DeleteAction, thread, env, history
<1>6. ASSUME NEW r \in Routines, BeginDeletion(r)
      PROVE  TypeOK'
  BY <1>6 DEF IInv, TypeOK, erasure, BeginDeletion, thread, env, history
<1>24. ASSUME NEW r \in Routines, CommitDeletion(r)
      PROVE  TypeOK'
  BY <1>24, EmptySeq
     DEF IInv, TypeOK, erasure, CommitDeletion, EndDeletion, thread, env, history, ExecutionStatus
<1>25. ASSUME NEW r \in Routines, RollbackDeletion(r)
      PROVE  TypeOK'
  <2>1. faults' \in 0..MaxFaults
    BY <1>25, BoundAssumption DEF IInv, TypeOK, erasure, RollbackDeletion
  <2> QED BY <1>25, <2>1 DEF IInv, TypeOK, erasure, RollbackDeletion, EndDeletion, thread, env, history
<1>26. ASSUME NEW e \in Executions, DeleteRow(e)
      PROVE  TypeOK'
  BY <1>26 DEF IInv, TypeOK, erasure, DeleteRow, thread, env, history
<1>7. CASE Tick
  BY <1>7, BoundAssumption DEF IInv, TypeOK, erasure, Tick, db, thread, history, Times
<1>8. ASSUME NEW w \in Workers, ReadClock(w)
      PROVE  TypeOK'
  BY <1>8 DEF IInv, TypeOK, erasure, ReadClock, db, env, history, Pcs
<1>9. ASSUME NEW w \in Workers, NEW e \in Executions, Select(w, e)
      PROVE  TypeOK'
  BY <1>9 DEF IInv, TypeOK, erasure, Select, Oldest, Ready, Due, db, env, history, Pcs
<1>10. ASSUME NEW w \in Workers, NEW o \in {"ok", "error"},
             SelectNothing(w, o)
      PROVE  TypeOK'
  BY <1>10, SufferFacts, ReleaseFacts DEF IInv, TypeOK, erasure, SelectNothing, db, Pcs
<1>11. ASSUME NEW w \in Workers, NEW o \in {"ok", "error", "late"},
             CommitClaim(w, o)
      PROVE  TypeOK'
  BY <1>11, SufferFacts, ReleaseFacts
     DEF IInv, TypeOK, erasure, CommitClaim, Goto, Pcs, RunPcs, ExecutionStatus
<1>12. ASSUME NEW w \in Workers, NEW o \in {"ok", "error"}, Refresh(w, o)
      PROVE  TypeOK'
  BY <1>12, SufferFacts, ReleaseFacts DEF IInv, TypeOK, erasure, Refresh, Goto, db, Pcs, RunPcs
<1>13. ASSUME NEW w \in Workers, NEW o \in {"ok", "error"}, LoadActions(w, o)
      PROVE  TypeOK'
  <2>1. job[w] \in Executions /\ routineOf[job[w]] \in Routines
    BY <1>13, HeldFacts DEF LoadActions, RunPcs
  <2>2. actions[routineOf[job[w]]] \in Seq(Actions)
    BY <2>1 DEF IInv, TypeOK
  <2>3. plan' \in [Workers -> Seq(Actions)] /\ pc' \in [Workers -> Pcs]
    <3>1. CASE o = "ok"
      BY <1>13, <2>2, <3>1 DEF IInv, TypeOK, erasure, LoadActions, Pcs, RunPcs
    <3>2. CASE o # "ok"
      BY <1>13, <3>2 DEF IInv, TypeOK, erasure, LoadActions, Goto, Pcs, RunPcs
    <3> QED BY <3>1, <3>2
  <2> QED BY <1>13, <2>3, SufferFacts DEF IInv, TypeOK, erasure, LoadActions, Goto, db
<1>14. ASSUME NEW w \in Workers, NEW o \in {"ok", "error", "late"},
             TrackActions(w, o)
      PROVE  TypeOK'
  <2>1. /\ UNCHANGED <<routines, actions, spare, status, routineOf, queuedAt, sched,
                       erasure, now, job, plan, at>>
        /\ Suffer(w, o)
    BY <1>14 DEF TrackActions
  <2>2. track' \in [Executions -> [Actions -> ActionStatus]]
    <3>1. \/ track' = track
          \/ track' = [track EXCEPT ![job[w]] =
                         [a \in Actions |-> IF a \in Planned(w) THEN "pending" ELSE @[a]]]
      BY <1>14 DEF TrackActions
    <3>2. job[w] \in Executions
      BY <1>14, HeldFacts DEF TrackActions, RunPcs
    <3>3. track[job[w]] \in [Actions -> ActionStatus]
      BY <3>2 DEF IInv, TypeOK
    <3>4. [a \in Actions |-> IF a \in Planned(w) THEN "pending" ELSE track[job[w]][a]]
             \in [Actions -> ActionStatus]
      BY <3>3 DEF ActionStatus
    <3> QED BY <3>1, <3>4 DEF IInv, TypeOK
  <2>3. known' \in [Workers -> BOOLEAN]
    <3>1. known' = [known EXCEPT ![w] = (o = "ok" /\ Trackable(w))]
      BY <1>14 DEF TrackActions
    <3> QED BY <3>1 DEF IInv, TypeOK
  <2>4. pc' \in [Workers -> Pcs]
    BY <1>14 DEF IInv, TypeOK, TrackActions, NextAction, Pcs, RunPcs
  <2> QED BY <2>1, <2>2, <2>3, <2>4, SufferFacts DEF IInv, TypeOK, erasure
<1>15. ASSUME NEW w \in Workers, NEW o \in {"ok", "error"}, MarkRunning(w, o)
      PROVE  TypeOK'
  BY <1>15, SufferFacts
     DEF IInv, TypeOK, erasure, MarkRunning, UpdateTrack, Goto, Pcs, RunPcs, ActionStatus
<1>16. ASSUME NEW w \in Workers, RunBody(w)
      PROVE  TypeOK'
  <2>1. plan[w][at[w]] \in Actions
    <3>1. at[w] \in 1..Len(plan[w])
      BY <1>16 DEF IInv, TypeOK, erasure, Progress, OnCourse, RunBody
    <3> QED BY <3>1, ElementOfSeq DEF IInv, TypeOK
  <2>2. ran' \in [Executions -> Seq(Actions)]
    BY <1>16, <2>1, AppendProperties DEF IInv, TypeOK, erasure, RunBody
  <2>3. pc' \in [Workers -> Pcs]
    BY <1>16 DEF IInv, TypeOK, erasure, RunBody, Goto, Pcs, RunPcs
  <2> QED BY <1>16, <2>2, <2>3 DEF IInv, TypeOK, erasure, RunBody, Goto, db, env
<1>17. ASSUME NEW w \in Workers, NEW o \in {"ok", "error"},
             MarkCompleted(w, o)
      PROVE  TypeOK'
  <2>1. track' \in [Executions -> [Actions -> ActionStatus]]
    BY <1>17 DEF IInv, TypeOK, erasure, MarkCompleted, UpdateTrack, ActionStatus
  <2>2. at' \in [Workers -> Nat \ {0}] /\ pc' \in [Workers -> Pcs]
    BY <1>17 DEF IInv, TypeOK, erasure, MarkCompleted, NextAction, Pcs, RunPcs
  <2> QED BY <1>17, <2>1, <2>2, SufferFacts DEF IInv, TypeOK, erasure, MarkCompleted, UpdateTrack
<1>18. ASSUME NEW w \in Workers, NEW o \in {"ok", "error"}, MarkFailed(w, o)
      PROVE  TypeOK'
  BY <1>18, SufferFacts
     DEF IInv, TypeOK, erasure, MarkFailed, UpdateTrack, Goto, Pcs, RunPcs, ActionStatus
<1>19. ASSUME NEW w \in Workers, NEW o \in {"ok", "error"}, Complete(w, o)
      PROVE  TypeOK'
  BY <1>19, SufferFacts, ReleaseFacts
     DEF IInv, TypeOK, erasure, Complete, EndExecution, Pcs, ExecutionStatus
<1>20. ASSUME NEW w \in Workers, NEW o \in {"ok", "error"}, Fail(w, o)
      PROVE  TypeOK'
  BY <1>20, SufferFacts, ReleaseFacts
     DEF IInv, TypeOK, erasure, Fail, EndExecution, Pcs, ExecutionStatus
<1>21. ASSUME NEW w \in Workers, Crash(w)
      PROVE  TypeOK'
  <2>1. crashes' \in 0..MaxCrashes
    BY <1>21, BoundAssumption DEF IInv, TypeOK, erasure, Crash
  <2>2. hit' \subseteq Executions
    BY <1>21 DEF IInv, TypeOK, erasure, Crash
  <2> QED BY <1>21, <2>1, <2>2, ReleaseFacts DEF IInv, TypeOK, erasure, Crash, db, Pcs
<1>22. ASSUME NEW w \in Workers, Start(w)
      PROVE  TypeOK'
  BY <1>22 DEF IInv, TypeOK, erasure, Start, Goto, db, env, history, Pcs, RunPcs
<1>23. CASE UNCHANGED vars
  BY <1>23 DEF IInv, TypeOK, erasure, vars, db, thread, env, history
<1> QED
  BY <1>1, <1>2, <1>3, <1>4, <1>5, <1>6, <1>7, <1>8, <1>9, <1>10, <1>11, <1>12, <1>13,
     <1>14, <1>15, <1>16, <1>17, <1>18, <1>19, <1>20, <1>21, <1>22, <1>23,
     <1>24, <1>25, <1>26
     DEF Next, Caller, Claiming, Running

-----------------------------------------------------------------------------
(* Who holds which row.                                                     *)

HolderInv == Claimed /\ HeldIsRunning /\ SingleHolder /\ RoutineKnown

\* No step gives an execution to two workers or changes its row under a worker.
LEMMA HolderStep ==
    ASSUME IInv, TypeOK', [Next]_vars
    PROVE  HolderInv'
<1>1. ASSUME NEW e \in Executions, NEW r \in Routines, NEW s \in Times,
             Enqueue(e, r, s)
      PROVE  HolderInv'
  BY <1>1, NoneAssumption
     DEF IInv, TypeOK, HolderInv, Claimed, HeldIsRunning, SingleHolder, RoutineKnown,
         Enqueue, thread, RunPcs
<1>2. ASSUME NEW r \in Routines, NEW a \in Actions, NEW i \in 1..Len(actions[r])+1,
             CreateAction(r, a, i)
      PROVE  HolderInv'
  BY <1>2
     DEF IInv, TypeOK, HolderInv, Claimed, HeldIsRunning, SingleHolder, RoutineKnown,
         CreateAction, thread
<1>3. ASSUME NEW r \in Routines, NEW i \in 1..Len(actions[r]), NEW j \in 1..Len(actions[r]),
             SwapActions(r, i, j)
      PROVE  HolderInv'
  BY <1>3
     DEF IInv, TypeOK, HolderInv, Claimed, HeldIsRunning, SingleHolder, RoutineKnown,
         SwapActions, thread
<1>4. ASSUME NEW r \in Routines, NEW p \in [1..Len(actions[r]) -> 1..Len(actions[r])],
             ReorderActions(r, p)
      PROVE  HolderInv'
  BY <1>4
     DEF IInv, TypeOK, HolderInv, Claimed, HeldIsRunning, SingleHolder, RoutineKnown,
         ReorderActions, thread
<1>5. ASSUME NEW r \in Routines, NEW i \in 1..Len(actions[r]),
             DeleteAction(r, i)
      PROVE  HolderInv'
  BY <1>5
     DEF IInv, TypeOK, HolderInv, Claimed, HeldIsRunning, SingleHolder, RoutineKnown,
         DeleteAction, thread
<1>6. ASSUME NEW r \in Routines, CommitDeletion(r)
      PROVE  HolderInv'
  <2>1. pc' = pc /\ job' = job /\ routineOf' = routineOf
    BY <1>6 DEF CommitDeletion, EndDeletion, thread
  <2>2. \A e \in Executions : status'[e] = IF routineOf[e] = r THEN "deleted" ELSE status[e]
    BY <1>6 DEF CommitDeletion
  <2>3. Claimed'
    <3>1. ASSUME NEW w \in Workers, pc[w] = "commit"
          PROVE  status'[job[w]] = "queued"
      <4>1. job[w] \in Executions /\ ~ Gone(job[w]) /\ RowExists(job[w])
        BY <3>1, HeldFacts DEF IInv, OneLock, Claimed, RowExists
      <4>2. routineOf[job[w]] # r
        BY <4>1, <1>6 DEF CommitDeletion
      <4> QED BY <3>1, <4>1, <4>2, <2>2 DEF IInv, Claimed
    <3> QED BY <2>1, <3>1 DEF IInv, Claimed
  <2>4. HeldIsRunning'
    BY <2>1, <2>2, HeldFacts DEF IInv, HeldIsRunning
  <2>5. SingleHolder'
    BY <2>1 DEF IInv, SingleHolder
  <2>6. RoutineKnown'
    BY <2>1, <2>2, NoneAssumption DEF IInv, RoutineKnown
  <2> QED BY <2>3, <2>4, <2>5, <2>6 DEF HolderInv
<1>24. ASSUME NEW r \in Routines, BeginDeletion(r) \/ RollbackDeletion(r)
      PROVE  HolderInv'
  BY <1>24
     DEF IInv, TypeOK, HolderInv, Claimed, HeldIsRunning, SingleHolder, RoutineKnown,
         BeginDeletion, RollbackDeletion, EndDeletion, thread
<1>25. ASSUME NEW e \in Executions, DeleteRow(e)
      PROVE  HolderInv'
  BY <1>25
     DEF IInv, TypeOK, HolderInv, Claimed, HeldIsRunning, SingleHolder, RoutineKnown,
         DeleteRow, thread
<1>7. CASE Tick
  BY <1>7
     DEF IInv, TypeOK, HolderInv, Claimed, HeldIsRunning, SingleHolder, RoutineKnown,
         Tick, db, thread
<1>8. ASSUME NEW w \in Workers, ReadClock(w)
      PROVE  HolderInv'
  BY <1>8
     DEF IInv, TypeOK, HolderInv, Claimed, HeldIsRunning, SingleHolder, RoutineKnown,
         ReadClock, db, RunPcs
<1>9. ASSUME NEW w \in Workers, NEW e \in Executions, Select(w, e)
      PROVE  HolderInv'
  <2>1. status[e] = "queued" /\ ~ Locked(e) /\ pc[w] = "select"
    BY <1>9 DEF Select, Oldest, Ready, Due
  <2>2. \A v \in Workers : job[v] # e
    <3> SUFFICES ASSUME NEW v \in Workers, job[v] = e PROVE FALSE
      OBVIOUS
    <3>1. pc[v] \notin {"down", "poll", "select"}
      BY NoneAssumption DEF IInv, Claimed
    <3>2. pc[v] = "commit" \/ pc[v] \in RunPcs
      BY <3>1 DEF IInv, TypeOK, Pcs
    <3> QED BY <2>1, <3>2 DEF IInv, HeldIsRunning, Locked
  <2>3. pc' = [pc EXCEPT ![w] = "commit"] /\ job' = [job EXCEPT ![w] = e]
        /\ status' = status /\ routineOf' = routineOf
    BY <1>9 DEF Select, db
  <2>4. Claimed'
    BY <2>1, <2>3, NoneAssumption DEF IInv, TypeOK, Claimed
  <2>5. HeldIsRunning' /\ RoutineKnown'
    BY <2>3 DEF IInv, TypeOK, HeldIsRunning, RoutineKnown, RunPcs
  <2>6. SingleHolder'
    BY <2>2, <2>3 DEF IInv, TypeOK, SingleHolder
  <2> QED BY <2>4, <2>5, <2>6 DEF HolderInv
<1>10. ASSUME NEW w \in Workers, NEW o \in {"ok", "error"},
             SelectNothing(w, o)
      PROVE  HolderInv'
  BY <1>10
     DEF IInv, TypeOK, HolderInv, Claimed, HeldIsRunning, SingleHolder, RoutineKnown,
         SelectNothing, Release, db, RunPcs
<1>11. ASSUME NEW w \in Workers, NEW o \in {"ok", "error", "late"},
             CommitClaim(w, o)
      PROVE  HolderInv'
  <2>1. pc[w] = "commit" /\ job[w] \in Executions /\ status[job[w]] = "queued"
    BY <1>11, HeldFacts DEF CommitClaim, IInv, Claimed
  <2>2. \A v \in Workers : v # w => job[v] # job[w]
    BY <2>1, NoneAssumption DEF IInv, SingleHolder
  <2>3. /\ status' = status \/ status' = [status EXCEPT ![job[w]] = "running"]
        /\ routineOf' = routineOf
    BY <1>11 DEF CommitClaim
  <2>4. \/ /\ pc' = [pc EXCEPT ![w] = "refresh"] /\ job' = job
           /\ status' = [status EXCEPT ![job[w]] = "running"]
        \/ pc' = [pc EXCEPT ![w] = "poll"] /\ job' = [job EXCEPT ![w] = None]
    BY <1>11 DEF CommitClaim, Goto, Release
  <2>5. ASSUME NEW v \in Workers, v # w
        PROVE  /\ pc'[v] = pc[v] /\ job'[v] = job[v]
               /\ job[v] # None => status'[job[v]] = status[job[v]]
    <3>1. pc'[v] = pc[v] /\ job'[v] = job[v]
      BY <2>4, <2>5 DEF IInv, TypeOK
    <3>2. ASSUME job[v] # None PROVE status'[job[v]] = status[job[v]]
      <4>1. job[v] \in Executions /\ job[v] # job[w]
        BY <3>2, <2>2, <2>5 DEF IInv, TypeOK
      <4> QED BY <4>1, <2>3 DEF IInv, TypeOK
    <3> QED BY <3>1, <3>2
  <2>6. \/ pc'[w] = "refresh" /\ job'[w] = job[w] /\ status'[job[w]] = "running"
        \/ pc'[w] = "poll" /\ job'[w] = None
    BY <2>1, <2>4 DEF IInv, TypeOK
  <2>7. Claimed'
    <3> SUFFICES ASSUME NEW v \in Workers
                 PROVE  /\ job'[v] = None <=> pc'[v] \in {"down", "poll", "select"}
                        /\ pc'[v] = "commit" => status'[job'[v]] = "queued"
      BY DEF Claimed
    <3>1. CASE v = w
      BY <3>1, <2>1, <2>6, NoneAssumption
    <3>2. CASE v # w
      BY <3>2, <2>5 DEF IInv, Claimed
    <3> QED BY <3>1, <3>2
  <2>8. HeldIsRunning'
    <3> SUFFICES ASSUME NEW v \in Workers, pc'[v] \in RunPcs
                 PROVE  status'[job'[v]] \in {"running", "deleted"}
      BY DEF HeldIsRunning
    <3>1. CASE v = w
      BY <3>1, <2>6 DEF RunPcs
    <3>2. CASE v # w
      BY <3>2, <2>5, HeldFacts, NoneAssumption DEF IInv, HeldIsRunning
    <3> QED BY <3>1, <3>2
  <2>9. SingleHolder'
    BY <2>2, <2>5, <2>6 DEF IInv, SingleHolder
  <2>10. RoutineKnown'
    BY <2>1, <2>3 DEF IInv, TypeOK, RoutineKnown
  <2> QED BY <2>7, <2>8, <2>9, <2>10 DEF HolderInv
<1>12. ASSUME NEW w \in Workers, NEW o \in {"ok", "error"}, Refresh(w, o)
      PROVE  HolderInv'
  <2>1. pc[w] = "refresh" /\ status' = status /\ routineOf' = routineOf
    BY <1>12 DEF Refresh, db
  <2>2. \/ pc' = [pc EXCEPT ![w] = "load"] /\ job' = job
        \/ pc' = [pc EXCEPT ![w] = "poll"] /\ job' = [job EXCEPT ![w] = None]
    BY <1>12 DEF Refresh, Goto, Release
  <2>3. CASE pc' = [pc EXCEPT ![w] = "load"] /\ job' = job
    BY <2>1, <2>3
       DEF IInv, TypeOK, HolderInv, Claimed, HeldIsRunning, SingleHolder, RoutineKnown,
           RunPcs
  <2>4. CASE pc' = [pc EXCEPT ![w] = "poll"] /\ job' = [job EXCEPT ![w] = None]
    BY <2>1, <2>4
       DEF IInv, TypeOK, HolderInv, Claimed, HeldIsRunning, SingleHolder, RoutineKnown,
           RunPcs
  <2> QED BY <2>2, <2>3, <2>4
<1>13. ASSUME NEW w \in Workers, NEW o \in {"ok", "error"}, LoadActions(w, o)
      PROVE  HolderInv'
  <2>1. pc[w] = "load" /\ UNCHANGED <<status, routineOf, job>>
    BY <1>13 DEF LoadActions, Goto, db
  <2>2. \/ pc' = [pc EXCEPT ![w] = "track"]
        \/ pc' = [pc EXCEPT ![w] = "failExec"]
    BY <1>13 DEF LoadActions, Goto
  <2>3. SingleHolder' /\ RoutineKnown'
    BY <2>1 DEF IInv, SingleHolder, RoutineKnown
  <2>4. \A v \in Workers : /\ pc[v] \in RunPcs <=> pc'[v] \in RunPcs
                           /\ pc[v] = "commit" <=> pc'[v] = "commit"
                           /\ pc[v] \in {"down", "poll", "select"}
                                <=> pc'[v] \in {"down", "poll", "select"}
    BY <2>1, <2>2 DEF IInv, TypeOK, RunPcs
  <2>5. Claimed'
    BY <2>1, <2>4 DEF IInv, Claimed
  <2>6. HeldIsRunning'
    BY <2>1, <2>4 DEF IInv, HeldIsRunning
  <2> QED BY <2>3, <2>5, <2>6 DEF HolderInv
<1>14. ASSUME NEW w \in Workers, NEW o \in {"ok", "error", "late"},
             TrackActions(w, o)
      PROVE  HolderInv'
  <2>1. pc[w] = "track" /\ UNCHANGED <<status, routineOf, job>>
    BY <1>14 DEF TrackActions
  <2>2. \/ pc' = [pc EXCEPT ![w] = "mark"]
        \/ pc' = [pc EXCEPT ![w] = "finish"]
    BY <1>14 DEF TrackActions, NextAction
  <2>3. SingleHolder' /\ RoutineKnown'
    BY <2>1 DEF IInv, SingleHolder, RoutineKnown
  <2>4. \A v \in Workers : /\ pc[v] \in RunPcs <=> pc'[v] \in RunPcs
                           /\ pc[v] = "commit" <=> pc'[v] = "commit"
                           /\ pc[v] \in {"down", "poll", "select"}
                                <=> pc'[v] \in {"down", "poll", "select"}
    BY <2>1, <2>2 DEF IInv, TypeOK, RunPcs
  <2>5. Claimed'
    BY <2>1, <2>4 DEF IInv, Claimed
  <2>6. HeldIsRunning'
    BY <2>1, <2>4 DEF IInv, HeldIsRunning
  <2> QED BY <2>3, <2>5, <2>6 DEF HolderInv
<1>15. ASSUME NEW w \in Workers, NEW o \in {"ok", "error"}, MarkRunning(w, o)
      PROVE  HolderInv'
  BY <1>15
     DEF IInv, TypeOK, HolderInv, Claimed, HeldIsRunning, SingleHolder, RoutineKnown,
         MarkRunning, UpdateTrack, Goto, RunPcs
<1>16. ASSUME NEW w \in Workers, RunBody(w)
      PROVE  HolderInv'
  BY <1>16
     DEF IInv, TypeOK, HolderInv, Claimed, HeldIsRunning, SingleHolder, RoutineKnown,
         RunBody, Goto, db, RunPcs
<1>17. ASSUME NEW w \in Workers, NEW o \in {"ok", "error"},
             MarkCompleted(w, o)
      PROVE  HolderInv'
  BY <1>17
     DEF IInv, TypeOK, HolderInv, Claimed, HeldIsRunning, SingleHolder, RoutineKnown,
         MarkCompleted, UpdateTrack, NextAction, RunPcs
<1>18. ASSUME NEW w \in Workers, NEW o \in {"ok", "error"}, MarkFailed(w, o)
      PROVE  HolderInv'
  BY <1>18
     DEF IInv, TypeOK, HolderInv, Claimed, HeldIsRunning, SingleHolder, RoutineKnown,
         MarkFailed, UpdateTrack, Goto, RunPcs
<1>19. ASSUME NEW w \in Workers, NEW o \in {"ok", "error"}, Complete(w, o)
      PROVE  HolderInv'
  BY <1>19, SMTT(40)
     DEF IInv, TypeOK, HolderInv, Claimed, HeldIsRunning, SingleHolder, RoutineKnown,
         Complete, EndExecution, Release, RowExists, RunPcs
<1>20. ASSUME NEW w \in Workers, NEW o \in {"ok", "error"}, Fail(w, o)
      PROVE  HolderInv'
  BY <1>20, SMTT(40)
     DEF IInv, TypeOK, HolderInv, Claimed, HeldIsRunning, SingleHolder, RoutineKnown,
         Fail, EndExecution, Release, RowExists, RunPcs
<1>21. ASSUME NEW w \in Workers, Crash(w)
      PROVE  HolderInv'
  BY <1>21
     DEF IInv, TypeOK, HolderInv, Claimed, HeldIsRunning, SingleHolder, RoutineKnown,
         Crash, Release, db, RunPcs
<1>22. ASSUME NEW w \in Workers, Start(w)
      PROVE  HolderInv'
  BY <1>22
     DEF IInv, TypeOK, HolderInv, Claimed, HeldIsRunning, SingleHolder, RoutineKnown,
         Start, Goto, db, RunPcs
<1>23. CASE UNCHANGED vars
  BY <1>23
     DEF IInv, TypeOK, HolderInv, Claimed, HeldIsRunning, SingleHolder, RoutineKnown,
         vars, db, thread
<1> QED
  BY <1>1, <1>2, <1>3, <1>4, <1>5, <1>6, <1>7, <1>8, <1>9, <1>10, <1>11, <1>12, <1>13,
     <1>14, <1>15, <1>16, <1>17, <1>18, <1>19, <1>20, <1>21, <1>22, <1>23,
     <1>24, <1>25
     DEF Next, Caller, Claiming, Running

\* No worker locks a row a deletion has locked, and the other way round.
LEMMA LockStep ==
    ASSUME IInv, TypeOK', [Next]_vars
    PROVE  OneLock'
<1> DEFINE Calm == /\ \A w \in Workers : pc'[w] = "commit" => pc[w] = "commit" /\ job'[w] = job[w]
                   /\ \A e \in Executions : Gone(e)' => Gone(e)
<1>1. ASSUME Calm
      PROVE  OneLock'
  <2>1. \A w \in Workers : pc[w] = "commit" => job[w] \in Executions
    BY HeldFacts
  <2> QED BY <1>1, <2>1 DEF IInv, OneLock
<1>2. ASSUME NEW w \in Workers, NEW e \in Executions, Select(w, e)
      PROVE  OneLock'
  <2>1. /\ ~ Gone(e) /\ doom' = doom
        /\ \A v \in Workers : v # w => pc'[v] = pc[v] /\ job'[v] = job[v]
        /\ job'[w] = e
    BY <1>2 DEF Select, Oldest, Ready, db, erasure, IInv, TypeOK
  <2> QED BY <2>1 DEF IInv, OneLock, Gone
<1>3. ASSUME NEW e \in Executions, DeleteRow(e)
      PROVE  OneLock'
  <2>1. /\ ~ Locked(e) /\ pc' = pc /\ job' = job
        /\ \A f \in Executions : Gone(f)' => Gone(f) \/ f = e
    BY <1>3 DEF DeleteRow, thread, Gone, IInv, TypeOK
  <2>2. \A w \in Workers : pc[w] = "commit" => job[w] \in Executions
    BY HeldFacts
  <2> QED BY <2>1, <2>2 DEF IInv, OneLock, Locked
<1> HIDE DEF Calm
<1>4. CASE UNCHANGED <<pc, job>> /\ \A e \in Executions : Gone(e)' => Gone(e)
  BY <1>1, <1>4 DEF Calm
<1>5. CASE Caller
  <2>1. ASSUME NEW r \in Routines,
               BeginDeletion(r) \/ CommitDeletion(r) \/ RollbackDeletion(r)
        PROVE  OneLock'
    <3>1. UNCHANGED <<pc, job>> /\ \A e \in Executions : Gone(e)' => Gone(e)
      BY <2>1 DEF BeginDeletion, CommitDeletion, RollbackDeletion, EndDeletion, thread, Gone
    <3> QED BY <1>4, <3>1
  <2>2. ASSUME UNCHANGED <<pc, job, doom>>
        PROVE  OneLock'
    BY <1>4, <2>2 DEF Gone
  <2> QED BY <1>3, <1>5, <2>1, <2>2
          DEF Caller, Enqueue, CreateAction, SwapActions, ReorderActions, DeleteAction, thread, erasure
\* A worker that goes on with what it has, or lets go of it.
<1>6. ASSUME NEW w \in Workers, NEW p \in Pcs \ {"commit"}, doom' = doom,
             \/ Release(w, p)
             \/ job' = job /\ pc' = [pc EXCEPT ![w] = p]
      PROVE  OneLock'
  <2>1. /\ \A v \in Workers : pc'[v] = "commit" => pc[v] = "commit" /\ job'[v] = job[v]
        /\ \A e \in Executions : Gone(e)' => Gone(e)
    BY <1>6 DEF Release, IInv, TypeOK, Gone
  <2> QED BY <1>1, <2>1 DEF Calm
<1>7. ASSUME NEW w \in Workers, Claiming(w)
      PROVE  OneLock'
  <2>1. ASSUME ReadClock(w)
        PROVE  OneLock'
    BY <1>6, <2>1 DEF ReadClock, db, erasure, Pcs
  <2>2. ASSUME NEW o, SelectNothing(w, o) \/ Refresh(w, o) \/ CommitClaim(w, o)
        PROVE  OneLock'
    <3>1. doom' = doom /\ \E p \in {"poll", "load", "refresh"} : Goto(w, p) \/ Release(w, p)
      BY <2>2 DEF SelectNothing, Refresh, CommitClaim, db, erasure
    <3> QED BY <1>6, <3>1 DEF Goto, Pcs, RunPcs
  <2> QED BY <1>2, <1>7, <2>1, <2>2 DEF Claiming
<1>8. ASSUME NEW w \in Workers, Running(w)
      PROVE  OneLock'
  <2>1. doom' = doom
    BY <1>8 DEF Running, RunBody, LoadActions, MarkRunning, MarkCompleted, MarkFailed,
                UpdateTrack, TrackActions, Complete, Fail, EndExecution, db, erasure
  <2>2. ASSUME NEW o, Complete(w, o) \/ Fail(w, o)
        PROVE  OneLock'
    BY <1>6, <2>1, <2>2 DEF Complete, Fail, EndExecution, Pcs
  <2>3. ASSUME NEW o, \/ RunBody(w) \/ LoadActions(w, o) \/ MarkRunning(w, o) \/ MarkCompleted(w, o)
                      \/ MarkFailed(w, o) \/ TrackActions(w, o)
        PROVE  OneLock'
    <3>1. job' = job /\ \E p \in RunPcs : pc' = [pc EXCEPT ![w] = p]
      BY <2>3 DEF RunBody, LoadActions, MarkRunning, MarkCompleted, MarkFailed, TrackActions,
                  NextAction, Goto, RunPcs
    <3> QED BY <1>6, <2>1, <3>1 DEF Pcs, RunPcs
  <2> QED BY <1>8, <2>2, <2>3 DEF Running
<1>9. ASSUME NEW w \in Workers, Crash(w) \/ Start(w)
      PROVE  OneLock'
  BY <1>6, <1>9 DEF Crash, Start, Goto, db, erasure, Pcs
<1>10. CASE Tick \/ UNCHANGED vars
  BY <1>4, <1>10 DEF Tick, vars, db, erasure, thread, Gone
<1> QED BY <1>5, <1>7, <1>8, <1>9, <1>10 DEF Next

-----------------------------------------------------------------------------
(* What has run.                                                            *)

\* No edit puts an action in a list twice.
LEMMA ListStep ==
    ASSUME IInv, TypeOK', [Next]_vars
    PROVE  ActionsDistinct'
<1> USE DEF ActionsDistinct
<1>1. ASSUME NEW r \in Routines, NEW a \in Actions, NEW i \in 1..Len(actions[r])+1,
             CreateAction(r, a, i)
      PROVE  ActionsDistinct'
  <2> DEFINE t == InsertAt(actions[r], i, a)
  <2>1. actions[r] \in Seq(Actions) /\ Distinct(actions[r])
        /\ a \in spare /\ \A k \in 1..Len(actions[r]) : actions[r][k] \notin spare
    BY <1>1 DEF IInv, TypeOK, CreateAction
  <2>2. Distinct(t) /\ \A k \in 1..Len(t) : t[k] \notin spare \ {a}
    <3>1. \A k \in 1..Len(t) : t[k] = a \/ \E m \in 1..Len(actions[r]) : t[k] = actions[r][m]
      BY <2>1, InsertAtFacts
    <3>2. Distinct(t)
      BY <2>1, InsertAtFacts
    <3> QED BY <2>1, <3>1, <3>2
  <2> HIDE DEF t
  <2>3. actions' = [actions EXCEPT ![r] = t] /\ spare' = spare \ {a}
    BY <1>1 DEF CreateAction, t
  <2> QED BY <2>2, <2>3 DEF IInv, TypeOK
<1>2. ASSUME NEW r \in Routines, NEW t, actions' = [actions EXCEPT ![r] = t],
             Distinct(actions[r]) => Distinct(t),
             \A k \in 1..Len(t) : \E m \in 1..Len(actions[r]) : t[k] = actions[r][m],
             spare' = spare
      PROVE  ActionsDistinct'
  BY <1>2 DEF IInv, TypeOK
<1>3. ASSUME NEW r \in Routines, NEW i \in 1..Len(actions[r]), NEW j \in 1..Len(actions[r]),
             SwapActions(r, i, j)
      PROVE  ActionsDistinct'
  <2>0. PICK s : s = actions[r]
    OBVIOUS
  <2>1. s \in Seq(Actions) /\ i \in 1..Len(s) /\ j \in 1..Len(s) /\ i # j
    BY <1>3, <2>0 DEF IInv, TypeOK, SwapActions
  <2> DEFINE t == Swapped(s, i, j)
  <2>2. Distinct(s) => Distinct(t)
    BY <2>1, SwapFacts
  <2>3. \A k \in 1..Len(t) : \E m \in 1..Len(s) : t[k] = s[m]
    BY <2>1, SwapFacts
  <2>4. actions' = [actions EXCEPT ![r] = t] /\ spare' = spare
    BY <1>3, <2>0 DEF SwapActions
  <2> HIDE DEF t
  <2> QED BY <1>2, <2>0, <2>2, <2>3, <2>4
<1>4. ASSUME NEW r \in Routines, NEW p \in [1..Len(actions[r]) -> 1..Len(actions[r])],
             ReorderActions(r, p)
      PROVE  ActionsDistinct'
  <2>0. PICK s : s = actions[r]
    OBVIOUS
  <2>1. s \in Seq(Actions) /\ p \in [1..Len(s) -> 1..Len(s)] /\ IsInjective(p)
    BY <1>4, <2>0 DEF IInv, TypeOK, ReorderActions
  <2> DEFINE t == Permuted(s, p)
  <2>2. Distinct(s) => Distinct(t)
    BY <2>1, PermuteFacts
  <2>3. \A k \in 1..Len(t) : \E m \in 1..Len(s) : t[k] = s[m]
    BY <2>1, PermuteFacts
  <2>4. actions' = [actions EXCEPT ![r] = t] /\ spare' = spare
    BY <1>4, <2>0 DEF ReorderActions
  <2> HIDE DEF t
  <2> QED BY <1>2, <2>0, <2>2, <2>3, <2>4
<1>5. ASSUME NEW r \in Routines, NEW i \in 1..Len(actions[r]), DeleteAction(r, i)
      PROVE  ActionsDistinct'
  <2> DEFINE t == RemoveAt(actions[r], i)
  <2>1. actions[r] \in Seq(Actions)
    BY DEF IInv, TypeOK
  <2>2. /\ Distinct(actions[r]) => Distinct(t)
        /\ \A k \in 1..Len(t) : \E m \in 1..Len(actions[r]) : t[k] = actions[r][m]
    BY <2>1, RemoveAtFacts
  <2>3. actions' = [actions EXCEPT ![r] = t] /\ spare' = spare
    BY <1>5 DEF DeleteAction
  <2> QED BY <1>2, <2>2, <2>3
<1>6. ASSUME NEW r \in Routines, CommitDeletion(r)
      PROVE  ActionsDistinct'
  <2>1. actions' = [actions EXCEPT ![r] = <<>>] /\ spare' = spare
    BY <1>6 DEF CommitDeletion, EndDeletion
  <2>2. Len(<<>>) = 0
    OBVIOUS
  <2> QED BY <2>1, <2>2 DEF IInv, TypeOK, Distinct
<1>7. CASE UNCHANGED <<actions, spare>>
  BY <1>7 DEF IInv
<1>8. CASE Caller
  <2>1. ASSUME NEW e \in Executions, NEW r \in Routines, NEW s \in Times, Enqueue(e, r, s)
        PROVE  ActionsDistinct'
    BY <1>7, <2>1 DEF Enqueue
  <2>2. ASSUME NEW r \in Routines, BeginDeletion(r) \/ RollbackDeletion(r)
        PROVE  ActionsDistinct'
    BY <1>7, <2>2 DEF BeginDeletion, RollbackDeletion, EndDeletion
  <2>3. ASSUME NEW e \in Executions, DeleteRow(e)
        PROVE  ActionsDistinct'
    BY <1>7, <2>3 DEF DeleteRow
  <2> QED BY <1>8, <1>1, <1>3, <1>4, <1>5, <1>6, <2>1, <2>2, <2>3 DEF Caller
<1>9. ASSUME NEW w \in Workers, Claiming(w)
      PROVE  ActionsDistinct'
  BY <1>7, <1>9 DEF Claiming, ReadClock, Select, SelectNothing, CommitClaim, Refresh, db
<1>10. ASSUME NEW w \in Workers, Running(w)
       PROVE  ActionsDistinct'
  BY <1>7, <1>10
     DEF Running, LoadActions, TrackActions, MarkRunning, RunBody, MarkCompleted,
                     MarkFailed, UpdateTrack, Complete, Fail, EndExecution, db
<1>11. CASE Tick \/ (\E w \in Workers : Crash(w) \/ Start(w)) \/ UNCHANGED vars
  BY <1>7, <1>11 DEF Tick, Crash, Start, vars, db
<1> QED BY <1>8, <1>9, <1>10, <1>11 DEF Next

RunInv == NotStarted /\ EachActionOnce /\ Progress

\* Nothing happens to the course of a worker when neither its thread nor what
\* its execution has run changes.
LEMMA SameCourse ==
    ASSUME IInv, NEW v \in Workers, hit \subseteq hit',
           pc'[v] = pc[v], job'[v] = job[v], plan'[v] = plan[v], at'[v] = at[v],
           job[v] # None => ran'[job[v]] = ran[job[v]]
    PROVE  OnCourse(v)'
<1>1. OnCourse(v) /\ pc[v] \in Pcs
  BY DEF IInv, Progress, TypeOK
<1>2. CASE job[v] = None
  <2>1. pc[v] \in {"down", "poll", "select"}
    BY <1>2 DEF IInv, Claimed
  <2> QED BY <1>1, <2>1 DEF OnCourse
<1>3. CASE job[v] # None
  <2>1. ran'[job'[v]] = ran[job[v]]
    BY <1>3
  <2>2. Distinct(plan'[v])
    BY <1>1 DEF OnCourse
  <2>3. HasRun(v, at[v] - 1)' <=> HasRun(v, at[v] - 1)
    BY <2>1 DEF HasRun
  <2>4. HasRun(v, at[v])' <=> HasRun(v, at[v])
    BY <2>1 DEF HasRun
  <2>5. HasRun(v, Len(plan[v]))' <=> HasRun(v, Len(plan[v]))
    BY <2>1 DEF HasRun
  <2>6. HasFailed(v) => HasFailed(v)'
    BY <2>1 DEF HasFailed
  <2> QED BY <1>1, <2>1, <2>2, <2>3, <2>4, <2>5, <2>6 DEF OnCourse
<1> QED BY <1>2, <1>3

\* A step of worker w that has no effect keeps every other worker on course.
LEMMA OtherCourses ==
    ASSUME IInv, NEW w \in Workers, hit \subseteq hit', ran' = ran,
           \A v \in Workers \ {w} : pc'[v] = pc[v] /\ job'[v] = job[v]
                                     /\ plan'[v] = plan[v] /\ at'[v] = at[v],
           OnCourse(w)'
    PROVE  EachActionOnce' /\ Progress'
<1>1. EachActionOnce'
  BY DEF IInv, EachActionOnce
<1>2. \A v \in Workers \ {w} : OnCourse(v)'
  BY SameCourse
<1> QED BY <1>1, <1>2 DEF Progress

\* A step that leaves the threads and the history alone disturbs neither.
LEMMA SameThreads ==
    ASSUME IInv, UNCHANGED <<thread, ran, hit>>
    PROVE  EachActionOnce' /\ Progress'
<1>1. EachActionOnce'
  BY DEF IInv, EachActionOnce
<1>2. \A v \in Workers : OnCourse(v)'
  BY SameCourse DEF thread
<1> QED BY <1>1, <1>2 DEF Progress

\* A worker that lets go of its execution has no course to keep.
LEMMA Released ==
    ASSUME IInv, NEW w \in Workers, NEW p \in {"poll", "down"}, Release(w, p),
           hit \subseteq hit', ran' = ran
    PROVE  EachActionOnce' /\ Progress'
<1>1. \A v \in Workers \ {w} : pc'[v] = pc[v] /\ job'[v] = job[v]
                                  /\ plan'[v] = plan[v] /\ at'[v] = at[v]
  BY DEF IInv, TypeOK, Release
<1>2. pc'[w] = p /\ plan'[w] = <<>> /\ at'[w] = 1
  BY DEF IInv, TypeOK, Release
<1>3. OnCourse(w)'
  BY <1>2 DEF OnCourse, Distinct
<1> QED BY <1>1, <1>3, OtherCourses

\* Bodies run once and in order; what a worker believes of its execution is true.
LEMMA RunStep ==
    ASSUME IInv, TypeOK', [Next]_vars
    PROVE  RunInv'
<1> USE DEF RunInv
<1>1. ASSUME NEW e \in Executions, NEW r \in Routines, NEW s \in Times,
             Enqueue(e, r, s)
      PROVE  RunInv'
  <2>1. UNCHANGED <<thread, history>>
    BY <1>1 DEF Enqueue
  <2>2. NotStarted'
    BY <1>1, <2>1 DEF IInv, TypeOK, NotStarted, Enqueue, db, history
  <2> QED BY <2>1, <2>2, SameThreads DEF history
<1>2. ASSUME NEW r \in Routines, NEW a \in Actions, NEW i \in 1..Len(actions[r])+1,
             CreateAction(r, a, i)
      PROVE  RunInv'
  <2>1. UNCHANGED <<thread, history>>
    BY <1>2 DEF CreateAction
  <2>2. NotStarted'
    BY <1>2, <2>1 DEF IInv, TypeOK, NotStarted, CreateAction, db, history
  <2> QED BY <2>1, <2>2, SameThreads DEF history
<1>3. ASSUME NEW r \in Routines, NEW i \in 1..Len(actions[r]), NEW j \in 1..Len(actions[r]),
             SwapActions(r, i, j)
      PROVE  RunInv'
  <2>1. UNCHANGED <<thread, history>>
    BY <1>3 DEF SwapActions
  <2>2. NotStarted'
    BY <1>3, <2>1 DEF IInv, TypeOK, NotStarted, SwapActions, db, history
  <2> QED BY <2>1, <2>2, SameThreads DEF history
<1>4. ASSUME NEW r \in Routines, NEW p \in [1..Len(actions[r]) -> 1..Len(actions[r])],
             ReorderActions(r, p)
      PROVE  RunInv'
  <2>1. UNCHANGED <<thread, history>>
    BY <1>4 DEF ReorderActions
  <2>2. NotStarted'
    BY <1>4, <2>1 DEF IInv, TypeOK, NotStarted, ReorderActions, db, history
  <2> QED BY <2>1, <2>2, SameThreads DEF history
<1>5. ASSUME NEW r \in Routines, NEW i \in 1..Len(actions[r]),
             DeleteAction(r, i)
      PROVE  RunInv'
  <2>1. UNCHANGED <<thread, history>>
    BY <1>5 DEF DeleteAction
  <2>2. NotStarted'
    BY <1>5, <2>1 DEF IInv, TypeOK, NotStarted, DeleteAction, db, history
  <2> QED BY <2>1, <2>2, SameThreads DEF history
<1>6. ASSUME NEW r \in Routines,
             BeginDeletion(r) \/ CommitDeletion(r) \/ RollbackDeletion(r)
      PROVE  RunInv'
  <2>1. UNCHANGED <<thread, history>>
    BY <1>6 DEF BeginDeletion, CommitDeletion, RollbackDeletion, EndDeletion
  <2>2. ran' = ran /\ \A e \in Executions : status'[e] = status[e] \/ status'[e] = "deleted"
    BY <1>6, <2>1
       DEF IInv, TypeOK, BeginDeletion, CommitDeletion, RollbackDeletion, history
  <2>3. NotStarted'
    BY <2>2 DEF IInv, NotStarted
  <2> QED BY <2>1, <2>3, SameThreads DEF history
<1>24. ASSUME NEW e \in Executions, DeleteRow(e)
      PROVE  RunInv'
  BY <1>24, SameThreads DEF DeleteRow, history, IInv, NotStarted
<1>7. CASE Tick
  <2>1. UNCHANGED <<thread, history>>
    BY <1>7 DEF Tick
  <2>2. NotStarted'
    BY <1>7, <2>1 DEF IInv, TypeOK, NotStarted, Tick, db, history
  <2> QED BY <2>1, <2>2, SameThreads DEF history
<1>8. ASSUME NEW w \in Workers, ReadClock(w)
      PROVE  RunInv'
  <2>1. NotStarted' /\ ran' = ran /\ hit' = hit
    BY <1>8 DEF IInv, NotStarted, ReadClock, db, history
  <2>2. \A v \in Workers \ {w} : pc'[v] = pc[v] /\ job'[v] = job[v]
                                       /\ plan'[v] = plan[v] /\ at'[v] = at[v]
    BY <1>8 DEF IInv, TypeOK, ReadClock
  <2>3. OnCourse(w)'
    BY <1>8 DEF IInv, TypeOK, Progress, OnCourse, ReadClock
  <2> QED BY <2>1, <2>2, <2>3, OtherCourses
<1>9. ASSUME NEW w \in Workers, NEW e \in Executions, Select(w, e)
      PROVE  RunInv'
  <2>1. NotStarted' /\ ran' = ran /\ hit' = hit /\ ran[e] = <<>>
    BY <1>9 DEF IInv, NotStarted, Select, Oldest, Ready, Due, db, history
  <2>2. \A v \in Workers \ {w} : pc'[v] = pc[v] /\ job'[v] = job[v]
                                       /\ plan'[v] = plan[v] /\ at'[v] = at[v]
    BY <1>9 DEF IInv, TypeOK, Select
  <2>3. pc[w] = "select" /\ pc'[w] = "commit" /\ job'[w] = e /\ UNCHANGED <<plan, at>>
    BY <1>9 DEF IInv, TypeOK, Select
  <2>4. OnCourse(w)'
    BY <2>1, <2>3 DEF IInv, Progress, OnCourse
  <2> QED BY <2>1, <2>2, <2>4, OtherCourses
<1>10. ASSUME NEW w \in Workers, NEW o \in {"ok", "error"},
             SelectNothing(w, o)
      PROVE  RunInv'
  <2>1. NotStarted' /\ ran' = ran
    BY <1>10, SufferFacts
       DEF IInv, TypeOK, NotStarted, SelectNothing, EndExecution, db, history
  <2>2. hit \subseteq hit'
    BY <1>10, SufferFacts DEF IInv, SelectNothing, EndExecution
  <2>3. Release(w, "poll")
    BY <1>10 DEF SelectNothing, EndExecution
  <2> QED BY <2>1, <2>2, <2>3, Released DEF IInv, Pcs
<1>11. ASSUME NEW w \in Workers, NEW o \in {"ok", "error", "late"},
             CommitClaim(w, o)
      PROVE  RunInv'
  <2>1. NotStarted' /\ ran' = ran /\ hit \subseteq hit'
    BY <1>11, SufferFacts DEF IInv, TypeOK, NotStarted, CommitClaim
  <2>2. CASE Release(w, "poll")
    BY <2>1, <2>2, Released
  <2>3. CASE Goto(w, "refresh")
    <3>1. \A v \in Workers \ {w} : pc'[v] = pc[v] /\ job'[v] = job[v]
                                       /\ plan'[v] = plan[v] /\ at'[v] = at[v]
      BY <2>3 DEF IInv, TypeOK, Goto
    <3>2. pc[w] = "commit" /\ pc'[w] = "refresh" /\ UNCHANGED <<job, plan, at>>
      BY <1>11, <2>3 DEF IInv, TypeOK, CommitClaim, Goto
    <3>3. OnCourse(w)'
      BY <2>1, <3>2 DEF IInv, Progress, OnCourse
    <3> QED BY <2>1, <3>1, <3>3, OtherCourses
  <2> QED BY <1>11, <2>2, <2>3 DEF CommitClaim
<1>12. ASSUME NEW w \in Workers, NEW o \in {"ok", "error"}, Refresh(w, o)
      PROVE  RunInv'
  <2>1. NotStarted' /\ ran' = ran /\ hit \subseteq hit'
    BY <1>12, SufferFacts DEF IInv, NotStarted, Refresh, db
  <2>2. CASE Release(w, "poll")
    BY <2>1, <2>2, Released
  <2>3. CASE Goto(w, "load")
    <3>1. \A v \in Workers \ {w} : pc'[v] = pc[v] /\ job'[v] = job[v]
                                       /\ plan'[v] = plan[v] /\ at'[v] = at[v]
      BY <2>3 DEF IInv, TypeOK, Goto
    <3>2. pc[w] = "refresh" /\ pc'[w] = "load" /\ UNCHANGED <<job, plan, at>>
      BY <1>12, <2>3 DEF IInv, TypeOK, Refresh, Goto
    <3>3. OnCourse(w)'
      BY <2>1, <3>2 DEF IInv, Progress, OnCourse
    <3> QED BY <2>1, <3>1, <3>3, OtherCourses
  <2> QED BY <1>12, <2>2, <2>3 DEF Refresh
<1>13. ASSUME NEW w \in Workers, NEW o \in {"ok", "error"}, LoadActions(w, o)
      PROVE  RunInv'
  <2>1. NotStarted' /\ ran' = ran /\ hit \subseteq hit'
    BY <1>13, SufferFacts DEF IInv, NotStarted, LoadActions, db
  <2>2. pc[w] = "load" /\ job[w] \in Executions /\ routineOf[job[w]] \in Routines
    BY <1>13, HeldFacts DEF LoadActions, RunPcs
  <2>3. ran[job[w]] = <<>> /\ at[w] = 1 /\ Distinct(plan[w])
    BY <2>2 DEF IInv, Progress, OnCourse
  <2>4. \A v \in Workers \ {w} : pc'[v] = pc[v] /\ job'[v] = job[v]
                                       /\ plan'[v] = plan[v] /\ at'[v] = at[v]
    BY <1>13 DEF IInv, TypeOK, LoadActions, Goto
  <2>5. CASE o = "ok"
    <3>1. pc'[w] = "track" /\ UNCHANGED <<job, at>>
          /\ plan'[w] = actions[routineOf[job[w]]]
      BY <1>13, <2>5 DEF IInv, TypeOK, LoadActions
    <3>2. Distinct(plan'[w])
      BY <2>2, <3>1 DEF IInv, ActionsDistinct
    <3>3. OnCourse(w)'
      BY <2>1, <2>3, <3>1, <3>2 DEF OnCourse
    <3> QED BY <2>1, <2>4, <3>3, OtherCourses
  <2>6. CASE o # "ok"
    <3>1. pc'[w] = "failExec" /\ UNCHANGED <<job, at, plan>>
      BY <1>13, <2>6 DEF IInv, TypeOK, LoadActions, Goto
    <3>2. job[w] \in hit'
      BY <1>13, <2>2, <2>6, SufferFacts, NoneAssumption DEF IInv, LoadActions
    <3>3. OnCourse(w)'
      BY <2>1, <2>3, <3>1, <3>2 DEF OnCourse, HasFailed
    <3> QED BY <2>1, <2>4, <3>3, OtherCourses
  <2> QED BY <2>5, <2>6
<1>14. ASSUME NEW w \in Workers, NEW o \in {"ok", "error", "late"},
             TrackActions(w, o)
      PROVE  RunInv'
  <2>1. NotStarted' /\ ran' = ran /\ hit \subseteq hit'
    BY <1>14, SufferFacts DEF IInv, NotStarted, TrackActions
  <2>2. \A v \in Workers \ {w} : pc'[v] = pc[v] /\ job'[v] = job[v]
                                       /\ plan'[v] = plan[v] /\ at'[v] = at[v]
    BY <1>14 DEF IInv, TypeOK, TrackActions
  <2>3. pc[w] = "track" /\ pc'[w] = NextAction(w, 1) /\ UNCHANGED <<job, at, plan>>
    BY <1>14 DEF IInv, TypeOK, TrackActions
  <2>4. ran[job[w]] = <<>> /\ at[w] = 1 /\ Distinct(plan[w])
    BY <2>3 DEF IInv, Progress, OnCourse
  <2>5. Len(plan[w]) \in Nat /\ Len(<<>>) = 0
    BY LenProperties DEF IInv, TypeOK
  <2>6. OnCourse(w)'
    BY <2>1, <2>3, <2>4, <2>5 DEF OnCourse, HasRun, NextAction
  <2> QED BY <2>1, <2>2, <2>6, OtherCourses
<1>15. ASSUME NEW w \in Workers, NEW o \in {"ok", "error"}, MarkRunning(w, o)
      PROVE  RunInv'
  <2>1. NotStarted' /\ ran' = ran /\ hit \subseteq hit'
    BY <1>15, SufferFacts DEF IInv, NotStarted, MarkRunning, UpdateTrack
  <2>2. \A v \in Workers \ {w} : pc'[v] = pc[v] /\ job'[v] = job[v]
                                       /\ plan'[v] = plan[v] /\ at'[v] = at[v]
    BY <1>15 DEF IInv, TypeOK, MarkRunning, Goto
  <2>3. pc[w] = "mark" /\ pc'[w] = "body" /\ UNCHANGED <<job, at, plan>>
    BY <1>15 DEF IInv, TypeOK, MarkRunning, Goto
  <2>4. OnCourse(w)'
    BY <2>1, <2>3 DEF IInv, Progress, OnCourse, HasRun
  <2> QED BY <2>1, <2>2, <2>4, OtherCourses
<1>16. ASSUME NEW w \in Workers, RunBody(w)
      PROVE  RunInv'
  <2> DEFINE e == job[w]
             a == plan[w][at[w]]
  <2>1. pc[w] = "body" /\ e \in Executions /\ Distinct(plan[w])
        /\ at[w] <= Len(plan[w]) /\ HasRun(w, at[w] - 1)
    BY <1>16, HeldFacts DEF IInv, Progress, OnCourse, RunBody, RunPcs
  <2>2. ran[e] \in Seq(Actions) /\ plan[w] \in Seq(Actions) /\ at[w] \in Nat \ {0}
    BY <2>1 DEF IInv, TypeOK
  <2>3. at[w] \in 1..Len(plan[w]) /\ Len(plan[w]) \in Nat /\ a \in Actions
    <3>1. at[w] \in 1..Len(plan[w]) /\ Len(plan[w]) \in Nat
      BY <2>1, <2>2, LenProperties
    <3> QED BY <3>1, <2>2, ElementOfSeq
  <2>4. ran' = [ran EXCEPT ![e] = Append(ran[e], a)] /\ UNCHANGED <<job, plan, at, hit, status>>
    BY <1>16 DEF RunBody, Goto, db
  <2>5. Len(ran[e]) = at[w] - 1
        /\ \A i \in 1..at[w]-1 : ran[e][i] = plan[w][i] /\ plan[w][i] \notin FailingActions
    BY <2>1 DEF HasRun
  <2>6. /\ Len(ran'[e]) = at[w]
        /\ \A i \in 1..at[w] : ran'[e][i] = plan[w][i]
    <3>1. Len(Append(ran[e], a)) = Len(ran[e]) + 1
          /\ \A i \in 1..Len(ran[e])+1 :
                Append(ran[e], a)[i] = IF i <= Len(ran[e]) THEN ran[e][i] ELSE a
      BY <2>2, <2>3, AppendProperties
    <3>2. ran'[e] = Append(ran[e], a)
      BY <2>1, <2>4 DEF IInv, TypeOK
    <3> QED BY <3>1, <3>2, <2>2, <2>5
  <2>7. EachActionOnce'
    <3>1. Distinct(ran'[e])
      BY <2>1, <2>2, <2>3, <2>6, SMTT(40) DEF Distinct
    <3> QED BY <2>1, <2>4, <3>1 DEF IInv, TypeOK, EachActionOnce
  <2>8. NotStarted'
    BY <2>1, <2>4 DEF IInv, TypeOK, NotStarted, HeldIsRunning, RunPcs
  <2>9. ASSUME NEW v \in Workers \ {w} PROVE OnCourse(v)'
    <3>1. pc'[v] = pc[v] /\ job'[v] = job[v] /\ plan'[v] = plan[v] /\ at'[v] = at[v]
      BY <1>16, <2>4 DEF IInv, TypeOK, RunBody, Goto
    <3>2. job[v] # None => job[v] \in Executions /\ job[v] # e
      BY DEF IInv, TypeOK, SingleHolder
    <3>3. job[v] # None => ran'[job[v]] = ran[job[v]]
      BY <2>4, <3>2 DEF IInv, TypeOK
    <3> QED BY <2>4, <3>1, <3>3, SameCourse
  <2>10. OnCourse(w)'
    <3>1. CASE a \notin FailingActions
      <4>1. pc'[w] = "done"
        BY <1>16, <3>1 DEF IInv, TypeOK, RunBody, Goto
      <4>2. HasRun(w, at[w])'
        BY <2>2, <2>3, <2>4, <2>5, <2>6, <3>1 DEF HasRun
      <4> QED BY <4>1, <4>2, <2>1, <2>4 DEF OnCourse
    <3>2. CASE a \in FailingActions
      <4>1. pc'[w] \in {"failAction", "failExec"}
        BY <1>16, <3>2 DEF IInv, TypeOK, RunBody, Goto
      <4>2. ran'[e][Len(ran'[e])] \in FailingActions /\ ran'[e] # <<>>
        BY <2>2, <2>3, <2>6, <3>2
      <4>3. HasFailed(w)'
        BY <4>2, <2>4 DEF HasFailed
      <4> QED BY <4>1, <4>3, <2>1, <2>4 DEF OnCourse
    <3> QED BY <3>1, <3>2
  <2> QED BY <2>7, <2>8, <2>9, <2>10 DEF Progress
<1>17. ASSUME NEW w \in Workers, NEW o \in {"ok", "error"},
             MarkCompleted(w, o)
      PROVE  RunInv'
  <2>1. NotStarted' /\ ran' = ran /\ hit \subseteq hit'
    BY <1>17, SufferFacts DEF IInv, NotStarted, MarkCompleted, UpdateTrack
  <2>2. \A v \in Workers \ {w} : pc'[v] = pc[v] /\ job'[v] = job[v]
                                       /\ plan'[v] = plan[v] /\ at'[v] = at[v]
    BY <1>17 DEF IInv, TypeOK, MarkCompleted
  <2>3. pc[w] = "done" /\ pc'[w] = NextAction(w, at[w] + 1) /\ at'[w] = at[w] + 1
        /\ UNCHANGED <<job, plan>>
    BY <1>17 DEF IInv, TypeOK, MarkCompleted
  <2>4. Len(plan[w]) \in Nat /\ at[w] \in Nat /\ HasRun(w, at[w]) /\ Distinct(plan[w])
    BY <2>3, LenProperties DEF IInv, TypeOK, Progress, OnCourse
  <2>5. OnCourse(w)'
    BY <2>1, <2>3, <2>4 DEF OnCourse, HasRun, NextAction
  <2> QED BY <2>1, <2>2, <2>5, OtherCourses
<1>18. ASSUME NEW w \in Workers, NEW o \in {"ok", "error"}, MarkFailed(w, o)
      PROVE  RunInv'
  <2>1. NotStarted' /\ ran' = ran /\ hit \subseteq hit'
    BY <1>18, SufferFacts DEF IInv, NotStarted, MarkFailed, UpdateTrack
  <2>2. \A v \in Workers \ {w} : pc'[v] = pc[v] /\ job'[v] = job[v]
                                       /\ plan'[v] = plan[v] /\ at'[v] = at[v]
    BY <1>18 DEF IInv, TypeOK, MarkFailed, Goto
  <2>3. pc[w] = "failAction" /\ pc'[w] = "failExec" /\ UNCHANGED <<job, at, plan>>
    BY <1>18 DEF IInv, TypeOK, MarkFailed, Goto
  <2>4. OnCourse(w)'
    BY <2>1, <2>3 DEF IInv, Progress, OnCourse, HasFailed
  <2> QED BY <2>1, <2>2, <2>4, OtherCourses
<1>19. ASSUME NEW w \in Workers, NEW o \in {"ok", "error"}, Complete(w, o)
      PROVE  RunInv'
  <2>1. NotStarted' /\ ran' = ran
    BY <1>19, SufferFacts
       DEF IInv, TypeOK, NotStarted, Complete, EndExecution, db, history
  <2>2. hit \subseteq hit'
    BY <1>19, SufferFacts DEF IInv, Complete, EndExecution
  <2>3. Release(w, "poll")
    BY <1>19 DEF Complete, EndExecution
  <2> QED BY <2>1, <2>2, <2>3, Released DEF IInv, Pcs
<1>20. ASSUME NEW w \in Workers, NEW o \in {"ok", "error"}, Fail(w, o)
      PROVE  RunInv'
  <2>1. NotStarted' /\ ran' = ran
    BY <1>20, SufferFacts DEF IInv, TypeOK, NotStarted, Fail, EndExecution, db, history
  <2>2. hit \subseteq hit'
    BY <1>20, SufferFacts DEF IInv, Fail, EndExecution
  <2>3. Release(w, "poll")
    BY <1>20 DEF Fail, EndExecution
  <2> QED BY <2>1, <2>2, <2>3, Released DEF IInv, Pcs
<1>21. ASSUME NEW w \in Workers, Crash(w)
      PROVE  RunInv'
  <2>1. NotStarted' /\ ran' = ran /\ hit \subseteq hit'
    BY <1>21 DEF IInv, TypeOK, NotStarted, Crash, db
  <2>2. Release(w, "down")
    BY <1>21 DEF Crash
  <2> QED BY <2>1, <2>2, Released
<1>22. ASSUME NEW w \in Workers, Start(w)
      PROVE  RunInv'
  <2>1. NotStarted' /\ ran' = ran /\ hit' = hit
    BY <1>22 DEF IInv, NotStarted, Start, db, history
  <2>2. \A v \in Workers \ {w} : pc'[v] = pc[v] /\ job'[v] = job[v]
                                       /\ plan'[v] = plan[v] /\ at'[v] = at[v]
    BY <1>22 DEF IInv, TypeOK, Start, Goto
  <2>3. OnCourse(w)'
    BY <1>22 DEF IInv, TypeOK, Progress, OnCourse, Start, Goto
  <2> QED BY <2>1, <2>2, <2>3, OtherCourses
<1>23. CASE UNCHANGED vars
  BY <1>23, SameThreads DEF IInv, vars, db, history, NotStarted
<1> QED
  BY <1>1, <1>2, <1>3, <1>4, <1>5, <1>6, <1>7, <1>8, <1>9, <1>10, <1>11, <1>12, <1>13,
     <1>14, <1>15, <1>16, <1>17, <1>18, <1>19, <1>20, <1>21, <1>22, <1>23, <1>24
     DEF Next, Caller, Claiming, Running

-----------------------------------------------------------------------------
(* The inductive invariant.                                                 *)

\* The invariant holds at the start.
LEMMA InitInv == Init => IInv
<1> SUFFICES ASSUME Init PROVE IInv
  OBVIOUS
<1>0. \A S : <<>> \in Seq(S) /\ Len(<<>>) = 0
  BY EmptySeq
<1>1. TypeOK
  BY <1>0, InitialActionsAssumption, BoundAssumption
     DEF Init, TypeOK, Times, ExecutionStatus, ActionStatus, Pcs, RunPcs
<1>2. Claimed /\ OneLock /\ HeldIsRunning /\ SingleHolder
  BY DEF Init, Claimed, OneLock, HeldIsRunning, SingleHolder, RunPcs
<1>3. RoutineKnown /\ NotStarted
  BY DEF Init, RoutineKnown, NotStarted
<1>4. ActionsDistinct
  BY InitialActionsAssumption DEF Init, ActionsDistinct
<1>5. EachActionOnce
  BY <1>0 DEF Init, EachActionOnce, Distinct
<1>6. Progress
  BY <1>0 DEF Init, Progress, OnCourse, Distinct
<1> QED BY <1>1, <1>2, <1>3, <1>4, <1>5, <1>6 DEF IInv

\* Every step keeps it.
LEMMA StepInv == IInv /\ [Next]_vars => IInv'
<1> SUFFICES ASSUME IInv, [Next]_vars PROVE IInv'
  OBVIOUS
<1>1. TypeOK'
  BY TypeStep
<1>2. HolderInv'
  BY HolderStep, <1>1
<1>3. ActionsDistinct'
  BY ListStep, <1>1
<1>4. RunInv'
  BY RunStep, <1>1
<1>5. OneLock'
  BY LockStep, <1>1
<1> QED BY <1>1, <1>2, <1>3, <1>4, <1>5 DEF IInv, HolderInv, RunInv

\* Every reachable state satisfies the inductive invariant.
THEOREM Invariance == Spec => []IInv
<1>1. Init => IInv
  BY InitInv
<1>2. IInv /\ [Next]_vars => IInv'
  BY StepInv
<1> QED BY <1>1, <1>2, PTL DEF Spec

\* The rows, the threads and the bounds keep their types.
THEOREM TypeCorrect == Spec => []TypeOK
<1>1. IInv => TypeOK
  BY DEF IInv
<1> QED BY <1>1, Invariance, PTL

\* However many workers poll the table, each execution has one holder.
THEOREM HeldOnce == Spec => []SingleHolder
<1>1. IInv => SingleHolder
  BY DEF IInv
<1> QED BY <1>1, Invariance, PTL

\* What a worker runs is marked running, unless its routine was deleted.
THEOREM RunsWhatItClaimed == Spec => []HeldIsRunning
<1>1. IInv => HeldIsRunning
  BY DEF IInv
<1> QED BY <1>1, Invariance, PTL

\* No action body starts twice for one execution.
THEOREM AtMostOnce == Spec => []EachActionOnce
<1>1. IInv => EachActionOnce
  BY DEF IInv
<1> QED BY <1>1, Invariance, PTL

-----------------------------------------------------------------------------
(* What a step may do to the status of an execution.                        *)

\* Who changes a status: the caller that enqueues, the worker that claims, the
\* holder that ends, or the deletion of the routine.
StatusStep(e) ==
    \/ status'[e] = status[e]
    \/ status[e] = "absent" /\ status'[e] = "queued"
    \/ status[e] = "queued" /\ status'[e] = "running"
    \/ status[e] # "absent" /\ status'[e] = "deleted"
    \/ \E w \in Workers :
        /\ Executes(w, e)
        /\ status[e] = "running"
        /\ \/ pc[w] = "finish" /\ status'[e] = "completed"
           \/ pc[w] = "failExec" /\ status'[e] = "failed"

\* No step changes a status in any other way.
LEMMA StatusChange ==
    ASSUME IInv, [Next]_vars, NEW f \in Executions
    PROVE  StatusStep(f)
<1>1. ASSUME NEW e \in Executions, NEW r \in Routines, NEW s \in Times,
             Enqueue(e, r, s)
      PROVE  StatusStep(f)
  BY <1>1 DEF IInv, TypeOK, Enqueue, StatusStep
<1>2. ASSUME NEW r \in Routines, CommitDeletion(r)
      PROVE  StatusStep(f)
  <2>1. routineOf[f] = r => status[f] # "absent"
    BY NoneAssumption DEF IInv, RoutineKnown
  <2> QED BY <1>2, <2>1 DEF CommitDeletion, StatusStep
<1>3. CASE UNCHANGED status
  BY <1>3 DEF StatusStep
<1>4. ASSUME NEW w \in Workers, NEW o \in {"ok", "error", "late"}, CommitClaim(w, o)
      PROVE  StatusStep(f)
  BY <1>4 DEF IInv, TypeOK, Claimed, CommitClaim, StatusStep
<1>5. ASSUME NEW w \in Workers, NEW o \in {"ok", "error"},
             Complete(w, o) \/ Fail(w, o)
      PROVE  StatusStep(f)
  <2>1. pc[w] \in RunPcs
    BY <1>5 DEF Complete, Fail, RunPcs
  <2>2. status[job[w]] \in {"running", "deleted"}
    BY <2>1 DEF IInv, HeldIsRunning
  <2>3. CASE f = job[w] /\ status[f] = "running"
    <3>1. Executes(w, f)
      BY <2>1, <2>3 DEF Executes
    <3>2. CASE Complete(w, o)
      BY <2>3, <3>1, <3>2 DEF IInv, TypeOK, Complete, EndExecution, StatusStep
    <3>3. CASE Fail(w, o)
      BY <2>3, <3>1, <3>3 DEF IInv, TypeOK, Fail, EndExecution, StatusStep
    <3> QED BY <1>5, <3>2, <3>3
  <2>4. CASE ~ (f = job[w] /\ status[f] = "running")
    <3>1. status'[f] = status[f]
      BY <1>5, <2>2, <2>4 DEF IInv, TypeOK, Complete, Fail, EndExecution, RowExists
    <3> QED BY <3>1 DEF StatusStep
  <2> QED BY <2>3, <2>4
<1>6. CASE Caller
  BY <1>1, <1>2, <1>3, <1>6
     DEF Caller, CreateAction, SwapActions, ReorderActions, DeleteAction,
         BeginDeletion, RollbackDeletion, DeleteRow
<1>7. ASSUME NEW w \in Workers, Claiming(w)
      PROVE  StatusStep(f)
  BY <1>3, <1>4, <1>7 DEF Claiming, ReadClock, Select, SelectNothing, Refresh, db
<1>8. ASSUME NEW w \in Workers, Running(w)
      PROVE  StatusStep(f)
  BY <1>3, <1>5, <1>8
     DEF Running, RunBody, LoadActions, MarkRunning, MarkCompleted, MarkFailed,
         UpdateTrack, TrackActions, db
<1>9. CASE Tick \/ (\E w \in Workers : Crash(w) \/ Start(w)) \/ UNCHANGED vars
  BY <1>3, <1>9 DEF Tick, Crash, Start, vars, db
<1> QED BY <1>6, <1>7, <1>8, <1>9 DEF Next

\* A status only moves forward and a final one never changes.
THEOREM OnlyForward == Spec => StatusLifecycle
<1> DEFINE A == \A e \in Executions : status'[e] # status[e] =>
          \/ <<status[e], status'[e]>> \in
                {<<"absent", "queued">>, <<"queued", "running">>,
                 <<"running", "completed">>, <<"running", "failed">>}
          \/ status[e] # "absent" /\ status'[e] = "deleted"
<1>1. IInv /\ [Next]_vars => [A]_vars
  <2> SUFFICES ASSUME IInv, [Next]_vars, NEW e \in Executions, status'[e] # status[e]
               PROVE  \/ <<status[e], status'[e]>> \in
                            {<<"absent", "queued">>, <<"queued", "running">>,
                             <<"running", "completed">>, <<"running", "failed">>}
                      \/ status[e] # "absent" /\ status'[e] = "deleted"
    OBVIOUS
  <2>1. StatusStep(e)
    BY StatusChange
  <2> QED BY <2>1 DEF StatusStep
<1> HIDE DEF A
<1>2. Spec => [][A]_vars
  BY <1>1, Invariance, PTL DEF Spec
<1> QED BY <1>2 DEF StatusLifecycle, A

\* A completed execution ran its whole plan in order and nothing in it raised; a
\* failed one stopped at an action that raised, or an error struck it before any.
THEOREM Honest == Spec => FinalStatusIsHonest
<1> DEFINE H(e) ==
      /\ status'[e] = "completed" =>
            \E w \in Workers :
                /\ Executes(w, e)
                /\ ran[e] = plan[w]
                /\ Planned(w) \intersect FailingActions = {}
      /\ status'[e] = "failed" =>
            \/ ran[e] # <<>> /\ Last(ran[e]) \in FailingActions
            \/ ran[e] = <<>> /\ e \in hit
           A == \A e \in Executions : status'[e] # status[e] => H(e)
<1>1. ASSUME IInv, [Next]_vars, NEW e \in Executions, status'[e] # status[e]
      PROVE  H(e)
  <2>1. StatusStep(e)
    BY <1>1, StatusChange
  <2>2. ran[e] \in Seq(Actions)
    BY <1>1 DEF IInv, TypeOK
  <2>3. ASSUME NEW w \in Workers, Executes(w, e), pc[w] = "finish"
        PROVE  ran[e] = plan[w] /\ Planned(w) \intersect FailingActions = {}
    <3>1. HasRun(w, Len(plan[w])) /\ job[w] = e
      BY <1>1, <2>3 DEF IInv, Progress, OnCourse, Executes
    <3>2. plan[w] \in Seq(Actions)
      BY <1>1 DEF IInv, TypeOK
    <3>3. Len(ran[e]) = Len(plan[w])
          /\ \A i \in 1..Len(plan[w]) : ran[e][i] = plan[w][i] /\ plan[w][i] \notin FailingActions
      BY <3>1 DEF HasRun
    <3>4. ran[e] = plan[w]
      BY <2>2, <3>2, <3>3, SeqEqual
    <3> QED BY <3>3, <3>4 DEF Planned
  <2>4. ASSUME NEW w \in Workers, Executes(w, e), pc[w] = "failExec"
        PROVE  \/ ran[e] # <<>> /\ Last(ran[e]) \in FailingActions
               \/ ran[e] = <<>> /\ e \in hit
    BY <1>1, <2>4 DEF IInv, Progress, OnCourse, HasFailed, Executes, Last
  <2> QED BY <1>1, <2>1, <2>3, <2>4 DEF StatusStep
<1> HIDE DEF H
<1>2. IInv /\ [Next]_vars => [A]_vars
  BY <1>1
<1> HIDE DEF A
<1>3. Spec => [][A]_vars
  BY <1>2, Invariance, PTL DEF Spec
<1> QED BY <1>3 DEF FinalStatusIsHonest, A, H
-----------------------------------------------------------------------------
(* One worker starts executions in the order of scheduled_for.              *)

\* Execution f was selected, whether its claim is committed or not.
Selected(f) == Locked(f) \/ status[f] \in {"running", "completed", "failed"}

\* What was selected was due, and what is queued before it came too late, or was
\* hidden by the deletion of its routine.
InOrder(f) ==
    /\ sched[f] <= clock
    /\ \A e \in Executions :
        status[e] = "queued" /\ sched[e] < sched[f] /\ e \notin passed[f] =>
            queuedAt[e] >= sched[f]

ScheduleInv ==
    /\ \A e \in Executions : queuedAt[e] <= clock
    /\ \A w \in Workers : now[w] <= clock
    /\ \A f \in Executions : Selected(f) => InOrder(f)

\* A step that selects nothing new and queues nothing keeps the order.
LEMMA OrderKept ==
    ASSUME IInv, IInv', ScheduleInv, UNCHANGED <<queuedAt, sched, passed>>, clock' >= clock,
           \A w \in Workers : now'[w] = now[w] \/ now'[w] <= clock,
           \A w \in Workers : pc'[w] = "commit" => pc[w] = "commit" /\ job'[w] = job[w],
           \A e \in Executions :
              \/ status'[e] = status[e] \/ status'[e] = "deleted"
              \/ Selected(e) /\ status'[e] \in {"running", "completed", "failed"}
    PROVE  ScheduleInv'
<1>1. /\ clock \in Nat /\ clock' \in Nat
      /\ \A w \in Workers : now[w] \in Nat /\ now'[w] \in Nat
      /\ \A e \in Executions : sched[e] \in Nat /\ queuedAt[e] \in Nat
  BY BoundAssumption DEF IInv, TypeOK, Times
<1>2. \A f \in Executions : Selected(f)' => Selected(f)
  BY DEF Selected, Locked
<1>3. \A e \in Executions : status'[e] = "queued" => status[e] = "queued"
  OBVIOUS
<1>4. \A f \in Executions : Selected(f)' => InOrder(f)'
  BY <1>1, <1>2, <1>3 DEF ScheduleInv, InOrder
<1> QED BY <1>1, <1>4 DEF ScheduleInv

LEMMA InitSchedule == Init => ScheduleInv
BY BoundAssumption DEF Init, ScheduleInv, Selected, Locked

LEMMA ScheduleStep ==
    ASSUME IInv, IInv', ScheduleInv, [Next]_vars, \A v, w \in Workers : v = w
    PROVE  ScheduleInv'
<1>0. /\ clock \in Nat /\ clock' \in Nat
      /\ \A w \in Workers : now[w] \in Nat /\ now'[w] \in Nat
      /\ \A e \in Executions : /\ sched[e] \in Nat /\ queuedAt[e] \in Nat
                               /\ sched'[e] \in Nat /\ queuedAt'[e] \in Nat
  BY BoundAssumption DEF IInv, TypeOK, Times
<1>1. ASSUME NEW e \in Executions, NEW r \in Routines, NEW s \in Times, Enqueue(e, r, s)
      PROVE  ScheduleInv'
  <2>1. /\ status[e] = "absent" /\ status' = [status EXCEPT ![e] = "queued"]
        /\ queuedAt' = [queuedAt EXCEPT ![e] = clock] /\ sched' = [sched EXCEPT ![e] = s]
        /\ UNCHANGED <<pc, job, now, clock, passed>>
    BY <1>1 DEF Enqueue, thread, env, history
  <2>2. /\ queuedAt'[e] = clock /\ status'[e] = "queued"
        /\ \A f \in Executions \ {e} :
              queuedAt'[f] = queuedAt[f] /\ sched'[f] = sched[f] /\ status'[f] = status[f]
    BY <2>1 DEF IInv, TypeOK
  <2>3. ~ Locked(e)
    BY <2>1 DEF Locked, IInv, Claimed
  <2>4. ASSUME NEW f \in Executions, Selected(f)'
        PROVE  f # e /\ Selected(f)
    BY <2>1, <2>2, <2>3, <2>4 DEF Selected, Locked
  <2>5. ASSUME NEW f \in Executions, Selected(f)'
        PROVE  InOrder(f)'
    <3>1. InOrder(f) /\ f # e
      BY <2>4, <2>5 DEF ScheduleInv
    <3> QED BY <1>0, <2>1, <2>2, <3>1 DEF InOrder
  <2> QED BY <1>0, <2>1, <2>2, <2>5 DEF ScheduleInv
<1>2. ASSUME NEW w \in Workers, NEW e \in Executions, Select(w, e)
      PROVE  ScheduleInv'
  <2>1. /\ pc[w] = "select" /\ e \in Ready(w) /\ \A f \in Ready(w) : sched[e] <= sched[f]
        /\ pc' = [pc EXCEPT ![w] = "commit"] /\ job' = [job EXCEPT ![w] = e]
        /\ passed' = [passed EXCEPT ![e] = {f \in Due(w) : Gone(f)}]
        /\ UNCHANGED <<now, clock, queuedAt, sched, status>>
    BY <1>2 DEF Select, Oldest, db, env
  <2>2. \A f \in Executions : ~ Locked(f)
    BY <2>1 DEF Locked
  <2>3. ASSUME NEW f \in Executions, Selected(f)'
        PROVE  f = e \/ Selected(f)
    BY <2>1, <2>3 DEF Selected, Locked, IInv, TypeOK
  <2>4. InOrder(e)'
    <3>1. sched[e] <= now[w] /\ now[w] <= clock
      BY <2>1 DEF Ready, Due, ScheduleInv
    <3>2. ASSUME NEW g \in Executions, status[g] = "queued", sched[g] < sched[e], g \notin passed'[e]
          PROVE  FALSE
      <4>1. g \in Due(w)
        BY <1>0, <3>1, <3>2 DEF Due
      <4>2. ~ Gone(g)
        BY <2>1, <3>2, <4>1 DEF IInv, TypeOK
      <4>3. g \in Ready(w)
        BY <2>2, <4>1, <4>2 DEF Ready
      <4> QED BY <1>0, <2>1, <3>2, <4>3
    <3> QED BY <1>0, <2>1, <3>1, <3>2 DEF InOrder
  <2>5. \A f \in Executions : f # e /\ InOrder(f) => InOrder(f)'
    BY <2>1 DEF InOrder, IInv, TypeOK
  <2> QED BY <2>1, <2>3, <2>4, <2>5 DEF ScheduleInv
<1>3. ASSUME NEW w \in Workers, ReadClock(w)
      PROVE  ScheduleInv'
  <2>1. /\ UNCHANGED <<queuedAt, sched, passed, status, clock, job>>
        /\ \A v \in Workers : now'[v] = now[v] \/ now'[v] <= clock
        /\ \A v \in Workers : pc'[v] = "commit" => pc[v] = "commit"
    BY <1>0, <1>3 DEF ReadClock, db, env, history, IInv, TypeOK
  <2> QED BY <1>0, <2>1, OrderKept
<1>4. CASE Tick
  BY <1>0, <1>4, OrderKept DEF Tick, db, thread, history
<1>5. CASE Caller /\ ~ \E e \in Executions, r \in Routines, s \in Times : Enqueue(e, r, s)
  <2>1. ASSUME NEW r \in Routines,
               BeginDeletion(r) \/ CommitDeletion(r) \/ RollbackDeletion(r)
        PROVE  /\ UNCHANGED <<thread, clock, history, queuedAt, sched>>
               /\ \A e \in Executions : status'[e] = status[e] \/ status'[e] = "deleted"
    BY <2>1 DEF BeginDeletion, CommitDeletion, RollbackDeletion, EndDeletion, env
  <2>2. ASSUME NEW e \in Executions, DeleteRow(e)
        PROVE  UNCHANGED <<thread, clock, history, queuedAt, sched, status>>
    BY <2>2 DEF DeleteRow, env
  <2>3. /\ UNCHANGED <<thread, clock, history, queuedAt, sched>>
        /\ \A e \in Executions : status'[e] = status[e] \/ status'[e] = "deleted"
    BY <1>5, <2>1, <2>2 DEF Caller, CreateAction, SwapActions, ReorderActions, DeleteAction, env
  <2> QED BY <1>0, <2>3, OrderKept DEF thread, history
\* A worker that goes on with what it has, or lets go of it.
<1>6. ASSUME NEW w \in Workers, NEW p \in Pcs \ {"commit"}, Goto(w, p) \/ Release(w, p),
             UNCHANGED <<queuedAt, sched, clock, passed>>,
             \A e \in Executions : \/ status'[e] = status[e]
                                   \/ Selected(e) /\ status'[e] \in {"running", "completed", "failed"}
      PROVE  ScheduleInv'
  <2>1. /\ \A v \in Workers : pc'[v] = "commit" => pc[v] = "commit" /\ job'[v] = job[v]
        /\ \A v \in Workers : now'[v] = now[v] \/ now'[v] <= clock
    BY <1>0, <1>6 DEF Goto, Release, IInv, TypeOK
  <2> QED BY <1>0, <1>6, <2>1, OrderKept
<1>7. ASSUME NEW w \in Workers, NEW o \in {"ok", "error", "late"}, CommitClaim(w, o)
      PROVE  ScheduleInv'
  <2>1. UNCHANGED <<queuedAt, sched, clock, passed>> /\ (Goto(w, "refresh") \/ Release(w, "poll"))
    BY <1>7, SufferFacts DEF CommitClaim, IInv
  <2>2. \A e \in Executions : \/ status'[e] = status[e]
                              \/ Selected(e) /\ status'[e] = "running"
    <3>1. pc[w] = "commit" /\ \A e \in Executions : e = job[w] => Selected(e)
      BY <1>7 DEF CommitClaim, Selected, Locked
    <3> QED BY <1>7, <3>1 DEF CommitClaim, IInv, TypeOK
  <2> QED BY <1>6, <2>1, <2>2 DEF Pcs, RunPcs
<1>8. ASSUME NEW w \in Workers, NEW o \in {"ok", "error"}, Complete(w, o) \/ Fail(w, o)
      PROVE  ScheduleInv'
  <2>1. UNCHANGED <<queuedAt, sched, clock, passed>> /\ Release(w, "poll")
    BY <1>8, SufferFacts DEF Complete, Fail, EndExecution, IInv
  <2>2. \A e \in Executions : \/ status'[e] = status[e]
                              \/ Selected(e) /\ status'[e] \in {"completed", "failed"}
    <3>1. status[job[w]] \in {"running", "deleted"}
      BY <1>8 DEF Complete, Fail, IInv, HeldIsRunning, RunPcs
    <3>2. \A e \in Executions : e = job[w] /\ RowExists(e) => Selected(e)
      BY <3>1 DEF RowExists, Selected
    <3> QED BY <1>8, <3>2 DEF Complete, Fail, EndExecution, IInv, TypeOK
  <2> QED BY <1>6, <2>1, <2>2 DEF Pcs, RunPcs
<1>9. ASSUME NEW w \in Workers, Claiming(w)
      PROVE  ScheduleInv'
  <2>1. ASSUME NEW o \in {"ok", "error"}, SelectNothing(w, o) \/ Refresh(w, o)
        PROVE  ScheduleInv'
    <3>1. UNCHANGED <<queuedAt, sched, clock, passed, status>> /\ \E p \in {"poll", "load"} : Goto(w, p) \/ Release(w, p)
      BY <2>1, SufferFacts DEF SelectNothing, Refresh, IInv, db
    <3> QED BY <1>6, <3>1 DEF Pcs, RunPcs
  <2> QED BY <1>2, <1>3, <1>7, <1>9, <2>1 DEF Claiming
<1>10. ASSUME NEW w \in Workers, Running(w)
       PROVE  ScheduleInv'
  <2>1. ASSUME NEW o \in {"ok", "error", "late"},
               \/ RunBody(w) \/ LoadActions(w, o) \/ MarkRunning(w, o) \/ MarkCompleted(w, o)
               \/ MarkFailed(w, o) \/ TrackActions(w, o)
        PROVE  ScheduleInv'
    <3>1. UNCHANGED <<queuedAt, sched, clock, passed, status, now, job>>
      BY <2>1, SufferFacts DEF RunBody, LoadActions, MarkRunning, MarkCompleted, MarkFailed, TrackActions,
                               UpdateTrack, Goto, IInv, db, env
    <3>2. \A v \in Workers : pc'[v] = "commit" => pc[v] = "commit"
      BY <2>1 DEF RunBody, LoadActions, MarkRunning, MarkCompleted, MarkFailed, TrackActions,
                  NextAction, Goto, IInv, TypeOK
    <3> QED BY <1>0, <3>1, <3>2, OrderKept
  <2> QED BY <1>8, <1>10, <2>1 DEF Running
<1>11. ASSUME NEW w \in Workers, Crash(w) \/ Start(w)
       PROVE  ScheduleInv'
  <2>1. UNCHANGED <<queuedAt, sched, clock, passed, status>> /\ \E p \in {"poll", "down"} : Goto(w, p) \/ Release(w, p)
    BY <1>11 DEF Crash, Start, db, env, history
  <2> QED BY <1>6, <2>1 DEF Pcs
<1>12. CASE UNCHANGED vars
  BY <1>0, <1>12, OrderKept DEF vars, db, thread, env, history
<1> QED BY <1>1, <1>4, <1>5, <1>9, <1>10, <1>11, <1>12 DEF Next

\* "claim the oldest ready queued execution" (execution_engine.py:270): with one
\* worker, as deployed, whatever users schedule and whatever fails, an execution
\* that waits while one scheduled later was started came after that one was due, or
\* was passed over because the deletion of its routine, which did not succeed, held
\* its row at that moment.
THEOREM OneWorkerInOrder ==
    ASSUME \A v, w \in Workers : v = w
    PROVE  Spec => []StartsInScheduleOrder
<1>1. Init => IInv /\ ScheduleInv
  BY InitInv, InitSchedule
<1>2. IInv /\ ScheduleInv /\ [Next]_vars => IInv' /\ ScheduleInv'
  BY StepInv, ScheduleStep
<1>3. IInv /\ ScheduleInv => StartsInScheduleOrder
  <2> SUFFICES ASSUME IInv, ScheduleInv, NEW e \in Executions, NEW f \in Executions,
                      sched[e] < sched[f], queuedAt[e] < sched[f], e \notin passed[f],
                      status[f] \in {"running", "completed", "failed"}, status[e] = "queued"
               PROVE  FALSE
    BY DEF StartsInScheduleOrder
  <2>1. queuedAt[e] >= sched[f]
    BY DEF ScheduleInv, Selected, InOrder
  <2>2. queuedAt[e] \in Nat /\ sched[f] \in Nat
    BY BoundAssumption DEF IInv, TypeOK, Times
  <2> QED BY <2>1, <2>2
<1> QED BY <1>1, <1>2, <1>3, PTL DEF Spec
-----------------------------------------------------------------------------
(* The rows of action_executions.                                           *)

Untracked(e) == \A a \in Actions : track[e][a] = "none"

\* What the row of the i-th action of its plan says while worker w runs.
RowStatus(w, i) ==
    IF i < at[w] THEN "completed"
    ELSE IF i > at[w] \/ pc[w] = "mark" THEN "pending"
    ELSE IF pc[w] = "failExec" THEN "failed"
    ELSE "running"

\* The rows of the execution worker w runs: one per planned action, if w knows
\* their ids, or none at all.
RowsFollow(w) ==
    IF known[w]
    THEN /\ \A i \in 1..Len(plan[w]) : track[job[w]][plan[w][i]] = RowStatus(w, i)
         /\ \A a \in Actions \ Planned(w) : track[job[w]][a] = "none"
    ELSE Untracked(job[w])

\* The action of worker w raised, and those before it did not.
Raised(w) ==
    /\ at[w] <= Len(plan[w])
    /\ Len(ran[job[w]]) = at[w]
    /\ \A i \in 1..at[w] : ran[job[w]][i] = plan[w][i]
    /\ \A i \in 1..at[w] : plan[w][i] \in FailingActions <=> i = at[w]

TracksWork(w) ==
    /\ pc[w] \in {"refresh", "load", "track"} => Untracked(job[w])
    /\ pc[w] \in {"mark", "body", "done", "finish", "failAction", "failExec"} /\ job[w] \notin hit =>
        /\ RowsFollow(w)
        /\ pc[w] = "finish" => at[w] > Len(plan[w])
        /\ pc[w] = "failAction" => known[w]
        /\ pc[w] \in {"failAction", "failExec"} => Raised(w)

TracksExecution(e) ==
    /\ status[e] \in {"absent", "queued"} => Untracked(e)
    /\ status[e] \in {"completed", "failed"} /\ e \notin hit => TrackAsRan(e) \/ Untracked(e)

TrackInv ==
    /\ \A e \in Executions : TracksExecution(e)
    /\ \A w \in Workers : TracksWork(w)

LEMMA SameExecution ==
    ASSUME NEW e \in Executions, TracksExecution(e), track'[e] = track[e], ran'[e] = ran[e],
           hit \subseteq hit',
           status'[e] \in {status[e], "running", "deleted"} \/ (status[e] = "absent" /\ status'[e] = "queued")
    PROVE  TracksExecution(e)'
<1>1. Untracked(e)' <=> Untracked(e)
  BY DEF Untracked
<1>2. status'[e] = status[e] => (TrackAsRan(e)' <=> TrackAsRan(e))
  BY DEF TrackAsRan
<1>3. e \notin hit' => e \notin hit
  OBVIOUS
<1> HIDE DEF Untracked, TrackAsRan
<1> QED BY <1>1, <1>2, <1>3, Zenon DEF TracksExecution

LEMMA SameWork ==
    ASSUME NEW v \in Workers, TracksWork(v), pc'[v] = pc[v], job'[v] = job[v], plan'[v] = plan[v],
           at'[v] = at[v], known'[v] = known[v], hit \subseteq hit',
           pc[v] \in RunPcs => track'[job[v]] = track[job[v]] /\ ran'[job[v]] = ran[job[v]]
    PROVE  TracksWork(v)'
<1>1. CASE pc[v] \in RunPcs
  <2>1. Untracked(job[v])' <=> Untracked(job[v])
    BY <1>1 DEF Untracked
  <2>2. RowsFollow(v)' <=> RowsFollow(v)
    BY <1>1, <2>1 DEF RowsFollow, RowStatus, Planned, Untracked
  <2>3. Raised(v)' <=> Raised(v)
    BY <1>1 DEF Raised
  <2> HIDE DEF Untracked, RowsFollow, Raised
  <2>4. pc'[v] = pc[v] /\ job'[v] = job[v]
    OBVIOUS
  <2>5. job'[v] \notin hit' => job[v] \notin hit
    OBVIOUS
  <2> QED BY <2>1, <2>2, <2>3, <2>5 DEF TracksWork
<1>2. CASE pc[v] \notin RunPcs
  BY <1>2 DEF TracksWork, RunPcs
<1> QED BY <1>1, <1>2

\* A step of worker w, or of none, that may touch the rows of its execution only.
LEMMA TrackFrame ==
    ASSUME IInv, TrackInv, NEW w \in Workers, hit \subseteq hit',
           \A v \in Workers \ {w} :
              /\ pc'[v] = pc[v] /\ job'[v] = job[v] /\ plan'[v] = plan[v]
              /\ at'[v] = at[v] /\ known'[v] = known[v],
           \A e \in Executions : e = job[w] \/
              /\ track'[e] = track[e] /\ ran'[e] = ran[e] /\ status'[e] = status[e],
           \A e \in Executions : e = job[w] => TracksExecution(e)',
           TracksWork(w)'
    PROVE  TrackInv'
<1>1. \A e \in Executions : TracksExecution(e)'
  <2>1. ASSUME NEW e \in Executions, e # job[w]
        PROVE  TracksExecution(e)'
    <3>1. TracksExecution(e)
      BY DEF TrackInv
    <3> QED BY <2>1, <3>1, SameExecution
  <2> QED BY <2>1
<1>2. ASSUME NEW v \in Workers \ {w}
      PROVE  TracksWork(v)'
  <2>1. TracksWork(v) /\ (pc[v] \in RunPcs => job[v] \in Executions /\ job[v] # job[w])
    <3>1. pc[v] \in RunPcs => job[v] \in Executions /\ job[v] # None
      BY NoneAssumption, HeldFacts DEF IInv, TypeOK, Claimed, RunPcs
    <3> QED BY <3>1 DEF TrackInv, IInv, SingleHolder
  <2> QED BY <2>1, SameWork
<1> QED BY <1>1, <1>2 DEF TrackInv

LEMMA InitTrack == Init => TrackInv
BY DEF Init, TrackInv, TracksExecution, TracksWork, Untracked

\* A step that starts no body and writes no row of action_executions, and ends
\* no execution.
LEMMA TrackKept ==
    ASSUME IInv, TrackInv, NEW w \in Workers, hit \subseteq hit', UNCHANGED <<track, ran>>,
           \A v \in Workers \ {w} :
              /\ pc'[v] = pc[v] /\ job'[v] = job[v] /\ plan'[v] = plan[v]
              /\ at'[v] = at[v] /\ known'[v] = known[v],
           \A e \in Executions :
              status'[e] = status[e] \/ (e = job[w] /\ status'[e] = "running"),
           TracksWork(w)'
    PROVE  TrackInv'
<1>1. \A e \in Executions : e = job[w] => TracksExecution(e)'
  BY SameExecution DEF TrackInv
<1>2. \A e \in Executions : e = job[w] \/
              /\ track'[e] = track[e] /\ ran'[e] = ran[e] /\ status'[e] = status[e]
  OBVIOUS
<1> QED BY <1>1, <1>2, TrackFrame

\* A worker that lets go of its execution.
LEMMA LetGo ==
    ASSUME TypeOK, NEW w \in Workers, NEW p \in {"poll", "down"}, Release(w, p)
    PROVE  /\ TracksWork(w)'
           /\ \A v \in Workers \ {w} :
              /\ pc'[v] = pc[v] /\ job'[v] = job[v] /\ plan'[v] = plan[v]
              /\ at'[v] = at[v] /\ known'[v] = known[v]
BY DEF Release, TypeOK, TracksWork

\* Callers and the clock leave the rows of action_executions alone.
LEMMA TrackCaller ==
    ASSUME IInv, TrackInv, Caller \/ Tick \/ UNCHANGED vars
    PROVE  TrackInv'
<1> DEFINE Still == /\ UNCHANGED <<track, ran, hit, pc, job, plan, at, known>>
                    /\ \A e \in Executions :
                          \/ status'[e] \in {status[e], "running", "deleted"}
                          \/ status[e] = "absent" /\ status'[e] = "queued"
<1>0. ASSUME NEW r \in Routines,
             BeginDeletion(r) \/ CommitDeletion(r) \/ RollbackDeletion(r)
      PROVE  Still
  BY <1>0 DEF BeginDeletion, CommitDeletion, RollbackDeletion, EndDeletion, thread, history
<1>4. ASSUME NEW e \in Executions, DeleteRow(e)
      PROVE  Still
  BY <1>4 DEF DeleteRow, thread, history
<1>5. ASSUME NEW e \in Executions, NEW r \in Routines, NEW s \in Times, Enqueue(e, r, s)
      PROVE  Still
  BY <1>5 DEF Enqueue, thread, history, IInv, TypeOK
<1>1. Still
  BY <1>0, <1>4, <1>5
     DEF Caller, Tick, vars, thread, history, db,
         CreateAction, SwapActions, ReorderActions, DeleteAction
<1>2. \A e \in Executions : TracksExecution(e)'
  BY <1>1, SameExecution DEF TrackInv
<1>3. \A v \in Workers : TracksWork(v)'
  BY <1>1, SameWork DEF TrackInv
<1> QED BY <1>2, <1>3 DEF TrackInv

\* What a worker does to claim an execution, and how it loses it, write no row.
LEMMA TrackClaiming ==
    ASSUME IInv, IInv', TrackInv, NEW w \in Workers, Claiming(w) \/ Crash(w) \/ Start(w)
    PROVE  TrackInv'
<1>1. CASE ReadClock(w) \/ Start(w) \/ \E e \in Executions : Select(w, e)
  <2>1. /\ UNCHANGED <<status, track, ran, hit>> /\ pc'[w] \in {"select", "poll", "commit"}
        /\ \A v \in Workers \ {w} :
              /\ pc'[v] = pc[v] /\ job'[v] = job[v] /\ plan'[v] = plan[v]
              /\ at'[v] = at[v] /\ known'[v] = known[v]
    BY <1>1 DEF ReadClock, Start, Select, Goto, db, history, IInv, TypeOK
  <2> QED BY <2>1, TrackKept DEF TracksWork
<1>2. CASE Crash(w) \/ \E o \in {"ok", "error"} : SelectNothing(w, o)
  <2>1. UNCHANGED <<status, track, ran>> /\ hit \subseteq hit' /\ \E p \in {"poll", "down"} : Release(w, p)
    BY <1>2, SufferFacts DEF Crash, SelectNothing, db, IInv
  <2> QED BY <2>1, TrackKept, LetGo DEF IInv
<1>3. ASSUME NEW o \in {"ok", "error", "late"}, CommitClaim(w, o)
      PROVE  TrackInv'
  <2>1. /\ pc[w] = "commit" /\ UNCHANGED <<track, ran>> /\ hit \subseteq hit'
        /\ Goto(w, "refresh") \/ Release(w, "poll")
        /\ \A e \in Executions : status'[e] = status[e] \/ (e = job[w] /\ status'[e] = "running")
    BY <1>3, SufferFacts DEF CommitClaim, IInv, TypeOK
  <2>2. CASE Release(w, "poll")
    BY <2>1, <2>2, TrackKept, LetGo DEF IInv
  <2>3. CASE Goto(w, "refresh")
    <3>1. job[w] \in Executions /\ Untracked(job[w])
      BY <2>1, HeldFacts DEF IInv, Claimed, TrackInv, TracksExecution
    <3>2. /\ pc'[w] = "refresh" /\ job'[w] = job[w]
          /\ \A v \in Workers \ {w} :
              /\ pc'[v] = pc[v] /\ job'[v] = job[v] /\ plan'[v] = plan[v]
              /\ at'[v] = at[v] /\ known'[v] = known[v]
      BY <2>3 DEF Goto, IInv, TypeOK
    <3>3. TracksWork(w)'
      BY <2>1, <3>1, <3>2 DEF TracksWork, Untracked
    <3> QED BY <2>1, <3>2, <3>3, TrackKept
  <2> QED BY <2>1, <2>2, <2>3
<1>4. ASSUME NEW o \in {"ok", "error"}, Refresh(w, o)
      PROVE  TrackInv'
  <2>1. /\ pc[w] = "refresh" /\ UNCHANGED <<status, track, ran>> /\ hit \subseteq hit'
        /\ Goto(w, "load") \/ Release(w, "poll")
    BY <1>4, SufferFacts DEF Refresh, IInv, db
  <2>2. CASE Release(w, "poll")
    BY <2>1, <2>2, TrackKept, LetGo DEF IInv
  <2>3. CASE Goto(w, "load")
    <3>1. Untracked(job[w])
      BY <2>1 DEF TrackInv, TracksWork
    <3>2. /\ pc'[w] = "load" /\ job'[w] = job[w]
          /\ \A v \in Workers \ {w} :
              /\ pc'[v] = pc[v] /\ job'[v] = job[v] /\ plan'[v] = plan[v]
              /\ at'[v] = at[v] /\ known'[v] = known[v]
      BY <2>3 DEF Goto, IInv, TypeOK
    <3>3. TracksWork(w)'
      BY <2>1, <3>1, <3>2 DEF TracksWork, Untracked
    <3> QED BY <2>1, <3>2, <3>3, TrackKept
  <2> QED BY <2>1, <2>2, <2>3
<1> QED BY <1>1, <1>2, <1>3, <1>4 DEF Claiming

\* A worker that goes on with the execution it runs.
LEMMA TrackOwn ==
    ASSUME IInv, TrackInv, NEW w \in Workers, pc[w] \in RunPcs, hit \subseteq hit', status' = status,
           \A v \in Workers \ {w} :
              /\ pc'[v] = pc[v] /\ job'[v] = job[v] /\ plan'[v] = plan[v]
              /\ at'[v] = at[v] /\ known'[v] = known[v],
           \A e \in Executions : e = job[w] \/ (track'[e] = track[e] /\ ran'[e] = ran[e]),
           TracksWork(w)'
    PROVE  TrackInv'
<1>1. \A e \in Executions : e = job[w] => status'[e] \in {"running", "deleted"}
  BY DEF IInv, HeldIsRunning
<1>2. \A e \in Executions : e = job[w] => TracksExecution(e)'
  BY <1>1 DEF TracksExecution
<1>3. \A e \in Executions : e = job[w] \/
              /\ track'[e] = track[e] /\ ran'[e] = ran[e] /\ status'[e] = status[e]
  OBVIOUS
<1> QED BY <1>2, <1>3, TrackFrame

\* What is known of a worker that is not struck while it runs its plan.
LEMMA OwnFacts ==
    ASSUME IInv, TrackInv, NEW w \in Workers, pc[w] \in {"mark", "body", "done", "finish", "failAction", "failExec"}
    PROVE  /\ job[w] \in Executions /\ plan[w] \in Seq(Actions) /\ Len(plan[w]) \in Nat
           /\ \A i \in 1..Len(plan[w]) : plan[w][i] \in Actions
           /\ Distinct(plan[w]) /\ at[w] \in Nat \ {0}
           /\ track[job[w]] \in [Actions -> ActionStatus]
           /\ job[w] \notin hit => RowsFollow(w)
<1>1. job[w] \in Executions
  BY HeldFacts DEF RunPcs
<1>2. plan[w] \in Seq(Actions) /\ at[w] \in Nat \ {0} /\ track[job[w]] \in [Actions -> ActionStatus]
  BY <1>1 DEF IInv, TypeOK
<1>3. Len(plan[w]) \in Nat /\ \A i \in 1..Len(plan[w]) : plan[w][i] \in Actions
  BY <1>2, LenProperties, ElementOfSeq
<1>4. Distinct(plan[w])
  BY DEF IInv, Progress, OnCourse
<1> QED BY <1>1, <1>2, <1>3, <1>4 DEF TrackInv, TracksWork

\* A step that writes status s to the row of the current action of worker w.
LEMMA UpdateFacts ==
    ASSUME IInv, TrackInv, NEW w \in Workers, pc[w] \in {"mark", "done", "failAction"},
           at[w] <= Len(plan[w]), NEW s, NEW o, UpdateTrack(w, s, o), job'[w] \notin hit', job'[w] = job[w]
    PROVE  /\ o = "ok" /\ job[w] \notin hit /\ ran' = ran
           /\ IF known[w]
              THEN /\ track'[job[w]][plan[w][at[w]]] = s
                   /\ \A i \in 1..Len(plan[w]) :
                        i # at[w] => track'[job[w]][plan[w][i]] = RowStatus(w, i)
                   /\ \A a \in Actions \ Planned(w) : track'[job[w]][a] = "none"
              ELSE \A a \in Actions : track'[job[w]][a] = "none"
<1>1. /\ job[w] \in Executions /\ at[w] \in 1..Len(plan[w])
      /\ \A i \in 1..Len(plan[w]) : plan[w][i] \in Actions
      /\ \A i, j \in 1..Len(plan[w]) : plan[w][i] = plan[w][j] => i = j
      /\ track \in [Executions -> [Actions -> ActionStatus]]
      /\ job[w] \notin hit => RowsFollow(w)
  BY OwnFacts DEF Distinct, IInv, TypeOK
<1>2. job[w] # None
  BY <1>1, NoneAssumption
<1>3. o = "ok" /\ job[w] \notin hit /\ ran' = ran
  BY <1>2, SufferFacts DEF UpdateTrack, IInv
<1>4. CASE known[w]
  <2>1. track' = [track EXCEPT ![job[w]][plan[w][at[w]]] = s]
    BY <1>3, <1>4 DEF UpdateTrack
  <2> DEFINE row == track[job[w]]
             cur == plan[w][at[w]]
  <2>2. cur \in Actions /\ row \in [Actions -> ActionStatus]
    BY <1>1
  <2>3. track'[job[w]] = [row EXCEPT ![cur] = s]
    BY <1>1, <2>1
  <2> HIDE DEF row, cur
  <2>4. track'[job[w]][cur] = s /\ \A a \in Actions : a # cur => track'[job[w]][a] = row[a]
    BY <2>2, <2>3
  <2>5. RowsFollow(w)
    BY <1>1, <1>3
  <2>6. \A i \in 1..Len(plan[w]) : i # at[w] => track'[job[w]][plan[w][i]] = RowStatus(w, i)
    <3> SUFFICES ASSUME NEW i \in 1..Len(plan[w]), i # at[w]
                 PROVE  track'[job[w]][plan[w][i]] = RowStatus(w, i)
      OBVIOUS
    <3>1. plan[w][i] \in Actions /\ plan[w][i] # cur
      BY <1>1 DEF cur
    <3>2. row[plan[w][i]] = RowStatus(w, i)
      BY <1>4, <2>5 DEF RowsFollow, row
    <3> QED BY <2>4, <3>1, <3>2
  <2>7. \A a \in Actions \ Planned(w) : track'[job[w]][a] = "none"
    <3> SUFFICES ASSUME NEW a \in Actions \ Planned(w)
                 PROVE  track'[job[w]][a] = "none"
      OBVIOUS
    <3>1. a # cur
      BY <1>1 DEF cur, Planned
    <3>2. row[a] = "none"
      BY <1>4, <2>5 DEF RowsFollow, row
    <3> QED BY <2>4, <3>1, <3>2
  <2> QED BY <1>3, <1>4, <2>4, <2>6, <2>7 DEF cur
<1>5. CASE ~ known[w]
  <2>1. track' = track /\ Untracked(job[w])
    BY <1>1, <1>3, <1>5 DEF UpdateTrack, RowsFollow
  <2> QED BY <1>3, <1>5, <2>1 DEF Untracked
<1> QED BY <1>4, <1>5

LEMMA TrackPreparing ==
    ASSUME IInv, IInv', TrackInv, NEW w \in Workers,
           \/ \E o \in {"ok", "error"} : LoadActions(w, o)
           \/ \E o \in {"ok", "error", "late"} : TrackActions(w, o)
    PROVE  TrackInv'
<1>1. ASSUME NEW o \in {"ok", "error"}, LoadActions(w, o)
      PROVE  TrackInv'
  <2>1. /\ pc[w] = "load" /\ UNCHANGED <<status, track, ran, job>> /\ hit \subseteq hit'
        /\ o # "ok" => pc'[w] = "failExec" /\ job[w] \in hit'
        /\ o = "ok" => pc'[w] = "track"
        /\ \A v \in Workers \ {w} :
              /\ pc'[v] = pc[v] /\ job'[v] = job[v] /\ plan'[v] = plan[v]
              /\ at'[v] = at[v] /\ known'[v] = known[v]
    <3>1. pc[w] = "load" /\ UNCHANGED <<status, track>>
      BY <1>1 DEF LoadActions, db
    <3>2. job[w] # None
      BY <3>1, HeldFacts, NoneAssumption DEF RunPcs
    <3> QED BY <1>1, <3>1, <3>2, SufferFacts DEF LoadActions, Goto, IInv, TypeOK
  <2>2. Untracked(job[w])
    BY <2>1 DEF TrackInv, TracksWork
  <2>3. TracksWork(w)'
    BY <2>1, <2>2 DEF TracksWork, Untracked
  <2> QED BY <2>1, <2>3, TrackOwn DEF RunPcs
<1>2. ASSUME NEW o \in {"ok", "error", "late"}, TrackActions(w, o)
      PROVE  TrackInv'
  <2>1. /\ pc[w] = "track" /\ job[w] \in Executions /\ job[w] # None
        /\ UNCHANGED <<status, ran, job, plan, at>> /\ hit \subseteq hit'
        /\ o # "ok" => job[w] \in hit'
        /\ at[w] = 1 /\ Untracked(job[w]) /\ Len(plan[w]) \in Nat
    <3>1. pc[w] = "track" /\ UNCHANGED <<status, job, plan, at>>
      BY <1>2 DEF TrackActions
    <3>2. job[w] \in Executions /\ job[w] # None
      BY <3>1, HeldFacts, NoneAssumption DEF RunPcs
    <3>3. at[w] = 1 /\ Untracked(job[w])
      BY <3>1 DEF IInv, Progress, OnCourse, TrackInv, TracksWork
    <3>4. Len(plan[w]) \in Nat
      BY LenProperties DEF IInv, TypeOK
    <3> QED BY <1>2, <3>1, <3>2, <3>3, <3>4, SufferFacts DEF TrackActions, IInv
  <2>2. pc'[w] = NextAction(w, 1) /\ known'[w] = (o = "ok" /\ Trackable(w))
    BY <1>2 DEF TrackActions, IInv, TypeOK
  <2>3. /\ \A v \in Workers \ {w} :
              /\ pc'[v] = pc[v] /\ job'[v] = job[v] /\ plan'[v] = plan[v]
              /\ at'[v] = at[v] /\ known'[v] = known[v]
        /\ \A e \in Executions \ {job[w]} : track'[e] = track[e]
    BY <1>2 DEF TrackActions, IInv, TypeOK
  <2>4. \A a \in Actions : track'[job[w]][a] =
            IF o # "error" /\ Trackable(w) /\ a \in Planned(w) THEN "pending" ELSE "none"
    BY <1>2, <2>1 DEF TrackActions, Untracked, IInv, TypeOK
  <2>5. ASSUME job'[w] \notin hit'
        PROVE  RowsFollow(w)'
    <3>1. o = "ok" /\ (Trackable(w) <=> known'[w])
      <4>1. o = "ok"
        BY <2>1, <2>5
      <4>2. known'[w] = Trackable(w)
        BY <2>2, <4>1 DEF Trackable
      <4> QED BY <4>1, <4>2 DEF Trackable
    <3>2. CASE Trackable(w)
      <4>1. \A i \in 1..Len(plan[w]) : plan[w][i] \in Planned(w) /\ plan[w][i] \in Actions
        BY ElementOfSeq DEF Planned, IInv, TypeOK
      <4>2. \A i \in 1..Len(plan[w]) : RowStatus(w, i)' = "pending"
        BY <2>1, <2>2 DEF RowStatus, NextAction
      <4>3. \A i \in 1..Len(plan[w]) : track'[job[w]][plan[w][i]] = RowStatus(w, i)'
        BY <2>4, <3>1, <3>2, <4>1, <4>2
      <4>4. \A a \in Actions \ Planned(w) : track'[job[w]][a] = "none"
        BY <2>4
      <4>5. Planned(w)' = Planned(w)
        BY <2>1 DEF Planned
      <4> QED BY <2>1, <3>1, <3>2, <4>3, <4>4, <4>5 DEF RowsFollow
    <3>3. CASE ~ Trackable(w)
      <4>1. \A a \in Actions : track'[job[w]][a] = "none"
        BY <2>4, <3>3
      <4> QED BY <2>1, <3>1, <3>3, <4>1 DEF RowsFollow, Untracked
    <3> QED BY <3>2, <3>3
  <2>6. TracksWork(w)'
    <3>1. pc'[w] \in {"mark", "finish"} /\ (pc'[w] = "finish" => at'[w] > Len(plan'[w]))
      BY <2>1, <2>2 DEF NextAction
    <3> QED BY <2>5, <3>1 DEF TracksWork
  <2>7. \A e \in Executions : e = job[w] \/ (track'[e] = track[e] /\ ran'[e] = ran[e])
    BY <2>1, <2>3
  <2> QED BY <2>1, <2>3, <2>6, <2>7, TrackOwn DEF RunPcs
<1> QED BY <1>1, <1>2

\* The rows follow after a step that wrote status s to the row of the current action.
LEMMA FollowsOn ==
    ASSUME IInv, TrackInv, NEW w \in Workers, pc[w] \in {"mark", "done", "failAction"},
           at[w] <= Len(plan[w]), NEW s, NEW o, UpdateTrack(w, s, o),
           UNCHANGED <<job, plan, known>>, job'[w] \notin hit',
           \A i \in 1..Len(plan[w]) : RowStatus(w, i)' = IF i = at[w] THEN s ELSE RowStatus(w, i)
    PROVE  RowsFollow(w)'
<1>1. /\ o = "ok" /\ job[w] \notin hit /\ ran' = ran
      /\ IF known[w]
         THEN /\ track'[job[w]][plan[w][at[w]]] = s
              /\ \A i \in 1..Len(plan[w]) :
                    i # at[w] => track'[job[w]][plan[w][i]] = RowStatus(w, i)
              /\ \A a \in Actions \ Planned(w) : track'[job[w]][a] = "none"
         ELSE \A a \in Actions : track'[job[w]][a] = "none"
  BY UpdateFacts
<1>2. Planned(w)' = Planned(w)
  BY DEF Planned
<1>3. CASE ~ known[w]
  <2>1. \A a \in Actions : track'[job'[w]][a] = "none"
    BY <1>1, <1>3
  <2> QED BY <1>3, <2>1 DEF RowsFollow, Untracked
<1>4. CASE known[w]
  <2>1. \A a \in Actions \ Planned(w) : track'[job'[w]][a] = "none"
    BY <1>1, <1>4
  <2>2. ASSUME NEW i \in 1..Len(plan[w])
        PROVE  track'[job'[w]][plan'[w][i]] = RowStatus(w, i)'
    <3>1. CASE i = at[w]
      BY <1>1, <1>4, <3>1
    <3>2. CASE i # at[w]
      BY <1>1, <1>4, <3>2
    <3> QED BY <3>1, <3>2
  <2> QED BY <1>2, <1>4, <2>1, <2>2 DEF RowsFollow
<1> QED BY <1>3, <1>4

LEMMA TrackMarking ==
    ASSUME IInv, IInv', TrackInv, NEW w \in Workers, NEW o \in {"ok", "error"},
           MarkRunning(w, o) \/ MarkCompleted(w, o) \/ MarkFailed(w, o)
    PROVE  TrackInv'
<1>1. /\ pc[w] \in {"mark", "done", "failAction"}
      /\ UNCHANGED <<status, ran, job, plan, known>> /\ hit \subseteq hit'
      /\ \A v \in Workers \ {w} :
              /\ pc'[v] = pc[v] /\ job'[v] = job[v] /\ plan'[v] = plan[v]
              /\ at'[v] = at[v] /\ known'[v] = known[v]
      /\ \A e \in Executions \ {job[w]} : track'[e] = track[e]
  <2>1. /\ pc[w] \in {"mark", "done", "failAction"} /\ UNCHANGED <<job, plan, known>>
        /\ \E s \in ActionStatus : UpdateTrack(w, s, o)
    BY DEF MarkRunning, MarkCompleted, MarkFailed, Goto, ActionStatus
  <2>2. UNCHANGED <<status, ran>> /\ hit \subseteq hit'
    BY <2>1, SufferFacts DEF UpdateTrack, IInv
  <2>3. \A e \in Executions \ {job[w]} : track'[e] = track[e]
    BY <2>1 DEF UpdateTrack, IInv, TypeOK
  <2>4. \A v \in Workers \ {w} : pc'[v] = pc[v] /\ at'[v] = at[v]
    BY DEF MarkRunning, MarkCompleted, MarkFailed, Goto, IInv, TypeOK
  <2> QED BY <2>1, <2>2, <2>3, <2>4
<1>2. /\ Len(plan[w]) \in Nat /\ at[w] \in Nat \ {0}
      /\ at[w] <= Len(plan[w])
      /\ pc[w] = "failAction" /\ job[w] \notin hit => known[w] /\ Raised(w)
  BY <1>1, OwnFacts DEF IInv, Progress, OnCourse, HasRun, TrackInv, TracksWork
<1>3. CASE MarkRunning(w, o)
  <2>1. pc[w] = "mark" /\ UpdateTrack(w, "running", o) /\ pc'[w] = "body" /\ UNCHANGED <<at, job, plan, known>>
    BY <1>3 DEF MarkRunning, Goto, IInv, TypeOK
  <2>2. \A i \in 1..Len(plan[w]) : RowStatus(w, i)' = IF i = at[w] THEN "running" ELSE RowStatus(w, i)
    BY <1>2, <2>1 DEF RowStatus
  <2>3. job'[w] \notin hit' => RowsFollow(w)'
    BY <1>2, <2>1, <2>2, FollowsOn
  <2>4. TracksWork(w)'
    BY <2>1, <2>3 DEF TracksWork
  <2> QED BY <1>1, <2>4, TrackOwn DEF RunPcs
<1>4. CASE MarkCompleted(w, o)
  <2>1. /\ pc[w] = "done" /\ UpdateTrack(w, "completed", o) /\ UNCHANGED <<job, plan, known>>
        /\ pc'[w] = NextAction(w, at[w] + 1) /\ at'[w] = at[w] + 1
    BY <1>4 DEF MarkCompleted, IInv, TypeOK
  <2>2. \A i \in 1..Len(plan[w]) : RowStatus(w, i)' = IF i = at[w] THEN "completed" ELSE RowStatus(w, i)
    BY <1>2, <2>1 DEF RowStatus, NextAction
  <2>3. job'[w] \notin hit' => RowsFollow(w)'
    BY <1>2, <2>1, <2>2, FollowsOn
  <2>4. pc'[w] \in {"mark", "finish"} /\ (pc'[w] = "finish" => at'[w] > Len(plan'[w]))
    BY <1>2, <2>1 DEF NextAction
  <2>5. TracksWork(w)'
    BY <2>3, <2>4 DEF TracksWork
  <2> QED BY <1>1, <2>5, TrackOwn DEF RunPcs
<1>5. CASE MarkFailed(w, o)
  <2>1. pc[w] = "failAction" /\ UpdateTrack(w, "failed", o) /\ pc'[w] = "failExec" /\ UNCHANGED <<at, job, plan, known>>
    BY <1>5 DEF MarkFailed, Goto, IInv, TypeOK
  <2>2. \A i \in 1..Len(plan[w]) : RowStatus(w, i)' = IF i = at[w] THEN "failed" ELSE RowStatus(w, i)
    BY <1>2, <2>1 DEF RowStatus
  <2>3. job'[w] \notin hit' => RowsFollow(w)'
    BY <1>2, <2>1, <2>2, FollowsOn
  <2>4. job'[w] \notin hit' => Raised(w)'
    BY <1>1, <1>2, <2>1 DEF Raised
  <2>5. TracksWork(w)'
    BY <2>1, <2>3, <2>4 DEF TracksWork
  <2> QED BY <1>1, <2>5, TrackOwn DEF RunPcs
<1> QED BY <1>3, <1>4, <1>5

LEMMA TrackBody ==
    ASSUME IInv, IInv', TrackInv, NEW w \in Workers, RunBody(w)
    PROVE  TrackInv'
<1> DEFINE a == plan[w][at[w]]
<1>1. /\ pc[w] = "body" /\ UNCHANGED <<status, track, job, plan, at, known, hit>>
      /\ job[w] \in Executions
      /\ pc'[w] = (IF a \notin FailingActions THEN "done" ELSE IF known[w] THEN "failAction" ELSE "failExec")
      /\ \A v \in Workers \ {w} : pc'[v] = pc[v]
      /\ ran' = [ran EXCEPT ![job[w]] = Append(@, a)]
  <2>1. pc[w] = "body"
    BY DEF RunBody
  <2>2. job[w] \in Executions
    BY <2>1, OwnFacts
  <2> QED BY <2>1, <2>2 DEF RunBody, Goto, db, IInv, TypeOK
<1>2. /\ Len(plan[w]) \in Nat /\ at[w] \in Nat \ {0} /\ at[w] <= Len(plan[w]) /\ HasRun(w, at[w] - 1)
      /\ ran[job[w]] \in Seq(Actions) /\ a \in Actions
      /\ job[w] \notin hit => RowsFollow(w)
  <2>1. /\ Len(plan[w]) \in Nat /\ at[w] \in Nat \ {0} /\ (job[w] \notin hit => RowsFollow(w))
        /\ \A i \in 1..Len(plan[w]) : plan[w][i] \in Actions
    BY <1>1, OwnFacts
  <2>2. at[w] <= Len(plan[w]) /\ HasRun(w, at[w] - 1)
    BY <1>1 DEF IInv, Progress, OnCourse
  <2>3. ran[job[w]] \in Seq(Actions)
    BY <1>1 DEF IInv, TypeOK
  <2> QED BY <2>1, <2>2, <2>3
<1> HIDE DEF a
<1>3. /\ Len(ran'[job[w]]) = at[w]
      /\ \A i \in 1..at[w] : ran'[job[w]][i] = plan[w][i]
      /\ \A i \in 1..at[w]-1 : plan[w][i] \notin FailingActions
  <2> DEFINE s == ran[job[w]]
             t == ran'[job[w]]
  <2>1. t = Append(s, a)
    BY <1>1 DEF IInv, TypeOK
  <2>2. Len(s) = at[w] - 1 /\ \A i \in 1..at[w]-1 : s[i] = plan[w][i] /\ plan[w][i] \notin FailingActions
    BY <1>2 DEF HasRun
  <2>3. s \in Seq(Actions)
    BY <1>2
  <2> HIDE DEF s, t
  <2>4. Len(t) = Len(s) + 1 /\ \A i \in 1..Len(s)+1 : t[i] = IF i <= Len(s) THEN s[i] ELSE a
    BY <1>2, <2>1, <2>3, AppendProperties
  <2> QED BY <1>2, <2>2, <2>4 DEF a, t
<1>4. pc'[w] \in {"failAction", "failExec"} => Raised(w)'
  <2>1. pc'[w] \in {"failAction", "failExec"} => plan[w][at[w]] \in FailingActions
    BY <1>1 DEF a
  <2> QED BY <1>1, <1>2, <1>3, <2>1 DEF Raised
<1>5. job[w] \notin hit => RowsFollow(w)'
  <2>1. pc'[w] # "failExec" => \A i \in 1..Len(plan[w]) : RowStatus(w, i)' = RowStatus(w, i)
    BY <1>1 DEF RowStatus
  <2>2. pc'[w] = "failExec" => ~ known[w]
    BY <1>1
  <2>3. Untracked(job[w]) => Untracked(job[w])'
    BY <1>1 DEF Untracked
  <2> QED BY <1>1, <1>2, <2>1, <2>2, <2>3 DEF RowsFollow, Planned
<1>6. TracksWork(w)'
  BY <1>1, <1>4, <1>5 DEF TracksWork
<1>7. \A e \in Executions : e = job[w] \/ (track'[e] = track[e] /\ ran'[e] = ran[e])
  BY <1>1 DEF IInv, TypeOK
<1>8. \A v \in Workers \ {w} :
              /\ pc'[v] = pc[v] /\ job'[v] = job[v] /\ plan'[v] = plan[v]
              /\ at'[v] = at[v] /\ known'[v] = known[v]
  BY <1>1
<1> QED BY <1>1, <1>6, <1>7, <1>8, TrackOwn DEF RunPcs

\* The rows of an execution whose plan was run to its end.
LEMMA FinishedRows ==
    ASSUME IInv, TrackInv, NEW w \in Workers, pc[w] = "finish", job[w] \notin hit, known[w],
           NEW a \in Actions
    PROVE  IF \E i \in 1..Len(ran[job[w]]) : ran[job[w]][i] = a
           THEN a \notin FailingActions /\ track[job[w]][a] = "completed"
           ELSE track[job[w]][a] = "none"
<1>1. RowsFollow(w) /\ at[w] \in Nat /\ Len(plan[w]) \in Nat
  BY OwnFacts
<1>2. at[w] > Len(plan[w])
  BY DEF TrackInv, TracksWork
<1>3. /\ Len(ran[job[w]]) = Len(plan[w])
      /\ \A i \in 1..Len(plan[w]) : ran[job[w]][i] = plan[w][i] /\ plan[w][i] \notin FailingActions
  BY DEF IInv, Progress, OnCourse, HasRun
<1>4. /\ \A i \in 1..Len(plan[w]) : track[job[w]][plan[w][i]] = "completed"
      /\ \A b \in Actions \ Planned(w) : track[job[w]][b] = "none"
  BY <1>1, <1>2 DEF RowsFollow, RowStatus
<1>5. (\E i \in 1..Len(ran[job[w]]) : ran[job[w]][i] = a) <=> a \in Planned(w)
  BY <1>3 DEF Planned
<1>6. a \in Planned(w) => a \notin FailingActions /\ track[job[w]][a] = "completed"
  BY <1>3, <1>4 DEF Planned
<1> QED BY <1>4, <1>5, <1>6

\* The rows of an execution whose last body raised.
LEMMA FailedRows ==
    ASSUME IInv, TrackInv, NEW w \in Workers, pc[w] = "failExec", job[w] \notin hit, known[w],
           NEW a \in Actions
    PROVE  IF \E i \in 1..Len(ran[job[w]]) : ran[job[w]][i] = a
           THEN track[job[w]][a] = IF a \in FailingActions THEN "failed" ELSE "completed"
           ELSE track[job[w]][a] \in {"none", "pending"}
<1>1. RowsFollow(w) /\ at[w] \in Nat \ {0} /\ Len(plan[w]) \in Nat
  BY OwnFacts
<1>2. /\ at[w] <= Len(plan[w]) /\ Len(ran[job[w]]) = at[w]
      /\ \A i \in 1..at[w] : ran[job[w]][i] = plan[w][i]
      /\ \A i \in 1..at[w] : plan[w][i] \in FailingActions <=> i = at[w]
  BY DEF TrackInv, TracksWork, Raised
<1>3. /\ \A i \in 1..Len(plan[w]) : track[job[w]][plan[w][i]] = RowStatus(w, i)
      /\ \A b \in Actions \ Planned(w) : track[job[w]][b] = "none"
  BY <1>1 DEF RowsFollow
<1>4. \A i \in 1..Len(plan[w]) :
         RowStatus(w, i) = IF i < at[w] THEN "completed" ELSE IF i = at[w] THEN "failed" ELSE "pending"
  BY <1>1 DEF RowStatus
<1>5. ASSUME NEW i \in 1..Len(ran[job[w]]), ran[job[w]][i] = a
      PROVE  track[job[w]][a] = IF a \in FailingActions THEN "failed" ELSE "completed"
  <2>1. i \in 1..Len(plan[w]) /\ i \in 1..at[w] /\ plan[w][i] = a
    BY <1>1, <1>2, <1>5
  <2>2. track[job[w]][a] = RowStatus(w, i)
    BY <1>3, <2>1
  <2> QED BY <1>1, <1>2, <1>4, <2>1, <2>2
<1>6. ASSUME ~ \E i \in 1..Len(ran[job[w]]) : ran[job[w]][i] = a
      PROVE  track[job[w]][a] \in {"none", "pending"}
  <2>1. CASE a \in Planned(w)
    <3>1. PICK i \in 1..Len(plan[w]) : plan[w][i] = a
      BY <2>1 DEF Planned
    <3>2. i > at[w]
      BY <1>1, <1>2, <1>6, <3>1
    <3> QED BY <1>1, <1>3, <1>4, <3>1, <3>2
  <2> QED BY <1>3, <2>1
<1> QED BY <1>5, <1>6

\* The end of an execution, or the attempt to record it.
LEMMA TrackEnding ==
    ASSUME IInv, IInv', TrackInv, NEW w \in Workers, NEW o \in {"ok", "error"},
           Complete(w, o) \/ Fail(w, o)
    PROVE  TrackInv'
<1>1. /\ UNCHANGED <<track, ran>> /\ hit \subseteq hit' /\ Release(w, "poll")
      /\ pc[w] \in {"finish", "failExec"} /\ job[w] \in Executions
      /\ track \in [Executions -> [Actions -> ActionStatus]]
  <2>1. pc[w] \in {"finish", "failExec"} /\ Release(w, "poll") /\ Suffer(w, o) /\ track' = track
    BY DEF Complete, Fail, EndExecution
  <2> QED BY <2>1, SufferFacts, OwnFacts DEF IInv, TypeOK
<1>2. \A e \in Executions : e = job[w] \/
         /\ track'[e] = track[e] /\ ran'[e] = ran[e] /\ status'[e] = status[e]
  BY <1>1 DEF Complete, Fail, EndExecution, IInv, TypeOK
<1>3. /\ status[job[w]] \in {"running", "deleted"}
      /\ \/ status'[job[w]] \in {"running", "deleted"}
         \/ pc[w] = "finish" /\ status'[job[w]] = "completed"
         \/ pc[w] = "failExec" /\ status'[job[w]] = "failed"
  <2>1. status[job[w]] \in {"running", "deleted"}
    BY <1>1 DEF IInv, HeldIsRunning, RunPcs
  <2> QED BY <1>1, <2>1 DEF Complete, Fail, EndExecution, IInv, TypeOK
<1>4. ASSUME NEW e \in Executions, e = job[w], e \notin hit, known[w],
             status'[e] \in {"completed", "failed"}
      PROVE  TrackAsRan(e)'
  <2> DEFINE started == {ran[e][i] : i \in 1..Len(ran[e])}
  <2>1. \A a \in Actions :
          IF a \in started THEN track[e][a] = IF a \in FailingActions THEN "failed" ELSE "completed"
          ELSE track[e][a] \in IF status'[e] = "completed" THEN {"none"} ELSE {"none", "pending"}
    BY <1>1, <1>3, <1>4, FinishedRows, FailedRows
  <2>2. started \subseteq Actions
    <3>1. ran[e] \in Seq(Actions)
      BY DEF IInv, TypeOK
    <3> QED BY <3>1, ElementOfSeq
  <2>3. started' = started
    BY <1>1
  <2> QED BY <1>1, <2>1, <2>2, <2>3 DEF TrackAsRan
<1>5. ASSUME NEW e \in Executions, e = job[w], e \notin hit, ~ known[w]
      PROVE  Untracked(e)'
  BY <1>1, <1>5, OwnFacts DEF RowsFollow, Untracked
<1>6. ASSUME NEW e \in Executions, e = job[w]
      PROVE  TracksExecution(e)'
  <2>1. CASE status'[e] \in {"running", "deleted"}
    BY <2>1 DEF TracksExecution
  <2>2. CASE status'[e] \in {"completed", "failed"}
    <3>1. e \notin hit' => TrackAsRan(e)' \/ Untracked(e)'
      BY <1>1, <1>4, <1>5, <1>6, <2>2
    <3> QED BY <2>2, <3>1 DEF TracksExecution
  <2> QED BY <1>3, <1>6, <2>1, <2>2
<1>7. TracksWork(w)' /\ \A v \in Workers \ {w} :
              /\ pc'[v] = pc[v] /\ job'[v] = job[v] /\ plan'[v] = plan[v]
              /\ at'[v] = at[v] /\ known'[v] = known[v]
  BY <1>1, LetGo DEF IInv
<1> QED BY <1>1, <1>2, <1>6, <1>7, TrackFrame

LEMMA TrackStep == IInv /\ IInv' /\ TrackInv /\ [Next]_vars => TrackInv'
<1> SUFFICES ASSUME IInv, IInv', TrackInv, [Next]_vars
             PROVE  TrackInv'
  OBVIOUS
<1>1. ASSUME NEW w \in Workers, Running(w)
      PROVE  TrackInv'
  BY <1>1, TrackPreparing, TrackMarking, TrackBody, TrackEnding DEF Running
<1> QED BY <1>1, TrackCaller, TrackClaiming DEF Next

\* Once an execution that no error touched is finished, its rows tell exactly
\* what ran, or there are none, for any number of workers and however the
\* routine was edited meanwhile.
THEOREM TrackedExactly == Spec => []TrackingIsExact
<1>1. Init => IInv /\ TrackInv
  BY InitInv, InitTrack
<1>2. IInv /\ TrackInv /\ [Next]_vars => IInv' /\ TrackInv'
  BY StepInv, TrackStep
<1>3. TrackInv => TrackingIsExact
  BY DEF TrackInv, TracksExecution, TrackingIsExact, Untracked
<1> QED BY <1>1, <1>2, <1>3, PTL DEF Spec
=============================================================================
