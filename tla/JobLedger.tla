------------------------------ MODULE JobLedger ------------------------------
(***************************************************************************)
(* What the execution queue promises its users, with no clock, database,   *)
(* lock or error in sight: a job is recorded once, claimed at most once,   *)
(* worked on only by the worker that claimed it, and finished only by that *)
(* worker.  A worker that claimed a job may lose it (a crash, an error):   *)
(* the job then stays "running" for good, it is never claimed again.       *)
(* ExecutionQueue implements this module.                                  *)
(***************************************************************************)
EXTENDS Naturals, Sequences

CONSTANTS
    Jobs,       \* execution ids
    Workers,    \* queue workers
    Effects,    \* the side effects a job may have (the action bodies)
    NoWorker    \* "nobody holds this job", not a worker

VARIABLES
    status,     \* status[j]: where job j is in its life
    holder,     \* holder[j]: the worker that is executing j, or NoWorker
    work        \* work[j]: the effects job j has had so far, in order

vars == <<status, holder, work>>

Statuses == {"absent", "queued", "running", "completed", "failed", "deleted"}
Final == {"completed", "failed"}

Init ==
    /\ status = [j \in Jobs |-> "absent"]
    /\ holder = [j \in Jobs |-> NoWorker]
    /\ work = [j \in Jobs |-> <<>>]

\* A new job is recorded.
Enqueue(j) ==
    /\ status[j] = "absent"
    /\ status' = [status EXCEPT ![j] = "queued"]
    /\ UNCHANGED <<holder, work>>

\* A free worker takes a queued job.
Claim(w, j) ==
    /\ status[j] = "queued"
    /\ \A k \in Jobs : holder[k] # w
    /\ status' = [status EXCEPT ![j] = "running"]
    /\ holder' = [holder EXCEPT ![j] = w]
    /\ UNCHANGED work

\* A worker takes a queued job and loses it at once: the claim is recorded but
\* the worker never learns of it.
ClaimInVain(j) ==
    /\ status[j] = "queued"
    /\ status' = [status EXCEPT ![j] = "running"]
    /\ UNCHANGED <<holder, work>>

\* The holder has one more effect on behalf of its job, one the job never had.
Work(w, j, x) ==
    /\ holder[j] = w
    /\ \A i \in 1..Len(work[j]) : work[j][i] # x
    /\ work' = [work EXCEPT ![j] = Append(@, x)]
    /\ UNCHANGED <<status, holder>>

\* The holder records how its job ended and lets go of it.
Finish(w, j, s) ==
    /\ holder[j] = w
    /\ status[j] = "running"
    /\ status' = [status EXCEPT ![j] = s]
    /\ holder' = [holder EXCEPT ![j] = NoWorker]
    /\ UNCHANGED work

\* The holder lets go of its job without recording anything.
Lose(w, j) ==
    /\ holder[j] = w
    /\ holder' = [holder EXCEPT ![j] = NoWorker]
    /\ UNCHANGED <<status, work>>

\* The records of some jobs are deleted, whatever state they are in; a worker
\* that holds one of them goes on working on it.
Remove(S) ==
    /\ \A j \in S : status[j] # "absent"
    /\ status' = [j \in Jobs |-> IF j \in S THEN "deleted" ELSE status[j]]
    /\ UNCHANGED <<holder, work>>

Next ==
    \/ \E j \in Jobs : Enqueue(j) \/ ClaimInVain(j)
    \/ \E w \in Workers, j \in Jobs :
        \/ Claim(w, j)
        \/ \E x \in Effects : Work(w, j, x)
        \/ \E s \in Final : Finish(w, j, s)
        \/ Lose(w, j)
    \/ \E S \in SUBSET Jobs : Remove(S)

Spec == Init /\ [][Next]_vars
=============================================================================
