--------------------------- MODULE MCSchedulerSync ---------------------------
(***************************************************************************)
(* Instances of SchedulerSync for TLC: the constants of the cfg files.     *)
(***************************************************************************)
EXTENDS SchedulerSync

CONSTANTS r1, r2, q1, q2, c1, c2, i1, i9

New(t, c, a) == [type |-> t, config |-> c, active |-> a]

\* Every valid routine.
AnyNew == {d \in Rows : Valid(d.type, d.config)}

ActiveNew == {New("cron", c1, TRUE)}

\* One update for each thing the scheduler may be told.
SomeUpdates ==
    {[active |-> TRUE], [active |-> FALSE], [type |-> "interval", config |-> i1],
     [type |-> "manual"]}

\* Activation, deactivation, a new schedule with or without its type, and no
\* schedule any more.
AnyUpdate ==
    [active : BOOLEAN]
    \union [config : Crons \union Intervals]
    \union [type : {"cron"}, config : Crons]
    \union [type : {"interval"}, config : Intervals]
    \union [type : {"manual"}]
    \union [type : {"cron"}, config : Crons, active : {TRUE}]
    \union [type : {"manual"}, active : {FALSE}]
=============================================================================
