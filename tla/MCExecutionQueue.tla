--------------------------- MODULE MCExecutionQueue ---------------------------
(***************************************************************************)
(* Instances of ExecutionQueue for TLC: the constants of the cfg files.    *)
(***************************************************************************)
EXTENDS ExecutionQueue

CONSTANTS w1, w2, e1, e2, e3, r1, r2, a1, a2, a3

\* r1 has two actions, any other routine none.
TwoActions == [r \in Routines |-> IF r = r1 THEN <<a1, a2>> ELSE <<>>]

\* r1 has one action; a second one may be created.
OneAction == [r \in Routines |-> IF r = r1 THEN <<a1>> ELSE <<>>]

\* Workers and executions are interchangeable.
Symmetry == Permutations(Workers) \union Permutations(Executions)
=============================================================================
