---------------------------- MODULE MCRoutineForm ----------------------------
(***************************************************************************)
(* Instance of RoutineForm for TLC: the constants of form.cfg.             *)
(***************************************************************************)
EXTENDS RoutineForm, TLC

CONSTANTS f1, f2, r1, r2, r3, a1, a2, a3, a4, a5, a6, a7, a8, d1, d2, n1, n2, n3, n0

TwoActions == <<a1, a2>>

\* The routine's name, and another one in two spellings.
TwoNames == [m \in Names |-> IF m = OldName THEN m ELSE n0]

Interchangeable == Permutations(Forms)
=============================================================================
