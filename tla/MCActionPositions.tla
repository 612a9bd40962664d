-------------------------- MODULE MCActionPositions --------------------------
(***************************************************************************)
(* Instances of ActionPositions for TLC: the constants of the cfg files.   *)
(***************************************************************************)
EXTENDS ActionPositions, TLC

CONSTANTS q1, q2, a1, a2, a3, a4

\* Requests are interchangeable.
Symmetry == Permutations(Requests)

Three == <<a1, a2, a3>>
=============================================================================
