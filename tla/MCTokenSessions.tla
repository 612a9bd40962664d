-------------------------- MODULE MCTokenSessions --------------------------
(***************************************************************************)
(* Instance of TokenSessions for TLC: the constants of the cfg files.      *)
(***************************************************************************)
EXTENDS TokenSessions, TLC

CONSTANTS q1, q2, t1, t2, t3, t4

\* Tokens and requests are random strings and threads: nothing tells them apart.
Interchangeable == Permutations(Requests) \union Permutations(Tokens)
=============================================================================
