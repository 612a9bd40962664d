---------------------------- MODULE MCOAuthLogin ----------------------------
(***************************************************************************)
(* Instance of OAuthLogin for TLC: the constants of oauth.cfg.             *)
(***************************************************************************)
EXTENDS OAuthLogin, TLC

CONSTANTS q1, q2, s1, s2, a1, a2, e1, e2, e3, c1, c2

\* Requests, states, codes, accounts and addresses are told apart by nothing else.
Interchangeable ==
    Permutations(Requests) \union Permutations(States) \union Permutations(Codes)
    \union Permutations(Accounts) \union Permutations(Emails)
=============================================================================
