---------------------------- MODULE OneTimeToken ----------------------------
(***************************************************************************)
(* What the backend promises of the random tokens it keeps in Redis, the   *)
(* state of a Google sign-in and the refresh token of a session: a token   *)
(* is issued once, may lapse (its time runs out, it is deleted, the answer *)
(* to the call that took it is lost), and is redeemed at most once.        *)
(* OAuthLogin and TokenSessions implement this module.                     *)
(***************************************************************************)
EXTENDS Naturals

CONSTANT Tokens

VARIABLES
    issued,  \* the tokens that were ever stored
    live,    \* the tokens a request could still redeem
    uses     \* uses[t]: the requests token t let through

vars == <<issued, live, uses>>

Init ==
    /\ issued = {}
    /\ live = {}
    /\ uses = [t \in Tokens |-> 0]

Issue(t) ==
    /\ t \notin issued
    /\ issued' = issued \union {t}
    /\ live' = live \union {t}
    /\ UNCHANGED uses

Redeem(t) ==
    /\ t \in live
    /\ live' = live \ {t}
    /\ uses' = [uses EXCEPT ![t] = @ + 1]
    /\ UNCHANGED issued

Lapse(t) ==
    /\ t \in live
    /\ live' = live \ {t}
    /\ UNCHANGED <<issued, uses>>

Next == \E t \in Tokens : Issue(t) \/ Redeem(t) \/ Lapse(t)

Spec == Init /\ [][Next]_vars

-----------------------------------------------------------------------------
\* No token lets two requests through: "replay is impossible even under
\* concurrent load" (google_oauth.py:73).
RedeemedOnce == \A t \in Tokens : uses[t] <= 1
=============================================================================
