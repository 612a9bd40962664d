--------------------------- MODULE TokenSessions ---------------------------
(***************************************************************************)
(* The sessions of a signed-in browser (google_callback from the JWT on,   *)
(* refresh_token and logout of backend/user_routes.py, backend/security.py *)
(* and the revocation list in Redis).  A session is a pair of cookies, a   *)
(* JWT (access token) that is good until it expires or is revoked, and a   *)
(* refresh token kept in Redis and exchanged, once, for the next pair.     *)
(*                                                                         *)
(* One step is one Redis call or one statement of a request.  The tabs of  *)
(* a browser send requests at once; a call may fail without effect         *)
(* ("error") or after it took effect ("late"), an answer may get lost, the *)
(* process may die.  Time passes in ticks of half a second, because a JWT  *)
(* and a TTL are cut to whole seconds.                                     *)
(***************************************************************************)
EXTENDS Integers, FiniteSets

CONSTANTS
    Requests,  \* requests being served at once
    Tokens,    \* the pairs of tokens that are ever made
    None,      \* no pair
    Life,      \* access_token_expire_minutes, in seconds
    MaxTime,   \* bound on the clock, in ticks
    MaxFaults, \* bound on calls that fail, answers that get lost and deaths
    MayDie     \* may the process die?

ASSUME NoneAssumption == None \notin Tokens
ASSUME LifeAssumption == Life \in Nat \ {0}
ASSUME BoundAssumption == MaxTime \in Nat \ {0} /\ MaxFaults \in Nat /\ MayDie \in BOOLEAN

VARIABLES
    now,      \* the clock
    \* Redis.
    live,     \* the refresh tokens under oauth:refresh:
    revoked,  \* the JWTs put under oauth:revoked:, and until when
    \* The browser.
    jar,      \* its refresh cookie
    jwt,      \* its access cookie
    \* The requests.
    pc,
    sent,     \* sent[q]: the refresh token the request came with
    access,   \* access[q]: the JWT it came with
    new,      \* new[q]: the JWT it made, its refresh token is new[q].jti
    \* History, read by no guard, and bounds.
    family,   \* family[t]: the first token of t's sign-in, None before t is made
    issued,   \* refresh tokens that were stored
    uses,     \* uses[t]: the times refresh token t was exchanged
    out,      \* sign-ins that were signed out of
    broken,   \* sign-ins whose refresh token expired, was deleted or got lost
    faults

redis == <<live, revoked, issued, uses>>
browser == <<jar, jwt>>
request == <<pc, sent, access, new>>
history == <<out, broken>>
vars == <<now, redis, family, browser, request, history, faults>>

Idle(q) == pc[q] = "idle"
Made(t) == family[t] # None

\* _decode_token_subject: the whole seconds of the clock are compared to "exp",
\* then "jti" is looked up in the revocation list.
Expired(j) == j.exp < now \div 2
Revoked(j) == \E r \in revoked : r.jwt = j /\ now < r.until
Accepted(j) == ~ Expired(j) /\ ~ Revoked(j)

\* The exchange of a refresh token of sign-in f is under way: the old one is
\* gone, the new one not yet stored.
Rotating(q, f) == \/ pc[q] = "select" /\ family[sent[q]] = f
                  \/ pc[q] = "store" /\ family[new[q].jti] = f

\* Or the new pair is on its way to the browser.
Refreshing(q, f) == Rotating(q, f) \/ (pc[q] = "cookies" /\ family[new[q].jti] = f)

-----------------------------------------------------------------------------
Init ==
    /\ now = 1
    /\ live = {}
    /\ revoked = {}
    /\ family = [t \in Tokens |-> None]
    /\ jar = None
    /\ jwt = None
    /\ pc = [q \in Requests |-> "idle"]
    /\ sent = [q \in Requests |-> None]
    /\ access = [q \in Requests |-> None]
    /\ new = [q \in Requests |-> None]
    /\ issued = {}
    /\ uses = [t \in Tokens |-> 0]
    /\ out = {}
    /\ broken = {}
    /\ faults = 0

-----------------------------------------------------------------------------
(* The steps of a request.                                                  *)

\* Request q comes with refresh token t and JWT a, its first step is p.
Begin(q, t, a, p) ==
    /\ Idle(q)
    /\ pc' = [pc EXCEPT ![q] = p]
    /\ sent' = [sent EXCEPT ![q] = t]
    /\ access' = [access EXCEPT ![q] = a]
    /\ UNCHANGED new

Goto(q, p) ==
    /\ pc' = [pc EXCEPT ![q] = p]
    /\ UNCHANGED <<sent, access, new>>

\* The request is answered, or nobody waits for its answer.
End(q) ==
    /\ pc' = [pc EXCEPT ![q] = "idle"]
    /\ sent' = [sent EXCEPT ![q] = None]
    /\ access' = [access EXCEPT ![q] = None]
    /\ new' = [new EXCEPT ![q] = None]

\* A call of a request may fail.
Outcome(o) ==
    IF o = "ok" THEN UNCHANGED faults ELSE faults < MaxFaults /\ faults' = faults + 1

\* Sign-in f is broken if c.
Break(f, c) == broken' = IF c THEN broken \union {f} ELSE broken

\* create_access_token and token_urlsafe: q makes the pair t for sign-in f.
MakePair(q, t, f) ==
    /\ ~ Made(t)
    /\ family' = [family EXCEPT ![t] = f]
    /\ new' = [new EXCEPT ![q] = [jti |-> t, exp |-> now \div 2 + Life]]
    /\ pc' = [pc EXCEPT ![q] = "store"]
    /\ UNCHANGED <<sent, access>>

\* google_callback has found its user: a pair that is a sign-in of its own.
SignIn(q, t) ==
    /\ Idle(q)
    /\ MakePair(q, t, t)
    /\ UNCHANGED <<now, redis, browser, history, faults>>

\* POST /auth/refresh with a refresh cookie; one without is answered 401.
Refresh(q) ==
    /\ jar # None
    /\ Begin(q, jar, None, "take")
    /\ UNCHANGED <<now, redis, family, browser, history, faults>>

\* Mutant: the old refresh token is read and left to expire.
TakeByGet(q, o) ==
    LET t == sent[q] IN
    /\ pc[q] = "take"
    /\ Outcome(o)
    /\ UNCHANGED live
    /\ IF o = "ok" /\ t \in live
       THEN Goto(q, "select") /\ uses' = [uses EXCEPT ![t] = @ + 1]
       ELSE End(q) /\ UNCHANGED uses
    /\ Break(family[t], o = "late")
    /\ UNCHANGED <<now, revoked, issued, family, browser, out>>

\* GETDEL of the old refresh token; 401 without it, 503 on an error.
Take(q, o) ==
    LET t == sent[q] IN
    /\ pc[q] = "take"
    /\ Outcome(o)
    /\ live' = IF o = "error" THEN live ELSE live \ {t}
    /\ IF o = "ok" /\ t \in live
       THEN Goto(q, "select") /\ uses' = [uses EXCEPT ![t] = @ + 1]
       ELSE End(q) /\ UNCHANGED uses
    /\ Break(family[t], o = "late")
    /\ UNCHANGED <<now, revoked, issued, family, browser, out>>

\* The user's profile is read and the next pair made.
SelectUser(q, t, o) ==
    LET f == family[sent[q]] IN
    /\ pc[q] = "select"
    /\ Outcome(o)
    /\ IF o = "ok"
       THEN MakePair(q, t, f)
       ELSE End(q) /\ UNCHANGED family
    /\ Break(f, o # "ok")
    /\ UNCHANGED <<now, redis, browser, out>>

\* SETEX of the new refresh token; 503 on an error.
Store(q, o) ==
    LET t == new[q].jti IN
    /\ pc[q] = "store"
    /\ Outcome(o)
    /\ IF o = "error" THEN UNCHANGED <<live, issued>>
       ELSE live' = live \union {t} /\ issued' = issued \union {t}
    /\ IF o = "ok" THEN Goto(q, "cookies") ELSE End(q)
    /\ Break(family[t], o # "ok")
    /\ UNCHANGED <<now, revoked, uses, family, browser, out>>

\* Mutant: only the access cookie is set.
ReceiveAccessOnly(q) ==
    /\ pc[q] = "cookies"
    /\ jar' = IF jar = None THEN new[q].jti ELSE jar
    /\ jwt' = new[q]
    /\ End(q)
    /\ UNCHANGED <<now, redis, family, history, faults>>

\* Mutant: the refresh token is put in both cookies.
ReceiveOneTwice(q) ==
    /\ pc[q] = "cookies"
    /\ jar' = new[q].jti
    /\ jwt' = new[q].jti
    /\ End(q)
    /\ UNCHANGED <<now, redis, family, history, faults>>

\* The browser receives the pair.
ReceiveCookies(q) ==
    /\ pc[q] = "cookies"
    /\ jar' = new[q].jti
    /\ jwt' = new[q]
    /\ End(q)
    /\ UNCHANGED <<now, redis, family, history, faults>>

\* POST /auth/logout, with the cookies there are.
Logout(q) ==
    /\ jar # None
    /\ Begin(q, jar, jwt, "check")
    /\ UNCHANGED <<now, redis, family, browser, history, faults>>

\* get_optional_user runs first: nothing to check without an access cookie; 401
\* for an expired or a revoked JWT; 503 when Redis cannot be asked.
Check(q, o) ==
    LET j == access[q] IN
    /\ pc[q] = "check"
    /\ o # "ok" => j # None /\ ~ Expired(j)
    /\ Outcome(o)
    /\ IF j = None THEN Goto(q, "delete")
       ELSE IF o = "ok" /\ Accepted(j) THEN Goto(q, "revoke") ELSE End(q)
    /\ UNCHANGED <<now, redis, family, browser, history>>

\* Mutant: one second less than that.
RevokeShort(q, o) ==
    LET j == access[q]
        remaining == (2 * j.exp - now) \div 2 - 1
    IN
    /\ pc[q] = "revoke"
    /\ o # "ok" => remaining > 0
    /\ Outcome(o)
    /\ revoked' = IF remaining > 0 /\ o # "error"
                  THEN revoked \union {[jwt |-> j, until |-> now + 2 * remaining]}
                  ELSE revoked
    /\ Goto(q, "delete")
    /\ UNCHANGED <<now, live, issued, uses, family, browser, history>>

\* The JWT is revoked for the whole seconds it has left, if any; errors, and the
\* JWT having expired since the check, are logged.
Revoke(q, o) ==
    LET j == access[q]
        remaining == (2 * j.exp - now) \div 2
    IN
    /\ pc[q] = "revoke"
    /\ o # "ok" => remaining > 0
    /\ Outcome(o)
    /\ revoked' = IF remaining > 0 /\ o # "error"
                  THEN revoked \union {[jwt |-> j, until |-> now + 2 * remaining]}
                  ELSE revoked
    /\ Goto(q, "delete")
    /\ UNCHANGED <<now, live, issued, uses, family, browser, history>>

\* Mutant: only the access token is given up.
DeleteNothing(q, o) ==
    LET f == family[sent[q]] IN
    /\ pc[q] = "delete"
    /\ Outcome(o)
    /\ UNCHANGED live
    /\ Goto(q, "clear")
    /\ out' = IF o # "error" /\ jar = sent[q] /\ ~ \E p \in Requests : Refreshing(p, f)
              THEN out \union {f} ELSE out
    /\ Break(f, o # "error")
    /\ UNCHANGED <<now, revoked, issued, uses, family, browser>>

\* DEL of the refresh token; errors are logged.  The sign-in is signed out of
\* unless a refresh ran into it: one is under way, or has given the browser
\* other cookies since.
Delete(q, o) ==
    LET f == family[sent[q]] IN
    /\ pc[q] = "delete"
    /\ Outcome(o)
    /\ live' = IF o = "error" THEN live ELSE live \ {sent[q]}
    /\ Goto(q, "clear")
    /\ out' = IF o # "error" /\ jar = sent[q] /\ ~ \E p \in Requests : Refreshing(p, f)
              THEN out \union {f} ELSE out
    /\ Break(f, o # "error")
    /\ UNCHANGED <<now, revoked, issued, uses, family, browser>>

\* 204: the browser drops both cookies, whichever they are now.
ClearCookies(q) ==
    /\ pc[q] = "clear"
    /\ jar' = None
    /\ jwt' = None
    /\ End(q)
    /\ UNCHANGED <<now, redis, family, history, faults>>

-----------------------------------------------------------------------------
(* The environment.                                                         *)

\* An answer never reaches the browser.
LoseAnswer(q) ==
    /\ pc[q] \in {"cookies", "clear"}
    /\ Outcome("error")
    /\ End(q)
    /\ IF pc[q] = "cookies" THEN Break(family[new[q].jti], TRUE) ELSE UNCHANGED broken
    /\ UNCHANGED <<now, redis, family, browser, out>>

\* The process dies, and every request with it.
Die ==
    /\ MayDie
    /\ Outcome("error")
    /\ pc' = [q \in Requests |-> "idle"]
    /\ sent' = [q \in Requests |-> None]
    /\ access' = [q \in Requests |-> None]
    /\ new' = [q \in Requests |-> None]
    /\ broken' = broken \union
           {f \in Tokens : \E q \in Requests : Refreshing(q, f)}
    /\ UNCHANGED <<now, redis, family, browser, out>>

Tick ==
    /\ now < MaxTime
    /\ now' = now + 1
    /\ UNCHANGED <<redis, family, browser, request, history, faults>>

\* The access cookie reaches its max-age, counted from the answer that set it.
DropAccessCookie ==
    /\ jwt # None
    /\ now >= 2 * jwt.exp
    /\ jwt' = None
    /\ UNCHANGED <<now, redis, family, jar, request, history, faults>>

\* A refresh token is not used for days.
Lapse(t) ==
    /\ t \in live
    /\ live' = live \ {t}
    /\ Break(family[t], TRUE)
    /\ UNCHANGED <<now, revoked, issued, uses, family, browser, request, out, faults>>

-----------------------------------------------------------------------------
Outcomes == {"ok", "error", "late"}

Serve(q) ==
    \/ \E o \in Outcomes :
          Take(q, o) \/ Store(q, o) \/ Revoke(q, o) \/ Delete(q, o)
    \/ \E o \in {"ok", "error"} : Check(q, o)
    \/ \E t \in Tokens, o \in {"ok", "error"} : SelectUser(q, t, o)
    \/ ReceiveCookies(q)
    \/ ClearCookies(q)
    \/ LoseAnswer(q)

Arrive(q) ==
    \/ \E t \in Tokens : SignIn(q, t)
    \/ Refresh(q)
    \/ Logout(q)

Next ==
    \/ \E q \in Requests : Arrive(q) \/ Serve(q)
    \/ Die
    \/ Tick
    \/ DropAccessCookie
    \/ \E t \in Tokens : Lapse(t)

Spec == Init /\ [][Next]_vars

-----------------------------------------------------------------------------
(* Properties.                                                              *)

Pcs == {"idle", "take", "select", "store", "cookies", "check", "revoke", "delete", "clear"}

Jwts == [jti : Tokens, exp : Nat]

TypeOK ==
    /\ now \in 1..MaxTime
    /\ live \subseteq Tokens /\ issued \subseteq Tokens
    /\ revoked \subseteq [jwt : Jwts, until : Nat]
    /\ family \in [Tokens -> Tokens \union {None}]
    /\ jar \in Tokens \union {None}
    /\ jwt \in Jwts \union {None}
    /\ pc \in [Requests -> Pcs]
    /\ sent \in [Requests -> Tokens \union {None}]
    /\ access \in [Requests -> Jwts \union {None}]
    /\ new \in [Requests -> Jwts \union {None}]
    /\ uses \in [Tokens -> Nat]
    /\ out \subseteq Tokens /\ broken \subseteq Tokens
    /\ faults \in 0..MaxFaults

\* "Rotation: the old refresh token is consumed (GETDEL) and a new one is issued"
\* (user_routes.py:277).  A sign-in never branches: of the refresh tokens that
\* descend from it at most one can be exchanged or is being exchanged, whatever
\* tabs, lost answers and failures do.
OneLivePerSignIn ==
    /\ \A t, u \in live : family[t] = family[u] => t = u
    /\ \A q \in Requests, t \in live : ~ Rotating(q, family[t])
    /\ \A p, q \in Requests, f \in Tokens : Rotating(p, f) /\ Rotating(q, f) => p = q

\* Each refresh token is stored once and exchanged at most once.
Token == INSTANCE OneTimeToken
RefreshIsOneTime == Token!Spec

\* The browser's refresh token is the one Redis has, or is being exchanged, unless
\* something the user can see broke the session: a failure or a lost answer in the
\* middle of an exchange, a logout, or the token's age.  Two tabs that refresh at
\* once do not: one is answered 401, the other has the next pair.
BrowserIsCurrent ==
    jar # None /\ family[jar] \notin broken =>
        jar \in live \/ \E q \in Requests : Refreshing(q, family[jar])

\* "Revoke the current session tokens" (user_routes.py:392): once signed out of,
\* a sign-in cannot be continued with anything the browser or a request holds.
SignedOutStaysOut ==
    \A f \in out :
        /\ jar # None /\ family[jar] = f => jar \notin live
        /\ \A q \in Requests :
              /\ ~ Refreshing(q, f)
              /\ sent[q] # None /\ family[sent[q]] = f => sent[q] \notin live

\* A revoked JWT is accepted again, if at all, only in the last second before its
\* "exp" and until the second of "exp" is over: int() cuts the TTL of the
\* revocation short, the comparison with "exp" is between whole seconds.
RevokedUntilTheLastSecond ==
    \A r \in revoked : Accepted(r.jwt) => now > 2 * r.jwt.exp - 2

\* "if Redis is down, the cookie is still cleared. Logout always succeeds from the
\* user's perspective" (user_routes.py:421).
LogoutSucceeds ==
    [][\A q \in Requests : pc[q] = "check" /\ access[q] # None /\ Accepted(access[q]) => pc'[q] # "idle"]_vars
=============================================================================
