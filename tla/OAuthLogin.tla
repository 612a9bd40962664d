----------------------------- MODULE OAuthLogin -----------------------------
(***************************************************************************)
(* Signing in with Google (backend/google_oauth.py, google_login and       *)
(* google_callback of backend/user_routes.py).  google_login keeps a state *)
(* and its PKCE verifier in Redis and sends the browser to Google; Google  *)
(* sends it back with the state and a code; google_callback takes state    *)
(* and verifier out of Redis, trades the code for a profile at Google,     *)
(* finds or inserts the row of the account, and opens a session.           *)
(*                                                                         *)
(* One step is one Redis call, one call to Google or one statement of a    *)
(* request; several requests run at once and may carry the same state and  *)
(* code (a reload).  A call may fail without effect ("error") or after it  *)
(* took effect ("late"); keys expire and the process dies at any time.     *)
(* Google, its accounts and their addresses are the environment.           *)
(***************************************************************************)
EXTENDS Naturals, FiniteSets

CONSTANTS
    Requests,   \* callback requests being served at once
    States,     \* the state tokens (and verifiers) secrets generates
    Codes,      \* authorization codes of Google
    Accounts,   \* Google accounts (the "sub" of a profile, google_id of a row)
    Emails,     \* addresses of Google accounts
    None,       \* no state, no code, no address
    MaxFaults,  \* bound on calls that fail
    MaxRenames  \* bound on accounts that change their address

ASSUME NoneAssumption == None \notin States \union Codes \union Emails
ASSUME BoundAssumption == MaxFaults \in Nat /\ MaxRenames \in Nat

VARIABLES
    \* Redis.
    stateKey,  \* the states under oauth:state:
    pkceKey,   \* the states whose verifier is under oauth:pkce:
    \* The table of users.
    users,     \* users[a]: the address in the row of account a, None without a row
    \* Google and the browsers.
    sentTo,    \* the states a browser was redirected to Google with
    grant,     \* grant[c]: the state and the account code c was given for
    spent,     \* codes that were exchanged
    email,     \* email[a]: the present address of account a
    \* The callback requests.
    pc, code,
    subject,   \* the address in the profile that was fetched
    found,     \* did the SELECT find a row?
    \* History, read by no action, and bounds.
    issued,    \* the states google_login stored
    admitted,  \* admitted[s]: the callbacks state s let through
    sessions,  \* the sessions opened: account and subject
    moved,     \* accounts whose address changed
    faults, renames

redis == <<stateKey, pkceKey, issued>>
google == <<sentTo, grant, spent, email, moved, renames>>
request == <<pc, code, subject, found>>
vars == <<redis, users, google, request, admitted, sessions, faults>>

NoGrant == [state |-> None, account |-> None]

Idle(q) == pc[q] = "idle"
StateOf(q) == grant[code[q]].state
AccountOf(q) == grant[code[q]].account

-----------------------------------------------------------------------------
Init ==
    /\ stateKey = {}
    /\ pkceKey = {}
    /\ users = [a \in Accounts |-> None]
    /\ sentTo = {}
    /\ grant = [c \in Codes |-> NoGrant]
    /\ spent = {}
    /\ email \in [Accounts -> Emails]
    /\ \A a, b \in Accounts : email[a] = email[b] => a = b
    /\ pc = [q \in Requests |-> "idle"]
    /\ code = [q \in Requests |-> None]
    /\ subject = [q \in Requests |-> None]
    /\ found = [q \in Requests |-> FALSE]
    /\ issued = {}
    /\ admitted = [s \in States |-> 0]
    /\ sessions = {}
    /\ moved = {}
    /\ faults = 0
    /\ renames = 0

-----------------------------------------------------------------------------
(* The steps of a request.                                                  *)

Goto(q, p) ==
    /\ pc' = [pc EXCEPT ![q] = p]
    /\ UNCHANGED <<code, subject, found>>

\* The response is sent, whatever its status.
End(q) ==
    /\ pc' = [pc EXCEPT ![q] = "idle"]
    /\ code' = [code EXCEPT ![q] = None]
    /\ subject' = [subject EXCEPT ![q] = None]
    /\ found' = [found EXCEPT ![q] = FALSE]

\* A call to Redis, to Google or to the database may fail.
Outcome(o) == IF o = "ok" THEN UNCHANGED faults
              ELSE faults < MaxFaults /\ faults' = faults + 1

\* Mutant: state and verifier are stored by two calls, the second of which fails.
LoginUnpaired(s, o) ==
    /\ s \notin issued
    /\ Outcome(o)
    /\ stateKey' = IF o = "error" THEN stateKey ELSE stateKey \union {s}
    /\ pkceKey' = IF o = "ok" THEN pkceKey \union {s} ELSE pkceKey
    /\ issued' = IF o = "error" THEN issued ELSE issued \union {s}
    /\ sentTo' = IF o = "ok" THEN sentTo \union {s} ELSE sentTo
    /\ UNCHANGED <<users, grant, spent, email, moved, renames, request, admitted, sessions>>

\* google_login: MULTI/EXEC stores state and verifier, then the browser is
\* redirected to Google with the state and the verifier's challenge.
Login(s, o) ==
    /\ s \notin issued
    /\ Outcome(o)
    /\ IF o = "error" THEN UNCHANGED redis
       ELSE /\ stateKey' = stateKey \union {s}
            /\ pkceKey' = pkceKey \union {s}
            /\ issued' = issued \union {s}
    /\ sentTo' = IF o = "ok" THEN sentTo \union {s} ELSE sentTo
    /\ UNCHANGED <<users, grant, spent, email, moved, renames, request, admitted, sessions>>

\* google_callback with a state and a code.  One without a code is answered 400
\* and changes nothing.
Callback(q, c) ==
    /\ Idle(q)
    /\ grant[c] # NoGrant
    /\ pc' = [pc EXCEPT ![q] = "state"]
    /\ code' = [code EXCEPT ![q] = c]
    /\ UNCHANGED <<redis, users, google, subject, found, admitted, sessions, faults>>

\* Mutant: the state is read and left to expire.
ConsumeStateByGet(q, o) ==
    LET s == StateOf(q) IN
    /\ pc[q] = "state"
    /\ Outcome(o)
    /\ UNCHANGED stateKey
    /\ IF o = "ok" /\ s \in stateKey
       THEN Goto(q, "verifier") /\ admitted' = [admitted EXCEPT ![s] = @ + 1]
       ELSE End(q) /\ UNCHANGED admitted
    /\ UNCHANGED <<pkceKey, issued, users, google, sessions>>

\* validate_and_consume_state: GETDEL; 400 without the key, 503 on an error.
ConsumeState(q, o) ==
    LET s == StateOf(q) IN
    /\ pc[q] = "state"
    /\ Outcome(o)
    /\ stateKey' = IF o = "error" THEN stateKey ELSE stateKey \ {s}
    /\ IF o = "ok" /\ s \in stateKey
       THEN Goto(q, "verifier") /\ admitted' = [admitted EXCEPT ![s] = @ + 1]
       ELSE End(q) /\ UNCHANGED admitted
    /\ UNCHANGED <<pkceKey, issued, users, google, sessions>>

\* consume_pkce_verifier: GETDEL; 400 without the key, 503 on an error.
ConsumeVerifier(q, o) ==
    LET s == StateOf(q) IN
    /\ pc[q] = "verifier"
    /\ Outcome(o)
    /\ pkceKey' = IF o = "error" THEN pkceKey ELSE pkceKey \ {s}
    /\ IF o = "ok" /\ s \in pkceKey THEN Goto(q, "exchange") ELSE End(q)
    /\ UNCHANGED <<stateKey, issued, users, google, admitted, sessions>>

\* exchange_code_for_tokens: Google takes a code once; 502 otherwise.
Exchange(q, o) ==
    /\ pc[q] = "exchange"
    /\ Outcome(o)
    /\ spent' = IF o = "error" THEN spent ELSE spent \union {code[q]}
    /\ IF o = "ok" /\ code[q] \notin spent THEN Goto(q, "profile") ELSE End(q)
    /\ UNCHANGED <<redis, users, sentTo, grant, email, moved, renames, admitted, sessions>>

\* Mutant: a profile without an address is taken.
FetchAnyProfile(q, o) ==
    /\ pc[q] = "profile"
    /\ Outcome(o)
    /\ pc' = [pc EXCEPT ![q] = "select"]
    /\ subject' = [subject EXCEPT ![q] = IF o = "ok" THEN email[AccountOf(q)] ELSE "missing"]
    /\ UNCHANGED <<code, found, redis, users, google, admitted, sessions>>

\* fetch_google_user_info: the address the account has now; 502 on an error or
\* when the profile lacks a field.
FetchProfile(q, o) ==
    /\ pc[q] = "profile"
    /\ Outcome(o)
    /\ IF o = "ok"
       THEN /\ pc' = [pc EXCEPT ![q] = "select"]
            /\ subject' = [subject EXCEPT ![q] = email[AccountOf(q)]]
            /\ UNCHANGED <<code, found>>
       ELSE End(q)
    /\ UNCHANGED <<redis, users, google, admitted, sessions>>

\* Mutant: the row is looked up by its address.
SelectUserByEmail(q, o) ==
    /\ pc[q] = "select"
    /\ Outcome(o)
    /\ IF o = "ok"
       THEN /\ pc' = [pc EXCEPT ![q] = "commit"]
            /\ found' = [found EXCEPT ![q] = \E a \in Accounts : users[a] = subject[q]]
            /\ UNCHANGED <<code, subject>>
       ELSE End(q)
    /\ UNCHANGED <<redis, users, google, admitted, sessions>>

\* The SELECT by google_id.
SelectUser(q, o) ==
    /\ pc[q] = "select"
    /\ Outcome(o)
    /\ IF o = "ok"
       THEN /\ pc' = [pc EXCEPT ![q] = "commit"]
            /\ found' = [found EXCEPT ![q] = users[AccountOf(q)] # None]
            /\ UNCHANGED <<code, subject>>
       ELSE End(q)
    /\ UNCHANGED <<redis, users, google, admitted, sessions>>

\* The INSERT violates the unique google_id or the unique email.
Conflicts(q) ==
    \/ users[AccountOf(q)] # None
    \/ \E a \in Accounts : users[a] = subject[q]

\* The INSERT or UPDATE and the commit.  An UPDATE sets name and picture, never
\* the address.  An IntegrityError is answered 409.
CommitUser(q, o) ==
    /\ pc[q] = "commit"
    /\ Outcome(o)
    /\ users' = IF o = "error" \/ found[q] \/ Conflicts(q) THEN users
                ELSE [users EXCEPT ![AccountOf(q)] = subject[q]]
    /\ IF o = "ok" /\ (found[q] \/ ~ Conflicts(q)) THEN Goto(q, "store") ELSE End(q)
    /\ UNCHANGED <<redis, google, admitted, sessions>>

\* SETEX of the refresh token; then the session's cookies are sent.
StoreSession(q, o) ==
    /\ pc[q] = "store"
    /\ Outcome(o)
    /\ sessions' = IF o = "ok" THEN sessions \union {<<AccountOf(q), subject[q]>>}
                   ELSE sessions
    /\ End(q)
    /\ UNCHANGED <<redis, users, google, admitted>>

-----------------------------------------------------------------------------
(* The environment.                                                         *)

\* The ten minutes are over: both keys were stored at one time.
Expire(s) ==
    /\ s \in stateKey \union pkceKey
    /\ stateKey' = stateKey \ {s}
    /\ pkceKey' = pkceKey \ {s}
    /\ UNCHANGED <<issued, users, google, request, admitted, sessions, faults>>

\* The user consents, with one of their accounts; they may do so twice.
Consent(s, a, c) ==
    /\ s \in sentTo
    /\ grant[c] = NoGrant
    /\ grant' = [grant EXCEPT ![c] = [state |-> s, account |-> a]]
    /\ UNCHANGED <<redis, users, sentTo, spent, email, moved, renames, request,
                   admitted, sessions, faults>>

\* An account changes its address, perhaps to one another account gave up.
Rename(a, e) ==
    /\ renames < MaxRenames
    /\ renames' = renames + 1
    /\ \A b \in Accounts : email[b] # e
    /\ email' = [email EXCEPT ![a] = e]
    /\ moved' = moved \union {a}
    /\ UNCHANGED <<redis, users, sentTo, grant, spent, request, admitted, sessions, faults>>

\* The process dies, and every request with it.
Die ==
    /\ \E q \in Requests : ~ Idle(q)
    /\ pc' = [q \in Requests |-> "idle"]
    /\ code' = [q \in Requests |-> None]
    /\ subject' = [q \in Requests |-> None]
    /\ found' = [q \in Requests |-> FALSE]
    /\ UNCHANGED <<redis, users, google, admitted, sessions, faults>>

-----------------------------------------------------------------------------
Serve(q) ==
    \/ \E o \in {"ok", "error", "late"} :
          ConsumeState(q, o) \/ ConsumeVerifier(q, o) \/ Exchange(q, o) \/ CommitUser(q, o)
    \/ \E o \in {"ok", "error"} : FetchProfile(q, o) \/ SelectUser(q, o) \/ StoreSession(q, o)

Environment ==
    \/ \E s \in States : Expire(s)
    \/ \E s \in States, a \in Accounts, c \in Codes : Consent(s, a, c)
    \/ \E a \in Accounts, e \in Emails : Rename(a, e)
    \/ Die

Next ==
    \/ \E s \in States, o \in {"ok", "error", "late"} : Login(s, o)
    \/ \E q \in Requests, c \in Codes : Callback(q, c)
    \/ \E q \in Requests : Serve(q)
    \/ Environment

Spec == Init /\ [][Next]_vars

-----------------------------------------------------------------------------
(* Properties.                                                              *)

\* _get_current_user: the accounts whose row has the subject of a token.
CurrentUser(e) == {a \in Accounts : users[a] = e}

Pcs == {"idle", "state", "verifier", "exchange", "profile", "select", "commit", "store"}

TypeOK ==
    /\ stateKey \subseteq States /\ pkceKey \subseteq States
    /\ issued \subseteq States /\ sentTo \subseteq States
    /\ users \in [Accounts -> Emails \union {None}]
    /\ grant \in [Codes -> [state : States, account : Accounts] \union {NoGrant}]
    /\ spent \subseteq Codes
    /\ email \in [Accounts -> Emails]
    /\ pc \in [Requests -> Pcs]
    /\ code \in [Requests -> Codes \union {None}]
    /\ subject \in [Requests -> Emails \union {None}]
    /\ found \in [Requests -> BOOLEAN]
    /\ admitted \in [States -> Nat]
    /\ sessions \subseteq Accounts \X Emails
    /\ moved \subseteq Accounts
    /\ faults \in 0..MaxFaults
    /\ renames \in 0..MaxRenames

\* "The pipeline guarantees all-or-nothing: a mid-write crash cannot leave an
\* orphaned state key without a corresponding verifier" (google_oauth.py:70): a
\* state that would be accepted has its verifier, whatever failed or expired and
\* whichever callbacks are under way.
StateHasVerifier == stateKey \subseteq pkceKey

\* A state lets one callback through, however many carry it: GETDEL of
\* validate_and_consume_state against reloads, lost answers and expiry.
Token == INSTANCE OneTimeToken WITH Tokens <- States, live <- stateKey, uses <- admitted
StatesAreOneTime == Token!Spec

\* A session is opened for the account whose row was found or inserted by
\* google_id, and used for the row with its subject, an address.  The two
\* agree, so that a session has a row and nobody else's, until the account has
\* moved to another address: then the row with the new address is missing, or
\* that of an account that moved away from it.
SubjectIsOwn ==
    \A s \in sessions :
        LET a == s[1]
            rows == CurrentUser(s[2])
        IN  /\ users[a] # None
            /\ rows # {a} => a \in moved /\ rows \subseteq moved
=============================================================================
