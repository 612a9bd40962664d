-------------------------- MODULE OAuthLoginProofs --------------------------
(***************************************************************************)
(* Proofs about OAuthLogin, for any number of requests, states, codes,     *)
(* accounts and addresses and any budget of failures and renames: its      *)
(* types, that an accepted state has its verifier, that a state lets one   *)
(* callback through (OneTimeToken), and whose row a session uses.          *)
(***************************************************************************)
EXTENDS OAuthLogin, TLAPS

\* A callback under way carries a code that was given for a state, and from the
\* profile on an address.
Carries ==
    \A q \in Requests :
        /\ pc[q] # "idle" => code[q] \in Codes /\ grant[code[q]] # NoGrant
        /\ pc[q] \in {"select", "commit", "store"} => subject[q] \in Emails

\* What the other proofs need of one step.
Typed == TypeOK /\ Carries

LEMMA GrantFacts ==
    ASSUME Typed, NEW q \in Requests, pc[q] # "idle"
    PROVE  /\ StateOf(q) \in States /\ AccountOf(q) \in Accounts /\ code[q] \in Codes
           /\ pc[q] \in {"select", "commit", "store"} => subject[q] \in Emails
BY DEF Typed, TypeOK, Carries, StateOf, AccountOf, NoGrant

-----------------------------------------------------------------------------
(* Types.                                                                   *)

LEMMA InitTyped == Init => Typed
BY NoneAssumption, BoundAssumption DEF Init, Typed, TypeOK, Carries, Pcs, NoGrant

RequestTypes ==
    /\ pc \in [Requests -> Pcs]
    /\ code \in [Requests -> Codes \union {None}]
    /\ subject \in [Requests -> Emails \union {None}]
    /\ found \in [Requests -> BOOLEAN]

\* A request that goes on, or ends, keeps its types.
LEMMA RequestTyped ==
    ASSUME RequestTypes, NEW q \in Requests,
           End(q) \/ \E p \in Pcs : Goto(q, p)
    PROVE  RequestTypes'
BY DEF RequestTypes, End, Goto, Pcs

LEMMA StepTyped ==
    ASSUME Typed, [Next]_vars
    PROVE  Typed'
<1> USE NoneAssumption, BoundAssumption
<1>0. TypeOK
  BY DEF Typed
<1>T. /\ pc \in [Requests -> Pcs] /\ code \in [Requests -> Codes \union {None}]
      /\ subject \in [Requests -> Emails \union {None}] /\ email \in [Accounts -> Emails]
      /\ Carries
  BY DEF Typed, TypeOK
<1>1. ASSUME NEW s \in States, NEW o \in {"ok", "error", "late"}, Login(s, o)
      PROVE  Typed'
  BY <1>1 DEF Typed, TypeOK, Carries, Login, Outcome, redis, request
<1>2. ASSUME NEW q \in Requests, NEW c \in Codes, Callback(q, c)
      PROVE  Typed'
  BY <1>2 DEF Typed, TypeOK, Carries, Callback, redis, google, Pcs
<1>3. ASSUME NEW q \in Requests, NEW o \in {"ok", "error", "late"}, ConsumeState(q, o)
      PROVE  Typed'
  <2>1. StateOf(q) \in States /\ AccountOf(q) \in Accounts /\ code[q] \in Codes
    BY <1>3, GrantFacts DEF ConsumeState
  <2>2. RequestTypes'
    BY <1>0, <1>3, RequestTyped DEF ConsumeState, RequestTypes, TypeOK, Pcs
  <2>3. TypeOK'
    BY <1>0, <1>3, <2>1, <2>2 DEF TypeOK, RequestTypes, ConsumeState, Outcome, google
  <2>4. Carries'
    BY <1>T, <1>3 DEF Carries, ConsumeState, Goto, End, google
  <2> QED BY <2>3, <2>4 DEF Typed
<1>4. ASSUME NEW q \in Requests, NEW o \in {"ok", "error", "late"}, ConsumeVerifier(q, o)
      PROVE  Typed'
  <2>1. StateOf(q) \in States /\ AccountOf(q) \in Accounts /\ code[q] \in Codes
    BY <1>4, GrantFacts DEF ConsumeVerifier
  <2>2. RequestTypes'
    BY <1>0, <1>4, RequestTyped DEF ConsumeVerifier, RequestTypes, TypeOK, Pcs
  <2>3. TypeOK'
    BY <1>0, <1>4, <2>1, <2>2 DEF TypeOK, RequestTypes, ConsumeVerifier, Outcome, google
  <2>4. Carries'
    BY <1>T, <1>4 DEF Carries, ConsumeVerifier, Goto, End, google
  <2> QED BY <2>3, <2>4 DEF Typed
<1>5. ASSUME NEW q \in Requests, NEW o \in {"ok", "error", "late"}, Exchange(q, o)
      PROVE  Typed'
  <2>1. StateOf(q) \in States /\ AccountOf(q) \in Accounts /\ code[q] \in Codes
    BY <1>5, GrantFacts DEF Exchange
  <2>2. RequestTypes'
    BY <1>0, <1>5, RequestTyped DEF Exchange, RequestTypes, TypeOK, Pcs
  <2>3. TypeOK'
    BY <1>0, <1>5, <2>1, <2>2 DEF TypeOK, RequestTypes, Exchange, Outcome, redis, google
  <2>4. Carries'
    BY <1>T, <1>5 DEF Carries, Exchange, Goto, End, redis, google
  <2> QED BY <2>3, <2>4 DEF Typed
<1>6. ASSUME NEW q \in Requests, NEW o \in {"ok", "error"}, FetchProfile(q, o)
      PROVE  Typed'
  <2>1. StateOf(q) \in States /\ AccountOf(q) \in Accounts /\ code[q] \in Codes
    BY <1>6, GrantFacts DEF FetchProfile
  <2>2. RequestTypes'
    <3>1. CASE End(q)
      BY <1>0, <3>1, RequestTyped DEF RequestTypes, TypeOK
    <3>2. CASE ~ End(q)
      BY <1>0, <1>6, <2>1, <3>2 DEF FetchProfile, RequestTypes, TypeOK, Pcs
    <3> QED BY <3>1, <3>2
  <2>3. TypeOK'
    BY <1>0, <1>6, <2>2 DEF TypeOK, RequestTypes, FetchProfile, Outcome, redis, google
  <2>4. Carries'
    BY <1>T, <1>6, <2>1 DEF Carries, FetchProfile, End, redis, google
  <2> QED BY <2>3, <2>4 DEF Typed
<1>7. ASSUME NEW q \in Requests, NEW o \in {"ok", "error"}, SelectUser(q, o)
      PROVE  Typed'
  <2>1. StateOf(q) \in States /\ AccountOf(q) \in Accounts /\ code[q] \in Codes
    BY <1>7, GrantFacts DEF SelectUser
  <2>2. RequestTypes'
    <3>1. CASE End(q)
      BY <1>0, <3>1, RequestTyped DEF RequestTypes, TypeOK
    <3>2. CASE ~ End(q)
      BY <1>0, <1>7, <2>1, <3>2 DEF SelectUser, RequestTypes, TypeOK, Pcs
    <3> QED BY <3>1, <3>2
  <2>3. TypeOK'
    BY <1>0, <1>7, <2>2 DEF TypeOK, RequestTypes, SelectUser, Outcome, redis, google
  <2>4. Carries'
    BY <1>T, <1>7 DEF Carries, SelectUser, End, redis, google
  <2> QED BY <2>3, <2>4 DEF Typed
<1>8. ASSUME NEW q \in Requests, NEW o \in {"ok", "error", "late"}, CommitUser(q, o)
      PROVE  Typed'
  <2>1. StateOf(q) \in States /\ AccountOf(q) \in Accounts /\ subject[q] \in Emails
    BY <1>8, GrantFacts DEF CommitUser
  <2>2. RequestTypes'
    BY <1>0, <1>8, RequestTyped DEF CommitUser, RequestTypes, TypeOK, Pcs
  <2>3. TypeOK'
    BY <1>0, <1>8, <2>1, <2>2 DEF TypeOK, RequestTypes, CommitUser, Outcome, redis, google
  <2>4. Carries'
    BY <1>T, <1>8 DEF Carries, CommitUser, Goto, End, redis, google
  <2> QED BY <2>3, <2>4 DEF Typed
<1>9. ASSUME NEW q \in Requests, NEW o \in {"ok", "error"}, StoreSession(q, o)
      PROVE  Typed'
  <2>1. StateOf(q) \in States /\ AccountOf(q) \in Accounts /\ subject[q] \in Emails
    BY <1>9, GrantFacts DEF StoreSession
  <2>2. RequestTypes'
    BY <1>0, <1>9, RequestTyped DEF StoreSession, RequestTypes, TypeOK, Pcs
  <2>3. TypeOK'
    BY <1>0, <1>9, <2>1, <2>2 DEF TypeOK, RequestTypes, StoreSession, Outcome, redis, google
  <2>4. Carries'
    BY <1>T, <1>9 DEF Carries, StoreSession, End, redis, google
  <2> QED BY <2>3, <2>4 DEF Typed
<1>10. ASSUME NEW s \in States, Expire(s)
       PROVE  Typed'
  BY <1>10 DEF Typed, TypeOK, Carries, Expire, google, request
<1>11. ASSUME NEW s \in States, NEW a \in Accounts, NEW c \in Codes, Consent(s, a, c)
       PROVE  Typed'
  BY <1>11 DEF Typed, TypeOK, Carries, Consent, redis, request, NoGrant
<1>12. ASSUME NEW a \in Accounts, NEW e \in Emails, Rename(a, e)
       PROVE  Typed'
  BY <1>12 DEF Typed, TypeOK, Carries, Rename, redis, request
<1>13. CASE Die
  BY <1>13 DEF Typed, TypeOK, Carries, Die, redis, google, Pcs
<1>14. CASE UNCHANGED vars
  BY <1>14 DEF Typed, TypeOK, Carries, vars, redis, google, request
<1> QED
  BY <1>1, <1>2, <1>3, <1>4, <1>5, <1>6, <1>7, <1>8, <1>9, <1>10, <1>11, <1>12,
     <1>13, <1>14 DEF Next, Serve, Environment

\* Every variable keeps its type, and every callback carries a code that was given.
THEOREM TypeCorrect == Spec => []TypeOK
<1>1. Typed => TypeOK
  BY DEF Typed
<1> QED BY <1>1, InitTyped, StepTyped, PTL DEF Spec

-----------------------------------------------------------------------------
(* States and verifiers.                                                    *)

\* A callback that asks for the verifier has taken the state, and a state that
\* was taken does not come back.
VerifierAlone ==
    /\ stateKey \subseteq issued
    /\ \A q \in Requests : pc[q] = "verifier" =>
          StateOf(q) \in issued /\ StateOf(q) \notin stateKey

Paired == StateHasVerifier /\ VerifierAlone

LEMMA StepPaired ==
    ASSUME Typed, Paired, [Next]_vars
    PROVE  Paired'
<1> USE NoneAssumption
<1> USE DEF Paired, StateHasVerifier, VerifierAlone, StateOf
<1>0. pc \in [Requests -> Pcs] /\ code \in [Requests -> Codes \union {None}]
  BY DEF Typed, TypeOK
<1>1. ASSUME NEW s \in States, NEW o \in {"ok", "error", "late"}, Login(s, o)
      PROVE  Paired'
  BY <1>1 DEF Login, Outcome, redis, request
<1>2. ASSUME NEW q \in Requests, NEW c \in Codes, Callback(q, c)
      PROVE  Paired'
  BY <1>0, <1>2 DEF Callback, redis, google
<1>3. ASSUME NEW q \in Requests, NEW o \in {"ok", "error", "late"}, ConsumeState(q, o)
      PROVE  Paired'
  BY <1>0, <1>3 DEF ConsumeState, Outcome, Goto, End, google
<1>4. ASSUME NEW q \in Requests, NEW o \in {"ok", "error", "late"}, ConsumeVerifier(q, o)
      PROVE  Paired'
  BY <1>0, <1>4 DEF ConsumeVerifier, Outcome, Goto, End, google
<1>5. ASSUME NEW q \in Requests, NEW o \in {"ok", "error", "late"},
             Exchange(q, o) \/ CommitUser(q, o)
      PROVE  Paired'
  BY <1>0, <1>5 DEF Exchange, CommitUser, Goto, End, redis, google
<1>6. ASSUME NEW q \in Requests, NEW o \in {"ok", "error"},
             FetchProfile(q, o) \/ SelectUser(q, o) \/ StoreSession(q, o)
      PROVE  Paired'
  BY <1>0, <1>6 DEF FetchProfile, SelectUser, StoreSession, End, redis, google
<1>7. ASSUME NEW s \in States, Expire(s)
      PROVE  Paired'
  BY <1>7 DEF Expire, google, request
<1>8. ASSUME NEW s \in States, NEW a \in Accounts, NEW c \in Codes, Consent(s, a, c)
      PROVE  Paired'
  BY <1>8 DEF Consent, redis, request, Typed, Carries, TypeOK
<1>9. ASSUME NEW a \in Accounts, NEW e \in Emails, Rename(a, e)
      PROVE  Paired'
  BY <1>9 DEF Rename, redis, request
<1>10. CASE Die
  BY <1>10 DEF Die, redis, google
<1>11. CASE UNCHANGED vars
  BY <1>11 DEF vars, redis, google, request
<1> QED
  BY <1>1, <1>2, <1>3, <1>4, <1>5, <1>6, <1>7, <1>8, <1>9, <1>10, <1>11
  DEF Next, Serve, Environment

\* A state that would be accepted has its verifier, however Redis fails and keys
\* expire (the MULTI/EXEC of google_oauth.py:64).
THEOREM StatesAreWhole == Spec => []StateHasVerifier
<1>1. Init => Paired
  BY DEF Init, Paired, StateHasVerifier, VerifierAlone
<1>2. Paired => StateHasVerifier
  BY DEF Paired
<1> QED BY <1>1, <1>2, InitTyped, StepTyped, StepPaired, PTL DEF Spec

-----------------------------------------------------------------------------
(* OneTimeToken.                                                            *)

LEMMA StepSimulation ==
    ASSUME Typed, [Next]_vars
    PROVE  [Token!Next]_(Token!vars)
<1> USE DEF Token!Next, Token!vars, Token!Issue, Token!Redeem, Token!Lapse
<1>1. ASSUME NEW s \in States, NEW o \in {"ok", "error", "late"}, Login(s, o)
      PROVE  Token!Issue(s) \/ UNCHANGED Token!vars
  BY <1>1 DEF Login, redis
<1>2. ASSUME NEW q \in Requests, NEW o \in {"ok", "error", "late"}, ConsumeState(q, o)
      PROVE  \/ Token!Redeem(StateOf(q)) \/ Token!Lapse(StateOf(q)) \/ UNCHANGED Token!vars
  BY <1>2 DEF ConsumeState
<1>3. ASSUME NEW q \in Requests, pc[q] = "state"
      PROVE  StateOf(q) \in States
  BY <1>3, GrantFacts
<1>4. ASSUME NEW s \in States, Expire(s)
      PROVE  Token!Lapse(s) \/ UNCHANGED Token!vars
  BY <1>4 DEF Expire
<1>5. ASSUME NEW q \in Requests, NEW c \in Codes, Callback(q, c)
      PROVE  UNCHANGED Token!vars
  BY <1>5 DEF Callback, redis
<1>6. ASSUME NEW q \in Requests, NEW o \in {"ok", "error", "late"},
             ConsumeVerifier(q, o) \/ Exchange(q, o) \/ CommitUser(q, o)
      PROVE  UNCHANGED Token!vars
  BY <1>6 DEF ConsumeVerifier, Exchange, CommitUser, redis
<1>7. ASSUME NEW q \in Requests, NEW o \in {"ok", "error"},
             FetchProfile(q, o) \/ SelectUser(q, o) \/ StoreSession(q, o)
      PROVE  UNCHANGED Token!vars
  BY <1>7 DEF FetchProfile, SelectUser, StoreSession, redis
<1>8. ASSUME NEW s \in States, NEW a \in Accounts, NEW c \in Codes, Consent(s, a, c)
      PROVE  UNCHANGED Token!vars
  BY <1>8 DEF Consent, redis
<1>9. ASSUME NEW a \in Accounts, NEW e \in Emails, Rename(a, e)
      PROVE  UNCHANGED Token!vars
  BY <1>9 DEF Rename, redis
<1>10. CASE Die \/ UNCHANGED vars
  BY <1>10 DEF Die, vars, redis
<1>11. ASSUME NEW q \in Requests, NEW o \in {"ok", "error", "late"}, ConsumeState(q, o)
       PROVE  [Token!Next]_(Token!vars)
  <2>1. StateOf(q) \in States
    BY <1>3, <1>11 DEF ConsumeState
  <2> QED BY <1>2, <1>11, <2>1
<1> HIDE DEF Token!vars, Token!Issue, Token!Redeem, Token!Lapse
<1> QED
  BY <1>1, <1>4, <1>5, <1>6, <1>7, <1>8, <1>9, <1>10, <1>11 DEF Next, Serve, Environment

\* A state lets one callback through: the sign-in implements OneTimeToken.
THEOREM StatesLetOneThrough == Spec => StatesAreOneTime
<1>1. Init => Token!Init
  BY DEF Init, Token!Init
<1>2. Spec => Token!Init /\ [][Token!Next]_(Token!vars)
  BY <1>1, InitTyped, StepTyped, StepSimulation, PTL DEF Spec
<1> QED BY <1>2 DEF StatesAreOneTime, Token!Spec

\* "replay is impossible even under concurrent load" (google_oauth.py:73): no
\* state lets two callbacks through. A state is issued once, and one that can
\* still be taken was taken by nobody.
THEOREM NoStateLetsTwoThrough == Spec => []Token!RedeemedOnce
<1> DEFINE IInv ==
        /\ issued \subseteq States /\ stateKey \subseteq issued /\ admitted \in [States -> Nat]
        /\ \A t \in States : admitted[t] <= 1 /\ (t \in stateKey \/ t \notin issued => admitted[t] = 0)
<1>1. Token!Init => IInv
  BY DEF Token!Init
<1>2. IInv /\ [Token!Next]_(Token!vars) => IInv'
  <2> SUFFICES ASSUME IInv, [Token!Next]_(Token!vars)
               PROVE  IInv'
    OBVIOUS
  <2>1. ASSUME NEW t \in States, Token!Issue(t) \/ Token!Redeem(t) \/ Token!Lapse(t)
        PROVE  IInv'
    BY <2>1 DEF Token!Issue, Token!Redeem, Token!Lapse
  <2>2. CASE UNCHANGED Token!vars
    BY <2>2 DEF Token!vars
  <2> QED BY <2>1, <2>2 DEF Token!Next
<1>3. IInv => Token!RedeemedOnce
  BY DEF Token!RedeemedOnce
<1>4. Token!Spec => []Token!RedeemedOnce
  BY <1>1, <1>2, <1>3, PTL DEF Token!Spec
<1> QED BY <1>4, StatesLetOneThrough DEF StatesAreOneTime

-----------------------------------------------------------------------------
(* Whose row a session uses.                                                *)

\* Accounts have different addresses, and so do rows; a row has the address its
\* account had when it was inserted.
Rows ==
    /\ \A a, b \in Accounts : email[a] = email[b] => a = b
    /\ \A a, b \in Accounts : users[a] # None /\ users[a] = users[b] => a = b
    /\ \A a \in Accounts : users[a] \in {None, email[a]} \/ a \in moved

\* Address e was fetched for account a: it was the account's then, and is that of
\* another account only if one of them moved since.
Claim(a, e) ==
    /\ e \in Emails
    /\ e = email[a] \/ a \in moved
    /\ \A b \in Accounts : b # a => e # email[b] \/ b \in moved

\* A callback has the address its account had, and once it found or committed a
\* row, that of its account is there.
RequestClaims ==
    \A q \in Requests :
        /\ pc[q] \in {"select", "commit", "store"} => Claim(AccountOf(q), subject[q])
        /\ pc[q] = "store" \/ (pc[q] = "commit" /\ found[q]) => users[AccountOf(q)] # None

SessionClaims ==
    \A a \in Accounts, e \in Emails : <<a, e>> \in sessions => Claim(a, e) /\ users[a] # None

Owned == Rows /\ RequestClaims /\ SessionClaims

\* No step refutes a claim.
LEMMA StepClaims ==
    ASSUME Typed, Rows, [Next]_vars
    PROVE  \A a \in Accounts, e \in Emails : Claim(a, e) => Claim(a, e)'
<1> SUFFICES ASSUME NEW a \in Accounts, NEW e \in Emails, Claim(a, e)
             PROVE  Claim(a, e)'
  OBVIOUS
<1>1. CASE UNCHANGED <<email, moved>>
  BY <1>1 DEF Claim
<1>2. ASSUME NEW x \in Accounts, NEW f \in Emails, Rename(x, f)
      PROVE  Claim(a, e)'
  BY <1>2 DEF Rename, Claim, Typed, TypeOK
<1>3. (\E x \in Accounts, f \in Emails : Rename(x, f)) \/ UNCHANGED <<email, moved>>
  BY DEF Next, Serve, Environment, Login, Callback, ConsumeState, ConsumeVerifier, Exchange,
     FetchProfile, SelectUser, CommitUser, StoreSession, Expire, Consent, Die, vars, google
<1> QED BY <1>1, <1>2, <1>3

\* Every step of a callback, of Google and of Redis keeps rows and claims.
LEMMA StepOwned ==
    ASSUME Typed, Owned, [Next]_vars
    PROVE  Owned'
<1>1. \A a \in Accounts, e \in Emails : Claim(a, e) => Claim(a, e)'
  BY StepClaims DEF Owned
<1>2. /\ pc \in [Requests -> Pcs] /\ code \in [Requests -> Codes \union {None}]
      /\ subject \in [Requests -> Emails \union {None}] /\ found \in [Requests -> BOOLEAN]
      /\ email \in [Accounts -> Emails] /\ users \in [Accounts -> Emails \union {None}]
      /\ sessions \subseteq Accounts \X Emails /\ moved \subseteq Accounts
      /\ None \notin Emails
  BY NoneAssumption DEF Typed, TypeOK
<1>3. \A q \in Requests : pc[q] # "idle" => AccountOf(q) \in Accounts
  BY GrantFacts
<1>4. CASE UNCHANGED <<users, email, moved, grant, sessions, request>>
  BY <1>4 DEF Owned, Rows, RequestClaims, SessionClaims, Claim, request, AccountOf
<1>5. ASSUME UNCHANGED <<users, email, moved, grant, sessions>>, NEW q \in Requests, End(q)
      PROVE  Owned'
  BY <1>2, <1>5 DEF Owned, Rows, RequestClaims, SessionClaims, Claim, End, AccountOf
<1>6. ASSUME UNCHANGED <<users, email, moved, grant, sessions>>, NEW q \in Requests,
             NEW p \in {"verifier", "exchange", "profile"}, Goto(q, p)
      PROVE  Owned'
  BY <1>2, <1>6 DEF Owned, Rows, RequestClaims, SessionClaims, Claim, Goto, AccountOf
<1>7. ASSUME NEW s \in States, NEW o \in {"ok", "error", "late"}, Login(s, o)
      PROVE  Owned'
  BY <1>4, <1>7 DEF Login
<1>8. ASSUME NEW q \in Requests, NEW c \in Codes, Callback(q, c)
      PROVE  Owned'
  BY <1>2, <1>8 DEF Owned, Rows, RequestClaims, SessionClaims, Claim, Callback, google, AccountOf
<1>9. ASSUME NEW q \in Requests, NEW o \in {"ok", "error", "late"},
             ConsumeState(q, o) \/ ConsumeVerifier(q, o) \/ Exchange(q, o)
      PROVE  Owned'
  BY <1>5, <1>6, <1>9 DEF ConsumeState, ConsumeVerifier, Exchange, google
<1>10. ASSUME NEW q \in Requests, NEW o \in {"ok", "error"}, FetchProfile(q, o)
       PROVE  Owned'
  <2>1. CASE End(q)
    BY <1>5, <1>10, <2>1 DEF FetchProfile, google
  <2>2. CASE ~ End(q)
    <3>1. Claim(AccountOf(q), email[AccountOf(q)])
      BY <1>2, <1>3, <1>10 DEF FetchProfile, Owned, Rows, Claim
    <3> QED
      BY <1>2, <1>10, <2>2, <3>1
      DEF FetchProfile, google, Owned, Rows, RequestClaims, SessionClaims, Claim, AccountOf
  <2> QED BY <2>1, <2>2
<1>11. ASSUME NEW q \in Requests, NEW o \in {"ok", "error"}, SelectUser(q, o)
       PROVE  Owned'
  <2>1. CASE End(q)
    BY <1>5, <1>11, <2>1 DEF SelectUser, google
  <2>2. CASE ~ End(q)
    <3>1. /\ pc[q] = "select" /\ pc' = [pc EXCEPT ![q] = "commit"]
          /\ found' = [found EXCEPT ![q] = users[AccountOf(q)] # None]
          /\ UNCHANGED <<code, subject, users, email, moved, grant, sessions>>
      BY <1>11, <2>2 DEF SelectUser, google
    <3>2. ASSUME NEW r \in Requests
          PROVE  /\ pc'[r] \in {"select", "commit", "store"} => Claim(AccountOf(r), subject[r])
                 /\ pc'[r] = "store" \/ (pc'[r] = "commit" /\ found'[r]) => users[AccountOf(r)] # None
      <4>1. CASE r = q
        BY <1>2, <3>1, <4>1 DEF Owned, RequestClaims
      <4>2. CASE r # q
        BY <1>2, <3>1, <4>2 DEF Owned, RequestClaims
      <4> QED BY <4>1, <4>2
    <3> QED
      BY <3>1, <3>2 DEF Owned, Rows, RequestClaims, SessionClaims, Claim, AccountOf
  <2> QED BY <2>1, <2>2
<1>12. ASSUME NEW q \in Requests, NEW o \in {"ok", "error", "late"}, CommitUser(q, o)
       PROVE  Owned'
  <2> DEFINE a == AccountOf(q)
  <2>1. /\ a \in Accounts /\ Claim(a, subject[q]) /\ subject[q] \in Emails
        /\ UNCHANGED <<email, moved, grant, sessions>>
    BY <1>3, <1>12 DEF CommitUser, google, Owned, RequestClaims, Claim
  <2>2. users' = users \/ (~ Conflicts(q) /\ users' = [users EXCEPT ![a] = subject[q]])
    BY <1>12 DEF CommitUser
  <2>3. Rows'
    <3>1. CASE users' = users
      BY <2>1, <3>1 DEF Owned, Rows
    <3>2. CASE ~ Conflicts(q) /\ users' = [users EXCEPT ![a] = subject[q]]
      BY <1>2, <2>1, <3>2 DEF Owned, Rows, Conflicts, Claim
    <3> QED BY <2>2, <3>1, <3>2
  <2>4. \A b \in Accounts : users[b] # None => users'[b] # None
    BY <1>2, <2>1, <2>2
  <2>5. SessionClaims'
    BY <2>1, <2>4 DEF Owned, SessionClaims, Claim
  <2>6. CASE End(q)
    BY <1>2, <1>3, <2>1, <2>3, <2>4, <2>5, <2>6 DEF Owned, RequestClaims, Claim, End, AccountOf
  <2>7. CASE Goto(q, "store") /\ (found[q] \/ users'[a] # None)
    BY <1>2, <1>3, <1>12, <2>1, <2>3, <2>4, <2>5, <2>7
    DEF CommitUser, Owned, RequestClaims, Claim, Goto, AccountOf
  <2>8. End(q) \/ (Goto(q, "store") /\ (found[q] \/ users'[a] # None))
    BY <1>2, <1>12, <2>1 DEF CommitUser
  <2> QED BY <2>6, <2>7, <2>8
<1>13. ASSUME NEW q \in Requests, NEW o \in {"ok", "error"}, StoreSession(q, o)
       PROVE  Owned'
  <2>1. Rows' /\ RequestClaims'
    BY <1>2, <1>13 DEF StoreSession, google, Owned, Rows, RequestClaims, Claim, End, AccountOf
  <2>2. Claim(AccountOf(q), subject[q]) /\ users[AccountOf(q)] # None
    BY <1>13 DEF StoreSession, Owned, RequestClaims
  <2>3. SessionClaims'
    BY <1>13, <2>2 DEF StoreSession, google, Owned, SessionClaims, Claim
  <2> QED BY <2>1, <2>3 DEF Owned
<1>14. ASSUME NEW s \in States, Expire(s)
       PROVE  Owned'
  BY <1>4, <1>14 DEF Expire, google
<1>15. ASSUME NEW s \in States, NEW a \in Accounts, NEW c \in Codes, Consent(s, a, c)
       PROVE  Owned'
  <2>1. \A q \in Requests : pc[q] # "idle" => code[q] \in Codes /\ code[q] # c
    BY <1>15 DEF Consent, Typed, Carries
  <2> QED
    BY <1>2, <1>15, <2>1
    DEF Consent, request, Typed, TypeOK, Owned, Rows, RequestClaims, SessionClaims, Claim, AccountOf
<1>16. ASSUME NEW a \in Accounts, NEW e \in Emails, Rename(a, e)
       PROVE  Owned'
  <2>1. UNCHANGED <<users, grant, sessions, request>>
    BY <1>16 DEF Rename
  <2>2. Rows'
    BY <1>2, <1>16 DEF Rename, Owned, Rows
  <2>3. RequestClaims'
    BY <1>1, <2>1, <1>3 DEF Owned, RequestClaims, AccountOf, request, Claim
  <2>4. SessionClaims'
    BY <1>1, <2>1 DEF Owned, SessionClaims
  <2> QED BY <2>2, <2>3, <2>4 DEF Owned
<1>17. CASE Die
  BY <1>2, <1>17 DEF Die, google, Owned, Rows, RequestClaims, SessionClaims, Claim, AccountOf
<1>18. CASE UNCHANGED vars
  BY <1>4, <1>18 DEF vars, google
<1> QED
  BY <1>7, <1>8, <1>9, <1>10, <1>11, <1>12, <1>13, <1>14, <1>15, <1>16, <1>17, <1>18
  DEF Next, Serve, Environment

LEMMA OwnedSubjects == Typed /\ Owned => SubjectIsOwn
<1> SUFFICES ASSUME Typed, Owned, NEW s \in sessions
             PROVE  /\ users[s[1]] # None
                    /\ CurrentUser(s[2]) # {s[1]} =>
                          s[1] \in moved /\ CurrentUser(s[2]) \subseteq moved
  BY DEF SubjectIsOwn
<1>1. PICK a \in Accounts, e \in Emails : s = <<a, e>>
  BY DEF Typed, TypeOK
<1>2. Claim(a, e) /\ users[a] # None /\ s[1] = a /\ s[2] = e
  BY <1>1 DEF Owned, SessionClaims
<1>3. ASSUME NEW b \in Accounts, b # a, users[b] = e
      PROVE  b \in moved
  BY <1>2, <1>3, NoneAssumption DEF Owned, Rows, Claim
<1>4. a \in moved \/ users[a] = e
  BY <1>2 DEF Owned, Rows, Claim
<1>5. ASSUME NEW b \in Accounts, b # a, users[b] = e
      PROVE  a \in moved
  BY <1>2, <1>4, <1>5 DEF Owned, Rows
<1>6. CASE a \in moved
  BY <1>2, <1>3, <1>6 DEF CurrentUser
<1>7. CASE a \notin moved
  BY <1>2, <1>4, <1>5, <1>7 DEF CurrentUser
<1> QED BY <1>6, <1>7

\* A session has a row, and while its account keeps its address it uses that row
\* and no other: whichever sign-ins overlap, fail or are repeated.
THEOREM SubjectsAreOwn == Spec => []SubjectIsOwn
<1>1. Init => Owned
  BY DEF Init, Owned, Rows, RequestClaims, SessionClaims
<1> QED BY <1>1, InitTyped, StepTyped, StepOwned, OwnedSubjects, PTL DEF Spec
=============================================================================
