------------------------ MODULE TokenSessionsProofs ------------------------
(***************************************************************************)
(* Proofs about TokenSessions, for any number of requests and tokens, any  *)
(* life of a JWT, any clock and any budget of failures: its types, and     *)
(* every safety property that sessions.cfg checks.                         *)
(***************************************************************************)
EXTENDS TokenSessions, TLAPS

-----------------------------------------------------------------------------
(* Types.                                                                   *)

RequestTypes ==
    /\ pc \in [Requests -> Pcs]
    /\ sent \in [Requests -> Tokens \union {None}]
    /\ access \in [Requests -> Jwts \union {None}]
    /\ new \in [Requests -> Jwts \union {None}]

\* A request has what its step needs.
HeldBy(q) ==
    /\ sent[q] # None => Made(sent[q])
    /\ pc[q] \in {"take", "select", "check", "revoke", "delete", "clear"} => sent[q] # None
    /\ pc[q] \in {"store", "cookies"} => new[q] \in Jwts /\ Made(new[q].jti)
    /\ pc[q] = "revoke" => access[q] \in Jwts

\* A token is made before it is stored, sent or put in the jar; the first token
\* of a sign-in belongs to the sign-in.
Held ==
    /\ live \subseteq issued
    /\ \A t \in issued : Made(t)
    /\ \A f \in out : Made(f)
    /\ \A t \in Tokens : Made(t) => family[family[t]] = family[t]
    /\ jar # None => Made(jar)
    /\ \A q \in Requests : HeldBy(q)

Typed == TypeOK /\ Held

LEMMA TypedFacts ==
    ASSUME Typed
    PROVE  /\ RequestTypes /\ Held /\ TypeOK
           /\ family \in [Tokens -> Tokens \union {None}]
           /\ \A t \in Tokens : Made(t) => family[t] \in Tokens
           /\ None \notin Tokens
           /\ \A j \in Jwts : j.jti \in Tokens /\ j.exp \in Nat
BY NoneAssumption DEF Typed, TypeOK, RequestTypes, Made, Jwts

\* What the requests hold, by their steps.
LEMMA HeldFacts ==
    ASSUME Typed, NEW q \in Requests
    PROVE  /\ pc[q] \in {"take", "select", "check", "revoke", "delete", "clear"} =>
                 sent[q] \in Tokens /\ Made(sent[q]) /\ family[sent[q]] \in Tokens
           /\ pc[q] \in {"store", "cookies"} =>
                 /\ new[q] \in Jwts /\ new[q].jti \in Tokens
                 /\ Made(new[q].jti) /\ family[new[q].jti] \in Tokens
           /\ pc[q] = "revoke" => access[q] \in Jwts
BY TypedFacts DEF RequestTypes, Held, HeldBy, Jwts

LEMMA InitTyped == Init => Typed
BY NoneAssumption, BoundAssumption DEF Init, Typed, TypeOK, Held, HeldBy, Made, Pcs

LEMMA WholeSeconds == \A n \in Nat : n \div 2 \in Nat
OBVIOUS

\* A request that begins, goes on or ends keeps its types.
LEMMA RequestTyped ==
    ASSUME RequestTypes, NEW q \in Requests,
           \/ End(q)
           \/ \E p \in Pcs : Goto(q, p)
           \/ \E p \in Pcs, t \in Tokens \union {None}, a \in Jwts \union {None} : Begin(q, t, a, p)
    PROVE  RequestTypes'
BY DEF RequestTypes, End, Goto, Begin, Pcs

LEMMA MakesPair ==
    ASSUME Typed, NEW q \in Requests, NEW t \in Tokens, NEW f \in Tokens, MakePair(q, t, f)
    PROVE  /\ RequestTypes' /\ family' \in [Tokens -> Tokens \union {None}]
           /\ \A u \in Tokens : u # t => family'[u] = family[u]
           /\ family'[t] = f /\ new'[q].jti = t /\ new'[q] \in Jwts
<1>1. now \div 2 + Life \in Nat
  BY LifeAssumption, WholeSeconds DEF Typed, TypeOK
<1>2. [jti |-> t, exp |-> now \div 2 + Life] \in Jwts
  BY <1>1 DEF Jwts
<1>3. new' = [new EXCEPT ![q] = [jti |-> t, exp |-> now \div 2 + Life]]
  BY DEF MakePair
<1>4. new' \in [Requests -> Jwts \union {None}] /\ new'[q].jti = t /\ new'[q] \in Jwts
  <2>1. new'[q] = [jti |-> t, exp |-> now \div 2 + Life]
    BY <1>3, TypedFacts DEF RequestTypes
  <2>2. [jti |-> t, exp |-> now \div 2 + Life].jti = t
    OBVIOUS
  <2> QED BY <1>2, <1>3, <2>1, <2>2, TypedFacts DEF RequestTypes
<1> QED BY <1>4, TypedFacts DEF RequestTypes, MakePair, Pcs

LEMMA StepTyped ==
    ASSUME Typed, [Next]_vars
    PROVE  Typed'
<1> USE NoneAssumption, BoundAssumption
<1>1. TypeOK /\ Held /\ RequestTypes
  BY TypedFacts
<1>2. ASSUME NEW q \in Requests, NEW t \in Tokens, SignIn(q, t)
      PROVE  Typed'
  <2>1. /\ RequestTypes' /\ family' \in [Tokens -> Tokens \union {None}]
        /\ \A u \in Tokens : u # t => family'[u] = family[u]
        /\ family'[t] = t /\ new'[q].jti = t /\ new'[q] \in Jwts
    BY <1>2, MakesPair DEF SignIn
  <2>2. TypeOK'
    BY <1>1, <1>2, <2>1 DEF SignIn, redis, browser, history, TypeOK, RequestTypes
  <2>3. Held'
    BY <1>1, <1>2, <2>1 DEF SignIn, MakePair, redis, browser, history, TypeOK, RequestTypes, Held, HeldBy, Made
  <2> QED BY <2>2, <2>3 DEF Typed
<1>3. ASSUME NEW q \in Requests, Refresh(q) \/ Logout(q)
      PROVE  Typed'
  <2>1. RequestTypes'
    BY <1>1, <1>3, RequestTyped DEF Refresh, Logout, TypeOK, Pcs
  <2>2. TypeOK'
    BY <1>1, <1>3, <2>1 DEF Refresh, Logout, redis, browser, history, TypeOK, RequestTypes
  <2>3. Held'
    BY <1>1, <1>3
    DEF Refresh, Logout, Begin, redis, browser, history, TypeOK, RequestTypes, Held, HeldBy, Made
  <2> QED BY <2>2, <2>3 DEF Typed
<1>4. ASSUME NEW q \in Requests, NEW o \in Outcomes, Take(q, o)
      PROVE  Typed'
  <2>1. RequestTypes' /\ sent[q] \in Tokens /\ family[sent[q]] \in Tokens
    BY <1>1, <1>4, RequestTyped, HeldFacts DEF Take, Pcs
  <2>2. TypeOK'
    BY <1>1, <1>4, <2>1 DEF Take, Break, Outcome, browser, TypeOK, RequestTypes
  <2>3. Held'
    BY <1>1, <1>4 DEF Take, Goto, End, browser, TypeOK, RequestTypes, Held, HeldBy, Made
  <2> QED BY <2>2, <2>3 DEF Typed
<1>5. ASSUME NEW q \in Requests, NEW t \in Tokens, NEW o \in {"ok", "error"}, SelectUser(q, t, o)
      PROVE  Typed'
  <2>1. sent[q] \in Tokens /\ Made(sent[q]) /\ family[sent[q]] \in Tokens
        /\ Made(family[sent[q]]) /\ family[family[sent[q]]] = family[sent[q]]
    BY <1>1, <1>5, HeldFacts DEF SelectUser, Held, HeldBy, Made
  <2>2. CASE o = "ok"
    <3>1. /\ RequestTypes' /\ family' \in [Tokens -> Tokens \union {None}]
          /\ \A u \in Tokens : u # t => family'[u] = family[u]
          /\ family'[t] = family[sent[q]] /\ new'[q].jti = t /\ new'[q] \in Jwts
      BY <1>5, <2>1, <2>2, MakesPair DEF SelectUser
    <3>2. TypeOK'
      BY <1>1, <1>5, <2>1, <3>1 DEF SelectUser, Outcome, Break, redis, browser, TypeOK, RequestTypes
    <3>3. /\ ~ Made(t) /\ pc' = [pc EXCEPT ![q] = "store"]
          /\ new' = [new EXCEPT ![q] = [jti |-> t, exp |-> now \div 2 + Life]]
          /\ UNCHANGED <<live, issued, jar, out, sent, access>>
      BY <1>5, <2>2 DEF SelectUser, MakePair, redis, browser
    <3>4. \A u \in Tokens : Made(u) => u # t /\ family'[u] = family[u] /\ Made(u)'
      BY <3>1, <3>3 DEF Made
    <3>5. Made(t)'
      BY <2>1, <3>1, NoneAssumption DEF Made
    <3>6. \A u \in Tokens : Made(u)' => family'[family'[u]] = family'[u]
      <4>1. \A u \in Tokens : Made(u) => family[u] \in Tokens /\ Made(family[u])
        BY <1>1, TypedFacts DEF Held, HeldBy, Made
      <4>2. ASSUME NEW u \in Tokens, u # t, Made(u)'
            PROVE  family'[family'[u]] = family'[u]
        BY <1>1, <3>1, <3>4, <4>1, <4>2 DEF Held, HeldBy, Made
      <4> QED BY <2>1, <3>1, <3>4, <4>2
    <3>7. Held'
      <4>1. ASSUME NEW r \in Requests
            PROVE  HeldBy(r)'
        <5>1. CASE r = q
          BY <1>1, <2>1, <3>1, <3>3, <3>4, <3>5, <5>1 DEF RequestTypes, Held, HeldBy
        <5>2. CASE r # q
          BY <1>1, <3>3, <3>4, <5>2, TypedFacts DEF RequestTypes, Held, HeldBy
        <5> QED BY <5>1, <5>2
      <4> QED
        BY <1>1, <3>3, <3>4, <3>6, <4>1 DEF TypeOK, Held
    <3> QED BY <3>2, <3>7 DEF Typed
  <2>3. CASE o # "ok"
    <3>1. RequestTypes'
      BY <1>1, <1>5, <2>3, RequestTyped DEF SelectUser
    <3>2. TypeOK'
      BY <1>1, <1>5, <2>1, <2>3, <3>1 DEF SelectUser, Outcome, Break, redis, browser, TypeOK, RequestTypes
    <3>3. Held'
      BY <1>1, <1>5, <2>3 DEF SelectUser, End, redis, browser, TypeOK, RequestTypes, Held, HeldBy, Made
    <3> QED BY <3>2, <3>3 DEF Typed
  <2> QED BY <2>2, <2>3
<1>6. ASSUME NEW q \in Requests, NEW o \in Outcomes, Store(q, o)
      PROVE  Typed'
  <2>1. /\ RequestTypes' /\ new[q].jti \in Tokens /\ Made(new[q].jti)
        /\ family[new[q].jti] \in Tokens
    BY <1>1, <1>6, RequestTyped, HeldFacts DEF Store, Pcs
  <2>2. TypeOK'
    BY <1>1, <1>6, <2>1 DEF Store, Break, Outcome, browser, TypeOK, RequestTypes
  <2>3. Held'
    BY <1>1, <1>6, <2>1 DEF Store, Goto, End, browser, TypeOK, RequestTypes, Held, HeldBy, Made
  <2> QED BY <2>2, <2>3 DEF Typed
<1>7. ASSUME NEW q \in Requests, ReceiveCookies(q)
      PROVE  Typed'
  <2>1. RequestTypes' /\ new[q] \in Jwts /\ new[q].jti \in Tokens /\ Made(new[q].jti)
    BY <1>1, <1>7, RequestTyped, HeldFacts DEF ReceiveCookies
  <2>2. TypeOK'
    BY <1>1, <1>7, <2>1 DEF ReceiveCookies, redis, history, TypeOK, RequestTypes
  <2>3. Held'
    BY <1>1, <1>7, <2>1 DEF ReceiveCookies, End, redis, history, TypeOK, RequestTypes, Held, HeldBy, Made
  <2> QED BY <2>2, <2>3 DEF Typed
<1>8. ASSUME NEW q \in Requests, NEW o \in {"ok", "error"}, Check(q, o)
      PROVE  Typed'
  <2>1. RequestTypes'
    BY <1>1, <1>8, RequestTyped DEF Check, Pcs
  <2>2. TypeOK'
    BY <1>1, <1>8, <2>1 DEF Check, Outcome, redis, browser, history, TypeOK, RequestTypes
  <2>3. Held'
    BY <1>1, <1>8 DEF Check, Goto, End, redis, browser, history, TypeOK, RequestTypes, Held, HeldBy, Made
  <2> QED BY <2>2, <2>3 DEF Typed
<1>9. ASSUME NEW q \in Requests, NEW o \in Outcomes, Revoke(q, o)
      PROVE  Typed'
  <2> DEFINE remaining == (2 * access[q].exp - now) \div 2
  <2>1. RequestTypes' /\ access[q] \in Jwts /\ access[q].exp \in Nat /\ now \in Nat
    BY <1>1, <1>9, RequestTyped, HeldFacts, TypedFacts DEF Revoke, Pcs, TypeOK
  <2>2. remaining > 0 => now + 2 * remaining \in Nat
    BY <2>1
  <2>3. revoked' \subseteq [jwt : Jwts, until : Nat]
    BY <1>1, <1>9, <2>1, <2>2 DEF Revoke, TypeOK
  <2>4. TypeOK'
    BY <1>1, <1>9, <2>1, <2>3 DEF Revoke, Outcome, browser, history, TypeOK, RequestTypes
  <2>5. Held'
    BY <1>1, <1>9 DEF Revoke, Goto, browser, history, TypeOK, RequestTypes, Held, HeldBy, Made
  <2> QED BY <2>4, <2>5 DEF Typed
<1>10. ASSUME NEW q \in Requests, NEW o \in Outcomes, Delete(q, o)
       PROVE  Typed'
  <2>1. RequestTypes' /\ sent[q] \in Tokens /\ family[sent[q]] \in Tokens
        /\ Made(family[sent[q]])
    BY <1>1, <1>10, RequestTyped, HeldFacts DEF Delete, Pcs, Held, HeldBy, Made
  <2>2. TypeOK'
    BY <1>1, <1>10, <2>1 DEF Delete, Break, Outcome, browser, TypeOK, RequestTypes
  <2>3. Held'
    BY <1>1, <1>10, <2>1 DEF Delete, Goto, browser, TypeOK, RequestTypes, Held, HeldBy, Made
  <2> QED BY <2>2, <2>3 DEF Typed
<1>11. ASSUME NEW q \in Requests, ClearCookies(q)
       PROVE  Typed'
  <2>1. RequestTypes'
    BY <1>1, <1>11, RequestTyped DEF ClearCookies
  <2>2. TypeOK'
    BY <1>1, <1>11, <2>1 DEF ClearCookies, redis, history, TypeOK, RequestTypes
  <2>3. Held'
    BY <1>1, <1>11 DEF ClearCookies, End, redis, history, TypeOK, RequestTypes, Held, HeldBy, Made
  <2> QED BY <2>2, <2>3 DEF Typed
<1>12. ASSUME NEW q \in Requests, LoseAnswer(q)
       PROVE  Typed'
  <2>1. RequestTypes' /\ (pc[q] = "cookies" => family[new[q].jti] \in Tokens)
    BY <1>1, <1>12, RequestTyped, HeldFacts DEF LoseAnswer
  <2>2. TypeOK'
    BY <1>1, <1>12, <2>1 DEF LoseAnswer, Break, Outcome, redis, browser, TypeOK, RequestTypes
  <2>3. Held'
    BY <1>1, <1>12 DEF LoseAnswer, End, redis, browser, TypeOK, RequestTypes, Held, HeldBy, Made
  <2> QED BY <2>2, <2>3 DEF Typed
<1>13. CASE Die
  <2>1. RequestTypes'
    BY <1>1, <1>13 DEF Die, RequestTypes, Pcs
  <2>2. TypeOK'
    BY <1>1, <1>13, <2>1 DEF Die, Outcome, redis, browser, TypeOK, RequestTypes
  <2>3. Held'
    BY <1>1, <1>13 DEF Die, redis, browser, TypeOK, RequestTypes, Held, HeldBy, Made
  <2> QED BY <2>2, <2>3 DEF Typed
<1>14. CASE Tick \/ DropAccessCookie
  BY <1>1, <1>14
  DEF Tick, DropAccessCookie, redis, browser, request, history, Typed, TypeOK, Held, HeldBy, Made
<1>15. ASSUME NEW t \in Tokens, Lapse(t)
       PROVE  Typed'
  <2>1. family[t] \in Tokens
    BY <1>1, <1>15, TypedFacts DEF Lapse, Held
  <2> QED
    BY <1>1, <1>15, <2>1
    DEF Lapse, Break, browser, request, Typed, TypeOK, Held, HeldBy, Made
<1>16. CASE UNCHANGED vars
  BY <1>1, <1>16 DEF vars, redis, browser, request, history, Typed, TypeOK, Held, HeldBy, Made
<1> QED
  BY <1>2, <1>3, <1>4, <1>5, <1>6, <1>7, <1>8, <1>9, <1>10, <1>11, <1>12, <1>13,
     <1>14, <1>15, <1>16 DEF Next, Arrive, Serve

\* Every variable keeps its type, and every request has what its next step needs.
THEOREM TypeCorrect == Spec => []TypeOK
<1>1. Typed => TypeOK
  BY DEF Typed
<1> QED BY <1>1, InitTyped, StepTyped, PTL DEF Spec

-----------------------------------------------------------------------------
(* The chain of a sign-in.                                                  *)

Bears(q) == pc[q] \in {"store", "cookies"}

\* The token of a pair that is on its way was never stored before its turn, is
\* nobody else's and not yet in the browser's hands.
Unseen ==
    \A q \in Requests : Bears(q) =>
        /\ pc[q] = "store" => new[q].jti \notin issued
        /\ jar # new[q].jti
        /\ \A p \in Requests : sent[p] # new[q].jti
        /\ \A p \in Requests : Bears(p) /\ new[p].jti = new[q].jti => p = q

\* While a pair is on its way to the browser, its sign-in has no other token.
LastOfChain ==
    \A q \in Requests : pc[q] = "cookies" =>
        /\ \A t \in live : family[t] = family[new[q].jti] => t = new[q].jti
        /\ \A p \in Requests : ~ Rotating(p, family[new[q].jti])

\* A request cannot exchange a token that is behind that of the browser.
SentIsLast ==
    \A q \in Requests :
        sent[q] \in live /\ jar # None /\ family[jar] = family[sent[q]] => jar = sent[q]

Chain == Unseen /\ OneLivePerSignIn /\ LastOfChain /\ SentIsLast

\* A step that makes no token, stores none and delivers none.
Losing ==
    /\ UNCHANGED <<family, issued>>
    /\ live' \subseteq live
    /\ jar' \in {jar, None}
    /\ \A q \in Requests :
          /\ pc'[q] \in {"select", "store", "cookies"} =>
                pc'[q] = pc[q] /\ new'[q] = new[q] /\ sent'[q] = sent[q]
          /\ sent'[q] \in {sent[q], jar, None}

LEMMA LosingRotations ==
    ASSUME Losing
    PROVE  /\ \A q \in Requests, f \in Tokens : Rotating(q, f)' => Rotating(q, f)
           /\ \A q \in Requests, f \in Tokens : Refreshing(q, f)' => Refreshing(q, f)
BY DEF Losing, Rotating, Refreshing

LEMMA LosingChain ==
    ASSUME Typed, Chain, Losing
    PROVE  Chain'
<1>1. Held /\ RequestTypes /\ None \notin Tokens /\ TypeOK
      /\ \A t \in Tokens : Made(t) => family[t] \in Tokens
  BY TypedFacts
<1>2. \A q \in Requests : Bears(q)' => Bears(q) /\ new'[q] = new[q] /\ pc'[q] = pc[q]
                                       /\ new[q].jti \in Tokens /\ family[new[q].jti] \in Tokens
  BY HeldFacts DEF Losing, Bears
<1>3. Unseen'
  BY <1>1, <1>2 DEF Chain, Unseen, Losing
<1>4. \A t \in live : t \in Tokens /\ family[t] \in Tokens
  BY <1>1 DEF Held, TypeOK
<1>5. OneLivePerSignIn'
  <2>1. \A t, u \in live' : family'[t] = family'[u] => t = u
    BY DEF Losing, Chain, OneLivePerSignIn
  <2>2. \A q \in Requests, t \in live' : ~ (pc'[q] = "select" /\ family'[sent'[q]] = family'[t])
                                         /\ ~ (pc'[q] = "store" /\ family'[new'[q].jti] = family'[t])
    BY DEF Losing, Chain, OneLivePerSignIn, Rotating
  <2>3. \A q, p \in Requests, f \in Tokens : Rotating(p, f)' /\ Rotating(q, f)' => p = q
    BY LosingRotations DEF Chain, OneLivePerSignIn
  <2> QED BY <2>1, <2>2, <2>3 DEF OneLivePerSignIn, Rotating
<1>6. LastOfChain'
  <2> SUFFICES ASSUME NEW q \in Requests, pc'[q] = "cookies"
               PROVE  /\ \A t \in live' : family'[t] = family'[new'[q].jti] => t = new'[q].jti
                      /\ \A p \in Requests : ~ Rotating(p, family[new[q].jti])'
    BY DEF LastOfChain
  <2>1. pc[q] = "cookies" /\ new'[q] = new[q] /\ family' = family /\ live' \subseteq live
    BY DEF Losing
  <2>2. family[new[q].jti] \in Tokens /\ (family[new[q].jti])' = family[new[q].jti]
    BY <2>1, HeldFacts
  <2>3. \A p \in Requests : ~ Rotating(p, family[new[q].jti])
    BY <2>1 DEF Chain, LastOfChain
  <2>4. \A p \in Requests : ~ Rotating(p, family[new[q].jti])'
    BY <2>2, <2>3 DEF Rotating, Losing
  <2> QED BY <2>1, <2>4 DEF Chain, LastOfChain
<1>7. SentIsLast'
  BY <1>1, <1>4 DEF Losing, Chain, SentIsLast
<1> QED BY <1>3, <1>5, <1>6, <1>7 DEF Chain

\* The steps that lose.
LEMMA LosingSteps ==
    ASSUME Typed, NEW q \in Requests
    PROVE  /\ \A o \in Outcomes : Take(q, o) /\ ~ (o = "ok" /\ sent[q] \in live) => Losing
           /\ \A t \in Tokens : SelectUser(q, t, "error") => Losing
           /\ Store(q, "error") => Losing
           /\ Refresh(q) \/ Logout(q) \/ ClearCookies(q) \/ LoseAnswer(q) => Losing
           /\ \A o \in Outcomes : Check(q, o) \/ Revoke(q, o) \/ Delete(q, o) => Losing
<1>1. RequestTypes /\ Held
  BY TypedFacts
<1>2. ASSUME End(q), UNCHANGED <<family, issued>>, live' \subseteq live, jar' \in {jar, None}
      PROVE  Losing
  BY <1>1, <1>2 DEF End, Losing, RequestTypes
<1>3. ASSUME NEW p \in {"delete", "revoke", "clear"}, Goto(q, p),
             UNCHANGED <<family, issued>>, live' \subseteq live, jar' = jar
      PROVE  Losing
  BY <1>1, <1>3 DEF Goto, Losing, RequestTypes
<1>4. ASSUME NEW o \in Outcomes, Take(q, o), ~ (o = "ok" /\ sent[q] \in live)
      PROVE  Losing
  BY <1>2, <1>4 DEF Take, browser
<1>5. ASSUME NEW t \in Tokens, SelectUser(q, t, "error")
      PROVE  Losing
  BY <1>2, <1>5 DEF SelectUser, redis, browser
<1>6. ASSUME Store(q, "error")
      PROVE  Losing
  BY <1>2, <1>6 DEF Store, browser
<1>7. ASSUME Refresh(q) \/ Logout(q)
      PROVE  Losing
  BY <1>1, <1>7 DEF Refresh, Logout, Begin, redis, browser, Losing, RequestTypes
<1>8. ASSUME ClearCookies(q) \/ LoseAnswer(q)
      PROVE  Losing
  BY <1>2, <1>8 DEF ClearCookies, LoseAnswer, redis, browser
<1>9. ASSUME NEW o \in Outcomes, Check(q, o)
      PROVE  Losing
  BY <1>2, <1>3, <1>9 DEF Check, redis, browser
<1>10. ASSUME NEW o \in Outcomes, Revoke(q, o)
       PROVE  Losing
  BY <1>3, <1>10 DEF Revoke, browser
<1>11. ASSUME NEW o \in Outcomes, Delete(q, o)
       PROVE  Losing
  BY <1>3, <1>11 DEF Delete, browser
<1> QED BY <1>4, <1>5, <1>6, <1>7, <1>8, <1>9, <1>10, <1>11

LEMMA LosingOthers ==
    ASSUME Typed, Die \/ Tick \/ DropAccessCookie \/ (\E t \in Tokens : Lapse(t)) \/ UNCHANGED vars
    PROVE  Losing
<1>1. RequestTypes
  BY TypedFacts
<1>2. CASE Die
  BY <1>1, <1>2 DEF Die, Losing, redis, browser, RequestTypes
<1>3. CASE Tick \/ DropAccessCookie \/ UNCHANGED vars
  BY <1>3 DEF Tick, DropAccessCookie, vars, Losing, redis, browser, request
<1>4. ASSUME NEW t \in Tokens, Lapse(t)
      PROVE  Losing
  BY <1>4 DEF Lapse, Losing, browser, request
<1> QED BY <1>2, <1>3, <1>4

-----------------------------------------------------------------------------
(* The steps that make, store, take or deliver a token.                     *)

\* q makes the pair t, of a sign-in that has no other token left.
LEMMA MakesChain ==
    ASSUME Typed, Chain, NEW q \in Requests, NEW t \in Tokens, NEW f \in Tokens,
           MakePair(q, t, f), UNCHANGED <<live, issued, jar>>,
           \/ Rotating(q, f) /\ pc[q] = "select"
           \/ f = t /\ pc[q] = "idle"
    PROVE  Chain'
<1>1. /\ family' \in [Tokens -> Tokens \union {None}] /\ family'[t] = f
      /\ \A u \in Tokens : u # t => family'[u] = family[u]
      /\ new'[q].jti = t /\ new'[q] \in Jwts
  BY MakesPair
<1>2. /\ pc' = [pc EXCEPT ![q] = "store"] /\ pc'[q] = "store" /\ sent' = sent /\ ~ Made(t)
      /\ \A p \in Requests : p # q => pc'[p] = pc[p] /\ new'[p] = new[p]
  BY TypedFacts DEF MakePair, RequestTypes
<1>3. /\ \A u \in live : u \in Tokens /\ u # t /\ family'[u] = family[u] /\ family[u] \in Tokens
      /\ t \notin issued /\ jar # t
      /\ jar # None => jar \in Tokens /\ family'[jar] = family[jar]
  BY <1>1, <1>2, TypedFacts DEF Held, TypeOK, Made
<1>4. \A p \in Requests :
         /\ sent[p] # t
         /\ sent[p] # None => sent[p] \in Tokens /\ family'[sent[p]] = family[sent[p]]
         /\ Bears(p) => new[p].jti \in Tokens /\ new[p].jti # t
                        /\ family'[new[p].jti] = family[new[p].jti]
  BY <1>1, <1>2, TypedFacts, HeldFacts DEF Held, HeldBy, RequestTypes, Made, Bears
\* The family f is new, or q was the one to continue it.
<1>5. /\ \A u \in live : family[u] # f
      /\ \A p \in Requests : p # q => ~ Rotating(p, f)
      /\ \A p \in Requests : pc[p] = "cookies" => family[new[p].jti] # f
  <2>1. CASE Rotating(q, f) /\ pc[q] = "select"
    BY <2>1 DEF Chain, OneLivePerSignIn, LastOfChain
  <2>2. CASE f = t /\ pc[q] = "idle"
    <3>1. \A u \in Tokens : family[u] = t => FALSE
      <4> SUFFICES ASSUME NEW u \in Tokens, family[u] = t PROVE FALSE
        OBVIOUS
      <4>1. family[t] = t
        BY TypedFacts DEF Held, Made
      <4> QED BY <1>2, <4>1, TypedFacts DEF Made
    <3>2. \A p \in Requests : pc[p] = "select" => sent[p] \in Tokens
      BY HeldFacts
    <3>3. \A p \in Requests : Bears(p) => new[p].jti \in Tokens
      BY HeldFacts DEF Bears
    <3> QED BY <2>2, <3>1, <3>2, <3>3, <1>3 DEF Rotating, Bears
  <2> QED BY <2>1, <2>2
<1>6. /\ \A g \in Tokens : Rotating(q, g)' <=> g = f
      /\ \A p \in Requests, g \in Tokens : p # q => (Rotating(p, g)' <=> Rotating(p, g))
  <2>1. \A g \in Tokens : Rotating(q, g)' <=> g = f
    BY <1>1, <1>2 DEF Rotating
  <2>2. ASSUME NEW p \in Requests, NEW g \in Tokens, p # q
        PROVE  Rotating(p, g)' <=> Rotating(p, g)
    <3>1. pc[p] = "select" => sent[p] \in Tokens /\ family'[sent[p]] = family[sent[p]]
      BY <1>4, HeldFacts, TypedFacts
    <3> QED BY <1>2, <1>4, <2>2, <3>1 DEF Rotating, Bears
  <2> QED BY <2>1, <2>2
<1>7. Unseen'
  <2>1. \A p \in Requests : Bears(p)' => p = q \/ (Bears(p) /\ new'[p] = new[p] /\ pc'[p] = pc[p])
    BY <1>2 DEF Bears
  <2> QED BY <1>1, <1>2, <1>3, <1>4, <2>1 DEF Chain, Unseen
<1>8. OneLivePerSignIn'
  <2>1. \A u, v \in live' : family'[u] = family'[v] => u = v
    BY <1>3 DEF Chain, OneLivePerSignIn
  <2>2. \A p \in Requests, u \in live : ~ Rotating(p, family[u])'
    <3> SUFFICES ASSUME NEW p \in Requests, NEW u \in live PROVE ~ Rotating(p, family[u])'
      OBVIOUS
    <3>1. (family[u])' = family[u] /\ family[u] \in Tokens /\ family[u] # f
      BY <1>3, <1>5
    <3>2. \A g \in Tokens : g # f => ~ Rotating(q, g)'
      BY <1>6
    <3>3. ~ Rotating(p, family[u])
      BY DEF Chain, OneLivePerSignIn
    <3>4. CASE p = q
      BY <1>1, <1>2, <3>1, <3>4 DEF Rotating
    <3>5. CASE p # q
      <4>1. pc[p] = "select" => sent[p] \in Tokens /\ family'[sent[p]] = family[sent[p]]
        BY <1>4, HeldFacts, TypedFacts
      <4> QED BY <1>2, <1>4, <3>1, <3>3, <3>5, <4>1 DEF Rotating, Bears
    <3> QED BY <3>4, <3>5
  <2>3. \A p, r \in Requests, g \in Tokens : Rotating(p, g)' /\ Rotating(r, g)' => p = r
    BY <1>5, <1>6 DEF Chain, OneLivePerSignIn
  <2> QED BY <2>1, <2>2, <2>3 DEF OneLivePerSignIn
<1>9. LastOfChain'
  <2> SUFFICES ASSUME NEW r \in Requests, pc'[r] = "cookies"
               PROVE  /\ \A u \in live' : family'[u] = family'[new'[r].jti] => u = new'[r].jti
                      /\ \A p \in Requests : ~ Rotating(p, family[new[r].jti])'
    BY DEF LastOfChain
  <2>1. /\ r # q /\ pc[r] = "cookies" /\ new'[r] = new[r] /\ family'[new[r].jti] = family[new[r].jti]
        /\ family[new[r].jti] # f /\ family[new[r].jti] \in Tokens
    BY <1>2, <1>4, <1>5, HeldFacts DEF Bears
  <2>2. \A u \in live' : family'[u] = family'[new'[r].jti] => u = new'[r].jti
    BY <1>3, <2>1 DEF Chain, LastOfChain
  <2>3. ASSUME NEW p \in Requests
        PROVE  ~ Rotating(p, family[new[r].jti])'
    <3>1. ~ Rotating(p, family[new[r].jti])
      BY <2>1 DEF Chain, LastOfChain
    <3>2. CASE p = q
      BY <1>1, <1>2, <2>1, <3>2 DEF Rotating
    <3>3. CASE p # q
      <4>1. pc[p] = "select" => sent[p] \in Tokens /\ family'[sent[p]] = family[sent[p]]
        BY <1>4, HeldFacts, TypedFacts
      <4> QED BY <1>2, <1>4, <2>1, <3>1, <3>3, <4>1 DEF Rotating, Bears
    <3> QED BY <3>2, <3>3
  <2> QED BY <2>2, <2>3
<1>10. SentIsLast'
  BY <1>2, <1>3 DEF Chain, SentIsLast
<1> QED BY <1>7, <1>8, <1>9, <1>10 DEF Chain

\* q takes the last token of a sign-in, to continue it.
LEMMA TakesChain ==
    ASSUME Typed, Chain, NEW q \in Requests, Take(q, "ok"), sent[q] \in live
    PROVE  Chain'
<1> DEFINE t == sent[q]
           f == family[t]
<1>1. /\ live' = live \ {t} /\ UNCHANGED <<issued, jar, family, sent, new>>
      /\ pc' = [pc EXCEPT ![q] = "select"] /\ pc[q] = "take"
      /\ t \in Tokens /\ f \in Tokens
  BY HeldFacts DEF Take, Goto, browser
<1>2. /\ pc'[q] = "select"
      /\ \A p \in Requests : p # q => pc'[p] = pc[p]
      /\ \A p \in Requests : Bears(p)' => Bears(p) /\ p # q /\ pc'[p] = pc[p]
  BY <1>1, TypedFacts DEF RequestTypes, Bears
<1>3. /\ \A g \in Tokens : Rotating(q, g)' <=> g = f
      /\ \A p \in Requests, g \in Tokens : p # q => (Rotating(p, g)' <=> Rotating(p, g))
  BY <1>1, <1>2 DEF Rotating
<1>4. /\ \A u \in live : u \in Tokens /\ family[u] \in Tokens /\ (family[u] = f => u = t)
      /\ \A p \in Requests : ~ Rotating(p, f)
  BY <1>1, TypedFacts DEF Held, TypeOK, Chain, OneLivePerSignIn
<1>5. \A p \in Requests : pc[p] = "cookies" => family[new[p].jti] # f /\ family[new[p].jti] \in Tokens
  BY HeldFacts DEF Chain, LastOfChain, Unseen, Bears
<1> HIDE DEF t, f
<1>6. Unseen'
  BY <1>1, <1>2 DEF Chain, Unseen
<1>7. OneLivePerSignIn'
  <2>1. \A u, v \in live' : family'[u] = family'[v] => u = v
    BY <1>1 DEF Chain, OneLivePerSignIn
  <2>2. ASSUME NEW p \in Requests, NEW u \in live'
        PROVE  ~ Rotating(p, family[u])'
    <3>1. (family[u])' = family[u] /\ family[u] \in Tokens /\ family[u] # f /\ u \in live
      BY <1>1, <1>4, <2>2
    <3>2. ~ Rotating(p, family[u])
      BY <3>1 DEF Chain, OneLivePerSignIn
    <3>3. CASE p = q
      BY <1>1, <1>2, <3>1, <3>3 DEF Rotating, t, f
    <3>4. CASE p # q
      BY <1>1, <1>2, <3>2, <3>4 DEF Rotating
    <3> QED BY <3>3, <3>4
  <2>3. \A p, r \in Requests, g \in Tokens : Rotating(p, g)' /\ Rotating(r, g)' => p = r
    BY <1>3, <1>4 DEF Chain, OneLivePerSignIn
  <2> QED BY <2>1, <2>2, <2>3 DEF OneLivePerSignIn
<1>8. LastOfChain'
  <2> SUFFICES ASSUME NEW r \in Requests, pc'[r] = "cookies"
               PROVE  /\ \A u \in live' : family'[u] = family'[new'[r].jti] => u = new'[r].jti
                      /\ \A p \in Requests : ~ Rotating(p, family[new[r].jti])'
    BY DEF LastOfChain
  <2>1. r # q /\ pc[r] = "cookies"
    BY <1>2
  <2>2. \A u \in live' : family'[u] = family'[new'[r].jti] => u = new'[r].jti
    BY <1>1, <2>1 DEF Chain, LastOfChain
  <2>3. ASSUME NEW p \in Requests
        PROVE  ~ Rotating(p, family[new[r].jti])'
    <3>1. ~ Rotating(p, family[new[r].jti]) /\ family[new[r].jti] # f
      BY <1>5, <2>1 DEF Chain, LastOfChain
    <3>2. CASE p = q
      BY <1>1, <1>2, <3>1, <3>2 DEF Rotating, t, f
    <3>3. CASE p # q
      BY <1>1, <1>2, <3>1, <3>3 DEF Rotating
    <3> QED BY <3>2, <3>3
  <2> QED BY <2>2, <2>3
<1>9. SentIsLast'
  BY <1>1 DEF Chain, SentIsLast
<1> QED BY <1>6, <1>7, <1>8, <1>9 DEF Chain

\* q stores the token it made.
LEMMA StoresChain ==
    ASSUME Typed, Chain, NEW q \in Requests, NEW o \in {"ok", "late"}, Store(q, o)
    PROVE  Chain'
<1> DEFINE t == new[q].jti
           f == family[t]
<1>1. /\ live' = live \union {t} /\ issued' = issued \union {t} /\ UNCHANGED <<jar, family>>
      /\ pc[q] = "store" /\ (Goto(q, "cookies") \/ End(q))
      /\ t \in Tokens /\ f \in Tokens /\ Rotating(q, f) /\ Bears(q)
  BY HeldFacts DEF Store, browser, Rotating, Bears
<1>2. /\ pc'[q] \in {"cookies", "idle"}
      /\ \A p \in Requests : p # q => pc'[p] = pc[p] /\ new'[p] = new[p] /\ sent'[p] = sent[p]
      /\ \A p \in Requests : sent'[p] \in {sent[p], None}
      /\ pc'[q] = "cookies" => new'[q] = new[q]
  BY <1>1, TypedFacts DEF RequestTypes, Goto, End
<1>3. \A p \in Requests : Bears(p)' => Bears(p) /\ new'[p] = new[p] /\ (p # q => pc'[p] = pc[p])
                                      /\ new[p].jti \in Tokens
  BY <1>1, <1>2, HeldFacts DEF Bears
<1>4. \A p \in Requests, g \in Tokens : Rotating(p, g)' => Rotating(p, g) /\ p # q
  BY <1>1, <1>2 DEF Rotating
<1>5. /\ \A u \in live : u \in Tokens /\ family[u] \in Tokens /\ family[u] # f
      /\ \A p \in Requests : Rotating(p, f) => p = q
  BY <1>1, TypedFacts DEF Held, TypeOK, Chain, OneLivePerSignIn
<1>6. \A p \in Requests : pc[p] = "cookies" => family[new[p].jti] # f
  BY <1>1 DEF Chain, LastOfChain
<1>7. None \notin Tokens
  BY NoneAssumption
<1> HIDE DEF t, f
<1>8. Unseen'
  BY <1>1, <1>2, <1>3, <1>7 DEF Chain, Unseen, t
<1>9. OneLivePerSignIn'
  <2>1. \A u, v \in live' : family'[u] = family'[v] => u = v
    BY <1>1, <1>5 DEF Chain, OneLivePerSignIn, f
  <2>2. ASSUME NEW p \in Requests, NEW u \in live'
        PROVE  ~ Rotating(p, family[u])'
    <3>1. (family[u])' = family[u] /\ family[u] \in Tokens
      BY <1>1, <1>5, <2>2 DEF f
    <3>2. Rotating(p, family[u])' => Rotating(p, family[u]) /\ p # q
      BY <1>1, <1>2, <3>1 DEF Rotating
    <3>3. CASE u = t
      BY <1>5, <3>2, <3>3 DEF f
    <3>4. CASE u # t
      BY <1>1, <2>2, <3>2, <3>4 DEF Chain, OneLivePerSignIn
    <3> QED BY <3>3, <3>4
  <2>3. \A p, r \in Requests, g \in Tokens : Rotating(p, g)' /\ Rotating(r, g)' => p = r
    BY <1>4 DEF Chain, OneLivePerSignIn
  <2> QED BY <2>1, <2>2, <2>3 DEF OneLivePerSignIn
<1>10. LastOfChain'
  <2> SUFFICES ASSUME NEW r \in Requests, pc'[r] = "cookies"
               PROVE  /\ \A u \in live' : family'[u] = family'[new'[r].jti] => u = new'[r].jti
                      /\ \A p \in Requests : ~ Rotating(p, family[new[r].jti])'
    BY DEF LastOfChain
  <2>1. new'[r] = new[r] /\ family' = family
    BY <1>1, <1>2
  <2>2. \A p \in Requests : Rotating(p, family[new[r].jti])' => Rotating(p, family[new[r].jti]) /\ p # q
    BY <1>1, <1>2, <2>1 DEF Rotating
  <2>3. CASE r = q
    BY <1>1, <1>5, <2>1, <2>2, <2>3 DEF t, f
  <2>4. CASE r # q
    BY <1>1, <1>2, <1>6, <2>1, <2>2, <2>4 DEF Chain, LastOfChain, f
  <2> QED BY <2>3, <2>4
<1>11. SentIsLast'
  <2>1. \A p \in Requests : sent[p] # t
    BY <1>1 DEF Chain, Unseen, t
  <2>2. \A p \in Requests : sent'[p] \in live' => sent'[p] = sent[p] /\ sent[p] \in live
    <3>1. None \notin live'
      BY <1>1, <1>5, <1>7 DEF t
    <3> QED BY <1>1, <1>2, <2>1, <3>1 DEF t
  <2> QED BY <1>1, <2>2 DEF Chain, SentIsLast
<1> QED BY <1>8, <1>9, <1>10, <1>11 DEF Chain

\* The browser receives the pair of q.
LEMMA ReceivesChain ==
    ASSUME Typed, Chain, NEW q \in Requests, ReceiveCookies(q)
    PROVE  Chain'
<1> DEFINE t == new[q].jti
<1>1. /\ UNCHANGED <<live, issued, family>> /\ jar' = t /\ End(q) /\ pc[q] = "cookies" /\ Bears(q)
      /\ None \notin Tokens /\ t \in Tokens
  BY HeldFacts, NoneAssumption DEF ReceiveCookies, redis, Bears
<1>2. /\ pc'[q] = "idle" /\ sent'[q] = None
      /\ \A p \in Requests : p # q => pc'[p] = pc[p] /\ new'[p] = new[p] /\ sent'[p] = sent[p]
  BY <1>1, TypedFacts DEF RequestTypes, End
<1>3. \A p \in Requests : Bears(p)' => Bears(p) /\ p # q /\ new'[p] = new[p] /\ pc'[p] = pc[p]
                                      /\ new[p].jti \in Tokens
  BY <1>1, <1>2, HeldFacts DEF Bears
<1>4. \A p \in Requests, g \in Tokens : Rotating(p, g)' => Rotating(p, g)
  BY <1>1, <1>2 DEF Rotating
<1>5. \A u \in live : u \in Tokens /\ family[u] \in Tokens
  BY TypedFacts DEF Held, TypeOK
<1> HIDE DEF t
<1>6. Unseen'
  <2>1. \A p \in Requests : sent'[p] \in {sent[p], None}
    BY <1>2
  <2> QED BY <1>1, <1>3, <2>1 DEF Chain, Unseen, t
<1>7. OneLivePerSignIn'
  <2>1. ASSUME NEW p \in Requests, NEW u \in live'
        PROVE  ~ Rotating(p, family[u])'
    BY <1>1, <1>2, <2>1 DEF Rotating, Chain, OneLivePerSignIn
  <2> QED BY <1>1, <1>4, <2>1 DEF Chain, OneLivePerSignIn
<1>8. LastOfChain'
  <2> SUFFICES ASSUME NEW r \in Requests, pc'[r] = "cookies"
               PROVE  /\ \A u \in live' : family'[u] = family'[new'[r].jti] => u = new'[r].jti
                      /\ \A p \in Requests : ~ Rotating(p, family[new[r].jti])'
    BY DEF LastOfChain
  <2>1. r # q /\ pc[r] = "cookies" /\ new'[r] = new[r] /\ family' = family
    BY <1>1, <1>2
  <2>2. \A p \in Requests : Rotating(p, family[new[r].jti])' => Rotating(p, family[new[r].jti])
    BY <1>1, <1>2, <2>1 DEF Rotating
  <2> QED BY <1>1, <2>1, <2>2 DEF Chain, LastOfChain
<1>9. SentIsLast'
  \* A token that was sent cannot be the one that arrives, and it is the only one.
  <2>1. \A p \in Requests : p # q /\ sent[p] \in live => family[sent[p]] # family[t]
    BY <1>1 DEF Chain, LastOfChain, Unseen, t
  <2>2. sent'[q] \notin live
    BY <1>1, <1>2, <1>5
  <2> QED BY <1>1, <1>2, <2>1, <2>2 DEF SentIsLast
<1> QED BY <1>6, <1>7, <1>8, <1>9 DEF Chain

LEMMA StepChain ==
    ASSUME Typed, Chain, [Next]_vars
    PROVE  Chain'
<1>1. ASSUME NEW q \in Requests, NEW t \in Tokens, SignIn(q, t)
      PROVE  Chain'
  BY <1>1, MakesChain DEF SignIn, Idle, redis, browser
<1>2. ASSUME NEW q \in Requests, NEW o \in Outcomes, Take(q, o)
      PROVE  Chain'
  BY <1>2, TakesChain, LosingSteps, LosingChain
<1>3. ASSUME NEW q \in Requests, NEW t \in Tokens, NEW o \in {"ok", "error"}, SelectUser(q, t, o)
      PROVE  Chain'
  <2>1. CASE o = "ok"
    <3>1. pc[q] = "select" /\ family[sent[q]] \in Tokens /\ Rotating(q, family[sent[q]])
      BY <1>3, HeldFacts DEF SelectUser, Rotating
    <3> QED BY <1>3, <2>1, <3>1, MakesChain DEF SelectUser, redis, browser
  <2>2. CASE o = "error"
    BY <1>3, <2>2, LosingSteps, LosingChain
  <2> QED BY <2>1, <2>2
<1>4. ASSUME NEW q \in Requests, NEW o \in Outcomes, Store(q, o)
      PROVE  Chain'
  BY <1>4, StoresChain, LosingSteps, LosingChain DEF Outcomes
<1>5. ASSUME NEW q \in Requests, ReceiveCookies(q)
      PROVE  Chain'
  BY <1>5, ReceivesChain
<1>6. ASSUME NEW q \in Requests,
             \/ Refresh(q) \/ Logout(q) \/ ClearCookies(q) \/ LoseAnswer(q)
             \/ \E o \in Outcomes : Check(q, o) \/ Revoke(q, o) \/ Delete(q, o)
      PROVE  Chain'
  BY <1>6, LosingSteps, LosingChain
<1>7. CASE Die \/ Tick \/ DropAccessCookie \/ (\E t \in Tokens : Lapse(t)) \/ UNCHANGED vars
  BY <1>7, LosingOthers, LosingChain
<1> QED
  BY <1>1, <1>2, <1>3, <1>4, <1>5, <1>6, <1>7 DEF Next, Arrive, Serve, Outcomes

LEMMA InitChain == Init => Chain
BY DEF Init, Chain, Unseen, OneLivePerSignIn, LastOfChain, SentIsLast, Rotating, Bears

\* A sign-in never branches: it has one refresh token or one exchange under way,
\* whatever tabs, lost answers and failures do (GETDEL, then SETEX, of refresh_token).
THEOREM SignInsDoNotBranch == Spec => []OneLivePerSignIn
<1>1. Chain => OneLivePerSignIn
  BY DEF Chain
<1> QED BY <1>1, InitTyped, StepTyped, InitChain, StepChain, PTL DEF Spec

-----------------------------------------------------------------------------
(* OneTimeToken.                                                            *)

LEMMA StepSimulation ==
    ASSUME Typed, Chain, [Next]_vars
    PROVE  [Token!Next]_(Token!vars)
<1> USE DEF Token!vars, Token!Issue, Token!Redeem, Token!Lapse
<1>1. ASSUME NEW q \in Requests, NEW o \in Outcomes, Store(q, o)
      PROVE  Token!Issue(new[q].jti) \/ UNCHANGED Token!vars
  <2>1. new[q].jti \notin issued
    BY <1>1 DEF Store, Chain, Unseen, Bears
  <2> QED BY <1>1, <2>1 DEF Store
<1>2. ASSUME NEW q \in Requests, NEW o \in Outcomes, Take(q, o)
      PROVE  Token!Redeem(sent[q]) \/ Token!Lapse(sent[q]) \/ UNCHANGED Token!vars
  BY <1>2 DEF Take
<1>3. ASSUME NEW q \in Requests, NEW o \in Outcomes, Delete(q, o)
      PROVE  Token!Lapse(sent[q]) \/ UNCHANGED Token!vars
  BY <1>3 DEF Delete
<1>4. ASSUME NEW t \in Tokens, Lapse(t)
      PROVE  Token!Lapse(t)
  BY <1>4 DEF Lapse
<1>5. ASSUME NEW q \in Requests, NEW o \in Outcomes, Store(q, o) \/ Take(q, o) \/ Delete(q, o)
      PROVE  [Token!Next]_(Token!vars)
  <2>1. Store(q, o) => new[q].jti \in Tokens
    BY HeldFacts DEF Store
  <2>2. Take(q, o) \/ Delete(q, o) => sent[q] \in Tokens
    BY HeldFacts DEF Take, Delete
  <2> HIDE DEF Token!vars, Token!Issue, Token!Redeem, Token!Lapse
  <2> QED BY <1>1, <1>2, <1>3, <1>5, <2>1, <2>2 DEF Token!Next
<1>6. ASSUME NEW q \in Requests, NEW t \in Tokens, NEW o \in {"ok", "error"}, SelectUser(q, t, o)
      PROVE  UNCHANGED Token!vars
  BY <1>6 DEF SelectUser, redis
<1>7. ASSUME NEW q \in Requests, NEW o \in Outcomes, Check(q, o) \/ Revoke(q, o)
      PROVE  UNCHANGED Token!vars
  BY <1>7 DEF Check, Revoke, redis
<1>8. ASSUME NEW q \in Requests, ReceiveCookies(q) \/ ClearCookies(q) \/ LoseAnswer(q)
      PROVE  UNCHANGED Token!vars
  BY <1>8 DEF ReceiveCookies, ClearCookies, LoseAnswer, redis
<1>9. ASSUME NEW q \in Requests, Arrive(q)
      PROVE  UNCHANGED Token!vars
  BY <1>9 DEF Arrive, SignIn, Refresh, Logout, redis
<1>10. CASE Die \/ Tick \/ DropAccessCookie \/ UNCHANGED vars
  BY <1>10 DEF Die, Tick, DropAccessCookie, vars, redis
<1> HIDE DEF Token!vars, Token!Issue, Token!Redeem, Token!Lapse
<1> QED
  BY <1>4, <1>5, <1>6, <1>7, <1>8, <1>9, <1>10 DEF Next, Serve, Token!Next, Outcomes

\* Each refresh token is stored once and exchanged at most once: the sessions
\* implement OneTimeToken.
THEOREM RefreshTokensAreOneTime == Spec => RefreshIsOneTime
<1>1. Init => Token!Init
  BY DEF Init, Token!Init
<1>2. Spec => Token!Init /\ [][Token!Next]_(Token!vars)
  BY <1>1, InitTyped, StepTyped, InitChain, StepChain, StepSimulation, PTL DEF Spec
<1> QED BY <1>2 DEF RefreshIsOneTime, Token!Spec

\* No refresh token is exchanged for two pairs: the GETDEL of user_routes.py:299
\* takes it, and it is never stored again.
THEOREM NoRefreshTokenServesTwo == Spec => []Token!RedeemedOnce
<1> DEFINE IInv ==
        /\ issued \subseteq Tokens /\ live \subseteq issued /\ uses \in [Tokens -> Nat]
        /\ \A t \in Tokens : uses[t] <= 1 /\ (t \in live \/ t \notin issued => uses[t] = 0)
<1>1. Token!Init => IInv
  BY DEF Token!Init
<1>2. IInv /\ [Token!Next]_(Token!vars) => IInv'
  <2> SUFFICES ASSUME IInv, [Token!Next]_(Token!vars)
               PROVE  IInv'
    OBVIOUS
  <2>1. ASSUME NEW t \in Tokens, Token!Issue(t) \/ Token!Redeem(t) \/ Token!Lapse(t)
        PROVE  IInv'
    BY <2>1 DEF Token!Issue, Token!Redeem, Token!Lapse
  <2>2. CASE UNCHANGED Token!vars
    BY <2>2 DEF Token!vars
  <2> QED BY <2>1, <2>2 DEF Token!Next
<1>3. IInv => Token!RedeemedOnce
  BY DEF Token!RedeemedOnce
<1>4. Token!Spec => []Token!RedeemedOnce
  BY <1>1, <1>2, <1>3, PTL DEF Token!Spec
<1> QED BY <1>4, RefreshTokensAreOneTime DEF RefreshIsOneTime

-----------------------------------------------------------------------------
(* The revocation list.                                                     *)

\* The TTL of a revocation ends half a second short of "exp" at the worst.
LongEnough == \A r \in revoked : r.until >= 2 * r.jwt.exp - 1

LEMMA StepLongEnough ==
    ASSUME Typed, LongEnough, [Next]_vars
    PROVE  LongEnough'
<1>1. ASSUME NEW q \in Requests, NEW o \in Outcomes, Revoke(q, o)
      PROVE  LongEnough'
  <2> DEFINE j == access[q]
             remaining == (2 * j.exp - now) \div 2
             r == [jwt |-> j, until |-> now + 2 * remaining]
  <2>1. j.exp \in Nat /\ now \in Nat
    BY <1>1, HeldFacts, TypedFacts DEF Revoke, TypeOK
  <2>2. now + 2 * remaining >= 2 * j.exp - 1
    BY <2>1
  <2>3. revoked' = revoked \/ revoked' = revoked \union {r}
    BY <1>1 DEF Revoke
  <2>4. r.until >= 2 * r.jwt.exp - 1
    BY <2>2
  <2> QED BY <2>3, <2>4 DEF LongEnough
<1>2. CASE UNCHANGED revoked
  BY <1>2 DEF LongEnough
<1>3. (\E q \in Requests, o \in Outcomes : Revoke(q, o)) \/ UNCHANGED revoked
  BY DEF Next, Arrive, Serve, SignIn, Refresh, Logout, Take, SelectUser, Store, ReceiveCookies, Check,
     Delete, ClearCookies, LoseAnswer, Die, Tick, DropAccessCookie, Lapse, vars, redis, Outcomes
<1> QED BY <1>1, <1>2, <1>3

\* A revoked JWT stays refused until the last second before its "exp", however long
\* it had left (int() of logout, _decode_token_subject).
THEOREM RevocationsLast == Spec => []RevokedUntilTheLastSecond
<1>1. Init => LongEnough
  BY DEF Init, LongEnough
<1>2. Typed /\ LongEnough => RevokedUntilTheLastSecond
  <2> SUFFICES ASSUME Typed, LongEnough, NEW r \in revoked, Accepted(r.jwt)
               PROVE  now > 2 * r.jwt.exp - 2
    BY DEF RevokedUntilTheLastSecond
  <2>1. r.until \in Nat /\ r.jwt.exp \in Nat /\ now \in Nat
    BY TypedFacts DEF TypeOK, Jwts
  <2>2. now >= r.until
    BY <2>1 DEF Accepted, Revoked
  <2> QED BY <2>1, <2>2 DEF LongEnough
<1> QED BY <1>1, <1>2, InitTyped, StepTyped, StepLongEnough, PTL DEF Spec

-----------------------------------------------------------------------------
(* The browser's cookie.                                                    *)

\* A pair on its way to the browser can be exchanged when it gets there.
Deliverable ==
    \A q \in Requests :
        pc[q] = "cookies" /\ family[new[q].jti] \notin broken => new[q].jti \in live

Current == BrowserIsCurrent /\ Deliverable

\* A step after which every sign-in that is not broken has its token or its
\* exchange still, and the browser its cookie, or none.
Keeping ==
    /\ jar' \in {jar, None}
    /\ broken \subseteq broken'
    /\ \A t \in Tokens : Made(t) => family'[t] = family[t]
    /\ \A t \in live : family[t] \notin broken' =>
          t \in live' \/ \E q \in Requests : Refreshing(q, family[t])'
    /\ \A q \in Requests, f \in Tokens : Refreshing(q, f) /\ f \notin broken' => Refreshing(q, f)'

LEMMA KeepsBrowser ==
    ASSUME Typed, BrowserIsCurrent, Keeping
    PROVE  BrowserIsCurrent'
<1> SUFFICES ASSUME jar' # None, family'[jar'] \notin broken'
             PROVE  jar' \in live' \/ \E q \in Requests : Refreshing(q, family[jar])'
  BY DEF BrowserIsCurrent
<1>1. jar' = jar /\ jar \in Tokens /\ family'[jar] = family[jar] /\ family[jar] \in Tokens
      /\ family[jar] \notin broken'
  BY TypedFacts DEF Keeping, Held, TypeOK
<1>2. jar \in live \/ \E q \in Requests : Refreshing(q, family[jar])
  BY <1>1 DEF Keeping, BrowserIsCurrent
<1>3. (family[jar])' = family[jar]
  BY <1>1
<1>4. ASSUME NEW q \in Requests, Refreshing(q, family[jar])
      PROVE  Refreshing(q, family[jar])'
  <2>1. \A f \in Tokens : f = family[jar] => (Refreshing(q, f)' <=> Refreshing(q, family[jar])')
    BY <1>3 DEF Refreshing, Rotating
  <2>2. PICK f \in Tokens : f = family[jar]
    BY <1>1
  <2> QED BY <1>1, <1>4, <2>1, <2>2 DEF Keeping
<1>5. ASSUME jar \in live
      PROVE  jar' \in live' \/ \E q \in Requests : Refreshing(q, family[jar])'
  BY <1>1, <1>3, <1>5 DEF Keeping, Refreshing, Rotating
<1> QED BY <1>2, <1>4, <1>5

\* What q does leaves the other requests' exchanges alone.
LEMMA OthersRefresh ==
    ASSUME Typed, NEW q \in Requests,
           \A t \in Tokens : Made(t) => family'[t] = family[t],
           \A p \in Requests : p # q => pc'[p] = pc[p] /\ new'[p] = new[p] /\ sent'[p] = sent[p]
    PROVE  \A p \in Requests, f \in Tokens : p # q => (Refreshing(p, f)' <=> Refreshing(p, f))
<1> SUFFICES ASSUME NEW p \in Requests, NEW f \in Tokens, p # q
             PROVE  Refreshing(p, f)' <=> Refreshing(p, f)
  OBVIOUS
<1>1. pc[p] = "select" => family'[sent[p]] = family[sent[p]]
  BY HeldFacts
<1>2. pc[p] \in {"store", "cookies"} => family'[new[p].jti] = family[new[p].jti]
  BY HeldFacts
<1> QED BY <1>1, <1>2 DEF Refreshing, Rotating

LEMMA OneChanges ==
    ASSUME Typed, NEW q \in Requests,
           \/ End(q)
           \/ \E p \in Pcs : Goto(q, p)
           \/ \E t \in Tokens, f \in Tokens : MakePair(q, t, f)
           \/ \E p \in Pcs, t \in Tokens \union {None}, a \in Jwts \union {None} : Begin(q, t, a, p)
    PROVE  \A p \in Requests : p # q => pc'[p] = pc[p] /\ new'[p] = new[p] /\ sent'[p] = sent[p]
BY TypedFacts DEF RequestTypes, End, Goto, MakePair, Begin

\* Every step keeps what is not broken, but for the answer with the next pair.
LEMMA StepKeeps ==
    ASSUME Typed, Chain, [Next]_vars, \A q \in Requests : ~ ReceiveCookies(q)
    PROVE  Keeping
<1>1. ASSUME UNCHANGED <<live, family, broken>>, jar' \in {jar, None}, NEW q \in Requests,
             pc[q] \notin {"select", "store", "cookies"},
             \A p \in Requests : p # q => pc'[p] = pc[p] /\ new'[p] = new[p] /\ sent'[p] = sent[p]
      PROVE  Keeping
  <2>1. \A p \in Requests, f \in Tokens : p # q => (Refreshing(p, f)' <=> Refreshing(p, f))
    BY <1>1, OthersRefresh
  <2>2. \A f \in Tokens : ~ Refreshing(q, f)
    BY <1>1 DEF Refreshing, Rotating
  <2> QED BY <1>1, <2>1, <2>2 DEF Keeping
<1>2. ASSUME NEW q \in Requests, NEW t \in Tokens, SignIn(q, t)
      PROVE  Keeping
  <2>1. \A p \in Requests : p # q => pc'[p] = pc[p] /\ new'[p] = new[p] /\ sent'[p] = sent[p]
    BY <1>2, OneChanges DEF SignIn
  <2>2. \A u \in Tokens : Made(u) => family'[u] = family[u]
    BY <1>2, MakesPair DEF SignIn, MakePair
  <2>3. \A p \in Requests, f \in Tokens : p # q => (Refreshing(p, f)' <=> Refreshing(p, f))
    BY <2>1, <2>2, OthersRefresh
  <2>4. \A f \in Tokens : ~ Refreshing(q, f)
    BY <1>2 DEF SignIn, Idle, Refreshing, Rotating
  <2> QED BY <1>2, <2>2, <2>3, <2>4 DEF SignIn, redis, browser, history, Keeping
<1>3. ASSUME NEW q \in Requests, Refresh(q) \/ Logout(q)
      PROVE  Keeping
  <2>1. \A p \in Requests : p # q => pc'[p] = pc[p] /\ new'[p] = new[p] /\ sent'[p] = sent[p]
    BY <1>3, OneChanges, TypedFacts DEF Refresh, Logout, TypeOK, Pcs
  <2> QED BY <1>1, <1>3, <2>1 DEF Refresh, Logout, Begin, Idle, redis, browser, history
<1>4. ASSUME NEW q \in Requests, NEW o \in Outcomes, Take(q, o)
      PROVE  Keeping
  <2>1. /\ \A p \in Requests : p # q => pc'[p] = pc[p] /\ new'[p] = new[p] /\ sent'[p] = sent[p]
        /\ UNCHANGED family /\ jar' = jar
    BY <1>4, OneChanges DEF Take, Pcs, browser
  <2>2. \A p \in Requests, f \in Tokens : p # q => (Refreshing(p, f)' <=> Refreshing(p, f))
    BY <2>1, OthersRefresh
  <2>3. \A f \in Tokens : ~ Refreshing(q, f)
    BY <1>4 DEF Take, Refreshing, Rotating
  <2>4. ASSUME NEW t \in live, family[t] \notin broken'
        PROVE  t \in live' \/ \E p \in Requests : Refreshing(p, family[t])'
    <3>1. CASE t # sent[q] \/ o = "error"
      BY <1>4, <3>1 DEF Take
    <3>2. CASE t = sent[q] /\ o = "ok"
      BY <1>4, <2>1, <3>2, TypedFacts DEF Take, Goto, RequestTypes, Refreshing, Rotating
    <3>3. CASE t = sent[q] /\ o = "late"
      BY <1>4, <2>4, <3>3 DEF Take, Break
    <3> QED BY <3>1, <3>2, <3>3 DEF Outcomes
  <2> QED BY <1>4, <2>1, <2>2, <2>3, <2>4 DEF Take, Break, Keeping
<1>5. ASSUME NEW q \in Requests, NEW t \in Tokens, NEW o \in {"ok", "error"}, SelectUser(q, t, o)
      PROVE  Keeping
  <2> DEFINE f == family[sent[q]]
  <2>1. pc[q] = "select" /\ f \in Tokens /\ \A g \in Tokens : Refreshing(q, g) => g = f
    BY <1>5, HeldFacts DEF SelectUser, Refreshing, Rotating
  <2>2. CASE o = "ok"
    <3>1. MakePair(q, t, f) /\ UNCHANGED <<live, jar, broken>>
      BY <1>5, <2>2 DEF SelectUser, Break, redis, browser
    <3>2. \A p \in Requests : p # q => pc'[p] = pc[p] /\ new'[p] = new[p] /\ sent'[p] = sent[p]
      BY <2>1, <3>1, OneChanges
    <3>3. (\A u \in Tokens : Made(u) => family'[u] = family[u]) /\ family'[new'[q].jti] = f /\ pc'[q] = "store"
      BY <2>1, <3>1, MakesPair, TypedFacts DEF MakePair, RequestTypes
    <3>4. \A p \in Requests, g \in Tokens : p # q => (Refreshing(p, g)' <=> Refreshing(p, g))
      BY <3>2, <3>3, OthersRefresh
    <3>5. \A g \in Tokens : g = f => Refreshing(q, g)'
      BY <3>3 DEF Refreshing, Rotating
    <3> HIDE DEF f
    <3> QED BY <2>1, <3>1, <3>3, <3>4, <3>5 DEF Keeping
  <2>3. CASE o = "error"
    <3>1. End(q) /\ UNCHANGED <<live, jar, family>> /\ broken' = broken \union {f}
      BY <1>5, <2>3 DEF SelectUser, Break, redis, browser
    <3>2. \A p \in Requests : p # q => pc'[p] = pc[p] /\ new'[p] = new[p] /\ sent'[p] = sent[p]
      BY <3>1, OneChanges
    <3>3. \A p \in Requests, g \in Tokens : p # q => (Refreshing(p, g)' <=> Refreshing(p, g))
      BY <3>1, <3>2, OthersRefresh
    <3> HIDE DEF f
    <3> QED BY <2>1, <3>1, <3>3 DEF Keeping
  <2> QED BY <2>2, <2>3
<1>6. ASSUME NEW q \in Requests, NEW o \in Outcomes, Store(q, o)
      PROVE  Keeping
  <2> DEFINE f == family[new[q].jti]
  <2>1. /\ pc[q] = "store" /\ f \in Tokens /\ live \subseteq live' /\ UNCHANGED <<family, jar>>
        /\ \A g \in Tokens : Refreshing(q, g) => g = f
    BY <1>6, HeldFacts DEF Store, browser, Refreshing, Rotating
  <2>2. \A p \in Requests : p # q => pc'[p] = pc[p] /\ new'[p] = new[p] /\ sent'[p] = sent[p]
    BY <1>6, OneChanges DEF Store, Pcs
  <2>3. \A p \in Requests, g \in Tokens : p # q => (Refreshing(p, g)' <=> Refreshing(p, g))
    BY <2>1, <2>2, OthersRefresh
  <2>4. f \in broken' \/ \A g \in Tokens : g = f => Refreshing(q, g)'
    BY <1>6, <2>1, TypedFacts DEF Store, Break, Goto, RequestTypes, Refreshing
  <2>5. broken \subseteq broken'
    BY <1>6 DEF Store, Break
  <2> HIDE DEF f
  <2> QED BY <2>1, <2>3, <2>4, <2>5 DEF Keeping
<1>7. ASSUME NEW q \in Requests, NEW o \in Outcomes, Check(q, o) \/ Revoke(q, o)
      PROVE  Keeping
  <2>1. \A p \in Requests : p # q => pc'[p] = pc[p] /\ new'[p] = new[p] /\ sent'[p] = sent[p]
    BY <1>7, OneChanges DEF Check, Revoke, Pcs
  <2> QED BY <1>1, <1>7, <2>1 DEF Check, Revoke, redis, browser, history
<1>8. ASSUME NEW q \in Requests, NEW o \in Outcomes, Delete(q, o)
      PROVE  Keeping
  <2>1. \A p \in Requests : p # q => pc'[p] = pc[p] /\ new'[p] = new[p] /\ sent'[p] = sent[p]
    BY <1>8, OneChanges DEF Delete, Pcs
  <2>2. \A p \in Requests, f \in Tokens : p # q => (Refreshing(p, f)' <=> Refreshing(p, f))
    BY <1>8, <2>1, OthersRefresh DEF Delete
  <2>3. \A f \in Tokens : ~ Refreshing(q, f)
    BY <1>8 DEF Delete, Refreshing, Rotating
  <2>4. \A t \in live : family[t] \notin broken' => t \in live'
    BY <1>8 DEF Delete, Break
  <2> QED BY <1>8, <2>2, <2>3, <2>4 DEF Delete, Break, browser, Keeping
<1>9. ASSUME NEW q \in Requests, ClearCookies(q)
      PROVE  Keeping
  <2>1. \A p \in Requests : p # q => pc'[p] = pc[p] /\ new'[p] = new[p] /\ sent'[p] = sent[p]
    BY <1>9, OneChanges DEF ClearCookies
  <2> QED BY <1>1, <1>9, <2>1 DEF ClearCookies, redis, history
<1>10. ASSUME NEW q \in Requests, LoseAnswer(q)
       PROVE  Keeping
  <2>1. \A p \in Requests : p # q => pc'[p] = pc[p] /\ new'[p] = new[p] /\ sent'[p] = sent[p]
    BY <1>10, OneChanges DEF LoseAnswer
  <2>2. \A p \in Requests, f \in Tokens : p # q => (Refreshing(p, f)' <=> Refreshing(p, f))
    BY <1>10, <2>1, OthersRefresh DEF LoseAnswer
  <2>3. \A f \in Tokens : Refreshing(q, f) => f \in broken'
    BY <1>10 DEF LoseAnswer, Break, Refreshing, Rotating
  <2> QED BY <1>10, <2>2, <2>3 DEF LoseAnswer, Break, redis, browser, Keeping
<1>11. CASE Die
  BY <1>11 DEF Die, redis, browser, Keeping
<1>12. CASE Tick \/ DropAccessCookie \/ UNCHANGED vars
  BY <1>12 DEF Tick, DropAccessCookie, vars, redis, browser, request, history, Keeping, Refreshing, Rotating
<1>13. ASSUME NEW t \in Tokens, Lapse(t)
       PROVE  Keeping
  BY <1>13 DEF Lapse, Break, browser, request, Keeping, Refreshing, Rotating
<1> QED
  BY <1>2, <1>3, <1>4, <1>5, <1>6, <1>7, <1>8, <1>9, <1>10, <1>11, <1>12, <1>13
  DEF Next, Arrive, Serve, Outcomes

\* What a step does to a pair that is on its way to the browser, and to its token.
LEMMA StepDeliverable ==
    ASSUME Typed, Chain, Deliverable, [Next]_vars
    PROVE  Deliverable'
<1> SUFFICES ASSUME NEW r \in Requests, pc'[r] = "cookies", family'[new'[r].jti] \notin broken'
             PROVE  new'[r].jti \in live'
  BY DEF Deliverable
<1>1. ASSUME pc[r] = "cookies", new'[r] = new[r], family'[new[r].jti] = family[new[r].jti],
             broken \subseteq broken',
             \A t \in live : family[t] \notin broken' => t \in live' \/ \A p \in Requests : t # new[p].jti \/ ~ Bears(p)
      PROVE  new'[r].jti \in live'
  BY <1>1 DEF Deliverable, Bears
<1>2. ASSUME NEW q \in Requests, NEW o \in Outcomes, Store(q, o)
      PROVE  new'[r].jti \in live'
  <2>1. \A p \in Requests : p # q => pc'[p] = pc[p] /\ new'[p] = new[p]
    BY <1>2, OneChanges DEF Store, Pcs
  <2>2. CASE r = q
    BY <1>2, <2>2, TypedFacts DEF Store, Goto, End, RequestTypes
  <2>3. CASE r # q
    BY <1>1, <1>2, <2>1, <2>3 DEF Store, Break
  <2> QED BY <2>2, <2>3
<1>3. ASSUME NEW q \in Requests, NEW t \in Tokens, NEW f \in Tokens, MakePair(q, t, f),
             UNCHANGED live, broken \subseteq broken'
      PROVE  new'[r].jti \in live'
  <2>1. \A p \in Requests : p # q => pc'[p] = pc[p] /\ new'[p] = new[p]
    BY <1>3, OneChanges
  <2>2. pc'[q] = "store"
    BY <1>3, TypedFacts DEF MakePair, RequestTypes
  <2>3. family'[new[r].jti] = family[new[r].jti]
    BY <1>3, <2>1, <2>2, HeldFacts, MakesPair DEF MakePair
  <2> QED BY <1>1, <1>3, <2>1, <2>2, <2>3
<1>4. ASSUME NEW q \in Requests, NEW t \in Tokens, SignIn(q, t)
      PROVE  new'[r].jti \in live'
  BY <1>3, <1>4 DEF SignIn, redis, history
<1>5. ASSUME NEW q \in Requests, NEW t \in Tokens, NEW o \in {"ok", "error"}, SelectUser(q, t, o)
      PROVE  new'[r].jti \in live'
  <2>1. CASE o = "ok"
    BY <1>3, <1>5, <2>1, HeldFacts DEF SelectUser, Break, redis
  <2>2. CASE o = "error"
    BY <1>1, <1>5, <2>2, LosingSteps DEF SelectUser, Break, redis, Losing
  <2> QED BY <2>1, <2>2
<1>6. ASSUME NEW q \in Requests, NEW o \in Outcomes, Take(q, o) \/ Delete(q, o)
      PROVE  new'[r].jti \in live'
  <2>1. \A p \in Requests : p # q => pc'[p] = pc[p] /\ new'[p] = new[p]
    BY <1>6, OneChanges DEF Take, Delete, Pcs
  <2>2. pc'[q] # "cookies"
    BY <1>6, TypedFacts DEF Take, Delete, Goto, End, RequestTypes
  <2>3. \A p \in Requests : Bears(p) => new[p].jti # sent[q]
    BY DEF Chain, Unseen
  <2> QED BY <1>1, <1>6, <2>1, <2>2, <2>3 DEF Take, Delete, Break
<1>7. ASSUME NEW q \in Requests, ReceiveCookies(q)
      PROVE  new'[r].jti \in live'
  <2>1. pc'[q] = "idle" /\ \A p \in Requests : p # q => pc'[p] = pc[p] /\ new'[p] = new[p]
    BY <1>7, TypedFacts DEF ReceiveCookies, End, RequestTypes
  <2> QED BY <1>1, <1>7, <2>1 DEF ReceiveCookies, redis, history
<1>8. ASSUME Losing, UNCHANGED <<live, family>>, broken \subseteq broken'
      PROVE  new'[r].jti \in live'
  BY <1>1, <1>8 DEF Losing
<1>9. ASSUME NEW q \in Requests, NEW o \in Outcomes,
             Refresh(q) \/ Logout(q) \/ ClearCookies(q) \/ LoseAnswer(q) \/ Check(q, o) \/ Revoke(q, o)
      PROVE  new'[r].jti \in live'
  <2>1. UNCHANGED <<live, family>> /\ broken \subseteq broken'
    BY <1>9 DEF Refresh, Logout, ClearCookies, LoseAnswer, Check, Revoke, Break, redis, history
  <2> QED BY <1>8, <1>9, <2>1, LosingSteps
<1>10. CASE Die \/ Tick \/ DropAccessCookie \/ UNCHANGED vars
  <2>1. UNCHANGED <<live, family>> /\ broken \subseteq broken'
    BY <1>10 DEF Die, Tick, DropAccessCookie, vars, redis, history
  <2> QED BY <1>8, <1>10, <2>1, LosingOthers
<1>11. ASSUME NEW t \in Tokens, Lapse(t)
       PROVE  new'[r].jti \in live'
  BY <1>1, <1>11 DEF Lapse, Break, browser, request
<1> QED
  BY <1>2, <1>4, <1>5, <1>6, <1>7, <1>9, <1>10, <1>11 DEF Next, Arrive, Serve, Outcomes

LEMMA StepCurrent ==
    ASSUME Typed, Chain, Current, [Next]_vars
    PROVE  Current'
<1>1. Deliverable'
  BY StepDeliverable DEF Current
<1>2. ASSUME NEW q \in Requests, ReceiveCookies(q)
      PROVE  BrowserIsCurrent'
  BY <1>2 DEF ReceiveCookies, redis, history, Current, Deliverable, BrowserIsCurrent
<1>3. CASE \A q \in Requests : ~ ReceiveCookies(q)
  <2>1. Keeping
    BY <1>3, StepKeeps
  <2> QED BY <1>1, <2>1, KeepsBrowser DEF Current
<1> QED BY <1>1, <1>2, <1>3 DEF Current

\* The browser's refresh token is the one that can be exchanged, or is being
\* exchanged: tabs that refresh at once cannot sign the browser out.
THEOREM BrowserStaysCurrent == Spec => []BrowserIsCurrent
<1>1. Init => Current
  BY DEF Init, Current, BrowserIsCurrent, Deliverable
<1>2. Current => BrowserIsCurrent
  BY DEF Current
<1> QED BY <1>1, <1>2, InitTyped, StepTyped, InitChain, StepChain, StepCurrent, PTL DEF Spec

-----------------------------------------------------------------------------
(* Sign-out.                                                                *)

\* Nothing the browser or a request holds continues a sign-in that was signed out
\* of, and no exchange of it is under way.
Gone ==
    \A f \in out :
        /\ \A t \in live : family[t] = f => t # jar /\ \A q \in Requests : sent[q] # t
        /\ \A q \in Requests : ~ Refreshing(q, f)

LEMMA GoneMeansOut == Typed /\ Gone => SignedOutStaysOut
BY TypedFacts DEF Gone, SignedOutStaysOut

LEMMA StepGone ==
    ASSUME Typed, Chain, Gone, [Next]_vars
    PROVE  Gone'
<1>1. /\ None \notin Tokens /\ out \subseteq Tokens /\ live \subseteq Tokens
      /\ \A t \in live : Made(t)
      /\ \A f \in out : Made(f)
  BY TypedFacts DEF TypeOK, Held
<1>2. ASSUME Losing, out' = out
      PROVE  Gone'
  <2>1. \A t \in live' : t \in live /\ t # None /\ family'[t] = family[t]
    BY <1>1, <1>2 DEF Losing
  <2>2. \A q \in Requests, f \in out : ~ Refreshing(q, f)'
    BY <1>1, <1>2, LosingRotations DEF Gone
  <2>3. \A f \in out, t \in live', q \in Requests : family[t] = f => t # jar' /\ sent'[q] # t
    BY <1>2, <2>1 DEF Losing, Gone
  <2> QED BY <1>2, <2>1, <2>2, <2>3 DEF Gone, Losing
<1>3. ASSUME NEW q \in Requests, NEW t \in Tokens, NEW f \in Tokens, MakePair(q, t, f), f \notin out,
             UNCHANGED <<live, jar, out>>
      PROVE  Gone'
  <2>1. /\ \A p \in Requests : p # q => pc'[p] = pc[p] /\ new'[p] = new[p] /\ sent'[p] = sent[p]
        /\ \A u \in Tokens : Made(u) => family'[u] = family[u]
        /\ pc'[q] = "store" /\ new'[q].jti = t /\ family'[t] = f /\ sent' = sent
    BY <1>3, OneChanges, MakesPair, TypedFacts DEF MakePair, RequestTypes
  <2>2. \A p \in Requests, g \in Tokens : p # q => (Refreshing(p, g)' <=> Refreshing(p, g))
    BY <2>1, OthersRefresh
  <2>3. \A g \in Tokens : g # f => ~ Refreshing(q, g)'
    BY <2>1 DEF Refreshing, Rotating
  <2> QED BY <1>1, <1>3, <2>1, <2>2, <2>3 DEF Gone
<1>4. ASSUME NEW q \in Requests, NEW t \in Tokens, SignIn(q, t)
      PROVE  Gone'
  BY <1>1, <1>3, <1>4 DEF SignIn, MakePair, redis, browser, history
<1>5. ASSUME NEW q \in Requests, NEW t \in Tokens, NEW o \in {"ok", "error"}, SelectUser(q, t, o)
      PROVE  Gone'
  <2>1. CASE o = "ok"
    <3>1. family[sent[q]] \in Tokens /\ Refreshing(q, family[sent[q]])
      BY <1>5, HeldFacts DEF SelectUser, Refreshing, Rotating
    <3>2. family[sent[q]] \notin out
      BY <3>1 DEF Gone
    <3> QED BY <1>3, <1>5, <2>1, <3>1, <3>2 DEF SelectUser, redis, browser
  <2>2. CASE o = "error"
    BY <1>2, <1>5, <2>2, LosingSteps DEF SelectUser
  <2> QED BY <2>1, <2>2
<1>6. ASSUME NEW q \in Requests, NEW o \in Outcomes, Take(q, o)
      PROVE  Gone'
  <2>1. CASE ~ (o = "ok" /\ sent[q] \in live)
    BY <1>2, <1>6, <2>1, LosingSteps DEF Take
  <2>2. CASE o = "ok" /\ sent[q] \in live
    <3>1. /\ UNCHANGED <<family, jar, sent, new, out>> /\ live' \subseteq live
          /\ family[sent[q]] \notin out /\ pc'[q] = "select"
          /\ \A p \in Requests : p # q => pc'[p] = pc[p] /\ new'[p] = new[p] /\ sent'[p] = sent[p]
      BY <1>6, <2>2, TypedFacts DEF Take, Goto, browser, RequestTypes, Gone
    <3>2. \A p \in Requests, g \in Tokens : p # q => (Refreshing(p, g)' <=> Refreshing(p, g))
      BY <3>1, OthersRefresh
    <3>3. \A g \in Tokens : g # family[sent[q]] => ~ Refreshing(q, g)'
      BY <3>1 DEF Refreshing, Rotating
    <3> QED BY <1>1, <3>1, <3>2, <3>3 DEF Gone
  <2> QED BY <2>1, <2>2
<1>7. ASSUME NEW q \in Requests, NEW o \in Outcomes, Store(q, o)
      PROVE  Gone'
  <2>1. CASE o = "error"
    BY <1>2, <1>7, <2>1, LosingSteps DEF Store
  <2>2. CASE o # "error"
    <3>1. /\ UNCHANGED <<family, jar, out>> /\ live' = live \union {new[q].jti}
          /\ pc[q] = "store" /\ Bears(q) /\ new[q].jti \in Tokens /\ family[new[q].jti] \in Tokens
          /\ \A p \in Requests : p # q => pc'[p] = pc[p] /\ new'[p] = new[p] /\ sent'[p] = sent[p]
          /\ \A p \in Requests : sent'[p] \in {sent[p], None}
          /\ pc'[q] = "idle" \/ (pc'[q] = "cookies" /\ new'[q] = new[q])
      BY <1>7, <2>2, HeldFacts, OneChanges, TypedFacts
      DEF Store, Goto, End, browser, RequestTypes, Bears, Pcs
    <3>2. \A p \in Requests, g \in Tokens : p # q => (Refreshing(p, g)' <=> Refreshing(p, g))
      BY <3>1, OthersRefresh
    <3>3. family[new[q].jti] \notin out
      BY <3>1 DEF Gone, Refreshing, Rotating
    <3>4. \A g \in Tokens : g # family[new[q].jti] => ~ Refreshing(q, g)'
      BY <3>1 DEF Refreshing, Rotating
    <3> QED BY <1>1, <3>1, <3>2, <3>3, <3>4 DEF Gone
  <2> QED BY <2>1, <2>2
<1>8. ASSUME NEW q \in Requests, ReceiveCookies(q)
      PROVE  Gone'
  <2>1. /\ UNCHANGED <<family, live, out>> /\ jar' = new[q].jti /\ pc'[q] = "idle"
        /\ new[q].jti \in Tokens /\ family[new[q].jti] \in Tokens /\ pc[q] = "cookies"
        /\ \A p \in Requests : p # q => pc'[p] = pc[p] /\ new'[p] = new[p] /\ sent'[p] = sent[p]
        /\ \A p \in Requests : sent'[p] \in {sent[p], None}
    BY <1>8, HeldFacts, TypedFacts DEF ReceiveCookies, End, redis, history, RequestTypes
  <2>2. \A p \in Requests, g \in Tokens : p # q => (Refreshing(p, g)' <=> Refreshing(p, g))
    BY <2>1, OthersRefresh
  <2>3. family[new[q].jti] \notin out
    BY <2>1 DEF Gone, Refreshing
  <2>4. \A g \in Tokens : ~ Refreshing(q, g)'
    BY <2>1 DEF Refreshing, Rotating
  <2> QED BY <1>1, <2>1, <2>2, <2>3, <2>4 DEF Gone
<1>9. ASSUME NEW q \in Requests, NEW o \in Outcomes, Delete(q, o)
      PROVE  Gone'
  <2> DEFINE f == family[sent[q]]
  <2>1. CASE out' = out
    BY <1>2, <1>9, <2>1, LosingSteps
  <2>2. CASE out' # out
    <3>1. /\ out' = out \union {f} /\ jar = sent[q] /\ (\A p \in Requests : ~ Refreshing(p, f))
          /\ live' = live \ {sent[q]} /\ UNCHANGED <<family, sent, jar, new>>
          /\ sent[q] \in Tokens /\ f \in Tokens
      BY <1>9, <2>2, HeldFacts DEF Delete, Goto, browser
    <3>2. \A p \in Requests, g \in Tokens : Refreshing(p, g)' => Refreshing(p, g)
      BY <1>9, LosingSteps, LosingRotations
    \* A token of the sign-in that a request still has would be the browser's.
    <3>3. \A t \in live' : family[t] = f => t # jar /\ \A p \in Requests : sent[p] # t
      BY <1>1, <3>1 DEF Chain, SentIsLast
    <3> HIDE DEF f
    <3> QED BY <1>1, <3>1, <3>2, <3>3 DEF Gone
  <2> QED BY <2>1, <2>2
<1>10. ASSUME NEW q \in Requests, NEW o \in Outcomes,
              Refresh(q) \/ Logout(q) \/ ClearCookies(q) \/ LoseAnswer(q) \/ Check(q, o) \/ Revoke(q, o)
       PROVE  Gone'
  <2>1. out' = out
    BY <1>10 DEF Refresh, Logout, ClearCookies, LoseAnswer, Check, Revoke, history
  <2> QED BY <1>2, <1>10, <2>1, LosingSteps
<1>11. CASE Die \/ Tick \/ DropAccessCookie \/ (\E t \in Tokens : Lapse(t)) \/ UNCHANGED vars
  <2>1. out' = out
    BY <1>11 DEF Die, Tick, DropAccessCookie, Lapse, vars, history
  <2> QED BY <1>2, <1>11, <2>1, LosingOthers
<1> QED
  BY <1>4, <1>5, <1>6, <1>7, <1>8, <1>9, <1>10, <1>11 DEF Next, Arrive, Serve, Outcomes

\* A sign-in that was signed out of, no refresh being under way, cannot be
\* continued with anything the browser or a request still holds (DEL of logout).
THEOREM SignOutsLast == Spec => []SignedOutStaysOut
<1>1. Init => Gone
  BY DEF Init, Gone
<1> QED BY <1>1, GoneMeansOut, InitTyped, StepTyped, InitChain, StepChain, StepGone, PTL DEF Spec
=============================================================================
