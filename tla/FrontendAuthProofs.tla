-------------------------- MODULE FrontendAuthProofs --------------------------
(***************************************************************************)
(* Proofs about FrontendAuth, for any pages, any numbers of checks and     *)
(* sign-outs under way at once, and any bounds: the page that is shown     *)
(* fits what the tab believes, and the tab believes what is so.            *)
(***************************************************************************)
EXTENDS FrontendAuth, TLAPS

CheckStates == {"none", "sent", "yes", "no"}

\* nav is a record, too.
Typed == TypeOK /\ nav \in [to: Pages \union {Blank}, awaits: Checks \union {None}]

\* Unless something odd happened, the only check under way is the awaited one.
Awaited == ~ odd => \A k \in Checks : check[k] # "none" <=> nav.awaits = k

PageFits == ~ odd /\ nav.to = Blank /\ page # Blank => (user <=> page # Login)

\* Without a sign-out across a check there is one check at a time, and the tab
\* holds no belief it has not asked for.
OneCheck ==
    ~ crossed =>
        /\ \A k, l \in UnderWay : k = l
        /\ UnderWay # {} => checked

Cleared == \E j \in Logouts : logout[j] = "answered"

\* An answer under way is still so, or a sign-out is about to clear the refs.
AnswerHolds ==
    ~ crossed /\ ~ shifted =>
        \A k \in Checks : /\ check[k] = "yes" => session \/ Cleared
                          /\ check[k] = "no" => ~ session

\* And so is what the tab believes.
BeliefHolds ==
    ~ crossed /\ ~ shifted /\ checked /\ UnderWay = {} =>
        /\ user => session \/ Cleared
        /\ session => user

Page == Awaited /\ PageFits
Belief == OneCheck /\ AnswerHolds /\ BeliefHolds

LEMMA InitAll == Init => Typed /\ Page /\ Belief
<1> SUFFICES ASSUME Init
             PROVE  Typed /\ Page /\ Belief
  OBVIOUS
<1>1. /\ check = [k \in Checks |-> "none"] /\ logout = [j \in Logouts |-> "none"]
      /\ nav = [to |-> Blank, awaits |-> None] /\ page = Blank
      /\ session \in BOOLEAN /\ ~ user /\ ~ checked /\ ~ odd /\ ~ crossed /\ ~ shifted
      /\ user = FALSE /\ checked = FALSE /\ odd = FALSE /\ crossed = FALSE /\ shifted = FALSE
      /\ clicks = 0 /\ faults = 0 /\ shifts = 0
  BY DEF Init, NoNav, Idle, Staying
<1>2. Typed
  <2>1. {session, user, checked, odd, crossed, shifted} \subseteq BOOLEAN
    BY <1>1
  <2>2. nav \in [to: Pages \union {Blank}, awaits: Checks \union {None}] /\ nav.awaits = None
    BY <1>1
  <2>3. /\ check \in [Checks -> {"none", "sent", "yes", "no"}]
        /\ logout \in [Logouts -> {"none", "sent", "answered", "stray"}]
    BY <1>1
  <2>4. clicks \in 0 .. MaxClicks /\ faults \in 0 .. MaxFaults /\ shifts \in 0 .. MaxShifts
    BY <1>1, BoundAssumption
  <2> QED BY <1>1, <2>1, <2>2, <2>3, <2>4 DEF Typed, TypeOK
<1>3. Page
  BY <1>1, CheckAssumption DEF Page, Awaited, PageFits
<1>4. Belief
  BY <1>1 DEF Belief, OneCheck, AnswerHolds, BeliefHolds, UnderWay
<1> QED BY <1>2, <1>3, <1>4

-----------------------------------------------------------------------------
(* Navigations.                                                             *)

\* What router.push leaves: a navigation that goes on, one that awaits a new
\* check, or none.
LEMMA PushCases ==
    ASSUME NEW to, NEW from, NEW known, NEW busy, Push(to, from, known, busy)
    PROVE  \/ known /\ nav' = [to |-> to, awaits |-> None] /\ checked' = TRUE /\ check' = busy
           \/ /\ ~ known /\ checked' = TRUE
              /\ \E k \in Checks : /\ busy[k] = "none"
                                   /\ nav' = [to |-> to, awaits |-> k]
                                   /\ check' = [busy EXCEPT ![k] = "sent"]
           \/ /\ from = to /\ nav' = [to |-> Blank, awaits |-> None]
              /\ checked' = known /\ check' = busy
BY DEF Push, Guard, NoNav

LEMMA PushTyped ==
    ASSUME NEW to \in Pages, NEW from, NEW known \in BOOLEAN,
           NEW busy \in [Checks -> CheckStates], Push(to, from, known, busy)
    PROVE  /\ nav' \in [to: Pages \union {Blank}, awaits: Checks \union {None}]
           /\ checked' \in BOOLEAN
           /\ check' \in [Checks -> CheckStates]
           /\ nav'.awaits # None => nav'.to # Blank /\ nav'.awaits \in UnderWay'
<1> USE PageAssumption, CheckAssumption DEF Pages, UnderWay, CheckStates
<1>1. CASE known /\ nav' = [to |-> to, awaits |-> None] /\ checked' = TRUE /\ check' = busy
  BY <1>1
<1>2. ASSUME NEW k \in Checks, checked' = TRUE, nav' = [to |-> to, awaits |-> k],
             check' = [busy EXCEPT ![k] = "sent"]
      PROVE  /\ nav' \in [to: Pages \union {Blank}, awaits: Checks \union {None}]
             /\ checked' \in BOOLEAN
             /\ check' \in [Checks -> CheckStates]
             /\ nav'.to # Blank /\ nav'.awaits \in UnderWay'
  BY <1>2
<1>3. CASE nav' = [to |-> Blank, awaits |-> None] /\ checked' = known /\ check' = busy
  BY <1>3
<1> QED BY <1>1, <1>2, <1>3, PushCases

LEMMA StepTyped == Typed /\ [Next]_vars => Typed'
<1> SUFFICES ASSUME Typed, [Next]_vars
             PROVE  Typed'
  OBVIOUS
<1>0. /\ check \in [Checks -> CheckStates] /\ checked \in BOOLEAN
      /\ Home \in Pages /\ Login \in Pages
      /\ Idle \in [Checks -> CheckStates]
  BY PageAssumption DEF Typed, TypeOK, CheckStates, Pages, Idle
<1>1. ASSUME NEW to \in Pages, Load(to),
             logout' \in {Staying, Abandoned}, session' \in BOOLEAN, clicks' \in 0..MaxClicks, faults' = faults, shifts' = shifts
      PROVE  Typed'
  <2>1. Push(to, Blank, FALSE, Idle)
    BY <1>1 DEF Load
  <2>2. logout' \in [Logouts -> {"none", "sent", "answered", "stray"}]
    BY <1>1 DEF Staying, Abandoned
  <2> QED BY <1>0, <1>1, <2>1, <2>2, PushTyped DEF Load, Typed, TypeOK, CheckStates
<1>2. ASSUME NEW to \in Pages, Click(to)
      PROVE  Typed'
  BY <1>0, <1>2, PushTyped, BoundAssumption DEF Click, Typed, TypeOK, CheckStates
<1>3. ASSUME NEW to \in Pages, Open(to)
      PROVE  Typed'
  BY <1>1, <1>3, BoundAssumption DEF Open, Typed, TypeOK
<1>4. CASE Decide
  <2>1. CASE UNCHANGED <<page, odd>> /\ Push(Login, page, checked, check)
    BY <1>0, <1>4, <2>1, PushTyped DEF Decide, Typed, TypeOK, CheckStates, bounds
  <2>2. CASE UNCHANGED <<page, odd>> /\ Push(Home, page, checked, check)
    BY <1>0, <1>4, <2>2, PushTyped DEF Decide, Typed, TypeOK, CheckStates, bounds
  <2>3. CASE /\ page' = nav.to /\ nav' = NoNav /\ odd' = (UnderWay # {})
             /\ UNCHANGED <<checked, check>>
    BY <1>4, <2>3 DEF Decide, Typed, TypeOK, NoNav, bounds
  <2> QED BY <1>4, <2>1, <2>2, <2>3 DEF Decide
<1>5. ASSUME NEW k \in Checks, Answer(k)
      PROVE  Typed'
  BY <1>5 DEF Answer, refs, router, bounds, Typed, TypeOK, UnderWay
<1>6. ASSUME NEW k \in Checks, Deliver(k)
      PROVE  Typed'
  BY <1>6 DEF Deliver, Resume, history, bounds, Typed, TypeOK, UnderWay
<1>7. ASSUME NEW k \in Checks, FailCheck(k)
      PROVE  Typed'
  <2>1. faults' \in 0 .. MaxFaults /\ user' = FALSE /\ checked' = FALSE
        /\ UNCHANGED <<session, page, logout, history, clicks, shifts>>
    BY <1>7, BoundAssumption DEF FailCheck, Typed, TypeOK
  <2>2. /\ check' \in [Checks -> {"none", "sent", "yes", "no"}]
        /\ nav' \in [to: Pages \union {Blank}, awaits: Checks \union {None}]
        /\ nav'.awaits # None => nav'.to # Blank /\ nav'.awaits \in UnderWay'
    BY <1>7 DEF FailCheck, Resume, Typed, TypeOK, UnderWay
  <2> QED BY <2>1, <2>2 DEF history, Typed, TypeOK
<1>8. ASSUME NEW j \in Logouts, ClickLogout(j)
      PROVE  Typed'
  BY <1>8, BoundAssumption DEF ClickLogout, refs, router, history, Typed, TypeOK, UnderWay
<1>9. ASSUME NEW j \in Logouts, ServeLogout(j)
      PROVE  Typed'
  <2>1. faults' \in 0 .. MaxFaults /\ session' \in BOOLEAN
    <3>1. faults \in 0 .. MaxFaults /\ session \in BOOLEAN
      BY DEF Typed, TypeOK
    <3>2. \/ session' = FALSE /\ faults' = faults
          \/ session' = session /\ faults < MaxFaults /\ faults' = faults + 1
      BY <1>9 DEF ServeLogout
    <3>3. faults' \in 0 .. MaxFaults
      BY <3>1, <3>2, BoundAssumption
    <3>4. session' \in BOOLEAN
      BY <3>1, <3>2
    <3> QED BY <3>3, <3>4
  <2>2. logout' \in [Logouts -> {"none", "sent", "answered", "stray"}]
    BY <1>9 DEF ServeLogout, Typed, TypeOK
  <2>3. UNCHANGED <<refs, router, check, history, clicks, shifts>>
    BY <1>9 DEF ServeLogout
  <2> QED BY <2>1, <2>2, <2>3 DEF refs, router, history, Typed, TypeOK, UnderWay
<1>10. ASSUME NEW j \in Logouts, EndLogout(j)
       PROVE  Typed'
  BY <1>0, <1>10, PushTyped DEF EndLogout, bounds, Typed, TypeOK, CheckStates
<1>11. CASE Unauthorised
  BY <1>0, <1>1, <1>11 DEF Unauthorised, bounds, Typed, TypeOK
<1>12. CASE SignIn
  BY <1>0, <1>1, <1>12, BoundAssumption DEF SignIn, Typed, TypeOK
<1>13. CASE Shift
  BY <1>13, BoundAssumption DEF Shift, refs, router, Typed, TypeOK, UnderWay
<1>14. CASE UNCHANGED vars
  BY <1>14 DEF vars, refs, router, history, bounds, Typed, TypeOK, UnderWay
<1>15. ASSUME NEW j \in Logouts, ServeStray(j)
       PROVE  Typed'
  <2>1. session' \in BOOLEAN /\ shifted' \in BOOLEAN
    BY <1>15 DEF ServeStray, Typed, TypeOK
  <2>2. logout' \in [Logouts -> {"none", "sent", "answered", "stray"}]
    BY <1>15 DEF ServeStray, Typed, TypeOK
  <2>3. UNCHANGED <<refs, router, check, odd, crossed, bounds>>
    BY <1>15 DEF ServeStray
  <2> QED BY <2>1, <2>2, <2>3 DEF refs, router, bounds, Typed, TypeOK, UnderWay
<1> QED
  BY <1>2, <1>3, <1>4, <1>5, <1>6, <1>7, <1>8, <1>9, <1>10, <1>11, <1>12, <1>13, <1>14, <1>15 DEF Next

-----------------------------------------------------------------------------
(* The page that is shown.                                                  *)

\* A navigation that begins with nothing under way.
LEMMA PushPage ==
    ASSUME NEW to \in Pages, NEW from, NEW known \in BOOLEAN, NEW busy \in [Checks -> CheckStates],
           Push(to, from, known, busy), \A k \in Checks : busy[k] = "none"
    PROVE  /\ \A k \in Checks : check'[k] # "none" <=> nav'.awaits = k
           /\ from # to => nav'.to # Blank
           /\ nav'.to = Blank => from = to
<1> USE CheckAssumption, PageAssumption DEF Pages, CheckStates
<1>1. CASE nav' = [to |-> to, awaits |-> None] /\ check' = busy
  BY <1>1
<1>2. ASSUME NEW k \in Checks, nav' = [to |-> to, awaits |-> k],
             check' = [busy EXCEPT ![k] = "sent"]
      PROVE  /\ \A l \in Checks : check'[l] # "none" <=> nav'.awaits = l
             /\ nav'.to # Blank
  BY <1>2
<1>3. CASE from = to /\ nav' = [to |-> Blank, awaits |-> None] /\ check' = busy
  BY <1>3
<1> QED BY <1>1, <1>2, <1>3, PushCases

LEMMA PageStep == Typed /\ Page /\ [Next]_vars => Page'
<1> SUFFICES ASSUME Typed, Page, [Next]_vars
             PROVE  Page'
  OBVIOUS
<1> USE DEF Page, Awaited, PageFits
<1>0. /\ check \in [Checks -> CheckStates] /\ UnderWay = {k \in Checks : check[k] # "none"}
      /\ Home \in Pages /\ Login \in Pages /\ Home # Login /\ Home # Blank /\ Login # Blank
      /\ Idle \in [Checks -> CheckStates] /\ \A k \in Checks : Idle[k] = "none"
      /\ None \notin Checks
      /\ nav \in [to: Pages \union {Blank}, awaits: Checks \union {None}]
      /\ nav.awaits # None => nav.to # Blank
      /\ {user, odd, checked} \subseteq BOOLEAN
  BY PageAssumption, CheckAssumption DEF Typed, TypeOK, CheckStates, Pages, Idle, UnderWay
<1>1. ASSUME NEW to \in Pages, Load(to)
      PROVE  Page'
  <2>1. to # Blank /\ \E known \in BOOLEAN : Push(to, Blank, known, Idle)
    BY <1>1, PageAssumption DEF Load, Pages
  <2>3. PICK known \in BOOLEAN : Push(to, Blank, known, Idle)
    BY <2>1
  <2>2. nav'.to # Blank /\ \A k \in Checks : check'[k] # "none" <=> nav'.awaits = k
    <3>1. Idle \in [Checks -> CheckStates] /\ \A k \in Checks : Idle[k] = "none"
      BY <1>0
    <3> HIDE DEF Page, Awaited, PageFits
    <3> QED BY <2>1, <2>3, <3>1, PushPage
  <2> QED BY <2>2
<1>2. ASSUME NEW to \in Pages, Click(to)
      PROVE  Page'
  <2>1. SUFFICES ASSUME ~ odd'
                 PROVE  Page'
    OBVIOUS
  <2>2. ~ odd /\ nav.to = Blank /\ \A k \in Checks : check[k] = "none"
    <3>1. ~ odd /\ nav = NoNav /\ UnderWay = {}
      BY <1>2, <2>1 DEF Click
    <3> QED BY <1>0, <3>1 DEF NoNav
  <2>3. /\ \A k \in Checks : check'[k] # "none" <=> nav'.awaits = k
        /\ nav'.to = Blank => page = to
    BY <1>0, <1>2, <2>2, PushPage DEF Click
  <2>4. UNCHANGED <<user, page>> /\ page # Blank
    BY <1>2 DEF Click
  <2> QED BY <2>2, <2>3, <2>4
<1>3. CASE Decide
  <2>1. nav.to # Blank /\ nav.awaits = None /\ UNCHANGED user
    BY <1>3 DEF Decide
  <2>2. ~ odd => \A k \in Checks : check[k] = "none"
    BY <1>0, <2>1
  <2>3. CASE ~ user /\ Push(Login, page, checked, check) /\ UNCHANGED <<page, odd>>
    <3>1. ~ odd => /\ \A k \in Checks : check'[k] # "none" <=> nav'.awaits = k
                   /\ nav'.to = Blank => page = Login
      <4>1. Login \in Pages /\ checked \in BOOLEAN /\ check \in [Checks -> CheckStates]
        BY <1>0
      <4> HIDE DEF Page, Awaited, PageFits
      <4> QED BY <2>2, <2>3, <4>1, PushPage
    <3> QED BY <2>1, <2>3, <3>1
  <2>4. CASE user /\ Push(Home, page, checked, check) /\ UNCHANGED <<page, odd>>
    <3>1. ~ odd => /\ \A k \in Checks : check'[k] # "none" <=> nav'.awaits = k
                   /\ nav'.to = Blank => page = Home
      <4>1. Home \in Pages /\ checked \in BOOLEAN /\ check \in [Checks -> CheckStates]
        BY <1>0
      <4> HIDE DEF Page, Awaited, PageFits
      <4> QED BY <2>2, <2>4, <4>1, PushPage
    <3> QED BY <1>0, <2>1, <2>4, <3>1
  <2>5. CASE /\ user <=> nav.to # Login
             /\ page' = nav.to /\ nav' = NoNav /\ odd' = (UnderWay # {})
             /\ UNCHANGED <<checked, check>>
    <3>1. nav'.to = Blank /\ nav'.awaits = None
      BY <2>5 DEF NoNav
    <3>2. ~ odd' => \A k \in Checks : check'[k] = "none"
      BY <1>0, <2>5
    <3> QED BY <1>0, <2>1, <2>5, <3>1, <3>2
  <2> QED BY <1>3, <2>3, <2>4, <2>5 DEF Decide
<1>4. ASSUME NEW k \in Checks, Answer(k)
      PROVE  Page'
  BY <1>0, <1>4 DEF Answer, refs, router
<1>5. ASSUME NEW k \in Checks, Deliver(k) \/ FailCheck(k)
      PROVE  Page'
  <2>1. /\ check[k] # "none" /\ check' = [check EXCEPT ![k] = "none"]
        /\ nav' = [nav EXCEPT !.awaits = IF @ = k THEN None ELSE @]
        /\ UNCHANGED odd
    BY <1>5 DEF Deliver, FailCheck, Resume, history
  <2>2. ~ odd => nav.awaits = k /\ nav'.to = nav.to /\ nav'.awaits = None
    BY <1>0, <2>1
  <2>3. ~ odd => \A l \in Checks : check'[l] = "none"
    BY <1>0, <2>1, <2>2
  <2> QED BY <1>0, <2>1, <2>2, <2>3
<1>6. ASSUME NEW j \in Logouts, ClickLogout(j) \/ ServeLogout(j) \/ ServeStray(j)
      PROVE  Page'
  <2>1. UNCHANGED <<user, page, nav, check, odd>>
    BY <1>6 DEF ClickLogout, ServeLogout, ServeStray, refs, router, history
  <2> QED BY <2>1
<1>7. ASSUME NEW j \in Logouts, EndLogout(j)
      PROVE  Page'
  <2>1. SUFFICES ASSUME ~ odd'
                 PROVE  Page'
    OBVIOUS
  <2>2. page # Home /\ \A k \in Checks : check[k] = "none"
    BY <1>0, <1>7, <2>1 DEF EndLogout
  <2>3. PICK known \in BOOLEAN : Push(Home, page, known, check)
    BY <1>7 DEF EndLogout
  <2>4. nav'.to # Blank /\ \A k \in Checks : check'[k] # "none" <=> nav'.awaits = k
    <3>1. Home \in Pages /\ check \in [Checks -> CheckStates]
      BY <1>0
    <3> HIDE DEF Page, Awaited, PageFits
    <3>2. \A k \in Checks : check'[k] # "none" <=> nav'.awaits = k
      BY <2>2, <2>3, <3>1, PushPage
    <3>3. nav'.to # Blank
      BY <2>2, <2>3, <3>1, PushPage
    <3> QED BY <3>2, <3>3
  <2> QED BY <2>4
<1>8. CASE Unauthorised \/ SignIn \/ \E to \in Pages : Open(to)
  BY <1>0, <1>1, <1>8 DEF Unauthorised, SignIn, Open
<1>9. CASE Shift \/ UNCHANGED vars
  <2>1. UNCHANGED <<user, page, nav, check, odd>>
    BY <1>9 DEF Shift, vars, refs, router, history
  <2> QED BY <2>1
<1> QED BY <1>2, <1>3, <1>4, <1>5, <1>6, <1>7, <1>8, <1>9 DEF Next

\* When nothing is under way, the page fits what the tab believes: the guard of
\* router/index.ts with the checks of useAuth.ts, for any pages and failures.
THEOREM PageAlwaysFits == Spec => []SettledPageFits
<1>1. Typed /\ Page => SettledPageFits
  BY DEF Page, PageFits, SettledPageFits, Settled, NoNav
<1> QED BY <1>1, InitAll, StepTyped, PageStep, PTL DEF Spec

\* A navigation awaits a check that is under way, and every variable has its type.
THEOREM TypeCorrect == Spec => []TypeOK
<1>1. Typed => TypeOK
  BY DEF Typed
<1> QED BY <1>1, InitAll, StepTyped, PTL DEF Spec

-----------------------------------------------------------------------------
(* What the tab believes.                                                   *)

\* A step that touches neither the session nor the belief, and may send a check.
LEMMA PushBelief ==
    ASSUME Typed, Belief, NEW to, NEW from, Push(to, from, checked, check),
           UNCHANGED <<session, user, logout, crossed, shifted>>
    PROVE  Belief'
<1> USE DEF Belief, OneCheck, AnswerHolds, BeliefHolds, UnderWay, Cleared
<1>1. ASSUME NEW k \in Checks, ~ checked, checked' = TRUE, check[k] = "none",
             check' = [check EXCEPT ![k] = "sent"]
      PROVE  Belief'
  <2>1. /\ check'[k] = "sent"
        /\ \A l \in Checks \ {k} : check'[l] = check[l]
    BY <1>1 DEF Typed, TypeOK
  <2>2. ~ crossed => \A l \in Checks : check[l] = "none"
    BY <1>1
  <2> QED BY <1>1, <2>1, <2>2
<1>2. CASE checked /\ checked' = TRUE /\ UNCHANGED check
  BY <1>2
<1>3. CASE checked' = checked /\ UNCHANGED check
  BY <1>3
<1> QED BY <1>1, <1>2, <1>3, PushCases

LEMMA BeliefStep == Typed /\ Belief /\ [Next]_vars => Belief'
<1> SUFFICES ASSUME Typed, Belief, [Next]_vars
             PROVE  Belief'
  OBVIOUS
<1> USE DEF Belief, OneCheck, AnswerHolds, BeliefHolds, UnderWay, Cleared
<1>0. /\ check \in [Checks -> {"none", "sent", "yes", "no"}]
      /\ logout \in [Logouts -> {"none", "sent", "answered", "stray"}]
      /\ {user, session, checked, crossed, shifted} \subseteq BOOLEAN
  BY DEF Typed, TypeOK
\* After a push that does not know the session, nothing is known.
<1>1. ASSUME NEW to, NEW from, NEW busy \in [Checks -> {"none", "sent", "yes", "no"}],
             Push(to, from, FALSE, busy), \A k \in Checks : busy[k] = "none"
      PROVE  Belief'
  <2>1. CASE checked' = FALSE /\ check' = busy
    BY <1>1, <2>1
  <2>2. ASSUME NEW k \in Checks, checked' = TRUE, check' = [busy EXCEPT ![k] = "sent"]
        PROVE  Belief'
    BY <1>1, <2>2
  <2> QED BY <1>1, <2>1, <2>2, PushCases
<1>2. ASSUME NEW to \in Pages, Load(to)
      PROVE  Belief'
  <2>1. Idle \in [Checks -> {"none", "sent", "yes", "no"}] /\ \A k \in Checks : Idle[k] = "none"
    BY DEF Idle
  <2> QED BY <1>1, <1>2, <2>1 DEF Load
<1>3. ASSUME NEW to \in Pages, Click(to)
      PROVE  Belief'
  BY <1>3, PushBelief DEF Click
<1>4. CASE Decide
  <2>1. CASE UNCHANGED <<checked, check>>
    BY <1>4, <2>1 DEF Decide
  <2>2. CASE Push(Login, page, checked, check) \/ Push(Home, page, checked, check)
    BY <1>4, <2>2, PushBelief DEF Decide
  <2> QED BY <1>4, <2>1, <2>2 DEF Decide
<1>5. ASSUME NEW k \in Checks, Answer(k)
      PROVE  Belief'
  <2>1. /\ check'[k] = (IF session THEN "yes" ELSE "no") /\ check[k] = "sent"
        /\ \A l \in Checks \ {k} : check'[l] = check[l]
        /\ UNCHANGED <<session, user, checked, logout, crossed>>
    BY <1>0, <1>5 DEF Answer, refs
  <2>2. ~ crossed => \A l \in Checks \ {k} : check[l] = "none"
    BY <2>1
  <2>3. OneCheck'
    BY <2>1
  <2>4. AnswerHolds'
    BY <2>1, <2>2
  <2>5. BeliefHolds'
    BY <2>1
  <2> QED BY <2>3, <2>4, <2>5
<1>6. ASSUME NEW k \in Checks, Deliver(k)
      PROVE  Belief'
  <2>1. /\ check[k] \in {"yes", "no"} /\ check'[k] = "none"
        /\ \A l \in Checks \ {k} : check'[l] = check[l]
        /\ user' = (check[k] = "yes")
        /\ UNCHANGED <<session, checked, logout, crossed, shifted>>
    BY <1>0, <1>6 DEF Deliver, Resume, history
  <2> QED BY <2>1
<1>7. ASSUME NEW k \in Checks, FailCheck(k)
      PROVE  Belief'
  <2>1. /\ check[k] # "none" /\ check'[k] = "none" /\ checked' = FALSE
        /\ \A l \in Checks \ {k} : check'[l] = check[l]
        /\ UNCHANGED <<session, logout, crossed, shifted>>
    BY <1>0, <1>7 DEF FailCheck, Resume, history
  <2> QED BY <2>1
<1>8. ASSUME NEW j \in Logouts, ClickLogout(j)
      PROVE  Belief'
  <2>1. /\ \A i \in Logouts : logout[i] = "answered" => logout'[i] = "answered"
        /\ UNCHANGED <<session, user, checked, check, crossed, shifted>>
    BY <1>0, <1>8 DEF ClickLogout, refs, history
  <2> QED BY <2>1
<1>9. ASSUME NEW j \in Logouts, ServeLogout(j)
      PROVE  Belief'
  <2>1. /\ logout'[j] = "answered"
        /\ session' => session
        /\ UNCHANGED <<user, checked, check, crossed, shifted>>
    BY <1>0, <1>9 DEF ServeLogout, refs, history
  <2> QED BY <2>1
<1>10. ASSUME NEW j \in Logouts, EndLogout(j)
       PROVE  Belief'
  <2>1. CASE crossed'
    BY <2>1
  <2>2. CASE ~ crossed'
    <3>1. \A k \in Checks : check[k] = "none"
      BY <1>10, <2>2 DEF EndLogout
    <3>2. Push(Home, page, FALSE, check)
      BY <1>10 DEF EndLogout
    <3> HIDE DEF Belief
    <3> QED BY <1>0, <1>1, <3>1, <3>2
  <2> QED BY <2>1, <2>2
<1>11. CASE Unauthorised \/ SignIn \/ \E to \in Pages : Open(to)
  <2>1. Home \in Pages /\ Login \in Pages
    BY PageAssumption DEF Pages
  <2> QED BY <1>2, <1>11, <2>1 DEF Unauthorised, SignIn, Open
<1>12. CASE Shift
  BY <1>12 DEF Shift, refs
<1>13. CASE UNCHANGED vars
  BY <1>13 DEF vars, refs, history
<1>14. ASSUME NEW j \in Logouts, ServeStray(j)
       PROVE  Belief'
  <2>1. /\ \A i \in Logouts : logout[i] = "answered" => logout'[i] = "answered"
        /\ UNCHANGED <<user, checked, check, crossed>>
        /\ \/ UNCHANGED <<session, shifted>>
           \/ session' = FALSE /\ shifted' = (shifted \/ session)
    BY <1>0, <1>14 DEF ServeStray, refs
  <2>2. shifted' \/ UNCHANGED <<session, shifted>>
    BY <1>0, <2>1
  <2> QED BY <2>1, <2>2
<1> QED
  BY <1>3, <1>4, <1>5, <1>6, <1>7, <1>8, <1>9, <1>10, <1>11, <1>12, <1>13, <1>14 DEF Next

\* When nothing is under way a belief of the tab is what the server would say,
\* whatever fails and however often the page is loaded: useAuth.ts.
THEOREM BeliefAlwaysCurrent == Spec => []BeliefIsCurrent
<1>1. Typed /\ Belief => BeliefIsCurrent
  <2> SUFFICES ASSUME Typed, Belief, Settled, checked, ~ shifted, ~ crossed
               PROVE  user = session
    BY DEF BeliefIsCurrent
  <2>1. ~ Cleared
    BY DEF Settled, SigningOut, Cleared
  <2>2. user <=> session
    BY <2>1 DEF Settled, Belief, BeliefHolds
  <2>3. user \in BOOLEAN /\ session \in BOOLEAN
    BY DEF Typed, TypeOK
  <2> QED BY <2>2, <2>3
<1> QED BY <1>1, InitAll, StepTyped, BeliefStep, PTL DEF Spec
=============================================================================
