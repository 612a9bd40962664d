---------------------------- MODULE FrontendAuth ----------------------------
(***************************************************************************)
(* What one tab believes of the session and which page it shows            *)
(* (frontend/src/composables/useAuth.ts, router/index.ts, the 401 of       *)
(* api/client.ts).  The cookies are out of its sight: it asks GET          *)
(* /users/me once, before the first navigation, and believes the answer    *)
(* until a sign-out, a 401 or a reload.                                    *)
(*                                                                         *)
(* One step is a run of JavaScript up to its next await, or the server     *)
(* answering.  Answers arrive in any order and may be failures; the user   *)
(* navigates while a navigation is under way; the session starts and ends  *)
(* in other tabs.  The rules of vue-router that matter: a new navigation   *)
(* cancels the one under way, and one to the place that is shown runs no   *)
(* guard.                                                                  *)
(***************************************************************************)
EXTENDS Naturals, FiniteSets

CONSTANTS
    Protected,  \* pages with meta.requiresAuth, home among them
    Home,       \* the dashboard, '/'
    Login,      \* the page with meta.publicOnly
    Blank,      \* nothing is shown yet
    Checks,     \* requests GET /users/me under way at once
    Logouts,    \* requests POST /auth/logout under way at once
    None,       \* no check
    MaxClicks,  \* bound on navigations, sign-outs and reloads by the user
    MaxFaults,  \* bound on requests that fail
    MaxShifts   \* bound on sessions that start or end in other tabs

ASSUME PageAssumption ==
    Home \in Protected /\ Login \notin Protected /\ Blank \notin Protected \union {Login}
ASSUME CheckAssumption == None \notin Checks
ASSUME BoundAssumption == {MaxClicks, MaxFaults, MaxShifts} \subseteq Nat

VARIABLES
    session,   \* does the server accept the browser's cookies?
    user,      \* _user is not null        (module-level refs of useAuth)
    checked,   \* _checked
    page,      \* the page that is shown
    nav,       \* the navigation under way: where to, and the check it awaits
    check,     \* check[k]: GET /users/me not under way, sent, or answered
    logout,    \* logout[j]: POST /auth/logout not under way, sent, answered, or left
               \* behind ("stray") by a page that is gone
    \* History, read by no action.
    odd,       \* the page was decided on without an answer or a step under way
    crossed,   \* a sign-out cleared the refs while a check was under way
    shifted,   \* the session was changed since a check was answered, by another tab
               \* or by a sign-out of a page that is gone
    \* Bounds.
    clicks, faults, shifts

refs == <<user, checked>>
router == <<page, nav>>
history == <<odd, crossed, shifted>>
bounds == <<clicks, faults, shifts>>
vars == <<session, refs, router, check, logout, history, bounds>>

Pages == Protected \union {Login}
NoNav == [to |-> Blank, awaits |-> None]
Idle == [k \in Checks |-> "none"]
Staying == [j \in Logouts |-> "none"]
UnderWay == {k \in Checks : check[k] # "none"}

Init ==
    /\ session \in BOOLEAN
    /\ user = FALSE /\ checked = FALSE
    /\ page = Blank /\ nav = NoNav
    /\ check = Idle /\ logout = Staying
    /\ odd = FALSE /\ crossed = FALSE /\ shifted = FALSE
    /\ clicks = 0 /\ faults = 0 /\ shifts = 0

-----------------------------------------------------------------------------
(* Navigations.  The operators take the values the refs have at that point.  *)

\* Mutant: the guard does not await checkAuth.
GuardAtOnce(to, known, busy) ==
    /\ nav' = [to |-> to, awaits |-> None]
    /\ checked' = TRUE
    /\ check' \in (IF known THEN {busy}
                   ELSE {[busy EXCEPT ![k] = "sent"] : k \in {j \in Checks : busy[j] = "none"}})

\* The guard up to its await: checkAuth sends a check unless one was sent
\* before, answered or not.
Guard(to, known, busy) ==
    \/ /\ known
       /\ nav' = [to |-> to, awaits |-> None] /\ checked' = TRUE /\ check' = busy
    \/ /\ ~known
       /\ \E k \in {j \in Checks : busy[j] = "none"} :
             nav' = [to |-> to, awaits |-> k] /\ check' = [busy EXCEPT ![k] = "sent"]
       /\ checked' = TRUE

\* router.push while the page `from' is shown.  A push to the login page is a
\* duplicate only if its redirect query is the same, too.
Push(to, from, known, busy) ==
    \/ (from # to \/ to = Login) /\ Guard(to, known, busy)
    \/ (from = to) /\ nav' = NoNav /\ checked' = known /\ check' = busy

\* The page is opened afresh, by its address or by window.location.href: the
\* refs are reset, and the answers under way have no reader left.
Load(to) ==
    /\ user' = FALSE
    /\ page' = Blank
    /\ Push(to, Blank, FALSE, Idle)
    /\ odd' = FALSE /\ crossed' = FALSE /\ shifted' = FALSE

\* A sign-out on its way to the server may still reach it.
Abandoned == [j \in Logouts |-> IF logout[j] \in {"sent", "stray"} THEN "stray" ELSE "none"]

Click(to) ==
    /\ page # Blank
    /\ clicks < MaxClicks
    /\ clicks' = clicks + 1
    /\ Push(to, page, checked, check)
    /\ odd' = (odd \/ nav # NoNav \/ UnderWay # {})
    /\ UNCHANGED <<session, user, page, logout, crossed, shifted, faults, shifts>>

Open(to) ==
    /\ \/ (page = Blank /\ nav = NoNav) /\ UNCHANGED clicks
       \/ clicks < MaxClicks /\ clicks' = clicks + 1
    /\ Load(to)
    /\ logout' = Abandoned
    /\ UNCHANGED <<session, faults, shifts>>

\* Mutant: the login page requires a user, too.
DecideForAll ==
    /\ nav.to # Blank /\ nav.awaits = None
    /\ \/ ~user /\ Push(Login, page, checked, check) /\ UNCHANGED <<page, odd>>
       \/ user /\ page' = nav.to /\ nav' = NoNav /\ odd' = (UnderWay # {})
          /\ UNCHANGED <<checked, check>>
    /\ UNCHANGED <<session, user, logout, crossed, shifted, bounds>>

\* The guard after its await.
Decide ==
    /\ nav.to # Blank /\ nav.awaits = None
    /\ \/ /\ nav.to \in Protected /\ ~user
          /\ Push(Login, page, checked, check)
          /\ UNCHANGED <<page, odd>>
       \/ /\ nav.to = Login /\ user
          /\ Push(Home, page, checked, check)
          /\ UNCHANGED <<page, odd>>
       \/ /\ user <=> nav.to # Login
          /\ page' = nav.to
          /\ nav' = NoNav
          /\ odd' = (UnderWay # {})
          /\ UNCHANGED <<checked, check>>
    /\ UNCHANGED <<session, user, logout, crossed, shifted, bounds>>

-----------------------------------------------------------------------------
(* The checks of the session.                                                *)

\* The server answers by the cookies it is shown.
Answer(k) ==
    /\ check[k] = "sent"
    /\ check' = [check EXCEPT ![k] = IF session THEN "yes" ELSE "no"]
    /\ shifted' = FALSE
    /\ UNCHANGED <<session, refs, router, logout, odd, crossed, bounds>>

\* Mutant: the guard does not hear of a failed check.
ResumeNobody(k) ==
    /\ check' = [check EXCEPT ![k] = "none"]
    /\ UNCHANGED nav

\* The navigation that awaited the check goes on, if it was not cancelled.
Resume(k) ==
    /\ check' = [check EXCEPT ![k] = "none"]
    /\ nav' = [nav EXCEPT !.awaits = IF @ = k THEN None ELSE @]

Deliver(k) ==
    /\ check[k] \in {"yes", "no"}
    /\ user' = (check[k] = "yes")
    /\ Resume(k)
    /\ UNCHANGED <<session, checked, page, logout, history, bounds>>

\* fetch, or the reading of its body, throws.
FailCheck(k) ==
    /\ check[k] # "none"
    /\ faults < MaxFaults
    /\ faults' = faults + 1
    /\ user' = FALSE /\ checked' = FALSE
    /\ Resume(k)
    /\ UNCHANGED <<session, page, logout, history, clicks, shifts>>

-----------------------------------------------------------------------------
(* Sign-out, sign-in, and what other requests find out.                      *)

\* The button is in the bar that App.vue shows to a user only; it can be
\* clicked again while the first request is under way.
ClickLogout(j) ==
    /\ user /\ logout[j] = "none"
    /\ clicks < MaxClicks
    /\ clicks' = clicks + 1
    /\ logout' = [logout EXCEPT ![j] = "sent"]
    /\ UNCHANGED <<session, refs, router, check, history, faults, shifts>>

\* The request may fail before it reaches the server, or after.
ServeLogout(j) ==
    /\ logout[j] = "sent"
    /\ logout' = [logout EXCEPT ![j] = "answered"]
    /\ \/ session' = FALSE /\ UNCHANGED faults
       \/ faults < MaxFaults /\ faults' = faults + 1 /\ UNCHANGED session
    /\ UNCHANGED <<refs, router, check, history, clicks, shifts>>

\* One that was left behind reaches the server, or does not.
ServeStray(j) ==
    /\ logout[j] = "stray"
    /\ logout' = [logout EXCEPT ![j] = "none"]
    /\ \/ session' = FALSE /\ shifted' = (shifted \/ session)
       \/ UNCHANGED <<session, shifted>>
    /\ UNCHANGED <<refs, router, check, odd, crossed, bounds>>

\* Mutant: the sign-out keeps _checked.
EndLogoutChecked(j) ==
    /\ logout[j] = "answered"
    /\ logout' = [logout EXCEPT ![j] = "none"]
    /\ user' = FALSE
    /\ Push(Home, page, checked, check)
    /\ odd' = (odd \/ page = Home \/ UnderWay # {})
    /\ crossed' = (crossed \/ UnderWay # {})
    /\ UNCHANGED <<session, page, shifted, bounds>>

\* Whatever the answer was.
EndLogout(j) ==
    /\ logout[j] = "answered"
    /\ logout' = [logout EXCEPT ![j] = "none"]
    /\ user' = FALSE
    /\ Push(Home, page, FALSE, check)
    /\ odd' = (odd \/ page = Home \/ UnderWay # {})
    /\ crossed' = (crossed \/ UnderWay # {})
    /\ UNCHANGED <<session, page, shifted, bounds>>

\* A request of the page is answered 401: clearAuth, and the login page is loaded.
Unauthorised ==
    /\ ~session
    /\ page \in Protected
    /\ Load(Login)
    /\ logout' = Abandoned
    /\ UNCHANGED <<session, bounds>>

\* Google, then the callback, then the dashboard: all of them loads.  A sign-out
\* from before has the cookies of the old session.
SignIn ==
    /\ page = Login
    /\ clicks < MaxClicks
    /\ clicks' = clicks + 1
    /\ session' = TRUE
    /\ Load(Home)
    /\ logout' = Staying
    /\ UNCHANGED <<faults, shifts>>

\* The cookies expire, or another tab signs out or in.
Shift ==
    /\ shifts < MaxShifts
    /\ shifts' = shifts + 1
    /\ session' = ~session
    /\ shifted' = TRUE
    /\ UNCHANGED <<refs, router, check, logout, odd, crossed, clicks, faults>>

Next ==
    \/ \E to \in Pages : Click(to) \/ Open(to)
    \/ Decide
    \/ \E k \in Checks : Answer(k) \/ Deliver(k) \/ FailCheck(k)
    \/ \E j \in Logouts : ClickLogout(j) \/ ServeLogout(j) \/ ServeStray(j) \/ EndLogout(j)
    \/ Unauthorised \/ SignIn \/ Shift

\* The server answers in the end, and the browser runs what is ready to run.
Fairness ==
    /\ \A k \in Checks : WF_vars(Answer(k)) /\ WF_vars(Deliver(k))
    /\ WF_vars(Decide)

Spec == Init /\ [][Next]_vars /\ Fairness

-----------------------------------------------------------------------------
(* Properties.                                                               *)

\* Every variable has its type, and a navigation awaits a check that is under way.
TypeOK ==
    /\ {session, user, checked, odd, crossed, shifted} \subseteq BOOLEAN
    /\ page \in Pages \union {Blank}
    /\ nav.to \in Pages \union {Blank}
    /\ nav.awaits # None => nav.to # Blank /\ nav.awaits \in UnderWay
    /\ check \in [Checks -> {"none", "sent", "yes", "no"}]
    /\ logout \in [Logouts -> {"none", "sent", "answered", "stray"}]
    /\ clicks \in 0 .. MaxClicks /\ faults \in 0 .. MaxFaults /\ shifts \in 0 .. MaxShifts

SigningOut == \E j \in Logouts : logout[j] \in {"sent", "answered"}
Settled == nav = NoNav /\ UnderWay = {} /\ ~SigningOut /\ page # Blank

\* When nothing is under way, the page that is shown is one the guard allows
\* for what the tab believes (router/index.ts), whatever answers came late or
\* never came: only navigations that interrupt one under way or overlap a check,
\* and a sign-out on the dashboard, whose push is a duplicate, are excepted.
SettledPageFits == Settled /\ ~odd => (user <=> page # Login)

\* When nothing is under way and the tab holds a belief, the belief is what the
\* server would say, unless the session changed in another tab, a sign-out of a page
\* that is gone arrived late, or a sign-out overtook a check: the answer of that
\* check is from before it (useAuth.ts).
BeliefIsCurrent == Settled /\ checked /\ ~shifted /\ ~crossed => user = session

\* A navigation ends: the two redirections of the guard do not chase each
\* other, and no check is awaited for ever.
NavigationEnds == (nav # NoNav) ~> (nav = NoNav)

=============================================================================
