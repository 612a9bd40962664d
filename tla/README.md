# A TLA+ model of python-fastapi-poc

The repository is a home automation application: users define *routines*, lists of *actions*
with a schedule; APScheduler or a user's click queues *executions* of a routine; one worker
thread runs them in order. Users sign in with Google and work in a Vue frontend. This
directory holds TLA+ modules of its core, the TLC configurations that check them and TLAPS
proofs about them.

    tlc -config queue_safety.cfg MCExecutionQueue     # one run
    tlapm ExecutionQueueProofs.tla                    # the proofs of one module

Paths below are relative to the repository's root.

## The system

| Component | State | Operations | Modelled |
|---|---|---|---|
| Execution queue (`backend/execution_engine.py`) | tables `routine_executions`, `action_executions`; local variables of the worker thread | enqueue (API or scheduler), poll, claim, load actions, track, run bodies, record the outcome | `ExecutionQueue`, abstractly `JobLedger` |
| Routines and their jobs (`backend/routine_services.py` 106-278, `backend/scheduler.py`, `backend/main.py` lifespan) | table `routines`; APScheduler's jobs in the memory of the process | create, update, delete a routine; rebuild the jobs at start-up | `SchedulerSync` |
| Actions of a routine (`backend/routine_services.py` 286-460) | table `actions`, its column `position` | append, insert, swap, reorder, delete | `ActionPositions`, abstractly `ActionList` |
| Execution queries (`backend/routine_services.py` 495-673) | none | active, detail, history | no: they only read |
| Database (`backend/database.py`, `backend/models.py`, `alembic/`) | connections, constraints | sessions, transactions | inside the modules above |
| Sign-in with Google (`backend/google_oauth.py`, `user_routes.py` 77-262) | OAuth states and PKCE verifiers in Redis, table `users` | login, callback | `OAuthLogin`, abstractly `OneTimeToken` |
| Sessions (`user_routes.py` 199-461, `security.py`, `redis_client.py`) | refresh tokens and revoked JWTs in Redis, the browser's cookies | refresh, logout, check of a JWT | `TokenSessions`, abstractly `OneTimeToken` |
| Routine form (`frontend/src/features/routines`), names of routines (`routine_routes.py` 142-210) | the form's draft and its save; column `routines.name` | edit, save, leave | `RoutineForm` |
| Sign-in state and router (`frontend/src/composables/useAuth.ts`, `router/index.ts`, `api/client.ts`) | what a tab believes of its session, the page it shows | navigate, check, sign out, 401 | `FrontendAuth` |
| `auth_routes.py` (password sign-in of the administrator) | none | one stateless request | no |
| `usePolling.ts`, `stores/auth.ts` | – | – | no: no component imports them |
| Rate limiter, configuration, logging, error mapping, generated client, views, monitoring, containers, CI | – | – | no: library state, no state, presentation, or other programs' configuration |

How they interact:

- The API handlers run in a thread pool, one session and one transaction (or several,
  one after another) per request. They share the tables with each other and with the
  worker, and APScheduler's in-memory job store with the scheduler's thread.
- A job of the scheduler calls `run_routine`, which inserts a queued row. The worker
  polls the table; nothing passes between the two in memory.
- The worker opens a short session for each step. Between two steps the routine may be
  edited or deleted and the process may die.
- The form saves a routine with a sequence of requests, some of them at once.
- The backend knows a browser by two cookies it cannot look into: a JWT, good until it
  expires or Redis says it is revoked, and a refresh token kept in Redis. The frontend
  cannot see them either: it asks `GET /users/me` once and believes the answer.

What is hard: transactions of several requests interleave under READ COMMITTED; the scheduler
is changed outside of the transaction it should follow; errors are swallowed in the worker at
each step; a commit can raise after it took effect; a crash loses the jobs and the worker's
place, but no row. Tokens in Redis are taken by one request and replaced by its next call, and
several tabs, reloads and lost answers race for them. In the frontend answers arrive when the
code has moved on. `PROJECT.json` lists the hazards line by line, each with the properties
aimed at it.

What makes each part correct:

- **queue**: an execution is claimed once and by one worker, its actions run once and in
  order, its status only moves forward and says what happened, the queue drains in the
  order of `scheduled_for`, and the worker never stops polling;
- **routines**: between requests a routine has exactly the job its row calls for; the
  stored schedule is valid; requests do not block each other for ever;
- **actions**: the positions of *n* actions are 1 to *n*, and each request changes the
  list in one piece;
- **sign-in**: a state lets one callback through and has its verifier; a session is used
  for the row of the account it was opened for;
- **sessions**: a sign-in never branches, what was signed out of cannot be continued, and
  tabs that refresh at once do not sign the browser out;
- **form**: "Saved" is shown when the routine is what the form shows; nothing is created
  twice; a name is used once;
- **frontend**: at rest, the page fits what the tab believes, and the belief is true.

## The modules

### JobLedger and ExecutionQueue

`JobLedger` is what users may rely on: a job is recorded, claimed at most once, worked
on by its holder only, and finished by its holder only; a holder may lose its job, which
then stays "running".

`ExecutionQueue` is the code. One step is one transaction or the stretch of code between
two. The program counter of a worker follows `_poll_loop`:

| `pc` | Action | Code |
|---|---|---|
| `poll` | `ReadClock` | `now = datetime.now(UTC)` in `_claim_next` |
| `select` | `Select`, `SelectNothing` | the `SELECT ... FOR UPDATE SKIP LOCKED` |
| `commit` | `CommitClaim` | `status = running`, `session.commit()` |
| `refresh` | `Refresh` | the attributes re-read by the `return` statement |
| `load` | `LoadActions` | `_load_actions` |
| `track` | `TrackActions` | `_create_pending_action_executions` |
| `mark`, `body`, `done` | `MarkRunning`, `RunBody`, `MarkCompleted` | the loop of `RoutineExecutor.run` |
| `failAction`, `failExec` | `MarkFailed`, `Fail` | its exception handler |
| `finish` | `Complete` | `_update_execution_status(..., completed)` |
| `down` | `Crash`, `Start` | the process |

A step that talks to the database takes its outcome: `ok`; `error`, an exception without
effect; `late`, an exception although the commit took effect. `late` is only offered
where the code does something else than after `ok`: an update of a status whose exception
is swallowed ends in the same state either way. `Enqueue` and the edits of the list of
actions are one step each: the worker sees only what is committed, and locks none of their
rows. That the edits of the list are in one piece is what `ActionPositions` shows. The body
of an action is one step; `FailingActions` are those that raise. A sleep is finite, so it
ends.

The deletion of a routine is not one step, since its row locks are visible to `SKIP LOCKED`
while nothing is committed: `BeginDeletion` loads what the cascade reaches and deletes the
actions, `DeleteRow` deletes an execution (and waits for one that is being claimed),
`CommitDeletion` and `RollbackDeletion` end it. Until then `Ready` passes over the deleted
rows. A row inserted meanwhile makes the foreign key refuse the deletion, which then rolls
back; any other rollback is an error and counts as one. A deletion that finds a tracked action
fails at its first statement, before it holds the lock of an execution, and is not a step; nor
is a second deletion of the routine, which waits for the first and finds nothing to
delete. Edits of the list wait for a deletion, as they need the rows it has deleted.

`ran`, `hit` and `passed` are history variables that no action reads: the bodies that started
for an execution, the executions a fault touched, and those a claim passed over because a
deletion held them.

### SchedulerSync

The columns `schedule_type`, `schedule_config` and `is_active` of each routine, the job
registered for it, and the requests that change both. A request is a thread whose program
counter stops at each statement, at each commit and at each call of the scheduler (which
is atomic: APScheduler locks its job store). An UPDATE writes only the columns that differ
from what the request read, and takes a row lock. A commit may be `ok`, `error` or `late`.
`Stop` loses the jobs and the requests, `Boot` is the lifespan of the application.
Configurations are classes: valid cron expressions, positive intervals, intervals too
large for `IntervalTrigger`, null. Names, descriptions and the answers to the client are
left out; so is a payload that changes nothing the model sees.

`disturbed` names the routines something happened to that the code does not repair:
overlapping requests, an uncertain commit, an active routine made manual, an active manual one
whose update failed, a failed deletion, an interval that overflows. It is what
`JobsMatchUndisturbedRows` excludes, and each member of the list is either a finding (below)
or unavoidable without a shared transaction.

### ActionList and ActionPositions

`ActionList`: a list without repetitions in which a step inserts one element, removes one,
or rearranges all. `ActionPositions`: rows with positions, and requests of several READ
COMMITTED statements. An UPDATE finds the rows that match what is committed (or its own),
waits for those other transactions have locked, and looks at them again before it writes,
as PostgreSQL does. The deferred constraint is checked at the commit. Every request may be
rolled back anywhere (`Abort`): a validation after the flush, an error, a deadlock that
PostgreSQL breaks. The refinement mapping orders the rows by position.

### OneTimeToken, OAuthLogin and TokenSessions

`OneTimeToken` is what the backend promises of the random strings it keeps in Redis: issued
once, redeemed at most once, and they may lapse. Both modules implement it
(`StatesAreOneTime`, `RefreshIsOneTime`).

`OAuthLogin`: one step is one Redis call (`Login`, `ConsumeState`, `ConsumeVerifier`,
`StoreSession`), one call to Google (`Exchange`, `FetchProfile`) or one statement
(`SelectUser`, `CommitUser`). Each takes its outcome, `ok`, `error` or `late`, as above.
Google is the environment: it gives out codes for the states it was sent (`Consent`, twice
if the user goes back), takes each once, and lets accounts change their address
(`Rename`), also to one that another account gave up. `CurrentUser` is the lookup of later
requests: by address, while the callback looks rows up by `google_id`.

`TokenSessions`: a session is a pair of tokens; `jar` and `jwt` are the browser's cookies.
`SignIn` to `ReceiveCookies` are the end of the callback and the refresh; `Logout`, `Check`,
`Revoke`, `Delete`, `ClearCookies` are a logout. `family` says which sign-in a token descends
from, `out` which were signed out of, `broken` which lost their refresh token to something
that shows (an error, a lost answer, a logout, age): these are history. Time passes in half
seconds, since `exp` is compared in whole seconds and `int(exp - now)` cuts the time a
revocation lasts; the requests after the access token has expired are refused anyway. A
token in the `Authorization` header is left out: no part of the frontend sends one.

### RoutineForm

Forms in several tabs, each with its draft (`title`, `local`, `removed`) and its save, whose
program counter stops at each request: `Update` (or `CheckName` and `Insert`), `DeleteAction`
for all removed actions at once, `CreateAction` one by one, `ReadOrder` and `WriteOrder`. A
request may fail or lose its answer; a deletion that fails ends the save while the others go
on (`StrayDelete`). A tab that is closed (`Leave`) sends nothing more, but the request under
way goes on without it (`left`). Nothing is rolled back and the form keeps its drafts, so that
a retry sends them again. `remade` are the drafts a failed save had created, `raced` the names
that were checked twice at once or written by an update, `touched` the forms edited during
their save: the causes the properties except.

A request is one step, but for the two that decide on something they read earlier: the
creation (`CheckName`, `Insert`) and `reorder_actions`, which reads the ids, compares, and
then updates only the rows whose position is not the one it read, without a lock on the
routine. If the list is still the one it read, the order is the one that was sent; if not,
the list ends in some arrangement of its rows (`Written`, `Rearranged`), or a row that is
gone or a position given twice rolls the request back (`RefuseOrder`). Over `abcd`, two
overlapping reorderings `bacd` and `abdc` both succeed and leave `badc`. How the other
requests interleave inside the database is the subject of `ActionPositions` and
`SchedulerSync`.

### FrontendAuth

`user` and `checked` are the module-level refs of `useAuth.ts`, shared by all of a tab. A step
is a run of JavaScript up to its next `await`: `Click`/`Open` run the guard up to `await
checkAuth()` (`Guard`), `Decide` the rest of it; `Answer` is the server, `Deliver` and
`FailCheck` the two ends of `checkAuth`; `ClickLogout`, `ServeLogout`, `EndLogout` a sign-out;
`Unauthorised` the 401 of `client.ts`. A page load (`Load`) resets the refs; a sign-out under
way then has no reader left, but may still reach the server (`Abandoned`, `ServeStray`). The
rules of vue-router are external (`Push`). `odd`, `crossed` and `shifted` are history: what
the two invariants except, see below.

### MC modules

The `MC` modules name the model values and the initial lists, routines and payloads of the
configurations. Each configuration begins with a comment that says what it is an instance of.

## The runs

| Run | Instance | Checks |
|---|---|---|
| `queue_safety` | 2 workers, 2 executions, 1 routine of 2 actions, 1 error, 1 crash | `TypeOK`, `SingleHolder`, `HeldIsRunning`, `EachActionOnce`, `StatusLifecycle`, `ImplementsLedger` |
| `queue_tracking` | 1 worker, 2 executions, times 0 to 1, 1 routine of 1 action and a second one that fails, 1 error, 1 crash | `TrackingIsExact`, `StartsInScheduleOrder`, `FinalStatusIsHonest` |
| `queue_liveness` | 1 worker, 2 executions, times 0 to 1, 1 routine of 1 action, 1 error, 1 crash, fair | `QueuedLeavesQueue`, `WorkerComesBack`, `UntouchedEnds` |
| `sync_one` | 1 request at a time, 1 routine, 2 errors, 2 restarts, an interval that overflows | `JobsMatchUndisturbedRows`, `RowsAreValid` |
| `sync_two` | 2 requests on 1 routine, 1 error, 1 restart, fair | `TypeOK`, `RequestsEnd` |
| `sync_manual` | 1 request at a time, no error | `JobsMatchRows` is violated |
| `positions` | 2 requests at a time, 3 in all, 3 actions and a fourth | `TypeOK`, `ContiguousInTurn`, `ImplementsList` |
| `oauth` | 2 states, 2 callbacks at once, 2 accounts, 3 addresses, 1 failed call, 2 changes of address | `TypeOK`, `StateHasVerifier`, `SubjectIsOwn`, `StatesAreOneTime` |
| `sessions` | 2 requests at once, 3 pairs of tokens, JWTs of 2 seconds, 4 half seconds, 1 fault | `TypeOK`, `OneLivePerSignIn`, `BrowserIsCurrent`, `SignedOutStaysOut`, `RevokedUntilTheLastSecond`, `RefreshIsOneTime` |
| `logout` | 1 request, 1 failed call | `LogoutSucceeds` is violated |
| `form` | 2 forms, 1 routine of 2 actions and 2 to be created, 2 drafts, its name and another one in two spellings, 2 edits, 3 saves, 2 faults | `TypeOK`, `AddedOnce`, `NamesClashForCause`, `SavedIsShown` |
| `frontend` | 3 pages, 2 checks and 2 sign-outs at once, 4 clicks, 2 faults, 1 change elsewhere, fair | `TypeOK`, `SettledPageFits`, `BeliefIsCurrent`, `NavigationEnds` |

**Bounds.** Two workers are the smallest number that compete, and the interference the code
guards against (two SELECTs, one commit in between) takes two. Two executions of one routine
make a worker go on from one to the next while the other holds one. One error and one crash
are enough to hit each step of an execution; what they leave behind is met again by the second
execution. Two executions and two times are what "an earlier one is left behind" needs; in
`queue_safety` the clock stands still, since a claim does not depend on when its row became
due. In `SchedulerSync` a second error is needed to make the restoration after a failed commit
fail, a second restart to repeat one from what the first left; two requests suffice for each
race, and routines do not influence each other. In `ActionPositions` three actions make a
shift touch more rows than the one removed, and a third request meets what an overlapping pair
left behind. Two callbacks meet in every pair of steps of `OAuthLogin`, and two changes of
address let one account take the address of the other. Three pairs of tokens are a sign-in
refreshed twice, or two sign-ins of which one is refreshed; more of them make the run take
many minutes without a new kind of step, and all its properties are proved for every number.
JWTs last two seconds, so that a revocation can be stored with one and a half seconds left,
which `int()` cuts to one, and the clock runs until those of the first second have expired.
Two edits, three saves and two faults are a form that is edited, fails half-way and is tried
again, with an edit and a save of another tab in between. Four clicks are two navigations that
overlap and two sign-outs. `MaxTime`, `MaxFaults`, `MaxCrashes`, `MaxRestarts`, `MaxRequests`,
`MaxRenames`, `MaxEdits`, `MaxSaves`, `MaxClicks` and `MaxShifts` are the bounds in the
guards; what is proved holds for every value of them.

**Deadlock** is checked in the runs of the queue: the worker polls for ever. The other
modules stop when all routines are deleted, all requests are made or all bounds are
reached, and their configurations switch the check off.

**Fairness.** `ExecutionQueue`: a worker takes its next step as long as its process lives
(`WF` of its steps: SKIP LOCKED does not wait, and nothing else it does waits for ever),
a crashed process is restarted, and time passes. A deletion that has begun ends, by a commit
or a rollback: its handler waits only for a claim to be committed. No fairness is assumed of
callers otherwise: nobody need queue, edit or delete anything. With
`MaxCrashes` the crashes end, as they must for anything to be promised. `SchedulerSync`:
strong fairness of each request, since a request waits for row locks which others may take
again and again and PostgreSQL grants in the order of arrival. No fairness of clients, of
restarts, or of a start-up that may fail. `FrontendAuth`: weak fairness of the server's answer
to a check, of its delivery and of the guard's second half, which the event loop runs when
its `await` is over. None of users, of sign-outs or of failures: `NavigationEnds`
holds although checks may fail. The other modules state safety only.

**Mutants.** Each property of a passing run has a mutant, an operator whose comment begins
with "Mutant", next to the definition it replaces: a plausible slip in that piece of code
which the run then finds. One is not a slip in the code: `DirtyView` takes READ COMMITTED away
from `ActionPositions`, and shows that `ImplementsList` rests on it.

## What was found

Two statements that the code does not keep have a run each:

1. An active scheduled routine made manual keeps its job (`sync_manual`).
2. "Logout always succeeds from the user's perspective" (`user_routes.py:422`): the check of
   the JWT before the handler is answered 503 when Redis cannot be asked, and no cookie is
   cleared (`logout`). A logout with a JWT that is expired or revoked is answered 401, with
   the same effect: the refresh token lives on.

Others were met while the models were written. The passing properties are worded around
them: each exception named in a property is one of these, so none of the properties catches
it, and in `PROJECT.json` the hazard behind it has a note instead. What the
properties do say is that nothing else goes wrong. In particular `sync_one` has one
request at a time, so an overlap of an update and a deletion, or of two updates, is no part of
it; `JobsAlwaysMatch` covers overlaps in so far as they are the listed disturbance.

Queue and routines:

- An execution can stay "running", or be claimed and never run: errors at the commit of a
  claim, at the refresh, or at the final update are swallowed, and nothing repairs the row
  (`hit` in `UntouchedEnds`; `execution_engine.py:316` promises otherwise).
- An update that overlaps a deletion leaves a job without a routine; two overlapping updates,
  each valid, persist an invalid schedule, and an active routine in that state also ends
  the next start-up; a routine whose actions have run cannot be deleted, since
  `action_executions.action_id` has no cascade, and loses its job in the attempt; after a
  failed update of an active manual routine the job it registered stays (`disturbed` in
  `JobsMatchUndisturbedRows`; `RowsAreValid` is checked with one request at a time).
- The earliest due execution can be left behind while one scheduled later starts: a deletion
  of its routine that later rolls back held its row (`passed` in `StartsInScheduleOrder`).
- Two overlapping deletions of actions leave a gap in the positions (`overlapped` in
  `ContiguousInTurn`), and the form sends all deletions of a save at once.
- The active list is ordered by `scheduled_for` alone, so the running execution is not always
  first, as `routine_services.py:499` says: a caller may queue a run for an earlier time.

Names and the form:

- The name check and the INSERT are two transactions, an update checks nothing, and the
  column is not unique. Once two routines share a name, `scalar_one_or_none` raises and every
  creation with it is answered 500 (`raced` in `NamesClashForCause`).
- `create_routine_handler` compares the stripped name and `create_routine` stores the one it
  was sent; the form trims it.
- A save that fails half-way cannot always be repaired by a retry: the deletions that
  succeeded are answered 404 now, the created routine 409, the reordering 422; drafts that were
  created are created again (`remade` in `AddedOnce`).
- The list can be edited during a save; actions added then are lost, although "Saved" is shown
  (`touched` in `SavedIsShown`).
- Two overlapping reorderings, or a reordering and a creation, both succeed and can leave a list
  that neither tab shows (the condition on `seen` in `SavedIsShown`).

Sign-in and sessions:

- The subject of a token is the address Google has now, rows keep the address of the first
  sign-in: after a change of address `GET /users/me` is answered 404, or with the row of an
  account that had the address before (`moved` in `SubjectIsOwn`; `models.User` says
  "created or updated on each OAuth login").
- Two first sign-ins of one account at once: the second is answered 409 and told to sign in
  "with your original method", which it did.
- A logout that overlaps a refresh deletes the old token; the refresh stores the next one, and
  its cookies sign the browser in again if they arrive last (the condition of `out` in
  `Delete`).
- A revocation ends up to a second before the JWT does (`RevokedUntilTheLastSecond`).

Frontend:

- With two sign-outs under way (nothing disables the button) the answer of a check from
    before the second may arrive last: the tab believes it is signed in (`crossed` in
  `BeliefIsCurrent`). A sign-out whose page was left can reach the server after the next page
  has asked for its user (`shifted`).
- A click on the page that is shown cancels a redirection under way, a sign-out on the
  dashboard pushes to the page that is shown and runs no guard, and a navigation that
  overlaps a check relies on its answer before it is there (`odd` in `SettledPageFits`).
- `docs/frontend.md:98` says that routines and the history can be read without signing in;
  `router/index.ts` requires a user for all of them.

## The proofs

### The queue

`ExecutionQueueProofs` proves, for every number of workers, executions, routines and
actions, all initial lists without repetitions and all bounds (the assumptions at the
head of `ExecutionQueue`):

| Theorem | States |
|---|---|
| `Invariance` | `Spec => []IInv` |
| `TypeCorrect`, `HeldOnce`, `RunsWhatItClaimed`, `AtMostOnce` | `TypeOK`, `SingleHolder`, `HeldIsRunning`, `EachActionOnce` |
| `OnlyForward`, `Honest` | the action properties `StatusLifecycle`, `FinalStatusIsHonest` |
| `TrackedExactly` | `TrackingIsExact` |
| `OneWorkerInOrder` | `StartsInScheduleOrder`, if there is one worker |

`LedgerRefinement` proves `Refinement`: the queue implements `JobLedger`.

**The inductive invariant.** None of the safety properties is inductive alone. That two
workers never hold one execution needs that a worker about to commit has a row that is still
queued (`Claimed`) and that one running has a row that is not (`HeldIsRunning`): then
`Select`, which takes queued unlocked rows, cannot choose what somebody holds. A deletion and
a claim exclude each other by their row locks (`OneLock`), so that a claim is never committed
to a row that is about to go. That no action runs twice needs where each worker is in its plan
(`Progress`: at `mark` it has run exactly the first `at - 1` actions, none of which raised),
that the plan has no repetition (`ActionsDistinct`, kept by all edits of the list), that
nothing ran for a queued execution (`NotStarted`), and that no other worker adds to the same
history (`SingleHolder`). `Honest` follows from `Progress`: at `finish` all of the plan has
run, and at `failExec` either the last action raised or an error came before the first.

Two more invariants are inductive on top of `IInv`. `TrackInv`: the rows of an execution that
is run are one per planned action, with the status that follows from where its worker is
(`RowStatus`), or there are none at all (`RowsFollow`), and a worker that is about to record a
failure has run up to the action that raised (`Raised`); what another worker, a deletion or an
edit of the routine does leaves both alone. `ScheduleInv`: what was selected was due by the
clock (with no other worker `SKIP LOCKED` passes over what deletions hold and nothing else, so
the earliest of the other due ones is taken), and what is queued before it was queued after it
was due. With a second worker it is false: the earlier execution may still be queued, locked
by the other worker, when the claim of the later one is committed.

**Layout.** Lemmas about the list operators (`InsertAtFacts`, `RemoveAtFacts`, `SwapFacts`,
`PermuteFacts`); then one lemma for each group of conjuncts (`TypeStep`, `HolderStep`,
`ListStep`, `RunStep`), each with one step per action; `StepInv` puts them together.
`StatusChange` says which steps change a status and how, and both action properties follow.
The refinement maps the ledger's `holder` to the worker past the commit of its claim; one
lemma per step of the ledger and a case per action of the queue.

### Sign-in and sessions

`OAuthLoginProofs` and `TokenSessionsProofs` prove every property of the
runs `oauth` and `sessions`, for all numbers of requests, tokens, accounts and addresses, all
lifetimes and all bounds:

| Theorem | States |
|---|---|
| `StatesAreWhole`, `SubjectsAreOwn` | `StateHasVerifier`, `SubjectIsOwn` |
| `StatesLetOneThrough`, `RefreshTokensAreOneTime` | both modules implement `OneTimeToken` |
| `NoStateLetsTwoThrough`, `NoRefreshTokenServesTwo` | hence `RedeemedOnce` of `OneTimeToken`, of each |
| `SignInsDoNotBranch`, `BrowserStaysCurrent`, `SignOutsLast` | `OneLivePerSignIn`, `BrowserIsCurrent`, `SignedOutStaysOut` |
| `RevocationsLast` | `RevokedUntilTheLastSecond` |
| `TypeCorrect` (in both) | `TypeOK` |

`StateHasVerifier` alone is not inductive: a callback that takes a verifier must not take that
of a state which is still there. `VerifierAlone` says that the state of such a callback is
gone and, being issued, does not come back. `SubjectIsOwn` needs `Owned`: no two accounts and
no two rows have one address, a row has the address its account had, and sessions and callbacks
past the profile have an address their account had (`Claim`: it is the account's, or the
account moved, and another account that has it now moved there), with the row in place
from the moment it was found or committed.

`OneLivePerSignIn` needs `Chain`: the token of a pair on its way is in no cookie, no other
request and not in Redis before its turn (`Unseen`), its sign-in has no other token by then
(`LastOfChain`), and a request cannot exchange a token behind that of the browser
(`SentIsLast`). `Current` adds that a pair on its way to the browser can be exchanged when
it gets there (`Deliverable`), `Gone` that no token the browser or a request holds belongs to
a sign-in that was signed out of, `LongEnough` that a revocation falls short of `exp` by half
a second at the worst. Each lemma has one step per action; what several actions share is
stated once (`Losing`: steps that only lose tokens; `Keeping`: steps after which the browser
still has its token; `MakesPair`).

### Routines and their jobs

`SchedulerSyncProofs`, for all numbers of requests and routines, all payloads and all bounds:

| Theorem | States |
|---|---|
| `TypeCorrect` | `TypeOK` |
| `JobsAlwaysMatch` | `JobsMatchUndisturbedRows`, which the runs check for one request only |
| `LoneRequestsKeepRowsValid` | `RowsAreValid`, if there is one request at a time |

`JobsMatchUndisturbedRows` speaks of quiet routines; the invariant `AllTidy` says where a request
alone on its routine has left row and job (`Midway`): which of them it has changed, that what it
read is still the row, what it told the scheduler (`Changed`, `JobAfter`) and that the old job can
be registered again, which `Restore` needs. A step either disturbs its routine or keeps it tidy
(`LeavesTidy`), and touches no other (`ActsOn`, `Elsewhere`); `UpdateFits` says that an update
nothing disturbs ends with the job its new row calls for.

### The positions of actions

`ActionPositionsProofs`, for all numbers of actions and requests, every initial list without
repetitions and all bounds:

| Theorem | States |
|---|---|
| `TypeCorrect` | `TypeOK` |
| `InTurnContiguous` | `ContiguousInTurn` |
| `EditsAList` | the refinement: `ImplementsList`, however requests overlap |

`Sound` holds however requests overlap: no two rows have one position, a locked row is there
and a row that is being created belongs to one request (`Keys`), and each request is at a
point of its course where what it has written moves each row by one place from where it still
is, all in one direction (`Written`). So a commit that the deferred constraint lets through
keeps the order of the rows it shifts. That is the refinement: `Rank` and `Order` say where a
row is in the list, `InsertOrder`, `KeepOrder` and `Reordered` what a commit does to it.
`InTurn` adds, while nothing has overlapped, that one request is under way at most (`Alone`),
that the positions are 1 to n (`Spans`), that a request that only reads has written nothing
(`Blank`), and for a request at each of its points what it has in mind and how much of it is
done (`Plan`): then its commit makes the positions 1 to n + 1, n - 1 or n.

### The form and the frontend

`RoutineFormProofs`, for all numbers of forms, routines, actions and drafts and all bounds:

| Theorem | States |
|---|---|
| `NamesClashOnlyForCause` | `NamesClashForCause` |
| `SaveInvariant` | `Spec => []SaveInv` |
| `TypeCorrect`, `AddedOnlyOnce` | `TypeOK`, `AddedOnce` |
| `SavedMeansShown` | the action property `SavedIsShown` |

A creation past its check finds the name still free (`CheckHolds`) and no other creation of it
past the check (`OneInsert`), unless the name was raced for.

`AddedOnce` needs to know of a draft that is about to be sent where it has been: if some
action was created from it, by this save or by one that failed (`Known`), this save has not
sent it (`Sends`) and no other form has it (`Apart`). So the actions of one draft are the work
of several saves, of which all but the last failed (`Origins`). `SavedIsShown` needs that
while a save creates actions, and nobody has edited the form since it began, every draft of
the form was made or will be, in the order of the form if it creates a routine (`Complete`).
When nothing is left to send, each entry has an id, the list of ids filters nothing out
(`FinalIdsFacts`), so the ids that are compared are the form's list (`Ordered`), and those
that are written over a list nobody changed since leave that list (`Shows`). `OneForm` says
that a step of one form keeps the invariant if it does so for that form and takes no other's
drafts; `StepOver`, `StepFail`, `StepDone` and `StepOn` are the ways a request ends.

The filters of the form are recursive functions (`Only`), since the prover knows nothing of
`SelectSeq`. What they keep (`OnlyFacts`) is proved by induction on the length of the prefix,
with a set in the place of the predicate: `Induction` says that a set which has 0 and
with each number the next has all of them, and follows from the pigeonhole principle.

`FrontendAuthProofs` proves `TypeCorrect`, `PageAlwaysFits` and `BeliefAlwaysCurrent`
(`TypeOK`, `SettledPageFits`, `BeliefIsCurrent`). Unless something odd happened, the one check
under way is the awaited one (`Awaited`); without a sign-out across a check there is one check
at a time (`OneCheck`), and its answer, then the belief of the tab, is so or a sign-out is
about to clear it (`AnswerHolds`, `BeliefHolds`).

### What is only model-checked

Liveness under fairness (`QueuedLeavesQueue`, `WorkerComesBack`, `UntouchedEnds`,
`RequestsEnd`, `NavigationEnds`): the prover does not handle ENABLED and fairness.
`StartsInScheduleOrder` holds for one worker only, `RowsAreValid` for one request at a time, and
the theorems about them say so. Everything else the passing runs check is proved. No module
uses RECURSIVE operators, which the prover does not handle.

## Not modelled

- The password sign-in of the administrator (one stateless request), tokens in the
  `Authorization` header, the rate limiter (its state is the library's).
- The queries of executions, which only read; `useActiveExecutionsPage.ts`, whose polling is
  vue-query's; `usePolling.ts` and `stores/auth.ts`, which no component imports.
- The contents of actions and their effects (`sleep`, `echo`), except that a body may raise.
- The triggers' times: APScheduler may queue a run at any time, which is what `Enqueue`
  allows. Time zones and the formatting of times.
- Views, styling, the generated API client, monitoring, containers, CI, logging.

## Plan

Done, in order of importance: the queue with its ledger and proofs; routines and jobs; the
positions of actions; sign-in and sessions with their proofs; the form with the names of
routines; the sign-in state of the frontend; proofs about all of them. Next:

1. The abstract specification of a save: a form that says "Saved" was written in one piece
   unless another tab saved meanwhile, and `RoutineForm` as its refinement.
2. `RoutineForm` on top of the transactions of `ActionPositions`, which would say which
   arrangements overlapping reorderings leave; both modules allow any.
