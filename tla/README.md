# TLA+ models of the WFM / PMS system

This directory holds TLA+ models of the parts of the system whose correctness
depends on the order of things: what concurrent HTTP requests, failures, restarts
and time do to rows that several handlers read, edit and write, to lists a process
keeps in memory, and to what the tabs of a browser share. TLC checks them on small
instances; TLAPS proves some of the properties for instances of any size.

## 1. The system

| Part | Where | State it keeps | What is hard about it |
|---|---|---|---|
| Refresh tokens and sessions | `api/src/app/shared/auth`, `shared/device`, `1-login/1-username` | `user_refresh_token`, `user_session` | rotation with reuse detection, racing refreshes, logouts and failures |
| QR login | `2-profile/account.service.ts` | `qr_login_session` | scan, poll and renewal race on one row |
| OTP challenges | `shared/otp/otp.service.ts`, used by login, password reset, sign-up, contact change, passcode reset | `user_otp` | resend races verification and replacement; delivery is not atomic with storing, and may fail unnoticed |
| Two-factor settings | `otp.service.ts`, `1-2fa/two-factor.service.ts` | `user_otp_setting` | whole-row saves of stale copies; backup codes are single-use |
| Local passcode | `2-passcode/passcode.service.ts` | `user_passcode` | counting wrong attempts, reset tickets, nested saves of one row |
| Other logins, passkeys | `1-login/2-` to `7-`, `3-passkey` | `passkey_challenge`, `passkey_credential` | single use of a challenge |
| Sign-up, invitations | `3-signup`, `4-invite` | `user`, `user_role`, `invitation` | several inserts without a transaction |
| Roles and organizations | `shared/user`, `account.service.ts` | `user_role`, role columns of the refresh token | role switch against refresh |
| Task store | `2-task/task.service.ts` | a list in memory, task and comment tables, a JSON document | saves in the background walk a list that changes; restarts, replicas |
| Project plans | `4-plan/plan.service.ts` | a list in memory, plan and phase tables, a JSON document | the whole list is saved for every change; ids return |
| Planner schedules | `6-planner/planner.service.ts` | one JSON document | read, edited, written whole |
| Attendance, leave, meetings | `3-admin/4-attendance`, `1-home` | single rows | little |
| Administration, reports, activity | `3-admin`, `5-report`, `3-activity` | single rows, a JSON file | little |
| Notifications, realtime | `shared/notification`, `shared/realtime` | a list in memory, socket rooms | delivery is best effort |
| Web session | `web/src/app/core/auth`, `api/src/app/common` | access token and flag in local storage, refresh cookie, one refresh in flight per tab | several calls and tabs meet one expired token; calls that wait are cancelled |
| Web passcode lock | `web/src/app/core/local-passcode`, `3-lock` | signals of each tab, the stored proof shared by the tabs | answers that are late, timers, other tabs |

**How the parts interact.** Every login, whatever its kind, ends in
`AuthSessionService.createLoginResponse` (or the same steps inline): find or
insert the session row of the device, revoke the session's live refresh tokens,
insert a new one. A QR scan or a verified OTP challenge leads there; a verified
challenge also leads to a password reset or a passcode-reset ticket. The web
client presents refresh tokens to `rotate`, in a cookie the API's interceptor sets,
and the access tokens it gets with them to every other handler. The lock screen
asks the passcode service whether there is a passcode and whether one is right. The
task store reads the plans for prefixes of codes; otherwise the two stores are
independent.

**What runs concurrently.** Nest handles requests in one Node process per
replica, and the deployment may run several replicas behind nginx (the root
README scales `api`). Handlers are chains of awaited SQL statements;
transactions are rare (of the code modelled here only the last step of
`resetPassword` is one). So between any two statements of a handler, any
statements of other handlers may run. That is the grain of all models: **one
awaited SQL statement is one action**. A handler that fails, a process that
stops and an answer that is lost are the action `Abort` (`Fail` and `Restart` in
the stores): what was written stays. In the browser the grain is the callback: what
runs between two awaits or observables of one tab is one action, and other tabs,
the server and the clock come in between.

**What makes the parts correct.**

* Refresh tokens: a family is never forked, outlives neither its login's lifetime
  nor its revocation, and a closed session stays closed until a login.
* QR login: a code lets in one scan, and the browser that shows it learns so.
* OTP challenges: a code is accepted once and before its own expiry; what was used or
  replaced does not return. (That the stored code has reached the user is not
  promised: a delivery that fails is logged, and the answer is the same.)
* Two-factor settings: a backup code is accepted once, none is lost, and what was
  disabled stays disabled.
* Passcode: wrong attempts are all counted, a reset ticket sets one passcode, an
  enabled passcode has a hash.
* Passkeys and invitations: a challenge or an invitation is used once, and a failure
  half-way leaves an account that can be completed.
* Roles: the role context of a refresh token is the one chosen last and still held.
* Task store, plans, schedules: what was answered is stored; memory and table agree
  when nothing runs, so that a restart shows what was shown; an id that returns brings
  nothing along; the saves come to an end.
* Web session: a browser left in peace stays signed in until its user signs out,
  and then its session is closed.
* Web passcode lock: an idle tab locks, what is locked shows nothing before the
  passcode is entered, and a tab knows whether there is one.

The hazards behind these, at the line where each bites, are under `hazards` in
`PROJECT.json`.

## 2. The modules

| Module | Models | Notes |
|---|---|---|
| `FamilyBaton` | abstract: a token family as a baton handed from one holder to the next | |
| `RefreshTokens` | `user_refresh_token`, `user_session`; login, refresh, logout | the core |
| `RefreshTokensReuse` | `RefreshTokens` with a history of the reuses that were detected and answered | for the run `reuse` |
| `RefreshTokensBaton` | the refinement mapping from `RefreshTokens` to `FamilyBaton` | `HoldsBaton` |
| `OneTimeCode` | abstract: a code is issued, withdrawn or spent, once | |
| `QrLogin` | `qr_login_session`; create, poll, scan | with its refinement mapping to `OneTimeCode` |
| `QrLoginProofs` | `QrKeepsOneTime`, `QrTyped` | the refinement, proved |
| `OtpChallenges` | `user_otp`; create, deliver or fail to, resend, verify, complete, reset the password | |
| `RowSave` | TypeORM's `repository.save(entity)` on an existing row | external code |
| `OtpSettings` | `user_otp_setting` | uses `RowSave` |
| `OtpSettingsProofs` | `SettingsTyped`, `CodesStayGone`, `CodeSpentOnce`, `UnspentStayStored`, `StaysDisabled` | |
| `Passcodes` | `user_passcode` | uses `RowSave` |
| `PasscodesProofs` | `PasscodesGone`, `PasscodesTyped`, `EnabledKeepsHash`, `LocksInTime`, `TicketSpentOnce` | |
| `TaskStore` | the task list of every API process, `task.tasks`, `user.task_store`; load, migration, background saves, create, update, delete, restart | |
| `TaskStoreProofs` | `TasksTyped`, `CreatedTasksStored`, `TasksAgree` | |
| `PlanStore` | the plans of one API process, their table with its unique index, `project_phases`, `user.plan_store`; load, awaited saves, plans with codes and ids of the client's or the API's, phases, restart | |
| `PlanStoreProofs` | `PlansTyped`, `CreatedPlansStored`, `PlansSurviveRestart`, `PhasesOwned` | |
| `WebSession` | the tabs of a browser, their calls and POSTs of `/auth/refresh`, its storage and cookie; **composed** with `RefreshTokens`, whose actions are the server's side of its own | EXTENDS `RefreshTokens` |
| `SessionProofs` | of the server: `TypeCorrect`, `NeverForked`, `RotationKeepsLifetime`, `RefinesBaton`, `OnlyLoginOpens`; of browser and server: `ServerBehindBrowser`, `NeverForkedBehindBrowser`, `WebTyped`, `CalmNeverRebuffed`, `CalmCookieIsLive`, `CalmStaysSignedIn` | with the refinement |
| `PasscodeLock` | the screen lock: guard, lock screen, idle timer, status answers, over the tabs of a browser | |
| `PasscodeLockProofs` | `LockTyped`, `LockStaysArmed`, `LockHoldsUntilEntered` | |
| `OtpChallengesProofs` | `OtpTyped`, `StoredCodesKeepExpiry`, `UsedUpForGood` | |
| `MC...` | instances for TLC: symmetry sets | one `.cfg` per run |

Operators named as a *Fault* in a comment are not part of any specification: each
is a definition as a plausible bug would have it, kept to show that the property
named beside it in `PROJECT.json` (`mutants`) notices the bug.

### State and actions against the code

Each action carries the name of the statement or handler it stands for in its
comment, and `PROJECT.json` (`map`) gives the lines. The control state of a
request is `pc[r]`, the next statement it will run, together with the local
variables that survive an await (`held`, `next`, `sess`, ... in `RefreshTokens`;
`row`, `draft`, `until`, `found` in `OtpChallenges`; `entity`, `cols` where rows
are saved whole). A request slot is reused after its handler has returned, so a
small set of slots stands for an unbounded number of requests with a bounded
number in flight at a time. In `TaskStore` and `PlanStore` a call is a record,
`call[p]`, of its next statement (`at`), what it works for (`job`), the list it
walks and where it is in it (`arr`, `idx`) and what it has read; a load of the
constructor and a save in the background are calls as well.

*Lists that are filtered.* What a load puts in memory is not always what it has read.
`task.service.ts` drops the tasks of PMS (`isPmsTask`) from the rows and from the
document it loads, though it lets them be created: such a task is listed from its
creation to the next restart, its row stays, and it is never listed again. In
`TaskStore` what a task's code and project say is `code`, `Pms` are the tasks the
filter drops, and `HealRows` are the `UPDATE`s a load makes of the rows it keeps.
`getPlans` drops the plans with a code `BMS-DIGI-<n>` from the list, and gives those
with an old name a new name and the code `BMS-DIGI`, in memory only; the migration of
the plans leaves out the demonstration plans. These are `DigiCodes`, `BmsCode` and
`DemoCodes` in `PlanStore`; which plans have an old name is any subset.

*Codes and ids of plans.* A plan has an id, which is its key, and a code, each given
by the client or else computed from the list. Nothing compares them with those in use
but the unique index on the codes of the table, whose refusal the saves swallow
(`Refused`): it counts as a statement that failed. Phases given with a creation or an
update are in the plan's object and in the document, and never in the table.

*Lists in memory.* `this.tasks` and `this.projects` are assigned by loads (and
`getPlans`) and changed in place by requests, while `for ... of` loops that await
walk them. So `arrays` keeps every list a process has had since it was started: the
last is the field's value, an older one is reached by the saves that are still
walking it. In `PlanStore` lists hold objects that are edited in place, hence
`objects` and positions; a task is only ever replaced.

*Browser and server.* Each step of `WebSession` is a step of the browser that
leaves the server alone, or a step of `RefreshTokens` together with what the
browser does of it: sign-in starts `StartLogin`, the refresh of a tab is `ReadToken`
with the cookie it was sent with, and the answers (`Respond`, the end of
`CutTokens`/`CutSession`, `LogoutDevice`, `Abort`) reach the tab that waits, or
nobody if its page has gone. A tab's `_refreshTokenInProgress` is `current[t]`, and
it is apart from the POST it stands for (`asked`, `from`, `with`: how far it is, the
tab that sent it, the cookie it took along): in `refreshAccessToken` `finalize`
stands after `shareReplay(1)`, so it runs for every call that waits, and the first of
them to go clears the field. `Cancel` is a waiting call that is unsubscribed from (its
component is destroyed, as the `takeUntil` of the notifications page does): the POST
goes on, with whoever still waits for it, and the tab's next 401 sends another one
with the same cookie. Calm (`calm`) is a history variable: it is true as long as none
of the mishaps listed in the module has occurred that are known to cost a browser its
session.

*Database.* A conditional `UPDATE` is atomic and tells how many rows it hit; this
is what PostgreSQL gives a single statement at READ COMMITTED. A `Promise.all` of
two statements runs them in either order, with others in between.

*`save()`.* `RowSave` and the actions `LookUp`, `Write`, `Update`, `Reinsert`
model how TypeORM saves an entity that was read earlier: it SELECTs the row
again, compares, and UPDATEs the columns in which the entity differs from what it
just selected; when the row is not there it INSERTs the entity with its old id.
Both matter: a column that somebody else changed since the entity was read counts
as a difference and is written back to its old value, and a deleted row comes
back. This is library code, modelled from how the services use it.

*Time.* A clock that may advance by a day (`RefreshTokens`) or a minute (the
others) between any two statements.

*Left out.* Role columns of a token, device metadata and login history, the text
of messages, hashing and TOTP arithmetic, the fixed codes that `verifyChallenge` and
`verifyLegacyOtp` take in development mode (the one of contact changes is taken in
production as well and is modelled, `VerifyFixedCode`). Generated secrets are fresh.
Each module's header says what else it abstracts.

## 3. The runs

### Passing

| Run | Instance | Shows |
|---|---|---|
| `race` | 2 requests, 3 tokens, 1 device, 2 session rows, lifetime 3, idle 2, 3 days | `OneHeirPerFamily`: a family has at most one live token or one rotation about to insert it. `ClosedUntilLogin`: once the sessions of a device are closed and its requests over, only a login opens it. `RedeemedWithinLifetime`: rotation never outlives the lifetime given at login. `HoldsBaton`: the tables implement `FamilyBaton`. |
| `qr_scan` | 3 requests, 3 codes, 3 minutes | `KeepsOneTime`: QR login implements `OneTimeCode` |
| `otp_overlap` | 2 requests, 2 rows, 3 codes, all five purposes, deliveries that get lost, 2 minutes | `OwnExpiry`: a stored code carries the expiry computed for it. `GoneForGood`: a challenge nobody holds any more never returns. |
| `settings_saves` | 2 requests, 2 batches of 2 codes | `GoneForGood`: overlapping saves never bring back a code nothing holds. `UnspentAreStored`: what is stored is the batch shown last without the codes accepted since; it, `BackupCodeOnce` and `DisabledWhileAlone`: see below. |
| `passcode_saves` | 2 requests, 2 attempts lock, 2 passcodes, 1 ticket, 1 minute | `GoneForGood`: a passcode or ticket nothing holds never returns. `LockedWhileAlone`, `TicketOnce`, `EnabledHasHash`: see below. |
| `tasks` | 1 process, 2 requests, 2 background saves at a time, 2 tasks of 2 versions, of PMS or not, 1 restart or failing statement; with and without a document to migrate | `CreatedIsStored`: an answered creation has its row until its deletion is asked for. `QuietAgreement`: when nothing runs, list and table agree, but for deleted tasks that a save in flight has put back and tasks of PMS that a load has left out. `ComesToRest`: when no more requests come, everything that runs ends. |
| `plans` | 2 requests of which 3 are made, at most 2 calls at a time, 3 ids and codes, 2 plans of 2 versions, 1 phase each, 3 plan objects and 3 lists in memory, 1 restart or failing statement | `CreatedIsStored`, also when the id is one in use or that of a deleted plan. `RestartShowsPlans` and `OwnPhases` (a plan that takes over an id inherits no rows of phases): see below. |
| `web_tabs` | 2 tabs, 2 calls, 2 POSTs of refreshes on their way, 3 tokens, 1 request at a time at the server | Of a calm browser: `NeverRebuffed`: no refresh of its tabs meets reuse detection. `CookieIsLive`: the cookie is accepted next time. `SignedInUntilSignOut`: however many calls meet one expired token and whichever are cancelled, only the user signs out. |
| `web_lock` | 2 tabs, timeout 1, 2 requests on their way at a time | `LockIsArmed`: a tab knows whether there is a passcode, unless what it was told is overtaken. `LockHolds`: a tab locked for idleness shows nothing, reloaded or not, before the passcode is entered in some tab. `IdleTabLocks`: a tab nobody touches gets locked. |

Every module's `TypeOK` (`WebTypeOK`) is checked by one of these runs. It says more
than ranges where that is cheap: that a client only holds stored tokens, that a
request only works on rows that exist, that stored backup codes are of generated
batches, that `failed_attempts` never reaches the number that locks, that a call
that waits does so for a POST its own tab has on its way, that a page is shown only by
a proven tab.

*Properties with a premise.* Much of this code keeps nothing apart that overlaps,
so several properties speak of the histories in which they hold, and the premise is
an auxiliary variable:

* `alone` (`OtpSettings`, `Passcodes`, `PlanStore`): no request has taken a step
  while another one was half-way. The handlers of the first two read a row, edit
  the entity and save all of it; those of `PlanStore` choose a code before an await
  and save rows that others have changed.
  `BackupCodeOnce`, `UnspentAreStored`, `DisabledWhileAlone`, `LockedWhileAlone`,
  `TicketOnce`, `EnabledHasHash`, `RestartShowsPlans` and `OwnPhases` have this
  premise. Under it the runs still cover every sequence of handlers, each
  of which may stop at any statement; in `PlanStore` the constructor's load must
  have ended, too. The same runs check the properties that survive overlap over all
  interleavings.
* `failed` (`TaskStore`, `PlanStore`): a statement has failed. The stores swallow
  errors and answer as if nothing had happened. In `PlanStore` a code that the unique
  index refuses is such a failure. Restarts do not set it; `cut` (`PlanStore`) is set
  by a restart that cut a call short.
* `parted` (`PlanStore`): one request has made list and table differ for good: a
  creation with the id of a listed plan (two listed plans, one row), or a `getPlans`
  that dropped or renamed a plan in memory. `RestartShowsPlans` and `OwnPhases` are
  about the time before; codes and ids of the client's that are not in use, and codes
  in use as long as no save of theirs is refused, are covered.
* `gone` (`TaskStore`, `PlanStore`): what was asked to be deleted. Of such a task or
  plan nothing is promised: a background save that has picked it puts its row back.
* `calm` (`WebSession`): none of the mishaps has occurred that are known to end a
  session: a lost answer or a failing statement, a page that goes away while the
  server works for it, two refreshes that overlap, of two tabs or of one in which a
  waiting call was cancelled, a sign-in while something is on its way, a sign-out
  during a refresh, a replayed call that fails.
* `fresh`, `owed` (`PasscodeLock`): what the tab was told is still so; a tab locked
  for idleness has not been excused by a failing or overtaken answer since.

### Violations: what the repository says and the code does not do

Each checks one sentence of a document or test; TLC finds a run of the code that
contradicts it.

| Run | Sentence | What happens |
|---|---|---|
| `reuse` | test title: "revokes the token family and session when reuse is detected" | a rotation has consumed the token when a second refresh with the same token comes: reuse, both statements of `revokeFamily`, 401; then the rotation inserts the successor, `touchActivity` makes the session active again, and the client gets a token that can be redeemed |
| `web_shared` | `auth.service.ts`: "Concurrent callers share a single in-flight request instead of firing one each." | one of the calls that wait for a refresh is cancelled, the next 401 of the tab sends a second refresh with the same cookie while the first is on its way and still awaited (what it meets at the server is reuse detection) |
| `web_signout` | `api/docs/device-tracking.md`: "Session deactivation during logout." | the user signs out after the access token has expired: the logout is posted without it, refused, and not replayed because the storage was cleared at once; the session stays active and the cookie stays in the browser |

More sentences fall to the same kinds of races; no run repeats them, and they are
listed here because the models show them when the premise of a property is dropped
or the property is stated without one:

* "Backend marks QR as `used`" (`docs/postman/QR Login Flow README.md`): a late poll
  writes `expired` over `used`.
* "the OTP record is deleted so it cannot be reused"
  (`docs/project-implementation-diagrams.md`): two verifications read the row before
  either deletes it, and both pass; and the save of a resend in flight inserts the
  deleted row again.
* "Disables Google Authenticator and clears its secret and backup codes"
  (`otp.service.ts`): another channel's save turns it on again.
* "5 wrong attempts locks verification out" (`passcode.service.ts`): overlapping
  wrong attempts count once.
* "Consume the single-use backup code" and "single-use `reset_token`": two requests
  consume one.
* Two overlapping calls of `createQrLogin` leave two pending codes, and two of
  `issueOtp` two sign-up codes, though each is meant to replace what came before.
* `EnabledHasHash` without `alone` holds with two requests on the instances tried;
  with three a stale copy of an old row, an overlapping disable and a new passcode
  write their columns into one row that is enabled and has no hash.
* Tasks: a save that has picked a task inserts its row again after `deleteTask`; the
  next start shows it. A save that has picked an older version writes it over the
  row of an answered update. A second load drops from memory what was created since
  it read the table. A restart during the migration leaves some rows, and with them
  the rest of the document is never read again.
* Tasks of PMS: one that was created is answered, listed and stored, and gone from the
  list after a restart.
* Plans: two creations, one after the other, with the same id typed are two listed
  plans and one row, of which the next start shows one; a creation with a code in use
  is refused by the unique index and answered with 201, and so is, from then on, the
  rest of the walk of every save; phases that an update brings are shown until the
  next start and never reach `project_phases`; `getPlans` drops and renames plans in
  memory while their rows stay as they are.
* Plans: two overlapping creations choose one code, and so one row; a creation during
  `deletePlan` may take the id of the plan that is being deleted and lose its row to
  the `DELETE`; a stop between the two `DELETE`s leaves phases for the next plan with
  the id.
* Session: two tabs that refresh at once, or one tab in which a waiting call was
  cancelled, are signed out by reuse detection; a reload
  during a refresh loses the rotated cookie; a refresh in flight at sign-out stores
  its tokens afterwards; `auth.interceptor.ts` says that a 401 on the replayed
  request signs out, the code does so for every error of it.
* Lock: a failing status request, or an answer older than the last change, makes the
  tab believe that there is no passcode, which unlocks it.

### Bounds

Rows, codes, tokens, tasks and plans are finite sets: a bound on how many a
behaviour may create, not on what happens to them. Two requests are enough for every
race between two handlers; three are used where a third could matter and the
instance stays small (`qr_scan`). Three tokens let a family rotate twice, or two
families exist; in `race` every interleaving of two requests is explored on the first
day, and after it one request at a time on one session row, which is what the
lifetimes need (constraint `OverlapOnFirstDay`; without it the same properties were
run with 4 tokens and one request over 4 days). Three codes give two challenges a code
each and one of them a resend, or one challenge two overlapping resends. Two backup codes are one to consume and one that stays; two
passcodes are one to replace. Two wrong attempts lock instead of five: one that
counts and one that locks. The clocks run to every expiry and, where a run
has the day or minute after it, past it. Slots, rows, codes and
tokens that the code treats alike are symmetric, except in `tasks` and `web_lock`,
which check liveness, and in `reuse`.

`tasks`: two tasks are one that is deleted or shifted and one behind it, or one of
PMS and one that is not; two versions are one to be overwritten; two background saves
(`MaxSaves`) can overtake each other; two lists (`MaxArrays`) are the empty one and
the loaded one, so the run has no second load, which the theorems have. Its requests
are interchangeable, but it checks liveness: instead of symmetry the constraint
`InOrder` has the first made first. `plans`: two plans over three ids (`MaxPlan`,
`MaxId`) share an id or take it over, with one code of each of the special kinds;
three objects and lists (`MaxObjects`, `MaxArrays`) allow a load, an update that
replaces a plan and a reading request that replaces the list; `MaxBegun` and
`MaxRunning` bound the requests made and running. The constraint `Bounded` cuts the
product of everything with everything: calls overlap only while every code is its
plan's id and no plan has phases, and a third request is made only while codes are
ids, there are no more than two lists and no fault has fallen. The theorems have none of these bounds. In both, one fault (`MaxFaults`) is
a restart or a failing statement; the restart is followed by a load and, with the
requests that are left, by more work. `web_tabs`: two calls are two of one tab, which
join one refresh or, when one of them is cancelled, send two, or one each of two tabs;
two POSTs (`Posts`) are two refreshes that overlap; three tokens are a login and two
rotations, or two logins; the server runs one request at a time there, what it does
with two is the matter of `race`; days do not pass; a browser that is no longer calm,
of which only `WebTypeOK` speaks, is followed until its first refresh is done and a
second access token has expired (`CalmGoesOn`). `web_signout` has two request slots,
`web_shared` one tab. `web_lock`: a timeout of 1 is the shortest that separates
"just now" from "idle for too long" (a timeout of 2 was run as well and gave the same); two
requests on their way (`MaxBusy`) are a status and a command, of one tab or of two.

Other counters: `MaxSession`, `MaxClock`, `MaxBatch`, `MaxHash`, `MaxTicket`,
`MaxTask`, `MaxVersion`, `MaxPhase`. Deadlock checking is off for `OtpChallenges`,
`Passcodes`, `TaskStore`, `PlanStore` and `WebSession`: when their codes, passcodes,
tasks, requests or tokens have run out and nothing is running, an instance can do
nothing more.

### Fairness

The specifications of the API's handlers are `Init /\ [][Next]_vars`: a request may
stop at any statement, as a process may, and their properties are safety properties.
Two specifications state fairness.

`TaskStore!FairSpec` has weak fairness of the next step of every call: the process
runs what its calls wait for, and PostgreSQL answers or fails. Nobody has to make a
request and nothing has to fail. `ComesToRest` says that the walk of a list cannot
go on for ever, though requests lengthen the list while it is walked.

`PasscodeLock!FairSpec` has weak fairness of the clock, and for every tab of its
status request and its command (answered or failed: a browser does not let a request
wait for ever) and of the timer (`setInterval`, and again when the tab is looked at).
The user need not do anything. `IdleTabLocks` speaks of tabs in which the user
eventually does nothing.

## 4. What is proved

The proofs hold for every value of the constants that satisfies the `ASSUME`s of
the modules (lifetimes and bounds are positive or natural numbers, the `No...`
values are not members of the sets they stand beside).

* **`SessionProofs!TypeCorrect`**: `Spec => []TypeOK`. `TypeOK` is not
  inductive: a request could answer with no token or mint without one. `TypeInv`
  adds what the rows refer to (`RowsWellFormed`: the family of a row is a row) and
  what the locals of a request hold at each of its statements
  (`LocalsWellFormed`: one that consumes or mints holds a stored token, one that
  answers has a token and a session, one that mints has used its token).
* **`SessionProofs!NeverForked`**: `Spec => []OneHeirPerFamily`, from
  `HeirInv == TypeInv /\ OneHeirPerFamily`. Lemma `HeirKept` disposes of every
  statement that inserts no token, uses none and starts no rotation: it can only
  take live tokens and rotations away. Three statements are left, each with a
  lemma: the conditional `UPDATE` (`ConsumeKeepsHeir`) turns the one live token
  into the one rotation, which is where the affected-rows test is needed; the
  `INSERT` of a login (`MintFirstKeepsHeir`) makes a family nobody can hold; the
  `INSERT` of a rotation (`MintNextKeepsHeir`) turns the one rotation back into
  the one live token.
* **`QrLoginProofs!QrKeepsOneTime`**: `Spec => KeepsOneTime`, the refinement of
  `OneTimeCode`. The invariant says that a request works on rows that exist
  (`RowsTyped`) and that a row with `used_at` set is not pending any more
  (`UnusedWhileOpen`), so the `UPDATE ... AND status = 'pending'` never hits a
  claimed row again. `StepMaps` has one step per action: an abstract step or a
  stutter.
* **`PasscodesProofs!PasscodesGone`**: `Spec => GoneForGood`, for any number of
  overlapping requests. `Shaped` is all the argument needs of types; `Kept` says
  that every passcode and ticket held after a step was held before it, or is 0, or
  has just been made. Lemma `WrittenShape` carries the weight: a save writes,
  column by column, the row's or the entity's value and nothing else; `Moved` and
  `Edited` turn it into `Kept`, action by action.
* **`TaskStoreProofs!TasksTyped`** and **`CreatedTasksStored`**: `Spec => []TypeOK`
  and `Spec => []CreatedIsStored`, for any number of processes, requests, background
  saves, tasks and restarts. Neither is inductive. `Inv` adds what the next statement
  of every call needs (`CallOK`: the list it walks exists, the task it saves is a
  task, a deletion is of a task noted as `gone`) and `Safe`, the tasks that need no
  further save: a creation that only has to answer, or whose `SELECT` found the row,
  is safe, and so is every created task. `Safe` never loses a task (`Kept`), because
  only `DeleteRow` takes a row away; hence no save, load or restart can.
* **`TaskStoreProofs!TasksAgree`**: `Spec => []QuietAgreement`, however requests and
  background saves overlap in the one process it speaks of. `Known` says that every
  task in a list, in the document or about to be saved was created once, so that a
  new task is none of them. `SingleInv` is the agreement while calls run (`Once`): a
  row that is saved is of a task that is listed, was deleted or is one of PMS, a task
  that is listed has its row or a creation that is about to insert it, a seed has
  stored what it has passed, and a list is loaded with no request beside it. That a
  load leaves out just the tasks of PMS is the filter of the code, applied to the rows
  (`HealRows`) or to the document (`Seed`). It holds of the first list a process loads
  only: of two loads that requests start side by side the later one replaces a list in
  which a task may have been created meanwhile.
* **`PlanStoreProofs!PlansTyped`** and **`CreatedPlansStored`**: `TypeOK` and
  `CreatedIsStored`, for any overlap of requests, saves, loads and restarts. Ids
  return, so `Inv` cannot say that a row is of one plan; it says that every row, every
  object and every entry of the document names a plan created with its id (`NamesOK`),
  and that what a deletion is about to drop is of plans that are gone (`Doomed`), also
  of one whose creation is half-way with the id.
* **`PlanStoreProofs!PlansSurviveRestart`** and **`PhasesOwned`**: `RestartShowsPlans`
  and `OwnPhases`, about requests that have run one at a time so far and have not
  parted list and table. `AloneInv` has three layers. `AloneNow` survives failed
  statements and restarts: the list and the document have no id twice, and the one call
  that runs walks the list that is current. `SyncNow` holds as long as no statement
  fails or is refused: up to the place the walk has reached, every listed plan has its
  row, with its code, and no row is of anything else but of the plan a deletion is for
  (`Synced`). `PhasesNow` holds as long as no restart cuts a call short, either: rows of
  phases are of stored plans and theirs, but for those a deletion drops last (`Held`).
  That the phases shown are those of the table is no part of it, and not so: updates
  and creations bring phases that have no row. That restarts may cut a save short
  without harm to `RestartShowsPlans` is no part of the invariant, either: a load reads
  the table whatever it holds, and the document only when the table is empty.
* **`SessionProofs!ServerBehindBrowser`**: `WebSpec => Spec`: every step of the
  tabs and the server is a step of `RefreshTokens` or leaves the server alone
  (`WebStepIsServerStep`). **`NeverForkedBehindBrowser`** follows: no tab, reload,
  replay or lost answer forks a family. **`WebTyped`** needs whom each request serves
  (`FlowInv`, `ServesInv`: no POST and no call is served twice), without which an
  answer could end a POST that another request still works for.
* **`SessionProofs!CalmNeverRebuffed`**, **`CalmCookieIsLive`** and
  **`CalmStaysSignedIn`** are `NeverRebuffed`, `CookieIsLive` and
  `SignedInUntilSignOut`, the properties with the premise `calm`. None is inductive,
  nor are they together. `CalmIInv` says of a calm browser that the server works for
  one page at a time and at most one refresh is on its way (`OneAtATime`), that only a
  signed-in browser refreshes and only
  a signed-out one has a logout on its way (`SignedInInv`), and that a token that is
  live and of an active session is in the cookie when nothing runs, else in the
  request that rotates (`CookieInv`). Every step either ends the calm (`CalmEnds`) or
  keeps the three; that no failure branch of the interceptor is taken (`NoRefusal`) is
  a consequence, and with it that only `signOut` clears the storage.
* **`OtpChallengesProofs`**: `OtpTyped`, `StoredCodesKeepExpiry` and `UsedUpForGood`
  are `TypeOK`, `OwnExpiry` and `GoneForGood`. `TypeInv` adds what the request of each
  statement holds. For `OwnExpiry` the invariant says that a generated code is carried
  by one request and stored in no row until that request writes it (`ExpiryInv`), so
  that an overlapping save cannot pair it with another expiry.
* **`PasscodeLockProofs`**: `LockTyped`, `LockStaysArmed` and `LockHoldsUntilEntered`
  are `TypeOK`, `LockIsArmed` and `LockHolds`, for any number of tabs and requests and
  any timeout. `Knows` says what a tab in `fresh` can rely on: an answer on its way is
  still true, and with none on its way `enabled` is, unless its own command has just
  changed that. `LockHolds` needs that a tab in `owed` is not proven and that, while
  there is one, no proof is stored: the lock of any tab takes the proof away from all.
* **`SessionProofs!RotationKeepsLifetime`**, **`RefinesBaton`** and
  **`OnlyLoginOpens`** are `RedeemedWithinLifetime`, `HoldsBaton` and
  `ClosedUntilLogin`. `FamilyInv` says that all tokens of a family have the expiry of
  the token it is named after (`RootsInv`) and that a rotation works on one that had
  not lapsed when it was read (`InTimeInv`). The baton needs this and
  `OneHeirPerFamily`, by which `Holder`, a `CHOOSE`, has one value (`HolderIs`); then
  the conditional `UPDATE` and the two `INSERT`s move one baton and every other
  statement loses some or none. `OnlyLoginOpens` needs that the session a login or a
  rotation is about to make active is one of its own device (`FoundInv`).
* **`QrLoginProofs!QrTyped`** is `TypeOK`, from the same invariant as the refinement.
* **`PasscodesProofs!PasscodesTyped`**, **`EnabledKeepsHash`**, **`LocksInTime`** and
  **`TicketSpentOnce`** are `TypeOK`, `EnabledHasHash`, `LockedWhileAlone` and
  `TicketOnce`. `AloneInv` is a statement about `alone` histories: the row is sound
  between requests (`RowInv`), and the copy the one running request holds differs from
  it only in what the request came for (`CopyInv`), so that an `UPDATE` of the columns
  that differ makes the row the copy (`WrittenRows`).
* **`OtpSettingsProofs`**: `SettingsTyped`, `CodesStayGone`, `CodeSpentOnce`,
  `UnspentStayStored` and `StaysDisabled` are `TypeOK`, `GoneForGood`,
  `BackupCodeOnce`, `UnspentAreStored` and `DisabledWhileAlone`. `GoneForGood` holds of
  any overlap: a save only moves codes between the row and the copies, and new ones
  carry a new batch number (`StaysGone`). The others follow as in `PasscodesProofs`,
  with `SoundRow`: the stored codes are those shown last without those spent.

Every invariant and every action property of the passing runs is stated by one of
these theorems.

*Only model-checked*: the liveness properties, `ComesToRest` of `TaskStore` and
`IdleTabLocks` of `PasscodeLock`: fairness and `ENABLED` are out of the prover's
reach. No module declares a `RECURSIVE` operator.

## 5. Not modelled, and why

`PROJECT.json` (`components`) lists every part with its reason. In short: queries
and rendering have no state; delivery and files are I/O; the other logins differ
from the modelled one in how identity is established, which a remote provider does.
Planner schedules, passkey challenges, invitations and meetings read and write
without anything that keeps overlapping requests apart, so that the properties one
would want of them do not hold; the hazards name the lines. Roles and organizations
are updates of one or two rows that none of the modelled parts reads. `revokeAllForUser`
has no caller.

In the modelled parts: rights (a refused request is an early return that changes
nothing), the content of tasks, plans and meetings, the table of comments and the
counts kept of them, totals of plans, role columns
and device metadata of sessions, login history, notifications. `TaskStore` allows
several processes and the theorems cover them; the run has one. A second replica of
`PlanStore`, the logins other than by password in `WebSession`, and signing out
and in, other idle timeouts and the screens of a reset in `PasscodeLock` are left
out. `PasscodeLock` is of the routes that have `LocalPasscodeGuard`; `/verify/member`
and `/attendance/scan` have none and are shown whether the tab is locked or not.

## 6. What remains

Worth adding next: the comments of tasks (`createTaskComment` holds a task over an
await); two replicas of the plans; `switchRole` and the role columns of refresh
tokens in `WebSession`; `PasscodeLock` composed with `Passcodes` instead of a
server that only knows whether there is a passcode.
