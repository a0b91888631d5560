# AMG Portal: TLA+ specifications

The AMG Portal is a client-program platform: a FastAPI backend over Postgres
(`backend/app`), about thirty APScheduler jobs, a Next.js web client
(`frontend/src`) and an Expo mobile app (`mobile`). This directory specifies the
parts whose correctness depends on what several requests, jobs, calls, tabs or
app instances do at the same time, and on what is left after a crash or a lost
answer. The specifications are checked by TLC on small instances; all but one safety
property and the refinement are also proved by TLAPS for every value of the
constants.

## How the backend executes

The backend modules rest on four facts of the code.

* A request handler or job is one `AsyncSession` (`db/session.py`), Postgres
  runs READ COMMITTED, `expire_on_commit=False`. Nothing locks a row when it
  reads it (`with_for_update` is not used on any modelled path) and no row has
  a version column.
* What a handler loaded stays in its ORM objects while others commit. An UPDATE
  writes only the columns whose value differs from the value *loaded*, not from
  the value in the table.
* A query flushes pending changes first (autoflush).
* A flush runs two listeners (`core/audit_listener.py`) around its statements.
  `before_flush` hashes the `AuditLog` rows a handler has added itself;
  `after_flush` adds one audit row per recorded change (of every table but
  `audit_logs`, `audit_checkpoints`, `alembic_version`). Each calls
  `finalize_chain`, if it has rows to hash, which takes the one advisory lock of
  the audit chain and keeps it until commit. A session with `skip_audit` (imports)
  and a flush that records nothing take no lock. From the end of the flush that
  gives it its first audit row to its commit, a transaction therefore excludes
  every other one with audit rows; `FlushLocks` checks exactly this (`OneWriter`).
  The tables of `ProgramLifecycle`, `BudgetApproval` and `TaskBoard` are audited
  and the handlers modelled there never set `skip_audit`, so these modules make
  a handler's reads separate steps and its write phase one (variable `writer` of
  `ProgramLifecycle`, the single step of a decision in `BudgetApproval`, `Commit`
  of `TaskBoard`).

## How the clients execute

JavaScript runs a handler to its next `await` without interruption. A step of a
client module is therefore the code from one `await` to the next, including the
promises it resolves on the way (`processQueue` and the replays that follow it,
say), and everything else in the tab or app may happen at an `await`. Module
variables (`isRefreshing`, `failedQueue`) and zustand stores are shared by all
calls of a tab and lost with it; cookies are shared by the tabs; SecureStore and
AsyncStorage survive a restart and are written one key at a time. Both clients'
axios instances end a call after 30 seconds, so an answer may be lost after the
server acted. The web client's refresh goes through its instance; the mobile one
(`mobile/lib/api.ts:120`) is a bare `axios.post` without any timeout, and may
stay unanswered for ever.

## Inventory

| Component | State | Operations | Interacts with | Hard because |
|---|---|---|---|---|
| Program life cycle (`program_state_machine.py`, `programs.py`) | `programs.status`, `budget_envelope`, milestones | PATCH through the state machine, emergency activation, milestone CRUD | budget approvals, closure, archival, deletion, dispatch (which commits) | guards and holds use stale reads; five handlers write the status, three of them past the state machine |
| Program closure (`closure_service.py`) | `program_closures` row, checklist, ratings | initiate, tick, rate, complete | program, partners | stale checklist, lost auto-mark, completion from any status |
| Archival, deletion (`archival_service.py`, `deletion_service.py`) | program status, deletion requests | archive, request, approve, reject | program, tasks, communications | written without looking at other sessions |
| Budget approval (`budget_approval_service.py`, `program_budget_service.py`) | request, steps, chain | create, decide, advance, cancel, edit chain | program activation | step counter, concurrent decisions |
| Audit chain (`audit_chain.py`, `audit_listener.py`) | `audit_logs`, `audit_checkpoints` | hash at flush, sign, verify | every write of the system | one chain for all workers; two hooks per flush; midnight |
| Database locks (`db/session.py`, `audit_listener.py`) | row locks, advisory lock | flush, commit, rollback | every write | lock order |
| Task cascade (`task_cascade_service.py`, `tasks.py`, `programs.py`, `public/webhooks.py`) | task and milestone status | derive on task change, revert on new task, edit the milestone | program guards, task board | derived from stale siblings; deletions and the public endpoints do not cascade; `update_milestone` writes over the cascade |
| Task board (`use-task-board.ts`) | cached list, mutations in flight | create, edit, drag, delete, bulk | task endpoints | a fetch under way when a mutation commits; drags do not invalidate |
| Web API client (`lib/api.ts`, `stores/step-up.ts`, `step-up-modal.tsx`, `auth-provider.tsx`) | refresh flag and queue per tab, cookies, step-up prompt and token cache, user | send, 401 handling, refresh, step-up, sign in and out | authentication, every page | one flag, one queue and one prompt for all calls; rotation and reuse detection at the server |
| Mobile session (`mobile/lib/api.ts`, `auth-store.ts`, `login.tsx`, `_layout.tsx`) | three SecureStore keys, store, refresh flag and queue | 401 handling, refresh, sign in and out, hydrate, gate | authentication, every screen | two copies of the session, written key by key; restarts |
| Mobile offline queue (`use-offline-messages.ts`, `use-offline.ts`, `DataCache.ts`) | one stored entry, connectivity per hook instance | queue, drain, expire | conversations endpoint | read, await, write back; flapping network; restarts |
| Escalations, SLA (`services/escalation`, `sla_service.py`) | escalation level and status, trackers | trigger, acknowledge, resolve, auto-progress, breach | scheduler, milestones | scheduler races users; duplicates |
| Partner assignments, deliverables | assignment and deliverable status | dispatch, accept, decline, submit, review | closure, conversations | two parties and dispatch commits |
| Meetings, decision and document requests | slots, request status | book, confirm, cancel, overdue job | scheduler | check then insert |
| Webhooks (`webhook_service.py`) | `failure_count`, enabled | deliver, retry, disable at 10 | every event | concurrent counters |
| Intake and client approval | approval status | submit, compliance and MD decision | KYC | order of decisions |
| Authentication | refresh-token families | login, rotate, revoke | both clients | concurrent rotation |
| Real-time clients (`use-websocket.ts`, web and mobile) | one socket, reconnect timer | connect, authenticate, reconnect | notifications | the close of an old socket schedules another connection |
| Reports, search, exports, documents, CRM, surveys, travel, pages and screens | | reads, CRUD, rendering, storage | | not stateful in an interesting way |

`PROJECT.json` lists every component with its status, and every hazard at its
line with the property that covers it or the module planned for it.

## Modules

| Module | What it specifies |
|---|---|
| `ProgramLifecycle` | one program row, its milestones, open approvals and closure record; all handlers that write them |
| `BudgetApproval` | one approval request, its steps and its chain |
| `AuditChain` | the audit log, the advisory lock, sign and verify jobs |
| `FlushLocks` | row locks and the advisory lock, deadlock detection |
| `TaskBoard` | the tasks of one milestone, from the board's mutations over the endpoints and the cascade back to the cached list |
| `ApiClient` | the web client's calls, refresh, step-up and sign-in state, with the server's refresh-token families |
| `MobileSession` | the mobile app's calls, refresh, sign-in, sign-out and restarts |
| `OfflineMessages` | the mobile app's offline message queue |
| `Outbox` | what such a queue promises; `OfflineMessages` implements it |
| `*Proofs` | the theorems about the module of that name, one for each of the eight component modules |
| `MC*` | the instances TLC checks |

### ProgramLifecycle

`tx[s]` is what session `s` has in memory: the operation, the status of its
ORM object (`cur`), whether that column is dirty, the loaded and the new budget,
what it saw of the closure. Each handler is split where it reads:

* PATCH: `LoadUpdate` (load, `validate_transition`), `RunGuard` (the guard's
  queries), `FlushStatus` (flush; with a template to dispatch, `create_notification`
  and `dispatch_template_message` commit here), `CheckBudget` (autoflush, pending
  approvals, hold), `CommitUpdate`.
* Emergency activation, archival, approved deletion: load and commit, with the
  check between them where it is a query of its own.
* Closure: `LoadInitiate`/`CommitInitiate` (unique `program_id` decides a race),
  `LoadChecklist`/`CommitChecklist`, `LoadClosure`/`CheckClosure`/`CommitClosure`.
  Whether all partners are rated is an input.
* Single-statement writers that never look at the program (milestones, approval
  requests) are atomic steps. Milestone statuses are abstracted to completed or
  not, the only distinction a guard makes.

`activated` is a history variable. `Spec` has all interleavings, `SerialSpec`
one request at a time; the serial properties are those of the design, the
concurrent ones those that survive stale reads. A deletion may be approved at
any time: the two-person workflow in front of it only restricts when.

### BudgetApproval

`current` is `current_step`, `step` the status of every step, `parallel` the step
numbers that have a parallel step in the chain *now* (`_advance_request` reads
the chain back; `EditChain` changes it, but chain steps of a request cannot be
removed because its steps refer to them). A decision is three steps: load the
step, load the request, and the write phase, which reads the other steps as
committed. `Column` is SQLAlchemy's rule for changed columns. `twice` is a history
variable: a decision was written to a step that somebody else had decided since
it was loaded (nothing locks it). `Spec` has every interleaving, that one
included; `SerialSpec` one session at a time. Roles and assignment only refuse
callers and are left out.

### AuditChain

A row is `[at, prev, key]`: its `created_at`, that of the row its `prev_hash`
stands for, and the day whose key made its HMAC. A flush hashes rows added by
handlers (`before_flush`), inserts everything pending, then hashes one row per
changed entity (`after_flush`) which the *next* flush inserts; the tail is read
from the table, so it sees inserted rows and not pending ones. The sign job
reads and commits in two steps. Assumptions: `created_at` is strictly increasing
across workers (one database host clock within the resolution of a microsecond
and rows hashed under one lock), and no transaction that hashed a row before
midnight is open when the sign job starts at 00:05. `skip_audit` sessions (bulk
imports, seeds) write no audit rows and do not appear.

### FlushLocks

A flush has up to three phases. `before_flush` waits for the advisory lock if the
handler has added audit rows (`direct`), the UPDATEs wait for their rows in a fixed
order (SQLAlchemy sorts by table and primary key), and `after_flush` waits for the
advisory lock if there is something to record (`listened`). `SkipAudit` are the
sessions with `skip_audit`, for which both listeners return at once. `audits` is a
history variable: the transaction has, or is about to have, audit rows. Locks end
with the transaction. Postgres aborts a member of a waiting cycle; the listeners
catch the exception, but the transaction is lost. Fairness: weak fairness of each
transaction's progress (the server schedules it, every handler commits, rolls
back or is closed by `get_db`), strong fairness of the two lock grants, since
Postgres queues waiters in order of arrival. Handlers are not required to start
a flush.

### TaskBoard

Composes three layers. The board (`handle*`, `OnSuccess`, `OnError`) starts
requests from what its cached list shows and invalidates the list. The endpoints
of `tasks.py` load (`Load`, `LoadMilestone`), commit and, where the code does,
refresh (`RefreshTask`). The cascade is `CascadeRead` and `CascadeWrite`, once per
changed task, each a step of its own because other requests commit in between.
Beside the board, the other writers of the same two columns: `batch_reorder_tasks`
(`BatchReorder`: a status of its own for each task, missing tasks skipped, the
target column read in each round, one commit, one cascade per changed task),
`add_task` and `update_task` of `programs.py`, `update_milestone`
(`UpdateMilestone`, `CommitMilestone`: any status, no look at the tasks), and the
two public endpoints, which run no cascade (`Silent`).

`job[j].seen` are the rows the session has loaded. They are not expired on commit,
and the cascade's query does not repopulate those that are still referenced:
`Siblings` takes them at their old value. SQLAlchemy's identity map is weak, so in
the loops over many tasks any part of them may be gone (`Held`), and a milestone
that an earlier call of the cascade left there with its tasks may or may not be
read again (`CascadeSkip`). The flush before the second SELECT of such a loop takes
the audit lock, hence the rest of the loop is part of `Commit`. A batch names a
task at most once here. `version` numbers the commits, so that a list can be
compared with a mutation.

`overlap`, `settled` and `trusted` are history variables. `settled`: since a status
change that ran alone, neither a task nor the milestone was written. `trusted`:
since then no requests overlapped, no cascade failed, nobody edited the milestone
and no public endpoint wrote a task. react-query is external: an invalidation
cancels the fetch under way and starts another. Positions, assignees and dates are
left out because nothing derives from them; the clash of positions with a deleted
row is `MayFail`. Fairness: requests are answered, callbacks run, and a list that
stayed stale is fetched again when the window gets the focus; users owe nothing.

### ApiClient

A token pair is the number under which it was issued, so "newer" is "greater".
`st[c]` is where a call is, `req[c]` what it carries (`carried` is the cookie
attached when it was sent, `header` the action of its step-up token). The
interceptor is `PassOn`, `StepUp` and `Unauthorized`; the refresh it starts is
`refresh[t]`, read and committed by the server in two steps (`RefreshRead`,
`RefreshCommit`: no row is locked between them), and ends in `RefreshSucceeds`
or `RefreshFails`. The modal's `Submit`, `Minted` and `Cancel` act on the one
prompt of the tab. A logout is a call of its own whose answer clears whatever
cookies there are by then. A login and the `getCurrentUser` after it are one step,
which may leave cookies without a user; pages make no calls before there is one.
Fairness: calls time out (the refresh too, `api.post` of the instance), answers are
handled, and the user does not leave the step-up dialog open for ever (`Cancel`), which is the
only assumption about a person.

### MobileSession

`disk` are the three SecureStore keys, `mem` the zustand store. Every function
that touches several keys is a sequence of steps (`LeaveStep` for `logout()`,
`SetAuth`, `ClearAuth`, `StoreAccess` and `StoreRefresh`), and `Crash` may come
between any two, as often as it likes. The server's answer and the interceptor's
reaction are one step, and so are the three reads of `hydrate`, during which no
screen exists. That the server revokes a whole family on reuse is left out, which
only lets more refreshes succeed. Fairness: calls of the api instance time out,
promises and effects run; users, expiry and crashes owe nothing, and neither does
the refresh: it is posted without a timeout (`RefreshAnswered` has no fairness), so
`CallsSettleUnlessWedged` excepts the calls that wait for it for ever (`Unanswered`).
`signedOut` is a history variable: "yes" once a sign-out
has ended that nothing wrote across.

### OfflineMessages and Outbox

`queue` is the stored array; `compose` is `queueMessage` between its read and its
write, `drain[d]` a run of `processQueue`. The screen and the queue hook each
have their own `useOffline`, hence `online` per instance and `pending` for
handlers suspended before they apply what they computed. A failed send may have
been received. `Spec` has every interleaving; `CalmSpec` those in which
operations on the queue do not overlap (`Quiet`), with crashes anywhere. Its
fairness is that of code that runs on once it is called: storage calls return and
suspended handlers resume. That sends settle and that the running app sees its
network come back again and again are hypotheses of `QueueDrains`, not fairness:
nothing ensures either. `Outbox`
says: held until delivered at least once, failed more often than the limit, or
expired. The refinement maps `held` to the identifiers in the stored entry and
the other variables to themselves.

## Runs

| Run | Bounds | Result |
|---|---|---|
| `ProgramSerial` | 1 session, 2 milestones, 3 amounts, 2 open requests | life-cycle rules hold one request at a time |
| `ProgramRaces` | 2 sessions, 1 milestone, 1 amount, 1 open request; symmetric sessions | activation never skipped, closed has a closure record |
| `BudgetSerial` | 3 sequential steps | last approval completes, rejection is final |
| `BudgetConcurrent` | 3 sessions, 3 steps, two of one number, chain edits that make it parallel or not | an approved request has all approvals, or a step was decided twice |
| `BudgetParallelStuck` | 3 steps, two parallel | violated: all approved, still pending |
| `AuditClean` | 2 sessions, clock to 8, days of 4, batches of 2 | no fork across transactions, commits in chain order, a signed day verifies for ever |
| `LocksExclude` | 3 sessions, one of them an import and one with 2 flushes, 2 rows | audited writers exclude each other, where deadlocks come from, every flush ends or is aborted |
| `TaskBoard` | 2 tasks, 2 requests of any of the 12 kinds, tasks set to blocked or done, milestone edited to completed or cancelled, 1 fault | the cascade repairs, completed means done while nothing bypasses it, the board shows what succeeded |
| `ApiClient` | 1 tab, 2 calls gated by different actions, 1 mint, 2 token pairs | one refresh at a time with a fresh token, calls settle or were pushed out of the prompt |
| `MobileSession` | 1 call of a screen beside login and getMe, 2 token pairs, any number of restarts | a sign-out is final, refresh tokens are fresh, calls settle or are behind a flag left up or a refresh never answered |
| `OfflineCalm` | 2 messages, 1 drain, the code's retry limit 3, 2 restarts | the queue implements `Outbox` and drains if reconnects keep coming |
| `OfflineRaces` | 2 messages, 2 drains, retry limit 1, 2 suspended handlers, 1 restart, 1 storage fault; symmetric | loss needs an overlap or a storage fault |

Two sessions suffice for the backend races: each needs one stale reader and one
writer. One milestone is enough for `ProgramRaces` because the guards only ask
whether one exists and whether all are completed; `ProgramSerial` has two so
that some can be completed and others not. Two rows are the smallest number on
which a lock cycle between rows would be possible. Days are long enough for two
batches of two rows on each side of midnight. Two tasks make a milestone mixed,
and its tasks start absent or to do. Three calls in a tab (two and the mint) put
one behind the refresh of another while a third is in the prompt; two pairs allow
one rotation or one new sign-in, after which the server refuses. In
`OfflineRaces` the limit is 1 because the count of a message only matters
relative to it. Deadlock is not checked where the bounded system may stop: a
decided request, users who have made all their requests, an app nobody uses.

`AuditClean`'s two exclusions (no handler adds its own audit row while listener
rows are pending; no batch crosses midnight) are action constraints of
`CleanSpec`; its lock properties are proved without them.

## Behaviours the code does not guarantee

Where a passing run has a condition, the code does not ensure the condition. The
configurations named here are kept beside the runs and reproduce the traces; each
formula is defined in the module.

* `BudgetParallelStuck.cfg`, `NothingLeftPending`: step numbers are compared with
  the number of steps (in `PROJECT.json`).
* `ProgramArchived.cfg`, `ArchivedIsTerminal`: close by PATCH, archive, then
  complete the closure, and the archived program is closed again
  (`closure_service.py:232`), against `test_archived_is_terminal`.
* `ProgramHoldRace.cfg`, `BudgetIncreaseHolds` with two sessions: a hold decided
  on a stale status changes nothing (`programs.py:397`).
* `AuditMixed.cfg`, `SignedDayVerifies` under `MixedSpec`: a flush of a change
  followed by `log_action` gives two rows the same `prev_hash`
  (`audit_listener.py:268`). A batch across midnight has rows of the new day under
  the old day's key (`audit_chain.py:217`).
* `LocksDeadlock.cfg`, `WritesNeverFail`: a second flush, or one with audit rows of
  the handler, takes row locks with the advisory lock held (`audit_listener.py:273`,
  `:307`), and a deadlock aborts a write, against the comment at
  `audit_listener.py:309`. `DeadlockNeedsLateRow` says that this is the only way.
* `OfflineLost.cfg`, `AcceptedIsKept`: a message queued while a drain is sending
  is overwritten when the drain writes back what it had read
  (`use-offline-messages.ts:117`), without any crash or fault.
* `OfflineStranded.cfg`, `SentWhenOnline`: after a restart with the network up, or a
  failed send, nothing drains the queue until the network is lost and found again,
  although the alert at `use-offline-messages.ts:67` promises it.
* `BudgetTwice.cfg`, `ApprovedOnlyByAll`: two approvers decide the same step at the
  same time, both advance the request, and it is approved with a step pending
  (`budget_approval_service.py:463`). Decisions on different steps computed from the
  same `current_step` lose an advance; `NothingLeftPending` is therefore serial.
* `TaskAtRisk.cfg`, `CompletedIsNotAtRisk`: a blocked task turns a completed milestone
  to at_risk. The docstring of `task_cascade_service.py` (7-8) says "unless it is
  already completed or cancelled"; `_derive_milestone_status` does not look.
  `MilestoneTracksTasks` follows the code.
* `ApiClient`: a second step-up prompt leaves the first call pending for ever
  (`Overwritten`, `step-up.ts:59`); a mint answered late resolves the wrong prompt
  (`step-up-modal.tsx:73`), whose call then fails or goes through a refresh; the
  answer of a logout clears the cookies of a sign-in that came after it; a refresh
  whose answer was lost, a logout or another tab leave a revoked token in the
  cookies, and presenting it revokes the family (`auth.py:445`).
* `MobileSession`: `Wedged`, a missing refresh token leaves `isRefreshing` up until
  the app is restarted (`api.ts:113`); a refresh that is never answered does the same
  (`api.ts:120`); a refresh that ends after `clearAuth` writes
  the session back; the interceptor's `logout()` leaves the store signed in, and
  `AuthGate` goes back to the app; the login screen writes its first pair over one
  that `getMe` has rotated, and after a failed `getMe` the placeholder user with
  role `client` stays.
* `TaskBoard`: a drag is not followed by an invalidation, so `SettledIsShown`
  excludes it; overlapping requests, failed cascades, `update_milestone` and the
  public endpoints leave the milestone wrong until the next status change.

## Proofs

Every safety property of the runs but `DeadlockNeedsLateRow`, action properties and
the refinement included, is a theorem as well; what differs from the runs is that the constants are
arbitrary. The sets of sessions, steps, tabs, calls, messages, drains and tasks are
any sets (finite where something is counted), the bounds any naturals; the named
`ASSUME`s of the modules are all that is assumed of them, but for the two
assumptions of `LastApprovalEnds` below. Each module proves
`Init => Inv`, `Inv /\ [Next]_vars => Inv'` and `Inv => property` for an inductive
invariant `Inv`, with one lemma per action.

* `ProgramLifecycleProofs`, all interleavings (`Spec`): `TypeCorrect`,
  `ActivationNeverSkipped`, `ClosedAlwaysHasClosure`, `HeldStateIsBacked`. The two
  row invariants are not inductive: a session holds a status it loaded earlier and
  writes it later. `LifecycleInv` adds `SessionInv`, what may be concluded from
  what a session holds: a late status in memory implies that the program was
  activated, a closure handler in flight that the record exists. It works because
  activation and the existence of the closure record are never undone.
  `SessionMoves` reduces each action to the one session that moved.
* `ProgramLifecycleProofs`, one handler at a time (`SerialSpec`):
  `ClosureNeverBeforeActivation`, `RetirementIsFinal`, `CompletionIsFinal`,
  `ActivationGuardHolds`, `BudgetHoldHolds`. `SerialInv` adds that at most one
  session is busy and `AloneOK`: what that session holds is what is stored, or
  differs from it exactly by its own pending change. With two
  handlers at once the last one is false (`ProgramHoldRace.cfg`).
* `BudgetApprovalProofs`, all interleavings (`Spec`): `ApprovalNeedsAllSteps`,
  `TypeCorrect`, `LoadedCountHolds`, for any finite set of steps and any numbering.
  `_advance_request` only counts, so the invariant bounds the count: until a step is
  decided twice, `current_step - 1`, and the value in every session, is at most the
  number of approved steps, hence the final approval finds all others approved.
  Under `SerialSpec`, `RejectionIsFinal`: no step is decided twice and a
  rejected request keeps a rejected step, so the count cannot reach the last one.
  `LastApprovalEnds` assumes a non-empty chain without parallel steps, where the
  count is exact; with parallel steps `BudgetParallelStuck` refutes it.
* `AuditChainProofs`: `LockProtectsTail`, `ChainNeverForksAcross`,
  `CommitsFollowChain`, `TypeCorrect` (`Spec`, mixed and midnight flushes
  included), for any number of sessions, rows and days. The strengthening says that
  the holder of the lock sees a tail at least as new as every committed row, and
  that nobody else has hashed rows. `NoFalseAlarm` is `SignedDayVerifies` under
  `CleanSpec`. `CleanInv` has three parts: the rows of the log, together with those
  of any one transaction, are linked each to the one before it (`LinkInv`); every
  row is keyed by its own day (`KeyInv`); and a day that was read for signing is
  sealed, its rows are those of the checkpoint and nobody holds others of that day
  (`SignInv`).
* `FlushLocksProofs`: `WritersExclude`, `LocksEndWithTransaction`, for any sessions,
  imports, rows and flushes. `OneWriter` is strengthened by what a transaction inside
  a flush owes: one that is to have audit rows holds the lock or is on its way to a
  listener that takes it. The write phases of `ProgramLifecycle`, `BudgetApproval`
  and `TaskBoard` are single steps on the strength of `WritersExclude`, since their
  sessions are audited.
* `ApiClientProofs`, for any number of tabs on one set of cookies, calls, mints
  and token pairs. `RefreshIsShared` needs two additions. `PromptInv`: the call a
  step-up prompt resolves is a call of that tab that waits in the prompt, so
  `fulfillPrompt` cannot release a call parked behind a refresh. `Shape`: the pairs
  named by a refresh were issued. `RefreshEnds` is the core: when the refresh of a
  tab ends, either way, queue and owner are exactly the calls of the tab that wait,
  and all of them move. `TokenPresentedOnce` adds `Spent`: a token the tab has
  presented is in the cookies only while the refresh that presents it is under
  way, and a pair on its way to a tab was never in the cookies and is no other
  refresh's. `TypeCorrect` adds that only a request of a gated endpoint is asked
  for a step-up and that a mint that was sent has its action.
* `MobileSessionProofs`, for any number of calls and pairs, with a crash between
  any two steps: `SessionTypes`, `SignOutHolds`, `PresentsFreshTokens`. `Out` says
  which keys a sign-out has deleted so far, and that after it no writer of a key is
  under way but a refresh that has not read its token yet. `Unspent` says that a
  stored token that was presented is that of the one refresh under way.
* `OfflineMessagesProofs`, for any number of messages, drains and restarts:
  `OnlyOverlapLoses` and `TypeCorrect` (`Spec`). As long as nothing was
  overwritten, `KeepInv` says, every accepted message that is still owed something
  is stored, and an operation whose copy is not stale accounts for everything that
  is stored, so that writing the copy back drops nothing.
  `QueueIsOutbox` is the refinement: `CalmSpec`, as long as the storage has not
  failed, implements `Outbox`. `CalmInv` says that at most one operation is under
  way and that what it has read is what is stored. The lemmas on `Ids` say what
  appending, taking the head and joining do to the messages of an array. The
  module assumes that `"compose"` is not the name of a drain, since it names the
  other writer of the queue.
* `TaskBoardProofs`, for any number of tasks and any finite number of requests of any
  kind: `CascadeRepairs`, `CompletedIsHonest`, `TypeCorrect`. `BoardInv` is made of the
  types and four parts. `Apart`: a request outside `overlap` runs alone.
  `AllSound` says of every request at the server the shape of its record in each
  phase (`Shape`); that what it has loaded is what is stored, when it runs alone or
  the milestone is settled (`Current`); and, when it runs alone, that it will write
  what the tasks imply (`Aim`). `Right`: while `settled`, the milestone is what the
  tasks imply, or cancelled. `NoneOpen`: while `trusted` and between cascades, a
  completed milestone has no open task. The lemma `Moves` reduces every step of a
  request to its own record. `TypeCorrect` needs a count besides: the version is at
  most the number of requests past their commit.

Only checked by TLC: the properties that something eventually happens
(`EveryFlushEnds`, `EveryCallSettles`, `QueueDrains`, `SettledIsShown`,
`CallsSettleUnlessWedged`), since liveness under fairness is outside the prover's
reach; `DeadlockNeedsLateRow`, which is about a transitive closure; and every
violation named above.

## Plan

1. Theorems: `DeadlockNeedsLateRow` (this takes an order on waits in place of the
   transitive closure, over which the prover has no induction); `RefreshHasOwner`
   for the mobile interceptor away from `Wedged`; the steps that connect
   `OneWriter` with the atomic write phases of the other backend modules.
2. `ProgramClosure`: ratings, auto-mark, debrief; composed with
   `ProgramLifecycle` through the closure record; an abstract life cycle
   (activated, retired) that `ProgramLifecycle` implements.
3. `Realtime`: the reconnecting sockets; auto-save, undo and preference sync of
   the web client.
4. `Escalations` and SLA with the scheduler; `Deletion` (two-person rule);
   partner assignments and deliverables; meetings; webhooks; client intake.

## Not modelled

Cryptography (hashes, HMAC, Ed25519, RFC 3161) beyond which row or day a value
stands for; rendering, search, reports and exports; object storage; role checks,
which only refuse callers; row-level security; CRUD without interacting state.
Writers of tasks outside `TaskBoard`: `delete_milestone`, recurring tasks
(`recurring_task_service.py:65`), imports (`import_service.py:780`) and the bulk
cancellation of an archived program (`archival_service.py:124`); like the public
endpoints they run no cascade.

Most of the repository's TypeScript has no behaviour a state machine could
capture: the generated API types (50,000 lines), the pages of the web client
(45,000), presentational components (60,000), type declarations and API wrappers
of one call each. Their state is what the API last returned. The client modules
therefore cover the code where state outlives a call (transport, session, step-up,
offline queue, board) and no more than that; a specification of the rest would
restate the markup.

Of the modelled files these parts are left out: drafts and the read-through cache
in the mobile app; `useSession`, `AuthGuard`, `useAuth` and the MFA screen, which
no mounted screen reaches; biometric sign-in, which stores a pair as `handleLogin`
does; failures of SecureStore; two browser tabs at once, which `ApiClient` allows
and whose instance is too large to enumerate (its safety properties are proved for
it). `PROJECT.json` gives the reason for each component.
