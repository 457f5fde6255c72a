# A TLA+ development for hohu-admin

hohu-admin is a multi-tenant administration back end (FastAPI, SQLAlchemy on
PostgreSQL, Redis, APScheduler) with an AI assistant that operates it through
tools.  Its hard part is not any single request but what happens when several of
them, a background loop and a crash meet: a user confirms an AI-proposed write
twice, the COMMIT acknowledgement is lost, the worker dies, the sweeper wakes up,
somebody deletes the conversation.  This directory models those parts, checks them
with TLC and proves the central results with TLAPS.

* [Inventory](#inventory)
* [Modules](#modules)
* [Runs](#runs)
* [Bounds](#bounds), [Fairness](#fairness)
* [Proofs](#proofs)
* [Where documents and code part](#where-documents-and-code-part)
* [Abstractions and what is left out](#abstractions)
* [Plan](#plan)

Paths below are relative to `src/`; `ai/` abbreviates `app/modules/ai/`.

## Inventory

State is kept in PostgreSQL (the authority), Redis (leases, wake-up envelopes,
caches, pub/sub) and process memory.  Several web workers, one scheduler process
and background loops share the first two.

| Component | State | Operations | Talks to | What is hard | Correct means |
|---|---|---|---|---|---|
| **Durable confirmation protocol** (`ai/api/confirm.py`, `ai/service/prepared_action_service.py`, `atomic_completion_service.py`, `completion_recovery_service.py`, `ai/agents/gateway/atomic_execution.py`) | `ai_prepared_action` rows: status, `row_version`, execution owner and lease, error; `ai_operation_log` rows; the business rows | create, confirm (approve/reject), claim, execute, complete, roll back, reconcile, project | the finaliser, the wake-up channel, business services | concurrent confirmations, COMMIT with unknown outcome, crash after the claim, lease expiry during execution, file side effects outside the transaction | a write happens exactly once iff recorded as succeeded; answers are true; facts remain provable; nothing stays open for ever |
| **AI lifecycle recovery** (`ai/lifecycle.py`) | none of its own; scans open actions, logs, envelopes | start-up clean-up, 30 s expiry loop, orphaned envelopes, guard rebuild | all AI tables, Redis | stale candidates, a restart in the middle, lock timeouts | settles what nobody owns, never touches what is decided |
| **AI operation log** (`ai/service/operation_log_service.py`, `legacy_reconciliation_service.py`) | `ai_operation_log` | start, approve, run, finish, reject, expire, annotate | every tool execution | eight writers that have to leave log and action equal | every terminal action has a matching log |
| **Tool gateway executor** (`ai/agents/gateway/executor.py`) | — | mode decision, set-up of a confirmation, waiting, direct execution, resume | quota, log, wake-up channel | failure halfway through the set-up, timeout racing a late decision | no half-made confirmation can be executed |
| **Resume stream** (`ai/api/resume.py`) | Redis owner lock | re-attach to a pending confirmation, replay | wake-up channel, finaliser | two resumes of one confirmation, expiry while waiting | as for the original stream |
| **HITL wake-up channel** (`ai/agents/hitl/manager.py`) | Redis envelope and wake state, in-process events | `create_pending`, `hang`, `wake`, `delete_pending` | confirm, executor, resume | message published before the subscription, double decisions, lost processes | first decision wins; a reachable waiter receives it |
| **Chat run guard and finaliser** (`ai/service/chat_run_service.py`) | Redis lease per conversation; assistant message | acquire, renew, hand off, release; finalise | chat, confirm, lifecycle | lease expiry during a run, release by a former owner | one run per conversation; the card tells the truth |
| **Chat stream** (`ai/api/chat.py`, `chat_service.py`) | messages | send, regenerate, edit | guard, executor | disconnect in the middle of a stream | guard released, turn finalised |
| **Quotas, repeated-failure guard** (`ai/agents/gateway/quota.py`, `failures.py`) | Redis windows and counters | reserve, compare, refund, count failures | executor | three commands per check, midnight, a crash in between | the day's limit bounds the calls that run |
| **Conversations** (`ai/service/conversation_service.py`) | `ai_conversation`, `ai_message` | create, read, delete | prepared actions, projection | deletion while calls are under way | nothing opens or moves in a deleted conversation |
| **Previews** (`ai/agents/gateway/preview_execution.py`, `preview_completion_service.py`) | batch, audit row, action | atomic preview, read-back, hand-off | executor, import | lost replies of two COMMITs | the answer is true of what was committed |
| **Result projection** (`ai/service/result_projection_service.py`) | lineage of messages | authorize, project, serve caches and downloads | chat, queries | revocation after the fact, quotes of quotes | nothing revoked is shown |
| **Provider egress, model policy** (`ai/core/provider_egress.py`, `ai/service/tenant_model_policy_admin_service.py`, `model_service.py`, `provider_service.py`) | slots in memory; providers, models, policies | call, save catalog, delete | model servers | many ends of one stream, cascades | slots are conserved; no policy is lost with its model, no grant is overwritten unseen |
| **Job runner and log monitor** (`app/modules/job/job_runner.py`, `log_monitor.py`) | `sys_job_log`; a `RUNNER_ID` per process | execute, retry, close, reclaim | APScheduler, tasks | crash with a running log, monitors of several processes, rolled back sessions | a log is reclaimed only when its execution is dead |
| **Scheduler and job administration** (`app/core/scheduler.py`, `job/service/job_service.py`, `app/scheduler_worker.py`) | APScheduler jobs in memory; `sys_job` | reload, pub/sub events, enable, disable, delete, trigger | job runner | events lost around start and reconnection | the schedule catches up with the table |
| **Authentication** (`app/modules/auth/service.py`, `auth/api.py`) | JWT pairs, Redis blacklist, `auth_version`, tenant `row_version` | log in, refresh, log out, live check | every request | concurrent refresh, revocation during a request | a token is refreshed once; revocation takes effect |
| **Account self service** (`app/modules/auth/self_service_api.py`, `system/service/account_service.py`) | Redis codes, verified addresses | register, bind, reset | mail, users | code consumed before the commit, changes of the account in between | one use per code, trust only by proof |
| **User import and export** (`system/service/user_import_service.py`, `user_export_service.py`, `transfer_cleanup_service.py`) | batches, tasks, artifacts | preview, execute, cancel, expire, export, clean up | files, users, assistant | savepoints, executions against expiry and retention | the record matches the users; files outlive their use |
| **Users** (`ai/service/user_delete_dependency_service.py`, `system/service/user_operations_service.py`) | `sys_user` and all that cascades | create, edit, delete | conversations, roles, departments | cascades, lock order | no open operation is deleted, no deadlock |
| **Roles, departments, authorization** (`system/service/dept_service.py`, `user_role_assignment_service.py`, `role_management_service.py`, `role_delegation_service.py`) | role, department, assignment rows | create, move, assign, delegate, delete | users, tenants | facts that change between approval, lock and write | no privilege escalation through a race |
| **Tenants and platform** (`app/modules/platform/`, `system/service/tenant_lifecycle_service.py`) | tenants, seeds, principals, audit records | prepare, bootstrap, activate, disable, purge, grant | all | retries, unknown COMMIT, revoked principals | a key names one tenant; the audit is true |
| **Settings, configuration** (`system/service/settings_service.py`, `config_service.py`, `app/core/cache.py`) | groups with a revision, caches in process and Redis | save, read, evict | all | lost update, stale cache | no save is lost |
| **Menus, dictionaries** (`system/service/menu_service.py`, `dict_type_service.py`) | trees and lists, grants | create, edit, delete, route tree | roles | checks that are stale at the commit | nothing dangles, no grant is lost |
| **Files** (`system/service/file_service.py`, `app/core/file_storage.py`) | rows and blobs | upload, view, delete | users, exports | no transaction spans both | a row that can be downloaded has its file |
| **Marketplace** (`app/modules/marketplace/`) | packages, reviews | install, review | — | — | its routes are not registered |


`PROJECT.json` lists every component with its status, and under `hazards` what a test
would hardly reach, at the line where it bites.

## Modules

### PreparedAction

One conversation with its prepared actions, the concurrent `POST /ai/confirm`
requests, and the sweeper.

| State | In the code |
|---|---|
| `pa[a]` | row of `ai_prepared_action`: status, `row_version`, `execution_owner`, lease, `error_code`, `approved_by` set |
| `log[a]` | its `ai_operation_log` row: status, `started_at` set, reconciliation note, error, approver |
| `effect[a]` | committed runs of the business handler (ghost) |
| `artifact[a]` | a FILE tool has written its file, which no rollback removes |
| `card[a]` | the tool card in the assistant message |
| `timeUp[a]`, `convDeleted` | `expires_at <= now`; `ai_conversation.deleted_at` |
| `txn` | the open transaction that holds the conversation row `FOR UPDATE`: its author, the rows it will install, whether its COMMIT was issued (`sealed`) and whether its client is still there (`attached`) |
| `req[p]`, `resp[r]`, `todo` | control state of every process, last answer of a request, candidates of the running sweep |

Every writer of a protected action first locks the conversation, then the action, then
the log (`lock_confirmation_context`, `lock_claim`), so at most one transaction is open per
conversation and steps under the lock are atomic up to the COMMIT.  The COMMIT is a
step of its own with four continuations: acknowledged (`CommitAcked`), given up by the
client after its eight second budget or by cancellation (`CommitUnknown`), and then
finished by the server either way (`ServerCommit`, `ServerAbort`).  The claim commits
`pending -> approved -> running` in one transaction, so `approved` is never visible and is
not a status of the model; its two CAS updates still count two versions.

Actions, by handler:

* creation: `StartLog`, `CreatePending`, `SetupFailed`;
* confirmation: `BeginConfirm` (unlocked read and routing), `ConfirmGone`,
  `ConfirmDecided`, `ConfirmClose` (expired, rejected, refused by a revalidation),
  `ConfirmClaim`;
* execution of a write: `ExecBegin`, `ExecRefused`, `HandlerOk`, `HandlerRollback`,
  `HandlerRollbackLost`, `FinishRolledBack`;
* recovery: `Reconcile` (read the facts, or fence a claim that cannot finish),
  `FactRead`, `Project`, `ReadUnexecuted`, `GiveUp` (lock timeout);
* read-only tools, which keep an older lease-only protocol: `RenewLease`, `ReadDone`,
  `ReadCas`.  `SeenVersion` models that the SQLAlchemy session still holds the claimed row
  after a success but reloads it after a rollback;
* the sweeper: `SweepScan`, `SweepPick`, `SweepLocked`, `SweepEnd`;
* waiting streams: `WaiterTimeout`, `ResumeFailure`;
* environment: `DeleteConversation`, `Annotate` (operator script), `ConfirmationExpires`,
  `LeaseExpires`, `Crash`.

Tools fall into three classes, constants of the model: `DbAction` (only the database is
touched, so a rollback proves that nothing happened), `FileAction` (a file may remain,
so a failure is never recorded and the claim stays *running*, outcome unknown) and the
rest (read-only).

### ActionOutcome

What the protocol promises of a write, without transactions, locks or processes: it is
proposed once, then closed unexecuted, or claimed once and settled once, and the business
effect happens in the very step that records the success.  `PreparedAction!Outcome`
is the refinement mapping (the status column and the effects of writes).

### JobRunner

One scheduled job: the scheduler processes, its execution logs, the two APScheduler ids
under which it can run in a process (`job_<id>` for the schedule and `manual_<id>` for the manual
trigger; each has `max_instances=1`), the monitor and the administration.

| State | In the code |
|---|---|
| `job`, `tenantOn` | `sys_job.status` or deleted; tenant enabled |
| `log[l]` | `sys_job_log`: status, `runner_id`, who closed it (ghost) |
| `old` | logs older than their grace period |
| `runner[p]`, `starts` | `RUNNER_ID` of a process (0: down), process starts so far |
| `exec[p][t]` | what a process does for a trigger: idle, about to insert its log, or running the task |
| `found[p]` | logs the monitor has selected and not yet updated |

`Check`, `InsertLog`, `InsertFails` are `_do_execute`; `SetupFails`, `TaskReturns`,
`TaskFails`, `CloseFails` the ends of `_run_task`; `MonitorScan`, `MonitorReclaim`,
`MonitorFails` one `_scan_once`; `Stop`, `Start` a crash or shutdown and a restart;
`SetStatus`, `DeleteJob`, `DeleteLog`, `SwitchTenant` the administration.

Two facts about the libraries matter and are part of the model.  `AsyncSession.rollback`
expires every loaded object, even with `expire_on_commit=False`; reading an expired
attribute outside of SQLAlchemy's greenlet raises.  And `AsyncIOScheduler.shutdown` cancels running
jobs with `CancelledError`, which `except Exception` does not catch.

### ChatRun

The Redis side of one conversation: its runs (`POST /ai/chat` streams), the guard that
admits one of them at a time, and the channel on which a confirmation wakes the run that
waits for it.  What `PreparedAction` says about deciding and executing is reduced to
pending, running, done with its decision.

| State | In the code |
|---|---|
| `guard`, `lease` | Redis key `ai:chat:run`: owner token (one per run) and kind of TTL |
| `act[a]`, `late` | the action in PostgreSQL with the run that made it; `expires_at` passed |
| `env`, `wake[a]` | pending envelope; wake state (pub/sub) or `_PendingEntry.action` (memory) |
| `entry`, `mail[a]` | in-process entries; subscriptions of the run and of a resumed stream with what they received |
| `run[r]`, `res[a]`, `req[c]` | control state of streams, resumed streams, confirm requests and sweeps; `handoff` is `deps.guard_handoff` |
| `early` | actions decided between `create_pending` and the subscription (ghost) |

`Admit`, `Acquire`, `Recheck`, `Begin` are the admission; `Heartbeat`, `GuardLost` the
heartbeat task; `CreatePending` to `HangTimeout` follow `_hang_for_confirmation`; `Finish`, `Disconnect`,
`Die` are the three ends of a stream.  `Decide`, `Settle`, `ConfirmAgain`, `Notify`, `CleanGuard`,
`CleanEnvelope`, `Drop` are `POST /ai/confirm`, one step per Redis command;
`SweepRead`, `SweepSettle`, `Rebuild` (`Restart` in memory mode) the recovery, which acts on candidates read
earlier; `Resume` to `ResumeEnds` the resumed stream.  The constant `PubSub` selects the mode.

`MCPreparedAction`, `MCJobRunner` and `MCChatRun` only add symmetry sets.  The modules named `...Proofs` hold the
theorems about the component or suite they are named after; see [Proofs](#proofs).

### Accounts and administration

| Module | Models | State and steps |
|---|---|---|
| `AuthSession` | `auth/service.py`, `auth/api.py` | one account with its tenant, the pairs issued, the blacklist. Requests advance one statement or Redis command at a time and keep the row they loaded. A pair is its versions and the second it was signed in, as the claims have no nonce |
| `AccountRecovery` | `auth/self_service_api.py`, `email_verification.py`, `account_service.py`, the mail-trust trigger of the schema | one user name, its address, live codes. A request consumes a code in Redis, then commits or aborts |
| `UserImport` | `user_import_service.py` and its callers | one batch from preview to retention, the users its rows are about, its files. An execution is one transaction with savepoints per chunk; users and facts drift between preview and execution |
| `UserDeletion` | `user_delete_dependency_service.py`, `user_operations_service.py` | users who own each other's conversations; plan, ordered locks, second and third reading, cascade; operations start, are approved and edit users meanwhile |
| `TenantControl` | `modules/platform/`, tenant bootstrap and lifecycle | tenants, principals, locks, audit records. Intent, business and completion are separate transactions or one, as in the code; COMMIT may fail or lose its reply |
| `DeptTree` | `dept_service.py`, department writers, `authorization_lock.py` | parents and copied paths, memberships, a CUSTOM role. Evaluate, lock roles, departments, users, evaluate again, write |
| `GrantBounds` | role and assignment services, `grant_authority.py` | role definitions, holders; creation, edits, menus, agents, deletion, with the assistant's approval as a separate, earlier evaluation |
| `MenuTree` | `menu_service.py`, route building in `auth/service.py` | menus, buttons, grants; read and commit are two steps, foreign keys act at the commit; the route tree is a recursive function compared with a definition by paths |
| `Dictionary` | `dict_type_service.py`, `dict_data_service.py` | types and data; check and commit are two steps |

### The assistant and the services around it

| Module | Models | State and steps |
|---|---|---|
| `ToolQuota` | `gateway/quota.py`, `failures.py` | five levels of reservation, each one command, one comparison and one refund; midnight; lost commands; the failure counter |
| `ToolGateway` | `gateway/executor.py`, `preview_execution.py`, `preview_handoff.py` | a call from its checks to its answer: dry run, audit row, read, atomic preview, hand-off, confirmation; every COMMIT may lose its reply; the conversation is deleted meanwhile |
| `ResultProjection` | `result_projection_service.py`, finaliser, history loading, query cache, downloads | the lineage a message records against what its text derives from (ghost `tells`) |
| `ProviderEgress` | `core/provider_egress.py` | calls, slots, the address a call is pinned to, name resolution |
| `TurnStream` | `api/chat.py`, supervisor quota and router | screens, routing, and the five tasks of a stream with their queues |
| `ResumeStream` | `api/resume.py` against `api/confirm.py` and the sweeper | hot hand-off, owner lock with its expiry, notice and receipt |
| `ModelPolicy` | policy, model and provider services | catalog with the revision of what it shows, share and update locks, cascades |
| `JobSchedule` | `core/scheduler.py`, job API, `job.update_cron` | table, registered triggers, channel, loading; events are lost while nobody is subscribed |
| `SystemSettings` | `settings_service.py`, `config_service.py`, `core/cache.py`, safety lists | revisioned saves, the policy row department writes lock, process-local lists, the Redis cache |
| `StoredFiles` | exports, retention, uploads, `core/file_storage.py` | rows, manifests, payloads, lock files; I/O errors, failed commits and crashes between any two steps |

### MCAdministration and MCAssistant

These two modules instantiate all components of the two tables with small constants.  On the modelled
paths the components share no state, so their product would only multiply states.
Instead a behaviour chooses one component (`part`) and moves only that; the components use the
variables `s1`, `s2`, ... in turn, by substitution (`INSTANCE ... WITH tenant <- s2`).
The reachable states of a suite are exactly the union of those of its components, each explored to the end.
A suite's property `XHolds` says `part = "x" => ` the component's invariants, and `[][part = "x" => step]_vars` for its action
properties.  What components do share is
inside one module: authority and conversation in `ToolGateway`, departments and settings in `SystemSettings`, roles and
accounts in `GrantBounds`, import batch and AI operation in `UserImport`.

## Runs

| Run | Instance | Checks | Shows |
|---|---|---|---|
| `prepared_db` | a DB write, two requests | `TypeOK`, `EffectMatchesRecord`, `AnswersAreFacts`, `SettledFactsBind`, `AnnotatedIsFrozen`, `ImplementsOutcome` | exactly-once execution under double confirmation, lost acknowledgements, fencing and crashes; truthful answers; every settled action can prove itself; an annotated one is left alone; the refinement |
| `prepared_mixed` | a FILE write and a read-only action, one request | `NoPhantomFailure`, `CardIsTrue`, `DeletedIsSettled`, `TerminalIsFinal` | no failure is recorded beside a file; no card lies, however late its writer; deletion leaves nothing open; terminal rows are never rewritten |
| `prepared_live` | a DB write, one request | `RunningSettles`, `ExpirySettles` | a claim left by a dead worker, and an expired proposal whose stream is gone, are settled without a user |
| `prepared_resume` | a DB write, one request | `EverySettledFactBinds` (violated) | see [below](#where-documents-and-code-part) |
| `job_embedded` | two processes, two logs, three process starts | `TypeOK`, `ReclaimedIsDead`, `FinishedIsFinal` | the monitors reclaim dead executions only, and a finished log keeps its verdict |
| `job_live` | one process, three starts | `OrphanRecovers` | with a monitor, no log of a dead process stays running |
| `chat_guard` | pub/sub mode, two runs with one confirmation each, one request or sweep at a time | `WakeIsTruth`, `ClaimedIsSeen`, `OneRunActs` | a waiter is told only what is committed; subscribing before reading the wake state leaves no gap; runs whose leases expire, are rebuilt or handed off never have actions open at the same time |
| `chat_live` | memory mode, two runs, one action, two requests or sweeps | `WakeNotLost`, `ConversationFreed` | a confirmation that precedes `hang` reaches the run; the guard is given back whatever dies |
| `chat_notify` | memory mode, one run, one action | `NotifySparesStream` (violated) | see [below](#where-documents-and-code-part) |
| `job_retry` | one process | `RunningIsExecuted` (violated) | see [below](#where-documents-and-code-part) |
| `administration` | nine components, two concurrent requests each, 1.2 million states | see the next table | accounts and administration keep their promises in every interleaving of statements |
| `assistant` | ten components, 1.8 million states | see the next table | the assistant's calls, results and services keep theirs, under lost replies, crashes, revocation and deletion |

| Property | Conjuncts, and what each says |
|---|---|
| `SessionsHold` | `RevokedIsOut`: after a password change, revocation, log-out of the pair or switch-off, no request enters or writes with an older token, unless a stale row object was written back (see below); `RefreshedOnce`: a refresh token is redeemed once |
| `RecoveryHolds` | `CodeSpentOnce`, `VerifiedIsProved` (an address is verified only when its owner returned a code), `OldCodeIsDead` (a reset code dies with the version of the account) |
| `ImportHolds` | `RecordMatchesUsers`, `StrictIsWhole` (a strict import writes all or nothing), `FilesOutliveUse` |
| `TenantsHold` | `AuditIsTrue` (completed iff committed, never failed beside committed), `KeyNamesOneTenant`, `LiveAuthority` |
| `DeletionHolds` | `EvidenceSurvives` (no cascade over an open operation), `NoWaitCycle` (no circle in the wait-for graph) |
| `DepartmentsHold` | `PathIsTrue`, `NothingCascades`, `ImpactStaysInside` (a move changes no data scope beyond what was shown to and permitted for its author) |
| `GrantsHold` | `NoEscalation`, `DeletedIsUnused`, `ApprovedIsApplied` |
| `MenusHold` | `NothingDangles`, `RoutesAreReachable` (the routes equal those defined by granted, enabled paths), `EditIsExact` |
| `WordsHold` | `DictionaryIsWhole` |
| `QuotaHolds` | `AdmittedWithinLimit`, up to refunds taken from the wrong day |
| `GatewayHolds` | `PreviewAnswerIsTrue`, `DeletedIsClosed` |
| `ProjectionHolds` | `NothingRevokedIsShown` in messages, caches and downloads |
| `EgressHolds` | `SlotsAndPinsHold` |
| `StreamHolds` | `DoneMeansWhole` |
| `ResumeHolds` | `ResumedIsTrue`, `NoticeYieldsToReceipt` |
| `PoliciesHold` | `SaveIsCurrent` (what each model is granted, and whether it can be used, is at the save as its author saw it), `GrantsSurvive` |
| `ScheduleHolds` | `ScheduleCatchesUp` |
| `SettingsHold` | `NoLostSave`, `JudgedByPolicyInForce`, `StaleConfigIsLate` |
| `FilesHold` | `RowsHaveFiles` |

Each property of a passing run has a mutant in `PROJECT.json`: a variant of the modelled code
(`CanLeaveAnyState`: no CAS; `UnversionedKey`: a reset code that survives a password change; `RecheckOnce`: a deletion without its third reading; `UnackedTakenForDone`: a timed-out COMMIT counts as done;
`FenceAnyWrite`: a FILE claim is failed like a DB claim; ...) under which TLC finds the property violated.

## Bounds

* *Actions*: rows of different actions interact only through the conversation
  (its lock, its deletion) and the sweep list, so one DB action, and one FILE action beside a
  read-only one, exhibit all interactions of kinds.  Two actions of the same kind
  add nothing but interleavings; the proofs cover any set.
* *Requests*: two, so that every step of one can be interleaved with every step of the other
  and with the sweeper; a third actor at any moment is the sweeper itself.
  `prepared_mixed` uses one request because its hazards are between a request, the sweeper
  and deletion.
* *Row versions* need no bound: `TypeOK` shows that they end at 4.
* *Repetitions*: requests, sweeps and crashes are unbounded; no step counter is used.
* *Jobs*: two processes and two logs make two concurrent executions, a monitor beside
  a foreign live execution, and two monitors on one log.  `MaxRunner = 3` process
  starts give a crash, a restart and a second live process at once.
* *Chat runs*: the wake-up channel belongs to one action, so one run and two workers (two
  confirmations, or one and a sweep) beside a resumed stream cover its races.  Mutual
  exclusion needs two runs with an action each.  `MaxTools = 1` bounds the confirmations of a
  run, and this bound matters: with two, a late clean-up for the first action releases the guard
  while the second is being set up, and `OneRunActs` fails (`MaxTools = 2`, three
  actions).  The notification of disagreement 5 below does this, and so does the clean-up of a
  resumed stream, which does not ask whether the original one is still alive.
* *Suites*: two concurrent requests reach every interleaving of two handlers, and each handler of these components meets at
  most one other at a lock or a stale read.  A third actor is there where it matters: operations beside two deletions
  (`UserDeletion`), three calls against a limit of one or two (`ToolQuota`) and of two slots (`ProviderEgress`), cron tasks and drift
  beside two requests (`UserImport`).  Trees have three or four nodes: a root, a moved subtree, a sibling, a new one
  (`DeptTree`), or a page with two equal buttons (`MenuTree`).  `UserImport` has three rows in chunks of two, so that a
  chunk fails after one that succeeded; `AuthSession` has a second that ends while pairs of it live, two revocations and
  two pairs; `JobSchedule` two starts with a change before, during and after.  `TenantControl` has two tenants and one key, whose three
  requests race to choose; bodies differ so that a replay can disagree.  Each bound is a constant of the suite, given in its `.cfg`, or named where the suite instantiates the component
  (`MaxWrites`, `MaxClock`, ...), and each mutant is found inside them.
* The `CHECK_DEADLOCK FALSE` of the suites is due to these bounds, and that of the chat runs to the finite supply of runs: when all have ended
  nothing is left to do.

## Fairness

`PreparedAction!Fairness` assumes that clocks advance, that the server finishes
or aborts a transaction whose client is gone (the connection is invalidated by `_discard_uncertain_session` or closed by the operating system),
that handlers and COMMITs end (the gateway's tool timeout, `_commit_with_budget`), and that the
sweeper's steps are strongly fair: the loop runs every 30 s for the lifetime of the
service and is restarted with it, so a step that is possible again and again is not prevented for ever.
No user action is fair: nobody has to confirm, reject or resume.  `RequestsCease` says
that requests for one conversation do not arrive for ever; a client that
confirms again whenever the sweeper waits for the lock could starve it.

`JobRunner!Fairness` assumes that time passes, that a stopped process is started again
by its supervisor (as far as the bound on starts allows), that tasks end, and that the monitor loop, which backs off on errors but
never gives up, gets its turn.  `OrphanRecovers` is conditional on a tenant that is
eventually enabled for good (the monitor skips disabled tenants) and on some process being up again and again.

`ChatRun!FairSpec` assumes that a stream goes on or ends (usage limits and the timeouts of the model
client bound it), that the confirmation window closes, and that a lease which nobody renews
runs out.  Leases of live streams need not expire, and nothing is assumed of confirmations,
resumed streams or the sweeper.

## Proofs

Eight modules prove the results that matter most for every value of the constants.  Six extend the component they are about;
`AdministrationProofs` and `AssistantProofs` extend the suites and prove their properties as the runs check them.

### PreparedActionProofs: the protocol

`PreparedActionProofs` proves, for any sets of actions and requests (`ProtocolAssumption`
only: tool classes are disjoint, the null values are distinct from everything else):

* `TypeCorrect`: `Spec => []TypeOK`;
* `ExactlyOnce`: `Spec => []EffectMatchesRecord`;
* `TruthfulAnswers`: `Spec => []AnswersAreFacts`;
* `Refinement`: `Spec => ImplementsOutcome`.

All rest on `Invariance`: `Spec => []Inv`, where `Inv` is the conjunction of

* `TypeOK`;
* `RowVersions`: the version of a row is determined by its status (pending 1, running
  3, closed unexecuted 2, finished 4): without it nothing bounds the versions;
* `SealedIsLegal`: what the open transaction would install is a legal successor of
  the row *as it now is* (pending to cancelled or claimed, running to finished, effect 1 exactly
  with the success of a write).  This is the heart of the matter: a COMMIT may take effect
  long after its author gave up, so the legality of the detached transaction has to be
  an invariant, and it is one because every other writer needs the lock that the transaction holds;
* `ProcInv(p)`: what a process in each control state holds (a committing process holds
  a sealed transaction on its action; a handler runs inside its own unsealed transaction on a
  running action; execution is for writes, the lease-only protocol for the rest);
* `EffectMatchesRecord` itself;
* `RespInv`: answers are facts, which is inductive because terminal rows are final.

The proof of inductiveness has one lemma per group of actions and one step
per conjunct an action can disturb.  For `Refinement` every step of `Next` under `Inv` is shown to
map to a step of `ActionOutcome` or a stutter; `DeleteConversation` maps to one `Expire` of
a set of actions.

### PreparedActionProofs: the records

What the rows say, from `Inv` above and an invariant of its own, `Facts` (theorem `RecordsAgree`):

* `RecordInv`: for every action, row and log form one of six kinds of record (`Unproposed`, `Proposed`, `Declined`,
  `Claimed`, `Succeeded`, `Failed`); its card shows no end but the action's; a file exists only beside a FILE write that is running or
  succeeded; in a deleted conversation nothing is open;
* `TxnInv`: the open transaction started from an open, unannotated record *that still stands*, and what its COMMIT would
  show is one of the six kinds again.  As above, the detached transaction needs an invariant of its own;
* `ReaderInv(p)`: a request inside a read-only tool is the claimant of a running action, and the only one, or the sweeper has failed
  the claim.  Without it a late reader could close a claim that is not its own.

From these follow the invariants `SettledFactsBind`, `NoPhantomFailure`, `CardIsTrue`, `DeletedIsSettled`, and the action properties
`TerminalIsFinal` and `AnnotatedIsFrozen` (`SettledFactsAreProved`, `FailuresAreReal`, `CardsAreTrue`, `DeletedConversationsAreSettled`,
`TerminalRecordsAreFinal`, `AnnotatedRecordsAreFrozen`), for any sets of actions and requests and both classes of writes.  The stream of
[disagreement 1](#where-documents-and-code-part) is visible here too: `Declined` does not equate the codes of row and log for the errors of a resumed stream.

### JobRunnerProofs

`Inv` says that a `RUNNER_ID` was drawn and nobody executes without one (`IdsDrawn`), that each execution works on a log of its own, written
under the id of its process (`LogsOwned`), and that the monitor finds only logs that are old and another's
(`OldLogs`).  `TypeCorrect` needs no more.  `ReclaimingIsSound` and `VerdictsAreFinal` (`ReclaimedIsDead`, `FinishedIsFinal`) also need
`UnderWay`: what is being executed is not beyond its grace period and its log is still open.  It is inductive under `SoundGrace`, the
hypothesis of these theorems: every task has a timeout, or there is one process.  The hypothesis cannot be dropped: a task without a timeout that
runs for an hour is reclaimed by another worker's monitor (listed under [abstractions](#abstractions)).

### ChatRunProofs

`Inv` is `TypeOK`, `WakeIsTruth` and `Facts`: a decision is recorded with the claim or the closing and stays (`ActInv`), what a worker goes on from still holds
(`ReqInv`), a run sets up an action nobody else knows (`RunInv`, `RunsApart`).  Then

* `WakesAreTrue` (`WakeIsTruth`) and `ClaimsAreSeen` (`ClaimedIsSeen`) hold in both modes; the latter by `SubInv`: a run that waits is subscribed, and any
  decision claimed since is in its mail, because the subscription precedes the read of the wake state;
* `EarlyWakesAreSeen` (`WakeNotLost`) is proved for the memory mode, by `EntryInv`; in pub/sub mode it is false (see below);
* `OnlyOneRunActs` (`OneRunActs`) is proved for runs with one confirmation each (`MaxTools <= 1`), by `GuardInv`: while an action is in progress the
  guard's holder is not a run that could still open one (`Candidate`).  With two confirmations it is false (see [bounds](#bounds)).

### AuthSessionProofs, GrantBoundsProofs, UserDeletionProofs

These theorems are about a component by itself, under a hypothesis `Constants` that says what kind of thing each constant is (an assumption in
the component would be lost in its instances).

* `SessionsStaySound` (`AuthSession!SessionsHold`, both conjuncts) for any number of requests, passwords, seconds and revocations: a pair that carries the
  *present* versions comes from a password verified after the latest revocation, until a stale row object is written back (`PairInv`); a
  redeemed refresh token is blacklisted as long as it lives.
* `GrantsStayBounded` (`GrantBounds!GrantsHold`) for any accounts, roles, permissions and requests: when a request is about to write, its
  evaluation holds *now*, because every row that evaluation reads is locked by it (`Sound`), and locks are disjoint (`Apart`); a held
  role exists (`HeldAreLive`).
* `NoDeadlock` (`UserDeletion!TypeOK` and `NoWaitCycle`) for any users, conversations and requests whose ids are bounded numbers: conversation
  rows are taken in ascending order, then user rows (`ContextOrder`, `UserOrder`), so in a set of transactions that all wait inside the set the holder of
  the greatest row waited for would wait for a greater one.  That a set of ids has a least and a greatest element comes from the well-foundedness of `<` on the naturals.
  `EvidenceIsKept` (`EvidenceSurvives`): the last reading of the plan, under all locks, covers the
  conversation that goes, and an execution is never about the owner of its own conversation (`ExecutionSpares`).

### AdministrationProofs and AssistantProofs: the suites

A behaviour of a suite picks a component and moves only that, so each theorem `Spec => []XHolds` of a suite is an invariant of the component,
inductive under the component's steps, carried over by the argument that `part` never changes.  The constants of the suites are arbitrary up to
the named assumptions in `MCAdministration` and `MCAssistant`:

| Assumption | Says | Because |
|---|---|---|
| `RequestsAreSomebody`, `SettingBounds`, `TenantBounds` | stand-ins for *nobody* and *no key* are no request, task or key; administrators and department writes are different requests | a row lock must tell its holder from everybody else |
| `RecoveryBounds`, `ImportBounds`, `CallBounds`, `TurnBounds`, `PolicyBounds`, `TenantBounds` | bounds and sizes are numbers, a chunk of an import is not empty, there is a first version of an account, the calls are finitely many, every model has a provider | types of the constants |
| `FinitelyManyTypes` | the dictionary types are finitely many | they are counted |
| `DeptBounds` | at first there are root departments and their children, and managers lead existing ones | the state the suite starts from |

What stays a literal in a suite is the structure of a component (its handlers, statuses, roles of people), and the numbers of
`Sessions`, `Deletion`, `Grants` and `Menus`; the theorems of the first three hold for any numbers in their own modules, which the suite instantiates, and
`SessionsAreSound`, `DeletionsAreSound` and `GrantsAreBounded` carry them over.

| Theorem | The invariant behind it, and why it is needed |
|---|---|
| `RecoveryIsSound` (`RecoveryHolds`) | `AccountRecovery!Inv`: a live code belongs to the version its key names and was not spent (`CodeInv`); a code taken by a request is nowhere else, and who is about to commit holds the row at the version of his code (`ReqInv`). The consumption in Redis and the commit are apart: without the middle state nothing follows |
| `TenantsAreControlled` (`TenantsHold`) | `TenantControl!Inv`: locks have one holder but for the shared one on the principal (`Exclusive`), the audit records and the business of a request go together at every step (`AuditInv`), and what a request has read stays true under its locks (`LockInv`) |
| `DictionariesStayWhole` (`WordsHold`) | `Dictionary!Inv`: the rows meet the constraints at every commit; what requests are about to write are rows |
| `ImportsAreWhole` (`ImportHolds`) | `ImportInv`: a transaction that claimed the batch holds its row (`ClaimInv`); rows done, rows of the open chunk and counters go together through every savepoint (`RowsInv`, `CoverInv`, and `WholeInv` for strict imports). That the rows can be put in the order of the file is proved first (`InOrder` returns a sequence of exactly the set) |
| `DepartmentsAreTrue` (`DepartmentsHold`) | `DeptInv`: every path names live departments, each with the part of the path before it and the parent last (`Rooted`, which is what keeps a move acyclic); requests hold disjoint rows (`RowsApart`); and what a request that is about to write has compared, the tree below and above it and the scopes it changes, is held and still so (`WriteInv`, `ImpactInv`). That a scope outside of the locked departments is the same before and after a move is a lemma on trees (`MoveSpares`) |
| `QuotaStays` (`QuotaHolds`) | `QuotaInv`: a day's counter is at least the number of calls in it (`Paying`), the calls let through are at most the limit (`Through`), both up to the refunds a day gave for calls of another (`crossed`). A call above the limit is in the counter until its refund, so the two sets differ and neither bound is inductive alone |
| `PoolIsExact` (`EgressHolds`) | `EgressInv`: the free slots and the open calls add up; a call that sends is pinned to an allowed address |
| `ResumesAreTrue` (`ResumeHolds`) | `ResumeInv`: what a resumed stream told is the terminal state; an approval excludes every closing without execution |
| `SchedulesCatchUp` (`ScheduleHolds`) | `ScheduleInv`: unless an announcement was lost, one is under way, or the query just made, or the schedule itself, agrees with the table |
| `FilesAreKept` (`FilesHold`) | `FilesInv`: a task succeeds only when its file is whole (`ExportInv`), retention touches a file when its task is gone (`RetentionInv`), uploads are on disk before they are listed (`UploadInv`) |
| `NothingRevokedIsTold` (`ProjectionHolds`) | `ProjectionInv`: the lineage a message or copy records covers what its text derives from, directly or by an earlier answer it depends on (`Covers`), and dependencies point to earlier turns. That a permitted chain is permitted to its end is then an induction over the turns |
| `DoneStreamsAreWhole` (`StreamHolds`) | `StreamInv`: events emitted are the events known and those queued, the sentinel is behind the last (`QueueInv`), the frames sent and queued hold as many events as are known (`CountInv`), a turn saved is the turn sent (`DoneInv`) |
| `SettingsAreCurrent` (`SettingsHold`) | `SettingsInv`: who has compared a revision holds the tenant's row and what he saw is still stored (`SaveInv`), likewise the judged policy (`JudgedInv`) |
| `AnswersAreTrue` (`GatewayHolds`) | `GatewayInv`: a call knows by its place whether its batch was committed, and its audit row proves it (`GatewayCallInv`) |
| `PoliciesAreCurrent` (`PoliciesHold`) | `PolicyInv`: exclusive locks exclude (`Excluded`), who is about to save holds the tenant and the models he judged by, so grants and availability are still as in the catalog he sent (`WriterInv`), a deletion holds what it deletes and has seen that no policy names it (`EraserInv`) |

Every invariant of this table was checked by TLC on the suite before it was proved.  Induction over data is used where
a set can stand for it: *the least counterexample* (`LeastNumber`, from the well-foundedness of `<`) in place of the induction theorems, whose operator
parameter the provers cannot instantiate.

### What stays with TLC

* Liveness: `RunningSettles`, `ExpirySettles`, `OrphanRecovers`, `ConversationFreed`.  The prover has no fairness reasoning and no `ENABLED`.
* `MenusHold`: its conjunct `RoutesAreReachable` compares the route tree, a recursive function over menus whose parents may be moved, with a definition by paths; what the
  recursion computes is an induction over the height of the tree, and the tree changes.
* The three properties that runs refute, and the definitions marked as not met.
* What the theorems of `JobRunner` and `ChatRun` exclude by hypothesis is not true, as said there.

## Where documents and code part

Three runs show the code doing something else than its own text says; each is recorded
under `findings` with the quotation.

1. `prepared_resume`: a stream that was resumed and fails or times out expires the action with
   its own error code, but closes the log with the default one
   (`ai/api/resume.py:709`).  `validate_locked_unexecuted_terminal` demands equal codes, so
   this action can never prove that it was not executed: it is
   reported as *running* and blocks further work in its conversation, and its deletion.
2. `job_retry`: after the first failed attempt `_run_task` rolls back and then reads
   `job.job_id` from the expired row, which raises; the handler raises likewise on
   `log.start_time`.  No retry is made and the log stays *running* under a live
   `RUNNER_ID`, where the monitor spares it.
3. `chat_notify`: `wake` answers `False` also for a waiter that was already woken or has just
   timed out.  The confirmation, or a repetition of it, then releases the guard of a
   stream that is still running the model, and another run is admitted beside it.

Further expectations are stated in the modules, marked there as not met, and refuted by TLC when they
are given to the configuration of the component:

| Definition | The text | The code |
|---|---|---|
| `JobRunner!NoOverlap` | `job/models/job.py:64` "并发策略：1-允许，2-不允许" | the check for a running log and the insertion of the own one are not serialised (`job_runner.py:81`) |
| `ChatRun!WakeNotLost` in pub/sub mode | `hitl/manager.py:19` "subscribe 前到达的 wake 不丢" | with nobody subscribed yet the confirmation deletes the wake state the run is about to look for (`confirm.py:294`) |
| `AuthSession!RevocationHolds` | `change_password`: "Serialize password verification and revoke all older user sessions." | its `SELECT ... FOR UPDATE` does not refresh the row the request already holds, so an `auth_version` raised meanwhile is written over (`user_service.py:428`) |
| `AuthSession!NewPairIsUsable` | `auth/api.py`: "旧 refresh token 立即失效，返回全新的 access + refresh 对" | a refresh in the second of the log-in signs the same token again, which was just blacklisted (`auth/service.py:115`) |
| `UserImport!CountsAreTrue` | `user_import_service.py:1309` "标记当前 chunk 全部 + 后续 chunk 全部为 failed" | after a fatal error the counters still hold rows whose savepoint was rolled back |
| `JobSchedule!EveryChangeIsHeard` | `core/scheduler.py:311` "通知调度器任务配置已变更，需重新对齐 DB。" | the tool `job.update_cron` commits without announcing (`job/ai_tools.py`) |
| `DeptTree!LevelsBounded` | `constants/constants.py` "DEPT_MAX_LEVEL = 5  # 部门最大层级" | a move does not measure the subtree below the moved department |
| `ResultProjection!DeletionLeavesReceipt` | `CHANGELOG.md:48` "Preserve safe deletion receipts after target removal" | a receipt whose turn was given an earlier answer about the target is hidden with it |
| `TurnStream!RouterWithinLimit` | `ai/api/chat.py:961` "调用前先递增计数，防止并发绕过配额。" | the limit is compared before the increment, so concurrent questions pass together |
| `SystemSettings!ListAppliesAtOnce` | `keyword_blocklist.py:10` "管理员改配置后立即生效" | the caches of other processes live for 60 s, and a reader that began before the save keeps what it read |
| `MenuTree!EditsIsolateNothing` | `get_role_menus`: "新代码不再产生孤立父" | the first button added to a page a role holds makes it such a parent |
| `TenantControl!CliAuditIsTrue`, `ReplayAnswers` | the audit and replay the HTTP path promises | the maintenance command records a failure when the reply to its COMMIT is lost; a replay after the tenant's seeds were edited is refused |

Smaller remarks, seen while modelling:

* *Import.* Cancelling a running batch sets a Redis flag nobody reads.  A preview's "收口为 FAILED" is rolled back with its request.
  The conflict policy of an execution is not compared with the preview's.  The ten-minute life of a preview is enforced only by the
  hourly task.
* *Quota.* A refusal at a later level leaves the earlier levels consumed, though their docstrings say "拒绝请求不占额度".
* *Gateway.* A failure to emit after the action was committed is answered with `AI_CONFIRMATION_SETUP_FAILED` (`executor.py:1834`).
* *Departments.* A move does not check the uniqueness of the name among its new siblings; a deletion does not evaluate the actor's
  authority again under its locks.
* *Tenants.* A disabled tenant that was never bootstrapped can be neither bootstrapped nor activated.
* *Chat.* `chat.py:1061` says that every route is logged; screened questions are not.  A client reads "done" before the guard is
  released, so its next question can be refused.
* *Resume.* A failure of Redis in `hang` expires a proposal that is still valid.
* *Menus.* An update does not look for cycles: a menu moved below its own descendant disappears from the editor's tree.  The
  docstrings of deletion in `api/menu.py` promise to delete the children; the service refuses.  Concurrent saves may add a button twice.
* *Files.* A failed upload or deletion can leave a file without a row, never (`FilesHold`) a downloadable row without its file,
  except for an upload whose deletion is not committed after its file was removed.

## Abstractions

* Payloads, snapshots, hashes, permissions and data scopes are not data of the model: a
  revalidation either passes or refuses, at every point where the code makes one.
* The row locks below the conversation lock are one lock.  The timeout branch of
  `_hang_for_confirmation` takes them in another order; the deadlock this
  permits is listed as a hazard and not modelled.
* Redis (guard, envelope, wake-up) is not part of `PreparedAction`: the durable protocol
  treats it as a hint, and no guard of an action depends on it.
* `ChatRun` takes the deletion of the envelope by a woken run together with its wake-up, and
  an execution as two steps.  In memory mode there is one process, whose death ends every stream and
  request; a start-up is then one step, as nothing is served meanwhile.  Failing Redis commands are covered where the code
  goes on without them (`Drop`, `GuardLost`), not on the admission path, which refuses the request.
* The confirmation path without a durable action (`ai/api/confirm.py` below line 900) is not modelled: only envelopes of an earlier
  release take it.  In `PreparedAction` an audit log without an action counts as unresolved; `ToolGateway` has those logs.
* The source message of an action is always active (nothing in the code deactivates one while
  an action is pending).
* `JobRunner` takes the SELECTs of one `_do_execute` as one step (they
  read one after another with no write between them), and assumes that an execution with a
  timeout has ended before twice that timeout.  A task without a timeout that runs for over an
  hour may be reclaimed by the monitor of another process; `job_embedded` therefore sets `HasTimeout`.
* The monitor runs only with `APP_ROLE=all`; the stand-alone scheduler of a production deployment starts none.
  `OrphanRecovers` is checked with a monitor and is false without (`MonitorRuns = FALSE`).
* Liveness of read-only claims is not a run of its own: the sweeper's branch for them is exercised for safety in `prepared_mixed`.
* `ToolGateway`, `ResumeStream` and `TurnStream` see of the confirmation protocol and of the run guard what `PreparedAction` and
  `ChatRun` promise, and no more: an action settles, a guard has one holder or is lost.
* The revision of a policy catalog is a hash of what the catalog shows (`tenant_model_policy_admin_service.py:83`): only models with
  their provider, one reason why a model cannot be used, and a missing policy like a disabled one.  `ModelPolicy!Catalog` is that
  projection, and `SaveIsCurrent` is about it: a save goes through although a disabled policy was put or deleted meanwhile, which
  changes no grant.  Names, capabilities and quotas, which the hash also covers, are left out.
* Captchas, rate limits per address, log-in and operation logs, pagination, filters of listings, i18n and mail
  layout change no modelled state.  Data-scope filters are covered as far as an approval or a projection needs them.
* The marketplace is not modelled: `docs/APP-MARKETPLACE.md:7` says, and `app/main.py` confirms, that its routes are not
  registered.  Migrations, seeds and release tooling run against an idle database; only the constraints and
  triggers the modules rely on are modelled (the cascades, the mail-trust trigger, the uniqueness of dictionary codes).
* Hazards without a model: the set of active workers expires 30 s after the last start (`app/main.py:204`); the
  stand-alone scheduler starts no monitor (`app/scheduler_worker.py:34`); a task without a timeout that runs for an hour is
  reclaimed by another worker's monitor (`log_monitor.py:153`); the deadlock of the timeout branch (`executor.py:1884`); two
  rounds of locks in the creation of a user (`user_operations_service.py`), where a role row is locked after user rows although
  `authorization_lock.py:36` asks for one stable order.
* Liveness and `ENABLED` are outside of the proof system's reach, and what a recursive definition computes for every input, except where a least
  counterexample can be named.

## Plan

What is left, in order of importance:

1. **Proofs** of `MenuTree`'s `NothingDangles` and `EditIsExact`.
2. The row locks below the conversation lock in `PreparedAction`, for the deadlock of the timeout branch.
3. Liveness of `JobSchedule` and `StoredFiles` (retention ends) under the fairness of their cron tasks.
