# A verification development of ai-stp

TLA+ models of ai-stp, model-checked with TLC and proved with TLAPS. Covered so far,
on the server: the **job queue** with its workers, the **publication pipeline** that
runs on it, the **upstream ledger** that keeps official components up to date through
both, and the **sync ledger** that the devices of an account push their
private revisions to; in the CLI: the **forward transaction** that replaces the files
of an installation target, the **configuration plan** that drives several of
them together, and the **sync engine**, by which devices share a passport through the
ledger.

Names follow the source. `PROJECT.json` maps each definition to the lines it
models, lists the runs, a mutant per property, the hazards of the code and the
theorems.

## 1. The system

ai-stp is a local-first setup manager. A Rust CLI owns a developer's files; an
optional Python service stores accounts, the catalog, publication and
synchronization.

| Component | State it keeps | Operations | Talks to | What makes it correct |
|---|---|---|---|---|
| Job queue (`apps/platform/.../queue`) | `job` table: state, attempts, `locked_by`, `locked_at`, `run_after`, payload | enqueue, claim, succeed, fail, heartbeat, requeue stale, requeue locked, cancel, retention | called inside the transactions of API and worker | a verdict is final and, if it is success, real; attempts bounded; a live lease protects its delivery; every job settles |
| Worker (`apps/worker/.../runner.py`) | one job in memory, a heartbeat task | poll, run handler, record outcome, stop | queue, handlers | never settles what it does not own; a stop loses no job |
| Publication API (`slices/publish/service.py`) | `publication_plan`, idempotency keys | create, bind artifact, confirm | queue (same transaction), object storage, sources | a confirmed plan ends; no confirmation moves a plan backwards |
| Publication handlers (`publication_logic.py`) | `validation_snapshot`, `catalog_metadata`, plan state | validate, publish, refuse, settle a dead-lettered plan | queue, object storage, scanners | only validated passports are published; versions are immutable; refusals are final; redelivery is idempotent |
| Sync ledger (`slices/sync`) | per-account events, heads, revisions, receipts, outbox positions | push, pull | CLI sync engine | the stream is applicable in order and holds nothing twice, receipts stay true, no accepted update is lost |
| Sync engine (`apps/cli/src/sync`) | local revisions and their heads, the log of events, the remote head, the pull position | push, pull, merge, recover | sync ledger, CLI store | every page applies; the log agrees with the ledger; no edit is lost; devices converge |
| Installation (`apps/cli/src/installation`) | journal guard, staging directory, custody records, managed files | admit, stage, apply, verify, finish, cancel, resume | file system, local store | a crash at any step is resumed or refused; foreign edits survive; a cancelled operation is not applied late |
| Activation and legacy adoption (`installation/activation`, `installation/legacy*`) | retained receipts, adopted records | activate, adopt | child processes | nothing is adopted twice |
| CLI store (`apps/cli/src/store`) | SQLite rows, schema version | migrate, read, write | all of the CLI | migration resumes after a crash |
| CLI account (`apps/cli/src/account`, `identity`) | credentials, enrollment and link journals, heartbeats | enroll, recover, link, unlink, report | API | one enrollment per identity; journals are replayed once |
| CLI publication journal (`apps/cli/src/publication`) | attempts, receipts | attempt, read back, interrupt | publication API | a lost answer never publishes twice |
| CLI tasks, selection, projects | task journal, selection sessions | claim, select, install | CLI store | decisions match the revision they were made on |
| CLI authoring, passports, sources, provider | documents, provider processes | author, fork, freeze, validate | CLI store | digests are canonical |
| Sessions and device flow (`slices/auth`, `session.py`) | device codes, refresh tokens | start, approve, poll, refresh, revoke | CLI | one credential pair per code; a revoked session is dead |
| Grants, ownership, visibility | invitations, grants, catalog lines | invite, accept, revoke, transfer | API | at most one live grant; no revocation is undone |
| Official upstream (`official_upstream`, `catalog_transfer.py`) | sources, sync attempts, outbox | schedule, sync, record outcomes, reconcile, transfer a line | queue, publication, manifest | each content is published once; attempts tell the truth; a transferred line gets no official work |
| Project context, corporate administration, technology landscape | organizations, links, assignments, reports | request-scoped CRUD | API | row locks cover each decision |
| Catalog, search, assurance, artifacts | projections and evidence | index, serve | publication | projections follow the catalog |
| Contracts, foundation, passports, web, desktop | types and user interfaces | none on shared state | all | pure functions |

`PROJECT.json` ("components") has the full list with files, and says of each
component whether it is modelled.

Interaction that matters here: an API request inserts the plan and the job in one
transaction. A worker claims the job in a second transaction, runs the handler in a
third, and records the outcome in a fourth. A heartbeat task renews the lease in
transactions of its own, and every poll reclaims expired leases. The handler may
enqueue a further job in its own transaction: validation enqueues publication.
There is no exactly-once step between the third and the fourth transaction, so
every handler can run again after it succeeded.

The sync ledger stands apart from the queue. A push applies its events one by one,
each in a transaction that locks the account row before it reads anything; a pull
reads the stream without a lock. Positions are therefore committed in their order,
and a page is always a prefix of what follows its cursor.

The installation side of the CLI has no server in it. A reviewed plan touches up to
three roots (global, project, local). Each root has a forward writer with its own
SQLite file, staging directory and guard file beside the files it manages; the
custody of the user, where the plan and its outcome are found again after a crash, is
kept by a forward writer too; and the CLI store holds the intent. Nothing commits
two of these together.

### Hard behaviours

* **Crash between two transactions**: after the claim, after the handler, after
  a commit whose acknowledgement was lost.
* **Lease against slow worker**: two runs of one job side by side.
* **Read without lock, write later**: `session.get` before `SELECT … FOR UPDATE` in
  the settlement, `cancel`, `confirm_plan`, the state test of `execute_publish`.
* **Concurrent inserts**: two plans for one coordinate, two snapshots of one plan.
* **Limits**: the last attempt, consumed by `fail` or by `requeue_stale`; a backlog of
  exactly `MAX_UNDELIVERED_ANCESTORS` revisions.
* **A lost answer**: the device repeats the stored request; or it is enrolled again,
  retires the request, and the request arrives after all.
* **Pages that end anywhere**: between a revision that a conflict kept and the merge that
  delivered it.
* **Concurrent edits of several devices**: a refused revision is kept, and may be
  delivered much later, by the merge that names it.
* **Death between two durable writes** of one installation: four stores per root, and
  the custody and the intent on top of them. Requests are repeated, delayed and
  reordered by people and processes that do not know how far the last one came.
* **User edits** of a managed file at any moment, also between two resumed attempts.
* **Identities that come back**: a removed directory's device and inode numbers.
* **Locks of several transactions**: a sync handler holds its source and the catalog identity
  while it fetches; publication, transfer, manifest and daily pass meet it there, while
  polls, settlements and the pass write attempts that they read without a lock, and a pass
  that waited for the source goes by what it had loaded before.
* **Liveness**: a job or plan must end although the workers that run it die.

`PROJECT.json` ("hazards") lists each at its line with the properties that cover
it. The hazards of components still to come are listed too, with the module
planned for them.

## 2. Modules

```
JobDelivery        what the queue promises its producers      (abstract)
   ^ implements
JobQueue           queue/engine.py + worker/runner.py         MCJobQueue, JobQueueProofs
   ^ extends (both)
Publication        publish/service.py, publication_logic.py   MCPublication, PublicationProofs
UpstreamLedger     official_upstream/, catalog_transfer.py    MCUpstreamLedger, UpstreamProofs
   v implement (both)
PublicationPromise what publication promises its callers      (abstract)

SyncGraph          revisions, backlogs and delivery orders    (operators)
   ^ extends (both)
AncestorWalk       _undelivered_ancestors, turn by turn       WalkProofs
SyncLedger         slices/sync/service.py, validation.py      MCSyncLedger, SyncLedgerProofs
   ^ extends (SyncLedger)
SyncEngine         cli/src/sync/, store/revisions.rs          MCSyncEngine, SyncEngineProofs
   | each device's requests are the events that SyncLedger applies

InstallPromise     forward.rs, Progress                       (abstract)
   ^ implements, once for each target
ForwardTransaction installation/forward.rs, forward/          MCForwardTransaction, ForwardProofs
   ^ its calls are the steps of
NativePlan         installation/planning/, custody/mod.rs     MCNativePlan, NativePlanProofs
   | implements InstallPromise for each root, and once for the plan as a whole
```

### JobQueue

| Model | Code |
|---|---|
| `row[j]` | the `job` row of an idempotency key, `absent` before insert and after retention |
| `row[j].leased` | `locked_at` is younger than the lease timeout |
| `row[j].due` | `run_after` has passed |
| `row[j].scrubbed` | the credentials of the payload were replaced |
| `worker[w]` | what a process holds: polling, running a handler, holding an outcome, or having read its row as its own; `seen` is the attempt count it read |
| `cancelling` | transactions between the read and the write of `cancel` |
| `applied` | history: jobs with a committed handler run |
| `Enqueue`, `Claim`, `Sweep`, `GcTerminal`, `Heartbeat` | `enqueue`, `claim` + `requeue_stale` (one transaction in `run_once`), `gc_terminal_jobs`, `heartbeat` |
| `HandlerCommits`, `HandlerFails`, `HandlerCommitUnacknowledged` | the ends of the handler's transaction in `_process` |
| `ReadRow`, `Settle` | `session.get`, then `mark_succeeded` or `fail` |
| `Abandon`, `Drain` | a dead process or a failed status transaction; `shutdown` with `requeue_locked` |
| `CancelRead`, `CancelWrite`, `CancelAborts` | `cancel` |

Each action is one committed transaction, or one event of a process between two.
The settlement is two actions because the row is loaded without a lock and the
locking select that follows returns the object the session already holds, without
refreshing it. The ownership test therefore sees the first read. Both claims and
sweeps skip rows locked by others, so any subset of the expired rows may be
reclaimed by a sweep. Priority and `run_after` order are abstracted: any due row
may be claimed.

The retention sweep deletes rows that have been terminal for 30 days. The guard of
`GcTerminal` (no process and no cancelling transaction still refers to the row) is
that timing assumption.

### Publication

| Model | Code |
|---|---|
| `plan[p]` | `publication_plan.state` |
| `snapshot[p]` | the `validation_snapshot` row; unique per plan |
| `catalog[c]` | the active `catalog_metadata` row of a coordinate; unique |
| `confirming[q]` | a confirm request between its read of the plan and its write |
| `executing[w]` | what a handler run has read: the scan of `execute_validate`, the plan and the free coordinate of `execute_publish` |
| `ConfirmRead/Write/Refused` | `confirm_plan` |
| `Validate*` | `execute_validate`: replay, refusal, scan, record |
| `Publish*` | `execute_publish`: skip, refusal, replay, insert |
| `SettleVerdict`, `SettleDeadLetter`, `SettleRollsBack` | `_record_outcome` with `settle_dead_lettered_plan` |
| `QueueStep` | polls, heartbeats, expiries, crashes and stops, from JobQueue |

The checks that decide a verdict (scanners, provenance, expiry, ownership) are a
nondeterministic choice between their outcomes. `assert_publication_owner` locks
the line of a component until the commit (`LineIsFree`); nothing locks the line
of a setup, and `pub_contest` uses setups for that reason. The plan states
`draft`, `stale` and `cancelled` of the contract are never persisted: no code
writes the first and the last, and the request that writes `stale` raises, which
rolls its transaction back. Two confirmations that both read `ready` can put a plan back
to `validating` after the worker moved it on (`service.py:618`), although the comment at
`service.py:442` says that a state after the confirmation must not be regressed; the
validate job, whose key is taken, is not enqueued again. The handlers never cancel, and plans settle long
before the retention sweep, so `cancel` and `gc` are not steps of the pipeline.

`PublicationPromise` is what a caller may rely on: a plan is in progress, refused or
published; a refusal is final; one step publishes a plan that is in progress, and puts its
passport at its coordinate, where no other one is shown afterwards. That a published plan may
still become refused is part of it, because `execute_publish` can do that when it is
redelivered (`pub_replay`); what the promise says is that the version stays even then.

### UpstreamLedger

One official source: the jobs of JobQueue are its sync jobs, one for each trigger (a day, or
a manual request), and an attempt has the key of its job.

| Model | Code |
|---|---|
| `source`, `owner` | `inventory_state` of `official_upstream_source`; the owner in `catalog_identity` |
| `attempt[j]` | `official_upstream_sync`: state and plan of the attempt of trigger `j` |
| `plan[p]`, `catalog` | the publication plans of the source with their content digest; their versions in the catalog |
| `syncing[w]` | the handler's transaction: about to fence, fetching under its locks, or holding a plan it will join |
| `recording[w]` | a poll or settlement that has read which attempts to write, and the job rows it has locked |
| `closing[p]` | the pipeline's transaction on a plan: publishing under the lock of the line, or refusing with the attempts it has read |
| `transferring`, `cancelling` | the transfer: the attempts and jobs it has read |
| `passing` | the pass of a day, under the lock of its source: the attempt it has read and the state it will write |
| `Schedule` | `enqueue_daily` with `create_attempt_and_outbox` and `dispatch_outbox` for a new trigger; whether the source is enabled is what `_enabled_sources` loaded before the lock |
| `PassReads/Commits/Aborts` | the same for an attempt that exists, with `reconcile_delivery`: attempt, job and plan are read without row locks, and the attempt is written afterwards |
| `SyncLooks`, `SyncSkips`, `SyncIsFenced`, `PassesFence` | the first read of `run_sync`, and `fence_attempt` |
| `SyncRefuses`, `SyncFindsPublished`, `SyncReuses`, `SyncJoins`, `SyncStarts`, `SyncRaises` | the ends of `run_sync` |
| `RefuseReads/Commits`, `AssertsOwner`, `PublishCommits`, `CloseAborts` | what `publication_logic.py` does to plan, catalog and attempts |
| `TransferReads/Commits/Aborts` | `transfer_catalog_line` |
| `Polls`, `PollReads`, `PollCommits`, `PollAborts` | `run_once`: sweep, `unrecorded_queue_outcomes`, `record_queue_outcome`, claim |
| `SettleSilently`, `SettleReads`, `SettleCommits` | the status transaction of `_process` with `record_queue_outcome` |
| `ManifestSets` | `reconcile_official_manifest`, as far as it enables or pauses the source |

A transaction that waits for a row lock, or writes what it read without one, is two
actions, with the reads in a variable between them. The locks are guards: `SourceFree` and
`IdentityFree` for `SELECT ... FOR UPDATE`, `AttemptsFree` for the attempt that a handler run
has written and not committed, `RowsLocked` for the job rows that a recording transaction
holds. An attempt, its outbox row and its job are created in one transaction, so nobody sees
an undispatched outbox, and the repairs of `reconcile_delivery` for it are unreachable;
likewise `resolving` never leaves the handler's transaction. A retry that the
handler records itself (`_record_sync` with `retry_wait`) is rolled back with the exception
that follows it, so `SyncRaises` changes no attempt; the settlement of the job writes it.

The publication of a plan is reduced to its verdicts, one transaction on a plan at a
time, because Publication covers how they are reached; a verdict may come at any time, and a
published plan may still be refused, which Publication shows to happen. That the reduction fits
is `KeepsPublicationPromise`: the source's plans, each with a version of its own, keep the same
`PublicationPromise` that the pipeline implements. The daily pass of the
worker is in one transaction with the sweep that follows it, while the command of `enqueue.py`
commits without them; here the pass is always a transaction of its own. Retention of jobs is
left out: a terminal job outlives the passes of its day by weeks.

What the model shows beside the properties:

* **A settled attempt can be overwritten.** `record_queue_outcome` tests
  `_SETTLED_ATTEMPT` (`ledger.py:208`) on an attempt that it read without a lock. If a
  transfer commits `cancelled_transferred` between the read and the write, the write makes it
  `retry_wait` or `dead_lettered`, although the comment at `ledger.py:40` says "Attempt
  states a queue outcome never overwrites". The job is cancelled and the source is
  disabled, so nothing runs, but the attempt says otherwise.
* **A pass can schedule a source that is no longer enabled.** `_enabled_sources`
  (`enqueue.py:39-51`) loads the sources before any lock, and the `SELECT ... FOR UPDATE` of
  `create_attempt_and_outbox` and `dispatch_outbox` (`ledger.py:80-89`, `152-157`) returns the
  same objects unrefreshed. A pass that waited while a transfer or a pause committed still
  creates an attempt and a job. `run_sync` reads the source again, so the job is skipped, as
  `NothingAfterTransfer` shows, but the attempt stays `queued`.
* **A pass can write what is no longer so.** It holds the source, but neither attempt nor job nor
  plan (`ledger.py:93-98`, `169`, `371-431`). What a poll, a settlement or a refusal writes in
  between is overwritten by `queued` or by an outcome of the job; a transfer and a handler
  run past its fence need the source and cannot come in between. The outcome is then told again: a
  job that was given up by the next poll (`GivenUpIsTold`), a refused plan by another pass of
  the day (`RefusalReachesAttempt`).
* **A dead letter is not final.** With the stale ownership test of the queue, a worker whose job
  another one has given up can still settle it as succeeded. `GivenUpIsTold` therefore ends
  with the attempt told or the job no longer given up.
* **A refusal can miss an attempt.** `_start_publication` returns a plan it read as
  unsettled; if the plan is refused before the attempt is bound to it, the refusal finds no
  attempt. The attempt stays `publishing` until a daily pass of its day. A manual trigger is
  not a day, so its attempt stays so for ever; `RefusalReachesAttempt` is therefore stated of
  days.
* **A skipped run leaves its attempt waiting.** A handler that finds the source paused returns
  "skipped" (`sync.py:86`) and writes nothing; its job has succeeded. If the manifest enables the
  source again, the attempt stays `queued` although no job is left to deliver it:
  `reconcile_delivery` repairs a succeeded job only when the attempt has a plan
  (`ledger.py:429`). The next day has an attempt of its own. `WaitingCanBeTold` therefore asks
  for more than a succeeded job only where a plan was refused.

### SyncLedger

| Model | Code |
|---|---|
| `revision` | the `sync_revision` rows; the content-addressed id of a row is abstracted to its place, so a new id is a new place and a known id is a row |
| `head[e]` | `sync_entity_head` |
| `stream` | `sync_outbox` by sequence number, `MAX + 1` under the account lock |
| `receipt` | `sync_event_receipt`, one for each idempotency key |
| `RejectInvalid`, `RejectInadmissible` | `validate_event_document` raises; a second identity, an unknown parent, a parent of another entity |
| `Repeat` | the revision is stored already: `superseded`, or `conflict` when it was kept and never delivered |
| `Conflict`, `RefuseBacklog` | the revision is kept, and not delivered |
| `RefuseCollision` | an event id that the stream holds already, or would hold twice |
| `Accept` | undelivered ancestors first, then the event; head and receipt |

An action is one event of a push, which is one transaction; events of all devices
interleave in any order. A key that was used before is answered from its receipt
and changes nothing, so it is no action: what matters is that the answer is still
true, which `ReceiptsAreTrue` says. `Content` is what passes `validate_parents`: at
most two parents, known or not, of any entity, and a tombstone has one. An entity
stands for an id with its kind, since the id prefix determines the kind. The check
that the device is active changes nothing and is left out.

`Accept` delivers the backlog, defined in SyncGraph as the least set of undelivered
revisions that is closed under parents, in any order that puts parents first.
AncestorWalk is the loop that computes it: `Emit`, `Skip` and `Expand` are the three
ways through its body, and the lists that the code builds from JSON arrays are taken
in any order. Its first states are every account of `Size` revisions with every
delivered part that is closed under parents, which `StreamApplicable` guarantees, and
parents of the event of which one was delivered, since an accepted event names the
head. The branch for a revision that the account does not hold is unreachable there:
parents were checked before, those of the event and those of each stored revision.

### SyncEngine

| Model | Code |
|---|---|
| `document`, `local`, `heads` | `revision`, `revision_parent` and `head` in the store of each device; a content address is the place in `document`, so the merge that two devices make of the same heads is one revision |
| `request` | the sealed requests of all devices; an event stands for its remote revision too, since a device keeps one event per address (`retain`) |
| `log[d]`, `remote[d]`, `cursor[d]` | `sync_event` in row order, `sync_remote_head`, `sync_cursor` |
| `enrolled[d]` | which device id a device signs with |
| `call[d]` | the request whose answer a push awaits |
| `answered` | the event of each key in `receipt` |
| `Edit`, `Merge` | `revisions::commit` with `Write::Advance`; `merge::apply` |
| `Resend`, `Send` | the two ways through a step of `Client::push`: the pending request, or the next revision of the walk that no event carries, sealed by `History::request` and stored by `retain` |
| `Lose`, `Learn` | the call ends without an answer or the process dies; `record_receipt` |
| `Serve` | `_apply_one` on the request, at any time after it was stored |
| `Pull` (`Replay`, `Receive`) | `apply_transaction` with `known` and `apply_event` |
| `Replace`, `Recover` | a new enrollment is confirmed; `retire` |

It EXTENDS SyncLedger: `Serve` is `ApplyAs` on the event, so the ledger answers exactly as
in its own module, and the ledger's theorems hold of it. A command keeps the store and the
account of its device until it ends, so its steps are separated only by its own call;
commands of different devices and the server interleave freely. A push is not one action
but its walk, which looks every revision up in the log again: a push that dies and one that
is repeated are made of the same steps. Pages have one event, because the application
of a longer page is the same steps without others between them, and the server adds events
only at the end. A request may be applied after its device was replaced: the device is
checked once, when a push arrives (`service.py:928`).

What checking it showed, beside the properties:

* **A stranded device.** `push.rs:300` answers a revision that an event carries from its
  stored receipt, also when that receipt is a conflict. If the conflicted revision is then
  the only head, there is nothing to merge and nothing that is sent, and every push answers
  conflict. One way there: an answer is lost, the device is enrolled again and retires the
  request, pushes the same revision under its new id before it pulls, and is told conflict
  because the first request had been accepted; an edit on top, which names the conflicted event as its
  parent, conflicts too; the pull then delivers the first event, which changes no local head.
  Another way, without a replacement: two devices make the same merge, and a page ends
  between an ancestor that a conflict kept and the merge. The
  server's comment "A conflict candidate is retained for a later explicit client merge"
  (`service.py:543`) has no merge to wait for here. The edit is not lost, and
  an edit of another device releases it. `Converges` excepts exactly this (`Stranded`).
* When a page ends right after a conflicted revision of the device itself, the remote head is
  a row in state conflict, and `History::load` refuses to push until the next pull.
  `CaughtUpCanGoOn` says that this passes.
* A merge that was rejected because its backlog is too large is never sent again:
  `retain` returns the stored rejection.
* One local revision may have several remote ones: the same merge pushed by two devices.

The model sends the revisions whose parents are carried in any order, whereas the code
follows one order and stops at a rejected one; so it has a few more behaviours than
the code, none of which helps a property.

### ForwardTransaction and InstallPromise

| Model | Code |
|---|---|
| `phase[o]`, `stage[o]` | a row of `operations`; the phase `completed` is split by its outcome into `done` and `cancelled` |
| `rows[o]` | its rows of `changes`: what each path held when it was observed |
| `journal` | the operation that the guard `journal.json` names |
| `staging` | the staging directory: its device and inode, and the entries in it |
| `file` | what each path holds: its first content, a user's, an operation's, or nothing |
| `writer` | the process that holds the target lock, and where its command stands |
| `Admit` | `admit`, and the first transaction of `prepare` |
| `Resume` | `prepared`, `start`, `apply`, `complete`, up to `staging()` |
| `Open`, `Bind`, `StageGuard`, `HangGuard` | `staging()`: create, `set_stage`, stage the guard, rename it into place |
| `Publish*` | `files::publish`: skip, stage, second read, rename or remove, confirm |
| `Cancel*`, `Finish`, `CompleteRetires` | the transactions of `cancel`, `finish`, `complete` |
| `Replay`, `ClearStaging`, `ClearGuard` | `progress` of an ended operation, `clear_completed` |
| `Return`, `Interrupt` | a failing check or the end of a command; death at any other point |

An action is one durable write with the reads it follows. The target lock makes
commands of one target exclusive, so `writer` is one record. The order of the
changes is left open. Modes, hashes, parents and the identities of the root are
abstracted to the content of a path: an observation is equal or it is not.

`InstallPromise` says what callers may rely on: an operation is *pending* until its
publication may begin, and only till then can it be cancelled; a *started* one changes
files and ends *done*; one operation at a time is unfinished. `StatusOf` maps the
phases: `applying` without a recorded directory is still pending, because `cancel`
still accepts it.

Two things the model shows that are not violations of anything documented. If a
process dies between the stage of a file and its rename, and the file then gets exactly
the desired content from somebody else, `publish` passes it over and leaves the staged
entry; `complete` refuses a directory with entries, and `cancel` refuses a recorded
directory: the operation waits until the file is changed back. `ForwardSettles` excepts
it (the second disjunct of `Obstructed`). And an edit during the prepared phase blocks
both `start` and `cancel` until it is undone.

### NativePlan

| Model | Code |
|---|---|
| `custody[p]` | `Custody::status`: the progress of the custody's own forward writer |
| `intent[p]` | `operation.state` of the plan in the CLI store |
| `child[r][p]` | `Progress` of the writer of a root |
| `before[p]` | the observations the review is bound to |
| `command` | the command that holds the custody lock: its place, and the roots it has still to visit |
| `PreparePlan`, `AdmitIntent`, `PrepareRoot` | `Reviewed::prepare` |
| `CancelPlan`, `CancelRoot`, `CancelIntent`, `CancelCustody` | `cancel_preparation` |
| `ApplyPlan` .. `ReportConfigured` | `apply_prepared`: start, announce, start roots, apply, finish roots, commit the custody, report |
| `ConfirmSession` | `confirm_session` |

Each call of a writer is one step here, and `RootsKeepPromise` checks, and proves, that
these steps stay within `InstallPromise`, which is what `ForwardTransaction` implements.
`PlanKeepsPromise` is the same promise for the plan as a whole, with the custody's
status: a plan over three roots can be cancelled until its publication may begin, and
never after, as if it were one installation.

What the model shows of the order of the commits: a preparation repeated after an
interrupted cancellation is answered, for the cancelled roots, with their
cancellation as if it were a preparation; the plan can then only be cancelled, since
`apply_prepared` refuses it. A process that dies between the custody's commit and the
last transition leaves the intent `applying` until `confirm_session` writes it. Once
a root has its outcome, a root that was undone by a user blocks the plan until the
plan's bytes are back, because nothing is applied again (`Obstructed`).

## 3. What is checked

| Run | Instance | Shows |
|---|---|---|
| `queue_quiet` | 2 jobs, 2 workers, 2 attempts, under `QuietSettle` | a live lease is not taken, payloads are scrubbed exactly when settled, and the queue implements `JobDelivery` |
| `queue_settle_race` | 1 job, 2 workers, 2 attempts, without `QuietSettle`; nobody cancels | **finding**: the lease lapses between the two reads of a settlement, a sweep requeues the job, and the worker settles a row it no longer owns |
| `pub_contest` | 2 setup plans with their 4 jobs, 1 coordinate, 2 workers, 1 attempt, attended leases | a published plan was validated and is in the catalog; the plans keep `PublicationPromise`, so no refusal is taken back and no version replaced |
| `pub_live` | 1 plan, 1 confirmation at a time, 2 workers, 2 attempts, fair | queue and pipeline together: no delivery after the last attempt, and no job with two workers at once; publish job and passed snapshot appear together; every job settles; a confirmed plan gets a verdict or a dead-lettered job; a refusal is final |
| `pub_replay` | 1 plan, 1 worker | **finding**: a replayed publish job of an expired plan makes the published plan failed |
| `pub_limbo` | 1 plan, fair | **finding**: the stale sweep dead-letters a validate job and the plan stays validating |
| `upstream` | 1 daily trigger, 2 plans of 1 content, 2 workers until a plan is started and 1 from then on, 2 attempts, fair | no content is under way or published twice; `published` is true; nothing official happens after a transfer; a refusal and a dead letter reach the attempt; the plans keep `PublicationPromise` |
| `sync_ledger` | 5 events, 2 singleton entities, 4 event ids, backlog bound 2 | every prefix of the stream is applicable and shows one live identity, no event id twice, heads cover the stream, receipts stay true |
| `sync_engine` | 2 devices, 2 edits of the first revision and their merges, 12 events, one replacement of the device that made the passport, fair | every page applies, the logs agree with the ledger, a caught-up device has the ledger's head and can push or merge, no delivered edit is lost, and the devices converge unless one is stranded |
| `sync_walk` | every account of 5 revisions, bound 3 | the walk returns an order of exactly the backlog, refuses exactly what exceeds the bound, and ends |
| `forward` | 2 operations (one replaces a file and removes another, one replaces a file and adds metadata), 2 paths, 2 directory identities, 2 edits, fair | only observed content is replaced, the guard covers every effect, leftovers can be cleared, `done` is true; the writer keeps `InstallPromise`; every operation ends unless the user's files stand in its way |
| `native_plan` | 2 plans over 2 roots, 2 edits, fair | the stores agree on every outcome, no half-applied plan is reported; each root and the plan as a whole keep `InstallPromise`; a begun plan ends |

**Bounds.** `MaxAttempts = 2` is the smallest number that has a retry and a last
attempt; the stale settlements differ from the ordinary ones only in the count
they write, which needs one earlier delivery. Two workers give every pairwise
race: a delivery is between the worker that had it and the one that has it now.
Two jobs let a sweep reclaim one job while another is claimed, and let a handler
enqueue a job beside its own. One plan has two jobs (validate and publish), so the pipeline with one plan
already interleaves validation and publication, and two plans meet at their
coordinate. There one attempt is enough: a stopped worker gives its job back without
consuming the attempt, so a run that had committed is still followed by another one beside the
other plan's, while retries are in `pub_live`; with two attempts the two plans have 1.9 million states. In the upstream ledger two plans let a refused content be started again
or, were the code wrong, beside the first one. Two workers share the queue there, because what is
hard about an attempt and its job takes two: a lease lapses under a handler run, another worker's
poll gives the job up and records it, and the run commits its attempt afterwards; or two polls
record at once. Two workers and two plans together have millions of states, so `MCUpstreamLedger`
bounds them (`WithinBounds`): a `Helper` works until a plan is started and then rests, its
process polling with nothing under way (until it does, no run starts one), and a `Spare` plan is started only when all others have
been. The first keeps every race of two processes over job and attempt, also a run
whose job was given up committing its attempt beside a dead letter, as `queued` or bound to
the plan it starts; what needs a plan before the race, two runs that meet over one content, the lock
of the source puts in a row, and a run that loses its worker is followed by another of the same
job. The second only fixes the order of two plans that nothing else tells apart. Before the bounds
were chosen, TLC was asked for the cases the properties are about, and finds them in this
instance: an attempt that is `queued` beside a dead-lettered job, written by a pass; one that is
`publishing` beside a dead-lettered job; an attempt that waits for a refused plan. The theorems hold for
any number of workers and plans, without `WithinBounds`. `pub_replay` needs one attempt and one worker, which
shows that the finding needs no contention. Five events suffice for a first
revision, three conflicts built on each other and a merge of the last, whose backlog
exceeds a bound of two; and for a tombstone, a second identity and a revival of the first. Two entities
are what `OneLiveIdentity` compares. In the engine, the first revision and two edits with the merges
they need let both devices edit the same revision, or one of them twice, and
make every merge twice; twelve events are more than these can send, and
the replacement of one device retires one request. In the walk, five revisions hold two branches
with a common undelivered ancestor, enough for the walk to hold a revision on its stack
twice, on both sides of a bound of three. Two operations are one whose leftovers
remain and one that comes next, which is all that the replay of an old outcome can
meet; two directory identities let the next directory have the same one or another. Two roots let a plan be half prepared, half cancelled, half started and
half finished, and two plans compete for a custody and for a root.

**Symmetry** is used in the invariant runs only (jobs, workers, requests, plans are
interchangeable); runs with a temporal property other than an action property do
not use it.

**Deadlock** is off in the pipeline's runs: plans are finitely many, and after
the last job settled nothing is left to do. Likewise when every plan of an installation has
ended and the edits are used up, and when the devices have converged. The queue's runs check it except
where the cfg says otherwise. The ledger stops when its bounded number of keys is used, and
the walk when it has answered.

### Assumptions of the runs

* `QuietSettle` (queue_quiet): nothing but a heartbeat touches a row between the two
  reads of its settlement. The code does not guarantee it, and
  `queue_settle_race` shows what happens without it. No other run assumes it, and of the
  theorems only the three that are stated of `QuietSpec`. For the pipeline it is no assumption:
  `PipelineIsQuiet` derives it from attended leases.
* Distinct worker ids. The setting defaults to one value for all processes
  (`settings.py`); a deployment has to configure it.
* `Attended` (the pipeline's runs): a lease lapses only when its worker
  has died or stopped beating. Without it, `RefusedStaysRefused` fails: a run that
  has tested the plan's state (`publication_logic.py:1033`), loses its lease while
  alive and is overtaken by a delivery that refuses, still publishes. Of the safety properties of
  `pub_contest` and `pub_live`, `OneRunPerJob` and `KeepsPublicationPromise` need it too; the
  theorems about the others do without.
* One confirmation at a time (the pipeline's runs). The code does not
  guarantee it: `confirm_plan` reads the plan without a lock. With two requests in the
  instance, `RefusedStaysRefused` and `ConfirmedGetsVerdict` are both violated, in eight
  steps: two confirmations read `ready`, the first one starts a validation that refuses, the
  second one writes `validating` over the refusal, and no job is left that would end
  the plan. The theorems about the pipeline allow any number of requests; three of them assume
  `OneConfirmation`, that no two hold the same plan as ready at a time.

### Fairness

* A worker that runs a handler ends it, and then reads and settles its row (weak
  fairness). The event loop schedules the worker's task; that a handler *ends* is an
  assumption, because `runner.py` sets no timeout and the heartbeat renews the
  lease of a handler that never returns.
* Time passes: a backoff elapses, and a lease that nobody renews expires (weak).
* A due job is claimed and an expired one reclaimed if this is possible again and
  again (strong): every process polls for ever and claims in `run_after` order, so a
  job cannot be passed over for ever.
* Stops are finitely many: `Drain` returns a job without consuming an attempt, so
  endless redeployment would postpone a job for ever.
* In the upstream ledger: a transaction that waits for a lock gets it some day, since
  PostgreSQL grants a row lock in the order of the requests, so what goes on, finds or passes is
  fair although the lock is taken again and again in between (strong on `GoesOn`, `Finds`
  and `PassReads`; `PassCommits` alike, so a pass that aborts each time does not go on for ever); an operator's transfer that has begun ends. Daily passes of a day recur: every
  process makes one on the day itself and on the next, and a process that starts within a
  week another. That one comes after a divergence is an assumption: a job that is retried
  past the next day, and a worker that is not restarted within the week, can miss it. Nothing
  makes a publication end, the manifest enable a source, or a trigger come.
* Crashes are **not** bounded: each costs an attempt, and attempts are.
* The walk is one loop, which goes on while it can (weak).
* The owner keeps running whatever sync commands a device admits (weak on `Syncs`). A
  request that is sent again and again is applied and answered some day (strong on `Serve`
  and `Learn` of the event that a call awaits): without it, a network that loses every
  answer would keep a device from ever knowing. Nothing makes anyone edit, and an enrollment
  is replaced finitely often.
* A command of the CLI goes on while it can (weak on `Proceed`); the owner of an
  unfinished operation or plan repeats the commands that end it (strong on `Drive`: the
  command may be shut out by another one again and again); a process is killed
  finitely often. There is no fairness on preparations, since a review expires, nor on
  users, whose files the two liveness properties except.

## 4. What is proved

All theorems hold for every finite or infinite set of jobs, workers, plans,
coordinates, entities, event ids, operations, paths, directory identities, roots and
devices, every `MaxAttempts > 0`, every backlog bound and every bound on edits, events and
replacements. They assume only the named
assumptions of the modules, and where it is said, `DistinctOwners`.

**JobQueueProofs**

* `TypeCorrect`, `AttemptsBounded`: `Spec => []TypeOK`, `Spec =>
  []ExhaustedNotDelivered`. Neither is inductive: a stale settlement writes
  the attempt count it read, whatever the row holds. The strengthening `AttemptInv`
  adds that a settling worker has read a count below the maximum.
* `SuccessIsReal`: `Spec => []SucceededMeansApplied`. `AppliedInv` adds that a worker with
  the outcome "ok" holds a job that was applied, and that such a job's row has not been
  removed and re-created meanwhile, which the retention guard ensures.
* `LeaseProtects`: `QuietSpec => LeaseProtectsDelivery`, under `DistinctOwners`.
* `ScrubsWhenSettled`: `QuietSpec => []ScrubbedOnlyWhenSettled`. It is shown of each
  row, with `QuietInv`: no settlement meets a row that another one has settled.
* `ImplementsDelivery`: `QuietSpec => Delivery!Spec`, under the same assumption: initial
  states map to initial states and each action maps to a step of `JobDelivery` or to
  a stutter. `QuietInv` adds that a settling worker still owns the row it read.
* Attended leases: `AliveInv` says that a process at a job owns its running row, whose
  lease is live, and beats for it. `AliveStep` shows that this is kept, and that the settlement
  windows are then quiet, if leases lapse only under jobs nobody beats for and nothing
  is cancelled. It is the lemma that the pipeline's theorems rest on.

**PublicationProofs**

* `PipelineUsesQueue`: `PubSpec => Spec`, so the queue's theorems hold of the pipeline.
* `PipelineTypeCorrect`, `PublishedWasValidated`, `CatalogWasValidated`,
  `PublicationWasQueued`: the three safety invariants of the pipeline. The inductive
  invariant is `QueueInv /\ DomainOK /\ PipelineInv`. `PipelineInv` ties what a
  handler run has read to what the tables hold: a run that is about to insert was
  preceded by a passed snapshot, a snapshot is never replaced, and a row that has been
  inserted is never removed in the pipeline.
* `CatalogStaysImmutable`: `PubSpec => CatalogImmutable`, also when leases lapse under workers
  that are alive.

The others are about `AttendedSpec`, with `DistinctOwners`:

* `PipelineIsQuiet`: `AttendedSpec => QuietSpec`. What the queue's refinement assumes of
  its settlements is therefore no assumption of the pipeline: a heartbeat every few seconds and a
  death that stops it are enough. `PipelineDelivers` follows, with the jobs the handlers enqueue, and
  `JobsRunOnce`: no two workers are at work on one job. `AttendedInv` is
  the pipeline's invariant with `AliveInv`, and that no cancellation is under way.
* `PipelineSettlesByOwner`: `AttendedSpec => SettleByOwner`, a settlement writes over a delivery that
  its worker still owns. The property of `queue_settle_race` therefore holds of a deployment whose leases
  lapse only under workers that are gone, whatever else sweeps, stops and claims do between the two
  reads; that is derived from the leases, and quiet settlements are not assumed.
* `RefusalIsFinal`, `NoPlanIsStranded`, `ImplementsPublicationPromise`: these assume
  `[]OneConfirmation` besides, which TLC shows to be necessary (section 3). Confirmation,
  validation, publication and settlement write the state of a plan without reading it again;
  what they find there has to follow from the job they work for. `ProgressInv` says it: a plan that waits has no verdict
  yet and a job that works for it (`PlanProgress`); a run of its publish job finds it
  planned or published, and a job that has done its part shows in the plan (`RunProgress`); a
  confirmation that holds a plan as ready finds it ready. `JobsRunOnce` is what keeps it
  inductive: the run that commits is the only one. `NoPlanIsStranded` is the safety
  half of `ConfirmedGetsVerdict`: a waiting plan always has the job that can end it, or a
  dead-lettered one.

**UpstreamProofs**

* `UpstreamTypeCorrect`, `TransferCutsOff`, `ContentStaysOnce`, `PublishedAttemptsAreTrue`:
  every safety property of the run. `UpInv` is the conjunction of
  * `QueueInv`: what JobQueueProofs needs of the queue's rows and processes, and that the
    rows a poll has swept are still expired, which its row locks ensure. The steps of
    the ledger are not all steps of the queue (a transfer writes several jobs at once),
    so its invariant is shown again for those;
  * `LedgerTypes`;
  * `LockInv`: at most one handler run is past its fence, and neither it nor a publication
    that asserted its owner goes on beside a transfer, so the line is the official account's
    as long as one of them does; a pass goes on beside neither. `TransferCutsOff` follows from it: no publication and no run is
    past its check when the owner changes.
* `ContentStaysOnce` adds `ContentInv`: a published plan is in the catalog, and a plan of the
  catalog was started, so the two questions that a run asks under the lock of the source find
  every live plan.
* `PublishedAttemptsAreTrue` needs that the catalog only grows, since the daily pass says
  `published` of a plan that may be refused afterwards, and that a pass that is about to
  say so names a plan of the catalog (`PassInv`): the pass holds the source, and no handler run
  can bind the attempt to another plan meanwhile (`BindingsStay`).
* `LedgerKeepsPromise`: `UpSpec => Promise!PromisedSpec`. `RefusingInv` adds that the plan
  of a refusal under way is not refused yet: the pipeline has one transaction on a plan at
  a time.
* `WaitersCanBeTold`: `UpSpec => []WaitingCanBeTold`, the safety half of `RefusalReachesAttempt` and
  `GivenUpIsTold`. While the source is enabled, the job of an attempt that waits exists and is
  not cancelled: it is delivered again, it succeeded, or the next poll finds that it was given up;
  and a pass of the day changes an attempt whose plan was refused. So the repair of
  `reconcile_delivery` for a job that is missing or cancelled is never needed. `PresentInv` adds
  to `UpInv` that every state a transaction has read and will write is about a job that
  exists, and that only a transfer, which ends the source for good, has cancelled a job.

**WalkProofs**

* `WalkComputesBacklog`: `WalkSpec => []WalkIsExact`, for every account, bound and order of
  the lists. What `Accept` takes from the loop is therefore proved of it. `WalkInv` says
  what keeps the loop right although its stack may name a revision twice:
  * only smaller revisions, in the order of storage, lie above a marked one
    (`StackDescends`): a parent that was seen is emitted or marked above its child, never
    below it, so skipping it loses nothing;
  * a seen revision is emitted, or marked once (`SeenOnce`); each undelivered parent is
    emitted before its child, or above it (`ParentsCovered`);
  * the one undelivered root stays at the bottom (`RootAtBottom`), so what is left on the
    stack at the bound is a revision more than the bound allows, and a backlog of exactly
    the bound is never refused.
* `WalkTurnsRunOut`: every turn leaves fewer turns to make. `TurnsLeft` counts three for
  each revision that was not seen and one for each entry of the stack: an
  expansion sees a revision for the first time and stacks it with at most two parents, every other turn pops one. The loop
  therefore ends within `3 * Size + 1` turns; `WalkEnds` adds only that turns are taken.

**SyncLedgerProofs**

* `LedgerTypeCorrect`, `StreamIsApplicable`, `StreamIsUnique`, `NoUpdateIsLost`,
  `OneIdentityInEveryPrefix`, `ReceiptsStayTrue`: the six invariants of the ledger. They
  follow from one inductive invariant, `LedgerInv`, their conjunction with
  `HeadsMatchStream`: an entity has a head exactly when the stream holds a revision of
  it, and the head is the last one. `OneLiveIdentity` needs it because the code decides
  from heads what the stream may show, and `ReceiptsAreTrue` because a repeat whose
  revision is a head is answered `superseded`.
* The argument is about `Accept`; the other steps store at most a revision that nothing
  delivered names (`StoresKeeps`). Of the backlog it uses only five lemmas, which the least
  fixed point gives without recursion, so the proofs hold for every shape of history: it is
  closed (`BacklogClosed`), the least such set (`BacklogLeast`), has nothing delivered
  in it (`BacklogUndelivered`), stays within a closed set that holds its roots
  (`BacklogKeeps`), and each member is a root or has a child in it (`BacklogHasChildren`).

**SyncEngineProofs** (event ids are the places in `request`, `EngineAssumption`)

* `EngineUsesLedger`: `EngineSpec => LedgerSpec`. What a device seals is an event with
  known parents, so every behaviour of the engine is one of the ledger and the ledger's
  theorems hold of it. `LedgerInv` is therefore a part of the invariant here, kept by the
  lemma that the ledger's own proof rests on.
* `EngineTypes`, `PagesApply`, `NoEditIsLost`, `LogsAreTrue`, `CaughtUpDevicesGoOn`: every
  safety property of the run. They follow from one inductive invariant, `EngineInv`, whose
  parts need one another:
  * a device holds whole histories and its heads are their ends (`HistoryOK`); a log holds
    an event once, with its parents, and its revision is local (`LogOK`). So a push can
    name parents, and a page finds them;
  * the parents of an event carry exactly the parents of its revision, and the ledger
    keeps them (`RequestOK`): the ledger's answer about remote revisions says
    something about local ones. `NoEditLost` rests on it, because a merge the ledger
    accepts then has the head's whole history behind it;
  * the ledger's tables hold only requests, under their own ids (`TablesOK`, `AnswersOK`,
    `DeliveredOK`), and a row says only what the ledger answered (`RowsTrue`);
  * the stream up to the cursor is in the log, accepted or kept (`PulledOK`), and a device
    that is caught up has the ledger's head as its remote head (`RemoteOK`), because that
    head is the last revision of the stream (`HeadsMatchStream`);
  * at most one head of a device is not a revision that it pulled (`OwnHeads`). With the
    whole stream pulled, the others lie in the lineage of the ledger's head, so two heads
    are left at most, as `CaughtUpCanGoOn` says.
* `DevicesRestInAgreement`: `EngineSpec => []RestIsAgreement`, the safety half of `Converges`. If no
  sync command of any device finds anything to do (`HasWork`), every device holds the revision of the
  ledger's head and nothing beside it, unless one is stranded or the ledger rejected a
  revision of its history (`Refused`). The argument: a caught-up device with one head has its
  whole history carried by events, since the oldest revision that no event carries could be sent; what keeps it
  from that is a stored request of its own under the present device id, which is neither
  pending nor retired, and a usable one would carry the revision. `RestInv` adds to
  `EngineInv` what this needs: parents have smaller places than their children (`ParentsAreOlder`), the origin
  still holds the first revision, and a pending or retired row was signed by the device
  itself, a retired one under an id it no longer has (`OwnRows`). "The oldest" is no
  induction: `LeastNumber` takes it from the well-foundedness of the natural numbers. TLC has checked
  `RestIsAgreement` too, also that `HasWork` is what enables a sync command of an idle
  device, as long as the bound on events is not reached.
* The proof reduces each action to what it changes (`SendStep`, `LearnStep`, `LocalStep`,
  ...) and shows once that growth of the ledger takes nothing from a device (`Grows`,
  `WhatGrowthKeeps`): this is the interleaving of devices and server.

**ForwardProofs**

* `ForwardTypes`, `CancelledIsHarmless`, `GuardCovers`, `StagingIsKept`,
  `LeftoversCanBeCleared`, `DoneIsTrue`, `OnlyObservedIsReplaced`: every safety
  property of the transaction. None is inductive. The invariant they share says where each
  store stands at each place of the command: at most one operation is active, an operation
  that wrote is past its directory and under its guard, what a command has staged belongs
  to the change it is at, and what remains after an operation's end is its own directory or
  its own guard, empty.
* `ImplementsPromise`: `ForwardSpec => Promise!PromiseSpec`. Each durable write is a step
  of the promise or a stutter; `Bind` of an application is the step that starts it.

**NativePlanProofs**

* `PlanTypes`, `CancelledPlanIsHarmless`, `OutcomeComesLast`, `NoRootIsOrphaned`,
  `StoresAgree`: from `PlanInv`, the conjunction of `AppliedWithin`, `CommandStands` (what
  each place of a command implies of the roots it has visited) and `AllStand` (what the
  status of the custody implies of intent and roots: `StoresMatch`, `PlanStands`).
* `RootsImplementPromise`, `PlanImplementsPromise`: the steps of a plan stay within the
  promise of each writer, and all of them together keep it for the plan.

Proved and in no run of the project: the type invariants of the ledgers, of the pipeline and of the
installation, `SucceededMeansApplied`, `SettleByOwner` (under attended leases; `queue_settle_race` is the
run without them), `CatalogIsValidated`, `CatalogImmutable`, `ConfirmedIsNotStranded`, `TurnsAreBounded` with
`TurnsRunOut`, `CancelledChangedNothing`, `CancelledPlanChangedNothing`, `NoOutcomeBeforeAll`,
`NoOrphanedRoot`, `RestIsAgreement`, and `WaitingCanBeTold`. Each was checked with TLC before it was proved.

Only model-checked: liveness (`EventuallySettled`, `ConfirmedGetsVerdict`, `WalkEnds`,
`ForwardSettles`, `PlanSettles`, `Converges`, `RefusalReachesAttempt`, `GivenUpIsTold`), since
fairness and ENABLED are out of the prover's reach. Five of them have a proved safety half:
`ConfirmedGetsVerdict` (`NoPlanIsStranded`), `WalkEnds` (`WalkTurnsRunOut`), `Converges`
(`DevicesRestInAgreement`), `RefusalReachesAttempt` and `GivenUpIsTold` (`WaitersCanBeTold`). Every other property of a passing run is a theorem.

## 5. Not modelled

* Of the modelled components: tenant scope, priorities, metrics, the daily maintenance
  schedule, search and SEO projections of the publish transaction, reevaluation of
  published versions, artifact binding (it changes no plan state), idempotency keys of
  create and confirm, tombstones of catalog lines; in the ledger, the validation of
  payloads, the description of a conflict for the client (`_find_common_ancestor`,
  affected fields), signed cursors, and the deletion of an account.
* Of the official upstream: how a snapshot is fetched, projected and attributed, the rest
  of the manifest (names, locales, additions), author verification, several sources (each has
  rows and locks of its own), and job retention.
* Of the sync engine: components and setups with their released versions, device summaries
  and consents, tombstones (a developer passport is never forgotten), skipped events, a
  merge whose fields conflict, a second developer identity (a page that shows one is
  refused), and the digests that bind a plan to its command, which only add refusals.
* Of the installation: how a plan is compiled, reviewed and digested; the claims that
  the custody keeps per file (a plan's changes of them are one commit of the custody's writer);
  retirement and removal of a missing target; locks and journals of older releases;
  the handoff to a harness and the idleness of its processes (refusals in the
  model); inventory.
* Components without a module are listed in `PROJECT.json` with the reason: they
  are planned below, or they are I/O, user interface, data analysis or pure types.

## 6. Plan

1. Done: `JobDelivery`, `JobQueue`, `Publication` and their proofs.
2. Done: `SyncGraph`, `AncestorWalk`, `SyncLedger` and its proofs. Left: an abstract
   specification of the ledger as one append-only log that devices extend.
3. Done: `InstallPromise`, `ForwardTransaction`, `NativePlan`, with every safety property
   and both refinements proved. Left: the retirement of a missing target, activation.
4. Done: `SyncEngine` over `SyncLedger`, with every safety property proved. Left: components with released versions, and
   skipped events, which leave holes in the log.
5. Done: `UpstreamLedger` over `JobQueue`, with the transfer, and its proofs.
6. `Grants` and `DeviceFlow`: small modules on unlocked reads and conditional updates.
7. Done: `PublicationPromise`, implemented by the pipeline and by the upstream ledger;
   `RefusedStaysRefused` under its assumptions; the safety halves of five liveness properties.
