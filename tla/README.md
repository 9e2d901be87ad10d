# A TLA+ verification of aldisui

aldisui runs Ansible, Terraform and shell tasks from the templates of projects, on the
server or on remote runners.  This directory holds TLA+ models of the parts where steps of
several actors meet: the task pool with local and remote execution, the job pool of a
runner, the working copies and files a task prepares, the output of tasks and the websocket
hub, schedules and webhooks, accounts and logins, the project API over its tables, backup and migration of projects, and the secrets
with the rotation of their encryption keys.  TLC checks the models on small instances
(`*.cfg`), TLAPS proves for every instance what the pool promises of local and remote tasks,
the refinement of its abstract life cycle, and the safety of a runner's job pool, of the output
with its hub, of the working copies, of schedules, of accounts and logins, and of the secrets
(`*Proofs.tla`).

    tlc -config local_limits.cfg MCLocalTaskPool      # any run: see the table below
    tlapm LocalTaskPoolProofs.tla

## Inventory

| Component | State | Operations | Interacts through | What is hard | Correct when |
|---|---|---|---|---|---|
| Task status machine (`pkg/task_logger`, `TaskRunner_logging.go`) | status, persisted row | `SetStatus`, `saveStatus`, `SetCommit` | called by everyone | no lock; only `stopped` is final | an ended task has a final outcome |
| Task pool (`TaskPool.go`, `task_state_store.go`) | queue, running map, active maps, claim and finalize locks | `AddTask`, `Run`, `handleQueue`, `blocks`, stop, confirm, reject, bulk stops | channels `register`, `queueEvents` (unbuffered) | a queue pass works on a snapshot while tasks move | a task runs once, within the limits, and leaves the pool |
| Task runner (`TaskRunner.go`) | control point of `run()` | `run`, `finishRun`, `startAutorunTasks` | pool events, job | status tested long before it is used | an end is recorded once, with a finished status |
| Local executor, apps (`local_executor.go`, `db_lib`) | killed flag, process, Terraform dialogue, installed keys and files, requirements hash | `Prepare`, `Run`, `Kill`, `Cleanup` | status listeners, working copies | stop and answers at any moment, any step of the preparation fails | a stopped task does not execute, nothing is left behind |
| Repository lock, git client (`key_lock.go`, `GitRepository.go`, `CmdGitClient.go`) | a mutex per directory, working copies | pull, clone, retry, checkout, clear of the cache | shared directories of a template | retries over partial copies, interrupted removals, rewritten branches, a clear that takes no lock | a task works on the commit it records |
| Remote job (`RemoteJob.go`) | RunnerID, timer | `Run`, `selectRunner`, `scheduleTimeout` | runner rows, webhook | check-then-act on capacity | slots are released |
| Finalization (`TaskPool.go`) | finalize lock | `FinalizeRemoteTask` | report, timeout, stop, reconciler | four racing callers | once per task |
| Runner API (`api/runners`) | last contact of a runner | `GetRunner`, `UpdateRunner`, register | HTTP from runners | lost and late requests | one runner per task, outcome kept |
| Reconciler (`runner_reconciler.go`) | none of its own | requeue, fail | finalize lock | acts on an old decision | no task lost or queued twice |
| Runner job pool (`services/runners`) | job queue, running jobs, unsent logs | `Run`, `sendProgress`, `checkNewJobs`, `applyTerminatedJobs` | HTTP to the server | server status applied over a newer one, a job that moves between two look-ups | a job runs once and its end is reported, but for these windows |
| Task logs (`TaskRunner_logging.go`, `handleLogs`) | pipes, channels, a batch | `LogCmd`, `Log`, flush | logger channel, hub | two streams, a batch for all tasks, a child that keeps the output open, a delay after which output is dropped | output in order, the result last, losses only where the code gives output up |
| WebSocket hub (`api/sockets`) | connections, send channels | register, unregister, broadcast, pumps | every log line and status | a full channel is closed under its users | no send on a closed channel, no gap |
| Schedules (`SchedulePool.go`) | cron entries, rows | `Refresh`, firing, API edits | `AddTask` | rows are read before the lock is taken | a run time fires once, the table follows the rows |
| Integrations (`api/integration.go`) | rows | `ReceiveIntegration` | `AddTask` | several integrations in one request | exactly the matching ones run |
| Accounts (`api/login*.go`, `auth.go`, `users.go`) | users, identities, sessions, TOTP, tokens | logins, links, edits, user commands | database | statements of two requests interleave, no transactions | a request acts for a user with a current credential, local users are not taken over |
| Project API (`api/projects`, `db/sql`) | the project tables | requests in two steps | foreign keys | the handler uses what the middleware loaded earlier | references stay sound, removals are whole |
| Backup and restore (`services/project`) | a file | read, verify, restore | names stand for ids | tables read without a transaction | the copy refers to the right rows |
| Migration (`services/export`) | key map, errors | load, restore | 23 exporters | order of a Go map, rows that fail | the order decides as little as possible, losses are reported |
| Access keys and encryption (`access_key_encryption_svc.go`, `util/config.go`, `cli/cmd/vault_*.go`) | rows, keyset in memory and on disk, JWT key | save, reload, rekey, check, backup, rollback, sweep | database, keys file | several processes, paging, half-done commands | every stored secret stays readable |
| Secret sync, executor factory, alerts, web client, extension points | - | - | - | - | not modelled, see below |

## Modules

| Module | Models |
|---|---|
| `TaskStatus` | the ten statuses, `IsFinished`, `UnfinishedTaskStatuses`, and which transitions `SetStatus` refuses |
| `TaskLifecycle` | abstract specification of a pool: a task is added, started within the capacity, perhaps put back, finished |
| `TaskPool` | what local and remote tasks share: `AddTask`, `Run`, `handleQueue` with `blocks` and the claim, the start and end of `run()`, stop, confirm, reject and `StopTasksByTemplate` |
| `LocalTaskPool` | `TaskPool` with a `LocalExecutor` as the job: preparation with the question `terraform init` may ask, app, Terraform plan, confirmation and apply, kill |
| `RemoteTaskPool` | `TaskPool` with a `RemoteJob` as the job: selection and assignment of a runner, requeue when all are busy, polls and reports, timeout, `FinalizeRemoteTask`, the reconciler's requeue and failure |
| `JobPool` | one runner: its queue and `Run` loop, the goroutine of a job, `sendProgress`, `applyTerminatedJobs` and `checkNewJobs`, with lost requests and answers, against a server reduced to the status of the runner's tasks and their presence in the running map |
| `SocketHub` | the hub's goroutine, `Handler`, the read and write pump of each connection, clients that leave or fall silent |
| `TaskLogs` | extends `SocketHub`: the streams of a command through the pipe of the system, the copy of `os/exec`, scanner, channel and consumer to the logger channel, `handleLogs` and the table, and to the hub; orphaned children, and what `WaitDelay` drops |
| `Schedules` | schedule rows, overlapping `Refresh` calls, the cron table, firings with the commit check, edits, restarts |
| `Integrations` | one call of a webhook alias: the integrations found, authentication, matchers, extractors, the tasks started |
| `Workspace` | the preparation of tasks of one template on disk: the lock of a working copy, fetch, pull, clone and their retries, removals and clones that are cut off half-way, checkout, keys, inventory, requirements and their hash, `Cleanup`; clears of the cache, pushes, crashes |
| `Accounts` | users, external identities, sessions, TOTP, tokens: every handler and user command, statement by statement |
| `Tables` | rows, foreign keys and what insert, update and delete do under them |
| `ProjectStore` | extends `Tables`: rights, members and all resources of a project; a request is its middleware and later its handler |
| `Backup` | extends `Tables`: the backup of a project table by table with edits in between, the check of the file, the restore |
| `Exporter` | the migration of all projects: the order of the exporters, loading, key mapping, what fails |
| `Secrets` | the keys file, the server's keyset and its reload, the rows of access keys, the vault commands, the survey secrets of tasks, stopped ones that run all the same included |
| `MC*` | small instances; `remote_complete` checks `UndisturbedSpec`, the pool without users who stop, timeouts and reconciler; `MCRemoteFaults`, `MCJobPool`, `MCTransfer` and `MCTriggers` put several questions into one run: a behaviour has one of the parts, chosen by its initial state |
| `QueueProofs` | lemmas on the queue: what `Append` and the removal of an entry do to its entries and their distinctness |
| `LocalTaskPoolProofs` | `LocalTaskPool`: types, the places of a task, the parallel limit; refinement of `TaskLifecycle`, project limit, template exclusion, recorded ends |
| `RemoteTaskPoolProofs` | `RemoteTaskPool`: types; for undisturbed tasks the stages of a task, what follows from them, and the refinement; in the whole specification who may overwrite a recorded outcome; under stops, timeouts and late reports who holds and who removes a task; with the reconciler, that no task is queued twice or lost |
| `JobPoolProofs` | `JobPool`: when a job is executed again, its control, delivery of its end and records |
| `TaskLogsProofs` | `SocketHub` and `TaskLogs`: sound channels, no gap, order of the output |
| `TriggersProofs` | `Workspace`: locks, commits, missing files, requirements, cleanup; `Schedules`: one task per run time, the cron table and the rows, commits |
| `AccountsProofs` | `Accounts`: what a request knows and the tables still back, lost login races, adoption, second factor |
| `SecretsProofs` | `Secrets`: keys on disk for all that is stored, the pages of a vault command, rekey, survey secrets |

### State and steps

`status[t]` is `TaskRunner.Task.Status`, `row[t]` the status in the database ("none" before
the row exists); they differ whenever code changes one without the other, which is what
several properties are about.  `run[t]` is the control point of the task's `run()`
goroutine, `queue`, `running` and `active` are the three collections of
`MemoryTaskStateStore`, `registering` the `AddTask` calls on their way to `register`,
`loop` what `Run` holds in its hand, `hpc`/`skip`/`todo` the position of `handleQueue` in
its pass, `stopper` a bulk stop.  `RemoteTaskPool` adds the `RunnerID`, the runner selected
during the webhook, pending requeue events, what runners hold, a report between its check
and its application, the timer, calls of `FinalizeRemoteTask` before and after the lock,
and the reconciler's decision.

`JobPool` has the runner's `queue`, the job between `dequeue` and `addRunningJob`
(`launching`), the keys of `runningJobs` (`tracked`), and per job its status, the control
point of its goroutine, whether its process was killed, and its log: `acked` of `logs`
records have been dropped by `ackLogRecords`.  `ppc` is the position of the one poll cycle
(`JobPool.processing`), `body`, `term`, `cur` and `new` are the report and the parts of the
answers it is working on, `act` the task for which a check of `checkNewJobs` was made and its
act was not.  `twice`, `again` and `overwritten` are history: the jobs that were launched a second
time, those that were queued again while the `Run` loop moved them, and those whose end was
overwritten by the server's older status.  The status copy that a Terraform app keeps through its listener is the job's
status; the moments in which a killed job has no process yet or any more, unparsable
answers and the cleaning of caches are left out.

A step is one operation on the store (its mutex is held) or one `SetStatus`, together with
the reads that directly precede it.  Sends on the unbuffered channels are rendezvous: one
step of sender and receiver.  What `handleQueue` does with one queue entry is one step,
since nobody else adds to the running and active sets.  A status read long before it is
used (the report check, the timer, the reconciler's decision, `run()` after its sleep,
runner selection before the webhook) is a step of its own.

In `SocketHub` a step is one rendezvous with the hub or one operation on a socket; in
`TaskLogs` one operation on a pipe or channel: `wrote` counts the lines in the pipe of the system,
`read` those copied to the scanner, and `cut` says whether `cmd.Wait` gave the rest up.  `Accounts` has one step per SQL statement, a
request in `ProjectStore` has two steps, as the rows are loaded by a middleware and used by
the handler.  A handler is one step: interleavings of the statements of two handlers are left
out; the statements of a removal are checked against every foreign key in their order.
`Backup` reads one table per step.  `Secrets` has one step
per row a vault command writes and per half of a reload (read, store) and of a server's write
(encrypt, store).  `Schedules` splits `Refresh` into the read, the lock, one step per row and
the unlock, and a firing into its database accesses.  `Workspace` has one step per git command,
file operation and installation; `git clone` has three, as its directory exists before `.git`, and
`.git` before the files and submodules are there; a removal goes file by file (`RemoveFiles`,
`ClearFiles`) and may end half-way, as may a clone.  A working copy is the commit
of its HEAD, that of its submodules, whether no file of it is missing (`whole`) and whether a
backend file lies in it; one requirements
file stands for the eight paths `AnsibleApp` looks at.  Ghosts of the wording: `cut` (files are missing
because a clone or a removal was cut off), `seen` (where the branch was since the lock was taken), `rewritten`, `disturbed` (another task or a clear changed
what is shared) and `disk.raced` (a clear ran beside a task).

Data is reduced to what the properties tell apart: a text is a set of words, a secret its key
and plaintext, a row its references and one attribute, a cron line "every tick", a line of
output its stream and number, a password "right" or "wrong".

Failures are choices: `populateDetails`, secrets, project lookup, runner lookup, webhook,
`UpdateTask` of an assignment or requeue, the bulk query, preparation, the app.  A failing
`UpdateTask` in `saveStatus` and `SetStatus` panics in the code and is not modelled.

### Bounds

Task pool: `Tasks`, `Templates` and `Runners` have one to three elements: two tasks are needed
for a limit, an exclusion or a snapshot that is out of date, three for a limit of two.
`remote_faults` is about the end of one task: one task and two runners, which may be offline
or busy at any moment, so that it is also requeued, under a limit of two, so that the slot it
still occupies does not keep it from being claimed again.  Of its reports a plan that waits is
only used where a user may answer.  `MaxPending` bounds the goroutines of one
task that wait to send `EventTypeRequeued`, `MaxFinalizers` the calls of `FinalizeRemoteTask`
that have not yet tried the lock (two race).  One report per task is in flight, as a runner
sends one request at a time; one bulk stop and one timer per task are modelled, which is why
`remote_faults` has one source of trouble at a time.  `Ops` and `Reports` choose the API
operations and reported statuses of a run.  `"dialog"` lets the user answer only while the
task waits, `"confirm"` and `"reject"` at any time, as the API does.

`runner_jobs`: one job, which is enough for every property of it, as jobs share only the poll
cycle; `MaxLogs` = 1 record may be logged before, between or after a report and its
acknowledgement, and is dropped too early if more are dropped than were sent; the proof is for
every `MaxLogs`.  The `Run` loop and the jobs step anywhere, also between a check of the poll cycle
and its act.  Output: channels of one element are full at once, which is the interesting case;
batches of two; one line on each stream or three on one, with and without `WaitDelay`; two
connections of two users and two status messages, or one connection beside a command of one line
without `WaitDelay`.

`accounts`: any two requests (of 22 operations) from three populations: the administrator
alone, with an external user known by email, and with a linked user and TOTP.  Two requests
are what a race needs; what one request leaves behind is met by the other.
`project_store`: two requests over a project with every kind of row, beside a second project;
the clients are symmetric.  `transfer`: about 3,200 projects backed up undisturbed and one with two
edits at any place; the migration takes two subsets of 16 and 17 of the 23 exporters, as the
visits of the whole map are too many, and one of 11 with tasks and the runners they belong to;
no user or one is refused.  `secrets`: two keys, a task, two encryption keys, pages
of one row, and budgets of writes, commands, reloads, tasks and new key files, combined as
(1,2,0,0,1), (0,2,1,0,1), (0,1,0,1,0), (0,0,1,1,1) and (0,3,0,0,1): the pairs that race.  `triggers`:
three ticks, two refreshes at once, a restart with one edit of a one-time schedule or with a commit
for a checker, or two edits around the run time; integrations with up to two of five matchers, two of nine extractors; two tasks of a template
(alone or in parallel, pinned or not, on one branch or two, of a local repository, with a
broken key) over four commits of which two
diverge and one is a parent to rewind to, two git attempts, and per template a few
combinations of faults, pushes, clears and crashes, from working copies of an earlier commit or, unless there are
pushes or clears, from none: two faults exhaust the attempts, two pushes revert an installation; beside a clear
the second task follows its branch.

## Runs

| Run | Question | Result |
|---|---|---|
| `local_limits` | `ParallelLimit`, `TemplateExclusive`, `RunOnce` with three tasks, a limit of two, stops and failing project lookups | hold |
| `local_terraform` | `ProjectLimit` and `EndsFinished` with two Terraform tasks, the confirmation dialogue, forced and bulk forced stops | hold |
| `local_settles` | the inductive invariant `OnePlace` with an autorun child and forced stops; the pool implements `TaskLifecycle`; every added task ends and leaves the pool unless some run waits for a user (`Settles`, `Waits`) | hold |
| `remote_complete` | `ExactlyOnce` (tracked while alive, completed once, not lost), `OutcomeFinal`, `AutorunAfterEnd`, `ImplementsLifecycle` with two builds, a deploy task and a runner for one task | hold |
| `remote_faults` | `HoldersSound`: under stops `OneHolder`, under a silent runner `NoLeakUnforced`; the liveness property `TimeoutReleases`; under the reconciler: `RequeueKeeps` (never queued twice, not lost unless a report was overtaken by the requeue) | hold |
| `runner_jobs` | `JobsSound`, with every window of the poll cycle: a job is launched again only if it was queued again while it moved (`Once`), otherwise it executes under the pool's control (`Controlled`), its end is reported unless the server's older status was set over it (`EndReported`) and reaches the server with every log record (`EndDelivered`); `StopReaches`: a stop that reached the runner ends the task.  Output: `HubSound`, `OutputInOrder` (lines stored and sent in order and once, the result after them, none left behind unless `cmd.Wait` gave up or a line was too long), and `OutputSettles`: what was written is stored or given up with a notice, whatever the clients do, and failed connections are released | hold |
| `accounts` | `CredentialCurrent`, `UsersSound` (no orphan of a lost login race), `LocalNeverAdopted`, `SecondFactorAsked` | hold |
| `project_store` | `StoreSound` (references, Ansible templates keep what they need), `RemovalsSound` (a project goes as a whole; a refusal names a reason), `StaleRequestsSafe` (writing back a template, last owner) | hold |
| `transfer` | `Faithful`: a name never leads to another row; `RestoreSound`: a whole backup gives a whole project; `Migrated`: the order decides only which tasks of runners survive (`OrderIndependent`), losses are reported, and only a refused user or a lost task ends it half-way (`LossReported`) | hold |
| `secrets` | `Readable`, `RekeySound`, `SurveyKept` (no task starts with empty variables unless it was stopped while queued and they expired), and `SecretsSettle` under fairness | hold |
| `triggers` | `SchedulesSound` (once per run time, table follows the rows, no commit passed over), `OneTimeEnds` under fairness, `CallSound` (exactly the right integrations, with the extracted values); `WorkspaceSound` (locks match the git steps, the app works on the recorded commit with its requirements, complete but for what an interruption left missing), `CleanedUp` (no agent, inventory or backend file is left) | hold |
| `vault_check` | a key that the check reports as safe to remove is not in use | violated: legacy values and the JWT key are not counted |

Composite properties are conjunctions of named parts, each with its comment in the module.
`vault_check` checks a statement of the command's help text, quoted in `PROJECT.json` under
`findings`.

The refinement: `ImplementsLifecycle` maps the state of a pool to the phase of each task
(`Phase`).  A local task is live while its `run()` goroutine is, and never goes back
(`Requeues` = FALSE); a remote task may be requeued.  TLC checks every step of the detailed pool
against a step or a stutter of `TaskLifecycle`; for every instance that is
`PoolImplementsLifecycle` and, undisturbed, `RemotePoolImplementsLifecycle`.

### Fairness

`Run`, `handleQueue`, every `run()` goroutine and every finalization are scheduled (weak
fairness), and apps terminate.  The ends of a channel get strong fairness: Go serves blocked
senders first-in first-out, and the `select` of `Run` chooses among ready cases at random.
`remote_faults` also assumes that an armed timer fires and that a dispatch does not find
all runners busy for ever; nothing is assumed of runners or users there.  In `JobPool` the
tickers fire and the goroutines run; requests end (an assumption on the network: the
runner's HTTP client sets no timeout of its own, and a request that hangs would stop every
later poll cycle) and not every one is lost (strong fairness of the answers); preparation and
the confirmation loop end, and a killed process dies.  An app need not end by itself.
The goroutines that log and those of the connections have finite work and are scheduled, one
weak fairness condition each; clients need do nothing, as the ping timeout ends a silent one.
`Schedules`: the clock and the cron loop tick, and refreshes and firings are scheduled.
`Secrets`: the poller's ticker, the hourly sweep and the clock; nothing of operators or commands.

## What the properties are worded around

The code has behaviours that the properties exclude by their wording or that a run switches
off, because the code does not guard against them.

Task pool:

- A task force-stopped while it is queued or in the sleep of `run()` has the status
  stopped, is claimed and started all the same, and its app executes (`ScanRun`,
  `BeginRun`, `Prepared`); its row stays stopped.  Beside such a task another one of its
  template may run.  A remote one stays in the running map: `NoLeak` fails with forced stops.
- A local task that is stopped gracefully while it is starting is not killed, runs to its
  end, and ends with the status stopping: `EndsFinished` fails with `"stop"` or
  `"stopTemplate"` in `Ops`, and holds for forced stops.
- A graceful stop of a remote task before its runner has fetched it leaves it stopping; only
  the timeout or a forced stop ends it.
- `terraform init` may ask whether to copy the state, in `Prepare`.  `terraformReader` looks at the
  status every three seconds and then waits for confirmed, rejected or the end: a graceful stop is
  ignored there, and `Kill` knows no process of `Prepare`.  An answer, or a forced stop, that comes
  before the reader has seen the question is never seen, and an `init` that ends without a line the
  log listener takes for the end is waited for, as `Wait` waits for the copy of its stdin.  The
  task then keeps its slot for ever: `Settles` excludes these runs by `Waits`.
- The finalize lock is released when a finalization ends, so that a timeout that found the
  task unfinished before a report finished it finalizes it a second time: `FinishedOnce`
  fails with `Timeouts`.
- A report that passed its check before the reconciler failed the task overwrites the
  recorded outcome: `OutcomeFinal` fails with `Reconciles`.
- `ExactlyOnce` and `OutcomeFinal` are therefore checked and meant for `UndisturbedSpec` only, where
  nobody stops, no timer fires and nothing is requeued by the reconciler: they say that the ordinary
  end of a task is sound, and not what overlapping finalizers and late reports do.  The latter is
  `OutcomeReopened` (below), proved of the whole specification.
- A late requeue event removes a task that was claimed again from the running map.
  `LiveTracked` holds in `remote_complete` because a template without `AllowParallelTasks`
  keeps a requeued task from being claimed before its event is handled.
- The reconciler meets the same in another way.  The comment at `runner_reconciler.go:231-233`
  says that `UpdateRunner`'s ownership check rejects the late reports of the old runner.  A
  report that passed the check before the requeue is not rejected: it sets the status of the
  queued task, to success for instance, the template counts as free, and with a free slot the
  task is claimed again before its `EventTypeRequeued`, which then takes the live task out of
  the running map.  `RequeueKeeps` has `late` for it, a history variable that is TRUE once a
  report was applied to a task whose runner was taken.
- A runner finds a new job in neither the running jobs nor the queue while the `Run` loop moves it,
  and executes it twice; and a job that finishes while `checkNewJobs` applies the server's status
  goes back to that status, so that its end is never reported.  The code guards neither window and
  both are steps of the run; TLC finds them when `Once` is stated without `again`, or `EndReported`
  without `overwritten`.  A job launched twice has two goroutines and is not followed any further.
- A stop of a job in the question of `init` is not seen there either (`StopReaches` excludes `"init"`).
- A job the server terminated may be removed as finished before it is killed.
- The server accepts a report of starting or confirmed over stopping (`Refuses`), and the
  user must stop the task again.
- A bulk stop between `AddTask` and `Run` sets the row to stopped, and the `saveStatus` of
  `Run` sets it back to waiting (`TemplateStopRows`, `Register`).  When its query fails, a
  task it took from the queue keeps a waiting row.
- A confirmation that arrives during apply is accepted over running, and the run then ends
  with the status confirmed (`ConfirmTask` with `"confirm"` in `Ops`).
- Two dispatches select the last slot of a runner before either is assigned
  (`SelectRunner`, `AssignRunner`): `RunnerMax` is no invariant.
- The reconciler requeues a task that its runner has polled and not yet reported, and a
  second runner gets it too: `SingleHolder` holds only without the reconciler.
- A restart of the server leaves rows waiting or running in single-process mode, as nothing
  requeues them, and a restart of a runner loses its jobs and unsent records.

Output:

- One failed insert, for instance because a task was removed within the 500 ms of a batch,
  loses the records of all tasks in it.
- Lines of the two streams may be in another order on a websocket than in the table, and the
  message about a too long line may precede lines read before it.
- An app without `WaitDelay` waits for a child that keeps the output open.
- `ShellApp` has a `WaitDelay` of 250 ms, which runs from the exit of the process whoever still
  holds the output: with a slow consumer (a full logger channel, a slow hub) what is left in the pipe
  of the system is dropped.  The task succeeds, and its log gets a notice that draining was stopped;
  when the process failed, its error is returned in place of `ErrWaitDelay` and the log is cut silently.
- Nothing of a stream is read after a line that is too long.

Working copies:

- All tasks of a template share one working copy, one requirements hash and one home.  With
  `AllowParallelTasks` a later pull changes what an earlier task executes (`disturbed`), and
  `writeMD5Hash` may record a file that was not the one installed.
- The inventory file `inventory_<id>` and `backend.tf` are shared, too: the task that ends first
  removes them from the others.
- `ClearDir` takes no lock, and a process that ends in its middle may leave the hash of
  requirements whose home is gone (`raced`): the next task does not install them.
- A clone that dies in its checkout or its submodules, a removal that ends half-way
  (`updateRepository`, `ClearDir`) and a clear beside a task leave a `.git` without some of the files.
  `CanBePulled` asks `git fetch` and `git merge-base`, which look at no file, so that the copy counts as
  up to date, is pulled, and the task runs in an incomplete tree; no later task repairs it while
  fetch and pull succeed.  `GitRepository.Clone` removes what a failed attempt left so that nobody is
  "stuck on ValidateRepo() passing against a broken dir" (`GitRepository.go:118-119`), but a crash or a
  failure of that removal leaves it to the next task.  In the model a missing file stays missing until the copy is
  removed (a pull that happens to write it again would be better off), and `WorkspaceSound` requires
  completeness unless `cut` or `raced` says that such an interruption happened.  The same
  interruptions leave a part of a home.
- The fetch of `CanBePulled` is not retried: a short outage there deletes the working copy and
  clones it again, although the comment at `GitRepository.go:86-91` says that retrying keeps
  a transient outage from reaching that point.
- The checkout of a commit does not update the submodules, and a pull from a branch that was
  rewound after the fetch keeps the newer HEAD (`rewritten`).

Schedules and integrations:

- A one-time schedule may be consumed by an unrelated refresh between its time and its
  firing; an entry added after its time never fires and its row stays active; when the
  template cannot be read the final refresh is left out; a stale refresh brings back entries
  of schedules that were switched off, or deactivates a row that was armed again
  (`tainted` records these).  The comment at `SchedulePool.go:181-183` does not mention them.
- An old entry that fires after the run time was moved runs early, and again later.
- A run time on a watched repository without a new commit is not consumed; an inactive past
  schedule with delete-after-run is not deleted; `UpdateSchedule` resets the hash.
- A crash or a refused task after the hash was stored loses the commit, which then counts as
  handled; overlapping firings both see the old hash.
- A refresh that read older rows and is applied last leaves the cron table behind the rows until the
  next refresh: the table is compared with the rows only when the newest edit is what was applied.
- The alias of a project runs nothing for an integration without matchers; the alias of a
  searchable integration is not found; "unequals" matches an absent key; a header extractor
  sets an empty value over a default; task parameters without a map end the call, and so does
  an unreadable secret, for the integrations that follow as well.

Accounts: a login writes back the user row it read, over rights changed meanwhile; identities
are counted before one is unlinked, so that two unlinks may remove both; sessions outlive their
user and are refused later.

Project API:

- `UpdateView` can move a view to another project; references of a template are not checked to
  be of its project; the removal of an environment cascades where the message speaks of use by
  templates; vault rows vanish with their key; an inventory in the parameters of a schedule
  cannot be removed, and the references shown are empty; removed templates and schedules leave
  parameter rows.
- `UpdateTemplateEnvironments` deletes and inserts without a transaction; `Delete` of a key
  removes the external secret before its row; `UpdateEnvironment` does not write the storage.
- Two owners who remove each other at once leave a project without an owner.

Backup and migration:

- Names of secret storages are not made unique; a deploy template without a build template makes
  a backup that its own check refuses; the build of a later deploy template is lost; aliases are
  lost on the same server; a failed restore leaves a part of a project, whose name then refuses
  the next attempt; `verifyDuplicate` refuses only the third equal name; the role of a template
  is looked up by slug with its name.
- `task.runner_id` refers to `runner`, but `TaskExporter` neither maps it (`Task.go:45-88`) nor lists
  Runner as a dependency (`Task.go:99-101`).  A task of a runner is refused when the new store has no
  runner of that number yet, and may get the wrong one otherwise, as runners are numbered anew in the
  order they are restored: the order of the map decides which of these tasks, and what depends on them, survive.
- An error of `ImportUser`, a taken name for instance, ends the migration (`User.go:42-45`), and a part
  is left behind.  A user that is merged with an existing one counts as created.  The stage of an
  output line is dropped without an error (`TaskOutput.go:92`).
- Nothing in the repository calls `Migrate` of `db/migration`; no command offers it.
- Matchers and extract values are migrated for project 0 and always refused; inventories bound to
  a template keep the old template id and are refused, and with them their Ansible templates and
  tasks, whose outputs then end the migration; the user of a key is looked up in the scope of its
  project and dropped; global roles of templates are lost; a build template or task is kept only if
  it comes earlier; scope and key are concatenated without a separator.

Secrets:

- A rekey overwrites an edit made between the read of its page and its write (`cli.dirty`);
  paging by offset passes over keys when the list shifts (`cli.moved`); `rekey --old-key` cannot be
  started again after a failure.
- A rollback neither checks that the keys of what it brings back are still there nor survives an
  expired task secret; values stored without encryption are unreadable once a key is configured.
- `Readable` assumes an operator who rotates forward, removes a key only after a check that nobody
  disturbed and that saw it retired from its start, one vault command at a time and one write of
  the server in flight.
- Survey secrets whose task was lost by a restart stay until they expire.
- A queued task that is stopped by force has a final status, so that its secret is swept once it has
  expired, but `handleQueue` still claims it and `run()` still starts it, then with empty variables.
  The comment at `access_key.go:216-218` says that the filter on the status keeps a task from
  losing them.  `SurveyKept` excludes exactly this (`early` and `expired`).
- Rows of equal names have no order in `ORDER BY name`; the model orders them by their number.

## Proofs

### Assumptions and hypotheses

Assumed of the constants, by name in the module that declares them: `PoolAssumption` and
`LocalAssumption` (the tasks are a finite set without the markers `NoTask`, "idle" and "tick";
templates, projects, parents and limits have their types), `RemoteAssumption` (`NoRunner` is no
runner, reports are statuses, the bounds are positive), `JobPoolAssumption`, `HubAssumption`
and `LogAssumption` (channels and batches have a positive size, the users of the task are users
of the hub), `WorkspaceAssumption` (the history of a repository is a partial order),
`AccountsAssumption` (the populations an instance starts from are well-formed tables: `Populated`),
`SecretsAssumption` (keys and tasks are finite sets of numbers, encryption keys are numbers, a key and a
task are never the same row, pages have a positive size), `ScheduleAssumption` (the bounds are
naturals, there is a slot for a refresh, `Nobody` is none, and a payload of the API is a row without a
commit hash).  `Ops`,
`LookupErrors` and all sizes are otherwise arbitrary: the theorems cover every API operation,
every failure the model has and every interleaving.

Some theorems have a hypothesis; each is the condition under which the code keeps its promise,
and the section above names the behaviour that breaks it otherwise:

| Hypothesis | Of | Why |
|---|---|---|
| `LookupErrors` = {FALSE} | `ProjectLimitHolds` | `blocks` ignores the limit of a project it cannot read |
| `Graceful`: no forced and no bulk stops | `TemplateExclusiveHolds` | they give a queued or sleeping task a finished status, and it runs all the same, invisible to the template check |
| `Forced`: answers in the dialogue and forced stops only | `EndsFinishedHolds` | a graceful stop at the start leaves "stopping", a late confirmation "confirmed" |
| `UndisturbedSpec`, `AllowParallelTasks` = {} | the theorems on the stages of a remote task | without stops, timeouts and reconciler; with a parallel template a requeued task can be claimed before its event |
| no reconciler (`~Reconciles`) | `SingleHolderHolds` | it gives a polled task to a second runner |
| `FaultSpec` | `HoldersSoundHolds`, `RequeueKeepsHolds` | one source of trouble at a time, as in their run |
| `AllowParallelTasks` = {} | `RequeueKeepsHolds` | `requeueTaskRunnerOffline` enqueues before it sends its event: a parallel template lets the task be claimed in between, and the event then takes it out of the running map (TLC shows this in 12 steps) |

### Local tasks

- `TypeCorrect`: `Spec => []TypeOK`, one lemma per group of actions.
- `TaskInOnePlace`: `Spec => []OnePlace`.  That a live run is tracked is not inductive: a
  claim could start a task that is already running unless a queued task is known not to
  run, which in turn needs that a task with `Run` or in `AddTask` is not queued, that an
  entry is not queued twice, and that a task without a row is nowhere.  `OnePlace` is the
  conjunction of these.  One lemma per action that moves a task between places
  (`CreateOnePlace`, `RegisterOnePlace`, `EnqueueOnePlace`, `ClaimOnePlace`,
  `FinishOnePlace`, `ReleaseOnePlace`, `DequeueOnePlace`), and `QuietStep` for the rest.
- `LiveRunsTracked`, `RunsOnce`: from `OnePlace`.
- `ParallelLimitHolds`: only the claim adds to the running map (`OnlyClaimAdds`) and it
  tests the limit in the same step (`RunningLimitStep`); the running map is the set of live
  runs by `OnePlace`.
- `LinksHold`: `Linked` says that the active set of a project is the running map, that a
  `run()` which only sends its last event has recorded its end, and that a bulk stop holds
  tasks with rows.
- `PoolImplementsLifecycle`: the actions that change a `Phase` are the creation, the claim and
  the release; the claim has capacity by `RunningLimitStep`, and the task it starts was queued
  and neither live nor ended by `OnePlace` and `Linked`.
- `ProjectLimitHolds` (`ProjectBound`): `blocks` counts the active set, which `Linked` makes the
  set of live runs.
- `TemplateExclusiveHolds`: `Unended` says that a run which has not left its job has no
  finished status, so that `TemplateBusy` sees it; `Exclusive` is the exclusion over
  those runs, which a claim then keeps.
- `EndsFinishedHolds`: `Ending` follows the status of a run through the dialogue: whatever a
  forced stop writes and whenever, `finishRun` finds a status that it turns into a finished
  one, and nothing overwrites it afterwards.

### Remote tasks

- `RemoteTypeCorrect`: for the whole `Spec`, with every stop, timeout and act of the reconciler.
- `RemoteTasksOrderly`: the places of `OnePlace` are too coarse, as `run()` ends, a runner holds
  the task, a report is under way and a finalizer works at the same time.  `Orderly` gives
  ten stages, from the row to the recorded end, and each stage fixes what the queue, the
  maps, `run()`, the runner, the reports, the finalizers and the requeue events keep of the
  task.  A step of a task leads from a stage to a stage, and it leaves the stages of the others
  alone (`Effect`, `Turn`).
- `ExactlyOnceHolds`, `OutcomeFinalHolds` and `AutorunAfterEndHolds` read their properties off the
  stages.  The first two say nothing of disturbed tasks, as `UndisturbedSpec` has no overlapping
  finalizers and no late reports; `RemotePoolImplementsLifecycle` maps the step between two stages to a step or a
  stutter of the life cycle.
- `OutcomeReopenedHolds`, without a hypothesis, is about those: an action property of the whole `Spec` that
  lists every step that may overwrite a success or error in the row of a task.  These are a report
  whose check, or a timeout whose test, came before the outcome; `run()` of a task that was put back and
  is dispatched again; and a stop (its last loop of a bulk stop too) or an answer of a user.  No
  finalizer, event or act of the reconciler is among them.  It rests on the invariant
  `OutcomeStored`: an outcome in the row is also the status in memory, so that whoever tests the
  latter knows the former.
- `SingleHolderHolds`: under stops and timeouts a task leaves its stages, and what is left is
  `OneClaim`: it is in `AddTask` or `Run`, in the queue or in `run()` and with a runner, and a
  runner that holds it is the one it is assigned to.  A task returns to the queue only from a
  `run()` that has not assigned a runner.
- `HoldersSoundHolds`: for the timeouts also `Gentle`.  A task is unfinished until it has a
  runner or its `run()` completes it, as there is nobody else to finish it (`Unasked`); a
  finished one in the running map then has a `Remover`: its `run()`, a call of
  `FinalizeRemoteTask`, or a requeue event that is still to come.
- `RequeueKeepsHolds`: `Requeuable` has two layers.  `Kept` holds however late reports are: a queued
  or claimed task has no runner, the two exclude each other, and a task the reconciler has decided
  about has a runner, so that it is not in the queue when it is put back there; hence no task
  is queued twice.  `Followed` holds of a task without a recorded end until a report is applied that its
  requeue has overtaken (`late`): the task is somewhere, nobody finishes it before it has a runner,
  and while an event of its requeue is to come it is queued, unfinished and still in the active
  set, so that `TemplateBusy` finds its own template busy and `handleQueue` passes it over; the
  event that then removes it from the running map finds it in the queue, and nothing is lost.  `run[t]`
  is the control point of the newest `run()` of a task: a claim while an earlier one has not
  returned, which needs a late report, replaces it.

### Runner, output and working copies

- `JobTypeHolds`, unconditionally: the counters of the log and the variables of the poll cycle
  (`Phases`).  `JobsSoundHolds`, without a hypothesis too: every window of `checkNewJobs` is in it.
  `JobInv` says that a job that was not queued again is in one place between its offer and
  its launch (`OneEntry`) and launched once (`OnceAt`), that the server has the records that
  were dropped and an outcome only with all of them (`Delivered`), that an ended job has a final
  status unless the window of the server's status was hit, and what a report under way
  still has to be true of the job when its answer comes, or is lost (`Report`).
- `HubSoundHolds`: `NoGap` compares what a client has read with the history from its
  registration on, and is not inductive without the messages that are still in its channel.
  `Follows` states both position by position, while the pump runs; `Early` says that an
  unregistered connection has nothing.
- `OutputInOrderHolds`: `LogInv`.  The rows, the batch and the channel form one chain in which
  the lines of a stream ascend (`Chain`), which has every record of a finished call except the
  dropped ones (`StoreInv`); each history ascends and has what its user was told
  (`SentInv`); a call under way is the last of its writer (`CallsInv`); once both pipes are
  done only the task writes (`PipesInv`), and what was not copied by then `cmd.Wait` gave up or a
  scanner refused (`NothingLeft`), so that nothing follows the result.
- `WorkspaceSoundHolds`, `CleanedUpHolds`: `WorkspaceSpec` starts with any template, tasks,
  branches and complete copies (or none), and any budget of faults.  `WorkspaceInv` has
  for each executor what it knows at its point: where it can be (`Placed`), what the copy
  whose lock it has contains after each git command (`Updating`; here the partial order is used:
  a pull takes a copy from a commit to a later one), and what it keeps after the unlock unless it
  is disturbed (`Commit`, `Inventory`, `Keys`).  Files are missing from a copy only while its holder
  removes or clones it, or for good (`Mending`, `Complete`).  `Serial` has the requirements of templates
  whose tasks run one at a time: the recorded hash names an installed home except between the
  steps that change both; `Leftovers` says who will remove a file that is there.

### Schedules

- `SchedulesInvariant`, without a hypothesis: `ScheduleSpec` starts with any rows at any time, and any
  number of refreshes, firings, edits and restarts overlap.  A run time is identified by its
  schedule and the edit that set it, and copies of it are in the rows, in what a refresh has read
  and in the cron table.  `TimesInv` says that wherever such a copy is kept it is the same time, and that a
  run time some runner was started for has passed; `StartedInv` that no entry waits for
  it again, that it has one runner, and that this runner has not added its task yet.  A refresh adds
  no entry for a time that has passed, so even one that works on rows read before the firing cannot
  arm it again.
- `SchedulesSoundHolds`: that the cron table follows the rows needs what lies between them.
  `BuildInv` has what the refresh under the lock has put in the table so far, and `FollowInv` how far
  the rows it has read can be from the database: if they were read after the newest edit, they differ
  only in commit hashes and in schedules that have ended, unless a stale refresh wrote to the rows
  (`tainted`).  `TableInv` joins the two when the lock is released.  `HashInv` has that a recorded
  commit was handled by a firing, or that the runner which recorded it is still to do so.

### Accounts and secrets

- `AccountsInvariant`: `AccountsInv` is the types with "an identifier is never reused"
  (`TablesInv`), what each request under way knows (`RequestsInv`: `Doing` where it can be, `Knows` the
  copies it has read, `Backed` the row, session or token that was there when it read them), and
  `NoOrphan`.  None of the last is inductive without the first: a request that acts on an
  identifier it read three statements ago must not meet another user under it.  The argument is
  in two halves.  `Evolves` says what any step may do to the tables (rows disappear and are
  added under fresh identifiers, a user never becomes local again), and `Backed` survives every such
  step, whoever makes it; `Moves(r)` says what the step of `r` does to `r`'s own request.
- `UsersSoundHolds` and `CredentialCurrentHolds` are read off it; `LocalNeverAdoptedHolds` and
  `SecondFactorAskedHolds` are action properties: the only steps that insert an identity or a
  session are those of a login that has looked its user up, and `Knows` keeps what it saw.
- `SecretsInvariant`: `Readable` is not inductive, as secrets are stored from outside the table:
  a write the server has encrypted and not stored, a page a rekey has read, a backup file and its lines on their
  way back.  `KeysInv` says that the key of each of these is on disk.  A key leaves the disk only
  after a check reported it (`CheckInv`: the report of an undisturbed check stays true until it is
  used, and no command runs meanwhile).  That a check or rekey has seen every row is about paging:
  `Rank` is the number of rows before a row in the list, `NextReached` says that a page
  takes the rows the next ranks have, `SamePages` that writing a secret shifts no rank, and `EmptyPage` that an
  empty page leaves no rank beyond it (the ranks of a finite list have no gap: a maximum among the rows before
  a row has the rank just below).  `RekeyInv` then has what a rekey has passed, seen changing or
  still before it.
- `ReadableHolds`, `RekeySoundHolds` follow; `SurveyKeptHolds` from `SurveyInv`: per task the
  survey secret is stored before the task can start, and until the task has read it only the steps that
  fail the task remove it, or the sweep once it was stopped and has expired (`DataOf`, `FreshOf`, `LifeOf`).

Two errors of earlier versions of the models came out of these proofs.  An external login that discarded a candidate
found by email kept the candidate's TOTP for the user it then created; and the operator of `Secrets` could remove a key
that had become the active one again, which needs three encryption keys to show.

### Only model-checked

- Liveness under fairness, which is out of the prover's reach: `Settles`, `TimeoutReleases`,
  `StopReaches`, `OutputSettles`, `OneTimeEnds`, `SecretsSettle`.
- Integrations, project tables, backup and migration: the
  invariants and action properties of their runs.  `Exporter`, `Backup` and `Integrations` compute over
  maps and sequences of any shape, which needs induction over data; `StoreSound` is about 20 kinds of
  rows whose removal cascades along a graph of foreign keys, again data to recurse over.

## Not modelled

- HA mode (its state store is not in the repository: claims, broadcasts, hydration from the
  database), workflows and the other extension points, whose implementations are elsewhere;
  custom roles and template permissions, whose endpoints answer 404 in this build; stages of a task, the
  log write service and the synchronisation of secrets, which are empty functions in this build.
- `StopTasksByWorkflowRun`, `ClearTasks`, `requeueUndispatchedTask`, the times of
  `DecideRunnerTaskAction` (its decision is any choice), restarts of the server and of runners in the task pool,
  `OneOff` runners and registration.
- Errors of the database other than refused statements; SQL dialects and schema migrations;
  concurrent statements inside one transaction.
- The git client built on the go-git library, the scratch directory of `GetRepositoryPlaybooks`,
  the temporary directories and command lines of the apps.
- Passwords, the OIDC state cookie, the email one-time code, request parsing, alerts, events, metrics and mail, configuration other than the keyset, the web
  client: input and output without state of their own.

## Plan

1. Proofs: `StoreSound` and `RemovalsSound` of `ProjectStore`, with the cascades of a removal stated
   without recursion.
2. Models: restart of a runner (`X-Runner-Started-At`) and of the server, and the composition of
   `JobPool` with the runner API in place of its reduced server; the reconciler's decision table
   over time, with `requeueUndispatchedTask` and the `dispatching` flag.
