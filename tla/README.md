# Verification of the consultation queue, its services, its portals and its deployment

TLA+ models of the multi-worker part of this repository (`src/machine_admin`,
`src/workers`, the portal functions they import from `rf1`, `consiglog`, `facil` and
`safeconsig`, and `deploy.py`), TLC configurations that check them on small instances and
theorems that TLAPS proves for every value of the constants.

1. [The system](#1-the-system)
2. [What each module models](#2-what-each-module-models)
3. [What the runs check](#3-what-the-runs-check)
4. [What is proved](#4-what-is-proved)
5. [Where the code and its documents disagree](#5-where-the-code-and-its-documents-disagree)
6. [What is not modelled](#6-what-is-not-modelled)
7. [Plan](#7-plan)

To check a run: `tlc -workers 2 -config QueueItem.cfg MCJobQueue`. To check the proofs of a
module: `tlapm JobQueueProofs.tla`.

## 1. The system

A web server (`machine_admin`) keeps a queue of consultations in PostgreSQL. Operators
create jobs, by hand, by an idempotent request or by a schedule; each is a list of items to
look up on the portal of an *agreement* (a municipality), frozen from a *base* of the
agreement's catalog. Worker processes reserve one of the agreement's portal *accesses*, log
in, claim items, consult them one by one, and send each answer back. A scheduler process runs
maintenance, due schedules, the webhook outbox and the export builder. `deploy.py` puts
releases of all this on a host over SSH.

### Components

| Component | State it keeps | Operations | Hard behaviour | What makes it correct |
|---|---|---|---|---|
| **Consultation queue** (`queue.py`, worker and job endpoints of `web.py`) | `Job` (status, `result_version`, six counters), `JobItem`, `JobItemAttempt`, `ConsultationResult`, `CredentialLease` | create, acquire, heartbeat, claim, complete, requeue, release, pause, cancel, resume, retry, maintenance | answers late, lost or twice; leases of items and of accesses that age apart; drains that race claims and releases; an ORM session that keeps what it read before it got the lock | counters equal a recount; an exact, append-only attempt history; a stopped job is quiet; success is final; budget spent by technical errors alone; limits on sessions |
| **Worker engine** (`workers/engine.py`, `api_client.py`) | polling thread, renewal thread, open portal session, batch, unacknowledged answer | reserve, log in, claim, consult, acknowledge, return, renew, close, release, stop | two threads, up to four tries per acknowledgement, lost requests and replies, crashes in any phase, a drain seen between items | a session is covered by its reservation; an item is consulted by one worker; a final answer is not lost; jobs end or wait for an access to be corrected |
| **Access checks** (`access_checks.py`, credential parts of `queue.py`, `web.py`, `services.py`) | `CredentialCheck`, the health of `PortalCredential`, the leases shared with the queue | request, claim, complete, cancel a test; sweep; report; toggle; edit | a verdict that races a cancellation or a timeout; tests and consultations that reserve the same rows through two endpoints; skip-locked scans | one reservation per worker; a test owns its lease; nothing is edited or disabled under a session; a blocked access stays blocked |
| **Webhook outbox** (`webhooks.py`) | `WebhookDelivery` rows, `WebhookEndpoint` | enqueue, claim, post, write back, retry, cancel, toggle | a lock that runs out while the post is under way; consumers that die; a job that is reopened before its first end was told | an event tells the end of its generation; every row settles; a settled row stays |
| **Export artifacts** (`product_exports.py`) | `ExportArtifact` rows and files | request, maintenance's final export, claim, render, publish, fail | builders that outlive their lock; rows that cannot be read; requests made with a stale job | a ready row has its file; one final export per generation; each ended generation gets it |
| **Dataset catalog** (`datasets.py`, the base handlers of `product_api.py` and `web.py`) | bases with type, status, members and encrypted upload; the identity rule of the agreement; the catalog's advisory lock | import, rename, classify, archive, change the rule | a parse that began before the lock and under another rule; files written before the commit that names them; General, which every other base feeds | identities follow the rule in force; General knows everyone; a base has its file |
| **Schedules** (`scheduling.py`, schedule handlers) | `Schedule` with its next due time, `ScheduleOccurrence` | save, enable, disable, tick | two schedulers on one due row, overlap with the previous run, misfire grace, slow clocks, an archived base, two locks in opposite orders | a trigger starts at most one job, and none beside an unfinished one; a due schedule is decided |
| **Idempotent operations** (`operations.py`) | `JobRequest` | create with a key | repeats while the first is uncommitted | one job per key |
| **Portal adapters** (`workers/adapters`, functions of `rf1`, `consiglog`, `facil`, `safeconsig`) | one browser page, what was noted of it before a query, the session on the portal | open, consult, recover, close | a page that keeps an earlier item's sentence, panel or fields; answers late, in part, in the wrong order or never; sessions that expire | a result is the item's; a negative one is true; what a login shows decides whether the access is blamed |
| **Deployment** (`deploy.py`) | releases, the link `current`, units, shared data and configuration, schema, backups | deploy, activate, rollback | steps that fail, connections that drop, hosts that restart between any two; an adoption that goes back to the old installation and is tried again | what a command reports is what the host does; no release runs without its data and schema |
| **Operational scheduler process** (`run_operational_scheduler.py`) | last run of each loop | three loops | failure of one loop | each loop's call is an action of the component it serves |
| **Readiness and portal windows** (`readiness.py`) | none of its own | evaluate | none: pure | verdict follows the configuration |
| **Users, tokens and credentials** (`security.py`, `secret_store.py`, admin routes) | users, roles, tokens, encrypted secrets | toggle, change role, rotate | two administrators disabling each other | some administrator is left |
| **Worker pool** (`run_worker.py`, `workers/registry.py`) | slots | start, stop, replace | a slot that dies | as many slots as configured |
| **Portal services** (`services/`) | sockets, captcha jobs | open, solve | third-party protocols | outside this verification |
| **Legacy robots** (`main.py` and the loops of `rf1`, `facil`, `consiglog`, `grid`) | spreadsheets | sequential scripts | none shared; their portal functions are the adapters' | as the adapters |
| **HTTP surface and wiring** | none of its own | routes, templates, settings | none shared | outside this verification |

### How the parts interact

- Workers talk to the server by HTTP only. Every worker endpoint is one database
  transaction; the row lock of the job (`SELECT ... FOR UPDATE`) serialises the handlers of
  a job, and the row of the access those of an access.
- `CredentialLease` is shared: consultations (`acquire_credential`) and login tests
  (`claim_check`) reserve in the same table, with a unique worker column.
- An answer may carry a report on the access (`apply_credential_report`), which changes the
  access's health and may block the agreement.
- The adapter's verdict on an item decides which of these requests the worker sends: an answer, a
  return, the end of the session, a report on the access. `PortalPage`'s `After` is the engine's
  reading of a verdict.
- The terminal status of a job is what the outbox and the export maintenance look for. The
  operator's retry increments `result_version`, which names the *generation* an event or
  an export is about.
- Schedules, job requests and the base handlers meet in the catalog: each reads a base's status under
  the agreement's advisory lock, the handlers wait for it and the scheduler only tries it.
  `archive_dataset` switches schedules off in its own transaction.
- The scheduler process calls `process_due_schedules`, `process_job_maintenance`, the sweep of
  tests, the outbox and the exports in loops; each call is an action of the module of its component.
- An activation stops every service, so to the other components it is the crash and restart that they
  model, and it hands the worker its token through the shared environment.

The hazards this causes, each at its line and with the property that watches it, are listed
in `PROJECT.json`.

## 2. What each module models

| Module | Role |
|---|---|
| `JobQueue` | the queue's tables and every operation on them |
| `JobQueueProps` | type invariant and properties of the queue |
| `WorkerEngine` | workers, extending `JobQueue`: each request is an action of the queue together with what the worker does about the reply |
| `AccessChecks` | login tests and access health |
| `WebhookOutbox` | the outbox rows of one job |
| `ExportArtifacts` | the export rows and files of one job |
| `DatasetCatalog` | the bases of one agreement and their files |
| `JobTriggers` | abstract: what a trigger (a key or an occurrence) may do |
| `Schedules` | schedules, job requests and scheduler replicas, extending `DatasetCatalog`; implements `JobTriggers` |
| `PortalPage` | an asynchronous portal page, and the worker's use of an adapter |
| `RF1Portal` `ConsigxPortal` `FacilPortal` `SafePortal` | one adapter each, on that page |
| `PortalAdapters` | the worker with any of the four, and what a verdict must mean |
| `Deployment` | `deploy.py` and its host |
| `MC...` | sets, item order and symmetry for TLC; no definition of theirs replaces one of the models |
| `JobQueueProofs`, `WorkerEngineProofs`, `AccessChecksProofs`, `WebhookOutboxProofs`, `ExportArtifactsProofs`, `CatalogProofs`, `PortalAdaptersProofs`, `DeploymentProofs` | theorems and their proofs; `CatalogProofs` is about `DatasetCatalog` and about `Schedules`, the others about the module they are named for |

The queue, access, outbox and export models share one convention for time: a lease, lock, backoff
or deadline is a number of ticks left, and `Tick` takes one from each. It runs out at zero. An
absolute time of the code that lies in the past is the value zero. This keeps the state finite
without a bound on time. `Schedules` is about due times that differ and keeps a clock.

### JobQueue

`status`, `version`, `tally` are columns of `Job`; `item`, `attempt`, `result`, `lease` are the
rows of the four other tables; `claim[w]` is the job status that a claim request of worker `w`
has read and not yet used. Attempts are numbered per item and the number stands for the random
token of the attempt, which only its recipient knows.

- `Create` `Acquire` `Heartbeat` `ClaimRead`/`ClaimCommit`/`ClaimFails` `Answer` `Requeue`
  `Release` are the worker endpoints; `Pause` `Cancel` `Resume` `Retry` those of operators;
  `MaintainActive` and `MaintainDraining` are `process_job_maintenance` on one job.
- A handler holds the job's lock from its first read to its commit, so it is one step. The
  exception is the claim: `worker_claim_items` loads the job with `session.get`, then
  `claim_job_items` locks it, and SQLAlchemy does not refresh attributes it already loaded
  (contrast `services.py:235`, which asks for a refresh). So the claim is two steps
  and the second uses the status read in the first. No time passes between them: a tick is
  longer than a request. A claim takes the clock before it waits for the lock; that gap is
  inside the same tick.
- `Answer(i, n, o)` and `Requeue(i, n, o, consume)` may arrive at any moment for any delivery
  `n` that was ever made, so late, repeated and reordered requests are covered with no
  message buffer. One that `Accepts` refuses (409), or recognises as a replay, changes no row.
- Finalisation, the end of a drain and the counter deltas are part of the action whose
  handler performs them.
- `via` in an item's hold (the access lease it was claimed under) and `from` in a result (the
  delivery that sent it) are history variables; no guard reads them.
- Whether the portal is open, the configuration is ready and an access is healthy are decided
  elsewhere and only ever *refuse* a reservation; the model lets a reservation be refused by not
  taking the action. The statuses `awaiting_dataset` and `blocked` come before the life
  modelled here.

### WorkerEngine

Per worker: `phase` of the polling thread, `access` (the lease it believes it holds), `open`
(the portal session), `todo` (deliveries of the batch, in id order), `answer`, `tries`,
`signals` (drain, lost, stop), `age` (ticks since the last answered renewal) and `beaten`.
`upsets` counts faults and operator interventions against `MaxUpsets`. `health` of an access and `outage` of
the agreement are what the worker's reports leave behind.

- `Poll(w)` is the step of the polling thread in its phase; `Renew(w)` is one beat of the
  renewal thread (served, refused or lost); `StopSlot` and `Crash` come from the pool and the
  host; `Operator`, `Maintenance` and `Clock` are the rest of the queue.
- Every request may be served, be refused, be lost before the server, or be served with its
  reply lost (`ReserveUnheard`, `ClaimOrphaned`, `Unacknowledged`). A lost renewal stands for all
  the tries of one tick.
- `CloseSession` may fail and leaves a session of which nobody knows; the model
  forgets it when its worker reserves again. After a crash the worker's id is taken by a new
  process once the old reservation is gone.
- A login may be refused (`LoginRefused`), an item may meet a portal that is down or that rejects the access, and the
  recovery after a technical error may fail in the same ways. The worker then reports (`ReportFailure`), and the
  backend makes the access invalid, has it cool down, or shuts the agreement (`Blame`, which is
  `apply_credential_report`); the report may be refused or lost as any request. `Reserve` takes only accesses
  that are `Usable`. `Reopens` is the end of a cooldown or of a block of the agreement, `Correct` the operator's
  correction of an invalid access. That the third unconfirmed login in a row blocks an access is a choice
  here; `AccessChecks` counts them.
- A request that times out at the worker has been applied or not by then; arbitrarily
  late requests are covered in `JobQueue` itself.

### AccessChecks

`access` (status, failed logins, cooldown, password), `lease`, `check` (the latest test of an
access), and the order in which tests wait. One agreement. The password is a member of `Secrets`,
so that a session can be compared with what is stored now.

- `Acquire`, `ClaimCheck`, `Heartbeat`, `Release`, `ReportAccess`, `Complete` are requests of workers;
  `RequestCheck`, `CancelCheck`, `Toggle`, `Edit` those of operators; `Sweep` is the scheduler's
  clean-up of overdue tests.
- `claim_check` and the sweep scan with `skip_locked`: the rows they see are any subset
  (`unlocked`). The primary key and the unique worker column make the losing one of two racing
  inserts fail, which is a stutter.
- A lease token is random in the code and only ever compared with those on record, so `Fresh` takes
  any token no row holds.
- Only the latest test of each access is kept: older ones are final and no handler
  reads them again. Two stored accesses with one login (`login_identity`) are left out. A
  consultation takes some usable access where the code prefers the one that failed least.

### WebhookOutbox

One job whose generations end, are reopened and end again; one row per generation and endpoint,
with attempts, status, lock and due time; and for each consumer the row it holds and what the
endpoint replied. `ProcessOne(k)` is one turn of the loop: claim, post outside a
transaction, write the outcome back if the row is still locked by this consumer. A consumer
takes the lowest due row. Rows about ready exports, which travel the same way, are left out. A
generation that is reopened before the next maintenance call is never announced, by design.

### ExportArtifacts

One job (its rows a counter that every result and every retry moves), one format; an artifact is named by
generation, rows and status frozen into it, as the uniqueness key of the table is. `Load`/`Request` are a
request that read the job before its lock, with any result, end or retry of the job in between; a requester asks once, which
bounds the requests. `EnqueueFinal` and `EnqueueUnreadable` are maintenance; `Claim`, `Open`, `Write`, `Publish`, `Fail`, `Crash` are a builder, whose file appears before the row says `ready`.
Files nobody refers to are forgotten when their builder dies.

### DatasetCatalog

`rule` (the agreement's identity key), `bases` in order of creation, `files` on disk, `owner` of the
advisory lock and the request `tx[p]` each handler serves. A row is a CPF and a registration; a
member pairs the key it was stored under with its record.

- An import is three steps, as in the code: it validates the whole upload against the rule it read
  (`ImportRead`), takes the lock, compares the rule and writes the encrypted file (`ImportLock`,
  `ImportRefused`), fills the base and General and commits (`ImportCommit`), or removes its own file
  (`ImportFails`). A crash between leaves the file.
- The others take the lock first and read all they use under it: two steps, so that a crash may come
  between. `Classified` chooses which record of an identity a legacy base keeps, in any way the order
  of its rows could make it.
- The initial states are an agreement without bases and one with a base as the catalog's migration leaves
  older ones: untyped, each member under a key of its own.

### JobTriggers and Schedules

`JobTriggers` says in four variables what a caller may rely on: a trigger is decided once, starts at most one job,
never beside an unfinished job of its schedule, and never from a removed base. A job that ended may be given back its work by
an operator (`Retry`), beside whatever other job of its schedule. `Schedules` extends the catalog with
`clock`, `scheds`, `occs`, `jobs`, `requests`, the schedule or job request a handler serves (`req`) and
the tick a scheduler is in (`run`).

- A tick is `process_due_schedules`: it selects due rows with `skip_locked` (`TickBegin`), tries the
  catalog's lock for each (`TickTake`), and decides those it got in one transaction (`TickCommit`):
  the recorded occurrence, lateness, overlap and readiness, in the code's order. A failure undoes all
  of it (`TickFails`).
- `create_execution` looks for the key and at the base before it waits for the lock (`ExecuteAsk`) and
  looks again (`Execute`); the advisory lock on the key is `KeyTaken`.
- `UpdateSchedule` waits for the catalog with the row locked, `ArchiveSteps` for the rows with the catalog
  locked. `DeadlockAborts` is PostgreSQL's answer: either transaction may be the victim.
- `JobRetried` is `control_job` with the action `retry`: an ended job is queued again and nobody looks at the other jobs of its
  schedule. Whether it ended with anything to retry is left open, so that any ended job may be retried.
- Times are counted in due instants, each of them due for every schedule; a process may read a clock up to
  `Lag` behind. Accounts, portals, cron fields and the window of the agreement are left out.
- `Promise` maps this onto `JobTriggers`: a trigger's runs are the bases of the jobs that bear it, in a
  sequence as long as there are such jobs, so that a second job for a trigger is a step the
  abstract specification does not have.

### PortalPage, the four portals and PortalAdapters

The page is a document (`login`, `form`, `home`, `card`, `odd`), the CPF typed and the one whose fields
the portal derived (`filled`), the employee or list shown, whether negative evidence stands, and what changed
since the last probe. `seen` is what the adapter noted before its query, `flight` the query of this document that
is not answered, if any, `server` whether the portal holds a session.

- `Answer` lets the portal answer that query at any time, in whole or part, or with something
  else; `Expire` ends the session on its side; a new query or a navigation takes the place of what was under way.
  This is the part that is not in the repository; it is what the adapters' waits presuppose.
- `Launch`, `Recover`, `Close`, `Leave` are the engine's use of an adapter, `After` what it makes of a verdict.
- `RF1Portal` keeps the page between items. Marking the CPF's input (`RF1Probe`) and typing into it (`RF1Type`) are
  separate round trips to the browser. Its waits are the definitions `Resolved`, `Postback` and `Proven`:
  the page functions the code evaluates in the browser. One reload is allowed.
- `ConsigxPortal` opens a fresh page per item and waits for a response that differs from what was shown
  (`Fresh`). `FacilPortal` searches up to four times with a captcha each and reads the page whether or not the
  answer came. `SafePortal` waits until the answer was applied (`Idle`) because its empty table
  already shows the negative sentence.
- A login is refused when the password is not the one in force or the access is blocked or withdrawn (`accepts` is
  false), and the page then may or may not show words the adapter knows.
- `...Verdict` are the adapters' `classify_exception` tables, and `Found` is
  `ExecutionOutcome.found`, which refuses a result that is not the item's.

### Deployment

The host: the releases that are `ready`, each with the order it became so (0: it is not there), the link `current`, the target whose unit file each unit has, units that
are enabled and the code each runs, the shared data, configuration and token, the schema and the
backups. A command is a program counter over the steps of `deploy.py`: `Prepare`, `Stage`, `Check`,
`Stop`, `Import`, `Backup`, `Retire`, `Migrate`, `EnsureTokens`, `Install`, `Switch`, `Start`, `Verify`, and
`Relink`, `Reunit`, `Restart`, `Recheck` for `_restore_previous`. Loops over units are one unit a step.

- `readlink -f` of a link that is not there prints the link's own path, so on a host without any release a command finds
  `Self`, not nothing. If it fails after the switch, the link's path *is* a directory, and the restoration makes the link name
  itself: nothing can be started through it, `Up` fails and the command says so. The next command finds nothing (`None`).
- A command that fails before it knows the target to go back to (`prepare`, `stage`, `look`) restores nothing.
- Any step may fail (`Fail`); the connection may drop (`Drop`), after which the remote script goes on or
  dies and nobody restores; the host may restart (`Reboot`).
- The schema is a number and `Revision` the one a release leads to; a release does not know a schema beyond its
  own. `ahead` says that the old installation wrote after the last copy of its data.
- `Legacy` is the installation from before releases, which may or may not exist. `Retired` units are those only
  it has.
- `RestartAll` starts the units together, as the `systemctl restart` of several units does; that one of them may be up before
  another is not a state of the model.
- Hashes, archives, the texts of units, the validation of configuration and the `status` command are left out.

## 3. What the runs check

| Run | Instance | Result |
|---|---|---|
| `queue_item` | 1 item, 2 workers, 2 accesses, agreement limit 1, leases of 2 ticks, budget 2, 3 deliveries, 2 generations, backoff | result, budget and history of an item stay exact under late and repeated answers, outages, pauses, cancellation and retry; a live session keeps its item; the limits hold; what is closed stays |
| `queue_batch` | 1 job of 2 items, batches of 2, 2 workers, 2 generations | counters and status agree with the rows; a stopped job is quiet; a drain removes no live reservation |
| `engine` | 2 workers with two threads each, 1 access, 3 deliveries, 1 technical error, 2 upsets (refusals, outages, corrections among them), fairness | sessions are reserved, consulted items are owned, final answers are accepted, drains end, and jobs end or wait for an access to be corrected |
| `access` | 1 access, 2 workers, 2 passwords, login limit 3, test deadline beyond the lease, fairness | a test owns its lease, no change under a session, cancellations win, a blocked access stays blocked, a started test ends |
| `outbox` | 2 consumers, 2 generations, 2 attempts, 2 interventions, fairness | events tell the right end, settled rows stay, rows settle, a generation that stays finished is announced |
| `export` | 2 builders, 2 attempts, 2 generations with 1 change of the rows (a result or a retry), 1 request at any time or none, fairness | a ready row has its file and is final; one final export per generation, and it comes; every request settles |
| `catalog` | 2 handlers, 2 registrations of one person, 3 bases, 2 file names | identities follow the rule, General knows everyone, a base has its file |
| `schedules` | 2 schedulers, 2 handlers, 1 schedule, 1 key, 3 instants, clocks 1 behind, 3 requests, failures or retries, fairness | the locking implements `JobTriggers`; an enabled schedule has a base; a due one is decided |
| `portals` | each of the 4 portals, 2 CPFs, 2 registrations, 6 sessions or items | a result is the item's; a negative one is true, with the exception of section 5 |
| `deployment` | 3 releases (the second migrates, the third lacks a unit), with and without an older installation (a host with no release at all included), 4 commands, 2 upsets | commands keep their word; nothing is left behind |
| `queue_drain_lost`, `queue_turn_lost` | the smallest instance that shows it | a violation: see section 5 |

Every property of a passing run has a mutant in `PROJECT.json`: a definition changed the way a
plausible bug would change the code, under which TLC finds that property violated.

### Bounds

- *Items.* The handlers treat items one by one and jobs through sums over them. One
  item shows everything about a row; two show batches, counters and partial failure.
- *Deliveries.* `MaxClaims` bounds the deliveries of one item. Three with a budget of two is enough
  for two technical errors, a dead worker and an outage in every order of three; two in `queue_batch`,
  where the interleaving of two holders is the point; three in the engine's, where every upset may
  cost one.
- *Workers.* The protocols involve an owner and one that takes over. Nothing in the code counts
  workers beyond the two limits of `LeaseLimits`, which `queue_item` and `queue_batch` reach.
- *Lease lengths.* One tick makes every lease able to expire between any two steps. Where the leases of an
  item and of its access must age apart there are two (`queue_item`, the engine).
- *Generations.* Two: a retry and what it must not touch.
- *Upsets.* A bound on faults is what lets a job end at all: with unbounded crashes or lost messages
  no code would finish. The engine's two allow a loss during the recovery from a crash; the
  deployment's two a failure, drop or restart during a restoration.
- *Catalog.* Two rows that are one person or two, according to the rule, show every case of an identity; three
  bases are a specific one, General and one that came before or after them.
- *Exports.* One change of the rows is what a request with a stale job needs: a retry, or a result and then the end,
  between its read and its lock.
- *Schedules.* `MaxAsks` also bounds who may hold the catalog's lock, which is only tried by a tick: `DueIsDecided` holds
  because requests, failures and retries run out, and promises nothing under an endless stream of them. `MaxTime` gives a schedule three due instants: one that is decided, one missed and one
  after. `Grace` is zero, so a late tick must skip.
- *Turns.* Six sessions or items on a portal suffice for a login, an item, a recovery, an item whose
  answers come late, and two that find what it left. The properties are proved for any number.
- *Commands.* Four are an adoption that fails, a second one, an activation and a rollback. `Keep` is two, the
  smallest the code accepts.
- *Symmetry* is over workers, accesses, handlers, or employees, whose names are only compared for
  equality, and is used in no run with a liveness property.
- Deadlock is not checked: the instances stop when the bounds are used up and every row is final,
  and a system with no consultations left really does nothing.

### Fairness

- `engine` assumes weak fairness of the polling thread and of the renewal thread of each worker (both are
  loops whose requests have timeouts), of the maintenance (a loop every five seconds) and of the clock; faults,
  operators and job creation owe nothing. It also assumes that a cooldown and a block of the agreement end
  (`Reopens`: both are times of at most a day) and not that an operator corrects an access. `JobEnds` therefore says that a
  job which may run ends, *or* that at some point every access is invalid: with nothing the portal has not refused, no worker may
  reserve (`readiness.py:185`) and the job stays open. After a correction it is owed an end again.
- `access` assumes the clock, the sweep over all rows (a row that is skipped because it is locked
  is free again when the short transaction that locked it ends) and that a worker that was *told* to
  stop closes its session (logins run under a cancellation scope); not that any worker
  answers.
- `outbox` and `export` assume the clock, the maintenance, and that a consumer or builder takes its turn;
  it may still die at every step within the attempts its row has left.
- `schedules` assumes that a scheduler ticks, that the database breaks a deadlock, and strong fairness of each
  handler's work: it wakes whoever waits for a lock when the lock is free, and a scheduler that ticks every five
  seconds does not take the row again before. It does not assume that requests come, that time passes or
  that jobs end.
- The other runs assume none.

## 4. What is proved

The theorems assume of the constants what the named assumptions of the modules say and nothing else: their
types, that the names that stand for nothing (`None`, `Legacy`) are none of the others, that what must be
counted is finite (the items of the queue, the tests' accesses, the builders), that the unclassified type is no
type, that the services of a release are listed once each. Sets of jobs, workers, accesses, handlers, rows, releases
and units may be of any size, and so may every limit, lease, number of tries and number of faults.

| Theorem | States |
|---|---|
| `TypeCorrect` | `Spec => []TypeOK` of `JobQueue` |
| `StoppedJobsAreQuiet`, `LiveSessionsKeepTheirItems`, `ReservationsStayWithinLimits`, `BudgetsAreExplained`, `ResultsMatchTheirItems`, `JobsAgreeWithItems` | the invariants of the runs `queue_item` and `queue_batch`, one each |
| `DrainsWaitForTheLogout`, `ClosedRecordsAreFinal` | their action properties `DrainWaitsForLogout` and `ClosedRecordsStay` |
| `EngineDrivesTheQueue` | `EngineSpec => Spec`: the workers implement the queue's specification, so every theorem above holds of the queue while they drive it |
| `SessionsBelongToTheirWorkers`, `FinalAnswersAreAccepted` | the invariants of the run `engine` |
| `AccessesAreSafe` | `Spec => []AccessInv` of `AccessChecks` |
| `TestsOwnTheirLeases`, `SessionsUseTheStoredPassword`, `DisabledAccessesAreUnused`, `BlockedAccessesStayBlocked` | the invariants of the run `access`, one each |
| `WorkersHoldOneAccess` | `Spec => []OneLeasePerWorker`, which no run repeats |
| `CancellationsWin` | the action property `CancelWins` |
| `EventsTellTheEnd`, `SettledRowsStay` | the invariant and the action property of the run `outbox` |
| `OutboxIsTyped`, `SentRowsWereReceived` | types, and that a row says sent only if its endpoint received it |
| `ReadyArtifactsHaveFiles`, `OneFinalEach`, `ReadyArtifactsStay` | the invariants and the action property of the run `export` |
| `ExportsAreTyped`, `BuildersWriteApart` | types, and that no two builders share a file |
| `MembersFollowTheRule`, `GeneralKnowsEveryone`, `BasesKeepTheirFiles` | the invariants of the run `catalog` |
| `EnabledSchedulesHaveBases` | the invariant of the run `schedules` |
| `SchedulesImplementTriggers`, `OneJobPerTrigger` | the refinement `KeepsPromise` of the run `schedules`; one job per trigger, and none that starts beside an unfinished job of its schedule, which follow from it |
| `CatalogIsInv`, `SchedulesKeepTheCatalog` | the catalog's inductive invariant, and the three properties again with schedules, requests and ticks sharing its lock |
| `ResultsAreTheirs`, `NegativesAreTrue` | the invariants of the run `portals`, one each, for the four adapters |
| `AnswersAreTrue`, `ReleasesFindTheirData` | the invariants of the run `deployment` |

*Types of the queue.* `TypeOK` is not inductive: a technical error adds one to `retries`, which
stays within the schema because an open item never has its budget spent. `TypeInv` adds
exactly that (`GoodRows`). One lemma per row operation (claimed, returned, dropped, answered, ...)
says the operation stays within the good rows; the step has one case per action. A consequence is
`NothingToExpire`: the rows that `expire_exhausted_job_items` looks for cannot exist.

*Quiet jobs.* The hard cases are the two in which a status is *written* from an old
read. A claim that commits with a stale status can turn a pausing job into a running one,
yet never a paused one into a busy one: the claim needs a live reservation of the job, and a stopped
job has none. This is why the invariant must speak of reservations and items together. `QuietKept`
serves the actions that only free things and `FinalizeDrainingQuiet` the four that may end a drain.

*Sessions.* The invariant `SessionInv` strengthens the property: a hold that remembers a live
access lease belongs to a leased item, held by that lease's worker *on that very access*. The
added conjunct is what the heartbeat looks for when it renews the items; without it the
heartbeat could renew the access and miss the item.

*Limits and drains.* `LimitsInv` adds that the live reservations are finitely many, since a count of an
infinite set says nothing. `LimitsKept` serves the steps that only end reservations; `AcquireWithinLimits` is the
one that adds one, after both tests and together with the removal of the worker's expired one.
`DrainsWaitForTheLogout` needs that `FinalizeDraining` removes a job's reservations only when none of them is live.

*History.* Every step does to every item one of six things (`Moves`: kept, taken, finished, given back, left,
renewed), which is a lemma per action; that each of the six keeps `HistoryInv` is then shown once. The invariant says of a
row that its deliveries are numbered without gaps, that one is in progress exactly when the row is
held under it, that in the first generation its technical errors are what its budget has paid for, and that a
valid result is that of the delivery which closed it. `ResultsMatchTheirItems` and `ClosedRecordsAreFinal` are
read off it: a delivery that is closed can be neither the held one nor the next one.

*Counters.* A counter is moved by deltas, so the proof is that a delta is what a recount would have given
(`ShiftedRecounts`, for one item) and that rows of equal state count equally (`SameRecount`). `AgreeInv` adds that
an item is completed exactly when its outcome is a success, without which a requeue and a completion would count
differently. `FinalizedTells` turns the counters that close a job into a statement about its rows: as many
completed or failed as there are items means all of them, by finite cardinality.

*Engine.* `EngineDrivesTheQueue` needs more than reading the actions: the queue's `Answer` is enabled only
for a delivery that was made, so the step of a worker is a step of the queue only if what it has in its batch was delivered to it
(`Delivered`). `EngineInv` therefore says, for each worker, what its phase tells of its other variables (`Shape`),
that its access is reserved for at least what is left of a lease since its last answered renewal (`Fresh`: the
lease's ticks and the worker's `age` add up to no less than a lease), and that what it has in its batch is out with it, or closed
by its own answer when the reply was lost (`Batched`). A live access lease protects the items claimed under it from every other
actor: `LeaseElsewhere`, `FinalizeDrainingSpares` and the lemmas that follow them say so, and the step of one worker uses them
for all the others. `Batched` follows the order in which the batch is worked off; that a batch has a first delivery
is well-founded induction on its numbers.

*Accesses.* The five reservation and health facts are inductive only together with the types
of the tables (`TablesOK`): a verdict is filed under the token of a lease, so that it reaches the right
test depends on `TestOwnsItsLease`; that an edit does not touch a session depends on the refusal of
leases. `FreshToken` shows by counting that a token no row holds exists. `QuietStep` covers
actions that add no reservation and keep the health, `NewSession` the two that reserve; the
claim's large effect is first reduced to the sets it ends and the one it takes (`ClaimCheckEffect`).
`CancellationsWin` follows from the invariant: in a step from it, the health of a reserved
access can only be changed by the report of that reservation's own test.

*Outbox.* A consumer that lost its lock still has the row in its hand. Rows are therefore related to the job, not to
the consumers: no row exists before its generation ended (`RowsAreOfEndedGenerations`), what it ended with is recorded
(`EndIsRecorded`), and consumers, operators and time write only rows that are there and never their payload (`RowsKept`). That a
settled row stays needs besides that a sent row has no lock (`SentIsUnlocked`); a cancelled one may keep it, which
is the exception of `SettledStays` (section 5).

*Exports.* Builders are kept apart by their tokens (`TokensAreApart`): a fresh one exists because there are
more than the artifacts and builders can hold, by cardinality. A file is then either that of a ready artifact or
that of the one builder who holds its token (`FilesAreOwned`), so the builder that finds its artifact taken removes
only its own. `OneFinalEach` is the one that is about
maintenance alone (section 5 says why), which looks for a final artifact of the generation under the job's lock.

*Catalog.* `GoodBases` is stated of any sequence of bases, so that the steps of a commit (open a base, fill it, open General, copy
into it) each get a lemma about operators: `MergedMembers` and `ComplementedMembers` about sets of members, `OpenedBase`, `SyncedGeneral`,
`ImportedBases` and `RetypedBases` about bases. The rule in force enters through `ImportIsCurrent`: an import that holds the catalog was
read under it, and changing the rule needs the same lock. The same conjunct says that its file is that of no base, which is why
the clean-up of a failed import is harmless; it rests on the nonce.

*Schedules.* `ScheduleInv` is the catalog's invariant with what rows, requests and ticks name. A removal switches off the
schedules of its base in its own step; every step that switches one on finds the base ready under the catalog's lock, so nothing
can come between.

*Triggers.* `SchedulesImplementTriggers` is the refinement itself. `PromiseInv` adds to `ScheduleInv` what the mapping needs:
`requests` is the inverse of the jobs' triggers (`Recorded`), so that `Runs`, which counts, is the base of the one job recorded
(`RunsAre`); an occurrence without a status has no job (`OccsAreRight`); a key that is held has none and one holder
(`KeysAreFree`), which is why `create_execution` may test it before it waits; and there are no more bases than the bound (`Bounded`), through
what the request that holds the catalog may still open. A removal is then `Remove`, the end of a job `Finish`, its retry `Retry`, and a
request or the commit of a tick, which `Starts` describes together, `Decide`; everything else stutters. `OneJobPerTrigger`
draws the two safety properties from the abstract specification; the second is about the step that starts a job, because after a
retry a schedule may have two unfinished ones.

*Portals.* `AdaptersInv` says, for each adapter, what its page can be taken for at each point. ConsigX and
FacilConsig start from a page without the sentence and with no query under way, so any evidence is about this item
(`CxInv`, `FcInv`). SAFE's page always has the sentence; once no query is under way the page has the answer
applied to it (`SfInv`). RF1's page is old (`RF1Inv`): between typing and searching either nothing has changed
since the probe, and then `Resolved` and `Proven` are both false, or the fields are this item's and the sentence
is true of it; a search therefore goes out with this item's fields. Two lemmas end a consultation (`Settles` for a
verdict that reports nothing, `Reports` for one the page bears out), two do not (`Rests`, `GoesOn`); each action of
an adapter is one of the four. The proof is also how the exception in `NotFoundIsTrue` was found: an earlier
form of the invariant was not kept by the step between marking and typing.

*Deployment.* Each invariant says at each step of a script what the steps before have done. `WordInv` is for the answers: how
far an activation has placed its units (`Placed` up to the unit in turn), that a restoration works its way back to
what the command found, and that the releases named by the link and the command are still there, which pruning
must respect; a link that names itself and a command that found nothing are the two cases without one. `LeftInv` is for the data: as long as no rollback went to a release no activation had
validated, a release and the old installation never run beside each other (`Apart`), and once the link names a release all was copied
and the old installation cannot come back (`Adopted`), also across restorations to it and its being started again by a restart of the host. It needs
`WordInv` for what the units run.

Only model-checked: liveness, which with fairness and `ENABLED` is out of the prover's reach: `DrainEnds`, `JobEnds`, `CheckEnds`,
`EventSettles`, `FinishedIsAnnounced`, `ExportSettles`, `EndedIsExported` and `DueIsDecided`. `SomeActiveJobHasTheTurn` and `DrainStopsClaims` do not hold (section 5). No model
uses recursion.

## 5. Where the code and its documents disagree

Two runs end with a counterexample; `PROJECT.json` quotes the lines.

1. `queue_drain_lost`: a claim that read a job before a pause or cancellation commits after it, claims
   items and may set the status back to `running` (`web.py:2294`, `web.py:2341`). "Stop claiming
   immediately" (`queue.py:389`) does not hold.
2. `queue_turn_lost`: resuming an older job while a newer one runs leaves each waiting for the other
   (`web.py:437`), until an operator pauses one.

Other disagreements can be reached in the models; no run is kept for them:

- Two claims that both passed the turn test, for which two jobs share no lock, leave two jobs of an agreement
  running (`web.py:2297`; `BUSINESS_RULES.md:107`, "Apenas uma roda por convênio").
- A delivery whose worker died costs no attempt, so an item may be delivered a fourth time after two
  technical errors, which the comment at `queue.py:526-528` excludes.
- When renewals are lost for a whole lease, an access goes to another worker while the first session is
  still open (`engine.py:525`; `BUSINESS_RULES.md:13-14`). `SessionIsItsWorkers` states what does hold.
- A login test does not count the sessions of the agreement (`access_checks.py:229`;
  `ADMIN_ARCHITECTURE.md:63`). Consultations do count those of tests.
- A test that fails on an access the portal rejected, before three failed logins, moves it to cooldown and
  so back into use (`queue.py:517`; `PENDING.md:12-13`).
- An outage blocks the agreement and leaves the access as it was (`queue.py:501`), where
  `ADMIN_ARCHITECTURE.md:73-74` puts the access on cooldown.
- An export request that loaded the job before a retry and locks it after (`product_exports.py:43`, the
  select does not refresh the loaded object) freezes the reopened rows as the final ones of the
  generation before. The maintenance selects its jobs with their locks and is not affected, which is why
  `OneFinalPerGeneration` is about the maintenance alone: it is conditional on nobody asking for exports. The other
  properties hold with such requests, which the run `export` reaches: `ReadyIsFinal` is about them as well.
- A retry sets a scheduled job that has ended back to work (`web.py:1827-1849`, and the same call from `product_api.py` and
  `product_admin.py`) without looking at its schedule's other jobs, so that two jobs of one schedule may be unfinished, where a
  schedule declares `overlap_policy` "skip" (`scheduling.py:140`). `JobTriggers` promises no more than that none *starts*
  beside an unfinished one.
- A webhook's signing secret that cannot be decrypted is opened before the claim is committed (`webhooks.py:123`). The
  exception rolls the claim back, the row stays the lowest due one, and the loop meets it again each time, so nothing behind it is
  sent. The outbox model takes the secret as readable; `EventSettles` is under that assumption.
- `process_one_webhook` cancels the row of a disabled endpoint and leaves its `locked_by`
  (`webhooks.py:114-118`). A consumer that held the row with an expired lock can then still write its
  outcome over the cancelled row; `SettledStays` allows for that one case.

- RF1: the CPF's input is marked (`rf1/rf1.py:341-350`) before the CPF is typed (352). When the item before repeated
  a CPF (with and without a registration, say) and was read from the panel already shown, its search is still
  unanswered, and the answer may redraw the form in between. The fields it brings then pass for the new item's, contrary
  to the comment at `rf1/rf1.py:65-67` ("valores não vazios deixados pela consulta anterior nunca confirmam a nova
  pesquisa"); the search goes out with another employee's fields and may end in a false negative. The gap ends when the field
  loses the focus (`rf1/rf1.py:352-356`), not with the typing. `NotFoundIsTrue` excepts it.
- FacilConsig: the comment at `facil/facil.py:277-279` says that after two failed attempts to get the form the worker
  closes the browser and reopens the session. `classify_exception` ends the session only when that
  happens outside a consultation (`workers/adapters/facil.py:269-278`), so the session is kept and recovered.
- ConsigX: every login that does not come through is a `credential_error` (`workers/adapters/consiglog.py:208-210`),
  where `BUSINESS_RULES.md:132` keeps that for an access that was refused.
- `deploy.py rollback` without a release takes the newest ready one that is not the link's
  (`deploy.py:720-728`). One that was prepared and never activated is newer than the previous one, is then started
  without import, backup or migration, and is not what the message for "no *previous* release" (729) or
  `README.md:216` mean. `NothingLeftBehind` is about hosts where no rollback did that.
- A successful activation prints a rollback command for the target before (`deploy.py:869-870`), also when that is the
  old installation, which is not under `releases`, or a release that its pruning has just removed.
- The retired services of the old installation are stopped and disabled by an activation and not started again when
  it is undone (`_restore_previous` handles the service units alone), so a restoration is of those services only.
- `ensure_service_tokens` writes the token to the shared configuration before the transaction that records it
  commits. If that fails, the restored services get a token that the database does not know; the next
  activation mends it.
- On a host without any release `_current_target` returns the link's own path (`deploy.py:388`), so a first activation that
  fails after its switch is "restored" to a link that names itself (`deploy.py:660-665`). Nothing runs then, which the command reports;
  the next activation replaces the link. A rollback command before `deploy` has made the directories meets no path at all,
  which comes to the same, since there is nothing to switch to.
- When the connection drops nobody restores: the remote script goes on or stops where it is. Nothing keeps two
  operators from deploying at once, and an interrupted pruning can leave a release half removed that
  still says it is ready. These are outside the two properties, and so are a restoration's effects on hosts that found nothing to go back to.
- `README.md:208-211` lists the retirement of Telegram after the migrations; it comes before them
  (`deploy.py:594-597`), so an activation that fails at its migrations has already removed those secrets.

## 6. What is not modelled

- Captcha providers, proxies, sockets: dialogues with third parties. The adapters' models see an outcome, chosen
  freely; the portals themselves are modelled from what the adapters wait for. Three assumptions about them
  carry `NotFoundIsTrue`: a document has one query under way, and a new one replaces it, as WebForms postbacks do;
  an answer of RF1 always redraws the message area, and denies an employee only truthfully unless the search
  brought another CPF's fields; an answer of SAFE to a search always changes what its page shows. The pages of SAFE's list, how a page's text is read, and margins and products
  are left out. A driver that a failed launch leaves behind is recorded (`orphan`) without a property.
- The worker side of a login test and the classification of an outcome meet only through the kinds of outcome: the
  engine takes any, the adapters say when each is given.
- Legacy spreadsheet loops, templates, routing, settings, most migrations: no shared state of their own.
- Readiness, portal windows, cron arithmetic: pure; to the queue a refusal, to a schedule a due instant.
- Encryption and hashing. A secret that cannot be decrypted is modelled where the code handles it
  (exports).
- Users, roles and tokens; the choice of worker slots: planned.
- Lock order of the queue's handlers. A handler is one step there, so that PostgreSQL may have to abort one of two
  handlers that lock leases and tests in opposite orders is not visible; planned. (`Schedules` has its own
  lock cycle and models it.)
- Deployment: `status`, two commands at once, what a migration does to its tables.

## 7. Plan

Done: `JobQueue` (first, because everything else reads its tables), `WorkerEngine` on it, `AccessChecks`,
`WebhookOutbox`, `ExportArtifacts`, then `DatasetCatalog`, `Schedules` on it with the abstract `JobTriggers`, the portal
adapters, `Deployment`, and the theorems of section 4.

| Next module | What it adds | Runs and bounds | Worth proving |
|---|---|---|---|
| `AdminUsers` | the last administrator under concurrent toggles and role changes | 2 administrators | the invariant, for any number |
| `LockOrder` | handlers as sequences of row locks | 2 handlers at a time, deadlock checked | - |
| `WorkerPool`, captcha blocks, cancellation scopes | slots and their replacement | 2 slots | - |
| `QueueService` | an abstract queue (an item is open, out with one worker, or ended for good) that `JobQueue` implements | the bounds of `queue_item` | the refinement step by step |
