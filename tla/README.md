# A verification of the crontab scheduler

The repository is a distributed cron service: a *master* offers an HTTP API to add, delete and
kill jobs, *workers* run the jobs, and the two sides meet only in etcd (keys) and MySQL (rows);
sessions of users are in Redis. This directory holds TLA+ modules of the parts that have state and
can go wrong, the TLC configurations that check them on small instances, and proofs for TLAPS.
File and line numbers refer to the repository.

## The system

| Component | State | Operations | Meets the others through |
|---|---|---|---|
| `JobLock` (worker/core/job_lock.go) | lease, keep-alive, `isLocked`; the key `/cron/lock/<job>` in etcd | `TryLock`, `Unlock` | called by each execution; competes with all workers in etcd |
| `Scheduler` (worker/core/scheduler.go) | `jobPlanTable`, `jobExecutingTable`, `jobEventChan`, `jobResultChan`, one timer | `handleJobEvent`, `handleJobResult`, `TrySchedule`, `TryStartJob` | channels from the watchers and the executions, channels to the status and log managers |
| `Executor` (worker/core/executor.go) | one goroutine per execution | `ExecuteJob` | `JobLock`, the shell, `PushJobResult` |
| `JobMgr` (worker/core/job_mgr.go) | two etcd watches | `watchJobs`, `watchKiller`, `DeleteJob` | etcd to `jobEventChan` |
| `StatusMgr` (worker/core/status_mgr.go) | two channels | `pushStatusEvent`, `updateStatusLoop` | rows of MySQL |
| `LogMgr` (worker/core/log_mgr.go) | `logChan`, `autoCommitChan`, current batch, a timer per batch | `Append`, `writeLoop` | the log table of MySQL |
| `Register` (worker/core/worker_registry.go), `WorkerSer` (master/service/worker.go) | a lease and the key `/cron/workers/<IP>` | `keepOnline`, `ListWorkers` | etcd |
| Process start (worker/main.go) | the singletons `GRegister` to `GLogMgr`, nil until they are set | `main` | starts all of the above, in an order |
| Job requests (master/controller/job.go, master/service/job.go) | none of their own: rows, `/cron/jobs/<name>`, `/cron/killer/<name>` | `JobAdd`, `JobDelete`, `JobKill` | MySQL, etcd |
| Users and sessions (master/controller/user.go, middleware/auth.go, common/jwt.go) | none of their own: rows of users, a token per key in Redis, cookies | `Register`, `Login`, `Logout`, `AuthMiddleware` | MySQL, Redis; in front of the job requests |
| Pages of lists, connections, configuration, formatting, logging | see *Not modelled* | | |

What makes the components correct, and what is hard about it:

- **Lock.** Of all executions of a job one at a time supervises the command. The lock rests on
  leases: crashes, expiries, renewals that get lost, a `Commit` whose answer is lost and a
  `Revoke` whose error is ignored all interleave.
- **Scheduler.** The executing table stands for goroutines that end on their own; the plan table
  has to follow etcd across restarts; the timer must never sleep past a job although `Reset` does
  not drain its channel; a once job must run once, and the row in MySQL must tell what is going on
  although its events travel through two channels.
- **Several workers.** Each worker that sees a once job starts it, sleeps and competes for the
  lock, and each withdraws the job with its result, the losers, too. The lock excludes; it does
  not say that nobody ran the job before.
- **Logs.** A batch is committed by its timer or when it is full; the two race.
- **Registry and start.** Registration is repeated after every failure; old rounds leave
  keep-alives behind. `main` starts goroutines before it has set what they use.
- **Master.** Requests run concurrently and each makes several calls to up to three stores; a
  session that was checked may be gone when the handler goes on.

The hazards are listed line by line in `PROJECT.json`, each with the properties that cover it.

## Modules

| Module | Models | Notes |
|---|---|---|
| `ExclusiveLock` | what the lock promises | abstract: the set of executions that supervise the command |
| `Executions` | what a worker promises about executing jobs | abstract: the phase of each job's execution, and which were killed |
| `JobLock` | `TryLock`, `Unlock` and their use in `ExecuteJob` | any number of workers and executions, one job |
| `Cluster` | a once job on several workers | EXTENDS `JobLock`: its actions are steps of the lock and of the loops |
| `Scheduler` | one worker: loop, executions, watchers, status loop | the lock is reduced to its outcome, the master to its requests; implements `Executions` |
| `LogMgr` | the log manager | MySQL is a set of stored logs |
| `WorkerRegistry` | `keepOnline` on every worker, `ListWorkers` | |
| `Startup` | `main` of every worker and what runs beside it | EXTENDS `WorkerRegistry` |
| `MasterJob` | the job requests of the master, one step per call | the worker only finishes once jobs |
| `Master` | the whole API: users, sessions, and the job requests behind the check of the cookie | EXTENDS `MasterJob` |
| `MCJobLock`, `MCCluster`, `MCScheduler`, `MCWorkerRegistry`, `MCStartup`, `MCMaster` | | small instances for TLC |
| `JobLockProofs`, `ClusterProofs`, `SchedulerProofs`, `LogMgrProofs`, `WorkerRegistryProofs`, `StartupProofs`, `MasterJobProofs`, `MasterProofs` | | theorems about the module they are named after |

Definitions carry the names of the functions they model; `PROJECT.json` maps each of them to its
lines. Some definitions are preceded by a variant marked *Mutant* (`KeyAbsent_PlainPut` before
`KeyAbsent`): a plausible mistake in that code, which is part of no specification. Put in the
place of the definition it makes TLC refute the property it is listed with, which shows that the
property does depend on that code.

### JobLock

`pc[r]` follows execution `r` through `TryLock` (`idle`, `granted`, `kept`, then `locked` or
`failing`) and to the deferred `Unlock` (`pushed`). `alive` and `keep` are the leases etcd holds
and the ones a client library renews; `lockKey` is the lease the key belongs to. A lease that is
not renewed may expire at any moment, so no time is modelled: the 5 seconds may be shorter than
any step. `TxnFails` covers the occupied lock, the refused lease and the lost answer, with the
Put applied or not. Renewals that a worker sends may stop getting through (`KeepAliveLost`): the
goroutine at job_lock.go:55 then ends, and nobody tells the execution. `ReliableSpec` is the lock
without that step. A crash loses the goroutines and the renewals of a worker.

### Cluster

`JobLock`, with lost renewals if `MayFail` says so, plus, for each worker, what its loop does with one once job: the job's events on their
way (`events`), the plan, the executing table, the results (`reported`). An iteration of the loop
is one action that ends in `TrySchedule`, as in `Scheduler`; `OnOther` is an iteration woken up by
anything else. An execution takes the steps of `JobLock` (`LockStep`), starts the command, reports
and unlocks. `faulty` remembers that a worker died or that a call of `TryLock` failed, for the
properties that say so. The loop may meet the planned once job while it is being executed, and
the process then ends (finding 1): that is the first disjunct of `TrySchedule`.

### Scheduler

One iteration of the loop is one action: `OnJobEvent`, `OnKill`, `OnTimer` or `OnJobResult`, each
of which ends in `TrySchedule` as in scheduleLoop (scheduler.go:220-234). Plans are instants of
the model's clock. `TrySchedule` may panic (`NilExpr`), which ends the worker. The timer has two
parts, as in Go before 1.23: `timer`, when it goes off, and `timerC`, the tick in its channel,
which `Reset` leaves there. A goroutine is asleep before the lock or executing; `TryLock` with an
outcome of `LockOutcomes` stands for the whole of `JobLock`. Kill events come from a watcher of
their own and may overtake the others. `statusChan` is split by job, since `UpdateStatus` of
different jobs commute. `history` records what properties need and no action reads, but for its
bounds.

`Executions` is what is left of all this for somebody who knows neither tables nor channels: the
execution of a job waits, runs its command perhaps, ends, and is taken off by its result before
the next one starts; a kill marks the execution it finds, which then does not start its command if
it still waits. `Phase` reads the phase of an execution off the executing table and its goroutine
(in the table without a goroutine: ended, the result is under way), and `killed` is the set of
cancelled contexts while the process lives. One iteration of the loop is one `Iterate`: a result, a
kill or neither, and the starts of `TrySchedule`.

A name is added once: `JobAdd` refuses a name that has a row, and rows are never deleted.

### LogMgr

Logs are numbers, batches are sequences of them, indexed in the order of allocation, so that
`logBatch` and `timeoutBatch` are indexes, as the code's are pointers. An insert stores all the
logs of a batch or none, and is refused if one of them has its primary key already.

### WorkerRegistry and Startup

`WorkerRegistry` has the rounds of `keepOnline`. A round that fails after `KeepAlive` goes on being
renewed, since the context of the renewal is never cancelled (the `cancelFunc` of line 75 belongs
to the Put).

`Startup` puts `main` in front: `main[w]` is its next call. `InitRegister` is `Start` of
`WorkerRegistry`; from then on the rounds go on beside `main`, and a failure of a later call ends
the process with the registration in etcd. `changes` is the history of `/cron/jobs` and its length
the revision: the Get of `watchJobs` returns the keys and the revision, the goroutine of the watch
starts later, anything may happen between the two. The loop and the executions are reduced to the
plan and executing tables and to the managers they call: `GStatusMgr` and `GLogMgr` are nil until
`main` gets there, and a call then ends the process (`Panics`). The jobs are cron jobs.

### MasterJob and Master

A request is a process whose `pc` is its next call. `MayFail` names the calls that may fail
(`"check"` is the query for a row, of `JobAdd` and of `Register`); a call to etcd may fail after it
took effect. `Master` adds `step`, the position of a request outside
the job handlers, with its username and token, and three stores: rows of users, Redis, the cookies
clients have. A token is the id and the second of its claims. `string(user.ID)` is the character
with that number, which `RedisKey` models, replacement character included. `Handler` is a step of
`MasterJob` that may be taken only behind `Authentic`.

## Runs

The bounds are named constants; every instance fits into the memory of a small machine. Deadlock
is not checked because bounded counters (leases, instants, requests, logs) stop every instance in
the end, and because the system may well be idle.

| Run | Instance | What it shows |
|---|---|---|
| `JobLock_lossless` | 2 workers, 3 executions (two of one worker), 4 leases, no renewal lost | `MutualExclusion`, and the refinement of `ExclusiveLock` |
| `Cluster_once` | the same with 3 leases, lost renewals, failing calls of `TryLock` and `DeleteJob`, restarts | `LeasedExclusion`; a withdrawn job was taken by somebody; the lock is always freed, the job always withdrawn |
| `Cluster_twice` | 2 workers with an execution each, no failures | finding 4 |
| `Scheduler_jobs` | a cron job and a once job, 2 instants, lost locks, failing deletes, a restart | the plan follows etcd, the row settles, `num` counts the commands, the once job is not withdrawn before it ran and does not run again |
| `Scheduler_live` | a cron job of every instant, 3 instants, a kill, all outcomes of the lock, failing updates, a restart | the worker implements `Executions`, tables and goroutines agree, the timer is not late, no time starts the job twice, executions end, due jobs are executed |
| `Scheduler_panic` | two cron jobs, one that does not parse, and a once job | finding 1 |
| `LogMgr_batches` | batches of 3, 2 places in `logChan`, 1 in `autoCommitChan`, 7 logs | batches committed once and in time |
| `LogMgr_full` | batches of 2, 4 logs | finding 2 |
| `Startup_jobs` | one worker that starts, fails and starts again, 3 leases, a job, every call at start may fail | online workers are listed, dead ones are not, a worker that has caught up plans the jobs of etcd, and jobs reach it |
| `Startup_nil` | the same process | finding 5 |
| `WorkerRegistry_onehost` | 2 workers on 1 host | finding 3 |
| `Master_requests` | 2 requests at a time, 4 in all of which 3 for jobs, one job, two users, 2 seconds, any call that writes may fail | rows before keys, rows per name and per user, deleted rows have no key, kill marks go, sessions are the user's own, revoked tokens are refused |

Why the bounds are enough: with 4 leases one execution goes through a failed attempt and a
second one while another worker locks and unlocks, and a worker can come back after a crash.
In `Cluster_once` one of the workers has two executions, so it can be restarted and meet the key
that a failed delete has kept, while the other one still supervises. With 3 instants a job of every
instant is added, executed, and due again while it runs or after its result; `schedule_sleep` is 1
where other properties than those of the timer are checked, and 3, beyond the next plan, where
`NoOversleep` and `DueRuns` could be broken by it. 7 logs fill two batches of 3, or one while others
time out at any size, with one place in `autoCommitChan` so that a timer's goroutine waits to send.
3 leases let a worker register, fail, and register again under a second lease while the first one
is alive. In `Master_requests` 4 requests allow a login, another login in the same second or the
next, a logout between them, and a handler that was entered before; 3 of the requests may be an
addition, a deletion and a kill of the same job. The channels of the scheduler hold 1000 entries,
which the instances never reach: a blocked `PushJobEvent` or `PushJobResult` is not modelled.
Expressions without a next time ("never") are in no run.

### Findings

1. **A once job that is being executed ends the worker** (scheduler.go:127). Its plan stays in the
   table, due and without an expression, until the result arrives. Any other wake-up of the loop
   evaluates `jobPlan.Expr.Next` on a nil expression in the log line of the skip.
2. **A full batch is lost** (log_mgr.go:63). The insert takes `timeoutBatch.Logs`, which panics
   while no batch has timed out and inserts an old batch afterwards.
3. **Workers of one machine share a registration** (worker_registry.go:57). The key belongs to the
   lease of the last Put; it goes when that worker dies, while the other one is online.
4. **A once job runs twice in the cluster** (executor.go:43). A worker whose random sleep is longer
   than the quick worker's whole execution finds the lock free, before it hears of the deletion,
   which would not stop it either.
5. **A job in etcd ends a starting worker** (main.go:62). The loop handles what `watchJobs` found
   and calls `GStatusMgr` before `main` has set it. The same holds for a result before `GLogMgr`.

Other behaviours that a reader may not expect, and that the properties are stated around:

- `MutualExclusion` does not hold when renewals are lost while the worker lives: the first
  command goes on, the key is gone with its lease, and a second execution takes it.
  `LeasedExclusion` is what remains.
- A cron job, too, may run once per worker for the same instant, for the reason of finding 4.
- The loser of the lock withdraws a once job while the winner runs it; a winner that dies then
  loses it. A job whose lock attempt fails is withdrawn although it never ran. `WithdrawnWasTaken`
  is therefore about behaviours without either.
- A kill adds one to `num`, and so does the result of the killed command.
- The execution that loses the lock leaves the row at "running" until the next event.
- A job deleted while it is executed has its row changed back by the result.
- A row may be marked deleted while its key is there, when an addition and a deletion of the name
  overlap: each acts on what the other one has not written yet (master/controller/job.go:128-131).
- A worker whose first Get failed is online and listed, without jobs (job_mgr.go:193).
- `Register` stores its token under the id of the empty `user`, not of the new one: the token it
  returns is refused (master/controller/user.go:57). A login is needed.
- `Register` ignores the error of its query (master/controller/user.go:27), and `JobAdd` takes a
  failed one for an empty answer (master/controller/job.go:74): then even requests one after the
  other create rows of one name. `RowsPerUser` and `RowsPerName` are for queries that succeed.
- Two logins of a user in the same second get the same token, so the second one brings back what a
  logout between them had revoked. Concurrent logins and logouts may delete a newer session.
- Ids of users that are no characters (55296 to 57343, or beyond 1114111) share a key in Redis.

### Fairness

`LogMgr`, `Cluster` and `Startup`: goroutines that run go on, and etcd expires what is not renewed;
in `Cluster` commands end, as in `Scheduler_live`. There, the loops run, a `select` starves none of
its channels (Go picks among the ready cases at random, hence the weak fairness of each case),
timers go off, `TryLock` returns, and commands end; a command that never ends keeps its job
executing forever, as in the code. `Master`: only the expiry of leases is fair. Nothing forces
requests, crashes, starts and restarts of processes, wake-ups by other jobs, or the clock.

## Proofs

Every proof starts from the assumption on the constants of its module, for any value of them. The
modules that compose components inherit what is proved of the parts: each step of the composition
is a step or a stutter of the part.

`JobLockProofs`, for every set of workers and executions and every bound on leases: `TypeCorrect`,
`LeasedExclusionHolds`, and, for `ReliableSpec`, `MutualExclusionHolds` and `Refinement`.
`MutualExclusion` is not inductive: it does not say why the key is absent when nobody holds the
lock. The invariant `IInv` adds

- `LeaseWhileBusy`: an execution that is not idle has a lease;
- `LeasesDiffer`: two executions never have the same lease;
- `HolderOwnsKey`: a holder whose lease is alive owns the key;
- `KeptAlive`, for `ReliableSpec` only: the lease of a holder is among the renewed ones, hence
  alive.

From these `LeasedExclusion` follows because a key has one lease, and `MutualExclusion` because
without loss a holder's lease is alive. The refinement maps `Finish` and `Unlock` by the set of
executions at `locked`; `KeyAbsentMeansNoHolder` gives the guard of `Acquire`. Only leases that
nobody renews expire, and that is what makes `KeptAlive` inductive.

`ClusterProofs`, for any workers and executions: `ClusterUsesLock` (a behaviour of `Cluster` is one
of `JobLock`), hence `ClusterLeasedExclusion`; `ClusterTypeCorrect`; and `WithdrawnWasTakenHolds`.
The last one is not inductive: the loser withdraws the job because it found the lock's key. The
invariant adds `KeyMeansTaken` (without faults, who put that key has taken the job) and
`LosersMeanTaken` (so somebody has, wherever an attempt is failing or a result is reported).
Beyond these:

- `ClusterImplementsExclusiveLock`, assuming that keep-alives get through
  (`"renew" \notin MayFail`): the only step of `Cluster` that is none of `ReliableSpec` is the loss
  of one (`LockStepOrLoss`). Finding 4 is therefore about commands one after the other, never at
  the same time.
- `OncePerWorkerHolds`: while nothing fails, no worker starts the once job twice. The invariant
  says that a worker hears of the job once (`HeardOnce`), has no plan of it and no execution before
  that, and while it is planned always has an execution (`PlannedWhenHeard`), so that waking up the
  loop starts no other (it panics instead, finding 1).
- `OnceRunsOnceAlone`: hence a cluster of one worker keeps the promise that `Cluster_twice` refutes
  for two.

`SchedulerProofs`, for any jobs, expressions and failures: `TypeCorrect`,
`ExecutionAccountingHolds`, `NoOversleepHolds`, `PlanFollowsEtcdHolds`, `OnceRunsOnceHolds`,
`StatusSettlesHolds`, `RunsWithinScheduleHolds`, `NumCoversRunsHolds`, `Refinement` and, assuming
that TryLock reports no error (`"error" \notin LockOutcomes`), `OnceKeyKeptHolds` and
`NumCountsRunsHolds`.
Counting results in a sequence is awkward for the provers; the invariant says the same by cases
(`Accounted`): a job is not executing and has neither goroutine nor result, or it has a goroutine
and no result, or no goroutine and one position in `jobResultChan`. That the set of keys in etcd is
finite is part of the invariant: a restart queues a SAVE event for each of them. `NoOversleep` holds
because every iteration ends in `TrySchedule` and `Reset`, and the planned times, being naturals,
have a least one (`LeastElement`).
The others need more:

- `PlanFollowsEtcd` is inductive beside the first invariant once it is stated without `Max`
  (`AllFollow`): the last event of a job in the queue decides, else the plan (`PlannedAfter`).
- `OnceKeyKept` needs `RowsFirst` (a name without a row is in no table, queue or goroutine) and
  `KeysExcused` (a key that is gone, or a queued result that will take it, belongs to a job that
  has run, lost the lock, or was deleted or killed by request). With failing grants of the lock
  the property does not hold: a job is withdrawn although its command never started.
- `OnceRunsOnce` needs `OnceBudget`: what may still start a once job (its only SAVE event, a plan
  that is not being executed, a goroutine before the lock) is there only while the process has
  not started it yet.

The last four look at an iteration from one job. Whatever the handler, it did one of five things
to it (`Handled`: `Passed`, `Saved`, `Unplanned`, `Killed`, `Finished`), and the tail then started
the job or left it (`StartsJob`, `LeavesJob`); `IterationHandles` and `IterationEnds` are proved
once for all handlers.

- `StatusSettles` needs `Ordered` (a name is saved once, and before it is deleted; a cron job has
  no events in the channel of the once jobs, and a once job only its deletion in the other one, so
  that emptying two channels in any order does no harm), `ReasonsKnown` (what a queued result says
  of the execution) and `RowFollows`: for each status that the row may end up with, the last queued
  one or that of the row if there is none, the tables say so, or history has the excuse.
- `RunsWithinSchedule` needs `Timely`: the starts so far are at most the times the expression has
  named, counted as multiples of the period, and together with the start that is planned no more
  than those named until the planned time. Replacing a plan, or skipping a time, only wastes one. The arithmetic is `DivGrows`.
- `NumCountsRuns` needs `Tally`: the count of the row, the queued events that count (`Adds`) and a
  command that has no event yet (`Uncounted`) add up to the commands; a result moves a command from
  the last to the second, a write from the second to the first. With kills, or errors of the lock,
  the sum may only be too large: that is `Covered`, and the theorem `NumCoversRunsHolds`, which
  needs no assumption on the lock. Both are corollaries of one lemma about a step (`StepTallies`).
- `Refinement` of `Executions` needs only `Accounted`: a result that is received is that of an
  execution which has ended, and a goroutine has an entry in the table.

`StartupProofs`: `StartupRegisters` (a behaviour of `Startup` is one of `WorkerRegistry`), hence
`StartedIsListed`; `StartupTypeCorrect`; and `CaughtUpPlansJobsHolds`, whose invariant says that
the plan with the queued events applied to it is the keys of etcd at the watcher's cursor
(`InSync`), and that history and queue are in order: no name is put after its deletion (`InOrder`).

`LogMgrProofs`, for any sizes of batches and channels and any number of logs: `TypeCorrect`,
`CurrentBatchTimedHolds`, `OneCommitPerBatchHolds`, and, assuming `~InsertMayFail`,
`PartialBatchesKeptHolds`. That only full batches lose logs is not inductive: the commit of a
batch would be refused if one of its logs had been stored before. The invariant adds
`QueueFresh` (a queued log is in the queue once and nowhere else), `CurrentNotStored`, and for
the types `CurrentOpen` (the current batch has room, so that one more log does not overfill it).

`WorkerRegistryProofs`, for any workers and hosts: `TypeCorrect`, and, assuming one worker per
host (`OwnHosts`), `OnlineIsListedHolds`. The invariant adds `LeasesApart` (rounds have leases of
their own, so that the keep-alives of old rounds do no harm) and `Registered` (the key of an
online worker belongs to its lease while that lives). Without `OwnHosts` the property is finding 3.

`MasterJobProofs`, for any requests, names and failing calls: `TypeCorrect`, `KeyHasRowHolds`, and,
for finitely many requests at a time whose query for a row succeeds (`ChecksWork`),
`RowsPerNameHolds`. The invariant adds `Numbered`, `RowBeforePut` (who is about to put the key has
created a row) and `CreatorsFit` (rows and requests about to create one are together no more than
the requests: one gets there only while there is no row).

`MasterProofs`: `MasterServesJobs` (behind the check of the cookie the requests behave as in
`MasterJob`), hence `MasterKeyHasRow`; `DeletedHasNoKeyHolds`, while the query for a row succeeds;
and of the sessions, for any users, ids and requests at a time:

- `MasterTypeCorrect`. That a new id has a place is `IdsSuffice`: the rows, with the registrations
  about to create one, are no more than the rows of the start and the visits so far.
- `SessionIsOwnHolds`, assuming that ids are characters of their own (`SmallIds`, the numbers below
  the surrogates): from `OwnSessions`, about every id and not only those that have a row.
- `RevokedIsRefusedHolds`. The invariant `TokensOnce` says that a token is in one place only (held
  by a request, under a key of Redis, or revoked) unless it was issued twice; `IssuesRecorded`, that
  whatever is in one of these places is among the recorded issues, so that a new issue of it is a
  repetition.
- `RowsPerUserHolds`, assuming that the query for a row succeeds (`"check" \notin MayFail`), that
  requests are finitely many and that the rows of the start were registered by them, too
  (`RegisteredBefore`): the rows of a name and the registrations of it
  behind the query (`RegistrationsCount`) are no more than the requests.

Only model-checked: the properties under fairness (`KeyIsFreed`, `OnceWithdrawn`, `ExecutionEnds`,
`DueRuns`, `LogSettles`, `DeadIsUnlisted`, `JobsArePlanned`, `KillMarkGoes`), which the prover does
not handle. Every invariant of the passing runs, and both refinements, are proved.

## Not modelled

- The pages of the worker list (master/controller/worker.go): a computation without state.
- `JobList`, `JobLogs`, `ListJobs`, `UserInfo`, `UserList`: queries without effect.
- Connections, configuration, response formatting, CORS, logging, Docker files: I/O and wording.
- The start of the master: it serves nothing before all is set up.
- The contents of logs, and the column `next_time`; passwords and the other fields of a user.
- Kills that no watcher sees, between two processes or before the watch (job_mgr.go:103): they are
  dropped in `Scheduler`, and nothing promises their delivery.

## Plan

Done: the lock, the scheduler of one worker, the once job on several workers, the logs, the
registry, the start of a worker, the whole API of the master, and proofs about all of them. Left:

1. Cron jobs on several workers, with the instants of `Scheduler` in `Cluster`.
2. An abstract specification of the sessions of `Master`, and its refinement.
