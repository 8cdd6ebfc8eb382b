# BunkerWeb: a formal model

BunkerWeb is a reverse proxy with security features. Its settings live in a
database that several programs write (web UI, REST API, autoconf, jobs, the
config saver); one program, the *scheduler*, watches the database, runs jobs,
generates the nginx configuration and delivers it to the *instances* (nginx with
Lua). Nothing but rows and "changed" flags couples the writers to the scheduler,
so the interesting questions are about orders of events: a write in the middle of
a pass, an instance that restarts, a configuration that nginx refuses.

The instances have state of their own: the files they were sent, the bans and
counters in shared dictionaries and in Redis, the requests counted against a limit.
A helper in C, called by ModSecurity, scans uploaded files.

This directory holds TLA+ modules of that core, TLC configurations, and proofs
checked by TLAPS. Paths below are relative to `src/src/` unless they start with
`docs/`.

## Inventory

| Component | State | Operations | Interacts with | Hard behaviour | What makes it correct |
|---|---|---|---|---|---|
| Scheduler main loop (`scheduler/main.py`) | `*_NEED_GENERATION`, `RUN_JOBS_ONCE`, `CHANGES`, `changed_plugins`, `env`, files on disk, `SCHEDULER.apis`, failover directory | start-up, poll, one pass (read, jobs, generate, send, reload, fail over or back up, `checked_changes`), SIGHUP, health check | database, executor threads, instances | writes during a pass, crash between two steps, threads that share `apis`, a backup in the background | every change is deployed; the failover configuration works; healthy instances are served |
| Job scheduler (`scheduler/JobScheduler.py`) | `__job_success`, `__failed_jobs`, `__job_reload`, the schedule | `run_pending`, `run_once`, `run_single`, `reload`, `setup` | executor, job modules, instances | flags shared by threads, two callers of due jobs | right verdicts; results are delivered |
| Change flags (`common/db/Database.py`) | `Metadata.*_changed`, `Plugins.config_changed`, content | saves, `checked_changes`, `get_metadata` | all writers, scheduler | content and flag in one transaction or not | no content without a flag that somebody will read |
| Web UI writers (`ui/app/routes/services.py`, `utils.py`) | a thread per edit | `wait_applying`, save settings, save custom configs | database | check-then-act, 120 s timeout | as above |
| REST API writers (`api/app/routers/`) | none | save at once | database | no waiting | as above |
| Autoconf (`autoconf/Config.py`) | pending configuration | `wait_applying`, `apply` | database | several transactions, flags last, error strings | as above |
| Autoconf controllers (`autoconf/controllers/`) | event queues, locks | watch, debounce, apply | Docker, Kubernetes, `Config.py` | events during an apply | the last event is applied |
| Config saver (`common/gen/save_config.py`) | none | save the environment | database | runs on SIGHUP, at any time | as above |
| Instance API (`bw/lua/bunkerweb/api.lua`) | files, running configuration, `IS_LOADING` | `/health`, `/reload`, uploads, bans | scheduler | partial uploads, restart | runs only what nginx accepts |
| Bans (`bw/lua/bunkerweb/utils.lua`, `common/core/badbehavior`) | shared dictionaries, Redis, two queues | count, ban, unban, look up | workers, Redis | queued increments, expiry, two stores, handlers that yield | an unban spreads; a ban has its causes; nothing is held for ever |
| Limits (`common/core/limit/limit.lua`) | list of timestamps, counters of windows | `limit_req`, `limit_req_global` | workers, Redis | read-modify-write, window boundaries | at most rate requests in a period; nobody limited without a cause |
| AV scan programs and library (`common/core/modsecurity/files/coreruleset-v3/util/av-scanning/runAV`) | pipe, output buffer, configuration globals, log | `run_cmd`, `main`, `parse_*`, `find_*`, `print_*` | clamscan, other processes that log | buffer limit, a scanner that dies, a lock held by a killed process | the answer is that of the scanner; entries of the log are whole |
| Job cache (`common/utils/jobs.py`) | files, rows | cache, restore | database | disk and row differ after a crash | the row is what was on disk |
| Generator (`common/gen/`) | none | translate | database | fails as a process | pure |

Tests of the repository are whole-system runs in containers; none of them
orders two steps of two programs.

`PROJECT.json` lists every component, also those not modelled with the reason,
and under "hazards" the places where this code is hard to test, with the
properties that cover them or a note.

## Modules

| Module | Models | Proofs |
|---|---|---|
| `ChangeTracking` | database flags, all writers, the scheduler's start-up, passes and restarts | `ChangeTracking_proofs` |
| `ChangeDelivery` | abstract: what change tracking promises to a writer | `ChangeTracking_proofs` (implemented by `ChangeTracking`) |
| `Deployment` | sending, reloading, failover, backup, health check; the instances | `Deployment_proofs` |
| `JobScheduler` | job threads, batches, inline runs, delivery of results | `JobScheduler_proofs` |
| `Uploads` | the upload handler of an instance, one action per command | `Uploads_proofs` |
| `Bans` | `is_banned`, `add_ban`, `remove_ban`; dictionaries, Redis | `BadBehavior_proofs` |
| `BadBehavior` | requests, counting, bans, unbans; extends and implements `Bans` | `BadBehavior_proofs` |
| `Limit` | `limit_req` and `limit_req_global`; several workers, Redis | `Limit_proofs` |
| `RunAV` | the scan of a file: scanner, `run_cmd`, `main` | `RunAV_proofs` |
| `RpcLog` | the log of runAV's library | `Rpc_proofs` |
| `RpcConf` | its configuration | `Rpc_proofs` |
| `RpcBlocklist` | its block list | `Rpc_proofs` |
| `MCChangeTracking`, `MCDeployment`, `MCJobScheduler`, `MCBadBehavior` | values for the constants | |
| `MCRunAV` | instances of `RunAV` and of the modules of its library; they share no state, so a behaviour is one of one of them | |
| `MCInstance` | the same for `Uploads` and `Limit` | |

`ChangeTracking`, `Deployment` and `JobScheduler` overlap in the scheduler's main loop
and abstract each other: in `ChangeTracking` delivery always succeeds (`Deploy`) and a
job run is one step; in `Deployment` a change is a new version number; in `JobScheduler`
the pass around `run_once` is `OnceEnd`. `Uploads` is the inside of what `Deployment`
calls sending a kind of file: an upload that fails leaves a mixture there, which is why
`Deployment` takes every refused file as possible and relies on `nginx -t`.
`BadBehavior` is composed with `Bans`: each of its steps that touches a ban is an action
of `Bans`.

### ChangeTracking

Content is a version number per *area*: the kinds `custom_configs`,
`external_plugins`, `pro_plugins` and `instances`, and the settings of each plugin.
`db` and `flag` are the database; `seen` is what the scheduler last read and put
on its disk, `env` the settings it last read, `ran` what the jobs last ran with,
`live` what the instances run. `pc` is the place of the main thread. History variables:
`owed`, the version of an area when a poll saw its flag; `undone`, the areas where a start
of the scheduler took such a change back; `cut`, whether a stop came before custom configs
that a pass was to write were written (`torn`: some files are missing meanwhile).

The actions follow the code: `StartSaver`, `BootEnv`, `Generate("instances")`,
`CheckDisk(k)`, `BootSaver`, `BootJobs`, `BootMeta` for start-up; `Poll` (flags to
`need`, `CHANGES`, `changed_plugins`); `Generate(k)` for each kind in the order of the
code, `ReadConfig`, `LoopTop`, `RunJobs`, `Gen`, `Deploy`, `Check` for a pass. UI edits
wait, save settings, then custom configs (`UIWaitApplying`, `UISave`, `UISaveCustom`);
the API saves at once (`ApiSave`); autoconf saves area by area without flags and raises
them at the end (`AcApply`, `AcSave`, `AcChecked`, and the error path `AcSaveError`,
`AcSaveAfterError`). `Events` switches the rarer behaviours: UI timeout, save error,
generator failure, SIGHUP, saves that flag custom configs on the side.

A start stores what it finds on its disk (`CheckDisk`): `check_configs_changes`
(`main.py:877`) saves the `*.conf` files as method "manual", whose rows replace those of
the UI and of the API (`Database.py:2566`), and `check_plugin_changes` the plugin
directories. A custom config that was accepted and not yet written to disk is so replaced
by the older file, or deleted with it (`Overwrites`). A version stands for the changes of
those before it, except where `undone` says that a start took one back.

Bounds: `MaxWrites` saves (2 or 3) and `MaxRestarts` (0 or 1). A lost change takes
two writes and one pass; three let a change follow the loss. One or two plugins:
two are needed for `changed_plugins` to be a proper part.
The writers are bounded, so the system may end idle: deadlock is not checked.

### ChangeDelivery

What somebody who stores a change may rely on, without flags, files or places in a loop:
content is stored (`Write`), changes of some areas are accepted when a pass begins
(`Accept`), the instances are sent newer content and never go back (`Apply`), and a pass
ends with everything accepted running, or failed (`Complete`); a restart begins a pass
(`Interrupt`), in which files on the scheduler's disk may take accepted changes back
(`TakeBack`), and nothing else may. `ChangeTracking` implements it
(`ImplementsDelivery`) with `phase` defined from `pc` and `ret`. What it does not
promise is that a change *is* accepted: that is `QuiescentIsLive`, and it depends on the
writers.

### Deployment

An instance holds a version of each kind of file (`files`) and runs the versions it
last loaded (`running`). `bad` says which versions `nginx -t` refuses: a custom
config is refused by itself, a generated configuration by itself, and a refused
file makes every reload fail while it is on the instance. `send_file_to_bunkerweb`
is a thread (`thr`) in four steps: send; find the index of an instance under the
lock; store its status; use the index under the lock. `backup_failover` is another
(`bpc`): clear, then three copies. The main thread (`pc`) does `Change` (poll and
custom configs), `CustomSent`, `Generate`, `Sent`, `Reload`, `StoreAnswer` for the answer of one
instance after the other, `AnswersEnd`, `Decide`,
`FailoverReload`, and the health check `HealthStart` ... `HealthEnd`.
Plugin directories are sent like custom configs and left out. At the start of a
behaviour a first pass has succeeded and its backup is complete.

`Faults` switches refusals, unreachable and restarting instances, uploads that a reachable
instance answers with an error or too late (`upload`; the file may be there all the same),
a generator (`gen`) or a copy of the backup (`copy`) that fails, database errors.
`Tested = FALSE` stands for `DISABLE_CONFIGURATION_TESTING`, which sends `/reload?test=no`
(`main.py:1128`): nginx is told to reload whatever the files, keeps what it runs if it
cannot load them, and the answer is a success. The runs have `Tested = TRUE`.
Left out: `IGNORE_FAIL_SENDING_CONFIG` (the statuses are always looked at), changes that
nobody has polled yet and that `generate_configs` of the health check (`main.py:616`) already
finds in the database, files changing between `nginx -t` and the HUP, instances
that judge the same version differently, and what a failed generator or a copy that breaks
off has written by then (the old files, or no directory, stand for it).
`SlowBackup = FALSE` restricts a run to backups that end before the next change is
polled; `TRUE` lets them overlap. Bounds: `MaxPass` versions (3: accepted, refused,
and one after it), `MaxFaults` faults per instance, one or two instances (two are
needed for one to fail and another to be healthy). Deadlock is not checked for the
same reason.

### JobScheduler

A job becomes due (`Due`), is queued by the inline run of the poll loop
(`RunPendingInline`), by a batch in the executor (`RunPending`) or by a reload of
the job scheduler (`RunOnce`). A job's thread runs the module (`Exec`), tests
`__job_success` outside the lock (`Judge`) and lowers it (`Fail`). `PendingEnd` sends
the cache and reloads when a job asked for it; that may fail (`Sends`).
`cache` and `live` count a job's results on the scheduler and on the instances.
Bounds: each job is due `MaxDue` times, `MaxOnce` reloads; three jobs of two
plugins, one of them asynchronous, so that threads race and jobs of a plugin queue.
The poll loop never stops, so deadlock is checked. Not modelled yet: the read-only
database, `run_single`, the records of runs, periods of jobs.

### Uploads

All uploads of a kind share the temporary file, the staging and the backup directory,
so the state is one `tmp`, three `dirs`, and per upload its command (`at`) and how much
of its body it has read. A directory maps each file to the upload it came from.
`Open`, `Read`, `ReadError`, `ReadAll` are the reading of the body (a descriptor to a
removed file writes in vain: `fds`); `Remove`, `MakeDir`, `Unpack`, `Backup`, `Clear`,
`Install`, `Restore`, `TidyFile` are the commands in the order of `Follows`. A command
that fails has done any part of its work, and a worker may be killed between commands.
`before` and `alone` are history. Bounds: two uploads, two files of which each archive
has others, a body of two pieces, one failing command per upload, one kill. With three
uploads and no kill the properties held as well (7.9 million states). Uploads end, so
deadlock is not checked.

### Bans and BadBehavior

Bans of one address: a key per service and a global one, in the dictionary of each
instance (`local`) and in Redis (`redis`), each with the time it has left. A handler
(a request, the timer of worker 0, the API) is suspended by each call to Redis:
`doing` says in what. `Lookup`, `LookLocal`, `AskRedis`, `CacheBan`, `Answered` are
`is_banned`; `AddBan`, `SetRedis` are `add_ban`; `RemoveBan`, `DeleteRedis` are
`remove_ban`. Every call to Redis may fail, up to `MaxFaults`. `own` and `grace` are
history: a ban an instance made itself, and the time copies of a removed one may last.
A call that fails may have been executed (`Called`); a DEL that fails does not keep
`remove_ban` from the next key. The TTL of a key about to expire is 0, which the code takes
for no TTL and replaces by `CacheTTL` (`CachedFor`).
`Next` of `Bans` is what any caller may do with these functions.

`BadBehavior` is the caller: `Access` and `Log` of a request, the timer with its three
loops (`TimerStart` ... `TimerEnd`), the scripts in Redis (`Script`, `Down`), `Order`
for `POST /ban` and `/unban`, and `Tick`. The shared dictionary may be full (`NoMemory`,
counted with the failed calls): a decrease is lost or not queued, or a counter not saved
(`TimerDecr`, `TimerCountFull`, `Decrease`). Time passes in units longer than a handler
runs (a call times out after a second, times are minutes), the timer runs once in each.
Bounds: with Redis two instances with a request each and one failing call or full
dictionary; without Redis, where instances share nothing, one instance with three;
threshold 2, so that one request more and one less are there; `CountTime` 2, `CacheTTL`
2, so that a copy ages and bans outlast copies; one order through the API; Redis may
hold a ban of 3 from before. Bans of bad behavior are permanent in the run, orders last
2. Deadlock is checked: time always passes. Not modelled: two generations of worker 0,
of which both run the timer for a moment when nginx reloads.

### Limit

One client, one URI. `stored` is the client's list of seconds in Redis and in the
dictionary, a set of entries with the request that made each (the code filters, appends
and counts, and never looks at the order; sets can be reasoned about where sequences
that are filtered cannot), `counted` the counters of the windows. `Request`,
`GlobalRedis` (or `GlobalRead`, `GlobalSet`) and `UrlRedis`, `Copy` (or `UrlRead`,
`UrlSet`) are the access phase; a failing call falls back to the dictionary. A worker
does not yield between reading and writing the dictionary (`Runs`), other workers run
meanwhile. The clock is finer (`Fine`) than the seconds the code sees, so that periods
begin anywhere. Assumed: no time passes during a request. Bounds: four requests, two
workers, both rates 2 per second, half seconds, one mishap.

### RunAV and its library

`RunAV` is one scan. The scanner writes a line per file into `pipe`, or dies anywhere
in a line; `ReadLine` is an iteration of the loop of `run_cmd` with what `fgets` may
return for the space left (`size`); `Answer` is the parsing in `main`. Text is a sequence
of tokens (keywords, colon, blank, other). A colon that is the last character lets
`main` read behind the terminator, which is a choice of both answers. Bounds: three file
names, with and without colons, up to two reports, a buffer of 12 and lines of 4, so
that lines are cut, the buffer fills up and outputs fit.

`RpcConf` reads a configuration: `ReadConfLine` is a round of the loop of `parse_file` (any
line may come, also one that is not name=value), `AssignConf` is `read_conf_file`, where
`FindParam` finds names by substring (`Part`), and `init_cgi` tries the second file if the
first gave nothing. Bounds: two names of which one contains the other, files of 3 lines,
an array of 2 parameters, so that it fills up.

`RpcBlocklist` is one sweep of `remove_ip_idx`, a step for each round (`RemoveIp`, `KeepIp`),
over any list of up to 4 addresses, of which one contains the other.

`RpcLog`: two processes that write an entry of several lines and a reply to one log
under `flock`; opening may fail (then `print_error`, and stderr), a process may be
killed. The calls of these modules end, so deadlock is not checked.

`runAV` calls nothing of the library but `run_cmd`, and that `print_error`. Its request log,
configuration, query strings and block list have no caller in this repository; the
modules of the three that are modelled say what these functions do for a program that
would call them, and no hazard is listed for them.

## What the runs check

| Run | Expect | Shows |
|---|---|---|
| `change_autoconf` | pass | With autoconf as the only writer nothing is lost: `QuiescentIsLive` (idle and no flag: the instances run what the database holds), `JobsFollowChanges` (the jobs saw what is deployed), `Converges`; also `TypeOK` |
| `change_any` | pass | `PolledChangeDeployed`: with all writers, SIGHUP, restarts and a failing generator, what a poll saw is deployed when the next poll begins, and a start takes back only plugins, and custom configs that were not yet written; `ImplementsDelivery`: so the system implements `ChangeDelivery`; `FlagsLowered`: no flag stays up for ever, so nobody waits for ever |
| `change_api` | violation | `QuiescentIsLive` fails for writers that do not wait: a save in the middle of a pass loses its flag |
| `deploy_refused` | pass | Two instances, configurations that nginx refuses, copies of the backup that fail: `SnapshotWorks` (a complete snapshot is accepted by nginx), `FailoverRestores` (a failed pass ends with it running everywhere), `HealthyListed`, `TypeOK` |
| `deploy_returns` | pass | `HealthyAgain`: an instance that stays reachable is listed and out of its loading configuration again and again, though uploads and the generator may fail |
| `deploy_healthy` | violation | `HealthyListed` fails: the health check of a loading instance unlists the others |
| `deploy_custom` | violation | `SnapshotWorks` fails: a refused custom config gets into the failover configuration |
| `jobs_batch` | pass | `BatchVerdict` (the verdict on a batch is right although the threads race), `BatchServed` (success means delivered), `TypeOK` |
| `jobs_reload` | violation | `CacheReaches` fails: results of inline runs are never delivered |
| `run_av` | pass | `Accounting` (the buffer is never overrun), `AnswerFollowsReports` (no file accepted that was reported), `Answers` (outputs that fit are answered); `ConfOwnValue`, `SweepKeeps` (the library returns what its callers mean, as far as it does); `EntriesWhole`, `LogEnds` (the log); `TypeOK` |
| `bad_behavior` | pass | `UnbansPropagate` (a copied ban ends within `CacheTTL` of its removal), `NoOvercount` and `BansJustified` (counters never run ahead of the requests behind them, while no call failed and no dictionary was full), `LoopsInBounds` (the timer never pops from an empty list), `Fades` (a client that stops is forgotten), `CountTypeOK` |
| `instance_lua` | pass | `Installed` (a successful upload that ran alone is what is there, whatever earlier ones left behind), `NothingLost` (a failed one loses no file), `RateHeld`, `GlobalHeld` (no more than the rate passes), `LimitedFairly` (nobody is limited without enough requests), `TypeOK`, `LimitTypeOK` |

The violations are behaviours of the code; `PROJECT.json` quotes the text of the
repository that each one contradicts. TLC's trace is the scenario.

Each property of a passing run has a mutant in `PROJECT.json`: a definition with a
plausible bug (declared just before the definition it replaces) under which TLC
finds the property violated.

### What else the models show

With `SlowBackup = TRUE` and refused configurations, `SnapshotWorks` fails in a
second way: `BACKING_UP_FAILOVER` is set only inside the backup thread
(`main.py:694`), so a pass may begin between the submission (`main.py:1244`) and
that moment and write files that the backup then copies. With database errors
(`HealthError`), `HealthyAgain` fails: an exception of `get_instances`
(`main.py:564`) leaves `HEALTHCHECK_EVENT` set. With `gen` in `Faults` it fails in a third:
after a failover the refused files are still on the scheduler's disk; when the generator
fails in the next pass the old ones are sent and reload well, and the refused ones are backed
up (`main.py:1109`). With `upload` in a fourth: when every upload fails no instance is left
in the list, the reload is skipped and counts as a success, and what nobody has tested is
backed up. Without the test
(`Tested = FALSE`) every configuration is backed up. All can be seen by
changing one constant of `DeployRefused.cfg` or `DeployReturns.cfg`.

A stop of the scheduler between a poll and the writing of custom configs reverts a change
made in the UI or by the API: at the next start the older files on its disk are stored over
it (`undone` in `ChangeTracking`). `docs/concepts.md:145` promises persistence of what is
stored in the database; `PolledChangeDeployed` says how much of it holds.

The properties of the other modules carry conditions; each stands for something the
code does not give.

- *Uploads.* Two uploads of a kind that overlap (the scheduler gives up after 10 s and
  sends again) share every temporary name: an upload may answer 200 and leave an empty
  or mixed destination. When old files are copied back the new ones stay; if it is the
  backup that cannot be removed, old files are copied over new ones.
- *Bans.* A global unban removes from Redis the service bans it finds in the local
  dictionary (`utils.lua:1115`); one that only Redis knows survives. An unban leaves the
  counter, so the next bad request may ban again. The script of `redis_increase` bans in
  Redis whatever the security mode or the whitelist say. Without a connection to Redis
  `is_banned` is nil even for a local ban, also in the log phase, where the comment
  (`badbehavior.lua:61`) expects a local hit. A decrease that fails in Redis leaves the
  counter there too high until it expires.
- *Limit.* Without Redis two workers lose each other's updates, and more than the rate
  passes. Copies of Redis answers are stored with an undefined time (`limit.lua:291`)
  and never expire. A client that stays above its rate stays limited: the limited
  request is written down too. A dictionary error lets the request pass.
- *RunAV.* An output that fills the buffer to the last character makes `run_cmd` turn
  for ever on `fgets(line, 1, fp)`; the loop meant to drain the pipe is never reached. A
  scanner that cannot be run, or writes nothing, accepts the file. `MODSEC_RPC` and
  `MODSEC_PROXY` take the value of a longer name if that line comes first. One sweep of
  the block list steps over the entry after a removed one. A lock on stderr excludes
  nobody.

## Fairness

- `ChangeTracking`: weak fairness of the scheduler's main thread (a loop without
  blocking waits; its requests have timeouts) and of a `Config.apply` that has begun.
  Writers need not act, nor does the process restart.
- `Deployment`: weak fairness of the main thread (`run_pending` in the poll loop runs
  the health check, which is periodic), of the backup and of each sender: threads of
  a pool that is never full (three senders at a time). Changes and faults are not fair.
- `JobScheduler`: weak fairness of the poll loop and of each job thread. Jobs are
  assumed to end. `Due` and `RunOnce` are not fair.
- `BadBehavior`: weak fairness of the timer of each instance (rescheduled every 5 s,
  `init-worker-lua.conf:186`), of a request and of an API call that have begun (calls to
  Redis return or time out), and of time. Requests and orders need not come.
- `RunAV`: weak fairness of the scanner, which ends, and of `main`. `RpcLog`: strong
  fairness of each process, because `flock` serves those who wait; a process may be
  killed at any time.
- `Uploads`, `Limit`, `Bans`, `RpcConf`, `RpcBlocklist`: none; their properties
  are safety properties.

## What is proved

TLAPS checks the following for every value of the constants that the named assumptions
allow (`ChangeTrackingAssumption`, `DeploymentAssumption`, `JobSchedulerAssumption`,
`RunAVAssumption`, `SourcesAssumption`, `CountingAssumption` and the others of `Bans`,
`LimitAssumption`, `LogAssumption`, `ConfAssumption`, `BlocklistAssumption`: the sets
are of the right kind, requests are finitely many, sizes and periods positive, and
"none", no holder of the lock, is no process; TLC evaluates them too).

Type correctness is proved for all modules with steps: `TypeCorrect`, `DeploymentTyped`,
`SchedulerTyped`, `UploadsTyped`, `BansTyped`, `CountTyped`, `ScanTyped`, `LimitTyped`, and
`LogHolds` for `RpcLog`; in the rest of the library it is a part of the invariants. Two
of these need more than types: the index of a thread of `Deployment` stays within the
list, and a list of `Limit` has `RateMax + 1` entries at most.

### Change tracking

- `PolledDeployed` (`Spec => []PolledChangeDeployed`). The property speaks of the moment
  of a poll only, so it is not inductive; `PollInv` says for every place `pc` of a pass
  why a change is not forgotten (`Owing`): it is deployed, or on the scheduler's disk
  and about to be sent, or its kind is in `need` and is read later in this pass
  (`UpTo(a)`: the places from which area `a` is still read), or settings wait for a
  generator that failed. What a start may take back needs `LossInv`: custom configs that a
  poll saw and that are not on disk are about to be written in this pass, or `cut` says that
  a stop kept them from it. Steps are grouped: writers only let the database grow
  (`WritersKeepPollInv`), reading steps move an area from "to be read" to "on disk"
  (`ReadKeepsPollInv`), and the rest one by one.
- `Implements` (`Spec => ImplementsDelivery`): by `TypeOK`, `PollInv` and `LossInv`, every step
  maps to a step of `ChangeDelivery` or to a stutter. `PollInv` makes `Complete` possible
  when a pass ends without a failure: nothing accepted is missing on the instances.
- `NoLostChange` and `NoLostRun` (`QuiescentIsLive`, `JobsFollowChanges`) hold where autoconf
  writes alone: the hypothesis `OnlyAutoconf`. Each of its parts is needed, which TLC shows by
  a counterexample when it is left out: other writers, a second controller, jobs that
  store settings, SIGHUP, removals, failing saves and generators, a start or a restart
  lose a change or a run. `AloneInv` is `Apart` (a save finds no flag and no pass, and no
  pass begins before its flags are up), `Settled` (between passes whatever is not flagged
  is deployed), `Asked` (a pass was asked for all that is flagged) and `Caught` (it reads
  it and runs its jobs).

### Deployment

- `SnapshotStaysGood` and `FailoverEnds` (`SnapshotWorks`, `FailoverRestores`) need
  `OnlyConfsRefused`: instances stay up and uploads to them do not fail, configurations are
  tested, no custom config is refused (`deploy_custom` shows why), the generator does not
  fail, and backups end before the next change; "What else the models show" has the
  counterexamples. Copies of the backup may fail. `ListedInv`: the list is that of the
  database, nobody is loading, all that is sent arrives. `SteadyInv` is
  `ThreadsFollow` (no thread raises; while a failover is sent each thread leaves its part
  of the snapshot on every instance), `BackupInv` (what is backed up, and what was, is
  accepted by nginx), `PassInv` (a pass succeeds only when an instance accepted its
  configuration) and `RestoredInv`.

### Jobs

- `BatchVerdictHolds` (`Spec => []BatchVerdict`). While threads run,
  `BatchInv` says of each how far it has got: a job that failed and is done has
  lowered `__job_success` or found it lowered, `__failed_jobs` is empty exactly when
  it was not lowered, and names only jobs of the batch that ran and failed.
- `BatchesServed` (`Spec => BatchServed`): `ReloadRaised` says that when a job of the batch is
  done and asked for a reload, the flag is up, so the answer True comes after a delivery.

### Instances

- `InstalledAlone` (`Spec => Installed`, Uploads). The property speaks of one step; the
  invariant `Progress` says what an upload that is alone so far has achieved at each of
  its commands: the temporary file is its own, then the staging directory holds its
  archive and nothing else, then the destination is empty, then it is the archive.
  Another upload that begins ends `alone`; one that was in progress when it began has
  ended it before.
- `FailsSafely` (`Spec => NothingLost`): `AllSafe` says of each command of an upload that is
  alone and had one failure at most where every old file is: still in the destination,
  or in a backup that is whole (`Saved`: one that is not is the failure, and then nothing
  else fails).
- `Propagates` (`Spec => []UnbansPropagate`, Bans). Between the answer of Redis and the
  write to the dictionary the ban may go, so the invariant says more of a time taken from
  Redis: it is at most `CacheTTL`, and Redis keeps the ban at least as long or `grace`
  does (`Backed`). That holds of what is in a dictionary and not the instance's own
  (`CachedBacked`) and of an answer not yet written (`AnswersBacked`); a lookup's keys are
  a service's and the global one (`LookupKeys`).
- `CountingSafe` (`CountSpec => [](CountTypeOK /\ LoopsInBounds)`, BadBehavior): the
  workers only push, so what the timer has left to pop stays within the list.
- `UsesBans` (`CountSpec => Spec`): bad behavior implements the specification of bans.
  Hence `CountedPropagates`: the promise on unbans holds for the composed system without
  being proved again.
- `NeverOvercounts`, `BansAreJustified` (`NoOvercount`, `BansJustified`). `Covered`: every
  counter has as many decreases in the lists (of all instances, for Redis); what was
  counted in this run of the timer is what its last loop looks at (`SeenLater`), and
  behind what the first loop has still to look at nothing is due (`FreshBehind`), so that
  the requests which justify a ban are recent. The lemmas count places in lists through
  appending, popping and putting back.
- `RateKept` (`RateHeld`, Limit). A list is not a history: entries are dropped, lists expire,
  and a full list is not written to. `Remembered` says of an exact store that it has an
  entry for everybody it let pass within the delay and that its list does not expire
  sooner; `Owners` that whoever is in a list was written down, at that second, so that a
  request is never in the list before it passes (otherwise the code would not write).
  When one passes, all who passed within the delay are in a list of at most `RateMax`
  entries, which bounds them (`Bounded`). An exact store is Redis, or the dictionary of a
  single worker, for which `Serial` says that nobody comes between reading and writing.
- `GlobalRate` (`GlobalHeld`): whoever was let through has been counted (`AllCounted`), and a
  period shorter than the delay meets two windows (`TwoWindows`). The run, with four requests,
  reaches the bound of one window only; that of two is had from the theorem.
- `NobodyWronged` (`Spec => LimitedFairly`): for any number of workers. Everybody in a list has
  an entry of his own of each store (`Owners`), and who has two was tried again after a
  failure of Redis (`Sources`): lists are no longer than the requests made and the
  mishaps together (`ListBounded`).

### AV scanning

- `RunCmdAccounts` (`Spec => []Accounting`, RunAV) and `OutputFits`: what is used of the
  buffer and what is left add up to its size, and one character is always left, because
  `fgets` returns at most one less than what it is given.
- `AnswersReports` (`Spec => []AnswerFollowsReports`). `Marked`: each report left its keyword
  behind a colon in what was read or is still in the pipe, however reads cut it; `Honest`:
  a scanner that was not killed wrote FOUND or ERROR only in a report of it;
  `Control`: the answer is given when all was read.
- `LogWhole` (`Spec => []EntriesWhole`, RpcLog). The holder of the lock is the process within
  an entry (`Holding`); before its entry nothing of it is in the log (`Fresh`), within it
  nothing follows but the entry (`Together`).
- `ConfHolds` (`ConfSpec => []ConfOwnValue`, RpcConf). What the array holds is the lines of
  the file that are name=value, in order and as far as there is room; the first of them
  whose name contains a setting's own is what `find_param_idx` returns
  (`FindParamIsFirst`, by a least number).
- `SweepHolds` (`BlocklistSpec => []SweepKeeps`, RpcBlocklist). `Left` says from which places of
  the list the entries left are, and that those the sweep has not reached have moved up by
  the number of the removed ones; `Swept`, what it has seen when it has removed none.

### What is only model-checked

Liveness (`Converges`, `FlagsLowered`, `HealthyAgain`, `CacheReaches`, `Fades`, `Answers`,
`LogEnds`) is out of the prover's reach, as is `ENABLED`. `HealthyListed` is only checked, in
the run without restarts: it is false with them. Every other invariant and every action
property that a passing run checks is a theorem; those with a hypothesis (`NoLostChange`,
`NoLostRun`, `SnapshotStaysGood`, `FailoverEnds`) are proved for fewer
constants than the code allows, because for the others they are false, and the
violations listed above show it.

Induction over data is out of reach too (the rules of the library take an operator as a
parameter). Where a proof needed it, the code's own loop became the steps of the model:
what a loop computes for any input is then an invariant of its rounds. Least elements are had
without induction (`LeastNatural`, `FirstIs`, from the well-foundedness of the numbers).

## Plan

Done: change tracking and its abstract specification, deployment, the job scheduler,
bans and bad behavior, limits, uploads, the AV helper. Left, in order of importance:

1. Autoconf controllers: events, debouncing, lock, read-only database; composed with
   the autoconf part of `ChangeTracking`.
2. Read-only mode of the scheduler (`main.py:1368`) and of autoconf; the schedule of jobs
   with periods (postponed by reloads, `JobScheduler.py:567`); records of runs.
3. The job cache (`common/utils/jobs.py`) between database and disk.
4. `update_external_plugins` as several transactions (`Database.py:4478`); custom configs
   after a failover (`main.py:1414`).
5. Proofs: `QuiescentIsLive` when one writer waits for the flags (its conditions are other
   than those of `OnlyAutoconf`); `SnapshotWorks` with backups that overlap passes in which
   nothing is refused.

## Not modelled

- The generator (pure and large), the CLI, UI pages, single jobs and plugins, vendored
  code: no state shared with the modelled parts, or third-party code.
- Metrics, log throttling, sessions and the other helpers of `utils.lua`; the dictionary
  of the stream subsystem, which is written and cleared together with that of HTTP;
  eviction from a full dictionary.
- The choice of a limit by the regular expressions of URIs, and loading settings.
- `parse_query`, `parse_query_and_body`, `is_proxy_up`, `parse_cli`, `send_request`,
  `change_file` and `copy_file` of the AV helper's library: the helper calls none of them.
- Hidden files in the destination of an upload, which the handler leaves in place.

## Running

    tlc -workers 2 -config ChangeAutoconf.cfg MCChangeTracking.tla
    tlapm JobScheduler_proofs.tla

No run takes much longer than two minutes (`bad_behavior`, `deploy_returns`, `instance_lua`
and `change_any` are the largest, with up to 530 000 states).
