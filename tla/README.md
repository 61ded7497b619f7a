# Verification of hubfly-builder

TLA+ models of the build service, checked with TLC and proved with TLAPS. The
modules are translated from the Go code under `internal/` and `cmd/` and from
the update scripts under `scripts/`; `PROJECT.json` maps every definition to the
lines it models and lists the runs, the mutants, the hazards and the theorems.

## The system

A client submits a build job over HTTP. The job is stored in SQLite. One
dispatcher goroutine takes pending jobs, at most one per user and
`MAX_CONCURRENT_BUILDS` in all, and starts a worker goroutine for each. The
worker fetches the source, chooses or generates a Dockerfile, runs `hubcell`,
stores the verdict and reports it to the backend by a callback with retries.
While a build is going on the manager keeps a lockfile that the update scripts
wait for.

| component | state | operations | interacts with |
|---|---|---|---|
| job store (`storage/sqlite.go`) | table `build_jobs`, on disk | insert, one UPDATE per attribute, pending query, reset at boot, delete all | every goroutine, without locks: one statement at a time |
| manager (`executor/manager.go`) | `activeBuilds`, `activeUsers` under a mutex; one-place signal channel; lockfile | ticker and signal to `tryToDispatchJob`; `handleFailedJob`; deferred release | store, workers, handlers (signal), installer (lockfile) |
| worker (`executor/worker.go`) | the job, its context with a deadline, log file, workspace | `Run`: source, Dockerfile, build, verdict | store, callback client, child processes |
| callback client (`api/client.go`) | none | `ReportResult`: six attempts with back-off | backend |
| HTTP server (`server/server.go`) | none of its own | create (two endpoints), read, cancel, reset, logs, running builds | store, manager |
| boot (`cmd/hubfly-builder/server.go`) | configuration | reset of interrupted jobs, manager, server, hourly log clean-up | all |
| update scripts (`scripts/install.sh`, `deploy.sh`) | progress of the script, the binary | wait for the lockfile, stop, replace, start | lockfile, systemd |
| env plan, Dockerfile parameters (`envplan`, `dockerfileparams`) | none; the Dockerfile in the workspace | `ResolveForPaths`, `Stage` | worker, create handler |
| detection and Dockerfile generation (`autodetect`) | none | `AutoDetectBuildConfig`, `FinalizeBuildConfig`, one renderer per runtime | worker, create handler, allowlist |
| log files (`logs/logmanager.go`) | the log directory | create, read, hourly cleanup | workers, log handlers, the process's own log |
| hubcell driver (`driver/hubcell.go`) | none | the command line `sudo hubcell ...` | worker |
| archive source, source guard, offline analyser | none or files | pure or sequential functions | worker, handlers |

What is hard in it:

- The dispatcher gives the mutex back between noting who is busy, querying the
  table, and taking the slot; workers release their slots in between.
- No statement is in a transaction with another. A new row is stamped first and
  inserted later, a cancellation is a read and a later write, and requests are served
  at once; a worker overwrites whatever it finds.
- A verdict is stored first and reported afterwards, and the process may die
  between the two, or between an attempt that was received and its answer.
- Errors of some statements are dropped, of others returned.
- The lockfile and the table outlive the process; the active sets do not.
- The installer looks at the lockfile and acts later, and any of its commands may
  fail; the service as packaged may not write that lockfile.
- The worker stores what it decided in the configuration it starts from, and a job
  is run again after a crash, perhaps on another head of the branch.
- A plan is put together by a dozen detectors and written by seven renderers, each
  of which assumes what the others have installed, copied or built; and a plan that
  was stored is planned again, by other code.
- The cleanup looks at a log and removes it later, while builds write theirs and
  requests read a path from one place and the file from another.
- A command's output is copied by goroutines that stop at a long line, and whose
  pipes are closed when the command is gone; the deadline races with its exit, and its
  kill does not reach a command that runs as root.

## Modules

| module | models |
|---|---|
| `BuildSlots` | what the service promises of its builds (abstract specification) |
| `BuildService` | job store, manager, worker, callback, handlers, death and boot |
| `BuildServiceInv` | the inductive invariant of `BuildService` |
| `BuildServiceProofs` | theorems: types, safety, refinement of `BuildSlots`, truths about the table |
| `SafeUpdate` | an update script and systemd beside `BuildService` |
| `SafeUpdateProofs` | theorems |
| `CommandRunner` | the commands of one build: pipes, log, deadline |
| `CommandRunnerProofs` | theorems |
| `JobBuild` | what one job builds: inspection, Dockerfile, context, environment |
| `JobBuildInv`, `JobBuildProofs` | the inductive invariant of `JobBuild`; theorems |
| `BuildPlan` | facts about a repository, commands, the record of a plan, its runtime |
| `JavaScriptPlan`, `ServerPlan` | plans of Node and Bun projects, and of all others |
| `Container` | outside the repository: what images hold, what commands need and make |
| `ImageBuild` | plan, Dockerfile, and its execution line by line; composes the four above |
| `ImageLimits` | the properties of `ImageBuild`, with the known limits; its inductive invariant |
| `SequenceLemmas` | what `Keep`, `FirstName` and `MergeUnique` return, by induction |
| `PlanProofs` | theorems about plans made, stored and made again, for each runtime |
| `ImageBuildProofs` | theorems about Dockerfiles and the service around them |
| `LogRetention` | the log directory: builds, requests, cleanup, restarts |
| `LogRetentionProofs` | theorems |
| `MCBuildService`, `MCSafeUpdate`, `MCCommandRunner`, `MCJobBuild`, `MCImageBuild`, `MCLogRetention` | values for TLC |

### BuildService

A step is one SQL statement, one section under the manager's mutex, or one
attempt of a callback. `row` is the table (one record per id, status `absent`
when there is none); `activeBuilds`, `activeUsers`, `newJobSignal` are the
manager's fields; `dispatcher` is the goroutine of `Manager.Start` with the
local variables of `tryToDispatchJob`; `worker[g]` is a worker goroutine with the
job and user its closure captured; `handler[h]` is a request between its two steps:
a create request with the row it has stamped, or a cancel request that has read the
status. Three variables are history: `heard[j]`, the verdicts the backend has received;
`unsaved[j]`, which writes of the job's last build have failed; `dispatcher.seen`, the
rows that were there when the dispatcher queried the table.

| code | action |
|---|---|
| `CreateJobHandler`, `CreateBuildV1Handler`: `storage.CreateJob` takes the time, then inserts | `CreateJob`, `CreateBuildV1` (both `Stamp`), `InsertRow` |
| `CancelBuildV1Handler`: read, then write | `CancelCheck`, `CancelWrite` |
| `ResetDatabaseHandler` | same name |
| `Start`'s select | `Tick`, `ReceiveSignal`, both `TryToDispatchJob` |
| rest of `tryToDispatchJob` | `QueryPending`, `RegisterJob`, `Claim`, `ClaimFails`, `UnregisterJob` |
| `Worker.Run` | `OpenLog`, `MarkBuilding`, `RunBuild`, `StoreImageTag` |
| `failJob`, `succeedJob` | `Finish`, then `ReportResult` per attempt |
| `handleFailedJob` | `RereadJob`, `CountRetry`, `Requeue` |
| deferred release | `ReleaseSlot` |
| `runServer` | `OpenDatabase` (reset), `NewManager` (clears the lockfile) |
| the process dies | `Crash` (also a stop: nothing drains on SIGTERM) |

Abstractions: `created_at` is the order of the stamps, by a clock that does not go
back. Between `claimed` and
the verdict only the steps that write the table are kept; fetching, detection and
the build are `RunBuild`, which succeeds or fails. A statement that fails leaves
the table as it was. The identities in `Goroutines` and `Handlers` bound how many
goroutines exist at once; every run that checks the limit has more of them than
the limit. The branch of `tryToDispatchJob` for a blank user is not modelled: the
query never returns such a row.

### SafeUpdate

`installer` is the place in the script, or how it ended; `found` whether install.sh has
found the service active; `stopped` whether systemd has been told to stop the service;
`binary` and `process` are the binary on disk and the one running. systemd starts a
dead service that was not stopped (`Restart=always`). A command that fails ends a
script where it is (`set -e`): `ReplaceFails` and `StartFails`.

| code | action |
|---|---|
| `systemctl is-active` (install.sh), the loop on the lockfile | `CheckActive`, `SeeNoLockfile` |
| `systemctl stop` (install.sh) | `StopService` |
| binary, unit, sudoers file and its check | `ReplaceBinary`, `ReplaceFails` |
| `enable`, then `start` (install.sh) or `restart` (deploy.sh) | `StartService`, `StartFails`, `RestartFails` |
| deploy.sh's rollback | `RestoreBinary`, `RestartOld` |
| systemd | `StartProcess` |

The last lines of both scripts only report whether the service is active and are left
out. deploy.sh is taken to have found a binary to back up; it works on one server after
the other, which is one instance of the model each.

### CommandRunner

This is the inside of `BuildService`'s `RunBuild`: git and hubcell, one after the
other, under one context. `step` is the command, `pc` the place in
`executeCommandWithLogging`; `child` and `todo` are the process and what it has
yet to write; `pipe` holds what nobody has read, `buf` what a Scanner has read
and not returned, `logged` what is in the log. The child, the pipes and `os/exec`
are outside the repository and modelled by what they do.

| code | action |
|---|---|
| pipes, readers, `cmd.Start` | `Start`, `StartFails` |
| `cmd.Wait`, which closes the pipes; `wg.Wait` | `WaitReturns`, `CollectReaders` |
| `failForStep` or the next command | `CheckResult` |
| `context.WithTimeout`, `CommandContext`; `sudo` in `HubcellBuildCommandContext` | `Expire`, `Kill`; `KillRefused` |
| `streamPipe` | `Read`, `LogLine`, `EndOfPipe` for each pipe |
| the process | `ChildWrites`, `ChildExits` |

A line is `short`, or `long` if it does not fit the Scanner's buffer; a pipe has
room for `PipeCapacity` lines. Of a long line a read takes a part, the rest counts
as one line of the pipe. A command that fails by itself as the deadline passes is
reported as a timeout, as in the code. `Sudo` holds the commands that are run by root
through `sudo`: hubcell always is, and the service is not root, so the signal at the
deadline is refused (EPERM), `os/exec` does not send it again, and `Wait` goes on
waiting for the command. A child is assumed to leave no process behind that holds its
pipes open. The calls of `git rev-parse` whose errors `Run` ignores (worker.go:125,
163) are not modelled.

### JobBuild

One job from its submission to what hubcell is given, over several attempts.
`repo` is the head of the repository, which the owner may move once; `job` what
was submitted, `row` the stored configuration, `cfg` the worker's copy of it,
`clone` its workspace, `chosen` the Dockerfile's directory and the context,
`built` what hubcell got at each attempt. The queue and the verdicts are in
`BuildService`, the commands in `CommandRunner`: this is a third view of the
worker, of the decisions that `RunBuild` stands for.

| code | definition |
|---|---|
| `CreateJobHandler`: clone, inspect, store | `Submit`, `InspectionPasses`, `Inspected` |
| `Run`: fetching | `TakeJob` |
| custom Dockerfile, else the repository's, else a plan | `ChooseCustom`, `ChooseDockerfile`, `ChoosePlan`, `ChooseFails` |
| `envplan.ResolveForPaths` and the write of its result | `ResolveEnv`, `Resolve` |
| parameters, audit, write | `StageDockerfile`, `StagedFile`, `DockerfileFails` |
| second detection, generated Dockerfile, write | `GenerateDockerfile` |
| `buildImageWithHubcell`, then the verdict | `Hubcell`, `Finish` |

A Dockerfile is who wrote it, the keys it declares as `ARG`, the keys it else
mentions, whether the audit rejects it, and the parameters injected into it. A
repository is its Dockerfiles, the keys its configuration files name, whether it
is a JavaScript monorepo and whether a runtime is detected. Phases and the runtime
are abstracted to their presence, so the run says nothing of the commands of a
second attempt, which start from those the first one has stored. A plan that fails
for want of a run command counts as nothing detected. Directories exist on every
head; a missing one fails the attempt as a failed fetch does. Keys are upper
case and trimmed. A write of the configuration that fails is only logged, as in
the code. A failed fetch ends an attempt before it decides anything and is left
to `BuildService`.

### ImageBuild

From a repository to a running container. A `project` is a set of facts about its
root and about the application's directory: files, packages and scripts of the
manifest, settings of a framework. `plan` is the `buildPlan`; `lines` the Dockerfile
as a sequence of FROM, COPY, COPY --from, apt, RUN and start lines, without layout;
`stages` the tools and files that each stage has by now. A crash plans the job again
from the configuration in the row.

| code | definition |
|---|---|
| `DetectRuntimeWithContext`, `detectBuildPlan` | `DetectRuntime`, `Detect`, `DetectJavaScript`, `DetectServer` |
| `manualBuildPlanFromConfig` and what it calls | `Finalize`, `ManualJavaScript`, `ManualServer` |
| `buildConfigFromPlan` | `ConfigOf` |
| `validateBuildPlanCommands` | `Validate` |
| `generateDockerfileForPlan`, `render...Dockerfile` | `Dockerfile`, one operator per renderer |
| `Worker.Run`'s planning, `generateDockerfile` | `Generate`, `Refuse` |
| `docker build`, `docker run` | `Step`, `FailStep`, `StartContainer` |

A command is a tool, what it does, and the directory it changes to and looks into.
The commands are the ones the detectors generate; of scripts that run in production
there are two. Versions, ports, variables, libraries from apt and cache clean-ups are
left out, and so is `renderSingleStageDockerfile`, which `renderApplicationDockerfile`
reaches for PHP only, and PHP has a renderer of its own. A submitted configuration is
what the inspection has found, whole or in part, with or without commands added; the
handlers do not check it against the allowlist. Blank commands, which are neither
merged nor rendered, are not part of a submission. A submitted static site that
is not JavaScript is refused, by the model as by the code, if it has build phases.
Filtering and merging of commands are recursive functions over the sequences
(`Keep`, `MergeUnique`), so that theorems can be proved about them. `RuntimeTable` and
the commands of a runtime cover every file the detectors look for, with these
exceptions: PHP frameworks that are known by `composer.json` only, or that have files
of their own (`spark`, `bin/cake`, `wp-config.php`), and Composer's build scripts; the
`src/` variants of Python's modules and `api.py`; one ASGI framework, `fastapi`,
stands for all.
`Validate` refuses a plan for any of its commands, as the code does, but only a
script named `web:build`, of the commands a detector can generate, is not in the
default list: as a build script, or among the setup commands of a PHP project's
assets.

`Container` holds the assumptions about what is outside: npm ci needs a lock file
beside the manifest and fails if it belongs to another one, which tool is in which
base image, that Corepack has to be enabled per image, where a workspace's
packages and commands are installed, which file each build tool makes, that a shell
goes on after a failed `cd`. A project's own code is taken to work, so a failure in
the run is always a file or a tool that a line of the Dockerfile needs and the lines
before have not provided. `ImageLimits` names each repository for which that
happens; `KnownFailures` and `KnownStops` say that, of what `Container` says commands
need, there are no others and that these are real. (What `Container` does not know,
such as versions that do not fit, they say nothing of.) Some of them:

| limit | code |
|---|---|
| the manifests of a workspace land in one directory, the lock file is another's | javascript.go:463, dockerfile.go:318 |
| sharp is added before the application's directory is copied; in the last stage pnpm is not enabled | dockerfile.go:329, 386 |
| pnpm is enabled in the builder only, and the container starts with `pnpm start` | dockerfile.go:378 |
| init and run command both change to the application's directory | dockerfile.go:1140 |
| every Rust Dockerfile copies `recipe.json`, which cargo-chef's plans alone make | dockerfile.go:249 |
| submitted Go and .NET plans copy no manifests, submitted Java plans get the image without Maven or Gradle | buildconfig_support.go:271 |
| Distillery's run command starts with Mix, in an image without it | dockerfile.go:184 |
| Elixir projects with packages from Hex, unless Distillery's plan installs it; and Hex is not in the last stage, where `mix run` and `mix phx.server` need it | autodetect.go:97, dockerfile.go:385 |
| `pipenv install --deploy` of a `Pipfile` without its lock file | autodetect.go:489 |
| a PHP project's `artisan` or `bin/console` without `composer.json`: nothing is installed to run it with | php.go:144, 182 |

### LogRetention

`files` is the log directory: for each name the second it was last written and whose
lines it holds. `row[j]` is the path in the job's row, `build[j]` the worker, `current`
the log of the process, `cleaner` the cleanup's goroutine with the names it has yet to
look at and the one it is about to remove, `reader[r]` a request between its two
reads.

| code | action |
|---|---|
| `CreateLogFile` in `Run`; `UpdateJobLogPath` | `OpenLog`; `StorePath`, `StorePathFails` |
| `w.log`; the end of a build | `Log`; `Finish` |
| `GetJobLogsHandler`, `GetBuildLogsV1Handler`: row, then file | `AskForLog`, `ReadLog` |
| `Cleanup`: first line and `ReadDir`; per file | `Cleanup`; `PassOver`, `Condemn`, then `Remove` or `RemoveFails` |
| `CreateSystemLogFile` at boot | `Init`, `Restart` |

One unit of time stands for the second of a log's name and for as much of the
retention as the instance needs. `Limits` are the timeouts with the time a build's
end takes; a cleanup takes at most `PassTime`, no longer than the retention (a day at
least: `mergeEnvConfig` and the environment ignore anything below 1). A build whose
timeout is longer than the retention and that is silent for as long does lose its log,
hence the premise of `RunningLogKept`. A path a client submitted in `logPath`, a
database reset and other files in the directory are not modelled.

## Runs

| run | instance | shows |
|---|---|---|
| `core` | 2 jobs, 2 users, 2 slots, 2 requests served at once, 3 stamps, 1 crash, 1 database reset | lockfile, rows and workers agree; a user's jobs one after the other, and in the order of their stamps; a canceled queued job stays canceled |
| `faults` | 2 jobs, 1 slot and 2 goroutines, failing statements, 2 callback attempts, a retry (`retryCount` -1), 1 crash | the inductive invariant (`TruthInv`), the limit, agreement with the backend, refinement of `BuildSlots` |
| `liveness` | 1 slot, 1 crash, a retry, a cancellation; fairness | pending jobs settle, the lockfile goes |
| `commands` | 2 commands, the second by root, 2 pipes of 2 lines, up to 3 lines with at most one long; fairness | no holes in the log, a kill is a timeout, the build ends unless its kill is refused |
| `plan` | 6 repositories, 4 directories, 5 keys, automatic, custom and submitted configurations, 1 move of the head, 2 crashes | the inductive invariant (`JobInv`); attempts on one head build the same; handler and worker agree; contexts hold the working directory; secrets are no build arguments |
| `image` | every repository of its families (managers, lock files and layouts; frameworks and their settings; Prisma and Playwright; every other runtime with the files it is known by), 87,000 states, automatic or submitted in four ways, 1 crash | the inductive invariant (`ImageInv`); builds fail and containers stop only for the listed limits, and then always; no command is lost; what is submitted as found, or planned again, is the same image but for the listed runtimes |
| `retention` | 2 jobs, 2 builds, timeouts below and above the retention, 1 request, 1 restart, 3 seconds | logs in use stay, are the job's own, and what is gone is old; a failed removal spares no other file |
| `update` | either script, its commands may fail, a service that may write the lockfile, 2 jobs, 1 crash; fairness | the inductive invariant (`UpdateInv`); the script ends; the wait ends at a moment without builds; the right binary runs |

Bounds. Two jobs of one user are what exclusion and order need; two requests at once and
two slots let one be stamped, another be stamped, inserted and taken, and the first be
inserted behind the dispatcher's back; the third stamp lets an id come again after a
request that was refused; a second crash would start from states a first one already leads
to (memory is lost, and the rows it leaves are reached without it); a second attempt of a
callback is where a lost answer and a given-up callback differ. Three lines, of which one
is long, fill a pipe of two behind a reader that has stopped, so a child blocks; a second
command shows what the first one leaves behind. Three attempts, with the head moved among
them, are what it takes for one attempt to mislead the next, and the one after it. In
`image` a family holds all combinations of the files, packages and scripts that its
detectors ask for together, and several families vary those of one runtime that are asked
for apart; two directories are all a plan tells apart; one crash, since the second plan
starts from the row that every later one starts from. In `retention` two builds are a
build and its retry, or two jobs in one second; with a retention of 1, three seconds hold
a log's birth, its age and a retry after it. In `plan` the repositories have no
Dockerfile, one at the root, one in the working directory, or both; the keys are one of
each class that `envplan` tells apart. `MaxPosts` (the stamps), `MaxCrashes` and
`MaxResets` count only in the guards that name them. Deadlock is not checked in `commands`
and `log`, where a build is over or a refused kill leaves it waiting, in `update` and
`interrupt`, where a script that fails can leave the service stopped for good, and in
`plan` and `params`, where the attempts of a job come to an end.

Violations, each a documented claim the code does not keep:

| run | claim | what happens |
|---|---|---|
| `cancel` | README.md:337, canceled = "manually terminated" | the worker or the claim overwrites `canceled` |
| `params` | README.md:210, values of `dockerfileEnv` are in the image | the keys are injected, their values never reach hubcell |
| `log` | README.md:286, logs are the raw text of the build | `Wait` closes a pipe before it is read out, or a long line ends the reader |
| `interrupt` | README.md:393, the installer waits for running builds | as packaged the service may not write the lockfile, so that there is nothing to wait for (install.sh:29, manager.go:193) |

Seen while modelling and not made a run: README.md:64 documents `MAX_CONCURRENT_BUILDS` as
the worker limit, but `activeBuilds` is keyed by job id, so if the database is reset under
a running build and its id is submitted again by another user, two workers share an entry,
the first to end removes it, and one build too many may start (why `LimitHolds` assumes
`~ReuseIds`); README.md:314 says that the list of running builds holds jobs that are
claimed or building, but it lists `activeBuilds`, which a job leaves only when its
callback is through; a submitted configuration may name a context that does not hold the
working directory, which only Dockerfile builds refuse; README.md:190 says that keys with
build evidence become `build`, but those of `isRuntimePreferred` become `both`; the worker
resolves the environment before it injects parameters and the handler after, so that the
plan shown at creation may differ from the one built with (worker.go:257, server.go:243);
where the lockfile can be written a job may still be claimed between the installer's last
look and its stop of the service (install.sh:164-169), against README.md:393; a hubcell
that stalls, or that blocks on a pipe whose reader has met a long line, outlives the
deadline and holds its slot, its user and the lockfile for ever, since the service may not
kill it (hubcell.go:65); a PHP project whose assets have only a script `web:build` is
refused (php.go:656, runtime_support.go:384); the error of a given-up callback counts 5
attempts where 6 were made (client.go:177); the comment at manager.go:165 is not true
after a failed write or a late cancellation.

## Fairness

`Fairness` of `BuildService` assumes that the dispatcher runs (the ticker fires every
five seconds), that each worker goes on with what it does by itself (`Proceed`; callbacks
give up), that a request which has begun is answered, and that a dead process is
booted (`Restart=always`). Clients and the operator owe nothing. `BuildsEnd` is kept
apart from it: that git and hubcell come to an end is an assumption about them, which
the code does not enforce as packaged, because the kill at the deadline reaches git but
not hubcell. `FairSpec` has both, so `PendingSettles`, `LockfileGoes` and
`UpdateCompletes` hold as long as no hubcell stalls; one that does holds its slot and its
lockfile, and there is nothing else to say.

`SafeUpdate` adds that the script goes on when it can. `CommandRunner`'s `Fairness`
assumes that the worker and its two readers run, that the clock reaches the deadline, and
that a signal is sent, and is delivered or refused; the child owes nothing. The end of a
build then rests on the deadline alone, and `BuildEnds` says for which builds that is
enough: all but those that stand at a command run by root.

## Proofs

A theorem holds for every value of the constants that the module's assumptions
allow: any jobs, users, limits, faults, repositories and numbers of crashes. The
assumptions say no more than what kind of thing a constant is. Where a theorem needs
more it says so: `~ReuseIds`, ids are not submitted again after a database reset;
`LockWritable`, the process may write the lockfile. Each invariant below was checked
by a run before it was proved, and still is: `faults`, `update`, `plan`, `image`.

### The service

`BuildServiceInv` holds the inductive invariant `TruthInv`, one part per idea:

- `TypeInv`: types, and that rows, dispatcher and workers have a job and a user when
  they should.
- `UsersApart`: the users in the list the dispatcher works on cover the active
  users. This is what makes the stale list harmless: users only leave the active
  set while the dispatcher is away, and only the dispatcher adds one. It gives
  `UserExclusive` without any assumption.
- `SameOwner`, `JobsApart`, `WithinLimit`: rows keep their owner, so workers of
  different users are of different jobs, every worker's job is in `activeBuilds`,
  and while the dispatcher is between the test of the limit and the taking of the
  slot one place is free. They give `ConcurrencyLimit`.
- `SuccessStored`: a success that was reported, or is about to be, is in the row
  and nothing puts it back. It gives `BackendAgrees` and `NoRebuildAfterSuccess`.
- `LockInv`: the lockfile is there when `activeBuilds` is not empty and only then;
  each active build is a worker's, or the dispatcher has just taken its slot; a
  process that is not up has none. It gives `LockfileTellsTheTruth`, with
  `LockWritable`; ids must be used once, or a worker's entry may be removed by
  another worker's release.
- `InProgressHeld`: a job in progress has a worker that has yet to write its verdict,
  or the write of the verdict has failed. Only such workers write these statuses, and
  the slot is given to a worker in the step that claims the job. It gives
  `InProgressIsHeld`, with failing statements and even if ids are reused.
- `ImageStored`: the tag is in the row before the success is decided, and no other
  row takes its place (hence `~ReuseIds`), or the write of the tag has failed. It gives
  `SuccessHasImage`.
- `SeenUsed`, `HoldsOldest`: the job the dispatcher holds is the oldest pending one of its
  user among the rows that were there when it looked (`dispatcher.seen`). The query
  establishes this; later it rests on `UsersApart`, since the user has no worker left
  that would put an older job back, and on ids being used once, since a row that is
  inserted meanwhile, perhaps with an older stamp, is then none of those seen. They give
  `ClaimedInOrder`, which promises no more than that: of two requests at once the one
  that was stamped first may be inserted last, and a claim then overtakes it.

`QueuedCancelSticks` is proved from `TypeInv` alone, step by step: what takes a job
out of `canceled` is a step of the dispatcher or of a worker that holds it.

`Implementation` is, with `~ReuseIds`, that every step of the service is a step of
`BuildSlots` or stutters under the mapping of `BuildService`: most of it is that a
claim finds a free slot (`SlotIsFree`) and that a worker's steps end one build at
most (`WorkMaps`).

### The service beside a script

The step lemmas of the service are proved of `Moves`, which is `Next` or `Stop`: the
process dies, whether a crash or a script is the reason. So they hold in `SafeUpdate`
as well, where a step of a script is either nothing to the service or `Stop`
(`UpdateMoves`). `SafeUpdateProofs` takes from them that an update breaks no part of
`TruthInv` (`UpdateKeepsTruth`) nor the refinement (`UpdateImplements`), and that the
wait ends when no worker is at work (`WaitsForIdle`: no lockfile, no worker, in any
phase). It is about `LockedWaitEndsIdle`, whose premise `LockWritable` the packaged unit
does not fulfil (the finding of `interrupt`), and it says nothing about the moment of the
stop. `UpdateInv` says, for each line of the scripts, which binary is on disk,
which one runs and whether systemd would start it; it gives `RightBinaryRuns`, the new
binary after a script that succeeded and the old one after a rollback.
Of `install.sh` that property asks that it found the service active: a service that is
down when the script asks is not stopped, and systemd may have it back, with the old
binary, before the script replaces it. After a script that failed it says nothing.

### The commands of a build

`CommandRunnerProofs` proves the type invariant and, from two further invariants, the
other safety properties of `commands` for all outputs and capacities. `DeadlineInv`: a
child is killed after the deadline only, and from then on the result is the signal; the
context's error and that of a refused kill come after the deadline as well; so
`isTimeoutError` must look at the context. `StreamInv`: log, Scanner and pipe hold
consecutive pieces of a stream until a long line is met; after one nothing more is read,
so nothing is logged behind the gap.

### What a job builds

`JobBuildInv` writes down what an attempt gives hubcell as a function, `Outcome`, of
the working directory, the head it cloned and the configuration it started from. The
properties of one build (a custom Dockerfile wins, contexts hold the application,
secrets are no arguments) are `WellBuilt`, and `OutcomeWellBuilt` proves them of the
function. The rest is that `Run`'s writes do not change the function's value:
two configurations `Agree` if both are refused or both give the same outcome, and
`PlanSaved`, `StageSaved`, `GenerateSaved` and `InspectionSaved` say that the
configuration before and after each write agree, for any repository. That is why
`JobInv` is inductive: `ChoiceMade` and `BuildsOutcome` follow an attempt along the
function, `Replays` compares the stored configuration with the worker's copy and with
what was built, `HeadsKnown` keeps the two heads apart, `Accepted` carries the
inspection's result to the worker. All properties of `plan` follow. The facts about
data they need (the root is above every directory, keys of each class are keys,
Dockerfiles of a repository and of a request are told apart by who wrote them) are the
assumptions on `Dirs`, `Keys`, `Repos` and `Inputs`, which TLC evaluates.

### Logs

`LogRetentionProofs` proves the safety properties of `retention` for any jobs,
requests, timeouts, retention and number of builds, restarts and passes, from
`TimeAssumption` and `NoneAssumption` alone. `LogInv` adds to the type invariant:
`FilesInv`, a file was last written no earlier than the second in its name, and by its
owner only; `PathInv`, paths are of their own job; `BuildInv`, a worker is within its
limit, and its log can only be gone if it was opened longer ago than the retention;
`CleanerInv`, the cleanup has written to the process's log since it began, and the name
it is about to remove is older than the retention. The last is what closes the gap
between the look and the removal: a log opened in between has a younger name, and
the process's log is younger than the pass. `ThoroughInv` adds the other direction:
what was too old when a pass began is still to be looked at, about to be removed, or
among the failures. It gives `PassIsThorough`.

### From a repository to its image

The theorems hold for every repository (any facts in its two directories), every
submission of parts of the inspected configuration with any commands added, and any
number of crashes at any line; `SubmissionsAssumption` says that the added commands are
a sequence of commands, `ProjectsAssumption` that an application at the root is the
root.

`SequenceLemmas` does the induction. The prover has no second-order instances, so
induction is stated over sets: a set of sequences that holds the empty one and is closed
under `Append` holds them all (`SeqSetInduction`, from a least counterexample in a
well-founded order), and each lemma defines the set of sequences it is true for. A
recursive function's value is its last entry, so it is first shown to be what its
steps give (`KeepIsGrown`, `MergeIsGrown`). What the plans need of them is that filters
distribute over concatenation (`KeepConcat`) and that merging what was merged
changes nothing (`MergeAgain`, `MergeBetween`). The last one is what makes planning
stable: `manualJavaScriptBuildPlan` merges the submitted setup commands between two
lists of its own, and stores the result as the next attempt's submission.

`PlanProofs` follows a configuration through both planners, one runtime after the other.
Predicates named `...Like` say what the fields of a plan are; `LooksLike` is agreement on
the fields a renderer reads, and `SameDockerfile` that such plans have one Dockerfile. The
lemma `RuntimeKnown` says that the runtime is one that has a planner, so the cases are
complete. `Replan`: the stored configuration, planned again, gives a plan with the same
Dockerfile and start. Its hypothesis `Inspected` is the strengthening that was needed: the
configuration's runtime is the one the repository is found to have, or left out, or static
for a JavaScript project. Without it the second plan may be another planner's. `Found`:
the inspected configuration, submitted as it is, is planned into the automatic plan's
image, where the configuration has what the image depends on (for Go, .NET, Rust, Java and
Elixir it has not), and starts the same except for PHP.

`ImageBuildProofs` looks at the Dockerfile as its renderers put it together.
`Carries(ls, k)` says that the lines written so far end by running the commands `k`;
a part that is appended (`Does`) runs its own commands after them (`CarriesMore`), and
once the phases are complete nothing that follows gets between them (`ClosedMore`).
`DockerfileKeeps` follows for the seven renderers, with the line that begins a
Dockerfile and the one that ends it. `ImageInv` consists of `ImageTypeOK`; `ConfigKnown`,
that a submitted or stored configuration is `Inspected`; `PlanStored`, that the row has
the configuration of the plan that is built and that planning it again repeats the
plan; and `FirstKept`, that after a crash the row still leads to the first Dockerfile.
That a step never runs off the end of the Dockerfile, nor outside a stage, is part of
it, and rests on `DockerfileKeeps`. `CommandsKept`, `SubmitAsFound` and `ReplanRepeats`
follow from the invariant. While it was being stated, `mergeUniqueCommands` was found to
drop repeated commands of its second list as well (`appendUniqueString`), which the
model had not done; it is `MergeUnique` now.

### Only model-checked

- `PendingSettles`, `LockfileGoes`, `UpdateCompletes`, `BuildEnds`: liveness, which
  needs fairness and ENABLED, beyond the prover.
- `KnownFailures` and `KnownStops`: what a command needs and what it makes are tables
  (which image holds which tool, which command makes which file), and the two
  properties compare them, line by line, for each family of repositories. The run goes
  through all combinations of the facts a family's detectors ask for; a proof would
  go through the same tables and add nothing but their repetition.

## Not modelled

Reads and request validation of the handlers, but for the logs; download and extraction of
archives and validation of sources (sequential, without shared state); the spelling of
environment keys; versions, ports, health checks and library packages of a plan (tables of
names no other part of the code relies on); the text of Dockerfiles, log lines and
payloads (layout); the driver's argument list; the offline analyser, a front end of the
detection; hubcell, Docker and git themselves (`Container` and `CommandRunner` state what
is assumed of them).

## Plan

1. Done: the core, its composition with the update scripts, the first theorems.
2. Done: `CommandRunner` with its theorems.
3. Done: `JobBuild`, the decisions of `Worker.Run` between source and build, with
   the environment plan and the Dockerfile parameters.
4. Done: `ImageBuild` with `BuildPlan`, `JavaScriptPlan`, `ServerPlan` and `Container`:
   detection, planning again, generated Dockerfiles and what they need.
5. Done: `LogRetention` with its theorems.
6. Done: theorems for `core` and `update` (`BuildServiceProofs`, `SafeUpdateProofs`),
   for `plan` (`JobBuildProofs`), and `PassIsThorough`.
7. Done: theorems for `image` (`SequenceLemmas`, `PlanProofs`, `ImageBuildProofs`).
8. Left: `SourceGuard`, `ArchiveExtract`, the spelling of environment keys; a
   common specification for `BuildService`'s `RunBuild`, which `CommandRunner` and
   `JobBuild` would be shown to implement.
