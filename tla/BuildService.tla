---------------------------- MODULE BuildService ----------------------------
(***************************************************************************)
(* The core of the builder: the job table (internal/storage), the manager   *)
(* that dispatches pending jobs and its worker goroutines                   *)
(* (internal/executor), the callback to the backend (internal/api), the     *)
(* handlers that write the table (internal/server), and the process that    *)
(* dies and boots again (cmd/hubfly-builder).                               *)
(*                                                                          *)
(* A step is one SQL statement, one section under the manager's mutex, or   *)
(* one callback attempt: what other goroutines can come between.            *)
(***************************************************************************)
EXTENDS Integers, FiniteSets

CONSTANTS
    JobIds,              \* job ids, chosen by the clients
    Users,               \* user ids (never blank: both create handlers refuse)
    Goroutines,          \* identities for worker goroutines
    Handlers,            \* requests to create or cancel, being served at once
    None,                \* no job, no user
    MaxConcurrent,       \* MAX_CONCURRENT_BUILDS
    MaxRetries,          \* maxRetries of the manager: 0 in the code
    RetryInputs,         \* retryCount of a POST /api/v1/jobs body
    CallbackRetries,     \* maxRetries of ReportResult: 5 in the code
    CallbackConfigured,  \* is CALLBACK_URL set?
    StorageFaults,       \* may a statement or a file operation fail?
    LockWritable,        \* may the process write UPDATE_LOCKFILE?
    ReuseIds,            \* may a client reuse an id after a database reset?
    MaxPosts,            \* bound: how many jobs are posted
    MaxCrashes,          \* bound: how often the process dies
    MaxResets            \* bound: how often the database is reset

ASSUME NoneAssumption == None \notin JobIds \cup Users
ASSUME LimitAssumption == MaxConcurrent \in Nat \ {0}
ASSUME RetryAssumption == MaxRetries \in Nat /\ CallbackRetries \in Nat
                          /\ RetryInputs \subseteq Int
ASSUME FlagAssumption ==
    {CallbackConfigured, StorageFaults, LockWritable, ReuseIds} \subseteq BOOLEAN
ASSUME BoundAssumption == {MaxPosts, MaxCrashes, MaxResets} \subseteq Nat

VARIABLES
    \* the disk: what a crash leaves behind
    row,            \* build_jobs: the row of each job id, or one marked absent
    clock,          \* the next created_at stamp
    used,           \* ids some row has had
    lockfile,       \* does UPDATE_LOCKFILE exist?
    \* the process
    phase,          \* "down", "opened" (database opened), "up" (manager runs)
    activeBuilds,   \* Manager.activeBuilds
    activeUsers,    \* Manager.activeUsers
    newJobSignal,   \* is the one-place channel newJobSignal full?
    dispatcher,     \* the goroutine of Manager.Start
    worker,         \* the worker goroutines
    handler,        \* what the handler of a request is about to write
    \* history and bounds
    heard,          \* the verdicts the backend has received, per job
    unsaved,        \* what a job's last build has failed to write to its row
    crashes, resets

disk    == <<row, clock, used>>
manager == <<activeBuilds, activeUsers, lockfile>>
history == <<heard, unsaved, crashes, resets>>
vars == <<row, clock, used, lockfile, phase, activeBuilds, activeUsers,
          newJobSignal, dispatcher, worker, handler, heard, unsaved, crashes,
          resets>>

InProgress == {"claimed", "building"}
Terminal   == {"success", "failed", "canceled"}
Verdicts   == {"success", "failed"}

Row == [status : {"absent", "pending"} \cup InProgress \cup Terminal,
        user : Users \cup {None}, retryCount : Int, created : Nat,
        imageTag : BOOLEAN]
AbsentRow == [status |-> "absent", user |-> None, retryCount |-> 0,
              created |-> 0, imageTag |-> FALSE]

\* `seen` is history: the jobs that were in the table when it was queried.
DispatcherState == [pc : {"idle", "query", "register", "claim", "unregister"},
                    excluded : SUBSET Users, seen : SUBSET JobIds,
                    job : JobIds \cup {None}, user : Users \cup {None}]
IdleDispatcher == [pc |-> "idle", excluded |-> {}, seen |-> {},
                   job |-> None, user |-> None]

WorkerState == [pc : {"none", "open", "mark", "build", "tag", "finish",
                      "report", "reread", "increment", "requeue", "release"},
                job : JobIds \cup {None}, user : Users \cup {None},
                verdict : Verdicts \cup {None}, attempt : Nat]
NoWorker == [pc |-> "none", job |-> None, user |-> None,
             verdict |-> None, attempt |-> 0]

HandlerState == [pc : {"idle", "insert", "cancel"}, job : JobIds \cup {None},
                 user : Users \cup {None}, retryCount : Int, created : Nat]
IdleHandler == [pc |-> "idle", job |-> None, user |-> None,
                retryCount |-> 0, created |-> 0]

TypeOK ==
    /\ row \in [JobIds -> Row]
    /\ clock \in Nat
    /\ used \in SUBSET JobIds
    /\ lockfile \in BOOLEAN
    /\ phase \in {"down", "opened", "up"}
    /\ activeBuilds \in SUBSET JobIds
    /\ activeUsers \in SUBSET Users
    /\ newJobSignal \in BOOLEAN
    /\ dispatcher \in DispatcherState
    /\ worker \in [Goroutines -> WorkerState]
    /\ handler \in [Handlers -> HandlerState]
    /\ heard \in [JobIds -> SUBSET Verdicts]
    /\ unsaved \in [JobIds -> SUBSET {"tag", "verdict"}]
    /\ crashes \in Nat
    /\ resets \in Nat

\* No job yet; the process in the given phase.
InitIn(p) ==
    /\ row = [j \in JobIds |-> AbsentRow]
    /\ clock = 0
    /\ used = {}
    /\ lockfile = FALSE
    /\ phase = p
    /\ activeBuilds = {}
    /\ activeUsers = {}
    /\ newJobSignal = FALSE
    /\ dispatcher = IdleDispatcher
    /\ worker = [g \in Goroutines |-> NoWorker]
    /\ handler = [h \in Handlers |-> IdleHandler]
    /\ heard = [j \in JobIds |-> {}]
    /\ unsaved = [j \in JobIds |-> {}]
    /\ crashes = 0
    /\ resets = 0

Init == InitIn("down")

-----------------------------------------------------------------------------
(* The statements of internal/storage. An UPDATE of a row that is not there *)
(* changes nothing and reports no error.                                    *)

Exists(j) == row[j].status # "absent"

UpdateJobStatus(j, status) ==
    row' = IF Exists(j) THEN [row EXCEPT ![j].status = status] ELSE row

UpdateJobFinishState(j, verdict) == UpdateJobStatus(j, verdict)

UpdateJobImageTag(j) ==
    row' = IF Exists(j) THEN [row EXCEPT ![j].imageTag = TRUE] ELSE row

IncrementJobRetryCount(j) ==
    row' = IF Exists(j) THEN [row EXCEPT ![j].retryCount = @ + 1] ELSE row

\* Mutant: claimed rows are forgotten at boot.
ResetBuildingJobs ==
    row' = [j \in JobIds |-> IF row[j].status = "building"
                             THEN [row[j] EXCEPT !.status = "pending"]
                             ELSE row[j]]

\* Mutant: whatever has not succeeded or failed is put back at boot.
ResetUndecidedJobs ==
    row' = [j \in JobIds |-> IF row[j].status \in InProgress \cup {"canceled"}
                             THEN [row[j] EXCEPT !.status = "pending"]
                             ELSE row[j]]

ResetInProgressJobs ==
    row' = [j \in JobIds |-> IF row[j].status \in InProgress
                             THEN [row[j] EXCEPT !.status = "pending"]
                             ELSE row[j]]

ResetDatabase == row' = [j \in JobIds |-> AbsentRow]

\* Mutant: the busy users are not excluded.
GetPendingJob(excluded) ==
    LET eligible == {j \in JobIds : row[j].status = "pending"}
    IN  {j \in eligible : \A k \in eligible : row[j].created <= row[k].created}

\* Mutant: no ORDER BY.
GetAnyPendingJob(excluded) ==
    {j \in JobIds : row[j].status = "pending" /\ row[j].user \notin excluded}

\* The rows the query may return: the oldest pending row of the other users.
GetPendingJobExcludingUsers(excluded) ==
    LET eligible == {j \in JobIds : /\ row[j].status = "pending"
                                    /\ row[j].user \notin excluded}
    IN  {j \in eligible : \A k \in eligible : row[j].created <= row[k].created}

-----------------------------------------------------------------------------
(* The manager's helpers. *)

SignalNewJob == newJobSignal' = TRUE

\* WriteFile and Remove errors are dropped.
UpdateLockfile ==
    lockfile' = IF LockWritable THEN activeBuilds' # {} ELSE lockfile

\* Mutant: the active builds are keyed by user.
RegisterByUser(j, u) ==
    /\ activeBuilds' = activeBuilds \cup {u}
    /\ activeUsers' = activeUsers \cup {u}
    /\ UpdateLockfile

\* The section that takes a job and its user into the active sets.
Register(j, u) ==
    /\ activeBuilds' = activeBuilds \cup {j}
    /\ activeUsers' = activeUsers \cup {u}
    /\ UpdateLockfile

\* The section that removes them: after a failed claim, or as a worker ends.
Unregister(j, u) ==
    /\ activeBuilds' = activeBuilds \ {j}
    /\ activeUsers' = activeUsers \ {u}
    /\ UpdateLockfile

-----------------------------------------------------------------------------
(* internal/server: the handlers that write the table. *)

\* storage.CreateJob takes the time first ...
Stamp(h, j, u, retryCount) ==
    /\ phase = "up"
    /\ handler[h] = IdleHandler
    /\ clock < MaxPosts
    /\ handler' = [handler EXCEPT ![h] =
                      [pc |-> "insert", job |-> j, user |-> u,
                       retryCount |-> retryCount, created |-> clock]]
    /\ clock' = clock + 1
    /\ UNCHANGED <<row, used, manager, phase, newJobSignal, dispatcher, worker,
                   history>>

\* POST /api/v1/jobs: the body is decoded into the job, retryCount included.
CreateJob(h, j, u, retryCount) == Stamp(h, j, u, retryCount)

\* POST /api/v1/builds: the gateway's input has no retryCount.
CreateBuildV1(h, j, u) == Stamp(h, j, u, 0)

\* ... and inserts the row, as pending, by a later statement, which refuses an id
\* that is there. The handler then signals. (Whether an id comes again after the
\* row that had it is deleted is up to the clients: ReuseIds.)
InsertRow(h) ==
    /\ handler[h].pc = "insert"
    /\ handler' = [handler EXCEPT ![h] = IdleHandler]
    /\ LET new == handler[h]
       IN  \/ /\ ~Exists(new.job)
              /\ ReuseIds \/ new.job \notin used
              /\ row' = [row EXCEPT ![new.job] =
                            [status |-> "pending", user |-> new.user,
                             retryCount |-> new.retryCount,
                             created |-> new.created, imageTag |-> FALSE]]
              /\ used' = used \cup {new.job}
              /\ SignalNewJob
           \/ /\ Exists(new.job) \/ StorageFaults
              /\ UNCHANGED <<row, used, newJobSignal>>
    /\ UNCHANGED <<clock, manager, phase, dispatcher, worker, history>>

\* Cancel: the status is checked on one read ...
CancelCheck(h, j) ==
    /\ phase = "up"
    /\ handler[h] = IdleHandler
    /\ row[j].status \in {"pending"} \cup InProgress
    /\ handler' = [handler EXCEPT ![h] = [IdleHandler EXCEPT !.pc = "cancel",
                                                             !.job = j]]
    /\ UNCHANGED <<disk, manager, phase, newJobSignal, dispatcher, worker,
                   history>>

\* ... and written, whatever it is by then, by a later statement.
CancelWrite(h) ==
    /\ handler[h].pc = "cancel"
    /\ handler' = [handler EXCEPT ![h] = IdleHandler]
    /\ \/ UpdateJobStatus(handler[h].job, "canceled")
       \/ StorageFaults /\ UNCHANGED row
    /\ UNCHANGED <<clock, used, manager, phase, newJobSignal, dispatcher,
                   worker, history>>

Write(h) == InsertRow(h) \/ CancelWrite(h)

\* The rows go; the manager and its workers are not told.
ResetDatabaseHandler ==
    /\ phase = "up"
    /\ resets < MaxResets
    /\ resets' = resets + 1
    /\ ResetDatabase
    /\ UNCHANGED <<clock, used, manager, phase, newJobSignal, dispatcher,
                   worker, handler, heard, unsaved, crashes>>

-----------------------------------------------------------------------------
(* internal/executor: the goroutine of Manager.Start. *)

\* Mutant: one build too many.
TryToDispatchAtLimit ==
    /\ phase = "up"
    /\ dispatcher.pc = "idle"
    /\ dispatcher' = IF Cardinality(activeBuilds) > MaxConcurrent
                     THEN dispatcher
                     ELSE [dispatcher EXCEPT !.pc = "query",
                                             !.excluded = activeUsers]
    /\ UNCHANGED <<disk, manager, phase, worker, handler, history>>

\* First section of tryToDispatchJob: give up at the limit, else note who is
\* busy.
TryToDispatchJob ==
    /\ phase = "up"
    /\ dispatcher.pc = "idle"
    /\ dispatcher' = IF Cardinality(activeBuilds) >= MaxConcurrent
                     THEN dispatcher
                     ELSE [dispatcher EXCEPT !.pc = "query",
                                             !.excluded = activeUsers]
    /\ UNCHANGED <<disk, manager, phase, worker, handler, history>>

\* Mutant: the ticker fires for nobody but a signal.
TickOnSignal == newJobSignal /\ TryToDispatchJob /\ UNCHANGED newJobSignal

Tick == TryToDispatchJob /\ UNCHANGED newJobSignal

ReceiveSignal == /\ newJobSignal
                 /\ newJobSignal' = FALSE
                 /\ TryToDispatchJob

\* The query runs without the mutex, on the users noted before.
QueryPending ==
    /\ dispatcher.pc = "query"
    /\ LET found == GetPendingJobExcludingUsers(dispatcher.excluded)
       IN  \/ \E j \in found :
                dispatcher' = [dispatcher EXCEPT !.pc = "register",
                                   !.job = j, !.user = row[j].user,
                                   !.seen = {k \in JobIds : Exists(k)}]
           \/ /\ found = {} \/ StorageFaults
              /\ dispatcher' = IdleDispatcher
    /\ UNCHANGED <<disk, manager, phase, newJobSignal, worker, handler, history>>

RegisterJob ==
    /\ dispatcher.pc = "register"
    /\ Register(dispatcher.job, dispatcher.user)
    /\ dispatcher' = [dispatcher EXCEPT !.pc = "claim"]
    /\ UNCHANGED <<disk, phase, newJobSignal, worker, handler, history>>

\* The claim is written and a worker goroutine started.
Claim(g) ==
    /\ dispatcher.pc = "claim"
    /\ worker[g] = NoWorker
    /\ UpdateJobStatus(dispatcher.job, "claimed")
    /\ worker' = [worker EXCEPT ![g] = [NoWorker EXCEPT !.pc = "open",
                      !.job = dispatcher.job, !.user = dispatcher.user]]
    /\ dispatcher' = IdleDispatcher
    /\ unsaved' = [unsaved EXCEPT ![dispatcher.job] = {}]
    /\ UNCHANGED <<clock, used, manager, phase, newJobSignal, handler, heard,
                   crashes, resets>>

ClaimFails ==
    /\ dispatcher.pc = "claim"
    /\ StorageFaults
    /\ dispatcher' = [dispatcher EXCEPT !.pc = "unregister"]
    /\ UNCHANGED <<disk, manager, phase, newJobSignal, worker, handler, history>>

UnregisterJob ==
    /\ dispatcher.pc = "unregister"
    /\ Unregister(dispatcher.job, dispatcher.user)
    /\ dispatcher' = IdleDispatcher
    /\ UNCHANGED <<disk, phase, newJobSignal, worker, handler, history>>

Dispatcher == \/ Tick
              \/ ReceiveSignal
              \/ QueryPending
              \/ RegisterJob
              \/ \E g \in Goroutines : Claim(g)
              \/ ClaimFails
              \/ UnregisterJob

-----------------------------------------------------------------------------
(* internal/executor: a worker goroutine, from Worker.Run to the deferred    *)
(* release of its slot. The goroutine g is building worker[g].job.           *)

WorkerOnly == UNCHANGED <<clock, used, manager, phase, newJobSignal,
                          dispatcher, handler, crashes, resets>>

GoTo(g, pc) == worker' = [worker EXCEPT ![g].pc = pc]

\* A statement of the build fails.
NotSaved(g, what) ==
    /\ unsaved' = [unsaved EXCEPT ![worker[g].job] = @ \cup {what}]
    /\ UNCHANGED row

\* failJob and succeedJob begin by writing the verdict; this is where the
\* worker has decided on it.
Decide(g, verdict) ==
    worker' = [worker EXCEPT ![g].pc = "finish", ![g].verdict = verdict]

\* Create the log file and store its path.
OpenLog(g) ==
    /\ worker[g].pc = "open"
    /\ \/ GoTo(g, "mark")
       \/ StorageFaults /\ Decide(g, "failed")
    /\ UNCHANGED <<row, heard, unsaved>>
    /\ WorkerOnly

MarkBuilding(g) ==
    /\ worker[g].pc = "mark"
    /\ \/ UpdateJobStatus(worker[g].job, "building") /\ GoTo(g, "build")
       \/ StorageFaults /\ Decide(g, "failed") /\ UNCHANGED row
    /\ UNCHANGED <<heard, unsaved>>
    /\ WorkerOnly

\* Fetch the source, choose a Dockerfile, run the build: it ends with an image
\* or, by an error or the timeout of its context, without one.
RunBuild(g) ==
    /\ worker[g].pc = "build"
    /\ GoTo(g, "tag") \/ Decide(g, "failed")
    /\ UNCHANGED <<row, heard, unsaved>>
    /\ WorkerOnly

\* Mutant: the tag stays in memory.
KeepImageTag(g) ==
    /\ worker[g].pc = "tag"
    /\ Decide(g, "success")
    /\ UNCHANGED <<row, heard, unsaved>>
    /\ WorkerOnly

\* Store the image tag; an error is logged and the build goes on.
StoreImageTag(g) ==
    /\ worker[g].pc = "tag"
    /\ \/ UpdateJobImageTag(worker[g].job) /\ UNCHANGED unsaved
       \/ StorageFaults /\ NotSaved(g, "tag")
    /\ Decide(g, "success")
    /\ UNCHANGED heard
    /\ WorkerOnly

\* Mutant: a success is reported even if it could not be stored.
FinishAndReport(g) ==
    /\ worker[g].pc = "finish"
    /\ \/ /\ UpdateJobFinishState(worker[g].job, worker[g].verdict)
          /\ UNCHANGED unsaved
       \/ StorageFaults /\ NotSaved(g, "verdict")
    /\ GoTo(g, "report")
    /\ UNCHANGED heard
    /\ WorkerOnly

\* succeedJob gives up, unreported, when the verdict cannot be stored; failJob
\* reports all the same.
Finish(g) ==
    /\ worker[g].pc = "finish"
    /\ \/ /\ UpdateJobFinishState(worker[g].job, worker[g].verdict)
          /\ UNCHANGED unsaved
          /\ GoTo(g, "report")
       \/ /\ StorageFaults
          /\ NotSaved(g, "verdict")
          /\ GoTo(g, IF worker[g].verdict = "failed" THEN "report" ELSE "release")
    /\ UNCHANGED heard
    /\ WorkerOnly

\* Mutant: every build that has reported is considered for a retry.
AlwaysReread(g) == "reread"

\* Only a failed build goes on to handleFailedJob.
AfterReport(g) == IF worker[g].verdict = "failed" THEN "reread" ELSE "release"

BackendHears(g) ==
    heard' = [heard EXCEPT ![worker[g].job] = @ \cup {worker[g].verdict}]

\* One attempt of ReportResult. The backend may get it and its answer be lost.
ReportResult(g) ==
    /\ worker[g].pc = "report"
    /\ \/ /\ ~CallbackConfigured
          /\ GoTo(g, AfterReport(g))
          /\ UNCHANGED heard
       \/ /\ CallbackConfigured
          /\ BackendHears(g)
          /\ GoTo(g, AfterReport(g))
       \/ /\ CallbackConfigured
          /\ BackendHears(g) \/ UNCHANGED heard
          /\ IF worker[g].attempt < CallbackRetries
             THEN worker' = [worker EXCEPT ![g].attempt = @ + 1]
             ELSE GoTo(g, AfterReport(g))
    /\ UNCHANGED <<row, unsaved>>
    /\ WorkerOnly

\* handleFailedJob: read the row again ...
RereadJob(g) ==
    /\ worker[g].pc = "reread"
    /\ \/ /\ Exists(worker[g].job)
          /\ GoTo(g, IF row[worker[g].job].retryCount < MaxRetries
                     THEN "increment" ELSE "release")
       \/ /\ StorageFaults \/ ~Exists(worker[g].job)
          /\ GoTo(g, "release")
    /\ UNCHANGED <<row, heard, unsaved>>
    /\ WorkerOnly

\* ... count the retry ...
CountRetry(g) ==
    /\ worker[g].pc = "increment"
    /\ \/ IncrementJobRetryCount(worker[g].job) /\ GoTo(g, "requeue")
       \/ StorageFaults /\ GoTo(g, "release") /\ UNCHANGED row
    /\ UNCHANGED <<heard, unsaved>>
    /\ WorkerOnly

\* ... and put the job back, with a signal, while its slot is still held.
Requeue(g) ==
    /\ worker[g].pc = "requeue"
    /\ \/ UpdateJobStatus(worker[g].job, "pending")
       \/ StorageFaults /\ UNCHANGED row
    /\ SignalNewJob
    /\ GoTo(g, "release")
    /\ UNCHANGED <<clock, used, manager, phase, dispatcher, handler, history>>

\* The deferred section.
ReleaseSlot(g) ==
    /\ worker[g].pc = "release"
    /\ Unregister(worker[g].job, worker[g].user)
    /\ worker' = [worker EXCEPT ![g] = NoWorker]
    /\ UNCHANGED <<disk, phase, newJobSignal, dispatcher, handler, history>>

Work(g) == \/ OpenLog(g) \/ MarkBuilding(g) \/ RunBuild(g) \/ StoreImageTag(g)
           \/ Finish(g) \/ ReportResult(g) \/ RereadJob(g) \/ CountRetry(g)
           \/ Requeue(g) \/ ReleaseSlot(g)

-----------------------------------------------------------------------------
(* The process. *)

\* Memory is lost, the database and the lockfile are not. Nothing in the code
\* drains on SIGTERM, so a stop is no different from a kill.
Die ==
    /\ phase # "down"
    /\ phase' = "down"
    /\ activeBuilds' = {}
    /\ activeUsers' = {}
    /\ newJobSignal' = FALSE
    /\ dispatcher' = IdleDispatcher
    /\ worker' = [g \in Goroutines |-> NoWorker]
    /\ handler' = [h \in Handlers |-> IdleHandler]
    /\ UNCHANGED <<disk, lockfile, heard, unsaved, resets>>

Crash == /\ crashes < MaxCrashes
         /\ crashes' = crashes + 1
         /\ Die

\* runServer: first put the interrupted jobs back (a failure is fatal) ...
OpenDatabase ==
    /\ phase = "down"
    /\ phase' = "opened"
    /\ ResetInProgressJobs
    /\ UNCHANGED <<clock, used, manager, newJobSignal, dispatcher, worker,
                   handler, history>>

\* Mutant: the lockfile is left for the first build to rewrite.
NewManagerKeepsLockfile ==
    /\ phase = "opened"
    /\ phase' = "up"
    /\ UNCHANGED <<manager, disk, newJobSignal, dispatcher, worker, handler,
                   history>>

\* ... then create the manager, which clears a lockfile left behind.
NewManager ==
    /\ phase = "opened"
    /\ phase' = "up"
    /\ UNCHANGED <<activeBuilds, activeUsers>>
    /\ UpdateLockfile
    /\ UNCHANGED <<disk, newJobSignal, dispatcher, worker, handler, history>>

Boot == OpenDatabase \/ NewManager

Requests == \/ \E h \in Handlers, j \in JobIds, u \in Users :
                 \/ \E r \in RetryInputs : CreateJob(h, j, u, r)
                 \/ CreateBuildV1(h, j, u)
            \/ \E h \in Handlers, j \in JobIds : CancelCheck(h, j)
            \/ \E h \in Handlers : Write(h)
            \/ ResetDatabaseHandler

Next == \/ Requests
        \/ Dispatcher
        \/ \E g \in Goroutines : Work(g)
        \/ Boot
        \/ Crash

Spec == Init /\ [][Next]_vars

\* What a worker does by itself, its commands apart.
Proceed(g) == worker[g].pc # "build" /\ Work(g)

\* The goroutines run, the ticker ticks, systemd starts a dead service again
\* (Restart=always), and the server answers the requests it has begun. A client
\* owes nothing.
Fairness == /\ WF_vars(Dispatcher)
            /\ \A g \in Goroutines : WF_vars(Proceed(g))
            /\ \A h \in Handlers : WF_vars(Write(h))
            /\ WF_vars(Boot)

\* An assumption about git and hubcell: every build ends. The deadline sees to it
\* only where the service may kill hubcell (CommandRunner's BuildEnds).
BuildsEnd == \A g \in Goroutines : WF_vars(RunBuild(g))

FairSpec == Spec /\ Fairness /\ BuildsEnd

-----------------------------------------------------------------------------
(* Properties. *)

Live == {g \in Goroutines : worker[g] # NoWorker}

\* Two builds of one user never overlap, although the dispatcher works on a
\* list of busy users that it read before it gave the mutex back.
UserExclusive ==
    \A g, h \in Live : worker[g].user = worker[h].user => g = h

\* MAX_CONCURRENT_BUILDS bounds the worker goroutines, although the limit is
\* tested on the ids in activeBuilds and in an earlier section than the one
\* that adds an id. It needs ids that are not used twice.
ConcurrencyLimit == Cardinality(Live) <= MaxConcurrent

\* While a build goes on, the lockfile tells the installer so, and it tells
\* of nothing else once the manager is up.
LockfileTellsTheTruth ==
    phase = "up" =>
        /\ Live # {} => lockfile
        /\ lockfile => Live # {} \/ dispatcher.pc \in {"claim", "unregister"}

\* A row that says a worker has it is abandoned for one reason only, the verdict
\* of its build could not be written: else, while the manager runs, some worker
\* goroutine holds it, whatever crashed, was canceled or failed before.
InProgressIsHeld ==
    phase = "up" =>
        \A j \in JobIds : row[j].status \in InProgress =>
            \/ \E g \in Live : worker[g].job = j
            \/ "verdict" \in unsaved[j]

\* Once the backend has heard success the row says success, or canceled by a
\* cancellation that raced it: never failed, never in the queue again.
BackendAgrees ==
    \A j \in JobIds : "success" \in heard[j] =>
        row[j].status \in {"success", "canceled", "absent"}

\* A success row names the image that was built, unless its last build could not
\* write the tag, an error that is only logged.
SuccessHasImage ==
    \A j \in JobIds :
        row[j].status = "success" => row[j].imageTag \/ "tag" \in unsaved[j]

\* A job does not start again after the backend has heard of its success.
NoRebuildAfterSuccess ==
    [][\A g \in Goroutines :
          worker[g].pc = "none" /\ worker'[g].pc # "none"
              => "success" \notin heard[worker'[g].job]]_vars

\* A job is claimed before an older one of its user, retried and interrupted ones
\* included, only if the older one came into the table after the dispatcher had
\* looked: of two requests served at once, the one that is stamped first may be
\* the last to insert its row.
ClaimedInOrder ==
    [][\A j, k \in JobIds :
          (/\ row[j].status = "pending" /\ row'[j].status = "claimed"
           /\ row[k].status = "pending" /\ row[k].user = row[j].user
           /\ k \in dispatcher.seen)
          => row[j].created <= row[k].created]_vars

\* A canceled job that neither the dispatcher nor a worker holds stays canceled,
\* across restarts too: nothing puts it back into the queue.
QueuedCancelSticks ==
    [][\A j \in JobIds :
          (/\ row[j].status = "canceled" /\ dispatcher.job # j
           /\ \A g \in Live : worker[g].job # j)
          => row'[j].status \in {"canceled", "absent"}]_vars

\* A pending job comes to an end that stays one, or is gone: retries, restarts,
\* busy users, a full house and signals that came to nothing hold it up for a
\* time only.
PendingSettles ==
    \A j \in JobIds :
        [](row[j].status = "pending" =>
              <>[](row[j].status \in Terminal \cup {"absent"}))

\* An installer that waits for the lockfile to go does not wait forever, even
\* if a crash leaves the file behind.
LockfileGoes == lockfile ~> ~lockfile

\* The status `canceled` says that the job was terminated: nothing follows it.
\* (The code does not keep this: a worker is not told of a cancellation.)
CanceledIsFinal ==
    [][\A j \in JobIds : row[j].status = "canceled"
                           => row'[j].status \in {"canceled", "absent"}]_vars

\* The abstract specification, on the live workers.
BuildOf(g) == [job |-> worker[g].job, user |-> worker[g].user]
Running    == {BuildOf(g) : g \in Live}
Succeeded  == {j \in JobIds : "success" \in heard[j]}

Slots == INSTANCE BuildSlots WITH running <- Running, succeeded <- Succeeded

\* The service implements BuildSlots: no more than MaxConcurrent builds, one per
\* user and per job, none of a job that has succeeded.
ImplementsSlots == Slots!SlotsSpec
=============================================================================
