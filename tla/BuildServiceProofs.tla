------------------------- MODULE BuildServiceProofs -------------------------
(***************************************************************************)
(* Proofs about BuildService, for every value of its constants: types, the  *)
(* users that are apart always, the limit and the finality of a success if an*)
(* id is not used twice, the refinement of BuildSlots, what the lockfile and*)
(* the table say of the builds, and the order of claims. An assumption on a *)
(* flag is named where a theorem needs it.                                  *)
(***************************************************************************)
EXTENDS BuildServiceInv, FiniteSetTheorems, TLAPS

-----------------------------------------------------------------------------
(* Types and owners. *)

LEMMA Blanks == /\ AbsentRow \in Row
                /\ IdleDispatcher \in DispatcherState
                /\ NoWorker \in WorkerState
                /\ IdleHandler \in HandlerState
<1>1. AbsentRow \in Row
  BY DEF AbsentRow, Row
<1>2. IdleDispatcher \in DispatcherState
  BY DEF IdleDispatcher, DispatcherState
<1>3. NoWorker \in WorkerState
  BY DEF NoWorker, WorkerState
<1>4. IdleHandler \in HandlerState
  BY DEF IdleHandler, HandlerState
<1>. QED  BY <1>1, <1>2, <1>3, <1>4

LEMMA TypeInit == ASSUME NEW p \in {"down", "up"}, InitIn(p) PROVE TypeInv
<1>1. TypeOK
  BY Blanks DEF InitIn, TypeOK
<1>2. Owners
  BY DEF InitIn, Owners, Exists, AbsentRow, HasJob, IdleDispatcher, IdleHandler
<1>. QED  BY <1>1, <1>2 DEF TypeInv

\* What an UPDATE of a status leaves alone: types, owners, the other rows, and
\* whether a row is there.
LEMMA StatusUpdate ==
    ASSUME row \in [JobIds -> Row], NEW j \in JobIds,
           NEW s \in {"pending"} \cup InProgress \cup Terminal,
           UpdateJobStatus(j, s)
    PROVE  /\ row' \in [JobIds -> Row]
           /\ \A k \in JobIds : /\ row'[k].user = row[k].user
                                /\ row'[k].created = row[k].created
                                /\ row'[k].imageTag = row[k].imageTag
                                /\ Exists(k)' <=> Exists(k)
                                /\ k # j => row'[k] = row[k]
           /\ row'[j].status \in {s, "absent"}
<1>. DEFINE r == [row[j] EXCEPT !.status = s]
<1>1. /\ r \in Row /\ r.status = s /\ s # "absent"
      /\ r.user = row[j].user /\ r.created = row[j].created
      /\ r.imageTag = row[j].imageTag
  BY DEF Row, InProgress, Terminal
<1>2. CASE Exists(j)
  <2>1. row' = [row EXCEPT ![j] = r]
    BY <1>2 DEF UpdateJobStatus
  <2>. QED  BY <1>1, <1>2, <2>1 DEF Exists
<1>3. CASE ~Exists(j)
  BY <1>3 DEF UpdateJobStatus, Exists
<1>. QED  BY <1>2, <1>3

\* A new row is there; the others are as they were.
Inserted(j, u) ==
    /\ ~Exists(j)
    /\ ReuseIds \/ j \notin used
    /\ used' = used \cup {j}
    /\ row' \in [JobIds -> Row]
    /\ row'[j].status = "pending"
    /\ row'[j].user = u
    /\ \A k \in JobIds : k # j => row'[k] = row[k]

LEMMA HandlerStates ==
    ASSUME TypeInv, NEW h \in Handlers
    PROVE  /\ handler[h] \in HandlerState
           /\ handler[h].pc # "idle" => handler[h].job \in JobIds
           /\ handler[h].pc = "insert" => handler[h].user \in Users
  BY DEF TypeInv, TypeOK, Owners

LEMMA InsertRows ==
    ASSUME TypeInv, NEW h \in Handlers, InsertRow(h)
    PROVE  \/ UNCHANGED <<row, used>>
           \/ \E j \in JobIds, u \in Users : Inserted(j, u)
<1>. DEFINE new == handler[h]
            r == [status |-> "pending", user |-> new.user,
                  retryCount |-> new.retryCount, created |-> new.created,
                  imageTag |-> FALSE]
<1>1. new.pc = "insert" /\ row \in [JobIds -> Row]
  BY DEF InsertRow, TypeInv, TypeOK
<1>2. new.job \in JobIds /\ new.user \in Users /\ new \in HandlerState
  BY <1>1, HandlerStates
<1>3. r \in Row /\ r.status = "pending" /\ r.user = new.user
  BY <1>2 DEF Row, HandlerState
<1>4. CASE UNCHANGED <<row, used>>
  BY <1>4
<1>5. CASE /\ ~Exists(new.job)
           /\ ReuseIds \/ new.job \notin used
           /\ row' = [row EXCEPT ![new.job] = r]
           /\ used' = used \cup {new.job}
  <2>. HIDE DEF r, new
  <2>1. Inserted(new.job, new.user)
    BY <1>1, <1>2, <1>3, <1>5 DEF Inserted
  <2>. QED  BY <1>2, <2>1
<1>. QED  BY <1>4, <1>5 DEF InsertRow

\* What a request does to the table, and what it leaves alone.
LEMMA RequestRows ==
    ASSUME TypeInv, Requests
    PROVE  \/ UNCHANGED <<row, used>>
           \/ \E j \in JobIds, u \in Users : Inserted(j, u)
           \/ used' = used /\ \E j \in JobIds : UpdateJobStatus(j, "canceled")
           \/ used' = used /\ ResetDatabase
<1>1. ASSUME NEW h \in Handlers, CancelWrite(h)
      PROVE  /\ used' = used
             /\ \/ UNCHANGED row
                \/ \E j \in JobIds : UpdateJobStatus(j, "canceled")
  <2>1. handler[h].job \in JobIds
    BY <1>1, HandlerStates DEF CancelWrite
  <2>. QED  BY <1>1, <2>1 DEF CancelWrite
<1>2. ASSUME NEW h, NEW j, NEW u, NEW r, Stamp(h, j, u, r) PROVE UNCHANGED <<row, used>>
  BY <1>2 DEF Stamp
<1>3. ASSUME NEW h, NEW j, CancelCheck(h, j) PROVE UNCHANGED <<row, used>>
  BY <1>3 DEF CancelCheck, disk
<1>4. CASE ResetDatabaseHandler
  BY <1>4 DEF ResetDatabaseHandler
<1>. QED
  BY <1>1, <1>2, <1>3, <1>4, InsertRows
     DEF Requests, CreateJob, CreateBuildV1, Write

LEMMA RequestsFrame ==
    Requests => UNCHANGED <<worker, dispatcher, activeUsers, activeBuilds, lockfile,
                            phase, heard, unsaved, crashes>>
<1>1. ASSUME NEW h, NEW j, NEW u, NEW r, Stamp(h, j, u, r)
      PROVE  UNCHANGED <<worker, dispatcher, activeUsers, activeBuilds, lockfile,
                         phase, heard, unsaved, crashes>>
  BY <1>1 DEF Stamp, manager, history
<1>. QED
  BY <1>1 DEF Requests, CreateJob, CreateBuildV1, Write, InsertRow, CancelCheck,
              CancelWrite, ResetDatabaseHandler, manager, history

LEMMA HandlerTypes ==
    ASSUME TypeInv, Requests
    PROVE  /\ handler' \in [Handlers -> HandlerState]
           /\ \A h \in Handlers :
                 /\ handler'[h].pc # "idle" => handler'[h].job \in JobIds
                 /\ handler'[h].pc = "insert" => handler'[h].user \in Users
           /\ clock' \in Nat /\ resets' \in Nat /\ newJobSignal' \in BOOLEAN
<1>. DEFINE Kept == clock' \in Nat /\ resets' \in Nat /\ newJobSignal' \in BOOLEAN
<1>0. /\ handler \in [Handlers -> HandlerState] /\ clock \in Nat
      /\ resets \in Nat /\ newJobSignal \in BOOLEAN
  BY DEF TypeInv, TypeOK
<1>1. ASSUME NEW h \in Handlers, NEW state \in HandlerState,
             handler' = [handler EXCEPT ![h] = state],
             state.pc # "idle" => state.job \in JobIds,
             state.pc = "insert" => state.user \in Users
      PROVE  /\ handler' \in [Handlers -> HandlerState]
             /\ \A k \in Handlers :
                   /\ handler'[k].pc # "idle" => handler'[k].job \in JobIds
                   /\ handler'[k].pc = "insert" => handler'[k].user \in Users
  BY <1>0, <1>1, HandlerStates
<1>2. ASSUME NEW h \in Handlers, NEW j \in JobIds, NEW u \in Users, NEW r \in Int,
             Stamp(h, j, u, r)
      PROVE  /\ handler' \in [Handlers -> HandlerState]
             /\ \A k \in Handlers :
                   /\ handler'[k].pc # "idle" => handler'[k].job \in JobIds
                   /\ handler'[k].pc = "insert" => handler'[k].user \in Users
             /\ Kept
  <2>. DEFINE state == [pc |-> "insert", job |-> j, user |-> u,
                        retryCount |-> r, created |-> clock]
  <2>1. /\ state \in HandlerState /\ state.pc = "insert"
        /\ state.job = j /\ state.user = u
    BY <1>0 DEF HandlerState
  <2>2. handler' = [handler EXCEPT ![h] = state] /\ Kept
    BY <1>0, <1>2 DEF Stamp, history
  <2>. HIDE DEF state
  <2>. QED  BY <1>1, <2>1, <2>2
<1>3. ASSUME NEW h \in Handlers, NEW j \in JobIds, CancelCheck(h, j)
      PROVE  /\ handler' \in [Handlers -> HandlerState]
             /\ \A k \in Handlers :
                   /\ handler'[k].pc # "idle" => handler'[k].job \in JobIds
                   /\ handler'[k].pc = "insert" => handler'[k].user \in Users
             /\ Kept
  <2>. DEFINE state == [IdleHandler EXCEPT !.pc = "cancel", !.job = j]
  <2>1. state \in HandlerState /\ state.pc = "cancel" /\ state.job = j
    BY Blanks DEF HandlerState
  <2>2. handler' = [handler EXCEPT ![h] = state] /\ Kept
    BY <1>0, <1>3 DEF CancelCheck, disk, history
  <2>. HIDE DEF state
  <2>. QED  BY <1>1, <2>1, <2>2
<1>4. ASSUME NEW h \in Handlers, Write(h)
      PROVE  /\ handler' \in [Handlers -> HandlerState]
             /\ \A k \in Handlers :
                   /\ handler'[k].pc # "idle" => handler'[k].job \in JobIds
                   /\ handler'[k].pc = "insert" => handler'[k].user \in Users
             /\ Kept
  <2>1. handler' = [handler EXCEPT ![h] = IdleHandler] /\ Kept
    BY <1>0, <1>4 DEF Write, InsertRow, CancelWrite, SignalNewJob, history
  <2>2. IdleHandler.pc = "idle"
    BY DEF IdleHandler
  <2>. QED  BY <1>1, <2>1, <2>2, Blanks
<1>5. CASE ResetDatabaseHandler
  BY <1>0, <1>5, HandlerStates DEF ResetDatabaseHandler
<1>. QED
  BY <1>2, <1>3, <1>4, <1>5, RetryAssumption DEF Requests, CreateJob, CreateBuildV1

LEMMA TypeRequests == TypeInv /\ Requests => TypeInv'
<1>1. SUFFICES ASSUME TypeInv, Requests PROVE TypeInv'
  OBVIOUS
<1>2. row \in [JobIds -> Row] /\ used \subseteq JobIds
      /\ \A j \in JobIds : Exists(j) => row[j].user \in Users
  BY <1>1 DEF TypeInv, TypeOK, Owners
<1>3. /\ row' \in [JobIds -> Row] /\ used' \subseteq JobIds
      /\ \A j \in JobIds : Exists(j)' => row'[j].user \in Users
  <2>1. ASSUME NEW j \in JobIds, NEW u \in Users, Inserted(j, u) PROVE /\ row' \in [JobIds -> Row] /\ used' \subseteq JobIds
              /\ \A k \in JobIds : Exists(k)' => row'[k].user \in Users
    BY <1>2, <2>1 DEF Inserted, Exists
  <2>2. ASSUME NEW j \in JobIds, UpdateJobStatus(j, "canceled"), used' = used
        PROVE  /\ row' \in [JobIds -> Row] /\ used' \subseteq JobIds
              /\ \A k \in JobIds : Exists(k)' => row'[k].user \in Users
    BY <1>2, <2>2, StatusUpdate DEF Terminal, Exists
  <2>3. CASE used' = used /\ ResetDatabase
    BY <1>2, <2>3 DEF ResetDatabase, AbsentRow, Row, Exists
  <2>4. CASE UNCHANGED <<row, used>>
    BY <1>2, <2>4 DEF Exists
  <2>. QED  BY <1>1, <2>1, <2>2, <2>3, <2>4, RequestRows
<1>. QED
  BY <1>1, <1>3, HandlerTypes, RequestsFrame DEF TypeInv, TypeOK, Owners, HasJob

LEMMA TypeDispatcher == TypeInv /\ Dispatcher => TypeInv'
<1>1. SUFFICES ASSUME TypeInv, Dispatcher PROVE TypeInv'
  OBVIOUS
<1>. USE <1>1 DEF TypeInv, TypeOK, Owners, HasJob, disk, manager, history
<1>2. ASSUME TryToDispatchJob, newJobSignal' \in BOOLEAN
      PROVE  TypeInv'
  BY <1>2 DEF TryToDispatchJob, Exists, DispatcherState
<1>3. ASSUME QueryPending
      PROVE  TypeInv'
  <2>1. /\ dispatcher' \in DispatcherState
        /\ HasJob' => dispatcher'.job \in JobIds /\ dispatcher'.user \in Users
    <3>1. CASE dispatcher' = IdleDispatcher
      BY <3>1, Blanks DEF IdleDispatcher
    <3>2. ASSUME NEW j \in GetPendingJobExcludingUsers(dispatcher.excluded),
                 dispatcher' = [dispatcher EXCEPT !.pc = "register",
                     !.job = j, !.user = row[j].user,
                     !.seen = {k \in JobIds : Exists(k)}]
          PROVE  /\ dispatcher' \in DispatcherState
                 /\ HasJob' => dispatcher'.job \in JobIds /\ dispatcher'.user \in Users
      <4>1. j \in JobIds /\ Exists(j)
        BY DEF GetPendingJobExcludingUsers, Exists
      <4>2. row[j].user \in Users
        BY <4>1
      <4>. QED  BY <3>2, <4>1, <4>2 DEF DispatcherState
    <3>. QED  BY <1>3, <3>1, <3>2 DEF QueryPending
  <2>. QED  BY <1>3, <2>1 DEF QueryPending, Exists
<1>4. ASSUME RegisterJob
      PROVE  TypeInv'
  BY <1>4 DEF RegisterJob, Register, UpdateLockfile, DispatcherState, Exists
<1>5. ASSUME NEW g \in Goroutines, Claim(g)
      PROVE  TypeInv'
  <2>1. dispatcher.job \in JobIds /\ dispatcher.user \in Users
    BY <1>5 DEF Claim
  <2>2. /\ row' \in [JobIds -> Row]
        /\ \A j \in JobIds : Exists(j)' => row'[j].user \in Users
    BY <1>5, <2>1, StatusUpdate DEF Claim, Exists, InProgress
  <2>. QED
    BY <1>5, <2>1, <2>2, Blanks
       DEF Claim, WorkerState, NoWorker, IdleDispatcher
<1>6. ASSUME ClaimFails
      PROVE  TypeInv'
  BY <1>6 DEF ClaimFails, DispatcherState, Exists
<1>7. ASSUME UnregisterJob
      PROVE  TypeInv'
  BY <1>7, Blanks
     DEF UnregisterJob, Unregister, UpdateLockfile, IdleDispatcher, Exists
<1>. QED
  BY <1>2, <1>3, <1>4, <1>5, <1>6, <1>7
     DEF Dispatcher, Tick, ReceiveSignal

WorkerOwners ==
    \A g \in Goroutines :
        \/ worker[g] = NoWorker
        \/ /\ worker[g].pc # "none"
           /\ worker[g].job \in JobIds
           /\ worker[g].user \in Users
           /\ worker[g].pc \in {"finish", "report"} => worker[g].verdict \in Verdicts

\* A worker that goes on stays typed, keeps its job and user, and leaves the
\* other workers alone.
GoesOn(g) ==
    /\ worker' \in [Goroutines -> WorkerState]
    /\ WorkerOwners'
    /\ \A h \in Goroutines : h # g => worker'[h] = worker[h]
    /\ worker'[g].job = worker[g].job
    /\ worker'[g].user = worker[g].user
    /\ worker'[g].pc # "none"

LEMMA WorkerMoves ==
    ASSUME TypeInv, NEW g \in Goroutines, worker[g].pc # "none",
           NEW pc \in {"mark", "build", "tag", "report", "reread", "increment",
                       "requeue", "release"},
           pc = "report" => worker[g].verdict \in Verdicts,
           GoTo(g, pc)
    PROVE  /\ GoesOn(g)
           /\ worker'[g].pc = pc
           /\ worker'[g].verdict = worker[g].verdict
<1>1. /\ worker \in [Goroutines -> WorkerState]
      /\ worker[g] \in WorkerState /\ WorkerOwners
      /\ worker[g].job \in JobIds /\ worker[g].user \in Users
  BY DEF TypeInv, TypeOK, Owners, NoWorker, WorkerOwners
<1>. DEFINE w == [worker[g] EXCEPT !.pc = pc]
<1>2. /\ w \in WorkerState /\ w.pc = pc /\ w.job = worker[g].job
      /\ w.user = worker[g].user /\ w.verdict = worker[g].verdict
  BY <1>1 DEF WorkerState
<1>3. worker' = [worker EXCEPT ![g] = w]
  BY DEF GoTo
<1>. HIDE DEF w
<1>. QED  BY <1>1, <1>2, <1>3 DEF GoesOn, WorkerOwners

LEMMA WorkerDecides ==
    ASSUME TypeInv, NEW g \in Goroutines, worker[g].pc # "none",
           NEW v \in Verdicts, Decide(g, v)
    PROVE  /\ GoesOn(g)
           /\ worker'[g].pc = "finish"
           /\ worker'[g].verdict = v
<1>1. /\ worker \in [Goroutines -> WorkerState]
      /\ worker[g] \in WorkerState /\ WorkerOwners
      /\ worker[g].job \in JobIds /\ worker[g].user \in Users
  BY DEF TypeInv, TypeOK, Owners, NoWorker, WorkerOwners
<1>. DEFINE w == [worker[g] EXCEPT !.pc = "finish", !.verdict = v]
<1>2. /\ w \in WorkerState /\ w.pc = "finish" /\ w.job = worker[g].job
      /\ w.user = worker[g].user /\ w.verdict = v
  BY <1>1 DEF WorkerState
<1>3. worker' = [worker EXCEPT ![g] = w]
  BY <1>1 DEF Decide
<1>. HIDE DEF w
<1>. QED  BY <1>1, <1>2, <1>3 DEF GoesOn, WorkerOwners

LEMMA WorkerAttempts ==
    ASSUME TypeInv, NEW g \in Goroutines, worker[g].pc = "report",
           worker' = [worker EXCEPT ![g].attempt = @ + 1]
    PROVE  /\ GoesOn(g)
           /\ worker'[g].pc = "report"
           /\ worker'[g].verdict = worker[g].verdict
<1>1. /\ worker \in [Goroutines -> WorkerState]
      /\ worker[g] \in WorkerState /\ WorkerOwners
      /\ worker[g].job \in JobIds /\ worker[g].user \in Users
      /\ worker[g].verdict \in Verdicts
  BY DEF TypeInv, TypeOK, Owners, NoWorker, WorkerOwners
<1>. DEFINE w == [worker[g] EXCEPT !.attempt = @ + 1]
<1>2. /\ w \in WorkerState /\ w.pc = "report" /\ w.job = worker[g].job
      /\ w.user = worker[g].user /\ w.verdict = worker[g].verdict
  BY <1>1 DEF WorkerState
<1>3. worker' = [worker EXCEPT ![g] = w]
  BY <1>1
<1>. HIDE DEF w
<1>. QED  BY <1>1, <1>2, <1>3 DEF GoesOn, WorkerOwners

\* A step of a worker that does not end it: the worker goes on, and nothing but
\* its job's row, the backend's knowledge and the signal may change.
LEMMA WorkGoesOn ==
    ASSUME TypeInv, NEW g \in Goroutines, Work(g), ~ReleaseSlot(g)
    PROVE  /\ GoesOn(g)
           /\ worker[g] # NoWorker
           /\ UNCHANGED <<clock, used, activeBuilds, activeUsers, lockfile, phase,
                          dispatcher, handler, crashes, resets>>
           /\ newJobSignal' \in BOOLEAN
<1>1. worker[g].pc # "none" => worker[g] # NoWorker
  BY DEF NoWorker
<1>2. WorkerOnly =>
        /\ UNCHANGED <<clock, used, activeBuilds, activeUsers, lockfile, phase,
                       dispatcher, handler, crashes, resets>>
        /\ newJobSignal' \in BOOLEAN
  BY DEF WorkerOnly, manager, TypeInv, TypeOK
<1>3. CASE OpenLog(g)
  BY <1>1, <1>2, <1>3, WorkerMoves, WorkerDecides DEF OpenLog, Verdicts
<1>4. CASE MarkBuilding(g)
  BY <1>1, <1>2, <1>4, WorkerMoves, WorkerDecides DEF MarkBuilding, Verdicts
<1>5. CASE RunBuild(g)
  BY <1>1, <1>2, <1>5, WorkerMoves, WorkerDecides DEF RunBuild, Verdicts
<1>6. CASE StoreImageTag(g)
  BY <1>1, <1>2, <1>6, WorkerDecides DEF StoreImageTag, Verdicts
<1>7. CASE Finish(g)
  <2>1. worker[g].pc = "finish" /\ worker[g].verdict \in Verdicts
    BY <1>7 DEF Finish, TypeInv, Owners, NoWorker
  <2>. QED  BY <1>1, <1>2, <1>7, <2>1, WorkerMoves DEF Finish
<1>8. CASE ReportResult(g)
  <2>1. worker[g].pc = "report" /\ worker[g].verdict \in Verdicts
    BY <1>8 DEF ReportResult, TypeInv, Owners, NoWorker
  <2>. QED
    BY <1>1, <1>2, <1>8, <2>1, WorkerMoves, WorkerAttempts
       DEF ReportResult, AfterReport
<1>9. CASE RereadJob(g)
  BY <1>1, <1>2, <1>9, WorkerMoves DEF RereadJob
<1>10. CASE CountRetry(g)
  BY <1>1, <1>2, <1>10, WorkerMoves DEF CountRetry
<1>11. CASE Requeue(g)
  <2>1. GoesOn(g) /\ worker[g].pc = "requeue"
    BY <1>11, WorkerMoves DEF Requeue
  <2>. QED  BY <1>1, <1>11, <2>1 DEF Requeue, SignalNewJob, manager, history
<1>. QED
  BY <1>3, <1>4, <1>5, <1>6, <1>7, <1>8, <1>9, <1>10, <1>11 DEF Work

\* No step of a worker makes a row come or go or change hands, and it touches
\* only the row of its own job.
LEMMA WorkRows ==
    ASSUME TypeInv, NEW g \in Goroutines, Work(g)
    PROVE  /\ row' \in [JobIds -> Row]
           /\ \A k \in JobIds : /\ row'[k].user = row[k].user
                                /\ Exists(k)' <=> Exists(k)
                                /\ k # worker[g].job => row'[k] = row[k]
<1>1. row \in [JobIds -> Row]
  BY DEF TypeInv, TypeOK
<1>2. worker[g].pc # "none" => worker[g].job \in JobIds
  BY DEF TypeInv, Owners, NoWorker
<1>3. CASE UNCHANGED row
  BY <1>1, <1>3 DEF Exists
<1>4. ASSUME NEW s \in {"pending"} \cup InProgress \cup Terminal,
             worker[g].pc # "none", UpdateJobStatus(worker[g].job, s)
      PROVE  /\ row' \in [JobIds -> Row]
             /\ \A k \in JobIds : /\ row'[k].user = row[k].user
                                  /\ Exists(k)' <=> Exists(k)
                                  /\ k # worker[g].job => row'[k] = row[k]
  BY <1>1, <1>2, <1>4, StatusUpdate
<1>5. CASE MarkBuilding(g)
  BY <1>3, <1>4, <1>5 DEF MarkBuilding, InProgress
<1>6. CASE StoreImageTag(g)
  <2>. DEFINE j == worker[g].job
              r == [row[j] EXCEPT !.imageTag = TRUE]
  <2>1. j \in JobIds /\ r \in Row /\ r.user = row[j].user /\ r.status = row[j].status
    BY <1>1, <1>2, <1>6 DEF StoreImageTag, Row
  <2>2. row' = row \/ row' = [row EXCEPT ![j] = r]
    BY <1>6 DEF StoreImageTag, NotSaved, UpdateJobImageTag
  <2>. HIDE DEF j, r
  <2>3. /\ row' \in [JobIds -> Row]
        /\ \A k \in JobIds : /\ row'[k].user = row[k].user
                             /\ row'[k].status = row[k].status
                             /\ k # j => row'[k] = row[k]
    BY <1>1, <2>1, <2>2
  <2>. QED  BY <2>3 DEF Exists, j
<1>7. CASE Finish(g)
  <2>1. worker[g].verdict \in Terminal /\ worker[g].pc # "none"
    BY <1>7 DEF Finish, TypeInv, Owners, NoWorker, Terminal, Verdicts
  <2>. QED  BY <1>3, <1>4, <1>7, <2>1 DEF Finish, NotSaved, UpdateJobFinishState
<1>8. CASE CountRetry(g)
  BY <1>1, <1>2, <1>8 DEF CountRetry, IncrementJobRetryCount, Exists, Row
<1>9. CASE Requeue(g)
  BY <1>3, <1>4, <1>9 DEF Requeue
<1>10. CASE ~(\/ MarkBuilding(g) \/ StoreImageTag(g) \/ Finish(g)
              \/ CountRetry(g) \/ Requeue(g))
  BY <1>3, <1>10
     DEF Work, OpenLog, RunBuild, ReportResult, RereadJob, ReleaseSlot, disk
<1>. QED  BY <1>5, <1>6, <1>7, <1>8, <1>9, <1>10

LEMMA TypeWork == ASSUME TypeInv, NEW g \in Goroutines, Work(g) PROVE TypeInv'
<1>1. /\ row' \in [JobIds -> Row]
      /\ \A j \in JobIds : Exists(j)' => row'[j].user \in Users
  BY WorkRows DEF TypeInv, Owners
<1>2. heard' \in [JobIds -> SUBSET Verdicts]
  <2>1. CASE ReportResult(g)
    BY <2>1 DEF ReportResult, BackendHears, TypeInv, TypeOK, Owners, NoWorker
  <2>2. CASE ~ReportResult(g)
    BY <2>2 DEF Work, OpenLog, MarkBuilding, RunBuild, StoreImageTag, Finish,
         RereadJob, CountRetry, Requeue, ReleaseSlot, history, TypeInv, TypeOK
  <2>. QED  BY <2>1, <2>2
<1>5. unsaved' \in [JobIds -> SUBSET {"tag", "verdict"}]
  <2>0. unsaved \in [JobIds -> SUBSET {"tag", "verdict"}]
    BY DEF TypeInv, TypeOK
  <2>1. CASE StoreImageTag(g)
    BY <2>0, <2>1 DEF StoreImageTag, NotSaved, TypeInv, Owners, NoWorker
  <2>2. CASE Finish(g)
    BY <2>0, <2>2 DEF Finish, NotSaved, TypeInv, Owners, NoWorker
  <2>3. CASE ~StoreImageTag(g) /\ ~Finish(g)
    BY <2>0, <2>3 DEF Work, OpenLog, MarkBuilding, RunBuild, ReportResult,
         RereadJob, CountRetry, Requeue, ReleaseSlot, history
  <2>. QED  BY <2>1, <2>2, <2>3
<1>3. CASE ReleaseSlot(g)
  <2>1. worker' \in [Goroutines -> WorkerState] /\ WorkerOwners'
    BY <1>3, Blanks DEF ReleaseSlot, WorkerOwners, TypeInv, TypeOK, Owners
  <2>. QED
    BY <1>1, <1>2, <1>3, <1>5, <2>1
       DEF ReleaseSlot, Unregister, UpdateLockfile, disk, history, TypeInv,
           TypeOK, Owners, WorkerOwners, HasJob, Exists
<1>4. CASE ~ReleaseSlot(g)
  BY <1>1, <1>2, <1>4, <1>5, WorkGoesOn
     DEF GoesOn, TypeInv, TypeOK, Owners, WorkerOwners, HasJob
<1>. QED  BY <1>3, <1>4

LEMMA TypeProcess == TypeInv /\ (Boot \/ Stop) => TypeInv'
<1>1. ASSUME TypeInv, Stop PROVE TypeInv'
  <2>1. TypeOK'
    <3>1. /\ worker' \in [Goroutines -> WorkerState]
          /\ dispatcher' \in DispatcherState
          /\ handler' = [h \in Handlers |-> IdleHandler]
          /\ crashes' \in Nat
          /\ activeBuilds' = {} /\ activeUsers' = {}
          /\ newJobSignal' = FALSE /\ phase' = "down"
      BY <1>1, Blanks DEF Stop, Die, TypeInv, TypeOK
    <3>2. UNCHANGED <<row, clock, used, lockfile, heard, unsaved, resets>>
      BY <1>1 DEF Stop, Die, disk
    <3>. QED  BY <1>1, <3>1, <3>2, Blanks DEF TypeInv, TypeOK
  <2>2. dispatcher'.pc = "idle" /\ \A g \in Goroutines : worker'[g] = NoWorker
    BY <1>1 DEF Stop, Die, IdleDispatcher
  <2>3. UNCHANGED row /\ \A h \in Handlers : handler'[h].pc = "idle"
    BY <1>1 DEF Stop, Die, disk, IdleHandler
  <2>. QED
    BY <1>1, <2>1, <2>2, <2>3 DEF TypeInv, Owners, Exists, HasJob
<1>2. ASSUME TypeInv, OpenDatabase PROVE TypeInv'
  <2>1. /\ row' \in [JobIds -> Row]
        /\ \A j \in JobIds : Exists(j)' => row'[j].user \in Users
    <3>1. ASSUME NEW j \in JobIds
          PROVE  LET back == [row[j] EXCEPT !.status = "pending"]
                 IN  back \in Row /\ back.user = row[j].user /\ back.status = "pending"
      BY <1>2 DEF TypeInv, TypeOK, Row
    <3>. QED
      BY <1>2, <3>1 DEF OpenDatabase, ResetInProgressJobs, TypeInv, TypeOK, Owners,
                        Exists, InProgress
  <2>. QED
    BY <1>2, <2>1 DEF OpenDatabase, TypeInv, TypeOK, Owners, HasJob, manager, history
<1>3. ASSUME TypeInv, NewManager PROVE TypeInv'
  BY <1>3 DEF NewManager, UpdateLockfile, TypeInv, TypeOK, Owners, Exists,
              HasJob, disk, history
<1>. QED  BY <1>1, <1>2, <1>3 DEF Boot

LEMMA CrashStops == TypeInv /\ Crash => Stop
  BY DEF Crash, Stop, TypeInv, TypeOK

LEMMA TypeStep == TypeInv /\ [Moves]_vars => TypeInv'
<1>1. ASSUME TypeInv, UNCHANGED vars PROVE TypeInv'
  BY <1>1 DEF vars, TypeInv, TypeOK, Owners, Exists, HasJob
<1>. QED
  BY <1>1, CrashStops, TypeRequests, TypeDispatcher, TypeWork, TypeProcess DEF Moves, Next

\* Every variable keeps its type, whatever the constants are.
THEOREM Typing == Spec => []TypeOK
<1>1. Init => TypeInv
  BY TypeInit DEF Init
<1>2. TypeInv /\ [Next]_vars => TypeInv'
  BY TypeStep DEF Moves
<1>3. TypeInv => TypeOK
  BY DEF TypeInv
<1>. QED  BY <1>1, <1>2, <1>3, PTL DEF Spec

-----------------------------------------------------------------------------
(* Users. *)

LEMMA UsersInit == ASSUME NEW p, InitIn(p) PROVE UsersApart
  BY DEF InitIn, UsersApart, Live, IdleDispatcher

\* UsersApart looks at these only.
LEMMA UsersFrame ==
    UsersApart /\ UNCHANGED <<worker, dispatcher, activeUsers>> => UsersApart'
  BY DEF UsersApart, Live

LEMMA UsersDispatcher ==
    ASSUME TypeInv, UsersApart, Dispatcher PROVE UsersApart'
<1>. USE DEF UsersApart, Live
<1>1. CASE TryToDispatchJob
  BY <1>1 DEF TryToDispatchJob, TypeInv, TypeOK, DispatcherState, manager
<1>2. CASE QueryPending
  <2>1. UNCHANGED <<worker, activeUsers>>
    BY <1>2 DEF QueryPending, manager
  <2>2. CASE dispatcher' = IdleDispatcher
    BY <2>1, <2>2 DEF IdleDispatcher
  <2>3. ASSUME NEW j \in GetPendingJobExcludingUsers(dispatcher.excluded),
               dispatcher' = [dispatcher EXCEPT !.pc = "register",
                   !.job = j, !.user = row[j].user,
                   !.seen = {k \in JobIds : Exists(k)}]
        PROVE  UsersApart'
    BY <1>2, <2>1, <2>3
       DEF QueryPending, GetPendingJobExcludingUsers, TypeInv, TypeOK, DispatcherState
  <2>. QED  BY <1>2, <2>2, <2>3 DEF QueryPending
<1>3. CASE RegisterJob
  BY <1>3 DEF RegisterJob, Register, TypeInv, TypeOK, DispatcherState
<1>4. ASSUME NEW g \in Goroutines, Claim(g) PROVE UsersApart'
  <2>1. /\ dispatcher.pc = "claim" /\ worker[g] = NoWorker
        /\ dispatcher' = IdleDispatcher /\ UNCHANGED activeUsers
    BY <1>4 DEF Claim, manager
  <2>2. /\ worker'[g].user = dispatcher.user
        /\ \A h \in Goroutines : h # g => worker'[h] = worker[h]
    BY <1>4 DEF Claim, TypeInv, TypeOK, NoWorker
  <2>. QED  BY <2>1, <2>2 DEF IdleDispatcher
<1>5. CASE ClaimFails
  BY <1>5 DEF ClaimFails, TypeInv, TypeOK, DispatcherState, manager
<1>6. CASE UnregisterJob
  BY <1>6 DEF UnregisterJob, Unregister, IdleDispatcher
<1>. QED
  BY <1>1, <1>2, <1>3, <1>4, <1>5, <1>6 DEF Dispatcher, Tick, ReceiveSignal

LEMMA UsersWork ==
    ASSUME TypeInv, UsersApart, NEW g \in Goroutines, Work(g) PROVE UsersApart'
<1>1. CASE ReleaseSlot(g)
  <2>1. /\ worker[g] # NoWorker /\ UNCHANGED dispatcher
        /\ activeUsers' = activeUsers \ {worker[g].user}
        /\ worker'[g] = NoWorker
        /\ \A h \in Goroutines : h # g => worker'[h] = worker[h]
    BY <1>1 DEF ReleaseSlot, Unregister, TypeInv, TypeOK, NoWorker
  <2>. QED  BY <2>1 DEF UsersApart, Live
<1>2. CASE ~ReleaseSlot(g)
  <2>1. /\ worker[g] # NoWorker
        /\ UNCHANGED <<dispatcher, activeUsers>>
        /\ worker'[g].user = worker[g].user
        /\ \A h \in Goroutines : h # g => worker'[h] = worker[h]
    BY <1>2, WorkGoesOn DEF GoesOn
  <2>. QED  BY <2>1 DEF UsersApart, Live
<1>. QED  BY <1>1, <1>2

LEMMA UsersProcess ==
    ASSUME UsersApart, Boot \/ Stop PROVE UsersApart'
<1>1. CASE Stop
  BY <1>1 DEF Stop, Die, UsersApart, Live, IdleDispatcher
<1>2. CASE Boot
  BY <1>2, UsersFrame DEF Boot, OpenDatabase, NewManager, manager
<1>. QED  BY <1>1, <1>2

LEMMA UserStep == UserInv /\ [Moves]_vars => UserInv'
<1>1. SUFFICES ASSUME UserInv, [Moves]_vars PROVE UsersApart'
  BY TypeStep DEF UserInv
<1>2. CASE UNCHANGED vars
  BY <1>1, <1>2, UsersFrame DEF vars, UserInv
<1>3. CASE Requests
  BY <1>1, <1>3, RequestsFrame, UsersFrame DEF UserInv
<1>. QED
  BY <1>1, <1>2, <1>3, CrashStops, UsersDispatcher, UsersWork, UsersProcess
     DEF Moves, Next, UserInv

LEMMA UserInvariant == Spec => []UserInv
<1>1. Init => UserInv
  BY TypeInit, UsersInit DEF Init, UserInv
<1>2. UserInv /\ [Next]_vars => UserInv'
  BY UserStep DEF Moves
<1>. QED  BY <1>1, <1>2, PTL DEF Spec

\* Two builds of one user never overlap, even if ids are reused, statements fail
\* and the process dies.
THEOREM UsersExclude == Spec => []UserExclusive
<1>1. UserInv => UserExclusive
  BY DEF UserInv, UsersApart, UserExclusive
<1>. QED  BY <1>1, UserInvariant, PTL

-----------------------------------------------------------------------------
(* Jobs and the limit, if an id is not used twice. *)

LEMMA SlotsInit ==
    ASSUME NEW p, InitIn(p) PROVE SameOwner /\ JobsApart /\ WithinLimit
  BY FS_EmptySet, LimitAssumption
     DEF InitIn, SameOwner, JobsApart, WithinLimit, HasJob, Exists, Live,
         AbsentRow, IdleDispatcher

\* A row that is there was there, with the same user.
RowsKept == \A k \in JobIds : Exists(k)' => Exists(k) /\ row'[k].user = row[k].user

\* JobsApart and WithinLimit look at these only.
LEMMA SlotsFrame ==
    JobsApart /\ WithinLimit /\ UNCHANGED <<worker, dispatcher, activeBuilds>>
        => JobsApart' /\ WithinLimit'
  BY DEF JobsApart, WithinLimit, HasJob, Live

\* SameOwner follows the rows.
LEMMA OwnerFrame ==
    ASSUME TypeInv, SameOwner, RowsKept, used' = used,
           HasJob' => HasJob /\ dispatcher'.job = dispatcher.job
                             /\ dispatcher'.user = dispatcher.user,
           \A g \in Live' : /\ g \in Live
                            /\ worker'[g].job = worker[g].job
                            /\ worker'[g].user = worker[g].user
    PROVE  SameOwner'
<1>1. \A g \in Live : g \in Goroutines /\ worker[g].job \in JobIds
  BY DEF TypeInv, Owners, Live
<1>2. HasJob => dispatcher.job \in JobIds
  BY DEF TypeInv, Owners
<1>. QED  BY <1>1, <1>2 DEF SameOwner, RowsKept, Exists

LEMMA ActiveShrinks ==
    ASSUME WithinLimit, NEW j, activeBuilds' = activeBuilds \ {j}
    PROVE  /\ IsFiniteSet(activeBuilds')
           /\ Cardinality(activeBuilds') <= MaxConcurrent
           /\ Cardinality(activeBuilds) < MaxConcurrent
                  => Cardinality(activeBuilds') < MaxConcurrent
<1>1. IsFiniteSet(activeBuilds) /\ Cardinality(activeBuilds) \in Nat
  BY FS_CardinalityType DEF WithinLimit
<1>2. /\ IsFiniteSet(activeBuilds')
      /\ Cardinality(activeBuilds') <= Cardinality(activeBuilds)
  BY <1>1, FS_RemoveElement
<1>3. Cardinality(activeBuilds') \in Nat
  BY <1>2, FS_CardinalityType
<1>. QED  BY <1>1, <1>2, <1>3, LimitAssumption DEF WithinLimit

LEMMA OwnerRequests ==
    ASSUME TypeInv, SameOwner, ~ReuseIds, Requests PROVE SameOwner'
<1>0. UNCHANGED <<worker, dispatcher>>
  BY RequestsFrame
<1>1. ASSUME RowsKept, used' = used PROVE SameOwner'
  BY <1>0, <1>1, OwnerFrame DEF HasJob, Live
<1>2. ASSUME NEW j \in JobIds, NEW u \in Users, Inserted(j, u) PROVE SameOwner'
  <2>1. \A g \in Live : worker[g].job \in used /\ worker[g].job \in JobIds
    BY DEF SameOwner, TypeInv, Owners, Live
  <2>2. HasJob => dispatcher.job \in used /\ dispatcher.job \in JobIds
    BY DEF SameOwner, TypeInv, Owners
  <2>. QED  BY <1>0, <1>2, <2>1, <2>2 DEF Inserted, SameOwner, Exists, HasJob, Live
<1>3. ASSUME used' = used, NEW j \in JobIds, UpdateJobStatus(j, "canceled")
      PROVE  SameOwner'
  <2>1. RowsKept
    BY <1>3, StatusUpdate DEF Terminal, RowsKept, TypeInv, TypeOK
  <2>. QED  BY <1>1, <1>3, <2>1
<1>4. CASE used' = used /\ ResetDatabase
  BY <1>1, <1>4 DEF ResetDatabase, AbsentRow, RowsKept, Exists
<1>5. CASE UNCHANGED <<row, used>>
  BY <1>1, <1>5 DEF RowsKept, Exists
<1>. QED  BY <1>2, <1>3, <1>4, <1>5, RequestRows

LEMMA SlotsDispatcher ==
    ASSUME TypeInv, UsersApart, SameOwner, JobsApart, WithinLimit, Dispatcher
    PROVE  SameOwner' /\ JobsApart' /\ WithinLimit'
<1>. DEFINE Goal == SameOwner' /\ JobsApart' /\ WithinLimit'
<1>0. dispatcher \in DispatcherState /\ worker \in [Goroutines -> WorkerState]
      /\ Cardinality(activeBuilds) \in Nat /\ IsFiniteSet(activeBuilds)
      /\ MaxConcurrent \in Nat
  BY FS_CardinalityType, LimitAssumption DEF TypeInv, TypeOK, WithinLimit
<1>1. ASSUME UNCHANGED row PROVE RowsKept
  BY <1>1 DEF RowsKept, Exists
<1>2. CASE TryToDispatchJob
  <2>1. /\ UNCHANGED <<row, used, worker, activeBuilds>>
        /\ \/ UNCHANGED dispatcher
           \/ /\ Cardinality(activeBuilds) < MaxConcurrent
              /\ dispatcher'.pc = "query"
    BY <1>0, <1>2 DEF TryToDispatchJob, disk, manager, DispatcherState
  <2>2. SameOwner'
    BY <1>1, <2>1, OwnerFrame DEF HasJob, Live
  <2>. QED  BY <2>1, <2>2 DEF JobsApart, WithinLimit, HasJob, Live
<1>3. CASE QueryPending
  <2>1. UNCHANGED <<row, used, worker, activeBuilds>> /\ dispatcher.pc = "query"
    BY <1>3 DEF QueryPending, disk, manager
  <2>2. CASE dispatcher' = IdleDispatcher
    <3>1. SameOwner'
      BY <1>1, <2>1, <2>2, OwnerFrame DEF HasJob, Live, IdleDispatcher
    <3>. QED
      BY <2>1, <2>2, <3>1 DEF JobsApart, WithinLimit, HasJob, Live, IdleDispatcher
  <2>3. ASSUME NEW j \in GetPendingJobExcludingUsers(dispatcher.excluded),
               dispatcher' = [dispatcher EXCEPT !.pc = "register",
                   !.job = j, !.user = row[j].user,
                   !.seen = {k \in JobIds : Exists(k)}]
        PROVE  Goal
    <3>1. /\ j \in JobIds /\ Exists(j) /\ row[j].user \notin dispatcher.excluded
      BY DEF GetPendingJobExcludingUsers, Exists
    <3>2. /\ dispatcher'.pc = "register" /\ dispatcher'.job = j
          /\ dispatcher'.user = row[j].user
      BY <1>0, <2>3 DEF DispatcherState
    <3>3. \A g \in Live : worker[g].job # j
      BY <2>1, <3>1 DEF UsersApart, SameOwner
    <3>4. SameOwner'
      BY <2>1, <3>1, <3>2 DEF SameOwner, HasJob, Live, Exists
    <3>. QED
      BY <2>1, <3>2, <3>3, <3>4 DEF JobsApart, WithinLimit, HasJob, Live
  <2>. QED  BY <1>3, <2>2, <2>3 DEF QueryPending
<1>4. CASE RegisterJob
  <2>1. /\ UNCHANGED <<row, used, worker>> /\ dispatcher.pc = "register"
        /\ activeBuilds' = activeBuilds \cup {dispatcher.job}
        /\ dispatcher'.pc = "claim" /\ dispatcher'.job = dispatcher.job
        /\ dispatcher'.user = dispatcher.user
    BY <1>0, <1>4 DEF RegisterJob, Register, disk, DispatcherState
  <2>2. SameOwner'
    BY <1>1, <2>1, OwnerFrame DEF HasJob, Live
  <2>3. JobsApart'
    BY <2>1 DEF JobsApart, HasJob, Live
  <2>4. WithinLimit'
    <3>1. /\ IsFiniteSet(activeBuilds')
          /\ Cardinality(activeBuilds') <= Cardinality(activeBuilds) + 1
      <4>. DEFINE added == activeBuilds \cup {dispatcher.job}
      <4>1. /\ IsFiniteSet(added)
            /\ Cardinality(added) = IF dispatcher.job \in activeBuilds
                                   THEN Cardinality(activeBuilds)
                                   ELSE Cardinality(activeBuilds) + 1
        BY <1>0, FS_AddElement
      <4>2. activeBuilds' = added
        BY <2>1
      <4>. HIDE DEF added
      <4>. QED  BY <1>0, <4>1, <4>2
    <3>2. Cardinality(activeBuilds) < MaxConcurrent /\ Cardinality(activeBuilds') \in Nat
      BY <2>1, <3>1, FS_CardinalityType DEF WithinLimit
    <3>. QED  BY <1>0, <2>1, <3>1, <3>2 DEF WithinLimit
  <2>. QED  BY <2>2, <2>3, <2>4
<1>5. ASSUME NEW g \in Goroutines, Claim(g) PROVE Goal
  <2>1. /\ dispatcher.pc = "claim" /\ worker[g] = NoWorker
        /\ dispatcher' = IdleDispatcher /\ UNCHANGED <<used, activeBuilds>>
    BY <1>5 DEF Claim, manager
  <2>2. /\ worker'[g].job = dispatcher.job /\ worker'[g].user = dispatcher.user
        /\ \A h \in Goroutines : h # g => worker'[h] = worker[h]
    BY <1>0, <1>5 DEF Claim, NoWorker
  <2>3. dispatcher.job \in JobIds
    BY <2>1 DEF TypeInv, Owners, HasJob
  <2>4. RowsKept
    BY <1>5, <2>3, StatusUpdate
       DEF Claim, InProgress, RowsKept, TypeInv, TypeOK
  <2>5. \A h \in Live : worker[h].job \in JobIds
    BY DEF TypeInv, Owners, Live
  <2>6. SameOwner'
    BY <2>1, <2>2, <2>3, <2>4, <2>5
       DEF SameOwner, HasJob, Live, IdleDispatcher, RowsKept, Exists
  <2>7. JobsApart'
    BY <2>1, <2>2 DEF JobsApart, HasJob, Live, IdleDispatcher
  <2>. QED  BY <2>1, <2>6, <2>7 DEF WithinLimit, IdleDispatcher
<1>6. CASE ClaimFails
  <2>1. /\ UNCHANGED <<row, used, worker, activeBuilds>> /\ dispatcher.pc = "claim"
        /\ dispatcher'.pc = "unregister" /\ dispatcher'.job = dispatcher.job
        /\ dispatcher'.user = dispatcher.user
    BY <1>0, <1>6 DEF ClaimFails, disk, manager, DispatcherState
  <2>2. SameOwner'
    BY <1>1, <2>1, OwnerFrame DEF HasJob, Live
  <2>. QED  BY <2>1, <2>2 DEF JobsApart, WithinLimit, HasJob, Live
<1>7. CASE UnregisterJob
  <2>1. /\ UNCHANGED <<row, used, worker>> /\ dispatcher.pc = "unregister"
        /\ activeBuilds' = activeBuilds \ {dispatcher.job}
        /\ dispatcher' = IdleDispatcher
    BY <1>7 DEF UnregisterJob, Unregister, disk
  <2>2. SameOwner'
    BY <1>1, <2>1, OwnerFrame DEF HasJob, Live, IdleDispatcher
  <2>3. JobsApart'
    BY <2>1 DEF JobsApart, HasJob, Live, IdleDispatcher
  <2>4. WithinLimit'
    BY <2>1, ActiveShrinks DEF WithinLimit, IdleDispatcher
  <2>. QED  BY <2>2, <2>3, <2>4
<1>. QED
  BY <1>2, <1>3, <1>4, <1>5, <1>6, <1>7 DEF Dispatcher, Tick, ReceiveSignal

LEMMA SlotsWork ==
    ASSUME TypeInv, SameOwner, JobsApart, WithinLimit,
           NEW g \in Goroutines, Work(g)
    PROVE  SameOwner' /\ JobsApart' /\ WithinLimit'
<1>1. RowsKept
  BY WorkRows DEF RowsKept
<1>2. CASE ReleaseSlot(g)
  <2>1. /\ worker[g] # NoWorker /\ UNCHANGED <<dispatcher, used>>
        /\ activeBuilds' = activeBuilds \ {worker[g].job}
        /\ worker'[g] = NoWorker
        /\ \A h \in Goroutines : h # g => worker'[h] = worker[h]
    BY <1>2 DEF ReleaseSlot, Unregister, TypeInv, TypeOK, NoWorker, disk
  <2>2. SameOwner'
    BY <1>1, <2>1, OwnerFrame DEF HasJob, Live
  <2>3. JobsApart'
    BY <2>1 DEF JobsApart, HasJob, Live
  <2>4. WithinLimit'
    BY <2>1, ActiveShrinks DEF WithinLimit
  <2>. QED  BY <2>2, <2>3, <2>4
<1>3. CASE ~ReleaseSlot(g)
  <2>1. /\ worker[g] # NoWorker
        /\ UNCHANGED <<dispatcher, activeBuilds, used>>
        /\ worker'[g].job = worker[g].job /\ worker'[g].user = worker[g].user
        /\ \A h \in Goroutines : h # g => worker'[h] = worker[h]
    BY <1>3, WorkGoesOn DEF GoesOn
  <2>2. SameOwner'
    BY <1>1, <2>1, OwnerFrame DEF HasJob, Live
  <2>. QED  BY <2>1, <2>2 DEF JobsApart, WithinLimit, HasJob, Live
<1>. QED  BY <1>2, <1>3

LEMMA SlotsProcess ==
    ASSUME TypeInv, SameOwner, JobsApart, WithinLimit, Boot \/ Stop
    PROVE  SameOwner' /\ JobsApart' /\ WithinLimit'
<1>1. CASE Stop
  BY <1>1, FS_EmptySet, LimitAssumption
     DEF Stop, Die, disk, SameOwner, JobsApart, WithinLimit, HasJob, Live,
         Exists, IdleDispatcher
<1>2. CASE Boot
  <2>1. UNCHANGED <<worker, dispatcher, activeBuilds, used>>
    BY <1>2 DEF Boot, OpenDatabase, NewManager, manager, disk
  <2>2. RowsKept
    BY <1>2 DEF Boot, OpenDatabase, NewManager, ResetInProgressJobs, disk,
                RowsKept, Exists, InProgress, TypeInv, TypeOK, Row
  <2>3. SameOwner'
    BY <2>1, <2>2, OwnerFrame DEF HasJob, Live
  <2>. QED  BY <2>1, <2>3, SlotsFrame
<1>. QED  BY <1>1, <1>2

LEMMA SlotStep == ~ReuseIds /\ SlotInv /\ [Moves]_vars => SlotInv'
<1>1. SUFFICES ASSUME ~ReuseIds, SlotInv, [Moves]_vars
               PROVE  SameOwner' /\ JobsApart' /\ WithinLimit'
  BY UserStep DEF SlotInv
<1>. USE DEF SlotInv, UserInv
<1>2. CASE UNCHANGED vars
  <2>1. RowsKept /\ UNCHANGED <<worker, dispatcher, activeBuilds, used>>
    BY <1>2 DEF vars, RowsKept, Exists
  <2>2. SameOwner'
    BY <1>1, <2>1, OwnerFrame DEF HasJob, Live
  <2>. QED  BY <1>1, <2>1, <2>2, SlotsFrame
<1>3. CASE Requests
  BY <1>1, <1>3, OwnerRequests, RequestsFrame, SlotsFrame
<1>. QED
  BY <1>1, <1>2, <1>3, CrashStops, SlotsDispatcher, SlotsWork, SlotsProcess DEF Moves, Next

LEMMA SlotInvariant == ASSUME ~ReuseIds PROVE Spec => []SlotInv
<1>1. Init => SlotInv
  BY TypeInit, UsersInit, SlotsInit DEF Init, SlotInv, UserInv
<1>2. SlotInv /\ [Next]_vars => SlotInv'
  BY SlotStep DEF Moves
<1>. QED  BY <1>1, <1>2, PTL DEF Spec

\* The live workers are no more than the active builds: their jobs are apart.
LEMMA LiveWithinActive ==
    ASSUME SlotInv
    PROVE  IsFiniteSet(Live) /\ Cardinality(Live) <= Cardinality(activeBuilds)
<1>. DEFINE jobOf == [g \in Live |-> worker[g].job]
<1>1. jobOf \in Injection(Live, activeBuilds)
  BY DEF SlotInv, JobsApart, Injection, IsInjective
<1>. QED  BY <1>1, FS_Injection DEF SlotInv, WithinLimit

\* No more worker goroutines than MAX_CONCURRENT_BUILDS, if an id is not used
\* twice.
THEOREM LimitHolds == ASSUME ~ReuseIds PROVE Spec => []ConcurrencyLimit
<1>1. SlotInv => ConcurrencyLimit
  BY LiveWithinActive, FS_CardinalityType, LimitAssumption
     DEF SlotInv, WithinLimit, ConcurrencyLimit
<1>. QED  BY <1>1, SlotInvariant, PTL

-----------------------------------------------------------------------------
(* A success is final, if an id is not used twice. *)

LEMMA SuccessInit == ASSUME NEW p, InitIn(p) PROVE SuccessStored
  BY DEF InitIn, SuccessStored, Live

\* If no worker moves and nothing is heard, only the rows matter.
LEMMA SuccessFrame ==
    ASSUME TypeInv, SameOwner, SuccessStored, used \subseteq used',
           UNCHANGED <<worker, heard>>,
           \A k \in used : Stored(k) => Stored(k)',
           HasJob' => \A j \in JobIds : "success" \in heard[j] => dispatcher'.job # j
    PROVE  SuccessStored'
<1>1. \A g \in Live : worker[g].job \in used /\ worker[g].job \in JobIds
  BY DEF SameOwner, TypeInv, Owners, Live
<1>2. \A g \in Live' : worker'[g].pc = "report" /\ worker'[g].verdict = "success"
                           => Stored(worker[g].job)'
  BY <1>1 DEF SuccessStored, Live, Stored
<1>3. ASSUME NEW j \in JobIds, "success" \in heard[j]
      PROVE  /\ Stored(j)' /\ j \in used'
             /\ HasJob' => dispatcher'.job # j
             /\ \A g \in Live' : worker'[g].job = j =>
                    \/ worker'[g].pc = "report" /\ worker'[g].verdict = "success"
                    \/ worker'[g].pc = "release"
  BY <1>3 DEF SuccessStored, Live
<1>. QED  BY <1>2, <1>3 DEF SuccessStored

LEMMA SuccessRequests ==
    ASSUME TypeInv, SameOwner, SuccessStored, ~ReuseIds, Requests
    PROVE  SuccessStored'
<1>1. UNCHANGED <<worker, dispatcher, heard>>
  BY RequestsFrame
<1>2. ASSUME used \subseteq used', \A k \in used : Stored(k) => Stored(k)'
      PROVE  SuccessStored'
  BY <1>1, <1>2, SuccessFrame DEF SuccessStored, HasJob
<1>3. used \subseteq JobIds /\ row \in [JobIds -> Row]
  BY DEF TypeInv, TypeOK
<1>4. ASSUME NEW j \in JobIds, NEW u \in Users, Inserted(j, u) PROVE SuccessStored'
  BY <1>2, <1>3, <1>4 DEF Inserted, Stored
<1>5. ASSUME used' = used, NEW j \in JobIds, UpdateJobStatus(j, "canceled")
      PROVE  SuccessStored'
  BY <1>2, <1>3, <1>5, StatusUpdate DEF Terminal, Stored
<1>6. CASE used' = used /\ ResetDatabase
  BY <1>2, <1>3, <1>6 DEF ResetDatabase, AbsentRow, Stored
<1>7. CASE UNCHANGED <<row, used>>
  BY <1>2, <1>7 DEF Stored
<1>. QED  BY <1>4, <1>5, <1>6, <1>7, RequestRows

LEMMA SuccessDispatcher ==
    ASSUME TypeInv, SameOwner, JobsApart, SuccessStored, Dispatcher
    PROVE  SuccessStored'
<1>1. dispatcher \in DispatcherState /\ worker \in [Goroutines -> WorkerState]
      /\ used \subseteq JobIds
  BY DEF TypeInv, TypeOK
<1>2. ASSUME UNCHANGED <<row, used, worker, heard>>,
             HasJob' => HasJob /\ dispatcher'.job = dispatcher.job
      PROVE  SuccessStored'
  BY <1>2, SuccessFrame DEF SuccessStored, Stored
<1>3. CASE TryToDispatchJob
  BY <1>1, <1>2, <1>3
     DEF TryToDispatchJob, disk, history, HasJob, DispatcherState
<1>4. CASE QueryPending
  <2>1. UNCHANGED <<row, used, worker, heard>>
    BY <1>4 DEF QueryPending, disk, history
  <2>2. CASE dispatcher' = IdleDispatcher
    BY <1>2, <2>1, <2>2 DEF HasJob, IdleDispatcher
  <2>3. ASSUME NEW j \in GetPendingJobExcludingUsers(dispatcher.excluded),
               dispatcher' = [dispatcher EXCEPT !.pc = "register",
                   !.job = j, !.user = row[j].user,
                   !.seen = {k \in JobIds : Exists(k)}]
        PROVE  SuccessStored'
    <3>1. j \in JobIds /\ row[j].status = "pending" /\ dispatcher'.job = j
      BY <1>1, <2>3 DEF GetPendingJobExcludingUsers, DispatcherState
    <3>2. \A k \in JobIds : "success" \in heard[k] => k # j
      BY <3>1 DEF SuccessStored, Stored
    <3>. QED  BY <2>1, <3>1, <3>2, SuccessFrame DEF Stored
  <2>. QED  BY <1>4, <2>2, <2>3 DEF QueryPending
<1>5. CASE RegisterJob
  BY <1>1, <1>2, <1>5 DEF RegisterJob, disk, history, HasJob, DispatcherState
<1>6. ASSUME NEW g \in Goroutines, Claim(g) PROVE SuccessStored'
  <2>1. /\ HasJob /\ worker[g] = NoWorker /\ ~HasJob'
        /\ UNCHANGED <<used, heard>>
    BY <1>6 DEF Claim, HasJob, IdleDispatcher, history
  <2>2. /\ worker'[g].job = dispatcher.job /\ worker'[g].pc = "open"
        /\ \A h \in Goroutines : h # g => worker'[h] = worker[h]
    BY <1>1, <1>6 DEF Claim, NoWorker
  <2>3. /\ dispatcher.job \in JobIds
        /\ \A k \in JobIds : k # dispatcher.job => row'[k] = row[k]
    BY <1>6, <2>1, StatusUpdate
       DEF Claim, InProgress, TypeInv, TypeOK, Owners
  <2>4. \A h \in Live : worker[h].job \in JobIds /\ worker[h].job # dispatcher.job
    BY <2>1 DEF TypeInv, Owners, Live, JobsApart
  <2>5. \A h \in Live' : worker'[h].pc = "report" /\ worker'[h].verdict = "success"
                             => Stored(worker[h].job)'
    BY <2>2, <2>3, <2>4 DEF SuccessStored, Live, Stored
  <2>6. ASSUME NEW j \in JobIds, "success" \in heard[j]
        PROVE  /\ Stored(j)' /\ j \in used
               /\ \A h \in Live' : worker'[h].job = j =>
                      \/ worker'[h].pc = "report" /\ worker'[h].verdict = "success"
                      \/ worker'[h].pc = "release"
    BY <2>1, <2>2, <2>3, <2>6 DEF SuccessStored, Live, Stored
  <2>. QED  BY <2>1, <2>5, <2>6 DEF SuccessStored
<1>7. CASE ClaimFails
  BY <1>1, <1>2, <1>7 DEF ClaimFails, disk, history, HasJob, DispatcherState
<1>8. CASE UnregisterJob
  BY <1>2, <1>8 DEF UnregisterJob, disk, history, HasJob, IdleDispatcher
<1>. QED
  BY <1>3, <1>4, <1>5, <1>6, <1>7, <1>8 DEF Dispatcher, Tick, ReceiveSignal

\* What a worker's step means for a success: it is stored before the worker
\* comes to report it, and once heard of it is left alone.
LEMMA WorkSuccess ==
    ASSUME TypeInv, NEW g \in Goroutines, Work(g), ~ReleaseSlot(g),
           worker[g].pc = "report" /\ worker[g].verdict = "success"
               => Stored(worker[g].job)
    PROVE  /\ worker'[g].pc = "report" /\ worker'[g].verdict = "success"
                 => Stored(worker[g].job)'
           /\ worker[g].pc = "report" /\ worker[g].verdict = "success" =>
                 /\ UNCHANGED row
                 /\ \/ worker'[g].pc = "report" /\ worker'[g].verdict = "success"
                    \/ worker'[g].pc = "release"
           /\ worker[g].pc # "release"
           /\ \/ UNCHANGED heard
              \/ /\ worker[g].pc = "report"
                 /\ heard' = [heard EXCEPT ![worker[g].job] =
                                              @ \cup {worker[g].verdict}]
<1>1. /\ worker[g].pc # "none" => worker[g].job \in JobIds
      /\ worker'[g].job = worker[g].job
  BY WorkGoesOn DEF GoesOn, TypeInv, Owners, NoWorker
<1>2. CASE ReportResult(g)
  <2>1. worker[g].pc = "report" /\ worker[g].verdict \in Verdicts /\ UNCHANGED row
    BY <1>2 DEF ReportResult, TypeInv, Owners, NoWorker
  <2>2. \/ worker'[g].pc = "report" /\ worker'[g].verdict = worker[g].verdict
        \/ GoTo(g, AfterReport(g))
    BY <1>2, <2>1, WorkerAttempts DEF ReportResult
  <2>3. CASE GoTo(g, AfterReport(g))
    BY <1>2, <2>1, <2>3, WorkerMoves DEF AfterReport, ReportResult, BackendHears
  <2>. QED  BY <1>1, <1>2, <2>1, <2>2, <2>3 DEF ReportResult, BackendHears, Stored
<1>3. CASE Finish(g)
  <2>1. worker[g].pc = "finish" /\ worker[g].verdict \in Verdicts /\ UNCHANGED heard
    BY <1>3 DEF Finish, TypeInv, Owners, NoWorker
  <2>2. worker'[g].verdict = worker[g].verdict
    BY <1>3, <2>1, WorkerMoves DEF Finish
  <2>3. CASE UpdateJobFinishState(worker[g].job, worker[g].verdict)
    BY <1>1, <2>1, <2>2, <2>3, StatusUpdate
       DEF UpdateJobFinishState, Terminal, Verdicts, Stored, TypeInv, TypeOK
  <2>4. CASE GoTo(g, IF worker[g].verdict = "failed" THEN "report" ELSE "release")
    BY <2>1, <2>2, <2>4, WorkerMoves
  <2>. QED  BY <1>3, <2>1, <2>3, <2>4 DEF Finish
<1>4. CASE OpenLog(g) \/ MarkBuilding(g) \/ RunBuild(g) \/ StoreImageTag(g)
           \/ RereadJob(g) \/ CountRetry(g) \/ Requeue(g)
  <2>1. worker[g].pc \notin {"report", "release"} /\ UNCHANGED heard
    BY <1>4 DEF OpenLog, MarkBuilding, RunBuild, StoreImageTag, RereadJob,
                CountRetry, Requeue, history
  <2>2. worker'[g].pc # "report"
    BY <1>4, WorkerMoves, WorkerDecides
       DEF OpenLog, MarkBuilding, RunBuild, StoreImageTag, RereadJob,
           CountRetry, Requeue, Verdicts
  <2>. QED  BY <2>1, <2>2
<1>. QED  BY <1>2, <1>3, <1>4 DEF Work

LEMMA SuccessWork ==
    ASSUME TypeInv, SameOwner, JobsApart, SuccessStored,
           NEW g \in Goroutines, Work(g)
    PROVE  SuccessStored'
<1>1. CASE ReleaseSlot(g)
  BY <1>1 DEF ReleaseSlot, SuccessStored, Live, Stored, HasJob, TypeInv, TypeOK,
              disk, history
<1>2. CASE ~ReleaseSlot(g)
  <2>. DEFINE job == worker[g].job
  <2>1. /\ g \in Live /\ g \in Live' /\ job \in JobIds /\ job \in used
        /\ UNCHANGED <<dispatcher, used>> /\ worker'[g].job = job
        /\ \A h \in Goroutines : h # g => worker'[h] = worker[h]
    BY <1>2, WorkGoesOn DEF GoesOn, Live, TypeInv, Owners, SameOwner, NoWorker
  <2>2. \A k \in JobIds : k # job => row'[k] = row[k]
    BY WorkRows
  <2>3. \A h \in Live : h # g => worker[h].job \in JobIds /\ worker[h].job # job
    BY <2>1 DEF JobsApart, TypeInv, Owners, Live
  <2>4. HasJob => dispatcher.job # job
    BY <2>1 DEF JobsApart
  <2>5. worker[g].pc = "report" /\ worker[g].verdict = "success" => Stored(job)
    BY <2>1 DEF SuccessStored
  <2>6. \A h \in Live' : worker'[h].pc = "report" /\ worker'[h].verdict = "success"
                             => Stored(worker[h].job)'
    BY <1>2, <2>1, <2>2, <2>3, <2>5, WorkSuccess DEF SuccessStored, Live, Stored
  <2>7. ASSUME NEW j \in JobIds, "success" \in heard[j]
        PROVE  /\ Stored(j)' /\ j \in used
               /\ HasJob => dispatcher.job # j
               /\ \A h \in Live' : worker'[h].job = j =>
                      \/ worker'[h].pc = "report" /\ worker'[h].verdict = "success"
                      \/ worker'[h].pc = "release"
    <3>1. Stored(j) /\ j \in used /\ (HasJob => dispatcher.job # j)
      BY <2>7 DEF SuccessStored
    <3>2. CASE j = job
      BY <1>2, <2>1, <2>3, <2>5, <2>7, <3>1, <3>2, WorkSuccess
         DEF SuccessStored, Live, Stored
    <3>3. CASE j # job
      BY <2>1, <2>2, <2>7, <3>1, <3>3 DEF SuccessStored, Live, Stored
    <3>. QED  BY <3>1, <3>2, <3>3
  <2>8. ASSUME NEW j \in JobIds, "success" \in heard'[j], "success" \notin heard[j]
        PROVE  /\ Stored(j)' /\ j \in used
               /\ HasJob => dispatcher.job # j
               /\ \A h \in Live' : worker'[h].job = j =>
                      \/ worker'[h].pc = "report" /\ worker'[h].verdict = "success"
                      \/ worker'[h].pc = "release"
    <3>1. j = job /\ worker[g].pc = "report" /\ worker[g].verdict = "success"
      BY <1>2, <2>1, <2>5, <2>8, WorkSuccess DEF TypeInv, TypeOK
    <3>. QED
      BY <1>2, <2>1, <2>3, <2>4, <2>5, <3>1, WorkSuccess DEF Live, Stored
  <2>. QED  BY <2>1, <2>6, <2>7, <2>8 DEF SuccessStored, HasJob
<1>. QED  BY <1>1, <1>2

LEMMA SuccessProcess ==
    ASSUME TypeInv, SameOwner, SuccessStored, Boot \/ Stop
    PROVE  SuccessStored'
<1>1. CASE Stop
  BY <1>1 DEF Stop, Die, disk, SuccessStored, Live, Stored, HasJob, IdleDispatcher
<1>2. CASE Boot
  <2>1. UNCHANGED <<worker, dispatcher, heard, used>>
    BY <1>2 DEF Boot, OpenDatabase, NewManager, manager, disk, history
  <2>2. \A k \in used : Stored(k) => Stored(k)'
    BY <1>2 DEF Boot, OpenDatabase, NewManager, ResetInProgressJobs, disk,
                Stored, InProgress, TypeInv, TypeOK
  <2>. QED  BY <2>1, <2>2, SuccessFrame DEF SuccessStored, HasJob
<1>. QED  BY <1>1, <1>2

LEMMA ServiceInvStep == ~ReuseIds /\ ServiceInv /\ [Moves]_vars => ServiceInv'
<1>1. SUFFICES ASSUME ~ReuseIds, ServiceInv, [Moves]_vars PROVE SuccessStored'
  BY SlotStep DEF ServiceInv
<1>. USE DEF ServiceInv, SlotInv, UserInv
<1>2. CASE UNCHANGED vars
  BY <1>1, <1>2 DEF vars, SuccessStored, Live, Stored, HasJob
<1>3. CASE Requests
  BY <1>1, <1>3, SuccessRequests
<1>. QED
  BY <1>1, <1>2, <1>3, CrashStops, SuccessDispatcher, SuccessWork, SuccessProcess
     DEF Moves, Next

\* The whole inductive invariant.
THEOREM ServiceInvariant == ASSUME ~ReuseIds PROVE Spec => []ServiceInv
<1>1. Init => ServiceInv
  BY TypeInit, UsersInit, SlotsInit, SuccessInit DEF Init, ServiceInv, SlotInv, UserInv
<1>2. ServiceInv /\ [Next]_vars => ServiceInv'
  BY ServiceInvStep DEF Moves
<1>. QED  BY <1>1, <1>2, PTL DEF Spec

\* What the backend has heard of a success agrees with the row.
THEOREM BackendStaysRight == ASSUME ~ReuseIds PROVE Spec => []BackendAgrees
<1>1. ServiceInv => BackendAgrees
  BY DEF ServiceInv, SuccessStored, Stored, BackendAgrees
<1>. QED  BY <1>1, ServiceInvariant, PTL

\* A worker goroutine is started for the dispatcher's job only.
LEMMA StartsDispatched ==
    ASSUME TypeInv, [Next]_vars, NEW g \in Goroutines,
           worker[g].pc = "none", worker'[g].pc # "none"
    PROVE  HasJob /\ worker'[g].job = dispatcher.job
<1>1. worker[g] = NoWorker /\ worker \in [Goroutines -> WorkerState]
  BY DEF TypeInv, TypeOK, Owners
<1>2. CASE UNCHANGED worker
  BY <1>2
<1>3. ASSUME NEW h \in Goroutines, Claim(h) PROVE HasJob /\ worker'[g].job = dispatcher.job
  BY <1>1, <1>3 DEF Claim, HasJob, NoWorker
<1>4. ASSUME NEW h \in Goroutines, Work(h) PROVE FALSE
  <2>1. CASE ReleaseSlot(h)
    BY <1>1, <2>1 DEF ReleaseSlot, NoWorker
  <2>2. CASE ~ReleaseSlot(h)
    BY <1>1, <1>4, <2>2, WorkGoesOn DEF GoesOn
  <2>. QED  BY <2>1, <2>2
<1>5. CASE Crash
  BY <1>5 DEF Crash, Die, NoWorker
<1>6. CASE Boot
  BY <1>2, <1>6 DEF Boot, OpenDatabase, NewManager
<1>7. CASE Requests
  BY <1>2, <1>7, RequestsFrame
<1>8. CASE Dispatcher /\ ~\E h \in Goroutines : Claim(h)
  BY <1>2, <1>8
     DEF Dispatcher, Tick, ReceiveSignal, TryToDispatchJob, QueryPending,
         RegisterJob, ClaimFails, UnregisterJob
<1>. QED
  BY <1>2, <1>3, <1>4, <1>5, <1>6, <1>7, <1>8 DEF Next, vars

\* No worker starts on a job whose success the backend has heard of.
THEOREM SuccessIsFinal == ASSUME ~ReuseIds PROVE Spec => NoRebuildAfterSuccess
<1>1. ASSUME ServiceInv, [Next]_vars, NEW g \in Goroutines,
             worker[g].pc = "none", worker'[g].pc # "none"
      PROVE  "success" \notin heard[worker'[g].job]
  BY <1>1, StartsDispatched
     DEF ServiceInv, SlotInv, UserInv, SuccessStored, TypeInv, Owners
<1>2. ServiceInv /\ [Next]_vars =>
        [\A g \in Goroutines :
            worker[g].pc = "none" /\ worker'[g].pc # "none"
                => "success" \notin heard[worker'[g].job]]_vars
  BY <1>1
<1>. QED  BY <1>2, ServiceInvariant, PTL DEF Spec, NoRebuildAfterSuccess

-----------------------------------------------------------------------------
(* The service implements BuildSlots, if an id is not used twice; its steps do so *)
(* whenever the process is stopped. *)

LEMMA InitMaps == ASSUME NEW p, InitIn(p) PROVE Slots!SlotsInit
  BY DEF InitIn, Slots!SlotsInit, Running, Succeeded, Live

LEMMA RunningBuilds ==
    ASSUME TypeInv PROVE \A g \in Live : BuildOf(g) \in Slots!Build
  BY DEF TypeInv, Owners, Live, BuildOf, Slots!Build

\* Steps that neither move a worker nor tell the backend anything stutter.
LEMMA RunningFrame ==
    UNCHANGED <<worker, heard>> => UNCHANGED <<Running, Succeeded>>
  BY DEF Running, Succeeded, BuildOf, Live

\* BuildSlots counts with its own instance of FiniteSets.
LEMMA SameCardinality == \A S : Slots!Cardinality(S) = Cardinality(S)
  BY DEF Slots!Cardinality, Cardinality, Slots!IsFiniteSet, IsFiniteSet

\* There is a free slot when the dispatcher claims: it keeps one of the
\* activeBuilds, and each running build has another.
LEMMA SlotIsFree ==
    ASSUME SlotInv, dispatcher.pc = "claim"
    PROVE  Cardinality(Running) < MaxConcurrent
<1>. DEFINE others == activeBuilds \ {dispatcher.job}
            jobOf == [b \in Running |-> b.job]
<1>1. /\ IsFiniteSet(activeBuilds) /\ Cardinality(activeBuilds) \in Nat
      /\ Cardinality(activeBuilds) <= MaxConcurrent
      /\ dispatcher.job \in activeBuilds
  BY FS_CardinalityType DEF SlotInv, WithinLimit, JobsApart
<1>2. IsFiniteSet(others) /\ Cardinality(others) = Cardinality(activeBuilds) - 1
  BY <1>1, FS_RemoveElement
<1>3. jobOf \in Injection(Running, others)
  <2>1. \A g \in Live : BuildOf(g).job \in others
    BY DEF SlotInv, JobsApart, HasJob, BuildOf
  <2>2. \A g, h \in Live : BuildOf(g).job = BuildOf(h).job => BuildOf(g) = BuildOf(h)
    BY DEF SlotInv, JobsApart, BuildOf
  <2>. QED  BY <2>1, <2>2 DEF Injection, IsInjective, Running
<1>4. IsFiniteSet(Running) /\ Cardinality(Running) <= Cardinality(others)
  BY <1>2, <1>3, FS_Injection
<1>5. Cardinality(Running) \in Nat
  BY <1>4, FS_CardinalityType
<1>. HIDE DEF others
<1>. QED  BY <1>1, <1>2, <1>4, <1>5, LimitAssumption

LEMMA ClaimStarts ==
    ASSUME ServiceInv, NEW g \in Goroutines, Claim(g)
    PROVE  \E b \in Slots!Build : Slots!Start(b)
<1>. DEFINE b == [job |-> dispatcher.job, user |-> dispatcher.user]
<1>1. /\ dispatcher.pc = "claim" /\ worker[g] = NoWorker /\ UNCHANGED heard
      /\ worker'[g].pc = "open" /\ worker'[g].job = dispatcher.job
      /\ worker'[g].user = dispatcher.user
      /\ \A h \in Goroutines : h # g => worker'[h] = worker[h]
  BY DEF Claim, history, ServiceInv, SlotInv, UserInv, TypeInv, TypeOK, NoWorker
<1>2. b \in Slots!Build /\ b.job \notin Succeeded
  BY <1>1 DEF ServiceInv, SlotInv, UserInv, TypeInv, Owners, SuccessStored,
              HasJob, Slots!Build, Succeeded
<1>3. Cardinality(Running) < MaxConcurrent
  BY <1>1, SlotIsFree DEF ServiceInv
<1>4. \A r \in Running : r.job # b.job /\ r.user # b.user
  BY <1>1 DEF ServiceInv, SlotInv, UserInv, UsersApart, JobsApart, HasJob,
              Running, BuildOf
<1>5. Running' = Running \cup {b}
  BY <1>1 DEF Running, BuildOf, Live, NoWorker
<1>6. Succeeded' = Succeeded
  BY <1>1 DEF Succeeded
<1>. HIDE DEF b
<1>. QED
  BY <1>2, <1>3, <1>4, <1>5, <1>6, SameCardinality DEF Slots!Start

LEMMA WorkMaps ==
    ASSUME ServiceInv, NEW g \in Goroutines, Work(g)
    PROVE  \/ \E b \in Slots!Build : Slots!Succeed(b) \/ Slots!Finish(b)
           \/ UNCHANGED <<Running, Succeeded>>
<1>. USE DEF ServiceInv, SlotInv, UserInv
<1>1. CASE ReleaseSlot(g)
  <2>1. /\ g \in Live /\ worker'[g] = NoWorker /\ UNCHANGED heard
        /\ \A h \in Goroutines : h # g => worker'[h] = worker[h]
    BY <1>1 DEF ReleaseSlot, history, TypeInv, TypeOK, Live, NoWorker
  <2>2. \A h \in Live : BuildOf(h) = BuildOf(g) => h = g
    BY <2>1 DEF JobsApart, BuildOf
  <2>3. \A h \in Goroutines : h # g => BuildOf(h)' = BuildOf(h)
    BY <2>1 DEF BuildOf
  <2>4. /\ \A h \in Live : h = g \/ (h \in Live' /\ BuildOf(h)' = BuildOf(h))
        /\ \A h \in Live' : h # g /\ h \in Live /\ BuildOf(h)' = BuildOf(h)
    BY <2>1, <2>3 DEF Live
  <2>5. Running' = Running \ {BuildOf(g)}
    BY <2>1, <2>2, <2>4 DEF Running
  <2>6. Succeeded' = Succeeded /\ BuildOf(g) \in Running
    BY <2>1 DEF Succeeded, Running
  <2>7. Slots!Finish(BuildOf(g))
    BY <2>5, <2>6 DEF Slots!Finish
  <2>. QED  BY <2>1, <2>7, RunningBuilds
<1>2. CASE ~ReleaseSlot(g)
  <2>1. /\ g \in Live /\ g \in Live'
        /\ worker'[g].job = worker[g].job /\ worker'[g].user = worker[g].user
        /\ \A h \in Goroutines : h # g => worker'[h] = worker[h]
    BY <1>2, WorkGoesOn DEF GoesOn, Live, NoWorker
  <2>2. Live' = Live /\ \A h \in Live : BuildOf(h)' = BuildOf(h)
    BY <2>1 DEF Live, BuildOf
  <2>3. Running' = Running /\ BuildOf(g) \in Running
    BY <2>1, <2>2 DEF Running
  <2>4. worker[g].job \in JobIds /\ heard \in [JobIds -> SUBSET Verdicts]
    BY <2>1 DEF TypeInv, TypeOK, Owners, Live
  <2>5. \/ UNCHANGED heard
        \/ heard' = [heard EXCEPT ![worker[g].job] = @ \cup {worker[g].verdict}]
    BY <1>2, <2>1, WorkSuccess DEF SuccessStored
  <2>6. \/ Succeeded' = Succeeded
        \/ Succeeded' = Succeeded \cup {BuildOf(g).job}
    BY <2>4, <2>5 DEF Succeeded, BuildOf
  <2>7. Succeeded' = Succeeded \cup {BuildOf(g).job} => Slots!Succeed(BuildOf(g))
    BY <2>1, <2>3 DEF Slots!Succeed
  <2>. QED  BY <2>1, <2>3, <2>6, <2>7, RunningBuilds
<1>. QED  BY <1>1, <1>2

LEMMA StepMaps ==
    ServiceInv /\ [Moves]_vars => [Slots!SlotsNext]_(Slots!slotVars)
<1>1. SUFFICES ASSUME ServiceInv, [Moves]_vars
               PROVE  Slots!SlotsNext \/ UNCHANGED <<Running, Succeeded>>
  BY DEF Slots!slotVars
<1>2. ASSUME UNCHANGED <<worker, heard>> PROVE UNCHANGED <<Running, Succeeded>>
  BY <1>2, RunningFrame
<1>3. CASE UNCHANGED vars
  BY <1>2, <1>3 DEF vars
<1>4. CASE Requests
  BY <1>2, <1>4, RequestsFrame
<1>5. ASSUME NEW g \in Goroutines, Claim(g) PROVE Slots!SlotsNext
  BY <1>1, <1>5, ClaimStarts DEF Slots!SlotsNext
<1>6. CASE Dispatcher /\ ~\E g \in Goroutines : Claim(g)
  BY <1>2, <1>6
     DEF Dispatcher, Tick, ReceiveSignal, TryToDispatchJob, QueryPending,
         RegisterJob, ClaimFails, UnregisterJob, history
<1>7. ASSUME NEW g \in Goroutines, Work(g)
      PROVE  Slots!SlotsNext \/ UNCHANGED <<Running, Succeeded>>
  BY <1>1, <1>7, WorkMaps DEF Slots!SlotsNext
<1>8. CASE Boot
  BY <1>2, <1>8 DEF Boot, OpenDatabase, NewManager, history
<1>9. CASE Crash \/ Stop
  <2>1. Running' = {} /\ Succeeded' = Succeeded
    BY <1>9 DEF Crash, Stop, Die, Running, Live, Succeeded
  <2>2. Slots!Interrupt
    BY <2>1 DEF Slots!Interrupt
  <2>. QED  BY <2>2 DEF Slots!SlotsNext
<1>. QED
  BY <1>1, <1>3, <1>4, <1>5, <1>6, <1>7, <1>8, <1>9 DEF Next, Moves

\* The service keeps what BuildSlots promises of the builds it runs, if no id is used
\* twice: with ids used again after a reset the limit can be exceeded.
THEOREM Implementation == ASSUME ~ReuseIds PROVE Spec => ImplementsSlots
<1>1. Init => Slots!SlotsInit
  BY InitMaps DEF Init
<1>2. ServiceInv /\ [Next]_vars => [Slots!SlotsNext]_(Slots!slotVars)
  BY StepMaps DEF Moves
<1>. QED
  BY <1>1, <1>2, ServiceInvariant, PTL DEF Spec, ImplementsSlots, Slots!SlotsSpec

-----------------------------------------------------------------------------
(* The lockfile, if ids are not used twice. *)

LEMMA LockInit == ASSUME NEW p, InitIn(p) PROVE LockInv
  BY DEF InitIn, LockInv, DownIsIdle, LockfileMatches, ActiveHeld, Live

\* LockInv looks at these only.
LEMMA LockFrame ==
    LockInv /\ UNCHANGED <<worker, dispatcher, activeBuilds, lockfile, phase>> => LockInv'
  BY DEF LockInv, DownIsIdle, LockfileMatches, ActiveHeld, Live

LEMMA LockDispatcher == ASSUME TypeInv, LockInv, Dispatcher PROVE LockInv'
<1>. USE DEF LockInv, DownIsIdle, LockfileMatches, ActiveHeld, Live
<1>0. dispatcher \in DispatcherState /\ worker \in [Goroutines -> WorkerState]
  BY DEF TypeInv, TypeOK
<1>1. CASE TryToDispatchJob
  BY <1>0, <1>1 DEF TryToDispatchJob, manager, DispatcherState
<1>2. CASE QueryPending
  <2>1. dispatcher.pc = "query" /\ UNCHANGED <<worker, activeBuilds, lockfile, phase>>
    BY <1>2 DEF QueryPending, manager
  <2>2. phase = "up"
    BY <2>1 DEF IdleDispatcher
  <2>. QED  BY <2>1, <2>2
<1>3. CASE RegisterJob
  <2>1. /\ dispatcher.pc = "register" /\ dispatcher'.pc = "claim"
        /\ dispatcher'.job = dispatcher.job
        /\ activeBuilds' = activeBuilds \cup {dispatcher.job}
        /\ LockWritable => lockfile' = (activeBuilds' # {})
        /\ UNCHANGED <<worker, phase>>
    BY <1>0, <1>3 DEF RegisterJob, Register, UpdateLockfile, DispatcherState
  <2>. QED  BY <2>1 DEF IdleDispatcher
<1>4. ASSUME NEW g \in Goroutines, Claim(g) PROVE LockInv'
  <2>1. /\ dispatcher.pc = "claim" /\ worker[g] = NoWorker
        /\ worker'[g].pc = "open" /\ worker'[g].job = dispatcher.job
        /\ \A h \in Goroutines : h # g => worker'[h] = worker[h]
        /\ UNCHANGED <<activeBuilds, lockfile, phase>>
    BY <1>0, <1>4 DEF Claim, manager, NoWorker
  <2>2. worker'[g] # NoWorker
    BY <2>1 DEF NoWorker
  <2>. QED  BY <2>1, <2>2 DEF IdleDispatcher
<1>5. CASE ClaimFails
  BY <1>0, <1>5 DEF ClaimFails, manager, DispatcherState, IdleDispatcher
<1>6. CASE UnregisterJob
  <2>1. /\ dispatcher.pc = "unregister" /\ UNCHANGED <<worker, phase>>
        /\ activeBuilds' = activeBuilds \ {dispatcher.job}
        /\ LockWritable => lockfile' = (activeBuilds' # {})
    BY <1>6 DEF UnregisterJob, Unregister, UpdateLockfile
  <2>. QED  BY <2>1 DEF IdleDispatcher
<1>. QED
  BY <1>1, <1>2, <1>3, <1>4, <1>5, <1>6 DEF Dispatcher, Tick, ReceiveSignal

LEMMA LockWork ==
    ASSUME TypeInv, LockInv, NEW g \in Goroutines, Work(g) PROVE LockInv'
<1>. USE DEF LockInv, DownIsIdle, LockfileMatches, ActiveHeld, Live
<1>1. CASE ReleaseSlot(g)
  <2>1. /\ worker[g] # NoWorker /\ UNCHANGED <<dispatcher, phase>>
        /\ activeBuilds' = activeBuilds \ {worker[g].job}
        /\ LockWritable => lockfile' = (activeBuilds' # {})
        /\ \A h \in Goroutines : h # g => worker'[h] = worker[h]
    BY <1>1 DEF ReleaseSlot, Unregister, UpdateLockfile, TypeInv, TypeOK, NoWorker
  <2>. QED  BY <2>1
<1>2. CASE ~ReleaseSlot(g)
  <2>1. /\ worker[g] # NoWorker /\ worker'[g] # NoWorker
        /\ worker'[g].job = worker[g].job
        /\ \A h \in Goroutines : h # g => worker'[h] = worker[h]
        /\ UNCHANGED <<dispatcher, activeBuilds, lockfile, phase>>
    BY <1>2, WorkGoesOn DEF GoesOn, NoWorker
  <2>. QED  BY <2>1
<1>. QED  BY <1>1, <1>2

LEMMA LockProcess == ASSUME LockInv, Boot \/ Stop PROVE LockInv'
<1>. USE DEF LockInv, DownIsIdle, LockfileMatches, ActiveHeld, Live
<1>1. CASE Stop
  BY <1>1 DEF Stop, Die
<1>2. CASE OpenDatabase
  BY <1>2 DEF OpenDatabase, manager
<1>3. CASE NewManager
  BY <1>3 DEF NewManager, UpdateLockfile
<1>. QED  BY <1>1, <1>2, <1>3 DEF Boot

LEMMA LockStep == TypeInv /\ LockInv /\ [Moves]_vars => LockInv'
<1>1. CASE UNCHANGED vars
  BY <1>1, LockFrame DEF vars
<1>2. CASE Requests
  BY <1>2, RequestsFrame, LockFrame
<1>. QED
  BY <1>1, <1>2, CrashStops, LockDispatcher, LockWork, LockProcess DEF Moves, Next

LEMMA LockTells == SlotInv /\ LockInv /\ LockWritable => LockfileTellsTheTruth
  BY DEF SlotInv, JobsApart, LockInv, LockfileMatches, ActiveHeld, LockfileTellsTheTruth

\* While a build goes on, the lockfile says so, and it says nothing else once the
\* manager is up, if the process may write it and no id is used twice.
THEOREM LockfileIsTrue ==
    ASSUME ~ReuseIds, LockWritable PROVE Spec => []LockfileTellsTheTruth
<1>1. Init => LockInv
  BY LockInit DEF Init
<1>2. SlotInv /\ LockInv /\ [Next]_vars => LockInv'
  BY LockStep DEF Moves, SlotInv, UserInv
<1>3. SlotInv /\ LockInv => LockfileTellsTheTruth
  BY LockTells
<1>. QED  BY <1>1, <1>2, <1>3, SlotInvariant, PTL DEF Spec

-----------------------------------------------------------------------------
(* Rows in progress. *)

LEMMA HeldInit == ASSUME NEW p, InitIn(p) PROVE InProgressHeld
  BY DEF InitIn, InProgressHeld, AbsentRow, InProgress

\* If the workers do not move, no row may come to be in progress.
LEMMA HeldFrame ==
    ASSUME InProgressHeld, UNCHANGED <<worker, unsaved>>,
           phase' # "down" => phase # "down",
           \A j \in JobIds : row'[j].status \in InProgress => row[j].status \in InProgress
    PROVE  InProgressHeld'
  BY DEF InProgressHeld, Held

LEMMA HeldRequests == ASSUME TypeInv, InProgressHeld, Requests PROVE InProgressHeld'
<1>0. UNCHANGED <<worker, unsaved, phase>> /\ row \in [JobIds -> Row]
  BY RequestsFrame DEF TypeInv, TypeOK
<1>1. ASSUME NEW j \in JobIds, NEW u \in Users, Inserted(j, u) PROVE InProgressHeld'
  BY <1>0, <1>1, HeldFrame DEF Inserted, InProgress
<1>2. ASSUME NEW j \in JobIds, UpdateJobStatus(j, "canceled") PROVE InProgressHeld'
  BY <1>0, <1>2, StatusUpdate, HeldFrame DEF Terminal, InProgress
<1>3. CASE ResetDatabase
  BY <1>0, <1>3, HeldFrame DEF ResetDatabase, AbsentRow, InProgress
<1>4. CASE UNCHANGED row
  BY <1>0, <1>4, HeldFrame
<1>. QED  BY <1>1, <1>2, <1>3, <1>4, RequestRows

LEMMA HeldDispatcher == ASSUME TypeInv, InProgressHeld, Dispatcher PROVE InProgressHeld'
<1>1. ASSUME NEW g \in Goroutines, Claim(g) PROVE InProgressHeld'
  <2>1. /\ worker[g] = NoWorker /\ UNCHANGED phase
        /\ worker'[g].pc = "open" /\ worker'[g].job = dispatcher.job
        /\ \A h \in Goroutines : h # g => worker'[h] = worker[h]
        /\ \A j \in JobIds : j # dispatcher.job => unsaved'[j] = unsaved[j]
    BY <1>1 DEF Claim, TypeInv, TypeOK, NoWorker
  <2>2. \A j \in JobIds : j # dispatcher.job => row'[j] = row[j]
    BY <1>1, StatusUpdate DEF Claim, HasJob, InProgress, TypeInv, TypeOK, Owners
  <2>. QED  BY <2>1, <2>2 DEF InProgressHeld, Held, Undecided, NoWorker
<1>2. CASE ~\E g \in Goroutines : Claim(g)
  <2>1. UNCHANGED <<row, worker, unsaved, phase>>
    BY <1>2 DEF Dispatcher, Tick, ReceiveSignal, TryToDispatchJob, QueryPending,
                RegisterJob, ClaimFails, UnregisterJob, disk, history
  <2>. QED  BY <2>1, HeldFrame
<1>. QED  BY <1>1, <1>2

\* What has not been saved stays so while the build lasts.
LEMMA WorkUnsaved ==
    ASSUME TypeInv, NEW g \in Goroutines, Work(g)
    PROVE  /\ \A j \in JobIds : unsaved[j] \subseteq unsaved'[j]
           /\ \A j \in JobIds : j # worker[g].job => unsaved'[j] = unsaved[j]
<1>1. unsaved \in [JobIds -> SUBSET {"tag", "verdict"}]
  BY DEF TypeInv, TypeOK
<1>2. CASE UNCHANGED unsaved
  BY <1>2
<1>3. ASSUME NEW what, NotSaved(g, what)
      PROVE  /\ \A j \in JobIds : unsaved[j] \subseteq unsaved'[j]
             /\ \A j \in JobIds : j # worker[g].job => unsaved'[j] = unsaved[j]
  BY <1>1, <1>3 DEF NotSaved
<1>. QED
  BY <1>2, <1>3
     DEF Work, OpenLog, MarkBuilding, RunBuild, StoreImageTag, Finish,
         ReportResult, RereadJob, CountRetry, Requeue, ReleaseSlot, history

\* A worker is undecided until it has written its verdict or failed to, and then
\* it puts its row into no state of progress.
LEMMA WorkDecides ==
    ASSUME TypeInv, NEW g \in Goroutines, Work(g), ~ReleaseSlot(g)
    PROVE  \/ worker'[g].pc \in Undecided
           \/ "verdict" \in unsaved'[worker[g].job]
           \/ row'[worker[g].job].status \notin InProgress
           \/ /\ worker[g].pc \notin Undecided
              /\ row'[worker[g].job].status = row[worker[g].job].status
<1>. DEFINE job == worker[g].job
<1>1. job \in JobIds /\ row \in [JobIds -> Row]
  BY WorkGoesOn DEF TypeInv, TypeOK, Owners
<1>2. CASE OpenLog(g) \/ MarkBuilding(g) \/ RunBuild(g) \/ StoreImageTag(g)
  BY <1>2, WorkerMoves, WorkerDecides
     DEF OpenLog, MarkBuilding, RunBuild, StoreImageTag, Verdicts, Undecided
<1>3. CASE Finish(g)
  <2>1. worker[g].verdict \in Verdicts
    BY <1>3 DEF Finish, TypeInv, Owners, NoWorker
  <2>2. CASE UpdateJobStatus(job, worker[g].verdict)
    BY <1>1, <2>1, <2>2, StatusUpdate DEF Verdicts, Terminal, InProgress
  <2>3. CASE NotSaved(g, "verdict")
    BY <1>1, <2>3 DEF NotSaved, TypeInv, TypeOK
  <2>. QED  BY <1>3, <2>2, <2>3 DEF Finish, UpdateJobFinishState
<1>4. CASE ReportResult(g) \/ RereadJob(g)
  BY <1>4 DEF ReportResult, RereadJob, Undecided
<1>5. CASE CountRetry(g)
  <2>1. row'[job].status = row[job].status
    BY <1>1, <1>5 DEF CountRetry, IncrementJobRetryCount, Row
  <2>. QED  BY <1>5, <2>1 DEF CountRetry, Undecided
<1>6. CASE Requeue(g)
  <2>1. UpdateJobStatus(job, "pending") \/ UNCHANGED row
    BY <1>6 DEF Requeue
  <2>. QED  BY <1>1, <1>6, <2>1, StatusUpdate DEF Requeue, InProgress, Undecided
<1>. QED  BY <1>2, <1>3, <1>4, <1>5, <1>6 DEF Work

LEMMA HeldWork ==
    ASSUME TypeInv, InProgressHeld, NEW g \in Goroutines, Work(g) PROVE InProgressHeld'
<1>1. CASE ReleaseSlot(g)
  <2>1. /\ worker[g].pc = "release" /\ UNCHANGED <<row, phase, unsaved>>
        /\ \A h \in Goroutines : h # g => worker'[h] = worker[h]
    BY <1>1 DEF ReleaseSlot, disk, history, TypeInv, TypeOK
  <2>. QED  BY <2>1 DEF InProgressHeld, Held, Undecided
<1>2. CASE ~ReleaseSlot(g)
  <2>1. /\ UNCHANGED phase /\ worker'[g].job = worker[g].job
        /\ \A h \in Goroutines : h # g => worker'[h] = worker[h]
    BY <1>2, WorkGoesOn DEF GoesOn
  <2>2. \A j \in JobIds : j # worker[g].job => row'[j] = row[j]
    BY WorkRows
  <2>3. /\ \A j \in JobIds : unsaved[j] \subseteq unsaved'[j]
        /\ \/ worker'[g].pc \in Undecided
           \/ "verdict" \in unsaved'[worker[g].job]
           \/ row'[worker[g].job].status \notin InProgress
           \/ /\ worker[g].pc \notin Undecided
              /\ row'[worker[g].job].status = row[worker[g].job].status
    BY <1>2, WorkUnsaved, WorkDecides
  <2>. QED  BY <2>1, <2>2, <2>3 DEF InProgressHeld, Held
<1>. QED  BY <1>1, <1>2

LEMMA HeldProcess == ASSUME TypeInv, InProgressHeld, Boot \/ Stop PROVE InProgressHeld'
<1>1. CASE Stop
  BY <1>1 DEF Stop, Die, InProgressHeld
<1>2. CASE OpenDatabase
  <2>1. \A j \in JobIds : row'[j].status \notin InProgress
    BY <1>2 DEF OpenDatabase, ResetInProgressJobs, TypeInv, TypeOK, Row, InProgress
  <2>. QED  BY <2>1 DEF InProgressHeld
<1>3. CASE NewManager
  BY <1>3, HeldFrame DEF NewManager, disk, history
<1>. QED  BY <1>1, <1>2, <1>3 DEF Boot

LEMMA HeldStep == TypeInv /\ InProgressHeld /\ [Moves]_vars => InProgressHeld'
<1>1. CASE UNCHANGED vars
  BY <1>1, HeldFrame DEF vars
<1>. QED
  BY <1>1, CrashStops, HeldRequests, HeldDispatcher, HeldWork, HeldProcess
     DEF Moves, Next

\* A row that says a worker has it is abandoned, while the manager runs, only by a
\* build that could not write its verdict: whatever else fails, crashes or is
\* canceled, and even if ids are used twice.
THEOREM InProgressStaysHeld == Spec => []InProgressIsHeld
<1>1. Init => TypeInv /\ InProgressHeld
  BY TypeInit, HeldInit DEF Init
<1>2. TypeInv /\ InProgressHeld /\ [Next]_vars => (TypeInv /\ InProgressHeld)'
  BY TypeStep, HeldStep DEF Moves
<1>3. InProgressHeld => InProgressIsHeld
  BY DEF InProgressHeld, Held, Undecided, InProgressIsHeld, Live, NoWorker
<1>. QED  BY <1>1, <1>2, <1>3, PTL DEF Spec

-----------------------------------------------------------------------------
(* A success names its image, if ids are not used twice. *)

\* What a worker's step leaves of the rows: the stamps, the stored tags; only
\* Finish makes a success, and no worker makes a claim.
LEMMA WorkKeeps ==
    ASSUME TypeInv, NEW g \in Goroutines, Work(g), NEW k \in JobIds
    PROVE  /\ row'[k].created = row[k].created
           /\ row[k].imageTag => row'[k].imageTag
           /\ row'[k].status = "claimed" => row[k].status = "claimed"
           /\ row'[k].status = "success" /\ row[k].status # "success" =>
                 Finish(g) /\ worker[g].verdict = "success" /\ k = worker[g].job
<1>. DEFINE job == worker[g].job
            Kept == /\ row'[k].created = row[k].created
                    /\ row[k].imageTag => row'[k].imageTag
                    /\ row'[k].status = "claimed" => row[k].status = "claimed"
                    /\ row'[k].status = "success" => row[k].status = "success"
<1>0. row \in [JobIds -> Row] /\ (worker[g].pc # "none" => job \in JobIds)
  BY DEF TypeInv, TypeOK, Owners, NoWorker
<1>1. CASE OpenLog(g) \/ RunBuild(g) \/ ReportResult(g) \/ RereadJob(g) \/ ReleaseSlot(g)
  BY <1>1 DEF OpenLog, RunBuild, ReportResult, RereadJob, ReleaseSlot, disk
<1>2. CASE MarkBuilding(g)
  <2>1. UpdateJobStatus(job, "building") \/ UNCHANGED row
    BY <1>2 DEF MarkBuilding
  <2>2. job \in JobIds
    BY <1>0, <1>2 DEF MarkBuilding
  <2>3. Kept
    BY <1>0, <2>1, <2>2, StatusUpdate DEF InProgress
  <2>. QED  BY <2>3
<1>3. CASE StoreImageTag(g)
  <2>. DEFINE r == [row[job] EXCEPT !.imageTag = TRUE]
  <2>1. /\ job \in JobIds /\ r.status = row[job].status
        /\ r.created = row[job].created /\ r.imageTag
    BY <1>0, <1>3 DEF StoreImageTag, Row
  <2>2. row' = row \/ row' = [row EXCEPT ![job] = r]
    BY <1>3 DEF StoreImageTag, NotSaved, UpdateJobImageTag
  <2>. HIDE DEF r
  <2>3. row'[k] = row[k] \/ (row'[k] = r /\ k = job)
    BY <1>0, <2>1, <2>2
  <2>. QED  BY <2>1, <2>3
<1>4. CASE Finish(g)
  <2>1. job \in JobIds /\ worker[g].verdict \in Verdicts
    BY <1>4 DEF Finish, TypeInv, Owners, NoWorker
  <2>2. UpdateJobStatus(job, worker[g].verdict) \/ UNCHANGED row
    BY <1>4 DEF Finish, NotSaved, UpdateJobFinishState
  <2>. QED  BY <1>0, <1>4, <2>1, <2>2, StatusUpdate DEF Verdicts, Terminal
<1>5. CASE CountRetry(g)
  <2>. DEFINE r == [row[job] EXCEPT !.retryCount = @ + 1]
  <2>1. /\ job \in JobIds /\ r.status = row[job].status
        /\ r.created = row[job].created /\ r.imageTag = row[job].imageTag
    BY <1>0, <1>5 DEF CountRetry, Row
  <2>2. row' = row \/ row' = [row EXCEPT ![job] = r]
    BY <1>5 DEF CountRetry, IncrementJobRetryCount
  <2>. HIDE DEF r
  <2>3. row'[k] = row[k] \/ (row'[k] = r /\ k = job)
    BY <1>0, <2>1, <2>2
  <2>. QED  BY <2>1, <2>3
<1>6. CASE Requeue(g)
  <2>1. UpdateJobStatus(job, "pending") \/ UNCHANGED row
    BY <1>6 DEF Requeue
  <2>2. job \in JobIds
    BY <1>0, <1>6 DEF Requeue
  <2>. QED  BY <1>0, <2>1, <2>2, StatusUpdate
<1>. QED  BY <1>1, <1>2, <1>3, <1>4, <1>5, <1>6 DEF Work

LEMMA ImageInit == ASSUME NEW p, InitIn(p) PROVE ImageStored
  BY DEF InitIn, ImageStored, SuccessHasImage, AbsentRow, Live

\* No row succeeds, loses its tag or comes to be, and no worker comes to finish.
LEMMA ImageFrame ==
    ASSUME TypeInv, ImageStored,
           \A k \in JobIds : /\ Exists(k)' => Exists(k)
                             /\ Exists(k)' /\ row[k].imageTag => row'[k].imageTag
                             /\ row'[k].status = "success" => row[k].status = "success"
                             /\ unsaved[k] \subseteq unsaved'[k],
           \A g \in Goroutines : worker'[g].pc = "finish" => worker'[g] = worker[g]
    PROVE  ImageStored'
<1>1. SuccessHasImage'
  BY DEF ImageStored, SuccessHasImage, Exists
<1>2. ASSUME NEW g \in Goroutines, TagStored(g) \/ worker[g] = NoWorker
      PROVE  TagStored(g)'
  BY <1>2 DEF TagStored, TypeInv, Owners, NoWorker
<1>. QED  BY <1>1, <1>2 DEF ImageStored, Live

LEMMA ImageRequests ==
    ASSUME TypeInv, SameOwner, ImageStored, ~ReuseIds, Requests PROVE ImageStored'
<1>0. UNCHANGED <<worker, unsaved>> /\ row \in [JobIds -> Row]
  BY RequestsFrame DEF TypeInv, TypeOK
<1>1. ASSUME NEW j \in JobIds, NEW u \in Users, Inserted(j, u) PROVE ImageStored'
  <2>1. \A g \in Live : worker[g].job # j /\ worker[g].job \in JobIds
    BY <1>1 DEF Inserted, SameOwner, TypeInv, Owners, Live
  <2>2. SuccessHasImage'
    BY <1>0, <1>1 DEF Inserted, ImageStored, SuccessHasImage
  <2>. QED  BY <1>0, <1>1, <2>1, <2>2 DEF Inserted, ImageStored, TagStored, Live, Exists
<1>2. ASSUME NEW j \in JobIds, UpdateJobStatus(j, "canceled") PROVE ImageStored'
  BY <1>0, <1>2, StatusUpdate, ImageFrame DEF Terminal
<1>3. CASE ResetDatabase
  BY <1>0, <1>3, ImageFrame DEF ResetDatabase, AbsentRow, Exists
<1>4. CASE UNCHANGED row
  BY <1>0, <1>4, ImageFrame DEF Exists
<1>. QED  BY <1>1, <1>2, <1>3, <1>4, RequestRows

LEMMA ImageDispatcher ==
    ASSUME TypeInv, JobsApart, ImageStored, Dispatcher PROVE ImageStored'
<1>1. ASSUME NEW g \in Goroutines, Claim(g) PROVE ImageStored'
  <2>. DEFINE job == dispatcher.job
  <2>1. /\ worker'[g].pc = "open" /\ \A h \in Goroutines : h # g => worker'[h] = worker[h]
        /\ HasJob /\ job \in JobIds /\ UpdateJobStatus(job, "claimed")
        /\ \A k \in JobIds : k # job => unsaved'[k] = unsaved[k]
    BY <1>1 DEF Claim, HasJob, TypeInv, TypeOK, Owners, NoWorker
  <2>2. /\ row'[job].status # "success"
        /\ \A k \in JobIds : k # job => row'[k] = row[k]
    BY <2>1, StatusUpdate DEF InProgress, TypeInv, TypeOK
  <2>3. SuccessHasImage'
    BY <2>1, <2>2 DEF ImageStored, SuccessHasImage
  <2>4. ASSUME NEW h \in Live' PROVE TagStored(h)'
    <3>1. CASE h = g
      BY <2>1, <3>1 DEF TagStored
    <3>2. CASE h # g
      <4>1. /\ h \in Live /\ worker'[h] = worker[h] /\ worker[h].job \in JobIds
            /\ worker[h].job # job
        BY <2>1, <3>2 DEF Live, JobsApart, TypeInv, Owners
      <4>. QED  BY <2>1, <2>2, <4>1 DEF ImageStored, TagStored, Exists
    <3>. QED  BY <3>1, <3>2
  <2>. QED  BY <2>3, <2>4 DEF ImageStored
<1>2. CASE ~\E g \in Goroutines : Claim(g)
  <2>1. UNCHANGED <<row, worker, unsaved>>
    BY <1>2 DEF Dispatcher, Tick, ReceiveSignal, TryToDispatchJob, QueryPending,
                RegisterJob, ClaimFails, UnregisterJob, disk, history
  <2>. QED  BY <2>1, ImageFrame DEF Exists
<1>. QED  BY <1>1, <1>2

\* A worker that comes to finish as a success has stored the tag, or failed to.
LEMMA WorkTags ==
    ASSUME TypeInv, NEW g \in Goroutines, Work(g),
           worker'[g].pc = "finish", worker'[g].verdict = "success"
    PROVE  TagStored(g)'
<1>1. CASE StoreImageTag(g)
  <2>. DEFINE job == worker[g].job
  <2>1. /\ worker[g].pc = "tag" /\ job \in JobIds
        /\ row \in [JobIds -> Row]
        /\ unsaved \in [JobIds -> SUBSET {"tag", "verdict"}]
        /\ UpdateJobImageTag(job) \/ NotSaved(g, "tag")
    BY <1>1 DEF StoreImageTag, TypeInv, TypeOK, Owners, NoWorker
  <2>2. worker'[g].job = job
    BY <1>1, <2>1, WorkerDecides DEF StoreImageTag, Verdicts, GoesOn
  <2>3. Exists(job) => row'[job].imageTag \/ "tag" \in unsaved'[job]
    BY <2>1 DEF UpdateJobImageTag, NotSaved, Row
  <2>4. row'[job].status # "absent" <=> Exists(job)
    BY <2>1, WorkRows DEF Exists
  <2>. QED  BY <2>2, <2>3, <2>4 DEF TagStored, Exists
<1>2. CASE ReleaseSlot(g)
  BY <1>2 DEF ReleaseSlot, NoWorker, TypeInv, TypeOK
<1>3. CASE Finish(g) \/ ReportResult(g)
  BY <1>3, WorkerMoves, WorkerAttempts
     DEF Finish, ReportResult, AfterReport, TypeInv, Owners, NoWorker
<1>4. CASE OpenLog(g) \/ MarkBuilding(g) \/ RunBuild(g)
  BY <1>4, WorkerMoves, WorkerDecides DEF OpenLog, MarkBuilding, RunBuild, Verdicts
<1>5. CASE RereadJob(g) \/ CountRetry(g) \/ Requeue(g)
  BY <1>5, WorkerMoves DEF RereadJob, CountRetry, Requeue
<1>. QED  BY <1>1, <1>2, <1>3, <1>4, <1>5 DEF Work

LEMMA ImageWork ==
    ASSUME TypeInv, ImageStored, NEW g \in Goroutines, Work(g) PROVE ImageStored'
<1>1. \A k \in JobIds : unsaved[k] \subseteq unsaved'[k]
  BY WorkUnsaved
<1>2. \A h \in Goroutines : h # g => worker'[h] = worker[h]
  BY WorkGoesOn DEF GoesOn, ReleaseSlot, TypeInv, TypeOK
<1>3. ASSUME NEW k \in JobIds, row'[k].status = "success"
      PROVE  row'[k].imageTag \/ "tag" \in unsaved'[k]
  <2>1. CASE row[k].status = "success"
    BY <1>1, <2>1, WorkKeeps DEF ImageStored, SuccessHasImage
  <2>2. CASE row[k].status # "success"
    <3>1. /\ worker[g].pc = "finish" /\ worker[g].verdict = "success"
          /\ k = worker[g].job /\ Exists(k)
      BY <1>3, <2>2, WorkKeeps, WorkRows DEF Finish, Exists
    <3>2. row[k].imageTag \/ "tag" \in unsaved[k]
      BY <3>1 DEF ImageStored, TagStored, Live, NoWorker
    <3>. QED  BY <1>1, <3>2, WorkKeeps
  <2>. QED  BY <2>1, <2>2
<1>4. ASSUME NEW h \in Live, h # g, TagStored(h) PROVE TagStored(h)'
  <2>1. worker'[h] = worker[h] /\ worker[h].job \in JobIds
    BY <1>2, <1>4 DEF TypeInv, Owners, Live
  <2>2. /\ row[worker[h].job].imageTag => row'[worker[h].job].imageTag
        /\ Exists(worker[h].job)' <=> Exists(worker[h].job)
        /\ unsaved[worker[h].job] \subseteq unsaved'[worker[h].job]
    BY <1>1, <2>1, WorkKeeps, WorkRows
  <2>. QED  BY <1>4, <2>1, <2>2 DEF TagStored, Exists
<1>5. TagStored(g)'
  BY WorkTags DEF TagStored
<1>. QED  BY <1>2, <1>3, <1>4, <1>5 DEF ImageStored, SuccessHasImage, Live

LEMMA ImageProcess == ASSUME TypeInv, ImageStored, Boot \/ Stop PROVE ImageStored'
<1>1. CASE Stop
  BY <1>1, ImageFrame DEF Stop, Die, disk, Exists, NoWorker
<1>2. CASE OpenDatabase
  <2>1. ASSUME NEW k \in JobIds
        PROVE  /\ Exists(k)' <=> Exists(k)
               /\ row'[k].imageTag = row[k].imageTag
               /\ row'[k].status \in {row[k].status, "pending"}
    BY <1>2 DEF OpenDatabase, ResetInProgressJobs, InProgress, Exists, Row,
                TypeInv, TypeOK
  <2>. QED  BY <1>2, <2>1, ImageFrame DEF OpenDatabase, history
<1>3. CASE NewManager
  BY <1>3, ImageFrame DEF NewManager, disk, history, Exists
<1>. QED  BY <1>1, <1>2, <1>3 DEF Boot

LEMMA ImageStep ==
    ~ReuseIds /\ TypeInv /\ SameOwner /\ JobsApart /\ ImageStored /\ [Moves]_vars
        => ImageStored'
<1>1. ASSUME TypeInv, ImageStored, UNCHANGED vars PROVE ImageStored'
  BY <1>1, ImageFrame DEF vars, Exists
<1>. QED
  BY <1>1, CrashStops, ImageRequests, ImageDispatcher, ImageWork, ImageProcess
     DEF Moves, Next

\* A row that says success names the image, unless the statement that stores the
\* tag has failed, whatever else fails, crashes or is canceled.
THEOREM SuccessesHaveImages == ASSUME ~ReuseIds PROVE Spec => []SuccessHasImage
<1>1. Init => ImageStored
  BY ImageInit DEF Init
<1>2. SlotInv /\ ImageStored /\ [Next]_vars => ImageStored'
  BY ImageStep DEF Moves, SlotInv, UserInv
<1>3. ImageStored => SuccessHasImage
  BY DEF ImageStored
<1>. QED  BY <1>1, <1>2, <1>3, SlotInvariant, PTL DEF Spec

-----------------------------------------------------------------------------
(* The order of the claims, if ids are not used twice. *)

LEMMA OrderInit == ASSUME NEW p, InitIn(p) PROVE SeenUsed /\ HoldsOldest
  BY DEF InitIn, SeenUsed, HoldsOldest, HasJob, IdleDispatcher

\* What is pending was pending, and the dispatcher holds what it held, if
\* anything.
LEMMA OrderFrame ==
    ASSUME TypeInv, SeenUsed, HoldsOldest, used \subseteq used',
           \A k \in used : /\ Exists(k)' => Exists(k)
                           /\ row'[k].user = row[k].user \/ ~Exists(k)'
                           /\ row'[k].created = row[k].created \/ ~Exists(k)'
                           /\ row'[k].status = "pending" => row[k].status = "pending",
           dispatcher'.seen \subseteq dispatcher.seen,
           HasJob' => /\ HasJob /\ dispatcher.job \in used
                      /\ dispatcher'.job = dispatcher.job
                      /\ dispatcher'.user = dispatcher.user
    PROVE  SeenUsed' /\ HoldsOldest'
<1>1. SeenUsed'
  BY DEF SeenUsed
<1>2. HoldsOldest'
  BY DEF SeenUsed, HoldsOldest, Exists
<1>. QED  BY <1>1, <1>2

LEMMA OrderRequests ==
    ASSUME TypeInv, SameOwner, SeenUsed, HoldsOldest, ~ReuseIds, Requests
    PROVE  SeenUsed' /\ HoldsOldest'
<1>. DEFINE Goal == SeenUsed' /\ HoldsOldest'
<1>0. /\ UNCHANGED dispatcher /\ row \in [JobIds -> Row] /\ used \subseteq JobIds
      /\ HasJob => dispatcher.job \in used
  BY RequestsFrame DEF SameOwner, TypeInv, TypeOK
<1>1. ASSUME NEW j \in JobIds, NEW u \in Users, Inserted(j, u) PROVE Goal
  BY <1>0, <1>1, OrderFrame DEF Inserted, HasJob, Exists
<1>2. ASSUME used' = used, NEW j \in JobIds, UpdateJobStatus(j, "canceled")
      PROVE  Goal
  <2>1. \A k \in JobIds : /\ Exists(k)' => Exists(k)
                          /\ row'[k].user = row[k].user
                          /\ row'[k].created = row[k].created
                          /\ row'[k].status = "pending" => row[k].status = "pending"
    BY <1>0, <1>2, StatusUpdate DEF Terminal, Exists
  <2>. QED  BY <1>0, <1>2, <2>1, OrderFrame DEF HasJob
<1>3. CASE used' = used /\ ResetDatabase
  BY <1>0, <1>3, OrderFrame DEF ResetDatabase, AbsentRow, Exists, HasJob
<1>4. CASE UNCHANGED <<row, used>>
  BY <1>0, <1>4, OrderFrame DEF Exists, HasJob
<1>. QED  BY <1>1, <1>2, <1>3, <1>4, RequestRows

LEMMA OrderDispatcher ==
    ASSUME TypeInv, SameOwner, SeenUsed, HoldsOldest, Dispatcher
    PROVE  SeenUsed' /\ HoldsOldest'
<1>. DEFINE Goal == SeenUsed' /\ HoldsOldest'
<1>0. /\ dispatcher \in DispatcherState /\ row \in [JobIds -> Row]
      /\ used \subseteq JobIds /\ (HasJob => dispatcher.job \in used)
      /\ \A k \in JobIds : Exists(k) => k \in used
  BY DEF SameOwner, TypeInv, TypeOK
<1>1. ASSUME UNCHANGED <<row, used>>, dispatcher'.seen \subseteq dispatcher.seen,
             HasJob' => HasJob /\ dispatcher'.job = dispatcher.job
                               /\ dispatcher'.user = dispatcher.user
      PROVE  Goal
  BY <1>0, <1>1, OrderFrame DEF Exists
<1>2. CASE TryToDispatchJob
  BY <1>0, <1>1, <1>2 DEF TryToDispatchJob, disk, HasJob, DispatcherState
<1>3. CASE QueryPending
  <2>1. UNCHANGED <<row, used>>
    BY <1>3 DEF QueryPending, disk
  <2>2. CASE dispatcher' = IdleDispatcher
    BY <1>1, <2>1, <2>2 DEF HasJob, IdleDispatcher
  <2>3. ASSUME NEW j \in GetPendingJobExcludingUsers(dispatcher.excluded),
               dispatcher' = [dispatcher EXCEPT !.pc = "register",
                   !.job = j, !.user = row[j].user,
                   !.seen = {k \in JobIds : Exists(k)}]
        PROVE  Goal
    <3>1. /\ dispatcher'.job = j /\ dispatcher'.user = row[j].user
          /\ dispatcher'.seen = {k \in JobIds : Exists(k)}
      BY <1>0, <2>3 DEF DispatcherState
    <3>2. j \in JobIds /\ row[j].user \notin dispatcher.excluded
          /\ \A k \in JobIds : row[k].status = "pending" /\ row[k].user = row[j].user
                                  => row[j].created <= row[k].created
      BY <2>3 DEF GetPendingJobExcludingUsers
    <3>3. HoldsOldest'
      BY <2>1, <3>1, <3>2 DEF HoldsOldest
    <3>. QED  BY <1>0, <2>1, <3>1, <3>3 DEF SeenUsed
  <2>. QED  BY <1>3, <2>2, <2>3 DEF QueryPending
<1>4. CASE RegisterJob
  BY <1>0, <1>1, <1>4 DEF RegisterJob, disk, HasJob, DispatcherState
<1>5. ASSUME NEW g \in Goroutines, Claim(g) PROVE Goal
  <2>1. ~HasJob' /\ used' = used /\ dispatcher.job \in JobIds /\ dispatcher'.seen = {}
    BY <1>5 DEF Claim, HasJob, IdleDispatcher, TypeInv, Owners
  <2>2. \A k \in JobIds : /\ Exists(k)' => Exists(k)
                          /\ row'[k].user = row[k].user
                          /\ row'[k].created = row[k].created
                          /\ row'[k].status = "pending" => row[k].status = "pending"
    BY <1>0, <1>5, <2>1, StatusUpdate DEF Claim, InProgress, Exists
  <2>. QED  BY <1>0, <2>1, <2>2, OrderFrame
<1>6. CASE ClaimFails
  BY <1>0, <1>1, <1>6 DEF ClaimFails, disk, HasJob, DispatcherState
<1>7. CASE UnregisterJob
  BY <1>1, <1>7 DEF UnregisterJob, disk, HasJob, IdleDispatcher
<1>. QED
  BY <1>2, <1>3, <1>4, <1>5, <1>6, <1>7 DEF Dispatcher, Tick, ReceiveSignal

\* The user whose job the dispatcher holds has no worker.
LEMMA HeldUserIsFree ==
    UsersApart /\ HasJob => \A g \in Live : worker[g].user # dispatcher.user
  BY DEF UsersApart, HasJob

LEMMA OrderWork ==
    ASSUME TypeInv, UsersApart, SameOwner, SeenUsed, HoldsOldest,
           NEW g \in Goroutines, Work(g)
    PROVE  SeenUsed' /\ HoldsOldest'
<1>. DEFINE job == worker[g].job
<1>1. UNCHANGED <<used, dispatcher>> /\ worker[g] # NoWorker
  <2>1. ReleaseSlot(g) => UNCHANGED <<used, dispatcher>> /\ worker[g] # NoWorker
    BY DEF ReleaseSlot, disk, NoWorker
  <2>. QED  BY <2>1, WorkGoesOn
<1>2. \A k \in JobIds : /\ Exists(k)' <=> Exists(k)
                        /\ row'[k].user = row[k].user
                        /\ row'[k].created = row[k].created
                        /\ k # job => row'[k] = row[k]
  BY WorkRows, WorkKeeps
<1>3. SeenUsed' /\ dispatcher.seen \subseteq JobIds
  BY <1>1 DEF SeenUsed, TypeInv, TypeOK
<1>4. HasJob => job \in JobIds /\ dispatcher.job \in JobIds
                /\ (Exists(job) => row[job].user # dispatcher.user)
  BY <1>1, HeldUserIsFree DEF SameOwner, Live, TypeInv, Owners
<1>5. HoldsOldest'
  BY <1>1, <1>2, <1>3, <1>4 DEF HoldsOldest, HasJob, Exists
<1>. QED  BY <1>3, <1>5

LEMMA OrderProcess ==
    ASSUME TypeInv, DownIsIdle, SameOwner, SeenUsed, HoldsOldest, Boot \/ Stop
    PROVE  SeenUsed' /\ HoldsOldest'
<1>1. CASE Stop
  BY <1>1 DEF Stop, Die, SeenUsed, HoldsOldest, HasJob, IdleDispatcher
<1>2. CASE OpenDatabase
  BY <1>2 DEF OpenDatabase, DownIsIdle, SeenUsed, HoldsOldest, HasJob, IdleDispatcher
<1>3. CASE NewManager
  BY <1>3 DEF NewManager, DownIsIdle, SeenUsed, HoldsOldest, HasJob, IdleDispatcher
<1>. QED  BY <1>1, <1>2, <1>3 DEF Boot

LEMMA OrderStep ==
    ASSUME ~ReuseIds, UserInv, SameOwner, DownIsIdle, SeenUsed, HoldsOldest,
           [Moves]_vars
    PROVE  SeenUsed' /\ HoldsOldest'
<1>1. ASSUME TypeInv, SeenUsed, HoldsOldest, UNCHANGED vars
      PROVE  SeenUsed' /\ HoldsOldest'
  BY <1>1 DEF vars, SeenUsed, HoldsOldest, Exists, HasJob
<1>. QED
  BY <1>1, CrashStops, OrderRequests, OrderDispatcher, OrderWork, OrderProcess
     DEF Moves, Next, UserInv

\* The conjunction of all of it is inductive.
LEMMA TruthStep == ~ReuseIds /\ TruthInv /\ [Moves]_vars => TruthInv'
  BY ServiceInvStep, LockStep, HeldStep, ImageStep, OrderStep
     DEF TruthInv, ServiceInv, SlotInv, UserInv, LockInv

LEMMA TruthInit == ASSUME NEW p \in {"down", "up"}, InitIn(p) PROVE TruthInv
<1>1. ServiceInv
  BY TypeInit, UsersInit, SlotsInit, SuccessInit DEF ServiceInv, SlotInv, UserInv
<1>. QED
  BY <1>1, LockInit, HeldInit, ImageInit, OrderInit DEF TruthInv

\* The whole inductive invariant, with the truth of what is on the disk.
THEOREM TruthInvariant == ASSUME ~ReuseIds PROVE Spec => []TruthInv
<1>1. Init => TruthInv
  BY TruthInit DEF Init
<1>2. TruthInv /\ [Next]_vars => TruthInv'
  BY TruthStep DEF Moves
<1>. QED  BY <1>1, <1>2, PTL DEF Spec

\* A row that becomes claimed is the one that the dispatcher holds.
LEMMA ClaimsDispatched ==
    ASSUME TypeInv, [Next]_vars, NEW j \in JobIds,
           row[j].status = "pending", row'[j].status = "claimed"
    PROVE  HasJob /\ dispatcher.job = j
<1>0. row \in [JobIds -> Row]
  BY DEF TypeInv, TypeOK
<1>1. ASSUME NEW g \in Goroutines, Claim(g) PROVE HasJob /\ dispatcher.job = j
  <2>1. HasJob /\ dispatcher.job \in JobIds /\ UpdateJobStatus(dispatcher.job, "claimed")
    BY <1>1 DEF Claim, HasJob, TypeInv, Owners
  <2>. QED  BY <1>0, <2>1, StatusUpdate DEF InProgress
<1>2. CASE UNCHANGED row
  BY <1>2
<1>3. ASSUME NEW g \in Goroutines, Work(g) PROVE FALSE
  BY <1>3, WorkKeeps
<1>4. CASE Crash \/ NewManager
  BY <1>2, <1>4 DEF Crash, Die, NewManager, disk
<1>5. CASE OpenDatabase
  BY <1>5 DEF OpenDatabase, ResetInProgressJobs, InProgress
<1>6. CASE Dispatcher /\ ~\E g \in Goroutines : Claim(g)
  BY <1>2, <1>6
     DEF Dispatcher, Tick, ReceiveSignal, TryToDispatchJob, QueryPending,
         RegisterJob, ClaimFails, UnregisterJob, disk
<1>7. ASSUME NEW k \in JobIds, UpdateJobStatus(k, "canceled") PROVE FALSE
  BY <1>0, <1>7, StatusUpdate DEF Terminal
<1>8. CASE Requests
  <2>1. CASE ResetDatabase
    BY <2>1 DEF ResetDatabase, AbsentRow
  <2>2. ASSUME NEW k \in JobIds, NEW u \in Users, Inserted(k, u) PROVE FALSE
    BY <2>2 DEF Inserted
  <2>. QED  BY <1>2, <1>7, <1>8, <2>1, <2>2, RequestRows
<1>. QED
  BY <1>1, <1>2, <1>3, <1>4, <1>5, <1>6, <1>7, <1>8 DEF Next, Boot, vars

\* Of a user's jobs that were in the table when the dispatcher looked, the one
\* stamped first is claimed first. A job that is stamped first and inserted later
\* can be overtaken.
THEOREM ClaimsAreInOrder == ASSUME ~ReuseIds PROVE Spec => ClaimedInOrder
<1>1. ASSUME TruthInv, [Next]_vars, NEW j \in JobIds, NEW k \in JobIds,
             row[j].status = "pending", row'[j].status = "claimed",
             row[k].status = "pending", row[k].user = row[j].user,
             k \in dispatcher.seen
      PROVE  row[j].created <= row[k].created
  <2>1. HasJob /\ dispatcher.job = j
    BY <1>1, ClaimsDispatched DEF TruthInv, ServiceInv, SlotInv, UserInv
  <2>. QED
    BY <1>1, <2>1
       DEF TruthInv, ServiceInv, SlotInv, SameOwner, HoldsOldest, Exists
<1>2. TruthInv /\ [Next]_vars =>
        [\A j, k \in JobIds :
            (/\ row[j].status = "pending" /\ row'[j].status = "claimed"
             /\ row[k].status = "pending" /\ row[k].user = row[j].user
             /\ k \in dispatcher.seen)
            => row[j].created <= row[k].created]_vars
  BY <1>1
<1>. QED  BY <1>2, TruthInvariant, PTL DEF Spec, ClaimedInOrder

-----------------------------------------------------------------------------
(* Cancellations. *)

LEMMA CanceledStays ==
    ASSUME TypeInv, [Next]_vars, NEW j \in JobIds, row[j].status = "canceled",
           dispatcher.job # j, \A g \in Live : worker[g].job # j
    PROVE  row'[j].status \in {"canceled", "absent"}
<1>0. row \in [JobIds -> Row]
  BY DEF TypeInv, TypeOK
<1>1. CASE UNCHANGED row
  BY <1>1
<1>2. ASSUME NEW g \in Goroutines, Claim(g) PROVE UNCHANGED row[j]
  <2>1. dispatcher.job \in JobIds /\ UpdateJobStatus(dispatcher.job, "claimed")
    BY <1>2 DEF Claim, HasJob, TypeInv, Owners
  <2>. QED  BY <1>0, <2>1, StatusUpdate DEF InProgress
<1>3. ASSUME NEW g \in Goroutines, Work(g) PROVE UNCHANGED row[j]
  <2>1. g \in Live
    BY <1>3, WorkGoesOn DEF Live, ReleaseSlot, NoWorker
  <2>. QED  BY <1>3, <2>1, WorkRows
<1>4. CASE Crash \/ NewManager
  BY <1>1, <1>4 DEF Crash, Die, NewManager, disk
<1>5. CASE OpenDatabase
  BY <1>5 DEF OpenDatabase, ResetInProgressJobs, InProgress
<1>6. CASE Dispatcher /\ ~\E g \in Goroutines : Claim(g)
  BY <1>1, <1>6
     DEF Dispatcher, Tick, ReceiveSignal, TryToDispatchJob, QueryPending,
         RegisterJob, ClaimFails, UnregisterJob, disk
<1>7. ASSUME NEW k \in JobIds, UpdateJobStatus(k, "canceled")
      PROVE  row'[j].status \in {"canceled", "absent"}
  BY <1>0, <1>7, StatusUpdate DEF Terminal
<1>8. CASE Requests
  <2>1. CASE ResetDatabase
    BY <2>1 DEF ResetDatabase, AbsentRow
  <2>2. ASSUME NEW k \in JobIds, NEW u \in Users, Inserted(k, u) PROVE UNCHANGED row[j]
    BY <2>2 DEF Inserted, Exists
  <2>. QED  BY <1>1, <1>7, <1>8, <2>1, <2>2, RequestRows
<1>. QED
  BY <1>1, <1>2, <1>3, <1>4, <1>5, <1>6, <1>7, <1>8 DEF Next, Boot, vars

\* Nothing puts a canceled job back that neither the dispatcher nor a worker
\* holds: no assumption on the ids, the faults or the crashes is needed.
THEOREM CancelsStick == Spec => QueuedCancelSticks
<1>1. Init => TypeInv
  BY TypeInit DEF Init
<1>2. TypeInv /\ [Next]_vars => TypeInv'
  BY TypeStep DEF Moves
<1>3. TypeInv /\ [Next]_vars =>
        [\A j \in JobIds :
            (/\ row[j].status = "canceled" /\ dispatcher.job # j
             /\ \A g \in Live : worker[g].job # j)
            => row'[j].status \in {"canceled", "absent"}]_vars
  BY CanceledStays
<1>. QED  BY <1>1, <1>2, <1>3, PTL DEF Spec, QueuedCancelSticks

=============================================================================
