--------------------------- MODULE BuildServiceInv ---------------------------
(***************************************************************************)
(* The inductive invariant behind the safety properties of BuildService.    *)
(* MCBuildService checks it on small instances, BuildServiceProofs proves   *)
(* it.                                                                      *)
(***************************************************************************)
EXTENDS BuildService

HasJob == dispatcher.pc \in {"register", "claim", "unregister"}

\* Rows, the dispatcher, workers and handlers have a job and a user when they
\* should.
Owners ==
    /\ \A j \in JobIds : Exists(j) => row[j].user \in Users
    /\ HasJob => dispatcher.job \in JobIds /\ dispatcher.user \in Users
    /\ \A g \in Goroutines :
          \/ worker[g] = NoWorker
          \/ /\ worker[g].pc # "none"
             /\ worker[g].job \in JobIds
             /\ worker[g].user \in Users
             /\ worker[g].pc \in {"finish", "report"} =>
                    worker[g].verdict \in Verdicts
    /\ \A h \in Handlers :
          /\ handler[h].pc # "idle" => handler[h].job \in JobIds
          /\ handler[h].pc = "insert" => handler[h].user \in Users

TypeInv == TypeOK /\ Owners

\* The active users cover the workers' users and the dispatcher's, no two of
\* which are the same; the list the dispatcher works on covers the active users.
UsersApart ==
    /\ \A g \in Live : worker[g].user \in activeUsers
    /\ \A g, h \in Live : worker[g].user = worker[h].user => g = h
    /\ dispatcher.pc \in {"query", "register"} =>
           activeUsers \subseteq dispatcher.excluded
    /\ dispatcher.pc = "register" => dispatcher.user \notin dispatcher.excluded
    /\ dispatcher.pc \in {"claim", "unregister"} =>
           /\ dispatcher.user \in activeUsers
           /\ \A g \in Live : worker[g].user # dispatcher.user

UserInv == TypeInv /\ UsersApart

\* With ids used once, a job's row keeps its user ...
SameOwner ==
    /\ \A j \in JobIds : Exists(j) => j \in used
    /\ HasJob => /\ dispatcher.job \in used
                 /\ Exists(dispatcher.job) =>
                        row[dispatcher.job].user = dispatcher.user
    /\ \A g \in Live :
           /\ worker[g].job \in used
           /\ Exists(worker[g].job) => row[worker[g].job].user = worker[g].user

\* ... so that the jobs are apart because their users are.
JobsApart ==
    /\ \A g \in Live : worker[g].job \in activeBuilds
    /\ \A g, h \in Live : worker[g].job = worker[h].job => g = h
    /\ HasJob => \A g \in Live : worker[g].job # dispatcher.job
    /\ dispatcher.pc \in {"claim", "unregister"} => dispatcher.job \in activeBuilds

\* The limit, with a place kept for the job the dispatcher is looking for.
WithinLimit ==
    /\ IsFiniteSet(activeBuilds)
    /\ Cardinality(activeBuilds) <= MaxConcurrent
    /\ dispatcher.pc \in {"query", "register"} =>
           Cardinality(activeBuilds) < MaxConcurrent

SlotInv == UserInv /\ SameOwner /\ JobsApart /\ WithinLimit

\* A success the backend has heard of, or is about to hear of, is in the row
\* for good.
Stored(j) == row[j].status \in {"success", "canceled", "absent"}

SuccessStored ==
    /\ \A g \in Live :
           worker[g].pc = "report" /\ worker[g].verdict = "success" =>
               Stored(worker[g].job)
    /\ \A j \in JobIds : "success" \in heard[j] =>
           /\ Stored(j)
           /\ j \in used
           /\ HasJob => dispatcher.job # j
           /\ \A g \in Live : worker[g].job = j =>
                  \/ worker[g].pc = "report" /\ worker[g].verdict = "success"
                  \/ worker[g].pc = "release"

ServiceInv == SlotInv /\ SuccessStored

\* Nothing is left of a process that is not up.
DownIsIdle ==
    phase # "up" => dispatcher = IdleDispatcher /\ Live = {} /\ activeBuilds = {}

\* The lockfile is there while there are active builds, and each of these is a
\* worker's or is about to become one or to be given up.
LockfileMatches == LockWritable /\ phase = "up" => lockfile = (activeBuilds # {})
ActiveHeld ==
    \A j \in activeBuilds :
        \/ dispatcher.pc \in {"claim", "unregister"} /\ dispatcher.job = j
        \/ \E g \in Live : worker[g].job = j

\* A job in progress has a worker that has yet to write its verdict, or that has
\* failed to.
Undecided == {"open", "mark", "build", "tag", "finish"}
Held(j)   == \E g \in Goroutines : worker[g].job = j /\ worker[g].pc \in Undecided
InProgressHeld ==
    phase # "down" =>
        \A j \in JobIds :
            row[j].status \in InProgress => Held(j) \/ "verdict" \in unsaved[j]

\* The tag is stored before the success is, and no later row takes its place.
TagStored(g) ==
    worker[g].pc = "finish" /\ worker[g].verdict = "success" /\ Exists(worker[g].job)
        => \/ row[worker[g].job].imageTag
           \/ "tag" \in unsaved[worker[g].job]
ImageStored == SuccessHasImage /\ \A g \in Live : TagStored(g)

\* The job that the dispatcher holds is the oldest of its user among those that
\* were in the table when it looked: no worker of that user is there to put an
\* older one back. What has been inserted since may be older.
SeenUsed == dispatcher.seen \subseteq used
HoldsOldest ==
    HasJob /\ Exists(dispatcher.job) =>
        \A j \in dispatcher.seen :
            row[j].status = "pending" /\ row[j].user = dispatcher.user
                => row[dispatcher.job].created <= row[j].created

LockInv  == DownIsIdle /\ LockfileMatches /\ ActiveHeld
TruthInv == ServiceInv /\ LockInv /\ InProgressHeld /\ ImageStored
            /\ SeenUsed /\ HoldsOldest

-----------------------------------------------------------------------------
\* The process dies, by itself or because it is stopped (SafeUpdate): the
\* invariants are kept by this as well.
Stop  == Die /\ crashes' \in Nat
Moves == Next \/ Stop
=============================================================================
