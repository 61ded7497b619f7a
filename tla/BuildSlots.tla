----------------------------- MODULE BuildSlots -----------------------------
(***************************************************************************)
(* What the builder promises of the builds it runs, whatever its dispatcher, *)
(* workers and database do to keep the promise: at most MaxConcurrent        *)
(* builds run at once, never two of one user nor two of one job, and a job   *)
(* whose success the backend has heard of is not built again.                *)
(*                                                                           *)
(* BuildService is shown to implement this specification.                    *)
(***************************************************************************)
EXTENDS Naturals, FiniteSets

CONSTANTS JobIds,         \* ids of build jobs
          Users,          \* owners of build jobs
          MaxConcurrent   \* MAX_CONCURRENT_BUILDS

VARIABLES running,        \* the builds going on, as [job, user] records
          succeeded       \* the jobs whose success the backend has heard of

slotVars == <<running, succeeded>>

Build == [job : JobIds, user : Users]

SlotsTypeOK == /\ running \in SUBSET Build
               /\ succeeded \in SUBSET JobIds

SlotsInit == running = {} /\ succeeded = {}

\* A build starts on a free slot, for a user with no other build.
Start(b) == /\ Cardinality(running) < MaxConcurrent
            /\ \A r \in running : r.job # b.job /\ r.user # b.user
            /\ b.job \notin succeeded
            /\ running' = running \cup {b}
            /\ UNCHANGED succeeded

\* The backend hears that a running build succeeded.
Succeed(b) == /\ b \in running
              /\ succeeded' = succeeded \cup {b.job}
              /\ UNCHANGED running

\* A build gives its slot back, whatever became of it.
Finish(b) == /\ b \in running
             /\ running' = running \ {b}
             /\ UNCHANGED succeeded

\* The builder stops: every running build stops with it.
Interrupt == running' = {} /\ UNCHANGED succeeded

SlotsNext == \/ \E b \in Build : Start(b) \/ Succeed(b) \/ Finish(b)
             \/ Interrupt

SlotsSpec == SlotsInit /\ [][SlotsNext]_slotVars
=============================================================================
