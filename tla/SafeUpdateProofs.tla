-------------------------- MODULE SafeUpdateProofs --------------------------
(***************************************************************************)
(* Proofs about SafeUpdate, for every value of its constants: the invariants*)
(* of the service and its refinement of BuildSlots hold beside a script too, *)
(* and the two scripts do what they are for.                                *)
(***************************************************************************)
EXTENDS SafeUpdate, BuildServiceProofs

-----------------------------------------------------------------------------
(* The service beside a script. *)

\* For the service a step of a script is nothing, or its process being stopped.
LEMMA UpdateMoves == TypeInv /\ [UpdateNext]_allVars => [Moves]_vars
<1>1. TypeInv /\ StopProcess => Stop \/ UNCHANGED vars
  BY DEF StopProcess, Stop, TypeInv, TypeOK
<1>2. Installer => StopProcess \/ UNCHANGED vars
  BY DEF Installer, CheckActive, SeeNoLockfile, StopService, ReplaceBinary,
         ReplaceFails, StartService, StartFails, RestartFails, RestoreBinary,
         RestartOld
<1>3. StartProcess \/ ServiceStep => Next
  BY DEF StartProcess, ServiceStep, Next, Boot
<1>4. UNCHANGED allVars => UNCHANGED vars
  BY DEF allVars
<1>. QED  BY <1>1, <1>2, <1>3, <1>4 DEF UpdateNext, Moves

\* The service keeps its types beside a script.
LEMMA ServiceTyping == UpdateSpec => []TypeInv
<1>1. UpdateInit => TypeInv
  BY TypeInit DEF UpdateInit
<1>2. TypeInv /\ [UpdateNext]_allVars => TypeInv'
  BY UpdateMoves, TypeStep
<1>. QED  BY <1>1, <1>2, PTL DEF UpdateSpec

\* An update breaks none of the service's invariants, whenever it stops the
\* process, whatever fails, and however often the service dies meanwhile, if no id is
\* used twice.
THEOREM UpdateKeepsTruth == ASSUME ~ReuseIds PROVE UpdateSpec => []TruthInv
<1>1. UpdateInit => TruthInv
  BY TruthInit DEF UpdateInit
<1>2. TruthInv => TypeInv
  BY DEF TruthInv, ServiceInv, SlotInv, UserInv
<1>3. TruthInv /\ [UpdateNext]_allVars => TruthInv'
  BY <1>2, UpdateMoves, TruthStep
<1>. QED  BY <1>1, <1>3, PTL DEF UpdateSpec

\* The service keeps what BuildSlots promises of the builds it runs also while a
\* script stops and replaces it (an interruption, for BuildSlots), if no id is used
\* twice.
THEOREM UpdateImplements == ASSUME ~ReuseIds PROVE UpdateSpec => ImplementsSlots
<1>1. UpdateInit => Slots!SlotsInit
  BY InitMaps DEF UpdateInit
<1>2. TruthInv => ServiceInv /\ TypeInv
  BY DEF TruthInv, ServiceInv, SlotInv, UserInv
<1>3. TruthInv /\ [UpdateNext]_allVars => [Slots!SlotsNext]_(Slots!slotVars)
  BY <1>2, UpdateMoves, StepMaps
<1>. QED
  BY <1>1, <1>3, UpdateKeepsTruth, PTL DEF UpdateSpec, ImplementsSlots, Slots!SlotsSpec

\* No worker without a lockfile, in any phase.
LEMMA NoLockfileNoWorker ==
    TruthInv /\ LockWritable /\ ~lockfile => Live = {}
<1>1. SUFFICES ASSUME TruthInv, LockWritable, ~lockfile PROVE Live = {}
  OBVIOUS
<1>2. CASE phase = "up"
  BY <1>1, <1>2
     DEF TruthInv, LockInv, LockfileMatches, ServiceInv, SlotInv, JobsApart
<1>3. CASE phase # "up"
  BY <1>1, <1>3 DEF TruthInv, LockInv, DownIsIdle
<1>. QED  BY <1>2, <1>3

\* The look that ends the wait of a script finds no build going on, over any number
\* of crashes, restarts and builds, if no id is used twice and the service may write
\* the lockfile: as it is packaged it may not (LooksWhenIdle).
THEOREM WaitsForIdle == ASSUME ~ReuseIds PROVE UpdateSpec => LockedWaitEndsIdle
<1>1. ASSUME [UpdateNext]_allVars, installer = "wait", installer' # "wait"
      PROVE  ~lockfile
  BY <1>1
     DEF UpdateNext, Installer, CheckActive, SeeNoLockfile, StopService,
         ReplaceBinary, ReplaceFails, StartService, StartFails, RestartFails,
         RestoreBinary, RestartOld, StartProcess, ServiceStep, allVars, updateVars
<1>2. TruthInv /\ [UpdateNext]_allVars =>
        [LockWritable /\ installer = "wait" /\ installer' # "wait"
           => Live = {}]_allVars
  BY <1>1, NoLockfileNoWorker
<1>. QED  BY <1>2, UpdateKeepsTruth, PTL DEF UpdateSpec, LockedWaitEndsIdle

-----------------------------------------------------------------------------
(* The binary. *)

\* A step of the service does not start the process: it leaves it as it is, or
\* ends it.
LEMMA ServicePhase ==
    ASSUME TypeInv, ServiceStep
    PROVE  phase = "down" => phase' = "down"
<1>1. ASSUME NEW g \in Goroutines, Work(g) PROVE UNCHANGED phase
  BY <1>1, WorkGoesOn DEF ReleaseSlot
<1>2. Requests => UNCHANGED phase
  BY RequestsFrame
<1>3. Dispatcher => UNCHANGED phase
  BY DEF Dispatcher, Tick, ReceiveSignal, TryToDispatchJob, QueryPending,
         RegisterJob, Claim, ClaimFails, UnregisterJob
<1>4. Crash => phase' = "down"
  BY DEF Crash, Die
<1>5. NewManager => phase = "opened"
  BY DEF NewManager
<1>. QED  BY <1>1, <1>2, <1>3, <1>4, <1>5 DEF ServiceStep

LEMMA StopsDown == StopProcess => phase' = "down"
  BY DEF StopProcess, Die, vars

LEMMA UpdateInvStep ==
    TypeInv /\ UpdateInv /\ [UpdateNext]_allVars => UpdateInv'
<1>. SUFFICES ASSUME TypeInv, UpdateInv, [UpdateNext]_allVars PROVE UpdateInv'
  OBVIOUS
<1>. USE DEF UpdateInv, UpdateTypeOK
<1>1. CASE UNCHANGED allVars
  BY <1>1 DEF allVars, vars, updateVars
<1>2. CASE CheckActive
  BY <1>2 DEF CheckActive, vars, Ended
<1>3. CASE SeeNoLockfile
  <2>1. /\ installer = "wait"
        /\ \/ installer' = "stop" /\ script = "install"
           \/ installer' = "replace" /\ script # "install"
        /\ UNCHANGED <<script, found, stopped, binary, process>>
        /\ UNCHANGED phase
    BY <1>3 DEF SeeNoLockfile, vars
  <2>. QED  BY <2>1
<1>4. CASE StopService
  <2>1. /\ installer = "stop" /\ installer' = "replace"
        /\ stopped' = TRUE /\ phase' = "down"
        /\ UNCHANGED <<script, found, binary, process>>
    BY <1>4, StopsDown DEF StopService
  <2>. QED  BY <2>1
<1>5. CASE ReplaceBinary
  BY <1>5 DEF ReplaceBinary, vars, Ended
<1>6. CASE ReplaceFails
  <2>1. /\ installer = "replace" /\ installer' = "failed"
        /\ binary' \in {binary, "new"}
        /\ UNCHANGED <<script, found, stopped, process>>
    BY <1>6 DEF ReplaceFails
  <2>. QED  BY <2>1 DEF Ended
<1>7. CASE StartService
  <2>1. /\ installer = "start" /\ installer' = "done" /\ stopped' = FALSE
        /\ UNCHANGED <<script, found, binary, process>>
    BY <1>7 DEF StartService
  <2>2. IF script = "deploy" THEN phase' = "down" ELSE UNCHANGED phase
    BY <1>7, StopsDown DEF StartService, vars
  <2>3. script \in {"install", "deploy"}
    BY ScriptAssumption
  <2>. QED  BY <2>1, <2>2, <2>3 DEF Ended
<1>8. CASE StartFails
  BY <1>8 DEF StartFails, vars, Ended
<1>9. CASE RestartFails
  BY <1>9, StopsDown DEF RestartFails, vars, Ended
<1>10. CASE RestoreBinary
  BY <1>10 DEF RestoreBinary, vars, Ended
<1>11. CASE RestartOld
  BY <1>11, StopsDown DEF RestartOld, vars, Ended
<1>12. CASE StartProcess
  <2>1. phase = "down" /\ ~stopped /\ process' = binary
        /\ UNCHANGED <<script, installer, found, stopped, binary>>
    BY <1>12 DEF StartProcess, OpenDatabase
  <2>. QED  BY <2>1
<1>13. CASE ServiceStep
  <2>1. UNCHANGED updateVars /\ (phase = "down" => phase' = "down")
    BY <1>13, ServicePhase DEF ServiceStep
  <2>. QED  BY <2>1 DEF updateVars
<1>. QED
  BY <1>1, <1>2, <1>3, <1>4, <1>5, <1>6, <1>7, <1>8, <1>9, <1>10, <1>11, <1>12, <1>13
     DEF UpdateNext, Installer

\* Which binary is on the disk and which one runs, at each line of the scripts.
THEOREM UpdateInvariant == UpdateSpec => []UpdateInv
<1>1. UpdateInit => UpdateInv
  BY DEF UpdateInit, InitIn, UpdateInv, UpdateTypeOK
<1>2. TypeInv /\ UpdateInv /\ [UpdateNext]_allVars => UpdateInv'
  BY UpdateInvStep
<1>. QED  BY <1>1, <1>2, ServiceTyping, PTL DEF UpdateSpec

\* After an update the service runs the new binary, after a rollback the old one,
\* however often it died meanwhile: for install.sh, if it found the service active.
THEOREM UpdateInstallsBinary == UpdateSpec => []RightBinaryRuns
<1>1. UpdateInv => RightBinaryRuns
  BY DEF UpdateInv, RightBinaryRuns
<1>. QED  BY <1>1, UpdateInvariant, PTL
=============================================================================
