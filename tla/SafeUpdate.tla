----------------------------- MODULE SafeUpdate -----------------------------
(***************************************************************************)
(* An update script at work beside the service. scripts/install.sh waits    *)
(* for the lockfile to go if it finds the service active, stops the service,*)
(* replaces the binary and starts the service. scripts/deploy.sh waits for  *)
(* the lockfile, replaces the binary and restarts the service; if that      *)
(* fails it puts the old binary back and restarts. A command that fails ends*)
(* either script where it is (set -e). systemd starts a service that died   *)
(* or failed to start (Restart=always), not one that was stopped.           *)
(***************************************************************************)
EXTENDS BuildService

CONSTANT Scripts     \* the scripts considered, among "install" and "deploy"

ASSUME ScriptAssumption == Scripts \subseteq {"install", "deploy"}

VARIABLES script,    \* which script runs
          installer, \* where it is
          found,     \* did install.sh find the service active?
          stopped,   \* is the service stopped by a script, and not to be restarted?
          binary,    \* the binary on disk
          process    \* the binary the process was started from

updateVars == <<script, installer, found, stopped, binary, process>>
allVars == <<vars, updateVars>>

\* How a script ends: as it should, where a command failed, or with the old binary
\* back in its place.
Ended == {"done", "failed", "reverted"}

UpdateTypeOK ==
    /\ script \in Scripts
    /\ installer \in {"check", "wait", "stop", "replace", "start", "rollback",
                      "restart"} \cup Ended
    /\ found \in BOOLEAN
    /\ stopped \in BOOLEAN
    /\ binary \in {"old", "new"}
    /\ process \in {"old", "new"}

UpdateInit == /\ InitIn("up")
              /\ script \in Scripts
              /\ installer = "check"
              /\ found = FALSE
              /\ stopped = FALSE
              /\ binary = "old"
              /\ process = "old"

\* install.sh asks systemd whether the service is active; one that has died and
\* is to be started again is not, and then nothing is waited for or stopped.
\* deploy.sh does not ask.
CheckActive ==
    /\ installer = "check"
    /\ found' = (script = "install" /\ phase # "down")
    /\ installer' = IF script = "install" /\ phase = "down" THEN "replace"
                                                            ELSE "wait"
    /\ UNCHANGED <<vars, script, stopped, binary, process>>

\* Mutant: the test is of the service, not of its lockfile.
SeeServiceUp ==
    /\ installer = "wait"
    /\ phase = "up"
    /\ installer' = IF script = "install" THEN "stop" ELSE "replace"
    /\ UNCHANGED <<vars, script, found, stopped, binary, process>>

\* The loop ends at a look that finds no lockfile.
SeeNoLockfile ==
    /\ installer = "wait"
    /\ ~lockfile
    /\ installer' = IF script = "install" THEN "stop" ELSE "replace"
    /\ UNCHANGED <<vars, script, found, stopped, binary, process>>

StopProcess == IF phase = "down" THEN UNCHANGED vars
                                 ELSE Die /\ UNCHANGED crashes

\* systemctl stop
StopService ==
    /\ installer = "stop"
    /\ installer' = "replace"
    /\ stopped' = TRUE
    /\ StopProcess
    /\ UNCHANGED <<script, found, binary, process>>

\* The binary, then the unit and the sudoers file with its check.
ReplaceBinary ==
    /\ installer = "replace"
    /\ installer' = "start"
    /\ binary' = "new"
    /\ UNCHANGED <<vars, script, found, stopped, process>>

\* One of these commands fails, before or after the binary is replaced. A service
\* that install.sh has stopped stays so.
ReplaceFails ==
    /\ installer = "replace"
    /\ installer' = "failed"
    /\ binary' \in {binary, "new"}
    /\ UNCHANGED <<vars, script, found, stopped, process>>

\* Mutant: deploy.sh ends with a start.
JustStartService ==
    /\ installer = "start"
    /\ installer' = "done"
    /\ stopped' = FALSE
    /\ UNCHANGED <<vars, script, found, binary, process>>

\* install.sh: systemctl start, which leaves a running service alone.
\* deploy.sh: systemctl restart.
StartService ==
    /\ installer = "start"
    /\ installer' = "done"
    /\ stopped' = FALSE
    /\ IF script = "deploy" THEN StopProcess ELSE UNCHANGED vars
    /\ UNCHANGED <<script, found, binary, process>>

\* The last commands fail: enable, for either script, and then nothing is started;
\* or the start of install.sh, which systemd goes on trying ...
StartFails ==
    /\ installer = "start"
    /\ installer' = "failed"
    /\ stopped' \in IF script = "install" THEN {stopped, FALSE} ELSE {stopped}
    /\ UNCHANGED <<vars, script, found, binary, process>>

\* ... or the restart of deploy.sh. It has stopped the process, and systemd goes
\* on trying here too.
RestartFails ==
    /\ installer = "start"
    /\ script = "deploy"
    /\ installer' = "rollback"
    /\ StopProcess
    /\ UNCHANGED <<script, found, stopped, binary, process>>

\* Mutant: the rollback forgets the binary.
KeepNewBinary ==
    /\ installer = "rollback"
    /\ installer' = "restart"
    /\ UNCHANGED <<vars, script, found, stopped, binary, process>>

\* deploy.sh puts its backup back; this may fail ...
RestoreBinary ==
    /\ installer = "rollback"
    /\ \/ installer' = "restart" /\ binary' = "old"
       \/ installer' = "failed" /\ UNCHANGED binary
    /\ UNCHANGED <<vars, script, found, stopped, process>>

\* ... and restarts the service, whether or not that succeeds.
RestartOld ==
    /\ installer = "restart"
    /\ installer' = "reverted"
    /\ StopProcess
    /\ UNCHANGED <<script, found, stopped, binary, process>>

Installer == \/ CheckActive \/ SeeNoLockfile \/ StopService
             \/ ReplaceBinary \/ ReplaceFails
             \/ StartService \/ StartFails \/ RestartFails
             \/ RestoreBinary \/ RestartOld

\* systemd executes the binary that is on disk by then.
StartProcess == /\ ~stopped
                /\ OpenDatabase
                /\ process' = binary
                /\ UNCHANGED <<script, installer, found, stopped, binary>>

ServiceStep == /\ \/ Requests \/ Dispatcher \/ Crash \/ NewManager
                  \/ \E g \in Goroutines : Work(g)
               /\ UNCHANGED updateVars

UpdateNext == Installer \/ StartProcess \/ ServiceStep

UpdateSpec == UpdateInit /\ [][UpdateNext]_allVars

\* The fairness of the service, and a script that is not suspended for ever.
UpdateFairness ==
    /\ WF_allVars(Dispatcher /\ UNCHANGED updateVars)
    /\ \A g \in Goroutines : WF_allVars(Proceed(g) /\ UNCHANGED updateVars)
    /\ \A h \in Handlers : WF_allVars(Write(h) /\ UNCHANGED updateVars)
    /\ WF_allVars(StartProcess)
    /\ WF_allVars(NewManager /\ UNCHANGED updateVars)
    /\ WF_allVars(Installer)

\* BuildsEnd beside a script.
UpdateBuildsEnd ==
    \A g \in Goroutines : WF_allVars(RunBuild(g) /\ UNCHANGED updateVars)

FairUpdateSpec == UpdateSpec /\ UpdateFairness /\ UpdateBuildsEnd

-----------------------------------------------------------------------------
(* Properties. *)

\* "If builds are currently running, the installer will wait for them to complete
\* before stopping the service": at the look that ends the wait no build is going
\* on. (As packaged this fails: the service may not write the lockfile, so the
\* installer never finds one.)
LooksWhenIdle ==
    [][installer = "wait" /\ installer' # "wait" => Live = {}]_allVars

\* Where the service may write the lockfile it holds, over crashes, restarts and
\* builds that come and go. A build can be interrupted there all the same, if its
\* job is claimed between the last look and the stop.
LockedWaitEndsIdle ==
    [][LockWritable /\ installer = "wait" /\ installer' # "wait"
         => Live = {}]_allVars

\* After an update the service runs the new binary, and after a rollback the old
\* one, however often it died or was started again meanwhile. (install.sh ensures
\* it only if it finds the service active: one that is down when the script asks can
\* be back, with the old binary, before the script replaces it, and the start at
\* the end leaves it alone.)
RightBinaryRuns ==
    phase # "down" =>
        /\ installer = "done" /\ (script = "install" => found) => process = "new"
        /\ installer = "reverted" => process = "old"

\* What the scripts rely on, step by step (the inductive invariant behind
\* RightBinaryRuns): which binary is there to be executed; that install.sh keeps a
\* service it has found active down while it replaces the binary; that a script
\* which ends without an error leaves no service stopped.
UpdateInv ==
    /\ UpdateTypeOK
    /\ found \/ installer = "stop" => script = "install"
    /\ installer \in {"start", "rollback", "done"} => binary = "new"
    /\ installer \in {"restart", "reverted"} => binary = "old"
    /\ installer \in {"rollback", "restart", "reverted"} => script = "deploy"
    /\ stopped => script = "install" /\ installer \in {"replace", "start", "failed"}
    /\ found /\ installer \in {"replace", "start"} => phase = "down" /\ stopped
    /\ installer = "done" /\ (script = "install" => found) =>
           phase = "down" \/ process = "new"
    /\ installer = "reverted" => phase = "down" \/ process = "old"

\* The update comes to an end once the jobs run out.
UpdateCompletes == <>(installer \in Ended)
=============================================================================
