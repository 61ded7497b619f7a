---------------------------- MODULE LogRetention ----------------------------
(***************************************************************************)
(* The log directory: what builds and the process write there, what GET logs    *)
(* reads, and what the hourly cleanup removes (logmanager.go, and its callers   *)
(* in worker.go, server.go and cmd/hubfly-builder/server.go). One unit of time  *)
(* stands for the second of a log's name. Lines are left out; a file remembers  *)
(* whose they are. A row's log path is that of an attempt, never a client's.    *)
(***************************************************************************)
EXTENDS Integers, FiniteSets

CONSTANTS Jobs,
          System,      \* stands for the process, whose log is in the same directory
          Readers,     \* requests for a log
          None,
          Limits,      \* timeouts of builds, with the time that their end takes
          MaxAge,      \* LOG_RETENTION_DAYS
          PassTime,    \* a cleanup takes no longer
          MaxTime,     \* bound on the time
          MaxBuilds,   \* bound on the builds, retries included
          MaxRestarts  \* bound on the restarts of the process

\* A retention of zero days is ignored (mergeEnvConfig); a cleanup takes seconds
\* and the retention is a day at least.
ASSUME TimeAssumption ==
    /\ Limits \subseteq Nat /\ MaxAge \in Nat /\ PassTime \in Nat
    /\ MaxTime \in Nat /\ MaxBuilds \in Nat /\ MaxRestarts \in Nat
    /\ PassTime <= MaxAge

VARIABLES now,
          files,    \* the directory: a function from the names in it
          row,      \* row[j]: the path in the row of job j
          build,    \* build[j]: the worker of job j
          current,  \* the log of this process
          cleaner,  \* the goroutine of the hourly ticker
          reader,   \* reader[r]: the request r between GetJob and ReadFile
          builds, restarts  \* how many there were

vars == <<now, files, row, build, current, cleaner, reader, builds, restarts>>

-----------------------------------------------------------------------------
\* "build-<id>-<second>.log" and "system-<second>.log"
\* Mutants: without the second; without the id.
NameWithoutTime(owner, time) == [of |-> owner, at |-> 0]
NameWithoutId(owner, time)   == [of |-> System, at |-> time]
LogName(owner, time)         == [of |-> owner, at |-> time]

Names == [of : Jobs \union {System}, at : 0..MaxTime]

ASSUME NoneAssumption == None \notin Names

\* os.Create: a file of this name is truncated.
Create(fs, name, owner) ==
    [n \in DOMAIN fs \union {name} |->
        IF n = name THEN [written |-> now, by |-> {owner}] ELSE fs[n]]

\* A line written to an open file. If its name is gone, so is the line.
Write(fs, name, owner) ==
    [n \in DOMAIN fs |->
        IF n = name THEN [written |-> now, by |-> fs[n].by \union {owner}] ELSE fs[n]]

\* log.Printf
Printf(fs) == Write(fs, current, System)

Idle      == [pc |-> "idle", log |-> None, opened |-> 0, limit |-> 0]
Waiting   == [pc |-> "waits", since |-> 0, todo |-> {}, doomed |-> None, failed |-> {}]
NoReader  == [job |-> None, path |-> None]

Init ==
    /\ now = 0
    /\ current = LogName(System, 0)
    /\ files = [n \in {current} |-> [written |-> 0, by |-> {System}]]
    /\ row = [j \in Jobs |-> None]
    /\ build = [j \in Jobs |-> Idle]
    /\ cleaner = Waiting
    /\ reader = [r \in Readers |-> NoReader]
    /\ builds = 0 /\ restarts = 0

-----------------------------------------------------------------------------
(* Builds. *)

\* The deadline runs from before the log is created.
OpenLog(j, limit) ==
    /\ build[j].pc = "idle" /\ builds < MaxBuilds
    /\ builds' = builds + 1
    /\ build' = [build EXCEPT ![j] = [pc |-> "opened", log |-> LogName(j, now),
                                      opened |-> now, limit |-> limit]]
    /\ files' = Create(Printf(files), LogName(j, now), j)
    /\ UNCHANGED <<now, row, current, cleaner, reader, restarts>>

\* Mutant: the path is made again, a second later perhaps.
StorePathOfNow(j) ==
    /\ build[j].pc = "opened"
    /\ row' = [row EXCEPT ![j] = LogName(j, now)]
    /\ build' = [build EXCEPT ![j].pc = "running"]
    /\ UNCHANGED <<now, files, current, cleaner, reader, builds, restarts>>

\* UpdateJobLogPath; if it fails, so does the build, and the row keeps its path.
StorePath(j) ==
    /\ build[j].pc = "opened"
    /\ row' = [row EXCEPT ![j] = build[j].log]
    /\ build' = [build EXCEPT ![j].pc = "running"]
    /\ UNCHANGED <<now, files, current, cleaner, reader, builds, restarts>>

StorePathFails(j) ==
    /\ build[j].pc = "opened"
    /\ files' = Printf(Write(files, build[j].log, j))
    /\ build' = [build EXCEPT ![j] = Idle]
    /\ UNCHANGED <<now, row, current, cleaner, reader, builds, restarts>>

Log(j) ==
    /\ build[j].pc = "running"
    /\ files' = Write(files, build[j].log, j)
    /\ UNCHANGED <<now, row, build, current, cleaner, reader, builds, restarts>>

\* failJob, succeedJob. The job may be built again, in the same second even.
Finish(j) ==
    /\ build[j].pc = "running"
    /\ files' = Printf(files)
    /\ build' = [build EXCEPT ![j] = Idle]
    /\ UNCHANGED <<now, row, current, cleaner, reader, builds, restarts>>

-----------------------------------------------------------------------------
(* Requests. *)

\* The row's path is read, and the file after it: a job without a path has no log.
AskForLog(r, j) ==
    /\ reader[r] = NoReader /\ row[j] # None
    /\ reader' = [reader EXCEPT ![r] = [job |-> j, path |-> row[j]]]
    /\ UNCHANGED <<now, files, row, build, current, cleaner, builds, restarts>>

\* 404 if the file is not there.
ReadLog(r) ==
    /\ reader[r] # NoReader
    /\ reader' = [reader EXCEPT ![r] = NoReader]
    /\ UNCHANGED <<now, files, row, build, current, cleaner, builds, restarts>>

-----------------------------------------------------------------------------
(* Cleanup. *)

\* Mutant: the first line is missing.
CleanupQuietly ==
    /\ cleaner.pc = "waits"
    /\ cleaner' = [cleaner EXCEPT !.pc = "looks", !.since = now, !.todo = DOMAIN files]
    /\ UNCHANGED <<now, files, row, build, current, reader, builds, restarts>>

\* The first line of a cleanup goes into the process's own log; then ReadDir.
Cleanup ==
    /\ cleaner.pc = "waits"
    /\ cleaner' = [cleaner EXCEPT !.pc = "looks", !.since = now, !.todo = DOMAIN files]
    /\ files' = Printf(files)
    /\ UNCHANGED <<now, row, build, current, reader, builds, restarts>>

TooOld(written) == now - written > MaxAge

\* ReadDir sorts the names: of one owner's, the oldest comes first.
IsNext(name) ==
    /\ cleaner.pc = "looks" /\ name \in cleaner.todo
    /\ \A n \in cleaner.todo : n.of = name.of => name.at <= n.at

\* A file that is new enough.
PassOver(name) ==
    /\ IsNext(name)
    /\ name \in DOMAIN files /\ ~TooOld(files[name].written)
    /\ cleaner' = [cleaner EXCEPT !.todo = @ \ {name}]
    /\ UNCHANGED <<now, files, row, build, current, reader, builds, restarts>>

\* A file that is too old, and is still in the directory when it is looked at.
Condemn(name) ==
    /\ IsNext(name)
    /\ name \in DOMAIN files /\ TooOld(files[name].written)
    /\ cleaner' = [cleaner EXCEPT !.pc = "removes", !.todo = @ \ {name}, !.doomed = name]
    /\ files' = Printf(files)
    /\ UNCHANGED <<now, row, build, current, reader, builds, restarts>>

\* Mutant: the name of the file is kept.
RemoveAndHold ==
    /\ cleaner.pc = "removes"
    /\ files' = [n \in DOMAIN files \ {cleaner.doomed} |-> files[n]]
    /\ cleaner' = [cleaner EXCEPT !.pc = "looks"]
    /\ UNCHANGED <<now, row, build, current, reader, builds, restarts>>

Remove ==
    /\ cleaner.pc = "removes"
    /\ files' = [n \in DOMAIN files \ {cleaner.doomed} |-> files[n]]
    /\ cleaner' = [cleaner EXCEPT !.pc = "looks", !.doomed = None]
    /\ UNCHANGED <<now, row, build, current, reader, builds, restarts>>

\* A file that cannot be removed is left for the next pass.
\* Mutant: and so are the others.
RemoveFailsForAll ==
    /\ cleaner.pc = "removes"
    /\ files' = Printf(files)
    /\ cleaner' = [cleaner EXCEPT !.pc = "looks", !.todo = {}, !.doomed = None,
                                !.failed = @ \union {cleaner.doomed}]
    /\ UNCHANGED <<now, row, build, current, reader, builds, restarts>>

RemoveFails ==
    /\ cleaner.pc = "removes"
    /\ files' = Printf(files)
    /\ cleaner' = [cleaner EXCEPT !.pc = "looks", !.doomed = None,
                                !.failed = @ \union {cleaner.doomed}]
    /\ UNCHANGED <<now, row, build, current, reader, builds, restarts>>

EndPass ==
    /\ cleaner.pc = "looks" /\ cleaner.todo = {}
    /\ cleaner' = Waiting
    /\ UNCHANGED <<now, files, row, build, current, reader, builds, restarts>>

-----------------------------------------------------------------------------
\* A build is over at its limit, and a cleanup after PassTime.
Pass ==
    /\ now < MaxTime
    /\ \A j \in Jobs : build[j].pc # "idle" => now < build[j].opened + build[j].limit
    /\ cleaner.pc # "waits" => now < cleaner.since + PassTime
    /\ now' = now + 1
    /\ UNCHANGED <<files, row, build, current, cleaner, reader, builds, restarts>>

\* The process dies with its goroutines and is started again.
Restart ==
    /\ restarts < MaxRestarts
    /\ restarts' = restarts + 1
    /\ build' = [j \in Jobs |-> Idle]
    /\ cleaner' = Waiting
    /\ reader' = [r \in Readers |-> NoReader]
    /\ current' = LogName(System, now)
    /\ files' = Create(files, LogName(System, now), System)
    /\ UNCHANGED <<now, row, builds>>

BuildStep(j) ==
    \/ \E limit \in Limits : OpenLog(j, limit)
    \/ StorePath(j) \/ StorePathFails(j) \/ Log(j) \/ Finish(j)

ReaderStep(r) == ReadLog(r) \/ \E j \in Jobs : AskForLog(r, j)

CleanerStep ==
    \/ Cleanup \/ Remove \/ RemoveFails \/ EndPass
    \/ \E name \in cleaner.todo : PassOver(name) \/ Condemn(name)

Next ==
    \/ \E j \in Jobs : BuildStep(j)
    \/ \E r \in Readers : ReaderStep(r)
    \/ CleanerStep \/ Pass \/ Restart

Spec == Init /\ [][Next]_vars

-----------------------------------------------------------------------------
(* Properties. *)

\* Every variable keeps its type, files and paths have names of the directory, and
\* the cleanup holds a file exactly while it removes it.
LogTypeOK ==
    /\ now \in 0..MaxTime /\ restarts \in 0..MaxRestarts /\ builds \in 0..MaxBuilds
    /\ current \in Names
    /\ DOMAIN files \subseteq Names
    /\ \A n \in DOMAIN files :
          files[n].written \in 0..now /\ files[n].by \subseteq Jobs \union {System}
    /\ row \in [Jobs -> Names \union {None}]
    /\ build \in [Jobs -> [pc : {"idle", "opened", "running"}, log : Names \union {None},
                           opened : 0..now, limit : Limits \union {0}]]
    /\ cleaner \in [pc : {"waits", "looks", "removes"}, since : 0..now,
                    todo : SUBSET Names, doomed : Names \union {None}, failed : SUBSET Names]
    /\ (cleaner.doomed # None) <=> (cleaner.pc = "removes")
    /\ reader \in [Readers -> [job : Jobs \union {None}, path : Names \union {None}]]

\* The log of a running build whose timeout is within the retention can be read all
\* the time: the cleanup removes neither the file it is writing, however long it is
\* silent, nor one a retry has opened since the cleanup looked at an older one.
RunningLogKept ==
    \A j \in Jobs :
        build[j].pc = "running" /\ build[j].limit <= MaxAge
            => row[j] = build[j].log /\ row[j] \in DOMAIN files

\* The process's own log is in the directory as long as it runs, although it may
\* have nothing to say for longer than the retention.
SystemLogKept == current \in DOMAIN files

\* What a request is about to be served are lines of the job it was made for, and of
\* no other that was started in the same second.
ServedLogIsOwn ==
    \A r \in Readers :
        reader[r].path \in DOMAIN files => files[reader[r].path].by = {reader[r].job}

\* A log that is not found, when a request comes or after its look into the row, was
\* created longer ago than the retention.
GoneIsOld ==
    \A path \in {row[j] : j \in Jobs} \union {reader[r].path : r \in Readers} :
        path # None /\ path \notin DOMAIN files => now - path.at > MaxAge

\* When a cleanup has come to its end, every file that was too old when it began is
\* gone, except for those it could not remove: one failure does not spare the others.
PassIsThorough ==
    [][EndPass => \A n \in DOMAIN files :
            now - files[n].written > MaxAge + PassTime => n \in cleaner.failed]_vars
=============================================================================
