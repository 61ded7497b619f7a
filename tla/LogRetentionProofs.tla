------------------------- MODULE LogRetentionProofs -------------------------
(***************************************************************************)
(* Theorems about LogRetention, for any jobs, requests, timeouts, retention    *)
(* and bounds.                                                               *)
(***************************************************************************)
EXTENDS LogRetention, TLAPS

\* A file is written to from the second of its name on, by its owner only.
FilesInv ==
    \A n \in DOMAIN files : n.at <= files[n].written /\ files[n].by = {n.of}

\* Paths in rows and of requests are those of their job, whose files are there or old.
PathInv ==
    /\ \A j \in Jobs : row[j] # None => row[j].of = j
    /\ \A r \in Readers :
          reader[r].path # None => reader[r].path.of = reader[r].job
    /\ GoneIsOld

\* A worker is within its limit, and so is its log, which the row names.
BuildInv ==
    \A j \in Jobs : build[j].pc # "idle" =>
        /\ build[j].log = LogName(j, build[j].opened)
        /\ now <= build[j].opened + build[j].limit
        /\ build[j].log \notin DOMAIN files => now - build[j].opened > MaxAge
        /\ build[j].pc = "running" => row[j] = build[j].log

CurrentInv ==
    /\ current.of = System /\ current \in DOMAIN files

\* The process's log was written to when the pass began, so it is not condemned, and a
\* condemned name is too old for any log that is opened before its removal.
CleanerInv ==
    cleaner.pc # "waits" =>
        /\ now <= cleaner.since + PassTime
        /\ files[current].written >= cleaner.since
        /\ cleaner.pc = "removes" =>
              now - cleaner.doomed.at > MaxAge /\ cleaner.doomed # current

LogInv == LogTypeOK /\ FilesInv /\ PathInv /\ BuildInv /\ CurrentInv /\ CleanerInv

-----------------------------------------------------------------------------
(* What the operators on the directory do. *)

LEMMA NameFacts ==
    ASSUME NEW o \in Jobs \union {System}, NEW t \in 0..MaxTime
    PROVE  LogName(o, t) \in Names /\ LogName(o, t).of = o /\ LogName(o, t).at = t
  BY DEF LogName, Names

\* The files fs are those of gs, but for lines their owners have written since.
Later(fs, gs) ==
    /\ DOMAIN fs = DOMAIN gs
    /\ \A n \in DOMAIN gs : fs[n].written \in {gs[n].written, now} /\ fs[n].by = {n.of}

LEMMA WriteLater ==
    ASSUME NEW fs, \A n \in DOMAIN fs : fs[n].by = {n.of},
           NEW name, NEW owner, owner = name.of
    PROVE  /\ Later(Write(fs, name, owner), fs)
           /\ name \in DOMAIN fs => Write(fs, name, owner)[name].written = now
<1>1. ASSUME NEW n \in DOMAIN fs
      PROVE  /\ Write(fs, name, owner)[n].written \in {fs[n].written, now}
             /\ Write(fs, name, owner)[n].by = {n.of}
             /\ n = name => Write(fs, name, owner)[n].written = now
  <2>1. CASE n = name
    BY <2>1 DEF Write
  <2>2. CASE n # name
    BY <2>2 DEF Write
  <2>. QED  BY <2>1, <2>2
<1>2. DOMAIN Write(fs, name, owner) = DOMAIN fs
  BY DEF Write
<1>. QED  BY <1>1, <1>2 DEF Later

LEMMA NumberFacts ==
    ASSUME LogTypeOK
    PROVE  /\ now \in 0..MaxTime /\ now \in Nat /\ MaxAge \in Nat /\ MaxTime \in Nat
           /\ \A j \in Jobs : build[j].opened \in Nat /\ build[j].limit \in Nat
<1>1. now \in 0..MaxTime /\ now \in Nat /\ MaxAge \in Nat /\ MaxTime \in Nat
  BY TimeAssumption DEF LogTypeOK
<1>2. ASSUME NEW j \in Jobs PROVE build[j].opened \in 0..now /\ build[j].limit \in Limits \union {0}
  BY DEF LogTypeOK
<1>3. ASSUME NEW j \in Jobs PROVE build[j].opened \in Nat /\ build[j].limit \in Nat
  <2>1. build[j].opened \in Nat
    BY <1>1, <1>2
  <2>2. \A l \in Limits \union {0} : l \in Nat
    BY TimeAssumption
  <2>3. build[j].limit \in Nat
    BY <1>2, <2>2, Zenon
  <2>. QED  BY <2>1, <2>3
<1>. QED  BY <1>1, <1>3

-----------------------------------------------------------------------------
LEMMA InitInv == Init => LogInv
<1>. SUFFICES ASSUME Init PROVE LogInv
  OBVIOUS
<1>1. current \in Names /\ current.of = System /\ current.at = 0
  BY NameFacts, TimeAssumption DEF Init
<1>. QED
  BY <1>1, TimeAssumption, NoneAssumption
  DEF Init, LogInv, LogTypeOK, FilesInv, PathInv, GoneIsOld, BuildInv, CurrentInv,
      CleanerInv, Idle, Waiting, NoReader

\* Whatever a step does to the rest, writing lines keeps what is said of the files.
FilesTyped ==
    /\ DOMAIN files \subseteq Names
    /\ \A n \in DOMAIN files :
          files[n].written \in 0..now /\ files[n].by \subseteq Jobs \union {System}

LEMMA LinesKeepFiles ==
    ASSUME LogInv, now' = now, current' = current, Later(files', files)
    PROVE  FilesTyped' /\ FilesInv' /\ CurrentInv' /\ DOMAIN files' = DOMAIN files
<1>1. \A n \in DOMAIN files : n.of \in Jobs \union {System} /\ n.at \in Int
  BY TimeAssumption DEF LogInv, LogTypeOK, Names
<1>. QED
  BY <1>1, TimeAssumption DEF LogInv, LogTypeOK, FilesTyped, FilesInv, CurrentInv, Later

LEMMA LogNameOf ==
    ASSUME BuildInv, NEW j \in Jobs, build[j].pc # "idle"
    PROVE  build[j].log.of = j /\ build[j].log.at = build[j].opened
<1>1. build[j].log = LogName(j, build[j].opened)
  BY DEF BuildInv
<1>. QED  BY <1>1 DEF LogName

\* Printf, alone or after a line of a build.
LEMMA PrintfIsLater ==
    ASSUME LogInv PROVE Later(Printf(files), files) /\ Printf(files)[current].written = now
  BY WriteLater DEF LogInv, FilesInv, CurrentInv, Printf

LEMMA LogThenPrintf ==
    ASSUME LogInv, NEW j \in Jobs, build[j].pc # "idle"
    PROVE  /\ Later(Write(files, build[j].log, j), files)
           /\ Later(Printf(Write(files, build[j].log, j)), files)
<1>1. build[j].log.of = j
  BY LogNameOf DEF LogInv
<1>2. Later(Write(files, build[j].log, j), files)
  BY <1>1, WriteLater DEF LogInv, FilesInv
<1>. DEFINE fs == Write(files, build[j].log, j)
<1>3. \A n \in DOMAIN fs : fs[n].by = {n.of}
  BY <1>2 DEF Later
<1>4. current.of = System
  BY DEF LogInv, CurrentInv
<1>5. Later(Write(fs, current, System), fs)
  <2>. HIDE DEF fs
  <2>. QED  BY <1>3, <1>4, WriteLater
<1>. QED  BY <1>2, <1>5 DEF Later, Printf

-----------------------------------------------------------------------------
(* Steps of a build. *)

LEMMA OpenLogStep ==
    ASSUME LogInv, NEW j \in Jobs, NEW limit \in Limits, OpenLog(j, limit) PROVE LogInv'
<1>. DEFINE name == LogName(j, now)
<1>1. /\ name \in Names /\ name.of = j /\ name.at = now
      /\ now \in Nat /\ limit \in Nat /\ now \in 0..MaxTime
  BY NameFacts, TimeAssumption DEF LogInv, LogTypeOK
<1>2. /\ DOMAIN files' = DOMAIN files \union {name}
      /\ files'[name] = [written |-> now, by |-> {j}]
      /\ \A n \in DOMAIN files : n # name =>
            files'[n].written \in {files[n].written, now} /\ files'[n].by = {n.of}
  <2>. DEFINE fs == Printf(files)
  <2>1. files' = Create(fs, name, j)
    BY DEF OpenLog
  <2>2. Later(fs, files)
    BY PrintfIsLater
  <2>. HIDE DEF fs, name
  <2>3. /\ DOMAIN files' = DOMAIN fs \union {name}
        /\ files'[name] = [written |-> now, by |-> {j}]
        /\ \A n \in DOMAIN fs : n # name => files'[n] = fs[n]
    BY <2>1 DEF Create
  <2>. QED  BY <2>2, <2>3 DEF Later
<1>3. /\ now' = now /\ row' = row /\ current' = current /\ cleaner' = cleaner
      /\ reader' = reader /\ restarts' = restarts
      /\ build' = [build EXCEPT ![j] = [pc |-> "opened", log |-> name,
                                        opened |-> now, limit |-> limit]]
      /\ builds' \in 0..MaxBuilds
  BY TimeAssumption DEF OpenLog, LogInv, LogTypeOK
<1>4. \A n \in DOMAIN files : n.of \in Jobs \union {System} /\ n.at \in Int
  BY TimeAssumption DEF LogInv, LogTypeOK, Names
<1>5. LogTypeOK'
  <2>. HIDE DEF name
  <2>1. FilesTyped'
    BY <1>1, <1>2, <1>3, <1>4 DEF LogInv, LogTypeOK, FilesTyped
  <2>2. build' \in [Jobs -> [pc : {"idle", "opened", "running"}, log : Names \union {None},
                             opened : 0..now, limit : Limits \union {0}]]
    BY <1>1, <1>3 DEF LogInv, LogTypeOK
  <2>. QED  BY <1>3, <2>1, <2>2 DEF LogInv, LogTypeOK, FilesTyped
<1>6. FilesInv'
  BY <1>1, <1>2, <1>3, <1>4 DEF LogInv, LogTypeOK, FilesInv
<1>7. PathInv'
  BY <1>2, <1>3 DEF LogInv, PathInv, GoneIsOld
<1>8. BuildInv'
  BY <1>1, <1>2, <1>3 DEF LogInv, LogTypeOK, BuildInv
<1>9. CurrentInv'
  BY <1>2, <1>3 DEF LogInv, CurrentInv
<1>10. CleanerInv'
  BY <1>1, <1>2, <1>3 DEF LogInv, LogTypeOK, CurrentInv, CleanerInv
<1>. QED  BY <1>5, <1>6, <1>7, <1>8, <1>9, <1>10 DEF LogInv

LEMMA StorePathStep ==
    ASSUME LogInv, NEW j \in Jobs, StorePath(j) PROVE LogInv'
<1>1. /\ build[j].log \in Names /\ build[j].log.of = j
      /\ build[j].log.at = build[j].opened
      /\ build[j].log \notin DOMAIN files => now - build[j].opened > MaxAge
  <2>1. build[j].pc = "opened"
    BY DEF StorePath
  <2>2. build[j].log.of = j /\ build[j].log.at = build[j].opened
    BY <2>1, LogNameOf DEF LogInv
  <2>3. build[j].log = LogName(j, build[j].opened) /\ build[j].opened \in 0..MaxTime
    BY <2>1, TimeAssumption DEF LogInv, LogTypeOK, BuildInv
  <2>. QED  BY <2>1, <2>2, <2>3, NameFacts DEF LogInv, BuildInv
<1>2. LogTypeOK'
  BY <1>1 DEF StorePath, LogInv, LogTypeOK
<1>3. PathInv'
  BY <1>1 DEF StorePath, LogInv, LogTypeOK, PathInv, GoneIsOld
<1>4. BuildInv'
  BY DEF StorePath, LogInv, LogTypeOK, BuildInv
<1>. QED
  BY <1>2, <1>3, <1>4 DEF StorePath, LogInv, FilesInv, CurrentInv, CleanerInv

LEMMA EndOrLogStep ==
    ASSUME LogInv, NEW j \in Jobs, StorePathFails(j) \/ Log(j) \/ Finish(j) PROVE LogInv'
<1>1. /\ Later(files', files)
      /\ now' = now /\ row' = row /\ current' = current /\ cleaner' = cleaner
      /\ reader' = reader /\ builds' = builds /\ restarts' = restarts
      /\ build' = build \/ build' = [build EXCEPT ![j] = Idle]
  BY LogThenPrintf, PrintfIsLater DEF StorePathFails, Log, Finish
<1>2. FilesTyped' /\ FilesInv' /\ CurrentInv' /\ DOMAIN files' = DOMAIN files
  BY <1>1, LinesKeepFiles
<1>3. LogTypeOK'
  BY <1>1, <1>2, TimeAssumption DEF LogInv, LogTypeOK, FilesTyped, Idle
<1>4. PathInv' /\ BuildInv'
  BY <1>1, <1>2 DEF LogInv, LogTypeOK, PathInv, GoneIsOld, BuildInv, Idle
<1>5. CleanerInv'
  BY <1>1, <1>2 DEF LogInv, LogTypeOK, CleanerInv, CurrentInv, Later
<1>. QED  BY <1>2, <1>3, <1>4, <1>5 DEF LogInv

-----------------------------------------------------------------------------
(* Steps of a request. *)

LEMMA ReaderKeeps ==
    ASSUME LogInv, NEW r \in Readers, ReaderStep(r) PROVE LogInv'
<1>. USE DEF LogInv, LogTypeOK, FilesInv, PathInv, GoneIsOld, BuildInv, CurrentInv, CleanerInv
<1>1. CASE ReadLog(r)
  BY <1>1 DEF ReadLog, NoReader
<1>2. ASSUME NEW j \in Jobs, AskForLog(r, j) PROVE LogInv'
  BY <1>2 DEF AskForLog
<1>. QED  BY <1>1, <1>2 DEF ReaderStep

-----------------------------------------------------------------------------
(* Steps of the cleanup. *)

LEMMA CleanupStep == ASSUME LogInv, Cleanup PROVE LogInv'
<1>1. /\ Later(files', files) /\ files'[current].written = now
      /\ UNCHANGED <<now, row, build, current, reader, builds, restarts>>
      /\ cleaner' = [cleaner EXCEPT !.pc = "looks", !.since = now, !.todo = DOMAIN files]
      /\ cleaner.pc = "waits"
  BY PrintfIsLater DEF Cleanup
<1>2. FilesTyped' /\ FilesInv' /\ CurrentInv' /\ DOMAIN files' = DOMAIN files
  BY <1>1, LinesKeepFiles
<1>3. LogTypeOK'
  <2>1. now \in 0..now /\ DOMAIN files \in SUBSET Names
    BY NumberFacts DEF LogInv, LogTypeOK
  <2>2. cleaner' \in [pc : {"waits", "looks", "removes"}, since : 0..now, todo : SUBSET Names,
                      doomed : Names \union {None}, failed : SUBSET Names]
    BY <1>1, <2>1 DEF LogInv, LogTypeOK
  <2>3. cleaner'.doomed = None /\ cleaner'.pc = "looks"
    BY <1>1 DEF LogInv, LogTypeOK
  <2>. QED  BY <1>1, <1>2, <2>2, <2>3 DEF LogInv, LogTypeOK, FilesTyped
<1>4. PathInv' /\ BuildInv'
  BY <1>1, <1>2 DEF LogInv, PathInv, GoneIsOld, BuildInv
<1>5. CleanerInv'
  BY <1>1, TimeAssumption DEF LogInv, LogTypeOK, CleanerInv
<1>. QED  BY <1>2, <1>3, <1>4, <1>5 DEF LogInv

\* A condemned name is older than the retention, as its file is, and not the process's.
LEMMA CondemnStep == ASSUME LogInv, NEW name \in cleaner.todo, Condemn(name) PROVE LogInv'
<1>1. /\ Later(files', files)
      /\ UNCHANGED <<now, row, build, current, reader, builds, restarts>>
      /\ cleaner' = [cleaner EXCEPT !.pc = "removes", !.todo = @ \ {name}, !.doomed = name]
      /\ cleaner.pc = "looks"
      /\ name \in DOMAIN files /\ now - files[name].written > MaxAge
  BY PrintfIsLater DEF Condemn, IsNext, TooOld
<1>2. FilesTyped' /\ FilesInv' /\ CurrentInv' /\ DOMAIN files' = DOMAIN files
  BY <1>1, LinesKeepFiles
<1>3. /\ name \in Names /\ name.at \in Nat /\ name.at <= files[name].written
      /\ files[name].written \in Nat /\ now \in Nat
  BY <1>1, TimeAssumption DEF LogInv, LogTypeOK, FilesInv, Names
<1>4. LogTypeOK'
  BY <1>1, <1>2, <1>3, TimeAssumption, NoneAssumption DEF LogInv, LogTypeOK, FilesTyped
<1>5. PathInv' /\ BuildInv'
  BY <1>1, <1>2 DEF LogInv, PathInv, GoneIsOld, BuildInv
<1>6. /\ now <= cleaner.since + PassTime /\ files[current].written >= cleaner.since
      /\ current \in DOMAIN files /\ cleaner.since \in Nat /\ files[current].written \in Nat
  BY <1>1, TimeAssumption DEF LogInv, LogTypeOK, CleanerInv, CurrentInv
<1>7. name # current
  BY <1>1, <1>3, <1>6, TimeAssumption
<1>8. cleaner'.pc = "removes" /\ cleaner'.doomed = name /\ cleaner'.since = cleaner.since
  BY <1>1 DEF LogInv, LogTypeOK
<1>9. files'[current].written >= cleaner.since /\ now - name.at > MaxAge
  BY <1>1, <1>3, <1>6, TimeAssumption DEF Later, LogInv, LogTypeOK
<1>10. CleanerInv'
  BY <1>1, <1>6, <1>7, <1>8, <1>9 DEF CleanerInv
<1>. QED  BY <1>2, <1>4, <1>5, <1>10 DEF LogInv

LEMMA RemoveStep == ASSUME LogInv, Remove PROVE LogInv'
<1>. DEFINE doomed == cleaner.doomed
<1>1. /\ DOMAIN files' = DOMAIN files \ {doomed}
      /\ \A n \in DOMAIN files \ {doomed} : files'[n] = files[n]
      /\ UNCHANGED <<now, row, build, current, reader, builds, restarts>>
      /\ cleaner' = [cleaner EXCEPT !.pc = "looks", !.doomed = None]
      /\ now - doomed.at > MaxAge /\ doomed # current
      /\ cleaner.pc = "removes"
  BY DEF Remove, LogInv, CleanerInv
<1>2. LogTypeOK'
  BY <1>1 DEF LogInv, LogTypeOK
<1>3. FilesInv' /\ CurrentInv'
  BY <1>1 DEF LogInv, FilesInv, CurrentInv
<1>4. PathInv'
  BY <1>1 DEF LogInv, PathInv, GoneIsOld
<1>5. \A j \in Jobs : build[j].pc # "idle" => build[j].log.at = build[j].opened
  BY LogNameOf DEF LogInv
<1>6. BuildInv'
  BY <1>1, <1>5 DEF LogInv, BuildInv
<1>7. CleanerInv'
  BY <1>1 DEF LogInv, LogTypeOK, CleanerInv, CurrentInv
<1>. QED  BY <1>2, <1>3, <1>4, <1>6, <1>7 DEF LogInv

LEMMA RemoveFailsStep == ASSUME LogInv, RemoveFails PROVE LogInv'
<1>1. /\ Later(files', files) /\ files'[current].written = now
      /\ UNCHANGED <<now, row, build, current, reader, builds, restarts>>
      /\ cleaner' = [cleaner EXCEPT !.pc = "looks", !.doomed = None,
                                    !.failed = @ \union {cleaner.doomed}]
      /\ cleaner.pc = "removes"
  BY PrintfIsLater DEF RemoveFails
<1>2. FilesTyped' /\ FilesInv' /\ CurrentInv' /\ DOMAIN files' = DOMAIN files
  BY <1>1, LinesKeepFiles
<1>3. LogTypeOK'
  BY <1>1, <1>2 DEF LogInv, LogTypeOK, FilesTyped
<1>4. PathInv' /\ BuildInv'
  BY <1>1, <1>2 DEF LogInv, PathInv, GoneIsOld, BuildInv
<1>5. CleanerInv'
  BY <1>1, TimeAssumption DEF LogInv, LogTypeOK, CleanerInv
<1>. QED  BY <1>2, <1>3, <1>4, <1>5 DEF LogInv

LEMMA CleanerKeeps == ASSUME LogInv, CleanerStep PROVE LogInv'
<1>1. ASSUME NEW name \in cleaner.todo, PassOver(name) PROVE LogInv'
  BY <1>1 DEF PassOver, IsNext, LogInv, LogTypeOK, FilesInv, PathInv, GoneIsOld, BuildInv,
              CurrentInv, CleanerInv
<1>2. CASE EndPass
  BY <1>2, TimeAssumption DEF EndPass, Waiting, LogInv, LogTypeOK, FilesInv, PathInv,
              GoneIsOld, BuildInv, CurrentInv, CleanerInv
<1>. QED
  BY <1>1, <1>2, CleanupStep, CondemnStep, RemoveStep, RemoveFailsStep DEF CleanerStep

-----------------------------------------------------------------------------
(* Time and restarts. *)

LEMMA PassStep == ASSUME LogInv, Pass PROVE LogInv'
<1>1. /\ now' = now + 1 /\ now' \in 0..MaxTime /\ now \in Nat
      /\ UNCHANGED <<files, row, build, current, cleaner, reader, builds, restarts>>
  BY TimeAssumption DEF Pass, LogInv, LogTypeOK
<1>2. LogTypeOK'
  BY <1>1, TimeAssumption DEF LogInv, LogTypeOK
<1>3. FilesInv' /\ CurrentInv'
  BY <1>1 DEF LogInv, FilesInv, CurrentInv
<1>4. \A name \in Names : name.at \in Nat
  BY TimeAssumption DEF Names
<1>5. PathInv'
  BY <1>1, <1>4, TimeAssumption DEF LogInv, LogTypeOK, PathInv, GoneIsOld
<1>6. \A j \in Jobs : build[j].opened \in Nat /\ build[j].limit \in Nat
  BY NumberFacts DEF LogInv
<1>7. BuildInv'
  BY <1>1, <1>6, TimeAssumption DEF Pass, LogInv, BuildInv
<1>8. CleanerInv'
  BY <1>1, <1>4, TimeAssumption DEF Pass, LogInv, LogTypeOK, CleanerInv
<1>. QED  BY <1>2, <1>3, <1>5, <1>7, <1>8 DEF LogInv

LEMMA RestartStep == ASSUME LogInv, Restart PROVE LogInv'
<1>. DEFINE name == LogName(System, now)
<1>1. /\ name \in Names /\ name.of = System /\ name.at = now
      /\ now \in Nat /\ now \in 0..MaxTime
  <2>1. now \in Nat /\ now \in 0..MaxTime
    BY NumberFacts DEF LogInv
  <2>. QED  BY <2>1, NameFacts
<1>2. /\ build' = [j \in Jobs |-> Idle] /\ cleaner' = Waiting
      /\ reader' = [r \in Readers |-> NoReader] /\ current' = name
      /\ UNCHANGED <<now, row, builds>> /\ restarts' \in 0..MaxRestarts
  BY TimeAssumption DEF Restart, LogInv, LogTypeOK
<1>3. /\ DOMAIN files' = DOMAIN files \union {name}
      /\ files'[name] = [written |-> now, by |-> {System}]
      /\ \A n \in DOMAIN files : n # name => files'[n] = files[n]
  <2>. HIDE DEF name
  <2>1. files' = Create(files, name, System)
    BY DEF Restart, name
  <2>. QED  BY <2>1 DEF Create
<1>. HIDE DEF name
<1>4. FilesTyped'
  BY <1>1, <1>2, <1>3 DEF LogInv, LogTypeOK, FilesTyped
<1>5. LogTypeOK'
  BY <1>1, <1>2, <1>4, TimeAssumption DEF LogInv, LogTypeOK, FilesTyped, Idle, Waiting, NoReader
<1>6. FilesInv' /\ CurrentInv'
  BY <1>1, <1>2, <1>3 DEF LogInv, FilesInv, CurrentInv
<1>7. PathInv'
  BY <1>2, <1>3 DEF LogInv, PathInv, GoneIsOld, NoReader
<1>8. BuildInv' /\ CleanerInv'
  BY <1>2 DEF BuildInv, CleanerInv, Idle, Waiting
<1>. QED  BY <1>5, <1>6, <1>7, <1>8 DEF LogInv

\* What a pass has still to look at, or could not remove, are all the files that were
\* too old when it began: whatever is written meanwhile is new.
ThoroughInv ==
    cleaner.pc # "waits" =>
        \A n \in DOMAIN files : cleaner.since - files[n].written > MaxAge =>
            n \in cleaner.todo \union cleaner.failed \union {cleaner.doomed}

LEMMA SinceIsPast ==
    ASSUME LogInv
    PROVE  /\ cleaner.since \in Nat /\ cleaner.since <= now /\ now \in Nat /\ MaxAge \in Nat
           /\ \A n \in DOMAIN files : files[n].written \in Nat /\ files[n].written <= now
           /\ None \notin DOMAIN files
  BY TimeAssumption, NoneAssumption DEF LogInv, LogTypeOK

\* Files are written or opened while the pass is where it is.
LEMMA WritingStaysThorough ==
    ASSUME LogInv, ThoroughInv, cleaner' = cleaner,
           \A n \in DOMAIN files' :
              \/ files'[n].written = now
              \/ n \in DOMAIN files /\ files'[n].written = files[n].written
    PROVE  ThoroughInv'
  BY SinceIsPast DEF ThoroughInv

\* The pass goes on, and its lines change no age but that of the process's own log.
LEMMA CleanerStaysThorough ==
    ASSUME LogInv, ThoroughInv, CleanerStep PROVE ThoroughInv'
<1>0. /\ cleaner \in [pc : {"waits", "looks", "removes"}, since : 0..now,
                      todo : SUBSET Names, doomed : Names \union {None},
                      failed : SUBSET Names]
      /\ cleaner.pc = "looks" => cleaner.doomed = None
  BY DEF LogInv, LogTypeOK
<1>1. CASE Cleanup
  <2>1. /\ DOMAIN files' = DOMAIN files /\ cleaner'.todo = DOMAIN files
    BY <1>0, <1>1, PrintfIsLater DEF Cleanup, Later
  <2>. QED  BY <2>1 DEF ThoroughInv
<1>2. CASE Remove
  <2>1. /\ cleaner.pc = "removes" /\ cleaner'.since = cleaner.since
        /\ cleaner'.todo = cleaner.todo /\ cleaner'.failed = cleaner.failed
        /\ DOMAIN files' = DOMAIN files \ {cleaner.doomed}
        /\ \A n \in DOMAIN files' : files'[n] = files[n]
    BY <1>0, <1>2 DEF Remove
  <2>. QED  BY <2>1 DEF ThoroughInv
<1>3. CASE RemoveFails
  <2>1. /\ cleaner.pc = "removes" /\ cleaner'.since = cleaner.since
        /\ cleaner'.todo = cleaner.todo
        /\ cleaner'.failed = cleaner.failed \union {cleaner.doomed}
        /\ DOMAIN files' = DOMAIN files
        /\ \A n \in DOMAIN files : files'[n].written \in {files[n].written, now}
    BY <1>0, <1>3, PrintfIsLater DEF RemoveFails, Later
  <2>. QED  BY <2>1, SinceIsPast DEF ThoroughInv
<1>4. CASE EndPass
  BY <1>4 DEF EndPass, Waiting, ThoroughInv
<1>5. ASSUME NEW name \in cleaner.todo, PassOver(name) PROVE ThoroughInv'
  <2>1. /\ cleaner.pc = "looks" /\ cleaner'.since = cleaner.since
        /\ cleaner'.todo = cleaner.todo \ {name} /\ cleaner'.failed = cleaner.failed
        /\ cleaner'.doomed = cleaner.doomed /\ files' = files
        /\ ~(now - files[name].written > MaxAge) /\ name \in DOMAIN files
    BY <1>0, <1>5 DEF PassOver, IsNext, TooOld
  <2>. QED  BY <2>1, SinceIsPast DEF ThoroughInv
<1>6. ASSUME NEW name \in cleaner.todo, Condemn(name) PROVE ThoroughInv'
  <2>1. /\ cleaner.pc = "looks" /\ cleaner'.since = cleaner.since
        /\ cleaner'.todo = cleaner.todo \ {name} /\ cleaner'.failed = cleaner.failed
        /\ cleaner'.doomed = name /\ cleaner.doomed = None
        /\ DOMAIN files' = DOMAIN files
        /\ \A n \in DOMAIN files : files'[n].written \in {files[n].written, now}
    BY <1>0, <1>6, PrintfIsLater DEF Condemn, IsNext, Later
  <2>. QED  BY <2>1, SinceIsPast DEF ThoroughInv
<1>. QED  BY <1>1, <1>2, <1>3, <1>4, <1>5, <1>6 DEF CleanerStep

LEMMA ThoroughStep == LogInv /\ ThoroughInv /\ [Next]_vars => ThoroughInv'
<1>. SUFFICES ASSUME LogInv, ThoroughInv, [Next]_vars PROVE ThoroughInv'
  OBVIOUS
<1>1. ASSUME NEW j \in Jobs, BuildStep(j) PROVE ThoroughInv'
  <2>1. ASSUME NEW limit \in Limits, OpenLog(j, limit) PROVE ThoroughInv'
    <3>. DEFINE name == LogName(j, now)
                fs == Printf(files)
    <3>1. files' = Create(fs, name, j) /\ cleaner' = cleaner
      BY <2>1 DEF OpenLog
    <3>2. Later(fs, files)
      BY PrintfIsLater
    <3>. HIDE DEF fs, name
    <3>3. \A n \in DOMAIN files' :
             \/ files'[n].written = now
             \/ n \in DOMAIN files /\ files'[n].written = files[n].written
      BY <3>1, <3>2 DEF Create, Later
    <3>. QED  BY <3>1, <3>3, WritingStaysThorough
  <2>2. CASE StorePath(j)
    BY <2>2, WritingStaysThorough DEF StorePath
  <2>3. CASE StorePathFails(j) \/ Log(j) \/ Finish(j)
    <3>1. Later(files', files) /\ cleaner' = cleaner
      BY <2>3, LogThenPrintf, PrintfIsLater DEF StorePathFails, Log, Finish
    <3>. QED  BY <3>1, WritingStaysThorough DEF Later
  <2>. QED  BY <1>1, <2>1, <2>2, <2>3 DEF BuildStep
<1>2. ASSUME NEW r \in Readers, ReaderStep(r) PROVE ThoroughInv'
  BY <1>2, WritingStaysThorough DEF ReaderStep, ReadLog, AskForLog
<1>3. CASE Pass \/ UNCHANGED vars
  BY <1>3, WritingStaysThorough DEF Pass, vars
<1>4. CASE Restart
  BY <1>4 DEF Restart, Waiting, ThoroughInv
<1>. QED  BY <1>1, <1>2, <1>3, <1>4, CleanerStaysThorough DEF Next

LEMMA LogStep == LogInv /\ [Next]_vars => LogInv'
<1>. SUFFICES ASSUME LogInv, [Next]_vars PROVE LogInv'
  OBVIOUS
<1>1. ASSUME NEW j \in Jobs, BuildStep(j) PROVE LogInv'
  BY <1>1, OpenLogStep, StorePathStep, EndOrLogStep DEF BuildStep
<1>2. CASE UNCHANGED vars
  BY <1>2 DEF vars, LogInv, LogTypeOK, FilesInv, PathInv, GoneIsOld, BuildInv, CurrentInv,
              CleanerInv
<1>. QED
  BY <1>1, <1>2, ReaderKeeps, CleanerKeeps, PassStep, RestartStep DEF Next

-----------------------------------------------------------------------------
(* Theorems. *)

LEMMA LogInvariant == Spec => []LogInv
  BY InitInv, LogStep, PTL DEF Spec

\* LogTypeOK, for any instance.
THEOREM Typing == Spec => []LogTypeOK
<1>1. LogInv => LogTypeOK
  BY DEF LogInv
<1>. QED  BY <1>1, LogInvariant, PTL

\* RunningLogKept: whatever the cleanup does in between, the log of a build whose timeout
\* is within the retention stays where the row says.
THEOREM RunningLogStays == Spec => []RunningLogKept
<1>1. ASSUME LogInv, NEW j \in Jobs, build[j].pc = "running", build[j].limit <= MaxAge
      PROVE  row[j] = build[j].log /\ row[j] \in DOMAIN files
  <2>1. /\ now \in Nat /\ build[j].opened \in Nat /\ build[j].limit \in Nat
        /\ now <= build[j].opened + build[j].limit
        /\ build[j].log \notin DOMAIN files => now - build[j].opened > MaxAge
        /\ row[j] = build[j].log
    BY <1>1, NumberFacts DEF LogInv, BuildInv
  <2>. QED  BY <1>1, <2>1, NumberFacts DEF LogInv
<1>2. LogInv => RunningLogKept
  BY <1>1 DEF RunningLogKept
<1>. QED  BY <1>2, LogInvariant, PTL

\* SystemLogKept: a cleanup never removes the log of the process it runs in.
THEOREM SystemLogStays == Spec => []SystemLogKept
<1>1. LogInv => SystemLogKept
  BY DEF LogInv, CurrentInv, SystemLogKept
<1>. QED  BY <1>1, LogInvariant, PTL

\* ServedLogIsOwn: a request is served lines of its own job only.
THEOREM ServedIsOwn == Spec => []ServedLogIsOwn
<1>1. LogInv => ServedLogIsOwn
  BY NoneAssumption DEF LogInv, LogTypeOK, FilesInv, PathInv, ServedLogIsOwn
<1>. QED  BY <1>1, LogInvariant, PTL

\* GoneIsOld: a log that is not found was created longer ago than the retention.
THEOREM MissingIsOld == Spec => []GoneIsOld
<1>1. LogInv => GoneIsOld
  BY DEF LogInv, PathInv
<1>. QED  BY <1>1, LogInvariant, PTL

\* PassIsThorough: what is still there when a pass ends and was too old when it began
\* could not be removed.
THEOREM PassesAreThorough == Spec => PassIsThorough
<1>1. Init => LogInv /\ ThoroughInv
  BY InitInv DEF Init, Waiting, ThoroughInv
<1>2. LogInv /\ ThoroughInv /\ [Next]_vars => (LogInv /\ ThoroughInv)'
  BY LogStep, ThoroughStep
<1>3. LogInv /\ ThoroughInv /\ EndPass =>
        \A n \in DOMAIN files :
            now - files[n].written > MaxAge + PassTime => n \in cleaner.failed
  <2>. SUFFICES ASSUME LogInv, ThoroughInv, EndPass, NEW n \in DOMAIN files,
                       now - files[n].written > MaxAge + PassTime
                PROVE  n \in cleaner.failed
    OBVIOUS
  <2>1. cleaner.pc = "looks" /\ cleaner.todo = {} /\ cleaner.doomed = None
    BY DEF EndPass, LogInv, LogTypeOK
  <2>2. now <= cleaner.since + PassTime /\ PassTime \in Nat
    BY <2>1, TimeAssumption DEF LogInv, CleanerInv
  <2>3. cleaner.since - files[n].written > MaxAge /\ n # None
    BY <2>2, SinceIsPast
  <2>. QED  BY <2>1, <2>3 DEF ThoroughInv
<1>. QED  BY <1>1, <1>2, <1>3, PTL DEF Spec, PassIsThorough
=============================================================================
