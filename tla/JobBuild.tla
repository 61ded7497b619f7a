------------------------------ MODULE JobBuild ------------------------------
(***************************************************************************)
(* What one job builds: how a submission is inspected and stored            *)
(* (server.go, CreateJobHandler), and how Worker.Run (worker.go) gets from   *)
(* the stored configuration and the repository to the Dockerfile, the        *)
(* context and the environment it gives hubcell. The worker stores what it   *)
(* has decided in the configuration it starts from, and a crash makes it     *)
(* start again. The queue, verdicts and callbacks are in BuildService.       *)
(*                                                                          *)
(* A Dockerfile is its origin, the keys it declares as ARG or else mentions,  *)
(* whether the audit rejects it, and the request's keys injected into it.     *)
(* Commands and runtimes are abstracted to whether they are there.            *)
(* Environment keys are upper case and without blanks around them.            *)
(***************************************************************************)
EXTENDS Integers, Sequences, FiniteSets

CONSTANTS
    Dirs,              \* directories of the repository
    Root,              \* "."
    Above,             \* Above[d]: d and the directories that hold it
    Keys,              \* names of variables
    PublicKeys,        \* those with a public prefix
    RuntimePreferred,  \* those of isRuntimePreferred
    NonSecretKeys,     \* those known not to be secret
    BadKeys,           \* no Dockerfile identifiers
    Repos,             \* what the repository may hold
    Inputs,            \* what clients submit
    MaxCrashes         \* bound on crashes

Unset   == "unset"     \* an empty string in the request
Outside == "outside"   \* a path that leaves the repository

Scopes == {"build", "runtime", "both"}
Dockerfile == [by : {"repo", "custom", "generated"}, args : SUBSET Keys,
               refs : SUBSET Keys, dev : BOOLEAN, params : SUBSET Keys]
By(origin) == {file \in Dockerfile : file.by = origin}
NoFile == [by |-> "nobody", args |-> {}, refs |-> {}, dev |-> FALSE, params |-> {}]
Path     == Dirs \union {Unset, Outside}
Override == [scope : Scopes \union {Unset}, secret : {"yes", "no", Unset}]
PlanOf(keys) == [keys -> [scope : Scopes, secret : BOOLEAN]]

\* files: the Dockerfiles; configs: the keys named in the build configurations;
\* workspace: is it a JavaScript monorepo? detectable: is there a runtime?
Repo == [files : [Dirs -> By("repo") \union {NoFile}], configs : [Dirs -> SUBSET Keys],
         workspace : BOOLEAN, detectable : BOOLEAN]

\* phases: are there install, build, run commands? params: dockerfileArgs and
\* dockerfileEnv; content: what the last attempt built from.
Config == [auto : BOOLEAN, phases : BOOLEAN, runtime : BOOLEAN,
           custom : By("custom") \union {NoFile}, context : Path, appDir : Path,
           env : SUBSET Keys, overrides : UNION {[S -> Override] : S \in SUBSET Keys},
           params : SUBSET Keys, plan : UNION {PlanOf(S) : S \in SUBSET Keys},
           content : Dockerfile \union {NoFile}]

ASSUME DirsAssumption ==
    /\ Root \in Dirs /\ {Unset, Outside} \intersect Dirs = {}
    /\ Above \in [Dirs -> SUBSET Dirs]
    /\ \A d \in Dirs : {d, Root} \subseteq Above[d]
ASSUME KeysAssumption ==
    PublicKeys \union RuntimePreferred \union NonSecretKeys \union BadKeys \subseteq Keys
ASSUME ReposAssumption == Repos \subseteq Repo
ASSUME InputsAssumption ==
    Inputs \subseteq [workingDir : Path, config : Config, by : {"CreateJob", "CreateBuildV1"}]
ASSUME CrashesAssumption == MaxCrashes \in Nat

VARIABLES
    repo,     \* the head of the repository
    job,      \* what was submitted
    row,      \* the stored configuration
    status,   \* of the job; "none" before, "rejected" instead of storing it
    pc,       \* where Worker.Run is
    cfg,      \* the worker's copy of the configuration
    clone,    \* its workspace: the head it was cloned from, and the Dockerfiles
    chosen,   \* the directory of its Dockerfile, if it has one, and the context
    built,    \* history: what hubcell was given
    crashes,  \* history
    moved     \* history: the head has changed since the submission

attemptVars == <<cfg, clone, chosen>>
vars == <<repo, job, row, status, pc, cfg, clone, chosen, built, crashes, moved>>

-----------------------------------------------------------------------------
(* The environment plan (envplan.ResolveForPaths). *)

\* Keys declared as ARG in a Dockerfile of these directories.
DeclaredIn(files, dirs) == UNION {files[d].args : d \in dirs}

ClassifyScope(key, declared, named) ==
    CASE key \in PublicKeys -> "both"
      [] key \notin PublicKeys /\ key \in declared \union named ->
            IF key \in RuntimePreferred THEN "both" ELSE "build"
      [] OTHER -> "runtime"

ClassifySecret(key, declared) ==
    key \notin PublicKeys \union NonSecretKeys \union declared

Resolve(files, configs, dirs, c) ==
    LET declared == DeclaredIn(files, dirs)
        named == UNION {configs[d] \union files[d].refs : d \in dirs}
        Over(key, field, auto) ==
            IF key \in DOMAIN c.overrides /\ c.overrides[key][field] # Unset
            THEN c.overrides[key][field] ELSE auto
    IN  [key \in c.env |->
            [scope |-> Over(key, "scope", ClassifyScope(key, declared, named)),
             secret |-> Over(key, "secret",
                             IF ClassifySecret(key, declared) THEN "yes" ELSE "no") = "yes"]]

\* The keys whose values hubcell gets: build arguments and build secrets alike.
BuildKeys(plan) == {key \in DOMAIN plan : plan[key].scope \in {"build", "both"}}
\* Mutant: secrets are taken for arguments.
AllBuildKeys(plan) == BuildKeys(plan)
BuildArgs(plan) == {key \in BuildKeys(plan) : ~plan[key].secret}

-----------------------------------------------------------------------------
(* Dockerfile, context and request parameters. *)

\* detectDockerfileLayout: the directories that may give the Dockerfile, in order.
DockerfileDir(files, appDir) ==
    CASE files[appDir] # NoFile -> appDir
      [] files[appDir] = NoFile /\ files[Root] # NoFile -> Root
      [] OTHER -> Unset

\* Mutant: any directory of the repository may be the context.
AnyContext(context, appDir) == context \in Dirs

\* normalizeDockerfileBuildContextDir: local, and it holds the working directory.
ContextAllowed(context, appDir) == context \in Dirs /\ context \in Above[appDir]

\* resolveWorkspacePath
AppDir(workingDir) == IF workingDir = Unset THEN Root ELSE workingDir

CanStage(params) == params \intersect BadKeys = {}

\* dockerfileparams.Stage
Stage(file, params) == [file EXCEPT !.args = @ \union params, !.params = params]

\* Mutant: the content that was stored for display is taken for a custom Dockerfile.
StoredContent(c) == IF c.custom # NoFile THEN c.custom ELSE c.content

CustomDockerfile(c) == c.custom

DetectedContext(r, appDir) == IF r.workspace THEN Root ELSE appDir

\* Detection, or completion of submitted phases: can it be done, and where.
AutoPlan(r, appDir) ==
    [ok |-> r.detectable, context |-> DetectedContext(r, appDir), appDir |-> appDir]

ManualPlan(r, c, workDir) ==
    LET app == IF c.appDir = Unset THEN workDir ELSE c.appDir IN
    [ok |-> app # Outside /\ c.context # Outside /\ (c.runtime \/ r.detectable),
     context |-> IF c.context = Unset THEN DetectedContext(r, app) ELSE c.context,
     appDir |-> app]

Plan(r, c, appDir) ==
    IF c.auto THEN AutoPlan(r, appDir) ELSE ManualPlan(r, c, appDir)

Generated(plan) ==
    [by |-> "generated", args |-> BuildArgs(plan), refs |-> {}, dev |-> FALSE, params |-> {}]

-----------------------------------------------------------------------------
NoConfig == [auto |-> FALSE, phases |-> FALSE, runtime |-> FALSE, custom |-> NoFile,
             context |-> Unset, appDir |-> Unset, env |-> {}, overrides |-> <<>>,
             params |-> {}, plan |-> <<>>, content |-> NoFile]

Builds == [head : Repos, file : Dockerfile, context : Dirs, env : SUBSET Keys]

JobTypeOK ==
    /\ repo \in Repos
    /\ status \in {"none", "rejected", "pending", "building", "success", "failed"}
    /\ status \notin {"none", "rejected"} => job \in Inputs
    /\ row \in Config /\ cfg \in Config
    /\ pc \in {"idle", "choose", "env", "dockerfile", "build", "verdict", "refused", "done"}
    /\ clone \in [head : Repos, files : [Dirs -> Dockerfile \union {NoFile}]]
    /\ chosen \in [dir : Dirs \union {Unset}, context : Dirs]
    /\ built \in Seq(Builds)
    /\ crashes \in 0..MaxCrashes
    /\ moved \in BOOLEAN

Init ==
    /\ repo \in Repos
    /\ job = NoConfig
    /\ row = NoConfig
    /\ status = "none"
    /\ pc = "idle"
    /\ cfg = NoConfig
    /\ clone = [head |-> repo, files |-> repo.files]
    /\ chosen = [dir |-> Unset, context |-> Root]
    /\ built = <<>>
    /\ crashes = 0
    /\ moved = FALSE

-----------------------------------------------------------------------------
(* Submission. Only CreateJob inspects, and only an automatic build. *)

Inspects(input) == input.by = "CreateJob" /\ input.config.auto

\* Mutant: Dockerfiles are neither staged nor audited.
ShallowInspection(input) ==
    /\ Outside \notin {AppDir(input.workingDir), input.config.context}
    /\ \/ input.config.custom # NoFile
       \/ DockerfileDir(repo.files, AppDir(input.workingDir)) # Unset
       \/ repo.detectable

InspectionPasses(input) ==
    LET c == input.config
        appDir == AppDir(input.workingDir)
        dir == DockerfileDir(repo.files, appDir)
    IN  /\ appDir # Outside
        /\ IF c.custom # NoFile THEN ~c.custom.dev
           ELSE IF dir # Unset
           THEN /\ c.context = Unset \/ ContextAllowed(c.context, appDir)
                /\ CanStage(c.params)
                /\ ~repo.files[dir].dev
           ELSE repo.detectable

\* The inspected configuration: found phases and runtime replace submitted ones.
Inspected(input) ==
    LET c == input.config
        appDir == AppDir(input.workingDir)
        dir == DockerfileDir(repo.files, appDir)
        Found(phases, context, files, content) ==
            [c EXCEPT !.phases = phases, !.runtime = repo.detectable, !.context = context,
                      !.appDir = appDir, !.content = content,
                      !.plan = Resolve(files, repo.configs, {context, appDir}, c)]
    IN  IF c.custom # NoFile
        THEN Found(FALSE, appDir, [repo.files EXCEPT ![appDir] = c.custom], c.custom)
        ELSE IF dir # Unset
        THEN LET staged == Stage(repo.files[dir], c.params)
             IN  Found(FALSE, IF c.context = Unset THEN Root ELSE c.context,
                       [repo.files EXCEPT ![dir] = staged], staged)
        ELSE Found(TRUE, DetectedContext(repo, appDir), repo.files, Generated(<<>>))

Submit(input) ==
    /\ status = "none"
    /\ job' = input
    /\ \/ ~Inspects(input) /\ status' = "pending" /\ row' = input.config
       \/ /\ Inspects(input) /\ InspectionPasses(input)
          /\ status' = "pending" /\ row' = Inspected(input)
       \/ /\ Inspects(input) /\ ~InspectionPasses(input)
          /\ status' = "rejected" /\ UNCHANGED row
    /\ UNCHANGED <<repo, pc, attemptVars, built, crashes, moved>>

-----------------------------------------------------------------------------
(* An attempt of the worker. A write of the configuration that fails is only *)
(* logged.                                                                    *)

Workdir == AppDir(job.workingDir)

Save(c) == cfg' = c /\ row' \in {row, c}

\* Mutant: the workspace of an interrupted attempt, with what it wrote, is used again.
TakeJobInOldWorkspace ==
    /\ status = "pending"
    /\ status' = "building"
    /\ pc' = "choose"
    /\ cfg' = row
    /\ clone' = [head |-> repo, files |-> IF crashes = 0 THEN repo.files ELSE clone.files]
    /\ UNCHANGED <<repo, job, row, chosen, built, crashes, moved>>

TakeJob ==
    /\ status = "pending"
    /\ status' = "building"
    /\ pc' = "choose"
    /\ cfg' = row
    /\ clone' = [head |-> repo, files |-> repo.files]
    /\ UNCHANGED <<repo, job, row, chosen, built, crashes, moved>>

\* failJob before hubcell has run.
Refuse ==
    /\ pc' = "refused"
    /\ status' = "failed"
    /\ UNCHANGED <<repo, job, row, attemptVars, built, crashes, moved>>

ChooseCustom ==
    /\ pc = "choose"
    /\ CustomDockerfile(cfg) # NoFile
    /\ Workdir # Outside
    /\ clone' = [clone EXCEPT !.files[Workdir] = CustomDockerfile(cfg)]
    /\ chosen' = [dir |-> Workdir, context |-> Workdir]
    /\ pc' = "env"
    /\ UNCHANGED <<repo, job, row, status, cfg, built, crashes, moved>>

ChooseDockerfile ==
    /\ pc = "choose"
    /\ CustomDockerfile(cfg) = NoFile
    /\ Workdir # Outside
    /\ DockerfileDir(clone.files, Workdir) # Unset
    /\ cfg.context = Unset \/ ContextAllowed(cfg.context, Workdir)
    /\ chosen' = [dir |-> DockerfileDir(clone.files, Workdir),
                  context |-> IF cfg.context = Unset THEN Root ELSE cfg.context]
    /\ pc' = "env"
    /\ UNCHANGED <<repo, job, row, status, cfg, clone, built, crashes, moved>>

\* No Dockerfile: the context of the plan, if there is something to plan.
Plans(c) == c.auto \/ c.phases

ChoosePlan ==
    /\ pc = "choose"
    /\ CustomDockerfile(cfg) = NoFile
    /\ Workdir # Outside
    /\ DockerfileDir(clone.files, Workdir) = Unset
    /\ Plans(cfg) => Plan(clone.head, cfg, Workdir).ok
    /\ chosen' = [dir |-> Unset,
                  context |-> IF Plans(cfg) THEN Plan(clone.head, cfg, Workdir).context
                              ELSE Workdir]
    /\ pc' = "env"
    /\ UNCHANGED <<repo, job, row, status, cfg, clone, built, crashes, moved>>

ChooseFails ==
    /\ pc = "choose"
    /\ \/ Workdir = Outside
       \/ /\ CustomDockerfile(cfg) = NoFile
          /\ Workdir # Outside
          /\ IF DockerfileDir(clone.files, Workdir) # Unset
             THEN cfg.context # Unset /\ ~ContextAllowed(cfg.context, Workdir)
             ELSE Plans(cfg) /\ ~Plan(clone.head, cfg, Workdir).ok
    /\ Refuse

ResolveEnv ==
    /\ pc = "env"
    /\ Save([cfg EXCEPT !.plan =
            Resolve(clone.files, clone.head.configs, {chosen.context, Workdir}, cfg)])
    /\ pc' = "dockerfile"
    /\ UNCHANGED <<repo, job, status, clone, chosen, built, crashes, moved>>

\* Mutant: parameters are staged into whatever Dockerfile there is.
StagedAnyFile == Stage(clone.files[chosen.dir], cfg.params)

\* The Dockerfile of the repository gets the request's parameters, a custom one does not.
StagedFile ==
    IF CustomDockerfile(cfg) # NoFile THEN clone.files[chosen.dir]
    ELSE Stage(clone.files[chosen.dir], cfg.params)

StageDockerfile ==
    /\ pc = "dockerfile"
    /\ chosen.dir # Unset
    /\ CustomDockerfile(cfg) # NoFile \/ CanStage(cfg.params)
    /\ ~clone.files[chosen.dir].dev
    /\ clone' = [clone EXCEPT !.files[chosen.dir] = StagedFile]
    /\ Save([cfg EXCEPT !.context = chosen.context, !.appDir = Workdir,
                        !.content = StagedFile])
    /\ pc' = "build"
    /\ UNCHANGED <<repo, job, status, chosen, built, crashes, moved>>

\* Detection once more, now with the keys of the environment.
GenerateDockerfile ==
    /\ pc = "dockerfile"
    /\ chosen.dir = Unset
    /\ Plans(cfg)
    /\ LET plan == Plan(clone.head, cfg, Workdir)
           file == Generated(cfg.plan)
       IN  /\ clone' = [clone EXCEPT !.files[plan.context] = file]
           /\ chosen' = [dir |-> plan.context, context |-> plan.context]
           /\ Save([cfg EXCEPT !.phases = TRUE, !.runtime = TRUE, !.content = file,
                              !.context = plan.context, !.appDir = plan.appDir])
    /\ pc' = "build"
    /\ UNCHANGED <<repo, job, status, built, crashes, moved>>

DockerfileFails ==
    /\ pc = "dockerfile"
    /\ IF chosen.dir = Unset THEN ~Plans(cfg)
       ELSE \/ CustomDockerfile(cfg) = NoFile /\ ~CanStage(cfg.params)
            \/ clone.files[chosen.dir].dev
    /\ Refuse

Hubcell ==
    /\ pc = "build"
    /\ built' = Append(built, [head |-> clone.head, file |-> clone.files[chosen.dir],
                               context |-> chosen.context, env |-> BuildKeys(cfg.plan)])
    /\ pc' = "verdict"
    /\ UNCHANGED <<repo, job, row, status, attemptVars, crashes, moved>>

Finish ==
    /\ pc = "verdict"
    /\ status' \in {"success", "failed"}
    /\ pc' = "done"
    /\ UNCHANGED <<repo, job, row, attemptVars, built, crashes, moved>>

Worker == \/ TakeJob
          \/ ChooseCustom \/ ChooseDockerfile \/ ChoosePlan \/ ChooseFails
          \/ ResolveEnv
          \/ StageDockerfile \/ GenerateDockerfile \/ DockerfileFails
          \/ Hubcell
          \/ Finish

-----------------------------------------------------------------------------
\* The process dies; the boot puts the job back (BuildService).
Crash ==
    /\ status = "building"
    /\ crashes < MaxCrashes
    /\ crashes' = crashes + 1
    /\ status' = "pending"
    /\ pc' = "idle"
    /\ UNCHANGED <<repo, job, row, attemptVars, built, moved>>

\* The owner moves the head of the branch. Once is enough to tell heads apart.
Push ==
    /\ status \in {"pending", "building"}
    /\ ~moved
    /\ moved' = TRUE
    /\ \E r \in Repos \ {repo} : repo' = r
    /\ UNCHANGED <<job, row, status, pc, attemptVars, built, crashes>>

Next == (\E input \in Inputs : Submit(input)) \/ Worker \/ Crash \/ Push

Spec == Init /\ [][Next]_vars

-----------------------------------------------------------------------------
(* Properties. *)

\* A job that is run again after a crash builds what it built before, unless the
\* repository has changed: what the first attempt stored does not steer the next.
RerunRepeats ==
    \A i, j \in DOMAIN built : built[i].head = built[j].head => built[i] = built[j]

\* "A custom Dockerfile takes precedence over any Dockerfile committed in the
\* repository": it is built as it was sent, in the working directory.
CustomIsBuilt ==
    \A i \in DOMAIN built : job.config.custom # NoFile =>
        built[i].file = job.config.custom /\ built[i].context = Workdir

\* The context of a Dockerfile of the repository holds the working directory,
\* also when it comes from an earlier inspection or attempt.
ContextHoldsApp ==
    \A i \in DOMAIN built : built[i].file.by = "repo" => built[i].context \in Above[Workdir]

\* What the inspection let in the worker builds, if the head has not moved: the
\* checks of CreateJobHandler and of Run, and the stored configuration, agree.
AcceptedIsBuildable == pc = "refused" => ~Inspects(job) \/ moved

\* The values of secret keys are no build arguments of a generated Dockerfile:
\* neither keys said to be secret nor unknown ones that nobody declared.
SecretsAreNoArgs ==
    \A i \in DOMAIN built : built[i].file.by = "generated" =>
        \A key \in built[i].file.args :
            IF key \in DOMAIN job.config.overrides /\ job.config.overrides[key].secret # Unset
            THEN job.config.overrides[key].secret = "no"
            ELSE key \in PublicKeys \union NonSecretKeys \union
                         DeclaredIn(built[i].head.files, Dirs)

\* README: "ENV values are baked into the resulting image" - so the values of the
\* parameters reach the build. (Only the environment plan's do.)
ParamsReachTheBuild ==
    \A i \in DOMAIN built : built[i].file.params \subseteq built[i].env
=============================================================================
