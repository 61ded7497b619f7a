----------------------------- MODULE ImageBuild -----------------------------
(***************************************************************************)
(* From a repository to a running container: the plan (detectBuildPlan or        *)
(* manualBuildPlanFromConfig), the Dockerfile written for it (dockerfile.go),    *)
(* and its lines carried out one after the other, as Container describes. The    *)
(* worker stores the plan's configuration before it builds; after a crash the    *)
(* job is planned again from what is stored.                                     *)
(***************************************************************************)
EXTENDS JavaScriptPlan, ServerPlan, Container

CONSTANTS Projects,     \* the repositories, with their application's directory
          Submissions,  \* what users submit of the inspected configuration
          MaxCrashes

ASSUME ProjectsAssumption ==
    \A p \in Projects : p.dir \in Dirs /\ (p.dir = Root => p.app = p.root)
\* Blank commands are left out: appendUniqueString and renderRunLine drop them.
ASSUME SubmissionsAssumption ==
    Submissions \subseteq [fields : SUBSET DOMAIN Blank, more : Seq(AnyCommand \ {NoCmd})]
ASSUME CrashesAssumption == MaxCrashes \in Nat

VARIABLES project, auto, config, phase, plan, lines, pc, stages, here, first, crashes

vars == <<project, auto, config, phase, plan, lines, pc, stages, here, first, crashes>>

-----------------------------------------------------------------------------
(* Planning. *)

\* HasStructuredBuildPhases
Structured(cfg) ==
    \/ {cfg.install, cfg.build, cfg.run} # {NoCmd}
    \/ cfg.setup \o cfg.post \o cfg.init # <<>>

\* detectBuildPlan
DetectAs(p, runtime) ==
    CASE IsJavaScript(runtime) -> DetectJavaScript(p, runtime)
      [] runtime = "static"    -> StaticPlan(p)
      [] runtime = ""          -> NoPlan
      [] OTHER                 -> DetectServer(p, runtime)

Detect(p) == DetectAs(p, DetectRuntime(p))

\* manualBuildPlanFromConfig, for the runtime that was submitted or found.
\* Mutant: a static plan is never one of JavaScript.
FinalizeStatic(p, cfg, found, runtime) ==
    CASE IsJavaScript(runtime) -> ManualJavaScript(p, runtime, cfg)
      [] runtime = "static"    -> ManualStatic(p, cfg)
      [] runtime = ""          -> NoPlan
      [] OTHER                 -> ManualServer(p, runtime, cfg)

FinalizeAs(p, cfg, found, runtime) ==
    CASE IsJavaScript(runtime) \/ (runtime = "static" /\ IsJavaScript(found)) ->
            ManualJavaScript(p, IF runtime = "static" THEN found ELSE runtime, cfg)
      [] runtime = "static" /\ ~IsJavaScript(found) -> ManualStatic(p, cfg)
      [] runtime = "" -> NoPlan
      [] OTHER        -> ManualServer(p, runtime, cfg)

Finalize(p, cfg) ==
    FinalizeAs(p, cfg, DetectRuntime(p), FirstName(<<cfg.runtime, DetectRuntime(p)>>))

-----------------------------------------------------------------------------
(* Dockerfiles. A line names what it takes from where, or runs a command. *)

Line(do, what, as, cmd) == [do |-> do, what |-> what, as |-> as, cmd |-> cmd]

From(image, as) == <<Line("from", image, as, NoCmd)>>
Copy            == <<Line("copy", "", "", NoCmd)>>
CopyDeps        == <<Line("deps", "", "", NoCmd)>>
Take(what, as)  == <<Line("take", what, as, NoCmd)>>
Apt             == <<Line("apt", "", "", NoCmd)>>
Start           == <<Line("start", "", "", NoCmd)>>
Runs(cmds)      == [i \in 1..Len(cmds) |-> Line("run", "", "", cmds[i])]
Run(cmd)        == Runs(One(cmd))

HasDeps(x) == x.deps.base \union x.deps.app # {}

\* splitSetupCommands
IsSharp(cmd)    == cmd.verb = "add sharp"
PreSetup(x)     == Keep(x.setup, {cmd \in ToSet(x.setup) : IsSharp(cmd)})
PostSetup(x)    == Keep(x.setup, {cmd \in ToSet(x.setup) : ~IsSharp(cmd)})

\* The builder of renderApplicationDockerfile and of renderStaticDockerfile.
Builder(x) ==
    From(x.image, "builder") \o Runs(x.boot)
    \o (IF HasDeps(x) THEN CopyDeps \o Run(x.install) \o Runs(PreSetup(x)) \o Copy
        ELSE Copy \o Run(x.install) \o Runs(PreSetup(x)))
    \o Runs(PostSetup(x)) \o Run(x.build) \o Runs(x.post)

\* runtimePruneCommand
Prune(x) ==
    IF x.runtime = "node" /\ x.install.tool \in {"npm", "pnpm", "yarn"}
    THEN Run(Cmd(x.install.tool, "prune")) ELSE <<>>

\* runtimeSharpInstallCommand: without the cd, in the last stage.
RuntimeSharp(x) ==
    IF x.framework = "next" /\ PreSetup(x) # <<>>
    THEN Run([PreSetup(x)[1] EXCEPT !.cd = Root]) ELSE <<>>

ApplicationDockerfile(x) ==
    Builder(x) \o Prune(x) \o From(x.final, "final") \o Take("all", "builder")
    \o RuntimeSharp(x) \o Start

StaticDockerfile(x) ==
    IF x.image # "" THEN Builder(x) \o From(x.final, "final") \o Take("built", "builder") \o Start
    ELSE From(x.final, "final") \o Copy \o Start

RustDockerfile(x) ==
    From(x.image, "chef") \o Runs(x.boot)
    \o From("chef", "planner") \o Copy \o Run(x.install)
    \o From("chef", "builder") \o Take("recipe.json", "planner") \o Run(x.build)
    \o Copy \o Runs(x.post)
    \o From(x.final, "final") \o Take("./app", "builder") \o Start

GoDockerfile(x) ==
    From(x.image, "builder") \o (IF HasDeps(x) THEN CopyDeps ELSE <<>>) \o Run(x.install)
    \o Copy \o Runs(x.boot) \o Runs(x.setup) \o Run(x.build) \o Runs(x.post)
    \o From(x.final, "final") \o Take("./app", "builder") \o Start

\* Mutant: the ENTRYPOINT is forgotten.
NoEntrypoint(x) ==
    From(x.image, "build") \o (IF HasDeps(x) THEN CopyDeps ELSE <<>>) \o Run(x.install)
    \o Copy \o Run(x.build) \o From(x.final, "final") \o Take("App.dll", "build")

DotnetDockerfile(x) ==
    From(x.image, "build") \o (IF HasDeps(x) THEN CopyDeps ELSE <<>>) \o Run(x.install)
    \o Copy \o Run(x.build)
    \o From(x.final, "final") \o Take("App.dll", "build") \o Start

\* shouldUseSimplePythonWebDockerfile, shouldUseSimpleFlaskDockerfile
SimplePython(x) ==
    /\ <<x.framework, x.run.tool>> \in
          {<<"fastapi", "uvicorn">>, <<"fastapi", "hypercorn">>, <<"flask", "gunicorn">>}
    /\ x.install = Cmd("pip", "requirements.txt")
    /\ x.apt = {} /\ x.setup = <<>> /\ x.build = NoCmd

PythonDockerfile(x) ==
    IF SimplePython(x)
    THEN From(x.image, "final") \o Copy \o Runs(x.boot) \o Run(x.install) \o Start
    ELSE From(x.image, "builder") \o Apt \o Copy \o Runs(x.boot) \o Run(x.install)
         \o Runs(x.setup) \o Run(x.build) \o Runs(x.post)
         \o From(x.final, "final") \o Apt \o Take("venv", "builder") \o Take("all", "builder")
         \o Start

\* Mutant: the assets are built after the build command.
LateSetup(x) ==
    From(x.image, "final") \o Take("composer", "composer:2") \o Copy \o Apt
    \o Runs(x.boot) \o Run(x.install) \o Run(x.build) \o Runs(x.setup) \o Runs(x.post) \o Start

PHPDockerfile(x) ==
    From(x.image, "final") \o Take("composer", "composer:2") \o Copy \o Apt
    \o Runs(x.boot) \o Run(x.install) \o Runs(x.setup) \o Run(x.build) \o Runs(x.post) \o Start

\* generateDockerfileForPlan
Dockerfile(x) ==
    CASE x.static -> StaticDockerfile(x)
      [] ~x.static /\ x.runtime = "php"    -> PHPDockerfile(x)
      [] ~x.static /\ x.runtime = "python" -> PythonDockerfile(x)
      [] ~x.static /\ x.runtime = "go"     -> GoDockerfile(x)
      [] ~x.static /\ x.runtime = "dotnet" -> DotnetDockerfile(x)
      [] ~x.static /\ x.runtime = "rust"   -> RustDockerfile(x)
      [] OTHER -> ApplicationDockerfile(x)

-----------------------------------------------------------------------------
(* Carrying the lines out. *)

Current == stages[here]
Put(s)  == stages' = [stages EXCEPT ![here] = s] /\ UNCHANGED here

\* Files that COPY --from takes; the files of the image itself are nothing's.
Taken(x, line) ==
    LET s == stages[line.as] IN
    CASE line.what = "all"   -> {file \in s.files : file[1] # "venv"}
      [] line.what = "venv"  -> {file \in s.files : file[1] = "venv"}
      [] line.what = "built" -> {file \in s.files : file[1] = x.out /\ file[2] = "built"}
      [] OTHER -> {file \in s.files : file[2] = line.what}

Missing(x, line) ==
    /\ line.do = "take"
    /\ line.what \in {"built", "recipe.json", "./app", "App.dll"}
    /\ Taken(x, line) = {}

DoFrom(line) ==
    /\ line.do = "from"
    /\ stages' = [n \in DOMAIN stages \union {line.as} |->
                    IF n # line.as THEN stages[n]
                    ELSE IF line.what \in DOMAIN stages THEN stages[line.what]
                         ELSE Stage(line.what)]
    /\ here' = line.as

DoCopy(line) ==
    \/ line.do = "copy" /\ Put(Overlay(Current, ContextFiles(project, plan.context)))
    \/ line.do = "deps" /\ Put(Overlay(Current, FlatFiles(plan.context, plan.deps)))

\* Composer is taken from an image; libc's tools are in every image.
DoTake(line) ==
    /\ line.do = "take"
    /\ ~Missing(plan, line)
    /\ IF line.what = "composer" THEN Put([Current EXCEPT !.tools = @ \union {"composer"}])
       ELSE Put(Overlay(Current, Taken(plan, line)))

DoApt(line) ==
    line.do = "apt" /\ Put([Current EXCEPT !.tools = @ \union plan.apt])

DoRun(line) ==
    /\ line.do = "run"
    /\ CanRun(Current, project, Root, line.cmd)
    /\ Put(After(Current, project, line.cmd))

\* The container's command: nginx, or the init commands and then the run command.
Starts ==
    \/ plan.static
    \/ CanRun(Current, project, ShellDir(Current, Root, plan.init), plan.run)

-----------------------------------------------------------------------------
(* The service. *)

NoStages == [n \in {} |-> Stage("")]

\* A user submits fields of the configuration that CreateJobHandler has found, with
\* more commands in the setup and the post phase.
Submitted(found, s) ==
    Submit([ConfigOf(found) EXCEPT !.setup = @ \o s.more, !.post = @ \o s.more], s.fields)

Init ==
    /\ project \in Projects
    /\ \/ auto = TRUE /\ config = Blank
       \/ /\ auto = FALSE
          /\ \E found \in {Detect(project)}, s \in Submissions :
                found.ok /\ config = Submitted(found, s)
          /\ Structured(config)
    /\ phase = "planning" /\ plan = NoPlan /\ lines = <<>> /\ pc = 1
    /\ stages = NoStages /\ here = "" /\ first = <<>> /\ crashes = 0

Planned == IF auto THEN Detect(project) ELSE Finalize(project, config)

\* Build: the configuration is saved with the Dockerfile's content.
Generate ==
    /\ phase = "planning"
    /\ \E made \in {Planned} :
        /\ made.ok
        /\ plan' = made /\ config' = ConfigOf(made) /\ lines' = Dockerfile(made)
    /\ phase' = "building" /\ pc' = 1 /\ stages' = NoStages /\ here' = ""
    /\ first' = IF first = <<>> THEN lines' ELSE first
    /\ UNCHANGED <<project, auto, crashes>>

\* failJob: no plan.
Refuse ==
    /\ phase = "planning" /\ ~Planned.ok
    /\ phase' = "refused"
    /\ UNCHANGED <<project, auto, config, plan, lines, pc, stages, here, first, crashes>>

\* One line of the Dockerfile.
Step ==
    /\ phase = "building"
    /\ LET line == lines[pc]
       IN  DoFrom(line) \/ DoCopy(line) \/ DoTake(line) \/ DoApt(line) \/ DoRun(line)
    /\ pc' = pc + 1
    /\ UNCHANGED <<project, auto, config, phase, plan, lines, first, crashes>>

FailStep ==
    /\ phase = "building"
    /\ \/ lines[pc].do = "run" /\ CanFail(Current, project, Root, lines[pc].cmd)
       \/ Missing(plan, lines[pc])
    /\ phase' = "failed"
    /\ UNCHANGED <<project, auto, config, plan, lines, pc, stages, here, first, crashes>>

StartContainer ==
    /\ phase = "building" /\ lines[pc].do = "start"
    /\ phase' = IF Starts THEN "running" ELSE "stopped"
    /\ UNCHANGED <<project, auto, config, plan, lines, pc, stages, here, first, crashes>>

\* The builder stops; ResetInProgressJobs puts the job back into the queue.
Crash ==
    /\ phase = "building" /\ crashes < MaxCrashes
    /\ phase' = "planning" /\ crashes' = crashes + 1
    /\ plan' = NoPlan /\ lines' = <<>> /\ pc' = 1 /\ stages' = NoStages /\ here' = ""
    /\ UNCHANGED <<project, auto, config, first>>

\* The job is over; with this, a build that is stuck shows as a deadlock.
Done == phase \in {"refused", "failed", "running", "stopped"} /\ UNCHANGED vars

Next == Generate \/ Refuse \/ Step \/ FailStep \/ StartContainer \/ Crash \/ Done

Spec == Init /\ [][Next]_vars
=============================================================================
