---------------------------- MODULE ImageLimits -----------------------------
(***************************************************************************)
(* What is promised of the images that ImageBuild makes, and for which           *)
(* repositories it is not: each limit below is a place where a command of the     *)
(* generated Dockerfile needs what is not there. The invariants say that, of      *)
(* what Container says commands need, there are no others and these are real.     *)
(***************************************************************************)
EXTENDS ImageBuild

Own == project.app
Javascript == plan.context = ContextDir(project) /\ plan.image \in {"node", "bun"}
Workspace  == Javascript /\ IsWorkspace(project)
Server(runtime) == plan.runtime = runtime

-----------------------------------------------------------------------------
(* Builds that fail. *)

\* Manifests of the root and of the application are copied into one directory, so
\* the lock file that is there belongs to another manifest, or there is none.
LockElsewhere ==
    /\ Workspace /\ plan.install.verb = "ci"
    /\ LockNeeded(plan.install.tool) \notin (IF HasDeps(plan) THEN Own ELSE project.root)

\* "cd '<app>' && npm install sharp" before the application's directory is copied.
SharpTooEarly == Workspace /\ HasDeps(plan) /\ PreSetup(plan) # <<>>

\* pnpm is enabled in the builder only, sharp is added in the last stage too.
SharpWithPnpm == Javascript /\ RuntimeSharp(plan) # <<>> /\ PreSetup(plan)[1].tool = "pnpm"

\* The client is generated in the application's directory, wherever the schema is.
SchemaElsewhere ==
    /\ Javascript /\ "schema.prisma" \notin Own
    /\ \E i \in 1..Len(plan.setup) : plan.setup[i].verb = "prisma generate"

\* The output that the configuration names is looked for below the root.
PagesElsewhere == Workspace /\ plan.static /\ plan.framework = "sveltekit" /\ "pages" \in Own

\* Of a submitted configuration nothing is copied before the install command.
NothingCopied == Server(plan.runtime) /\ plan.runtime \in {"go", "dotnet"} /\ ~HasDeps(plan)

NoEntryPoint  == Server("go") /\ {"main.go", "cmd"} \intersect Own = {}
NeedsModules  == Server("go") /\ "go.work" \in Own

\* Only cargo-chef's plans make the recipe that every Rust Dockerfile copies.
NoRecipe == Server("rust") /\ plan.image # "cargo-chef"

\* A submitted configuration does not choose the image that has Maven or Gradle.
NoBuildTool ==
    Server("java") /\ plan.image = "jdk" /\ {"mvn", "gradle"} \intersect {plan.install.tool, plan.build.tool} # {}

\* Only Distillery's plans install Hex; their setup commands, which fetch the
\* packages, may be left out of a submitted configuration.
NoHex ==
    /\ Server("elixir") /\ UsesHex(Own)
    /\ plan.install.verb # "local.hex" \/ Cmd("mix", "deps.get") \notin ToSet(plan.setup)

\* "pipenv install --deploy" does not go without the lock file, which is not looked for.
NoPipfileLock ==
    Server("python") /\ plan.install = Cmd("pip", "Pipfile") /\ "Pipfile.lock" \notin Own

DigestsNothing == Server("elixir") /\ Cmd("mix", "phx.digest") \in ToSet(plan.setup) /\ "phoenix" \notin Own

NoCorepack  == Server("php") /\ Cmd("corepack", "enable") \in ToSet(plan.boot)
NotVendored == Server("php") /\ plan.build.tool = "php" /\ "composer.json" \notin Own

MayFailToBuild == LockElsewhere \/ NeedsModules
MustFailToBuild ==
    \/ LockElsewhere /\ ~(plan.install.tool = "npm" /\ HasDeps(plan))
    \/ SharpTooEarly \/ SharpWithPnpm \/ SchemaElsewhere \/ PagesElsewhere
    \/ NothingCopied \/ NoEntryPoint \/ NoRecipe \/ NoBuildTool
    \/ NoHex \/ NoPipfileLock \/ DigestsNothing \/ NoCorepack \/ NotVendored

-----------------------------------------------------------------------------
(* Containers that stop. *)

PnpmAtRuntime == Javascript /\ plan.run.tool = "pnpm"

\* The init command's cd is still in force when the run command does its own.
TwiceChanged == Workspace /\ plan.init # <<>> /\ plan.run.cd = App

\* npm puts the commands of a workspace into the root's node_modules; from
\* manifests in one directory everything is installed there.
BinElsewhere ==
    Workspace /\ plan.run.tool = "next" /\ (HasDeps(plan) \/ plan.install.tool = "npm")

\* Nothing builds what the run command starts.
Unbuilt ==
    /\ Javascript /\ plan.build = NoCmd
    /\ plan.run.tool = "next" \/ plan.run.verb = "built"

\* A path relative to the context, below the application's directory.
PathTwice == Workspace /\ plan.run.at # Root

NoServer ==
    Server("python") /\ plan.run.tool \in Servers /\ (plan.run.tool \notin Own \/ plan.install = NoCmd)
NoMain == Server("python") /\ plan.run = Cmd("python", "main.py") /\ "main.py" \notin Own

\* The jar is selected by a command that only automatic plans have.
NoJar == Server("java") /\ plan.run = Cmd("java", "app.jar") /\ Cmd("sh", "select jar") \notin ToSet(plan.post)

\* Hex is not in the last stage (and for Distillery not even Mix, which is to migrate
\* the database before the release starts).
NoMix == Server("elixir") /\ plan.run.tool = "mix" /\ UsesHex(Own)

NoWorker ==
    /\ Server("php") /\ "composer.json" \notin Own
    /\ plan.run.verb \in {"artisan queue", "bin/console messenger"}

MustStop ==
    \/ PnpmAtRuntime \/ TwiceChanged \/ BinElsewhere \/ Unbuilt \/ PathTwice
    \/ NoServer \/ NoMain \/ NoJar \/ NoMix \/ NoWorker

-----------------------------------------------------------------------------
(* Properties. *)

\* A plan that has just been made.
Fresh == phase = "building" /\ pc = 1

\* The commands that a Dockerfile runs, in their order.
Executed(ls) ==
    LET runs == Keep(ls, {line \in ToSet(ls) : line.do = "run"})
    IN  [i \in 1..Len(runs) |-> runs[i].cmd]

\* The phases of a plan that its renderer carries out. Rust and .NET leave out the
\* setup commands, .NET and the one-stage Python images the post-build commands; the
\* renderers of applications and static sites put sharp before the other ones.
KeptSetup(x) ==
    CASE x.runtime \in {"rust", "dotnet"}      -> <<>>
      [] x.runtime \in {"go", "python", "php"} -> x.setup
      [] OTHER -> PreSetup(x) \o PostSetup(x)
KeptPost(x) ==
    IF x.runtime = "dotnet" \/ (x.runtime = "python" /\ SimplePython(x)) THEN <<>> ELSE x.post
Kept(x) == One(x.install) \o KeptSetup(x) \o One(x.build) \o KeptPost(x)

\* TypeOK: variables have their types; a plan and a Dockerfile are there together,
\* and the line that is next is one of it.
ImageTypeOK ==
    /\ project.dir \in Dirs /\ auto \in BOOLEAN /\ crashes \in 0..MaxCrashes
    /\ phase \in {"planning", "refused", "building", "failed", "running", "stopped"}
    /\ phase \in {"building", "failed", "running", "stopped"} <=> plan.ok
    /\ plan.ok => pc \in 1..Len(lines)
    /\ plan.ok /\ pc > 1 => here \in DOMAIN stages

\* KnownFailures: a build fails only for a repository with one of the limits above,
\* and the image of one that is bound to fail is never started. Everything else a
\* command of the Dockerfile needs (detected in one file, installed by the plan of
\* another, copied by the renderer of a third) is there when it runs.
KnownFailures ==
    /\ phase = "failed" => MayFailToBuild \/ MustFailToBuild
    /\ phase \in {"running", "stopped"} => ~MustFailToBuild

\* KnownStops: a container whose image was built stops at once only for one of the
\* limits above, and then always.
KnownStops ==
    /\ phase = "stopped" => MustStop
    /\ phase = "running" => ~MustStop

\* CommandsKept: the Dockerfile runs every command of the stored configuration that
\* its renderer knows, in the order of the phases, and no other command between them
\* (corepack comes before them, prune and the second sharp after them).
CommandsKept ==
    Fresh => \E i \in 1..Len(Executed(lines)) + 1 :
                IsPrefix(Kept(plan), SubSeq(Executed(lines), i, Len(Executed(lines))))

\* What the container starts.
Starting(x) == <<x.init, x.run>>

\* Is the plan made of the submission the one that was found?
AsFound(found, made) ==
    config = ConfigOf(found) =>
        /\ made.ok
        /\ found.runtime \notin {"go", "dotnet", "rust", "java", "elixir"}
           => Dockerfile(made) = Dockerfile(found)
        /\ found.runtime # "php" => Starting(made) = Starting(found)

\* SubmitAsFound: a user who submits the inspected configuration as it is gets the
\* image of an automatic build, but for the runtimes whose images or dependency
\* files are not part of the configuration, and for PHP's init commands.
SubmitAsFound == phase = "planning" /\ ~auto => AsFound(Detect(project), Planned)

\* ReplanRepeats: after a crash the stored configuration gives the same Dockerfile
\* and the same start, but for PHP behind a web server: its init commands grow.
ReplanRepeats ==
    Fresh =>
        /\ lines = first
        /\ \A again \in {Planned} :
            ~auto /\ again.ok /\ plan.runtime # "php" => Starting(again) = Starting(plan)

-----------------------------------------------------------------------------
(* The inductive invariant. *)

\* A sequence of anything.
IsSequence(s) == s \in Seq(ToSet(s))

\* A configuration that comes from the inspection of the repository: its runtime is
\* the one found, left out, or that of a JavaScript site served by nginx.
Inspected(p, cfg) ==
    /\ cfg.runtime = "static" => IsJavaScript(DetectRuntime(p)) \/ DetectRuntime(p) = "static"
    /\ cfg.runtime \in {"", "static", DetectRuntime(p)}
    /\ IsSequence(cfg.setup) /\ IsSequence(cfg.post)

\* What the renderers rely on.
Renderable(x) ==
    /\ IsSequence(x.boot) /\ IsSequence(x.setup) /\ IsSequence(x.post)
    /\ x.static => x.runtime = "static"
    /\ x.static /\ x.image = "" => {x.install, x.build} = {NoCmd} /\ x.setup \o x.post = <<>>
    /\ x.runtime = "go" => x.boot = <<>>

\* A plan that can take the place of this one.
Repeats(x, again) ==
    /\ again.ok /\ Dockerfile(again) = Dockerfile(x)
    /\ x.runtime # "php" => Starting(again) = Starting(x)

ConfigKnown == ~auto => Inspected(project, config) /\ Detect(project).ok

\* The row has the configuration of the plan that is being built, and planning it
\* again repeats the plan.
PlanStored ==
    plan.ok =>
        /\ Renderable(plan)
        /\ config = ConfigOf(plan) /\ lines = Dockerfile(plan) /\ first = lines
        /\ Repeats(plan, Planned)

\* After a crash the row still leads to the first Dockerfile.
FirstKept == phase = "planning" /\ first # <<>> => Planned.ok /\ Dockerfile(Planned) = first

\* ImageInv: whatever is planned, stored, lost in a crash and planned again, the row
\* and the Dockerfile belong to one plan, the row leads back to it, and the build is
\* at one of its lines.
ImageInv == ImageTypeOK /\ ConfigKnown /\ PlanStored /\ FirstKept
=============================================================================
