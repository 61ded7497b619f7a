----------------------------- MODULE ServerPlan -----------------------------
(***************************************************************************)
(* The plan of a project that is no JavaScript: detectBuildPlan's other cases   *)
(* (javascript.go, autodetect.go, runtime_support.go, php.go, rust_runtime.go,  *)
(* java_runtime.go), and manualRuntimeBuildPlan (buildconfig_support.go) for    *)
(* submitted phases. Only facts about the application's directory count.        *)
(* Facts: files; "main.go" and "cmd" (main packages), "fastapi", "flask" (the   *)
(* first module that is there makes such an application), "__main__.py" (of a   *)
(* package), "uvicorn", "hypercorn", "gunicorn", "psycopg2", "playwright",      *)
(* "phoenix", "distillery", "hex" (others from Hex), "releases", "axum",        *)
(* "quarkus" (dependencies). wsgi.py and asgi.py have an "application".          *)
(***************************************************************************)
EXTENDS BuildPlan

Phases(install, build, run) == [install |-> install, build |-> build, run |-> run]

-----------------------------------------------------------------------------
(* Commands of each runtime: what detectCommandsWithPath picks with the default  *)
(* allowlist, which allows the first candidate, as detectCommandsWithoutAllowlist *)
(* does; they differ for Maven's install command.                               *)

GoPhases(f) ==
    LET entry == {"main.go", "cmd"} \intersect f # {}
    IN  Phases(Cmd("go", IF "go.work" \in f THEN "work sync" ELSE "mod download"),
               Cmd("go", IF entry THEN "build -o app" ELSE "build"),
               IF entry THEN Cmd("./app", "") ELSE Cmd("go", "run ."))

RustPhases == Phases(Cmd("cargo", "fetch"), Cmd("cargo", "build"), Cmd("./app", ""))

DotnetPhases == Phases(Cmd("dotnet", "restore"), Cmd("dotnet", "publish"), Cmd("dotnet", "App.dll"))

\* pythonPrebuildCandidates: the source of the dependencies.
PythonSources == <<"requirements.txt", "requirements.in", "Pipfile", "pyproject.toml", "setup.py">>

PythonInstall(f) ==
    LET source == FirstOf(PythonSources, f)
    IN  CASE {"poetry.lock", "pyproject.toml"} \subseteq f -> Cmd("pip", "poetry")
          [] ~({"poetry.lock", "pyproject.toml"} \subseteq f) /\ source = "" -> NoCmd
          [] OTHER -> Cmd("pip", IF source \in {"pyproject.toml", "setup.py"} THEN "." ELSE source)

\* pythonDependencyPresent: a Pipfile is not read.
PythonDependency(f, name) ==
    /\ name \in f
    /\ {"requirements.txt", "requirements.in", "poetry.lock", "pyproject.toml", "setup.py"}
          \intersect f # {}

\* pythonASGIServerCommand
ASGIServer(f) == IF PythonDependency(f, "hypercorn") THEN "hypercorn" ELSE "uvicorn"

\* Where detectASGIFrameworkRunCommand, detectDjangoRunCommand and
\* detectGunicornRunCommand find an application, "" if nowhere.
FastAPIModule(f) ==
    IF "fastapi" \in f THEN FirstOf(<<"main.py", "app.py", "server.py", "run.py">>, f) ELSE ""
DjangoModule(f) ==
    IF "manage.py" \in f THEN FirstOf(<<"wsgi.py", "asgi.py">>, f) ELSE ""
WSGIModule(f) ==
    FirstOf(<<"wsgi.py">> \o IF "flask" \in f THEN <<"app.py", "main.py", "server.py">> ELSE <<>>, f)

\* pythonRunCandidates: a server for what the sources hold, a script, main.py.
Serve(server, module) == IF module = "" THEN NoCmd ELSE Cmd(server, module)

PythonScript(f) ==
    Cmd("python",
        FirstName(<<FirstOf(<<"manage.py", "main.py", "app.py", "server.py", "run.py", "__main__.py">>, f),
                    "main.py">>))

PythonServer(f) ==
    Either(Serve(ASGIServer(f), FastAPIModule(f)),
    Either(Serve(IF DjangoModule(f) = "wsgi.py" THEN "gunicorn" ELSE ASGIServer(f), DjangoModule(f)),
    Either(Serve("gunicorn", WSGIModule(f)),
           Serve("uvicorn", FirstOf(<<"asgi.py">>, f)))))

PythonRun(f) == Either(PythonServer(f), PythonScript(f))

PythonPhases(f) ==
    Phases(PythonInstall(f),
           IF "setup.py" \in f THEN Cmd("python", "setup.py") ELSE NoCmd, PythonRun(f))

\* detectPythonFramework
PythonFramework(f) ==
    CASE "manage.py" \in f -> "django"
      [] "manage.py" \notin f /\ FastAPIModule(f) # "" -> "fastapi"
      [] OTHER -> IF WSGIModule(f) # "" THEN IF "wsgi.py" \in f THEN "wsgi" ELSE "flask"
                  ELSE IF "asgi.py" \in f THEN "asgi" ELSE ""

\* elixirRunCandidates, elixirDistilleryRunCandidates
ElixirRun(f) ==
    CASE "distillery" \in f -> Cmd("mix", "ecto.setup; release")
      [] "distillery" \notin f /\ "releases" \in f -> Cmd("release", "")
      [] OTHER -> Cmd("mix", IF "phoenix" \in f THEN "phx.server" ELSE "run")

ElixirPhases(f) ==
    Phases(Cmd("mix", IF "distillery" \in f THEN "local.hex" ELSE "deps.get"),
           Cmd("mix", IF {"distillery", "releases"} \intersect f # {} THEN "release" ELSE "compile"),
           ElixirRun(f))

JavaTool(f) ==
    LET gradle == {"build.gradle", "build.gradle.kts"} \intersect f # {}
        wrapper == IF gradle THEN "gradlew" ELSE "mvnw"
    IN  IF wrapper \in f THEN wrapper ELSE IF gradle THEN "gradle" ELSE "mvn"

JavaPhases(f, automatic) ==
    LET tool == JavaTool(f)
        install == CASE tool \in {"gradlew", "mvnw"} -> Cmd("chmod", tool)
                     [] tool = "gradle" -> Cmd("gradle", "dependencies")
                     [] tool = "mvn" -> IF automatic THEN Cmd("mvn", "clean") ELSE NoCmd
    IN  Phases(install, Cmd(tool, "package"), Cmd("java", "target.jar"))

\* detectPHPFrameworkAndDocroot: the kind of project, and is there a web entry point
\* where that kind has one? Laravel and Symfony are known by their files only.
PHPKind(f) == FirstHit(<<<<"artisan", "laravel">>, <<"bin/console", "symfony">>>>, f)

PHPEntries(kind) ==
    CASE kind = "laravel" -> {"public/index.php"}
      [] kind = "symfony" -> {"public/index.php", "web/index.php"}
      [] OTHER -> {"public/index.php", "web/index.php", "index.php"}

PHPWeb(f) == PHPEntries(PHPKind(f)) \intersect f # {}

PHPFramework(f) == FirstName(<<PHPKind(f), IF PHPWeb(f) THEN "php-web" ELSE "php">>)

\* phpRunCandidates
PHPScripts == <<"index.php", "app.php", "server.php", "main.php", "worker.php">>

PHPQueue(f) ==
    CASE "artisan" \in f -> Cmd("php", "artisan queue")
      [] "artisan" \notin f /\ "bin/console" \in f -> Cmd("php", "bin/console messenger")
      [] OTHER -> NoCmd

PHPRun(f) ==
    IF PHPWeb(f) THEN Cmd("apache2", "") ELSE Either(Serve("php", FirstOf(PHPScripts, f)), PHPQueue(f))

\* phpBuildCandidates
PHPBuild(f) ==
    CASE PHPKind(f) = "laravel" -> Cmd("php", "artisan optimize")
      [] PHPKind(f) = "symfony" -> Cmd("php", "bin/console cache")
      [] OTHER -> IF "composer.json" \in f THEN Cmd("composer", "dump-autoload") ELSE NoCmd

PHPPhases(f) ==
    Phases(IF "composer.json" \in f THEN Cmd("composer", "install") ELSE NoCmd,
           IF PHPWeb(f) THEN PHPBuild(f) ELSE NoCmd, PHPRun(f))

PhasesOf(runtime, f, automatic) ==
    CASE runtime = "go" -> GoPhases(f)
      [] runtime = "rust" -> RustPhases
      [] runtime = "dotnet" -> DotnetPhases
      [] runtime = "python" -> PythonPhases(f)
      [] runtime = "elixir" -> ElixirPhases(f)
      [] runtime = "java" -> JavaPhases(f, automatic)
      [] runtime = "php" -> PHPPhases(f)

-----------------------------------------------------------------------------
(* Images (defaultBuildPlan). *)

\* selectJavaBaseImage, by the commands it is given.
JavaImage(install, build) ==
    CASE {install.tool, build.tool} \intersect {"gradle", "gradlew"} # {} -> "gradle"
      [] {install.tool, build.tool} \intersect {"mvn", "mvnw"} # {} -> "maven"
      [] OTHER -> IF "gradlew" = install.verb THEN "gradle"
                  ELSE IF "mvnw" = install.verb THEN "maven" ELSE "jdk"

\* selectElixirRuntimeImage: a release does not need Elixir.
\* Mutant: nothing needs it.
AlwaysDebian(run) == "debian"

ElixirRuntimeImage(run) ==
    IF run \in {Cmd("release", ""), Cmd("mix", "ecto.setup; release")} THEN "debian" ELSE "elixir"

BuilderImage(runtime, phases) ==
    IF runtime = "java" THEN JavaImage(phases.install, phases.build) ELSE runtime

FinalImage(runtime, phases) ==
    CASE runtime = "go" -> "alpine" [] runtime = "rust" -> "debian"
      [] runtime = "java" -> "jre"  [] runtime = "elixir" -> ElixirRuntimeImage(phases.run)
      [] OTHER -> runtime

\* defaultBuildPlan
DefaultPlan(p, runtime, phases, images) ==
    [NoPlan EXCEPT !.ok = TRUE, !.runtime = runtime, !.install = phases.install,
        !.build = phases.build, !.run = phases.run, !.context = p.dir, !.dir = p.dir,
        !.image = BuilderImage(runtime, images), !.final = FinalImage(runtime, images)]

NoPhases == Phases(NoCmd, NoCmd, NoCmd)

-----------------------------------------------------------------------------
(* PHP (applyPHPPlanDefaults). *)

LaravelInit == Cmd("php", "artisan init")
PortInit    == Cmd("sh", "listen")

\* detectPHPNodeIntegration: install and build commands of the assets, if any.
NodeManager(f) ==
    FirstName(<<FirstHit(<<<<"pm:pnpm", "pnpm">>, <<"pm:yarn", "yarn">>, <<"pm:npm", "npm">>,
                           <<"pnpm-lock.yaml", "pnpm">>, <<"yarn.lock", "yarn">>>>, f), "npm">>)
NodeScript(f) == FirstOf(<<"build", "build:ssr", "web:build">>, f)
HasAssets(f)  == "package.json" \in f /\ NodeScript(f) # ""
NodeBoot(f) ==
    IF HasAssets(f) /\ NodeManager(f) \in {"pnpm", "yarn"} THEN <<Cmd("corepack", "enable")>>
    ELSE <<>>
NodeInstall(f, pm) == Cmd(pm, IF pm = "npm" /\ "package-lock.json" \in f THEN "ci" ELSE "install")
NodeSetup(f) ==
    IF HasAssets(f) THEN <<NodeInstall(f, NodeManager(f)), Cmd(NodeManager(f), NodeScript(f))>>
    ELSE <<>>

\* detectPHPRuntimeFlavor
PHPFlavor(f, run) ==
    CASE ~PHPWeb(f) -> "cli"
      [] PHPWeb(f) /\ run.tool = "php-fpm" -> "fpm"
      [] OTHER -> IF ".htaccess" \notin f /\ "nginx.conf" \in f THEN "fpm" ELSE "apache"

\* The run command that goes with the flavor.
FlavorRun(flavor, run) ==
    CASE flavor = "apache" /\ run.tool = "php-fpm" -> Cmd("apache2", "")
      [] flavor = "fpm" /\ run.tool = "apache2"    -> Cmd("php-fpm", "")
      [] OTHER -> run

PHPWith(f, plan, flavor) ==
    LET web == flavor # "cli"
        laravel == IF web /\ "artisan" \in f THEN <<LaravelInit>> ELSE <<>>
    IN  [plan EXCEPT
            !.framework = IF @ = "" THEN PHPFramework(f) ELSE @,
            !.run = FlavorRun(flavor, @),
            !.image = flavor, !.final = flavor,
            !.apt = IF web /\ HasAssets(f) THEN {"node", "npm"} ELSE {},
            !.boot = (IF web THEN NodeBoot(f) ELSE <<>>) \o <<Cmd("sh", "php.ini")>>,
            !.setup = IF web THEN MergeUnique(@, NodeSetup(f)) ELSE @,
            !.init = IF web THEN laravel \o @ \o <<PortInit>> ELSE @]

PHPDefaults(f, plan) ==
    IF plan.run = NoCmd THEN NoPlan ELSE PHPWith(f, plan, PHPFlavor(f, plan.run))

-----------------------------------------------------------------------------
(* Plans. *)

PythonSetup(f) ==
    IF PythonDependency(f, "playwright") THEN <<Cmd("python", "playwright")>> ELSE <<>>
PythonApt(f) ==
    IF \E name \in {"playwright", "psycopg2"} : PythonDependency(f, name) THEN {"libraries"} ELSE {}
DjangoInit(framework) == IF framework = "django" THEN <<Cmd("python", "manage.py")>> ELSE <<>>

\* detectElixirBuildPlan
DistillerySetup ==
    <<Cmd("mix", "local.rebar"), Cmd("mix", "deps.get"), Cmd("mix", "compile"),
      Cmd("mix", "phx.digest")>>

\* configureRustCargoChefPlan, or the binary is selected after the build.
RustPlan(plan, f) ==
    IF "axum" \in f
    THEN [plan EXCEPT !.framework = "axum", !.image = "cargo-chef",
                      !.install = Cmd("cargo-chef", "prepare"),
                      !.build = Cmd("cargo-chef", "cook"),
                      !.post = <<Cmd("cargo", "build"), Cmd("sh", "select app")>>]
    ELSE [plan EXCEPT !.post = <<Cmd("sh", "select app")>>]

\* configureJavaRuntimePlan
JavaPlan(plan, f) ==
    [plan EXCEPT !.framework = IF "quarkus" \in f THEN "quarkus" ELSE @,
                 !.post = <<Cmd("sh", "select jar")>>, !.run = Cmd("java", "app.jar")]

\* detectGoDependencyFiles, detectDotnetDependencyFiles
OwnDeps(runtime, f) ==
    [base |-> CASE runtime = "go" -> f \intersect {"go.mod", "go.work"}
                [] runtime = "dotnet" -> f \intersect {"App.csproj"}
                [] OTHER -> {},
     app |-> {}]

\* What the runtime adds to a plan.
DetectMore(f, plan) ==
    CASE plan.runtime = "python" ->
            [plan EXCEPT !.framework = PythonFramework(f), !.setup = PythonSetup(f),
                         !.apt = PythonApt(f), !.init = DjangoInit(PythonFramework(f))]
      [] plan.runtime = "elixir" ->
            [plan EXCEPT !.framework = IF "phoenix" \in f THEN "phoenix" ELSE "",
                         !.setup = IF "distillery" \in f THEN DistillerySetup ELSE <<>>]
      [] plan.runtime = "php"  -> PHPDefaults(f, plan)
      [] plan.runtime = "rust" -> RustPlan(plan, f)
      [] plan.runtime = "java" -> JavaPlan(plan, f)
      [] OTHER -> plan

\* detectBuildPlan, after the JavaScript cases.
DetectServer(p, runtime) ==
    LET phases == PhasesOf(runtime, p.app, TRUE)
    IN  Validate(DetectMore(p.app, [DefaultPlan(p, runtime, phases, phases) EXCEPT
                                        !.deps = OwnDeps(runtime, p.app)]))

StaticPlan(p) ==
    [NoPlan EXCEPT !.ok = TRUE, !.runtime = "static", !.framework = "static-site",
                   !.context = p.dir, !.dir = p.dir, !.final = "nginx", !.static = TRUE]

\* Nothing is built for a static site that is no JavaScript.
ManualStatic(p, cfg) ==
    IF {cfg.install, cfg.build} # {NoCmd} \/ cfg.setup \o cfg.post # <<>> THEN NoPlan
    ELSE [StaticPlan(p) EXCEPT !.framework = cfg.framework, !.run = cfg.run, !.init = cfg.init]

\* For PHP only the port's command is kept of what applyPHPPlanDefaults has joined,
\* unless an init command was submitted.
ManualPHP(f, plan, cfg) ==
    IF cfg.init = <<>> /\ plan.ok
    THEN [plan EXCEPT !.init = IF PHPWeb(f) THEN <<PortInit>> ELSE <<>>] ELSE plan

ManualPython(f, plan, framework) ==
    [plan EXCEPT !.framework = framework, !.apt = PythonApt(f),
                 !.setup = MergeUnique(PythonSetup(f), @),
                 !.init = IF @ = <<>> THEN DjangoInit(framework) ELSE @]

ManualMore(f, plan, cfg) ==
    CASE plan.runtime = "python" ->
            ManualPython(f, plan, FirstName(<<cfg.framework, PythonFramework(f)>>))
      [] plan.runtime = "php" -> ManualPHP(f, PHPDefaults(f, plan), cfg)
      [] OTHER -> plan

\* Commands that were not submitted are the detected ones, lists are taken as they are.
WithSubmitted(plan, cfg, found) ==
    [plan EXCEPT
        !.framework = cfg.framework, !.install = Either(cfg.install, found.install),
        !.build = Either(cfg.build, found.build), !.run = Either(cfg.run, found.run),
        !.setup = cfg.setup, !.post = cfg.post, !.init = cfg.init]

\* manualRuntimeBuildPlan: images do not depend on the commands, and nothing is
\* copied before the rest.
ManualServer(p, runtime, cfg) ==
    LET found == PhasesOf(runtime, p.app, FALSE)
    IN  ManualMore(p.app, WithSubmitted(DefaultPlan(p, runtime, found, NoPhases), cfg, found), cfg)
=============================================================================
