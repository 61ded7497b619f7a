--------------------------- MODULE JavaScriptPlan ---------------------------
(***************************************************************************)
(* The plan of a Node or Bun project: javascript.go for automatic builds, and   *)
(* manualJavaScriptBuildPlan (buildconfig_support.go) for submitted phases.    *)
(* Facts: the manifest and lock files, "workspaces" (a monorepo marker of the   *)
(* root), packages, scripts, "vite start" (the start script runs Vite), and    *)
(* settings of frameworks ("ssr", "no ssr", "prerendered", adapters, "pages").  *)
(* All scripts that run in production are taken as "start" or "serve:ssr".      *)
(***************************************************************************)
EXTENDS BuildPlan

IsJavaScript(runtime) == runtime \in {"node", "bun"}

(* newJSProjectContext *)
IsWorkspace(p) == p.dir # Root /\ "workspaces" \in p.root
ContextDir(p)  == IF IsWorkspace(p) THEN Root ELSE p.dir
WorkDir(p)     == IF ContextDir(p) = Root THEN p.dir ELSE Root
ContextFacts(p) == IF ContextDir(p) = Root THEN p.root ELSE p.app

SpecTable == <<<<"pm:pnpm", "pnpm">>, <<"pm:yarn", "yarn">>, <<"pm:npm", "npm">>>>
LockTable ==
    <<<<"pnpm-lock.yaml", "pnpm">>, <<"yarn.lock", "yarn">>, <<"package-lock.json", "npm">>>>

\* detectJavaScriptPackageManager: a packageManager field, of the manifest that is
\* installed if it has one, outweighs the lock files beside that manifest.
PackageManager(p, runtime) ==
    LET installed == IF IsWorkspace(p) THEN p.root ELSE p.app
    IN  IF runtime = "bun" THEN "bun"
        ELSE FirstName(<<FirstHit(SpecTable, installed), FirstHit(SpecTable, p.app),
                         FirstHit(SpecTable, p.root), FirstHit(LockTable, installed), "npm">>)

\* detectJavaScriptBootstrapCommands
Bootstrap(pm) == IF pm \in {"pnpm", "yarn"} THEN <<Cmd("corepack", "enable")>> ELSE <<>>

LockOf(pm) ==
    CASE pm = "npm" -> "package-lock.json" [] pm = "pnpm" -> "pnpm-lock.yaml" [] OTHER -> ""

\* detectJavaScriptInstallCommand: "ci" stands for npm ci and --frozen-lockfile.
InstallCommand(p, pm) ==
    Cmd(pm, IF LockOf(pm) \in ContextFacts(p) \union p.app THEN "ci" ELSE "install")

DependencyNames ==
    {"package.json", "package-lock.json", "pnpm-lock.yaml", "yarn.lock", "bun.lock"}

\* canInstallWithoutFullSource, detectJavaScriptDependencyFiles: the files of the
\* context, and below it those of the application, all copied into one directory.
\* Mutant: install scripts do not keep the manifests from being copied alone.
AlwaysDependencyFiles(p) ==
    [base |-> ContextFacts(p) \intersect DependencyNames,
     app |-> IF WorkDir(p) = App THEN p.app \intersect DependencyNames ELSE {}]

DependencyFiles(p) ==
    IF "postinstall" \in p.root \union p.app THEN NoDeps
    ELSE [base |-> ContextFacts(p) \intersect DependencyNames,
          app |-> IF WorkDir(p) = App THEN p.app \intersect DependencyNames ELSE {}]

-----------------------------------------------------------------------------
FrameworkOrder ==
    <<"remix", "next", "sveltekit", "nuxt", "solidstart", "sails", "fastify", "vue", "solid",
      "vite", "astro", "cra", "angular">>

\* detectJSFramework
Framework(p) == FirstOf(FrameworkOrder, p.app)

AngularSSR(p)  == p.app \intersect {"ssr", "serve:ssr", "build:ssr"} # {}
NuxtStatic(p)  == p.app \intersect {"generate", "prerendered"} # {}
\* detectSvelteKitAdapterFromConfig: the static adapter outweighs the others.
PlatformAdapter(p) ==
    "adapter-static" \notin p.app /\ p.app \intersect {"adapter-auto", "adapter-vercel"} # {}

\* selectJSBuildScript, selectJSRunScript
BuildScript(facts) == FirstOf(<<"build", "build:ssr", "web:build">>, facts)
RunScript(facts)   == FirstOf(<<"start", "serve:ssr">>, facts)

\* The script a framework prefers to these; generate only in automatic builds.
FrameworkScript(p, framework, automatic) ==
    CASE framework = "angular" /\ AngularSSR(p) /\ "build:ssr" \in p.app -> "build:ssr"
      [] automatic /\ framework = "nuxt" /\ NuxtStatic(p) /\ "generate" \in p.app -> "generate"
      [] OTHER -> BuildScript(p.app)

Script(p, pm, name) ==
    IF name = "" THEN NoCmd ELSE Command(WorkDir(p), pm, name, Root)

UsesPrisma(p) ==
    \/ {"schema.prisma", "@prisma/client"} \intersect p.app # {}
    \/ "schema.prisma" \in ContextFacts(p)

Exec(runtime) == IF runtime = "bun" THEN "bunx" ELSE "npx"

AddsSharp(p) == Framework(p) = "next" /\ "sharp" \notin p.app \union p.root
Sharp(p, pm) == Command(WorkDir(p), pm, "add sharp", Root)

\* detectJavaScriptSetupCommands
SetupCommands(p, runtime, pm) ==
    (IF UsesPrisma(p) THEN <<Command(WorkDir(p), Exec(runtime), "prisma generate", Root)>>
     ELSE <<>>)
    \o IF AddsSharp(p) THEN <<Sharp(p, pm)>> ELSE <<>>

Playwright(p, runtime) ==
    IF "playwright" \in p.app
    THEN <<Command(WorkDir(p), Exec(runtime), "playwright install", Root)>> ELSE <<>>

Migrations(p, runtime) ==
    IF UsesPrisma(p) THEN <<Command(WorkDir(p), Exec(runtime), "prisma migrate", Root)>>
    ELSE <<>>

\* shouldUseStaticRuntime
StaticFrameworks == {"vite", "vue", "solid"}
ShouldBeStatic(p, framework, buildScript) ==
    /\ buildScript # ""
    /\ RunScript(p.app) # "" => RunScript(p.app) = "start" /\ "vite start" \in p.app
    /\ CASE framework \in StaticFrameworks -> TRUE
         [] framework = "remix"     -> "no ssr" \in p.app
         [] framework = "nuxt"      -> NuxtStatic(p)
         [] framework = "angular"   -> ~AngularSSR(p)
         [] framework = "astro"     -> "ssr" \notin p.app
         [] framework = "sveltekit" -> "adapter-static" \in p.app
         [] framework \in {"next", "solidstart", "sails", "fastify"} -> FALSE
         [] OTHER -> /\ p.app \intersect {"express", "@nestjs/core"} = {}
                     /\ framework = "cra" \/ p.app \intersect {"react", "index.html"} # {}

\* detectStaticOutputDir, as a directory: an output directory that SvelteKit's
\* configuration names is not joined with the application's.
OutputDir(p, framework) ==
    IF framework = "sveltekit" /\ "pages" \in p.app THEN Root ELSE WorkDir(p)

\* Commands that start what the build has made, and not a script. Angular's path
\* is relative to the context already, and is looked for below cd '<work dir>'.
StartBuilt(p) == Command(WorkDir(p), "node", "built", Root)
AngularRun(p, pm) ==
    IF "serve:ssr" \in p.app THEN Script(p, pm, "serve:ssr")
    ELSE Command(WorkDir(p), "node", "built", WorkDir(p))

\* detectJavaScriptRunCommand
ScriptOrFile(p, runtime, pm) ==
    CASE RunScript(p.app) # "" -> Script(p, pm, RunScript(p.app))
      [] RunScript(p.app) = "" /\ "server.js" \in p.app ->
            Command(WorkDir(p), runtime, "server.js", Root)
      [] OTHER -> NoCmd

\* detectAstroRunCommand and detectRemixRunCommand pass over a start script that
\* runs a development server; here it is no "start" then.
RunCommand(p, runtime, pm, framework) ==
    LET start == Script(p, pm, IF "start" \in p.app THEN "start" ELSE "")
        found == ScriptOrFile(p, runtime, pm)
    IN  CASE runtime = "node" /\ framework = "next" ->
                Command(WorkDir(p), "next", "start", Root)
          [] runtime = "node" /\ framework = "angular" -> AngularRun(p, pm)
          [] runtime = "node" /\ framework \in {"astro", "remix"} -> Either(start, StartBuilt(p))
          [] runtime = "node" /\ framework = "nuxt" -> Either(found, StartBuilt(p))
          [] OTHER -> found

NestRun(p, runtime) ==
    IF runtime = "node" /\ "@nestjs/core" \in p.app THEN StartBuilt(p) ELSE NoCmd
-----------------------------------------------------------------------------
\* What both kinds of plan make static, if they do.
MakeStatic(p, plan) ==
    [plan EXCEPT !.runtime = "static",
        !.framework = IF @ = "" THEN "static-frontend" ELSE @,
        !.run = NoCmd, !.init = <<>>, !.static = TRUE, !.final = "nginx",
        !.out = OutputDir(p, plan.framework)]

\* What does not depend on the phases.
JavaScriptBase(p, runtime, pm, framework) ==
    [NoPlan EXCEPT !.ok = TRUE, !.runtime = runtime, !.framework = framework,
        !.deps = DependencyFiles(p), !.boot = Bootstrap(pm), !.context = ContextDir(p),
        !.dir = p.dir, !.image = runtime, !.final = runtime]

\* The phases of an automatic plan.
AutomaticPhases(p, runtime, pm, framework) ==
    [JavaScriptBase(p, runtime, pm, framework) EXCEPT
        !.install = InstallCommand(p, pm),
        !.setup = MergeUnique(SetupCommands(p, runtime, pm), Playwright(p, runtime)),
        !.build = Script(p, pm, FrameworkScript(p, framework, TRUE)),
        !.run = Either(RunCommand(p, runtime, pm, framework), NestRun(p, runtime)),
        !.init = Migrations(p, runtime)]

\* Is it served by nginx, is it refused, and is a command refused?
Settle(p, plan) ==
    CASE plan.framework = "sveltekit" /\ PlatformAdapter(p) -> NoPlan
      [] ~(plan.framework = "sveltekit" /\ PlatformAdapter(p))
         /\ ShouldBeStatic(p, plan.framework, plan.build.verb) -> Validate(MakeStatic(p, plan))
      [] OTHER -> IF plan.run = NoCmd THEN NoPlan ELSE Validate(plan)

\* detectJavaScriptBuildPlan
DetectJavaScript(p, runtime) ==
    Settle(p, AutomaticPhases(p, runtime, PackageManager(p, runtime), Framework(p)))

\* What was not submitted is detected.
ManualPhases(p, runtime, cfg, pm, framework) ==
    [JavaScriptBase(p, runtime, pm, framework) EXCEPT
        !.install = Either(cfg.install, InstallCommand(p, pm)),
        !.setup = MergeUnique(MergeUnique(SetupCommands(p, runtime, pm), cfg.setup),
                              Playwright(p, runtime)),
        !.build = Either(cfg.build, Script(p, pm, FrameworkScript(p, framework, FALSE))),
        !.post = cfg.post, !.run = Either(cfg.run, RunCommand(p, runtime, pm, framework)),
        !.init = IF cfg.init # <<>> THEN cfg.init ELSE Migrations(p, runtime)]

SettleManual(p, plan, static) ==
    CASE static  -> IF plan.build = NoCmd THEN NoPlan ELSE MakeStatic(p, plan)
      [] ~static -> IF plan.run = NoCmd THEN NoPlan ELSE plan

\* manualJavaScriptBuildPlan
ManualJavaScript(p, runtime, cfg) ==
    LET framework == FirstName(<<cfg.framework, Framework(p)>>)
    IN  SettleManual(p, ManualPhases(p, runtime, cfg, PackageManager(p, runtime), framework),
            \/ cfg.runtime = "static"
            \/ ShouldBeStatic(p, framework, FrameworkScript(p, framework, FALSE)))
=============================================================================
