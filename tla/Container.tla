------------------------------ MODULE Container ------------------------------
(***************************************************************************)
(* Outside the repository: what the base images hold, and what Docker, the      *)
(* package managers and the build tools do with the commands the Dockerfile     *)
(* generator writes, as far as one command needs what another has made.         *)
(* A stage of a Dockerfile is its tools and its files; a file <<at, name, from>> *)
(* is in directory at of the image and comes from directory from of the         *)
(* repository. "source" stands for all files of a directory, "node_modules" and  *)
(* ".bin" for the installed packages and their commands, "venv" is Python's      *)
(* environment. What is checked about a project is that nothing it needs is      *)
(* missing; that its own code works, and with the versions of the images, is     *)
(* taken for granted.                                                           *)
(***************************************************************************)
EXTENDS BuildPlan

\* Corepack comes with Node's own images, and not with Debian's packages of Node;
\* pnpm is only there once Corepack is enabled.
ImageTools(image) ==
    CASE image = "node"       -> {"node", "npm", "npx", "yarn", "corepack"}
      [] image = "bun"        -> {"bun", "bunx"}
      [] image = "go"         -> {"go"}
      [] image = "rust"       -> {"cargo"}
      [] image = "cargo-chef" -> {"cargo", "cargo-chef"}
      [] image = "dotnet"     -> {"dotnet"}
      [] image = "python"     -> {"python", "pip"}
      [] image = "elixir"     -> {"mix"}
      [] image = "maven"      -> {"mvn", "java"}
      [] image = "gradle"     -> {"gradle", "java"}
      [] image \in {"jdk", "jre"} -> {"java"}
      [] image = "apache"     -> {"php", "apache2"}
      [] image = "fpm"        -> {"php", "php-fpm"}
      [] image = "cli"        -> {"php"}
      [] OTHER                -> {}

Stage(image) == [tools |-> ImageTools(image) \union {"sh", "chmod"}, files |-> {}]

FactsOf(p, from) == IF from = Root THEN p.root ELSE p.app

Has(s, at, name)     == \E file \in s.files : file[1] = at /\ file[2] = name
Origins(s, at, name) == {file[3] : file \in {x \in s.files : x[1] = at /\ x[2] = name}}
Exists(s, at)        == at = Root \/ \E file \in s.files : file[1] = at

\* A file that is copied to where one is replaces it; two packages are both kept.
Overlay(s, new) ==
    [s EXCEPT !.files = new \union
        {x \in @ : x[2] \in {"node_modules", ".bin"} \/ ~\E y \in new : y[1] = x[1] /\ y[2] = x[2]}]

\* COPY . . of the build context.
ContextFiles(p, context) ==
    IF context = Root
    THEN {<<Root, name, Root>> : name \in p.root \union {"source"}}
         \union IF p.dir = App THEN {<<App, name, App>> : name \in p.app \union {"source"}} ELSE {}
    ELSE {<<Root, name, App>> : name \in p.app \union {"source"}}

\* COPY of named files into one directory: the last one of a name stays.
FlatFiles(context, deps) ==
    {<<Root, name, App>> : name \in deps.app}
    \union {<<Root, name, context>> : name \in deps.base \ deps.app}

-----------------------------------------------------------------------------
Managers == {"npm", "pnpm", "yarn", "bun"}
ProductionScripts == {"start", "serve:ssr"}

Servers == {"uvicorn", "hypercorn", "gunicorn"}
PythonFiles ==
    {"setup.py", "manage.py", "wsgi.py", "asgi.py", "main.py", "app.py", "server.py", "run.py",
     "__main__.py"}
PHPFiles == {"index.php", "app.php", "server.php", "main.php", "worker.php"}

LockNeeded(tool) == IF tool = "npm" THEN "package-lock.json" ELSE "pnpm-lock.yaml"

\* The files a command needs where it runs; other commands need none. "build.gradle"
\* may be in Kotlin.
Needs ==
    {<<"go", "mod download", "go.mod">>, <<"go", "work sync", "go.work">>,
     <<"go", "build -o app", "source">>, <<"go", "build", "source">>, <<"go", "run .", "source">>,
     <<"cargo", "fetch", "source">>, <<"cargo", "build", "source">>,
     <<"cargo-chef", "prepare", "source">>, <<"cargo-chef", "cook", "recipe.json">>,
     <<"sh", "select app", "target">>, <<"sh", "select jar", "target.jar">>,
     <<"dotnet", "restore", "App.csproj">>, <<"dotnet", "publish", "source">>,
     <<"dotnet", "App.dll", "App.dll">>,
     <<"pip", "poetry", "pyproject.toml">>, <<"pip", "requirements.txt", "requirements.txt">>,
     <<"pip", "requirements.in", "requirements.in">>, <<"pip", "Pipfile", "Pipfile.lock">>,
     <<"pip", ".", "source">>, <<"python", "playwright", "playwright">>,
     <<"mix", "deps.get", "mix.exs">>, <<"mix", "compile", "mix.exs">>,
     <<"mix", "release", "mix.exs">>, <<"mix", "run", "mix.exs">>,
     <<"mix", "phx.server", "phoenix">>, <<"mix", "phx.digest", "phoenix">>,
     <<"chmod", "gradlew", "gradlew">>, <<"chmod", "mvnw", "mvnw">>,
     <<"mvn", "clean", "pom.xml">>, <<"mvn", "package", "pom.xml">>,
     <<"mvnw", "package", "pom.xml">>, <<"gradle", "dependencies", "build.gradle">>,
     <<"gradle", "package", "build.gradle">>, <<"gradlew", "package", "build.gradle">>,
     <<"java", "target.jar", "target.jar">>, <<"java", "app.jar", "app.jar">>,
     <<"composer", "install", "composer.json">>, <<"composer", "dump-autoload", "composer.json">>,
     <<"php", "artisan optimize", "vendor">>, <<"php", "artisan queue", "vendor">>,
     <<"php", "bin/console cache", "vendor">>, <<"php", "bin/console messenger", "vendor">>,
     <<"npx", "prisma generate", "schema.prisma">>,
     <<"bunx", "prisma generate", "schema.prisma">>,
     <<"next", "start", "built">>, <<"node", "server.js", "server.js">>,
     <<"bun", "server.js", "server.js">>}
    \union {<<tool, script, script>> :
                tool \in Servers \union {"python"}, script \in PythonFiles}
    \union {<<"php", script, script>> : script \in PHPFiles}

Kinds(name) == IF name = "build.gradle" THEN {name, "build.gradle.kts"} ELSE {name}

\* The files a command makes there.
Gives ==
    {<<"go", "build -o app", "./app">>, <<"cargo-chef", "prepare", "recipe.json">>,
     <<"cargo", "build", "target">>, <<"sh", "select app", "./app">>,
     <<"dotnet", "publish", "App.dll">>, <<"mix", "deps.get", "deps">>,
     <<"mix", "release", "release">>,
     <<"mvn", "package", "target.jar">>, <<"mvnw", "package", "target.jar">>,
     <<"gradle", "package", "target.jar">>, <<"gradlew", "package", "target.jar">>,
     <<"sh", "select jar", "app.jar">>, <<"composer", "install", "vendor">>}

\* A tool of the image, a program among the files, or one of Python's environment.
Available(s, at, tool) ==
    \/ tool \in s.tools
    \/ Has(s, at, IF tool = "next" THEN ".bin" ELSE tool)
    \/ Has(s, "venv", tool)

\* Packages are looked for in the directory and above it.
Installed(s, at, from) ==
    from \in Origins(s, at, "node_modules") \union Origins(s, Root, "node_modules")

\* The manifest there, and what its scripts need.
ManifestAllows(s, p, at, c) ==
    \E from \in Origins(s, at, "package.json") :
        /\ c.verb \in {"ci", "install"} /\ "postinstall" \in FactsOf(p, from)
           => Has(s, at, "source")
        /\ c.verb = "ci" => Has(s, at, LockNeeded(c.tool))
        /\ c.verb = "ci" /\ c.tool = "pnpm" => Origins(s, at, LockNeeded(c.tool)) = {from}
        /\ c.verb \in Scripts \union ProductionScripts
           => c.verb \in FactsOf(p, from) /\ Installed(s, at, from)

\* A project with packages from Hex needs Hex, which is an archive in the home
\* directory of a stage (as rebar, which is left out), and the packages.
UsesHex(f) == {"phoenix", "distillery", "hex"} \intersect f # {}

MixAllows(s, p, at, c) ==
    UsesHex(p.app) /\ c.verb \notin {"local.hex", "local.rebar"} =>
        "hex" \in s.tools /\ (c.verb # "deps.get" => Has(s, at, "deps"))

\* Can command c succeed in directory base of the stage?
CanRun(s, p, base, c) ==
    LET at == Join(base, c.cd) IN
    /\ Exists(s, at)
    /\ Available(s, at, c.tool)
    /\ \A row \in Needs : row[1] = c.tool /\ row[2] = c.verb => \E name \in Kinds(row[3]) : Has(s, at, name)
    /\ c.tool \in Managers /\ c.verb # "server.js" => ManifestAllows(s, p, at, c)
    /\ c.tool = "mix" => MixAllows(s, p, at, c)
    /\ c = [c EXCEPT !.tool = "node", !.verb = "built"] => Has(s, Join(at, c.at), "built")

\* Can it fail? npm may find that the lock file of another manifest does not fit;
\* the modules a go.work file names are not there before the source is.
CanFail(s, p, base, c) ==
    LET at == Join(base, c.cd) IN
    \/ ~CanRun(s, p, base, c)
    \/ /\ c = [c EXCEPT !.tool = "npm", !.verb = "ci"]
       /\ Origins(s, at, "package-lock.json") # Origins(s, at, "package.json")
    \/ c.tool = "go" /\ Has(s, at, "go.work") /\ ~Has(s, at, "source")

-----------------------------------------------------------------------------
\* An install at the root of a workspace installs the application's packages too;
\* npm and Bun put all commands into the root's .bin.
InstalledFiles(s, tool) ==
    LET own  == Origins(s, Root, "package.json")
        apps == IF own = {Root} THEN Origins(s, App, "package.json") ELSE {}
        bins == IF tool \in {"npm", "bun"} THEN Root ELSE App
    IN  {<<Root, "node_modules", from>> : from \in own \union apps}
        \union {<<Root, ".bin", from>> : from \in own}
        \union {<<bins, ".bin", from>> : from \in apps}

\* The stage after command c has succeeded.
After(s, p, c) ==
    LET at == Join(Root, c.cd)
        made == {row[3] : row \in {x \in Gives : x[1] = c.tool /\ x[2] = c.verb}}
        files ==
            CASE c.tool \in Managers /\ c.verb \in {"ci", "install"} -> InstalledFiles(s, c.tool)
              [] c.tool \in Managers /\ c.verb \in Scripts -> {<<at, "built", p.dir>>}
              [] c.tool = "pip" -> {<<"venv", name, p.dir>> : name \in Servers \intersect p.app}
              [] OTHER -> {<<at, name, p.dir>> : name \in made}
        tools == CASE c.tool = "corepack"    -> {"pnpm", "yarn"}
                   [] c.verb = "local.hex"   -> {"hex"}
                   [] OTHER                  -> {}
    IN  [Overlay(s, files) EXCEPT !.tools = @ \union tools]

\* A shell goes on after a failed command, in the directory it has changed to.
ShellDir(s, base, init) ==
    FoldLeft(LAMBDA at, c : IF Exists(s, Join(at, c.cd)) THEN Join(at, c.cd) ELSE at, base, init)
=============================================================================
