------------------------------ MODULE BuildPlan ------------------------------
(***************************************************************************)
(* What internal/autodetect knows about a project, and the plan it makes of   *)
(* it (buildPlan, javascript.go). A project is a set of facts about the        *)
(* repository's root and about the application's directory: files that are     *)
(* there, packages and scripts of the manifest, settings of a framework.       *)
(* Versions, ports, environment variables and libraries are left out.          *)
(***************************************************************************)
EXTENDS Integers, Sequences, FiniteSets, SequencesExt

\* The root of the repository (in an image: /app), and the application's
\* directory when it is another one.
Root == "."
App  == "app"
Dirs == {Root, App}

\* joinContainerPath of two directories; there is no directory under App.
Join(base, child) ==
    CASE base = Root  -> child
      [] child = Root -> base
      [] OTHER        -> "nowhere"

\* A command: "cd '<cd>' && <tool> <verb>"; at is where it looks for what it needs.
Command(cd, tool, verb, at) == [cd |-> cd, tool |-> tool, verb |-> verb, at |-> at]
Cmd(tool, verb) == Command(Root, tool, verb, Root)
NoCmd == Cmd("", "")
AnyCommand == [cd : STRING, tool : STRING, verb : STRING, at : STRING]

\* Commands are given as sequences, so that none is the empty one.
One(cmd) == IF cmd = NoCmd THEN <<>> ELSE <<cmd>>

\* The elements of seq that are in set, in their order (SelectSeq, as a recursive
\* function).
AppendIf(seq, x, set) == IF x \in set THEN Append(seq, x) ELSE seq

Keep(seq, set) ==
    LET kept[i \in 0..Len(seq)] ==
            IF i = 0 THEN <<>> ELSE AppendIf(kept[i - 1], seq[i], set)
    IN  kept[Len(seq)]

\* The first of seq that is a fact, "" if none is.
FirstOf(seq, facts) == Head(Keep(seq, facts) \o <<"">>)

\* The value of the first row <<fact, value>> of the table that applies.
FirstHit(table, facts) ==
    Head(Keep(table, {row \in ToSet(table) : row[1] \in facts}) \o <<<<"", "">>>>)[2]

\* The first name that is not "", if there is one.
FirstName(names) == Head(Keep(names, ToSet(names) \ {""}) \o <<"">>)

\* appendUniqueString
AppendUnique(seq, x) == IF x \in ToSet(seq) THEN seq ELSE Append(seq, x)

\* mergeUniqueCommands: what s has twice stays, of t nothing is there twice.
MergeUnique(s, t) ==
    LET merged[i \in 0..Len(t)] == IF i = 0 THEN s ELSE AppendUnique(merged[i - 1], t[i])
    IN  merged[Len(t)]

NoDeps == [base |-> {}, app |-> {}]

\* context and dir: the directories of the build context and of the application;
\* deps: what is copied before the rest; boot: commands before the install command;
\* image and final: of the builder and the last stage; apt: tools from packages of
\* the distribution; out: what nginx serves; ok: FALSE if planning ends in an error.
NoPlan ==
    [ok |-> FALSE, runtime |-> "", framework |-> "", install |-> NoCmd, setup |-> <<>>,
     build |-> NoCmd, post |-> <<>>, run |-> NoCmd, init |-> <<>>, deps |-> NoDeps,
     context |-> Root, dir |-> Root, boot |-> <<>>, image |-> "", final |-> "",
     apt |-> {}, static |-> FALSE, out |-> Root]

\* What buildConfigFromPlan stores of a plan and manualBuildPlanFromConfig reads.
\* Mutant: without the post-build commands.
ForgetPost(plan) ==
    [runtime |-> plan.runtime, framework |-> plan.framework, install |-> plan.install,
     setup |-> plan.setup, build |-> plan.build, post |-> <<>>, run |-> plan.run,
     init |-> plan.init]

ConfigOf(plan) ==
    [runtime |-> plan.runtime, framework |-> plan.framework, install |-> plan.install,
     setup |-> plan.setup, build |-> plan.build, post |-> plan.post, run |-> plan.run,
     init |-> plan.init]

\* The configuration with only these fields submitted.
Blank == ConfigOf(NoPlan)
Submit(cfg, fields) == [f \in DOMAIN Blank |-> IF f \in fields THEN cfg[f] ELSE Blank[f]]

\* defaultString, for commands
Either(cmd, default) == IF cmd # NoCmd THEN cmd ELSE default

\* The files by which detectRuntimeByFiles knows a runtime, in its order.
Known(runtime, files) == [i \in 1..Len(files) |-> <<files[i], runtime>>]

PHPProjectFiles ==
    <<"composer.json", "artisan", "index.php", "app.php", "server.php", "main.php",
      "public/index.php", "web/index.php", "bin/console">>

RuntimeTable ==
    Known("bun", <<"bun.lock">>)
    \o Known("python", <<"requirements.txt", "requirements.in", "pyproject.toml", "setup.py", "Pipfile">>)
    \o Known("elixir", <<"mix.exs">>)
    \o Known("go", <<"go.mod">>)
    \o Known("rust", <<"Cargo.toml">>)
    \o Known("php", PHPProjectFiles)
    \o Known("node", <<"package.json">>)
    \o Known("dotnet", <<"App.csproj">>)
    \o Known("java", <<"pom.xml", "build.gradle", "build.gradle.kts">>)
    \o Known("static", <<"index.html">>)

\* DetectRuntimeWithContext: the application's directory, or else the root.
DetectRuntime(p) ==
    FirstName(<<FirstHit(RuntimeTable, p.app), FirstHit(RuntimeTable, p.root)>>)

\* The build scripts of the default allowlist; every other command the detectors
\* generate is in that list or matches a trusted pattern.
AllowedScripts == {"build", "build:ssr", "generate"}
Scripts == AllowedScripts \union {"web:build"}

\* validateBuildPlanCommands: every command but the run command, for which every
\* script is allowed, and those of the boot phase, which are all trusted.
Refused(plan) ==
    \E cmd \in {plan.install, plan.build} \union ToSet(plan.setup \o plan.post \o plan.init) :
        cmd.verb \in Scripts \ AllowedScripts

Validate(plan) == IF Refused(plan) THEN NoPlan ELSE plan
=============================================================================
