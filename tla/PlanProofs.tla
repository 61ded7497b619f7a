----------------------------- MODULE PlanProofs -----------------------------
(***************************************************************************)
(* Proofs about the plans of JavaScriptPlan and ServerPlan, for every repository:*)
(* which runtimes are detected, what becomes of a configuration that is stored*)
(* and planned again, and of one that is inspected and submitted.           *)
(***************************************************************************)
EXTENDS ImageLimits, SequenceLemmas

-----------------------------------------------------------------------------
(* Names and runtimes. *)

LEMMA FirstOfTwo == \A a, b : FirstName(<<a, b>>) = IF a # "" THEN a ELSE b
<1> SUFFICES ASSUME NEW a, NEW b PROVE FirstName(<<a, b>>) = IF a # "" THEN a ELSE b
  OBVIOUS
<1> DEFINE T == {a, b, ""}
           S == ToSet(<<a, b>>) \ {""}
           k == Keep(<<a, b>>, S)
<1>1. ToSet(<<a, b>>) = {a, b}
  BY DEF ToSet
<1>2. (a \in S <=> a # "") /\ (b \in S <=> b # "") /\ a \in T /\ b \in T /\ "" \in T
  BY <1>1
<1>3. FirstName(<<a, b>>) = Head(k \o <<"">>)
  BY DEF FirstName
<1> HIDE DEF S, T
<1>4. Keep(Append(<<>>, a), S) = AppendIf(Keep(<<>>, S), a, S)
  BY <1>2, OneAndTwo, KeepAppend
<1>5. Keep(Append(<<a>>, b), S) = AppendIf(Keep(<<a>>, S), b, S)
  BY <1>2, OneAndTwo, KeepAppend
<1>6. k = AppendIf(AppendIf(<<>>, a, S), b, S)
  BY <1>2, <1>4, <1>5, OneAndTwo, KeepEmpty
<1>7. CASE a # ""
  <2>1. k = <<a, b>> \/ k = <<a>>
    BY <1>2, <1>6, <1>7, OneAndTwo DEF AppendIf
  <2>2. k \in Seq(T) /\ k # <<>> /\ k[1] = a
    BY <1>2, <2>1, OneAndTwo
  <2> HIDE DEF k
  <2>. QED  BY <1>2, <1>3, <1>7, <2>2, HeadOfConcat
<1>8. CASE a = "" /\ b # ""
  <2>1. k = <<b>>
    BY <1>2, <1>6, <1>8, OneAndTwo DEF AppendIf
  <2>2. k \in Seq(T) /\ k # <<>> /\ k[1] = b
    BY <1>2, <2>1, OneAndTwo
  <2> HIDE DEF k
  <2>. QED  BY <1>2, <1>3, <1>8, <2>2, HeadOfConcat
<1>9. CASE a = "" /\ b = ""
  <2>1. k = <<>> /\ k \in Seq(T)
    BY <1>2, <1>6, <1>9, OneAndTwo DEF AppendIf
  <2> HIDE DEF k
  <2>. QED  BY <1>2, <1>3, <1>9, <2>1, HeadOfConcat
<1>. QED  BY <1>7, <1>8, <1>9

LEMMA HitInTable ==
    ASSUME NEW table, table \in Seq(ToSet(table)), NEW facts
    PROVE  FirstHit(table, facts) \in {""} \union {row[2] : row \in ToSet(table)}
<1> DEFINE T == ToSet(table) \union {<<"", "">>}
           S == {row \in ToSet(table) : row[1] \in facts}
           k == Keep(table, S)
<1>1. k \in Seq(ToSet(table))
  BY KeepType
<1>2. k \in Seq(T)
  BY <1>1, SeqMonotonic
<1>3. FirstHit(table, facts) = Head(k \o <<<<"", "">>>>)[2]
  BY DEF FirstHit
<1>4. <<"", "">> \in T
  OBVIOUS
<1> HIDE DEF k, T, S
<1>5. Head(k \o <<<<"", "">>>>) = IF k = <<>> THEN <<"", "">> ELSE k[1]
  BY <1>2, <1>4, HeadOfConcat
<1>6. ASSUME k # <<>> PROVE k[1] \in ToSet(table)
  <2>1. 1 \in 1..Len(k)
    BY <1>1, <1>6, EmptySeq
  <2>. QED  BY <1>1, <2>1, ElementOfSeq
<1>7. CASE k = <<>>
  <2>1. <<"", "">>[2] = ""
    OBVIOUS
  <2>. QED  BY <1>3, <1>5, <1>7, <2>1
<1>8. CASE k # <<>>
  BY <1>3, <1>5, <1>6, <1>8
<1>. QED  BY <1>7, <1>8

Runtimes == {"bun", "python", "elixir", "go", "rust", "php", "node", "dotnet", "java", "static"}

LEMMA SequenceOver == ASSUME NEW T, NEW s \in Seq(T) PROVE IsSequence(s)
  BY SeqOfRange DEF IsSequence, Range, ToSet

\* DetectRuntimeWithContext reports one of the runtimes that have a planner, or none.
LEMMA RuntimeKnown == \A p : DetectRuntime(p) \in Runtimes \union {""}
<1>0. \E Files : RuntimeTable \in Seq(Files \X Runtimes)
  <2>1. PICK Files : Files =
            {"bun.lock", "requirements.txt", "requirements.in", "pyproject.toml", "setup.py", "Pipfile",
             "mix.exs", "go.mod", "Cargo.toml", "package.json", "App.csproj", "pom.xml",
             "build.gradle", "build.gradle.kts", "index.html", "composer.json", "artisan",
             "index.php", "app.php", "server.php", "main.php", "public/index.php",
             "web/index.php", "bin/console"}
    OBVIOUS
  <2>2. PICK T : T = Seq(Files \X Runtimes)
    OBVIOUS
  <2>3. \A s, t \in T : s \o t \in T
    BY <2>2
  <2>4. \A runtime \in Runtimes, files \in Seq(Files) : Known(runtime, files) \in T
    BY <2>2 DEF Known
  <2>5. /\ <<"bun.lock">> \in Seq(Files)
        /\ <<"requirements.txt", "requirements.in", "pyproject.toml", "setup.py", "Pipfile">> \in Seq(Files)
        /\ <<"mix.exs">> \in Seq(Files)
        /\ <<"go.mod">> \in Seq(Files)
        /\ <<"Cargo.toml">> \in Seq(Files)
        /\ <<"package.json">> \in Seq(Files)
        /\ <<"App.csproj">> \in Seq(Files)
        /\ <<"pom.xml", "build.gradle", "build.gradle.kts">> \in Seq(Files)
        /\ <<"index.html">> \in Seq(Files)
    BY <2>1
  <2>6. PHPProjectFiles \in Seq(Files)
    BY <2>1 DEF PHPProjectFiles
  <2>7. /\ "bun" \in Runtimes /\ "python" \in Runtimes /\ "elixir" \in Runtimes
        /\ "go" \in Runtimes /\ "rust" \in Runtimes /\ "php" \in Runtimes
        /\ "node" \in Runtimes /\ "dotnet" \in Runtimes /\ "java" \in Runtimes
        /\ "static" \in Runtimes
    BY DEF Runtimes
  <2>8. /\ Known("bun", <<"bun.lock">>) \in T
        /\ Known("python", <<"requirements.txt", "requirements.in", "pyproject.toml", "setup.py", "Pipfile">>) \in T
        /\ Known("elixir", <<"mix.exs">>) \in T
        /\ Known("go", <<"go.mod">>) \in T
        /\ Known("rust", <<"Cargo.toml">>) \in T
        /\ Known("php", PHPProjectFiles) \in T
        /\ Known("node", <<"package.json">>) \in T
        /\ Known("dotnet", <<"App.csproj">>) \in T
        /\ Known("java", <<"pom.xml", "build.gradle", "build.gradle.kts">>) \in T
        /\ Known("static", <<"index.html">>) \in T
    BY <2>4, <2>5, <2>6, <2>7
  <2>9. RuntimeTable \in T
    BY <2>3, <2>8 DEF RuntimeTable
  <2>. QED  BY <2>2, <2>9
<1>1. RuntimeTable \in Seq(ToSet(RuntimeTable))
  BY <1>0, SequenceOver DEF IsSequence
<1>2. {row[2] : row \in ToSet(RuntimeTable)} \subseteq Runtimes
  BY <1>0 DEF ToSet
<1>3. ASSUME NEW facts PROVE FirstHit(RuntimeTable, facts) \in Runtimes \union {""}
  <2>1. FirstHit(RuntimeTable, facts) \in {""} \union {row[2] : row \in ToSet(RuntimeTable)}
    BY <1>1, HitInTable
  <2>. QED  BY <1>2, <2>1
<1>4. ASSUME NEW p PROVE DetectRuntime(p) \in Runtimes \union {""}
  <2> DEFINE a == FirstHit(RuntimeTable, p.app)
             b == FirstHit(RuntimeTable, p.root)
  <2>1. a \in Runtimes \union {""} /\ b \in Runtimes \union {""}
    BY <1>3
  <2>2. DetectRuntime(p) = FirstName(<<a, b>>)
    BY DEF DetectRuntime
  <2> HIDE DEF a, b
  <2>. QED  BY <2>1, <2>2, FirstOfTwo
<1>. QED  BY <1>4

-----------------------------------------------------------------------------
(* Sequences of anything. *)

LEMMA SequencesTogether ==
    ASSUME NEW s, NEW t, NEW w, IsSequence(s), IsSequence(t), IsSequence(w)
    PROVE  \E T : s \in Seq(T) /\ t \in Seq(T) /\ w \in Seq(T)
<1> DEFINE T == ToSet(s) \union ToSet(t) \union ToSet(w)
<1>1. ToSet(s) \subseteq T /\ ToSet(t) \subseteq T /\ ToSet(w) \subseteq T
  OBVIOUS
<1> HIDE DEF T
<1>2. s \in Seq(T) /\ t \in Seq(T) /\ w \in Seq(T)
  BY <1>1, SeqMonotonic DEF IsSequence
<1>. QED  BY <1>2

LEMMA ShortSequences == IsSequence(<<>>) /\ \A a, b : IsSequence(<<a>>) /\ IsSequence(<<a, b>>)
<1>1. ASSUME NEW a, NEW b PROVE IsSequence(<<>>) /\ IsSequence(<<a>>) /\ IsSequence(<<a, b>>)
  <2> DEFINE T == {a, b}
  <2>1. a \in T /\ b \in T
    OBVIOUS
  <2> HIDE DEF T
  <2>2. <<>> \in Seq(T) /\ <<a>> \in Seq(T) /\ <<a, b>> \in Seq(T)
    BY <2>1, OneAndTwo
  <2>. QED  BY <2>2, SequenceOver
<1>. QED  BY <1>1

LEMMA SequenceConcat ==
    ASSUME NEW s, NEW t, IsSequence(s), IsSequence(t) PROVE IsSequence(s \o t)
<1>1. PICK T : s \in Seq(T) /\ t \in Seq(T)
  BY SequencesTogether
<1>. QED  BY <1>1, ConcatProperties, SequenceOver

LEMMA Merged ==
    ASSUME NEW s, NEW t, NEW w, IsSequence(s), IsSequence(t), IsSequence(w)
    PROVE  /\ IsSequence(MergeUnique(s, t))
           /\ MergeUnique(s, s) = s
           /\ MergeUnique(s, MergeUnique(s, t)) = MergeUnique(s, t)
           /\ MergeUnique(MergeUnique(s, t), t) = MergeUnique(s, t)
           /\ MergeUnique(MergeUnique(s, MergeUnique(MergeUnique(s, t), w)), w)
              = MergeUnique(MergeUnique(s, t), w)
<1>1. PICK T : s \in Seq(T) /\ t \in Seq(T) /\ w \in Seq(T)
  BY SequencesTogether
<1>2. MergeUnique(s, t) \in Seq(T) /\ ToSet(t) \subseteq ToSet(MergeUnique(s, t))
  BY <1>1, MergeType
<1>3. IsSequence(MergeUnique(s, t))
  BY <1>2, SequenceOver
<1>4. MergeUnique(s, s) = s
  BY <1>1, MergeKnown
<1>5. MergeUnique(s, MergeUnique(s, t)) = MergeUnique(s, t)
  BY <1>1, MergeAgain
<1>6. MergeUnique(MergeUnique(s, t), t) = MergeUnique(s, t)
  BY <1>1, <1>2, MergeKnown
<1>7. MergeUnique(MergeUnique(s, MergeUnique(MergeUnique(s, t), w)), w)
      = MergeUnique(MergeUnique(s, t), w)
  BY <1>1, MergeBetween
<1>. QED  BY <1>3, <1>4, <1>5, <1>6, <1>7

-----------------------------------------------------------------------------
(* The commands that the detectors generate are sequences. *)

LEMMA DetectedSequences ==
    /\ \A p, runtime, pm : /\ IsSequence(SetupCommands(p, runtime, pm))
                           /\ IsSequence(Playwright(p, runtime))
    /\ \A f : IsSequence(NodeSetup(f)) /\ IsSequence(NodeBoot(f)) /\ IsSequence(PythonSetup(f))
    /\ \A pm : IsSequence(Bootstrap(pm))
<1>1. ASSUME NEW p, NEW runtime, NEW pm PROVE IsSequence(SetupCommands(p, runtime, pm))
  BY ShortSequences, SequenceConcat DEF SetupCommands
<1>2. ASSUME NEW p, NEW runtime PROVE IsSequence(Playwright(p, runtime))
  BY ShortSequences DEF Playwright
<1>3. ASSUME NEW f PROVE IsSequence(NodeSetup(f)) /\ IsSequence(NodeBoot(f)) /\ IsSequence(PythonSetup(f))
  BY ShortSequences DEF NodeSetup, NodeBoot, PythonSetup
<1>4. ASSUME NEW pm PROVE IsSequence(Bootstrap(pm))
  BY ShortSequences DEF Bootstrap
<1>. QED  BY <1>1, <1>2, <1>3, <1>4

-----------------------------------------------------------------------------
(* Plans that agree. *)

\* The fields of a plan that its renderer reads, and ok.
LooksLike(x, y) ==
    /\ x.ok = y.ok /\ x.runtime = y.runtime /\ x.framework = y.framework
    /\ x.install = y.install /\ x.setup = y.setup /\ x.build = y.build /\ x.post = y.post
    /\ x.run = y.run /\ x.deps = y.deps /\ x.boot = y.boot
    /\ x.image = y.image /\ x.final = y.final /\ x.apt = y.apt /\ x.static = y.static

Agree(x, y) == LooksLike(x, y) /\ x.init = y.init

LEMMA SameDockerfile == ASSUME NEW x, NEW y, LooksLike(x, y) PROVE Dockerfile(x) = Dockerfile(y)
<1>1. /\ PreSetup(x) = PreSetup(y) /\ PostSetup(x) = PostSetup(y) /\ HasDeps(x) = HasDeps(y)
      /\ SimplePython(x) = SimplePython(y)
  BY DEF LooksLike, PreSetup, PostSetup, HasDeps, SimplePython
<1>2. Builder(x) = Builder(y) /\ Prune(x) = Prune(y) /\ RuntimeSharp(x) = RuntimeSharp(y)
  BY <1>1 DEF LooksLike, Builder, Prune, RuntimeSharp
<1>3. StaticDockerfile(x) = StaticDockerfile(y)
  BY <1>2 DEF LooksLike, StaticDockerfile
<1>4. PHPDockerfile(x) = PHPDockerfile(y)
  BY DEF LooksLike, PHPDockerfile
<1>5. PythonDockerfile(x) = PythonDockerfile(y)
  BY <1>1 DEF LooksLike, PythonDockerfile
<1>6. GoDockerfile(x) = GoDockerfile(y)
  BY <1>1 DEF LooksLike, GoDockerfile
<1>7. DotnetDockerfile(x) = DotnetDockerfile(y)
  BY <1>1 DEF LooksLike, DotnetDockerfile
<1>8. RustDockerfile(x) = RustDockerfile(y)
  BY DEF LooksLike, RustDockerfile
<1>9. ApplicationDockerfile(x) = ApplicationDockerfile(y)
  BY <1>2 DEF LooksLike, ApplicationDockerfile
<1>. QED  BY <1>3, <1>4, <1>5, <1>6, <1>7, <1>8, <1>9 DEF LooksLike, Dockerfile

\* The fields of a plan.
Fields == DOMAIN NoPlan

LEMMA FieldNames ==
    Fields = {"ok", "runtime", "framework", "install", "setup", "build", "post", "run", "init",
              "deps", "context", "dir", "boot", "image", "final", "apt", "static", "out"}
  BY DEF Fields, NoPlan

\* What every JavaScript plan has.
BaseLike(J, p, R, pm, F) ==
    /\ DOMAIN J = Fields
    /\ J.ok = TRUE /\ J.runtime = R /\ J.framework = F /\ J.deps = DependencyFiles(p)
    /\ J.boot = Bootstrap(pm) /\ J.image = R /\ J.final = R /\ J.apt = {}
    /\ J.static = FALSE

LEMMA BaseFields ==
    ASSUME NEW p, NEW R, NEW pm, NEW F
    PROVE  BaseLike(JavaScriptBase(p, R, pm, F), p, R, pm, F)
<1>1. PICK J : J = JavaScriptBase(p, R, pm, F)
  OBVIOUS
<1>2. BaseLike(J, p, R, pm, F)
  BY <1>1 DEF JavaScriptBase, NoPlan, Fields, BaseLike
<1>. QED  BY <1>1, <1>2
\* The submitted phases of one, with what was not submitted detected.
PhasesLike(A, p, R, cfg, pm, F) ==
    /\ A.install = Either(cfg.install, InstallCommand(p, pm))
    /\ A.setup = MergeUnique(MergeUnique(SetupCommands(p, R, pm), cfg.setup), Playwright(p, R))
    /\ A.build = Either(cfg.build, Script(p, pm, FrameworkScript(p, F, FALSE)))
    /\ A.post = cfg.post
    /\ A.run = Either(cfg.run, RunCommand(p, R, pm, F))
    /\ A.init = IF cfg.init # <<>> THEN cfg.init ELSE Migrations(p, R)

LEMMA ManualFields ==
    ASSUME NEW p, NEW R, NEW cfg, NEW pm, NEW F
    PROVE  LET A == ManualPhases(p, R, cfg, pm, F)
           IN  BaseLike(A, p, R, pm, F) /\ PhasesLike(A, p, R, cfg, pm, F)
<1>1. PICK J, A : J = JavaScriptBase(p, R, pm, F) /\ A = ManualPhases(p, R, cfg, pm, F)
  OBVIOUS
<1>2. BaseLike(J, p, R, pm, F)
  BY <1>1, BaseFields
<1>3. A = [J EXCEPT
        !.install = Either(cfg.install, InstallCommand(p, pm)),
        !.setup = MergeUnique(MergeUnique(SetupCommands(p, R, pm), cfg.setup),
                              Playwright(p, R)),
        !.build = Either(cfg.build, Script(p, pm, FrameworkScript(p, F, FALSE))),
        !.post = cfg.post, !.run = Either(cfg.run, RunCommand(p, R, pm, F)),
        !.init = IF cfg.init # <<>> THEN cfg.init ELSE Migrations(p, R)]
  BY <1>1 DEF ManualPhases
<1>4. BaseLike(A, p, R, pm, F)
  BY <1>2, <1>3 DEF BaseLike
<1>5. PhasesLike(A, p, R, cfg, pm, F)
  BY <1>2, <1>3 DEF BaseLike, NoPlan, Fields, PhasesLike
<1>. QED  BY <1>1, <1>4, <1>5

\* What MakeStatic leaves of a plan.
StaticLike(M, A) ==
    /\ DOMAIN M = DOMAIN A
    /\ M.runtime = "static" /\ M.static = TRUE /\ M.final = "nginx"
    /\ M.framework = IF A.framework = "" THEN "static-frontend" ELSE A.framework
    /\ M.run = NoCmd /\ M.init = <<>>
    /\ M.ok = A.ok /\ M.deps = A.deps /\ M.boot = A.boot /\ M.image = A.image
    /\ M.apt = A.apt /\ M.install = A.install /\ M.setup = A.setup
    /\ M.build = A.build /\ M.post = A.post

LEMMA StaticFields ==
    ASSUME NEW p, NEW A, DOMAIN A = Fields PROVE StaticLike(MakeStatic(p, A), A)
<1>1. PICK M : M = MakeStatic(p, A)
  OBVIOUS
<1>2. StaticLike(M, A)
  BY <1>1 DEF StaticLike, MakeStatic, NoPlan, Fields
<1>. QED  BY <1>1, <1>2

LEMMA Eithers == \A a, b : Either(Either(a, b), b) = Either(a, b) /\ (a # NoCmd => Either(a, b) = a)
  BY DEF Either

LEMMA PhasesAgain ==
    ASSUME NEW p, NEW R, NEW pm, NEW cfg, NEW new, NEW F, NEW G, NEW A, NEW B,
           IsSequence(cfg.setup),
           PhasesLike(A, p, R, cfg, pm, F), PhasesLike(B, p, R, new, pm, G),
           new.install = A.install, new.setup = A.setup, new.build = A.build, new.post = A.post
    PROVE  /\ B.install = A.install /\ B.setup = A.setup /\ B.post = A.post
           /\ A.build # NoCmd \/ F = G => B.build = A.build
           /\ A.run # NoCmd /\ new.run = A.run => B.run = A.run
           /\ new.init = A.init => B.init = A.init
<1>1. B.install = A.install
  BY Eithers DEF PhasesLike
<1>2. B.setup = A.setup
  <2>1. IsSequence(SetupCommands(p, R, pm)) /\ IsSequence(Playwright(p, R))
    BY DetectedSequences
  <2>. QED  BY <2>1, Merged DEF PhasesLike
<1>3. A.build # NoCmd => B.build = A.build
  BY Eithers DEF PhasesLike
<1>4. F = G => B.build = A.build
  <2>1. PICK x, y : x = Script(p, pm, FrameworkScript(p, F, FALSE))
                    /\ y = Script(p, pm, FrameworkScript(p, G, FALSE))
    OBVIOUS
  <2>2. F = G => x = y
    BY <2>1
  <2>3. A.build = Either(cfg.build, x) /\ B.build = Either(A.build, y)
    BY <2>1 DEF PhasesLike
  <2>. QED  BY <2>2, <2>3, Eithers
<1>5. A.run # NoCmd /\ new.run = A.run => B.run = A.run
  BY Eithers DEF PhasesLike
<1>6. new.init = A.init => B.init = A.init
  BY DEF PhasesLike
<1>7. B.post = A.post
  BY DEF PhasesLike
<1>. QED  BY <1>1, <1>2, <1>3, <1>4, <1>5, <1>6, <1>7

LEMMA StaticAgrees ==
    ASSUME NEW p, NEW R, NEW pm, NEW F, NEW G, G = IF F = "" THEN "static-frontend" ELSE F,
           NEW A, NEW B, BaseLike(A, p, R, pm, F), BaseLike(B, p, R, pm, G),
           B.install = A.install, B.setup = A.setup, B.build = A.build, B.post = A.post
    PROVE  Agree(MakeStatic(p, B), MakeStatic(p, A))
<1>1. PICK M, N : M = MakeStatic(p, A) /\ N = MakeStatic(p, B)
  OBVIOUS
<1>2. StaticLike(M, A) /\ StaticLike(N, B)
  BY <1>1, StaticFields DEF BaseLike
<1>3. /\ N.runtime = M.runtime /\ N.static = M.static /\ N.final = M.final
      /\ N.run = M.run /\ N.init = M.init
  BY <1>2 DEF StaticLike
<1>4. N.framework = M.framework
  <2>1. A.framework = F /\ B.framework = G
    BY DEF BaseLike
  <2>. QED  BY <1>2, <2>1 DEF StaticLike
<1>5. /\ N.ok = M.ok /\ N.deps = M.deps /\ N.boot = M.boot /\ N.image = M.image
      /\ N.apt = M.apt
  <2>1. A.ok = B.ok
    BY DEF BaseLike
  <2>2. B.deps = A.deps /\ B.boot = A.boot /\ B.image = A.image /\ B.apt = A.apt
    BY DEF BaseLike
  <2>. QED  BY <1>2, <2>1, <2>2 DEF StaticLike
<1>6. N.install = M.install /\ N.setup = M.setup /\ N.build = M.build /\ N.post = M.post
  BY <1>2 DEF StaticLike
<1>. QED  BY <1>1, <1>3, <1>4, <1>5, <1>6 DEF Agree, LooksLike

LEMMA PlansAgree ==
    ASSUME NEW p, NEW R, NEW pm, NEW F,
           NEW A, NEW B, BaseLike(A, p, R, pm, F), BaseLike(B, p, R, pm, F),
           B.install = A.install, B.setup = A.setup, B.build = A.build, B.post = A.post,
           B.run = A.run, B.init = A.init
    PROVE  Agree(B, A)
  BY DEF BaseLike, Agree, LooksLike

\* What manualJavaScriptBuildPlan makes of the configuration it has stored.
LEMMA ReplanJavaScript ==
    ASSUME NEW p, NEW R, IsJavaScript(R), NEW cfg, IsSequence(cfg.setup),
           NEW made, made = ManualJavaScript(p, R, cfg), made.ok
    PROVE  /\ Agree(ManualJavaScript(p, R, ConfigOf(made)), made)
           /\ made.runtime \in {R, "static"}
<1>1. PICK pm, F, G, A, B, new, X, Y, static, again :
         /\ X = FrameworkScript(p, F, FALSE) /\ Y = FrameworkScript(p, G, FALSE)
         /\ pm = PackageManager(p, R) /\ F = FirstName(<<cfg.framework, Framework(p)>>)
         /\ new = ConfigOf(made) /\ G = FirstName(<<new.framework, Framework(p)>>)
         /\ A = ManualPhases(p, R, cfg, pm, F) /\ B = ManualPhases(p, R, new, pm, G)
         /\ static = (cfg.runtime = "static" \/ ShouldBeStatic(p, F, X))
         /\ again = (new.runtime = "static" \/ ShouldBeStatic(p, G, Y))
  OBVIOUS
<1>2. made = SettleManual(p, A, static)
  BY <1>1 DEF ManualJavaScript
<1>3. ManualJavaScript(p, R, new) = SettleManual(p, B, again)
  BY <1>1 DEF ManualJavaScript
<1>4. ~NoPlan.ok /\ R # "static"
  BY DEF NoPlan, IsJavaScript
<1>5. /\ new.runtime = made.runtime /\ new.framework = made.framework
      /\ new.install = made.install /\ new.setup = made.setup /\ new.build = made.build
      /\ new.post = made.post /\ new.run = made.run /\ new.init = made.init
  BY <1>1 DEF ConfigOf
<1>6. /\ BaseLike(A, p, R, pm, F) /\ PhasesLike(A, p, R, cfg, pm, F)
      /\ BaseLike(B, p, R, pm, G) /\ PhasesLike(B, p, R, new, pm, G)
  BY <1>1, ManualFields
<1>7. A.runtime = R /\ A.framework = F
  BY <1>6 DEF BaseLike
<1>8. static \in BOOLEAN /\ again \in BOOLEAN
  BY <1>1
<1>9. /\ F # "" => FirstName(<<F, Framework(p)>>) = F
      /\ F = "" => Framework(p) = "" /\ FirstName(<<F, Framework(p)>>) = F
      /\ FirstName(<<"static-frontend", Framework(p)>>) = "static-frontend"
  BY <1>1, FirstOfTwo
<1>10. CASE static
  <2>1. A.build # NoCmd /\ made = MakeStatic(p, A)
    BY <1>2, <1>4, <1>10 DEF SettleManual
  <2>2. StaticLike(made, A)
    BY <1>6, <2>1, StaticFields DEF BaseLike
  <2>3. /\ made.runtime = "static" /\ made.framework = IF F = "" THEN "static-frontend" ELSE F
        /\ made.install = A.install /\ made.setup = A.setup /\ made.build = A.build
        /\ made.post = A.post
    BY <1>7, <2>2 DEF StaticLike
  <2>4. G = IF F = "" THEN "static-frontend" ELSE F
    BY <1>1, <1>5, <1>9, <2>3
  <2>5. B.install = A.install /\ B.setup = A.setup /\ B.build = A.build /\ B.post = A.post
    <3>1. /\ new.install = A.install /\ new.setup = A.setup /\ new.build = A.build
          /\ new.post = A.post
      BY <1>5, <2>3
    <3>. QED  BY <1>6, <2>1, <3>1, PhasesAgain
  <2>6. Agree(MakeStatic(p, B), MakeStatic(p, A))
    BY <1>6, <2>4, <2>5, StaticAgrees
  <2>7. new.runtime = "static"
    BY <1>5, <2>3
  <2>8. again
    BY <1>1, <2>7
  <2>9. ManualJavaScript(p, R, new) = MakeStatic(p, B)
    BY <1>3, <2>1, <2>5, <2>8 DEF SettleManual
  <2>. QED  BY <1>1, <2>1, <2>3, <2>6, <2>9
<1>11. CASE ~static
  <2>1. A.run # NoCmd /\ made = A
    BY <1>2, <1>4, <1>11 DEF SettleManual
  <2>2. G = F
    <3>1. new.framework = F
      BY <1>5, <1>7, <2>1
    <3>2. G = FirstName(<<F, Framework(p)>>)
      BY <1>1, <3>1
    <3>. QED  BY <1>9, <3>2
  <2>3. /\ B.install = A.install /\ B.setup = A.setup /\ B.build = A.build
        /\ B.post = A.post /\ B.run = A.run /\ B.init = A.init
    <3>1. /\ new.install = A.install /\ new.setup = A.setup /\ new.build = A.build
          /\ new.post = A.post /\ new.run = A.run /\ new.init = A.init
      BY <1>5, <2>1
    <3>. QED  BY <1>6, <2>1, <2>2, <3>1, PhasesAgain
  <2>4. Agree(B, A)
    BY <1>6, <2>2, <2>3, PlansAgree
  <2>5. X = Y /\ new.runtime # "static"
    BY <1>1, <1>4, <1>5, <1>7, <2>1, <2>2
  <2>6. ~again
    BY <1>1, <1>11, <2>2, <2>5
  <2>7. ManualJavaScript(p, R, new) = B
    BY <1>3, <2>1, <2>3, <2>6 DEF SettleManual
  <2>. QED  BY <1>1, <1>7, <2>1, <2>4, <2>7
<1>. QED  BY <1>8, <1>10, <1>11

-----------------------------------------------------------------------------
(* Static sites. *)

LEMMA ReplanStatic ==
    ASSUME NEW p, NEW cfg, NEW made, made = ManualStatic(p, cfg), made.ok
    PROVE  Agree(ManualStatic(p, ConfigOf(made)), made) /\ made.runtime = "static"
<1>1. PICK S : S = StaticPlan(p)
  OBVIOUS
<1>2. /\ DOMAIN S = Fields /\ S.runtime = "static" /\ S.install = NoCmd /\ S.build = NoCmd
      /\ S.setup = <<>> /\ S.post = <<>>
  BY <1>1 DEF StaticPlan, NoPlan, Fields
<1>3. made = [S EXCEPT !.framework = cfg.framework, !.run = cfg.run, !.init = cfg.init]
  BY <1>1 DEF ManualStatic, NoPlan
<1>4. PICK new, B : new = ConfigOf(made) /\ B = ManualStatic(p, new)
  OBVIOUS
<1>5. /\ new.install = NoCmd /\ new.build = NoCmd /\ new.setup = <<>> /\ new.post = <<>>
      /\ new.framework = cfg.framework /\ new.run = cfg.run /\ new.init = cfg.init
      /\ made.runtime = "static"
  <2>1. /\ made.install = NoCmd /\ made.build = NoCmd /\ made.setup = <<>> /\ made.post = <<>>
        /\ made.framework = cfg.framework /\ made.run = cfg.run /\ made.init = cfg.init
        /\ made.runtime = "static"
    BY <1>2, <1>3, FieldNames
  <2>. QED  BY <1>4, <2>1 DEF ConfigOf
<1>6. {new.install, new.build} = {NoCmd} /\ new.setup \o new.post = <<>>
  BY <1>5
<1>7. B = [S EXCEPT !.framework = new.framework, !.run = new.run, !.init = new.init]
  BY <1>1, <1>4, <1>6 DEF ManualStatic
<1>8. B = made
  BY <1>3, <1>5, <1>7
<1>. QED  BY <1>4, <1>5, <1>8 DEF Agree, LooksLike

-----------------------------------------------------------------------------
(* Servers. *)

\* The submitted phases, with what was not submitted detected.
ServerLike(P, R, cfg, found) ==
    /\ DOMAIN P = Fields
    /\ P.ok = TRUE /\ P.runtime = R /\ P.framework = cfg.framework /\ P.deps = NoDeps
    /\ P.boot = <<>> /\ P.apt = {} /\ P.static = FALSE
    /\ P.image = BuilderImage(R, NoPhases) /\ P.final = FinalImage(R, NoPhases)
    /\ P.install = Either(cfg.install, found.install)
    /\ P.build = Either(cfg.build, found.build) /\ P.run = Either(cfg.run, found.run)
    /\ P.setup = cfg.setup /\ P.post = cfg.post /\ P.init = cfg.init

DefaultLike(D, R, phases, images) ==
    /\ DOMAIN D = Fields
    /\ D.ok = TRUE /\ D.runtime = R /\ D.framework = "" /\ D.deps = NoDeps
    /\ D.boot = <<>> /\ D.apt = {} /\ D.static = FALSE
    /\ D.image = BuilderImage(R, images) /\ D.final = FinalImage(R, images)
    /\ D.install = phases.install /\ D.build = phases.build /\ D.run = phases.run
    /\ D.setup = <<>> /\ D.post = <<>> /\ D.init = <<>>

LEMMA DefaultFields ==
    ASSUME NEW p, NEW R, NEW phases, NEW images
    PROVE  DefaultLike(DefaultPlan(p, R, phases, images), R, phases, images)
<1>1. PICK D : D = DefaultPlan(p, R, phases, images)
  OBVIOUS
<1>2. DefaultLike(D, R, phases, images)
  BY <1>1 DEF DefaultPlan, NoPlan, Fields, DefaultLike
<1>. QED  BY <1>1, <1>2

LEMMA SubmittedFields ==
    ASSUME NEW p, NEW R, NEW cfg, NEW found
    PROVE  ServerLike(WithSubmitted(DefaultPlan(p, R, found, NoPhases), cfg, found), R, cfg, found)
<1>1. PICK D, P : /\ D = DefaultPlan(p, R, found, NoPhases)
                  /\ P = WithSubmitted(D, cfg, found)
  OBVIOUS
<1>2. DefaultLike(D, R, found, NoPhases)
  BY <1>1, DefaultFields
<1>3. ServerLike(P, R, cfg, found)
  BY <1>1, <1>2, FieldNames DEF WithSubmitted, ServerLike, DefaultLike
<1>. QED  BY <1>1, <1>3

\* The runtimes that neither kind of static plan concerns.
ServerRuntime(R) == R \in Runtimes \ {"node", "bun", "static"}

LEMMA ReplanPlain ==
    ASSUME NEW R, R \notin {"python", "php"}, NEW cfg, NEW found, NEW P, NEW Q, NEW f,
           ServerLike(P, R, cfg, found), ServerLike(Q, R, ConfigOf(P), found)
    PROVE  /\ ManualMore(f, P, cfg) = P /\ ManualMore(f, Q, ConfigOf(P)) = Q
           /\ Agree(Q, P)
<1>1. PICK new : new = ConfigOf(P)
  OBVIOUS
<1>2. /\ new.framework = P.framework /\ new.install = P.install /\ new.build = P.build
      /\ new.run = P.run /\ new.setup = P.setup /\ new.post = P.post /\ new.init = P.init
  BY <1>1 DEF ConfigOf
<1>3. ServerLike(Q, R, new, found)
  BY <1>1
<1>4. Q.install = P.install /\ Q.build = P.build /\ Q.run = P.run
  BY <1>2, <1>3, Eithers DEF ServerLike
<1>5. /\ Q.framework = P.framework /\ Q.setup = P.setup /\ Q.post = P.post /\ Q.init = P.init
      /\ Q.ok = P.ok /\ Q.runtime = P.runtime /\ Q.deps = P.deps /\ Q.boot = P.boot
  BY <1>2, <1>3 DEF ServerLike
<1>6. Q.apt = P.apt /\ Q.static = P.static /\ Q.image = P.image /\ Q.final = P.final
  BY <1>3 DEF ServerLike
<1>7. P.runtime = R /\ Q.runtime = R
  BY <1>3 DEF ServerLike
<1>8. ManualMore(f, P, cfg) = P /\ ManualMore(f, Q, new) = Q
  BY <1>7 DEF ManualMore
<1>. QED  BY <1>1, <1>4, <1>5, <1>6, <1>8 DEF Agree, LooksLike

\* manualBuildPlanFromConfig's part for Python.
PythonLike(M, f, R, cfg, found) ==
    /\ M.framework = FirstName(<<cfg.framework, PythonFramework(f)>>)
    /\ M.apt = PythonApt(f)
    /\ M.setup = MergeUnique(PythonSetup(f), cfg.setup)
    /\ M.init = IF cfg.init = <<>> THEN DjangoInit(M.framework) ELSE cfg.init
    /\ M.ok = TRUE /\ M.runtime = R /\ M.deps = NoDeps /\ M.boot = <<>> /\ M.static = FALSE
    /\ M.image = BuilderImage(R, NoPhases) /\ M.final = FinalImage(R, NoPhases)
    /\ M.install = Either(cfg.install, found.install)
    /\ M.build = Either(cfg.build, found.build) /\ M.run = Either(cfg.run, found.run)
    /\ M.post = cfg.post

LEMMA PythonFields ==
    ASSUME NEW f, NEW cfg, NEW found, NEW P, ServerLike(P, "python", cfg, found)
    PROVE  PythonLike(ManualMore(f, P, cfg), f, "python", cfg, found)
<1>1. PICK M, F : /\ M = ManualMore(f, P, cfg)
                  /\ F = FirstName(<<cfg.framework, PythonFramework(f)>>)
  OBVIOUS
<1>2. P.runtime = "python"
  BY DEF ServerLike
<1>3. M = ManualPython(f, P, F)
  BY <1>1, <1>2 DEF ManualMore
<1>4. /\ M.framework = F /\ M.apt = PythonApt(f)
      /\ M.setup = MergeUnique(PythonSetup(f), P.setup)
      /\ M.init = IF P.init = <<>> THEN DjangoInit(F) ELSE P.init
      /\ M.ok = P.ok /\ M.runtime = P.runtime /\ M.deps = P.deps /\ M.boot = P.boot
      /\ M.static = P.static /\ M.image = P.image /\ M.final = P.final
      /\ M.install = P.install /\ M.build = P.build /\ M.run = P.run /\ M.post = P.post
  BY <1>3, FieldNames DEF ManualPython, ServerLike
<1>5. PythonLike(M, f, "python", cfg, found)
  <2>1. /\ M.framework = FirstName(<<cfg.framework, PythonFramework(f)>>)
        /\ M.apt = PythonApt(f)
    BY <1>1, <1>4
  <2>2. /\ M.setup = MergeUnique(PythonSetup(f), cfg.setup)
        /\ M.init = IF cfg.init = <<>> THEN DjangoInit(M.framework) ELSE cfg.init
    BY <1>4 DEF ServerLike
  <2>3. /\ M.ok = TRUE /\ M.runtime = "python" /\ M.deps = NoDeps /\ M.boot = <<>>
        /\ M.static = FALSE
    BY <1>4 DEF ServerLike
  <2>4. /\ M.image = BuilderImage("python", NoPhases) /\ M.final = FinalImage("python", NoPhases)
        /\ M.install = Either(cfg.install, found.install)
        /\ M.build = Either(cfg.build, found.build) /\ M.run = Either(cfg.run, found.run)
        /\ M.post = cfg.post
    BY <1>4 DEF ServerLike
  <2>. QED  BY <2>1, <2>2, <2>3, <2>4 DEF PythonLike
<1>. QED  BY <1>1, <1>5

LEMMA ReplanPython ==
    ASSUME NEW f, NEW cfg, NEW found, NEW M, NEW N, IsSequence(cfg.setup),
           PythonLike(M, f, "python", cfg, found), PythonLike(N, f, "python", ConfigOf(M), found)
    PROVE  Agree(N, M)
<1>1. PICK new : new = ConfigOf(M)
  OBVIOUS
<1>2. /\ new.framework = M.framework /\ new.install = M.install /\ new.build = M.build
      /\ new.run = M.run /\ new.setup = M.setup /\ new.post = M.post /\ new.init = M.init
  BY <1>1 DEF ConfigOf
<1>3. PythonLike(N, f, "python", new, found)
  BY <1>1
<1>4. N.install = M.install /\ N.build = M.build /\ N.run = M.run
  BY <1>2, <1>3, Eithers DEF PythonLike
<1>5. N.framework = M.framework
  <2>1. /\ M.framework = FirstName(<<cfg.framework, PythonFramework(f)>>)
        /\ N.framework = FirstName(<<M.framework, PythonFramework(f)>>)
    BY <1>2, <1>3 DEF PythonLike
  <2>. QED  BY <2>1, FirstOfTwo
<1>6. N.setup = M.setup
  <2>1. IsSequence(PythonSetup(f))
    BY DetectedSequences
  <2>2. MergeUnique(PythonSetup(f), MergeUnique(PythonSetup(f), cfg.setup))
        = MergeUnique(PythonSetup(f), cfg.setup)
    BY <2>1, Merged
  <2>. QED  BY <1>2, <1>3, <2>2 DEF PythonLike
<1>7. N.init = M.init
  <2>1. /\ M.init = IF cfg.init = <<>> THEN DjangoInit(M.framework) ELSE cfg.init
        /\ N.init = IF M.init = <<>> THEN DjangoInit(M.framework) ELSE M.init
    BY <1>2, <1>3, <1>5 DEF PythonLike
  <2>. QED  BY <2>1
<1>8. /\ N.post = M.post /\ N.ok = M.ok /\ N.runtime = M.runtime /\ N.deps = M.deps
      /\ N.boot = M.boot
  BY <1>2, <1>3 DEF PythonLike
<1>9. N.apt = M.apt /\ N.static = M.static /\ N.image = M.image /\ N.final = M.final
  BY <1>3 DEF PythonLike
<1>. QED  BY <1>4, <1>5, <1>6, <1>7, <1>8, <1>9 DEF Agree, LooksLike

-----------------------------------------------------------------------------
(* PHP. *)

LEMMA FlavorStays ==
    ASSUME NEW f, NEW run
    PROVE  PHPFlavor(f, FlavorRun(PHPFlavor(f, run), run)) = PHPFlavor(f, run)
<1>1. Cmd("apache2", "").tool = "apache2" /\ Cmd("php-fpm", "").tool = "php-fpm"
  BY DEF Cmd, Command
<1>2. CASE ~PHPWeb(f)
  BY <1>2 DEF PHPFlavor
<1>3. CASE PHPWeb(f) /\ run.tool = "php-fpm"
  BY <1>3 DEF PHPFlavor, FlavorRun
<1>4. CASE PHPWeb(f) /\ run.tool # "php-fpm" /\ ".htaccess" \notin f /\ "nginx.conf" \in f
  BY <1>1, <1>4 DEF PHPFlavor, FlavorRun
<1>5. CASE PHPWeb(f) /\ run.tool # "php-fpm" /\ ~(".htaccess" \notin f /\ "nginx.conf" \in f)
  BY <1>5 DEF PHPFlavor, FlavorRun
<1>. QED  BY <1>2, <1>3, <1>4, <1>5

LEMMA FlavorIsRun == ASSUME NEW flavor, NEW run, run # NoCmd PROVE FlavorRun(flavor, run) # NoCmd
<1>1. Cmd("apache2", "") # NoCmd /\ Cmd("php-fpm", "") # NoCmd
  BY DEF NoCmd, Cmd, Command
<1>. QED  BY <1>1 DEF FlavorRun

\* A run command that goes with the flavor already.
LEMMA FlavorAgain ==
    ASSUME NEW flavor, NEW run
    PROVE  FlavorRun(flavor, FlavorRun(flavor, run)) = FlavorRun(flavor, run)
<1>1. Cmd("apache2", "").tool = "apache2" /\ Cmd("php-fpm", "").tool = "php-fpm"
  BY DEF Cmd, Command
<1>. QED  BY <1>1 DEF FlavorRun

\* PHPWith, without the init commands.
PHPLike(W, f, P) ==
    LET flavor == PHPFlavor(f, P.run) IN
    /\ W.framework = IF P.framework = "" THEN PHPFramework(f) ELSE P.framework
    /\ W.run = FlavorRun(flavor, P.run) /\ W.image = flavor /\ W.final = flavor
    /\ W.apt = IF flavor # "cli" /\ HasAssets(f) THEN {"node", "npm"} ELSE {}
    /\ W.boot = (IF flavor # "cli" THEN NodeBoot(f) ELSE <<>>) \o <<Cmd("sh", "php.ini")>>
    /\ W.setup = IF flavor # "cli" THEN MergeUnique(P.setup, NodeSetup(f)) ELSE P.setup
    /\ W.ok = P.ok /\ W.runtime = P.runtime /\ W.install = P.install /\ W.build = P.build
    /\ W.post = P.post /\ W.deps = P.deps /\ W.static = P.static

LEMMA PHPFields ==
    ASSUME NEW f, NEW P, DOMAIN P = Fields
    PROVE  /\ PHPLike(PHPWith(f, P, PHPFlavor(f, P.run)), f, P)
           /\ DOMAIN PHPWith(f, P, PHPFlavor(f, P.run)) = Fields
<1>1. PICK flavor, W, laravel :
         /\ flavor = PHPFlavor(f, P.run) /\ W = PHPWith(f, P, flavor)
         /\ laravel = IF flavor # "cli" /\ "artisan" \in f THEN <<LaravelInit>> ELSE <<>>
  OBVIOUS
<1>2. PICK F, run, apt, boot, setup, init :
         /\ F = IF P.framework = "" THEN PHPFramework(f) ELSE P.framework
         /\ run = FlavorRun(flavor, P.run)
         /\ apt = IF flavor # "cli" /\ HasAssets(f) THEN {"node", "npm"} ELSE {}
         /\ boot = (IF flavor # "cli" THEN NodeBoot(f) ELSE <<>>) \o <<Cmd("sh", "php.ini")>>
         /\ setup = IF flavor # "cli" THEN MergeUnique(P.setup, NodeSetup(f)) ELSE P.setup
         /\ init = IF flavor # "cli" THEN laravel \o P.init \o <<PortInit>> ELSE P.init
  OBVIOUS
<1>3. W = [P EXCEPT !.framework = F, !.run = run, !.image = flavor, !.final = flavor,
                    !.apt = apt, !.boot = boot, !.setup = setup, !.init = init]
  BY <1>1, <1>2 DEF PHPWith
<1>4. /\ W.framework = F /\ W.run = run /\ W.image = flavor /\ W.final = flavor
      /\ W.apt = apt /\ W.boot = boot /\ W.setup = setup
      /\ W.ok = P.ok /\ W.runtime = P.runtime /\ W.install = P.install /\ W.build = P.build
      /\ W.post = P.post /\ W.deps = P.deps /\ W.static = P.static /\ DOMAIN W = Fields
  BY <1>3, FieldNames
<1>. QED  BY <1>1, <1>2, <1>4 DEF PHPLike

\* Doing it again to a plan that has its framework, run and setup commands.
LEMMA PHPAgain ==
    ASSUME NEW f, NEW P, NEW Q, NEW W, NEW V, PHPLike(W, f, P), PHPLike(V, f, Q),
           IsSequence(P.setup), Q.framework = W.framework, Q.run = W.run, Q.setup = W.setup,
           Q.ok = P.ok, Q.runtime = P.runtime, Q.install = P.install, Q.build = P.build,
           Q.post = P.post, Q.deps = P.deps, Q.static = P.static
    PROVE  LooksLike(V, W)
<1>1. PICK flavor : flavor = PHPFlavor(f, P.run)
  OBVIOUS
<1>2. W.run = FlavorRun(flavor, P.run)
  BY <1>1 DEF PHPLike
<1>3. PHPFlavor(f, Q.run) = flavor
  BY <1>1, <1>2, FlavorStays
<1>4. V.run = W.run
  <2>1. V.run = FlavorRun(flavor, W.run)
    BY <1>3 DEF PHPLike
  <2>. QED  BY <1>2, <2>1, FlavorAgain
<1>5. V.framework = W.framework
  <2>1. PHPFramework(f) # ""
    <3>1. PICK k, w : k = PHPKind(f) /\ w = IF PHPWeb(f) THEN "php-web" ELSE "php"
      OBVIOUS
    <3>2. PHPFramework(f) = FirstName(<<k, w>>)
      BY <3>1 DEF PHPFramework
    <3>3. FirstName(<<k, w>>) = IF k # "" THEN k ELSE w
      BY FirstOfTwo
    <3>. QED  BY <3>1, <3>2, <3>3
  <2>. QED  BY <2>1 DEF PHPLike
<1>6. V.setup = W.setup
  <2>1. MergeUnique(MergeUnique(P.setup, NodeSetup(f)), NodeSetup(f))
        = MergeUnique(P.setup, NodeSetup(f))
    BY DetectedSequences, Merged
  <2>2. /\ V.setup = IF flavor # "cli" THEN MergeUnique(Q.setup, NodeSetup(f)) ELSE Q.setup
        /\ W.setup = IF flavor # "cli" THEN MergeUnique(P.setup, NodeSetup(f)) ELSE P.setup
    BY <1>1, <1>3 DEF PHPLike
  <2>. QED  BY <2>1, <2>2
<1>7. /\ V.image = W.image /\ V.final = W.final /\ V.apt = W.apt /\ V.boot = W.boot
  BY <1>1, <1>3 DEF PHPLike
<1>8. /\ V.ok = W.ok /\ V.runtime = W.runtime /\ V.deps = W.deps /\ V.static = W.static
      /\ V.install = W.install /\ V.build = W.build /\ V.post = W.post
  BY DEF PHPLike
<1>. QED  BY <1>4, <1>5, <1>6, <1>7, <1>8 DEF LooksLike

LEMMA ReplanPHP ==
    ASSUME NEW f, NEW cfg, NEW found, IsSequence(cfg.setup), NEW P, NEW M, NEW N, NEW Q,
           ServerLike(P, "php", cfg, found), M = ManualMore(f, P, cfg), M.ok,
           ServerLike(Q, "php", ConfigOf(M), found), N = ManualMore(f, Q, ConfigOf(M))
    PROVE  LooksLike(N, M) /\ M.runtime = "php" /\ N.ok
<1>1. PICK new, flavor, W, V :
         /\ new = ConfigOf(M) /\ flavor = PHPFlavor(f, P.run)
         /\ W = PHPWith(f, P, flavor) /\ V = PHPWith(f, Q, PHPFlavor(f, Q.run))
  OBVIOUS
<1>2. /\ new.framework = M.framework /\ new.install = M.install /\ new.build = M.build
      /\ new.run = M.run /\ new.setup = M.setup /\ new.post = M.post /\ new.init = M.init
  BY <1>1 DEF ConfigOf
<1>3. P.runtime = "php" /\ Q.runtime = "php" /\ DOMAIN P = Fields /\ DOMAIN Q = Fields
  BY DEF ServerLike
<1>4. M = ManualPHP(f, PHPDefaults(f, P), cfg) /\ N = ManualPHP(f, PHPDefaults(f, Q), new)
  BY <1>1, <1>3 DEF ManualMore
<1>5. P.run # NoCmd /\ PHPDefaults(f, P) = W
  <2>1. ~NoPlan.ok
    BY DEF NoPlan
  <2>2. ASSUME P.run = NoCmd PROVE FALSE
    BY <1>4, <2>1, <2>2 DEF PHPDefaults, ManualPHP
  <2>. QED  BY <1>1, <2>2 DEF PHPDefaults
<1>6. PHPLike(W, f, P) /\ PHPLike(V, f, Q) /\ DOMAIN W = Fields /\ DOMAIN V = Fields
  BY <1>1, <1>3, PHPFields
<1>7. LooksLike(M, W)
  BY <1>4, <1>5, <1>6, FieldNames DEF ManualPHP, LooksLike
<1>8. W.run # NoCmd /\ W.run = FlavorRun(flavor, P.run)
  BY <1>1, <1>5, <1>6, FlavorIsRun DEF PHPLike
<1>9. Q.run = W.run
  BY <1>1, <1>2, <1>7, <1>8, Eithers DEF ServerLike, LooksLike
<1>11. PHPDefaults(f, Q) = V
  BY <1>1, <1>8, <1>9 DEF PHPDefaults
<1>12. LooksLike(N, V)
  BY <1>4, <1>6, <1>11, FieldNames DEF ManualPHP, LooksLike
<1>14. /\ Q.framework = W.framework /\ Q.setup = W.setup /\ P.setup = cfg.setup
       /\ Q.post = P.post
  <2>1. M.framework = W.framework /\ M.setup = W.setup /\ M.post = P.post
    BY <1>6, <1>7 DEF LooksLike, PHPLike
  <2>. QED  BY <1>1, <1>2, <2>1 DEF ServerLike
<1>15. Q.install = P.install /\ Q.build = P.build
  <2>1. M.install = P.install /\ M.build = P.build
    BY <1>6, <1>7 DEF LooksLike, PHPLike
  <2>. QED  BY <1>1, <1>2, <2>1, Eithers DEF ServerLike
<1>16. P.ok = Q.ok /\ P.runtime = Q.runtime /\ P.deps = Q.deps /\ P.static = Q.static
  BY DEF ServerLike
<1>17. LooksLike(V, W)
  BY <1>6, <1>9, <1>14, <1>15, <1>16, PHPAgain
<1>19. V.ok /\ W.runtime = "php"
  <2>1. V.ok = TRUE
    BY <1>6 DEF PHPLike, ServerLike
  <2>2. W.runtime = "php"
    BY <1>3, <1>6 DEF PHPLike
  <2>. QED  BY <2>1, <2>2
<1>. QED  BY <1>7, <1>12, <1>17, <1>19 DEF LooksLike

LEMMA ManualJavaScriptRenders ==
    ASSUME NEW p, NEW R, IsJavaScript(R), NEW cfg, IsSequence(cfg.setup), IsSequence(cfg.post),
           NEW made, made = ManualJavaScript(p, R, cfg), made.ok
    PROVE  Renderable(made)
<1>1. PICK pm, F, A, static :
         /\ pm = PackageManager(p, R) /\ F = FirstName(<<cfg.framework, Framework(p)>>)
         /\ A = ManualPhases(p, R, cfg, pm, F)
         /\ static = (cfg.runtime = "static"
                        \/ ShouldBeStatic(p, F, FrameworkScript(p, F, FALSE)))
  OBVIOUS
<1>2. made = SettleManual(p, A, static) /\ static \in BOOLEAN
  BY <1>1 DEF ManualJavaScript
<1>3. BaseLike(A, p, R, pm, F) /\ PhasesLike(A, p, R, cfg, pm, F)
  BY <1>1, ManualFields
<1>4. made = A \/ made = MakeStatic(p, A)
  <2>1. ~NoPlan.ok
    BY DEF NoPlan
  <2>. QED  BY <1>2, <2>1 DEF SettleManual
<1>5. IsSequence(A.boot) /\ IsSequence(A.setup) /\ IsSequence(A.post)
  <2>1. IsSequence(A.boot)
    BY <1>3, DetectedSequences DEF BaseLike
  <2>2. IsSequence(A.post)
    BY <1>3 DEF PhasesLike
  <2>3. PICK S, P : /\ S = SetupCommands(p, R, pm) /\ P = Playwright(p, R)
                    /\ IsSequence(S) /\ IsSequence(P)
    BY DetectedSequences
  <2>4. IsSequence(MergeUnique(S, cfg.setup))
    BY <2>3, Merged
  <2>5. IsSequence(MergeUnique(MergeUnique(S, cfg.setup), P))
    BY <2>3, <2>4, Merged
  <2>. QED  BY <1>3, <2>1, <2>2, <2>3, <2>5 DEF PhasesLike
<1>6. A.image # "" /\ A.runtime # "go" /\ ~A.static /\ A.image = R
  BY <1>3 DEF BaseLike, IsJavaScript
<1>7. CASE made = A
  BY <1>5, <1>6, <1>7 DEF Renderable
<1>8. CASE made = MakeStatic(p, A)
  <2>1. StaticLike(made, A)
    BY <1>3, <1>8, StaticFields DEF BaseLike
  <2>. QED  BY <1>5, <1>6, <2>1 DEF Renderable, StaticLike
<1>. QED  BY <1>4, <1>7, <1>8

LEMMA ManualStaticRenders ==
    ASSUME NEW p, NEW cfg, NEW made, made = ManualStatic(p, cfg), made.ok
    PROVE  Renderable(made)
<1>1. PICK S : S = StaticPlan(p)
  OBVIOUS
<1>2. /\ DOMAIN S = Fields /\ S.runtime = "static" /\ S.install = NoCmd /\ S.build = NoCmd
      /\ S.setup = <<>> /\ S.post = <<>> /\ S.boot = <<>>
  BY <1>1 DEF StaticPlan, NoPlan, Fields
<1>3. made = [S EXCEPT !.framework = cfg.framework, !.run = cfg.run, !.init = cfg.init]
  BY <1>1 DEF ManualStatic, NoPlan
<1>4. /\ made.install = NoCmd /\ made.build = NoCmd /\ made.setup = <<>> /\ made.post = <<>>
      /\ made.boot = <<>> /\ made.runtime = "static"
  BY <1>2, <1>3, FieldNames
<1>5. {made.install, made.build} = {NoCmd} /\ made.setup \o made.post = <<>>
  BY <1>4
<1>. QED  BY <1>4, <1>5, ShortSequences DEF Renderable

LEMMA PlainRenders ==
    ASSUME NEW R, NEW cfg, NEW found, NEW P, IsSequence(cfg.setup), IsSequence(cfg.post),
           ServerLike(P, R, cfg, found)
    PROVE  Renderable(P)
  BY ShortSequences DEF Renderable, ServerLike

LEMMA PythonRenders ==
    ASSUME NEW f, NEW cfg, NEW found, NEW M, IsSequence(cfg.setup), IsSequence(cfg.post),
           PythonLike(M, f, "python", cfg, found)
    PROVE  Renderable(M)
<1>1. IsSequence(M.setup)
  BY DetectedSequences, Merged DEF PythonLike
<1>. QED  BY <1>1, ShortSequences DEF Renderable, PythonLike

LEMMA PHPRenders ==
    ASSUME NEW f, NEW P, NEW W, PHPLike(W, f, P), ~P.static, P.runtime = "php",
           IsSequence(P.setup), IsSequence(P.post)
    PROVE  Renderable(W)
<1>1. IsSequence(W.setup)
  BY DetectedSequences, Merged DEF PHPLike
<1>2. IsSequence(W.boot)
  <2>1. /\ IsSequence(NodeBoot(f) \o <<Cmd("sh", "php.ini")>>)
        /\ IsSequence(<<>> \o <<Cmd("sh", "php.ini")>>)
    BY DetectedSequences, ShortSequences, SequenceConcat
  <2>. QED  BY <2>1 DEF PHPLike
<1>3. IsSequence(W.post) /\ ~W.static /\ W.runtime = "php"
  BY DEF PHPLike
<1>. QED  BY <1>1, <1>2, <1>3 DEF Renderable

LEMMA RendersAlike ==
    ASSUME NEW x, NEW y, LooksLike(x, y), Renderable(y)
    PROVE  Renderable(x)
  BY DEF Renderable, LooksLike

ServerRepeats(made, again, R) ==
    /\ LooksLike(again, made) /\ made.runtime = R /\ again.ok
    /\ R # "php" => again.init = made.init
    /\ Renderable(made)

\* What manualRuntimeBuildPlan makes of the configuration it has stored.
LEMMA ReplanServer ==
    ASSUME NEW p, NEW R, NEW cfg, IsSequence(cfg.setup), IsSequence(cfg.post),
           ManualServer(p, R, cfg).ok
    PROVE  ServerRepeats(ManualServer(p, R, cfg),
                         ManualServer(p, R, ConfigOf(ManualServer(p, R, cfg))), R)
<1>0. PICK made, again :
         /\ made = ManualServer(p, R, cfg) /\ again = ManualServer(p, R, ConfigOf(made))
  OBVIOUS
<1>. SUFFICES ServerRepeats(made, again, R)
  BY <1>0
<1>. made.ok
  BY <1>0
<1>1. PICK new, found, f, P, Q :
         /\ new = ConfigOf(made) /\ found = PhasesOf(R, p.app, FALSE) /\ f = p.app
         /\ P = WithSubmitted(DefaultPlan(p, R, found, NoPhases), cfg, found)
         /\ Q = WithSubmitted(DefaultPlan(p, R, found, NoPhases), new, found)
  OBVIOUS
<1>2. ServerLike(P, R, cfg, found) /\ ServerLike(Q, R, new, found)
  BY <1>1, SubmittedFields
<1>3. made = ManualMore(f, P, cfg) /\ again = ManualMore(f, Q, new)
  BY <1>0, <1>1 DEF ManualServer
<1>4. CASE R \notin {"python", "php"}
  <2>1. P.runtime = R
    BY <1>2 DEF ServerLike
  <2>2. made = P
    BY <1>3, <1>4, <2>1 DEF ManualMore
  <2>3. ServerLike(Q, R, ConfigOf(P), found)
    BY <1>1, <1>2, <2>2
  <2>4. again = Q /\ Agree(Q, P)
    <3>1. ManualMore(f, Q, ConfigOf(P)) = Q /\ Agree(Q, P)
      BY <1>2, <1>4, <2>3, ReplanPlain
    <3>2. new = ConfigOf(P)
      BY <1>1, <2>2
    <3>. QED  BY <1>3, <3>1, <3>2
  <2>5. P.ok = TRUE
    BY <1>2 DEF ServerLike
  <2>. QED  BY <1>2, <2>1, <2>2, <2>4, <2>5, PlainRenders DEF Agree, LooksLike, ServerRepeats
<1>5. CASE R = "python"
  <2>1. PythonLike(made, f, "python", cfg, found) /\ PythonLike(again, f, "python", new, found)
    BY <1>2, <1>3, <1>5, PythonFields
  <2>2. Agree(again, made)
    BY <1>1, <2>1, ReplanPython
  <2>3. made.runtime = "python" /\ made.ok = TRUE
    BY <2>1 DEF PythonLike
  <2>. QED  BY <1>5, <2>1, <2>2, <2>3, PythonRenders DEF Agree, LooksLike, ServerRepeats
<1>6. CASE R = "php"
  <2>1. LooksLike(again, made) /\ made.runtime = "php" /\ again.ok
    <3>1. /\ ServerLike(P, "php", cfg, found) /\ ServerLike(Q, "php", ConfigOf(made), found)
          /\ again = ManualMore(f, Q, ConfigOf(made))
      BY <1>1, <1>2, <1>3, <1>6
    <3>. QED  BY <1>3, <3>1, ReplanPHP
  <2>2. PICK W : W = PHPWith(f, P, PHPFlavor(f, P.run))
    OBVIOUS
  <2>3. DOMAIN P = Fields /\ P.runtime = "php" /\ ~P.static /\ P.setup = cfg.setup /\ P.post = cfg.post
    BY <1>2, <1>6 DEF ServerLike
  <2>4. PHPLike(W, f, P) /\ DOMAIN W = Fields
    BY <2>2, <2>3, PHPFields
  <2>5. made = ManualPHP(f, PHPDefaults(f, P), cfg)
    BY <1>3, <2>3 DEF ManualMore
  <2>6. PHPDefaults(f, P) = W
    <3>1. ~NoPlan.ok
      BY DEF NoPlan
    <3>. QED  BY <2>2, <2>5, <3>1 DEF PHPDefaults, ManualPHP
  <2>7. LooksLike(made, W)
    BY <2>4, <2>5, <2>6, FieldNames DEF ManualPHP, LooksLike
  <2>8. Renderable(W)
    BY <2>3, <2>4, PHPRenders
  <2>. QED  BY <1>6, <2>1, <2>7, <2>8, RendersAlike DEF ServerRepeats
<1>. QED  BY <1>4, <1>5, <1>6

\* Replan: the configuration that is stored of a plan, planned again, gives the same
\* Dockerfile and the same start (but for PHP's init commands), for every repository
\* and every configuration that comes from its inspection.
THEOREM Replan ==
    ASSUME NEW p, NEW cfg, Inspected(p, cfg), NEW made, made = Finalize(p, cfg), made.ok
    PROVE  /\ Renderable(made) /\ Inspected(p, ConfigOf(made))
           /\ Repeats(made, Finalize(p, ConfigOf(made)))
<1>1. PICK D, R, new, again, S :
         /\ D = DetectRuntime(p) /\ R = FirstName(<<cfg.runtime, D>>)
         /\ new = ConfigOf(made) /\ again = Finalize(p, new)
         /\ S = FirstName(<<new.runtime, D>>)
  OBVIOUS
<1>2. made = FinalizeAs(p, cfg, D, R) /\ again = FinalizeAs(p, new, D, S)
  BY <1>1 DEF Finalize
<1>3. new.runtime = made.runtime /\ new.setup = made.setup /\ new.post = made.post
  BY <1>1 DEF ConfigOf
<1>4. ~NoPlan.ok
  BY DEF NoPlan
<1>5. /\ cfg.runtime \in {"", "static", D} /\ IsSequence(cfg.setup) /\ IsSequence(cfg.post)
      /\ cfg.runtime = "static" => IsJavaScript(D) \/ D = "static"
  BY <1>1 DEF Inspected
<1>6. R = IF cfg.runtime # "" THEN cfg.runtime ELSE D
  BY <1>1, FirstOfTwo
<1>7. S = IF new.runtime # "" THEN new.runtime ELSE D
  BY <1>1, FirstOfTwo
<1>8. ~IsJavaScript("static") /\ ~IsJavaScript("")
  BY DEF IsJavaScript
<1>9. CASE IsJavaScript(D)
  <2>1. R = D \/ R = "static"
    BY <1>5, <1>6
  <2>2. made = ManualJavaScript(p, D, cfg)
    BY <1>2, <1>8, <1>9, <2>1 DEF FinalizeAs
  <2>3. Agree(ManualJavaScript(p, D, new), made) /\ made.runtime \in {D, "static"}
    BY <1>1, <1>5, <1>9, <2>2, ReplanJavaScript
  <2>4. S = made.runtime
    BY <1>3, <1>7, <1>8, <1>9, <2>3
  <2>5. again = ManualJavaScript(p, D, new)
    BY <1>2, <1>8, <1>9, <2>3, <2>4 DEF FinalizeAs
  <2>6. Renderable(made)
    BY <1>5, <1>9, <2>2, ManualJavaScriptRenders
  <2>7. Inspected(p, new)
    BY <1>1, <1>3, <1>9, <2>3, <2>6 DEF Inspected, Renderable
  <2>8. Repeats(made, again)
    BY <2>3, <2>5, SameDockerfile DEF Agree, LooksLike, Repeats, Starting
  <2>. QED  BY <1>1, <2>6, <2>7, <2>8
<1>10. CASE D = "static"
  <2>1. R = "static"
    BY <1>5, <1>6, <1>10
  <2>2. made = ManualStatic(p, cfg)
    BY <1>2, <1>8, <1>10, <2>1 DEF FinalizeAs
  <2>3. Agree(ManualStatic(p, new), made) /\ made.runtime = "static"
    BY <1>1, <2>2, ReplanStatic
  <2>4. S = "static"
    BY <1>3, <1>7, <2>3
  <2>5. again = ManualStatic(p, new)
    BY <1>2, <1>8, <1>10, <2>4 DEF FinalizeAs
  <2>6. Renderable(made)
    BY <2>2, ManualStaticRenders
  <2>7. Inspected(p, new)
    BY <1>1, <1>3, <1>10, <2>3, <2>6 DEF Inspected, Renderable
  <2>8. Repeats(made, again)
    BY <2>3, <2>5, SameDockerfile DEF Agree, LooksLike, Repeats, Starting
  <2>. QED  BY <1>1, <2>6, <2>7, <2>8
<1>11. CASE ~IsJavaScript(D) /\ D # "static"
  <2>1. R = D
    BY <1>5, <1>6, <1>11
  <2>2. D # "" /\ made = ManualServer(p, D, cfg)
    BY <1>2, <1>4, <1>11, <2>1 DEF FinalizeAs
  <2>3. PICK more : more = ManualServer(p, D, new)
    OBVIOUS
  <2>4. /\ LooksLike(more, made) /\ made.runtime = D /\ more.ok
        /\ D # "php" => more.init = made.init
        /\ Renderable(made)
    <3>1. ServerRepeats(made, ManualServer(p, D, ConfigOf(made)), D)
      BY <1>5, <2>2, ReplanServer
    <3>2. more = ManualServer(p, D, ConfigOf(made))
      BY <1>1, <2>3
    <3>. QED  BY <3>1, <3>2 DEF ServerRepeats
  <2>5. S = D
    BY <1>3, <1>7, <2>4
  <2>6. again = more
    BY <1>2, <1>11, <2>2, <2>3, <2>5 DEF FinalizeAs
  <2>7. Inspected(p, new)
    BY <1>1, <1>3, <1>11, <2>4 DEF Inspected, Renderable
  <2>8. Repeats(made, again)
    BY <2>4, <2>6, SameDockerfile DEF LooksLike, Repeats, Starting
  <2>. QED  BY <1>1, <2>4, <2>7, <2>8
<1>. QED  BY <1>9, <1>10, <1>11

-----------------------------------------------------------------------------
(* Automatic plans of JavaScript. *)

AutoLike(A, p, R, pm, F) ==
    /\ A.install = InstallCommand(p, pm)
    /\ A.setup = MergeUnique(SetupCommands(p, R, pm), Playwright(p, R))
    /\ A.build = Script(p, pm, FrameworkScript(p, F, TRUE)) /\ A.post = <<>>
    /\ A.init = Migrations(p, R)

LEMMA AutoFields ==
    ASSUME NEW p, NEW R, NEW pm, NEW F
    PROVE  LET A == AutomaticPhases(p, R, pm, F)
           IN  BaseLike(A, p, R, pm, F) /\ AutoLike(A, p, R, pm, F)
<1>1. PICK J, A : J = JavaScriptBase(p, R, pm, F) /\ A = AutomaticPhases(p, R, pm, F)
  OBVIOUS
<1>2. BaseLike(J, p, R, pm, F)
  BY <1>1, BaseFields
<1>3. J.post = <<>>
  BY <1>1 DEF JavaScriptBase, NoPlan
<1>4. A = [J EXCEPT
        !.install = InstallCommand(p, pm),
        !.setup = MergeUnique(SetupCommands(p, R, pm), Playwright(p, R)),
        !.build = Script(p, pm, FrameworkScript(p, F, TRUE)),
        !.run = Either(RunCommand(p, R, pm, F), NestRun(p, R)),
        !.init = Migrations(p, R)]
  BY <1>1 DEF AutomaticPhases
<1>5. BaseLike(A, p, R, pm, F)
  BY <1>2, <1>4 DEF BaseLike
<1>6. AutoLike(A, p, R, pm, F)
  BY <1>2, <1>3, <1>4, FieldNames DEF BaseLike, AutoLike
<1>. QED  BY <1>1, <1>5, <1>6

LEMMA ValidateKeeps == \A x : Validate(x).ok => Validate(x) = x
<1>1. ~NoPlan.ok
  BY DEF NoPlan
<1>. QED  BY <1>1 DEF Validate

\* The two ways to end well.
JavaScriptFound(p, R, pm, F, A, found) ==
    /\ BaseLike(A, p, R, pm, F) /\ AutoLike(A, p, R, pm, F)
    /\ \/ found = MakeStatic(p, A) /\ ShouldBeStatic(p, F, A.build.verb)
       \/ found = A /\ A.run # NoCmd /\ ~ShouldBeStatic(p, F, A.build.verb)

LEMMA FoundJavaScript ==
    ASSUME NEW p, NEW R, DetectJavaScript(p, R).ok
    PROVE  \E A : JavaScriptFound(p, R, PackageManager(p, R), Framework(p), A, DetectJavaScript(p, R))
<1>1. PICK pm, F, A, found :
         /\ pm = PackageManager(p, R) /\ F = Framework(p)
         /\ A = AutomaticPhases(p, R, pm, F) /\ found = DetectJavaScript(p, R)
  OBVIOUS
<1>2. BaseLike(A, p, R, pm, F) /\ AutoLike(A, p, R, pm, F)
  BY <1>1, AutoFields
<1>3. A.framework = F
  BY <1>2 DEF BaseLike
<1>4. found = Settle(p, A) /\ found.ok /\ ~NoPlan.ok
  BY <1>1 DEF DetectJavaScript, NoPlan
<1>5. PICK refused, static : /\ refused = (A.framework = "sveltekit" /\ PlatformAdapter(p))
                             /\ static = ShouldBeStatic(p, F, A.build.verb)
  OBVIOUS
<1>6. ~refused
  BY <1>4, <1>5 DEF Settle
<1>7. CASE static
  <2>1. Settle(p, A) = Validate(MakeStatic(p, A))
    BY <1>3, <1>5, <1>6, <1>7 DEF Settle
  <2>2. found = MakeStatic(p, A)
    BY <1>4, <2>1, ValidateKeeps
  <2>. QED  BY <1>1, <1>2, <1>5, <1>7, <2>2 DEF JavaScriptFound
<1>8. CASE ~static
  <2>1. Settle(p, A) = IF A.run = NoCmd THEN NoPlan ELSE Validate(A)
    BY <1>3, <1>5, <1>6, <1>8 DEF Settle
  <2>2. A.run # NoCmd /\ found = A
    BY <1>4, <2>1, ValidateKeeps
  <2>. QED  BY <1>1, <1>2, <1>5, <1>8, <2>2 DEF JavaScriptFound
<1>. QED  BY <1>7, <1>8

LEMMA FoundJavaScriptRenders ==
    ASSUME NEW p, NEW R, IsJavaScript(R), NEW pm, NEW F, NEW A, NEW found,
           JavaScriptFound(p, R, pm, F, A, found)
    PROVE  Renderable(found) /\ found.runtime \in {R, "static"}
<1>1. BaseLike(A, p, R, pm, F) /\ AutoLike(A, p, R, pm, F)
  BY DEF JavaScriptFound
<1>2. IsSequence(A.boot) /\ IsSequence(A.setup) /\ IsSequence(A.post)
  <2>1. IsSequence(A.boot) /\ IsSequence(A.post)
    BY <1>1, DetectedSequences, ShortSequences DEF BaseLike, AutoLike
  <2>2. IsSequence(SetupCommands(p, R, pm)) /\ IsSequence(Playwright(p, R))
    BY DetectedSequences
  <2>3. IsSequence(A.setup)
    BY <1>1, <2>2, Merged DEF AutoLike
  <2>. QED  BY <2>1, <2>3
<1>3. A.image # "" /\ A.runtime # "go" /\ ~A.static /\ A.image = R /\ A.runtime = R
  BY <1>1 DEF BaseLike, IsJavaScript
<1>4. CASE found = A
  BY <1>2, <1>3, <1>4 DEF Renderable
<1>5. CASE found = MakeStatic(p, A)
  <2>1. StaticLike(found, A)
    BY <1>1, <1>5, StaticFields DEF BaseLike
  <2>. QED  BY <1>2, <1>3, <2>1 DEF Renderable, StaticLike
<1>. QED  BY <1>4, <1>5 DEF JavaScriptFound

\* A framework's script exists in a submitted build only if it does in an automatic one.
LEMMA ScriptsTogether ==
    ASSUME NEW p, NEW F, FrameworkScript(p, F, TRUE) = ""
    PROVE  FrameworkScript(p, F, FALSE) = ""
  BY DEF FrameworkScript

LEMMA ScriptVerb ==
    ASSUME NEW p, NEW pm, NEW name
    PROVE  Script(p, pm, name).verb = name /\ (Script(p, pm, name) = NoCmd <=> name = "")
<1>1. NoCmd.verb = ""
  BY DEF NoCmd, Cmd, Command
<1>2. Command(WorkDir(p), pm, name, Root).verb = name
  BY DEF Command
<1>. QED  BY <1>1, <1>2 DEF Script

LEMMA StaticByScript ==
    ASSUME NEW p, NEW F, NEW a, NEW b, a # "", ShouldBeStatic(p, F, b)
    PROVE  ShouldBeStatic(p, F, a)
  BY DEF ShouldBeStatic

LEMMA SubmitJavaScript ==
    ASSUME NEW p, NEW R, IsJavaScript(R), NEW A, NEW found,
           JavaScriptFound(p, R, PackageManager(p, R), Framework(p), A, found)
    PROVE  Agree(ManualJavaScript(p, R, ConfigOf(found)), found)
<1>1. PICK pm, F, G, B, cfg, X, Y, static :
         /\ X = FrameworkScript(p, F, TRUE) /\ Y = FrameworkScript(p, G, FALSE)
         /\ pm = PackageManager(p, R) /\ F = Framework(p)
         /\ cfg = ConfigOf(found) /\ G = FirstName(<<cfg.framework, F>>)
         /\ B = ManualPhases(p, R, cfg, pm, G)
         /\ static = (cfg.runtime = "static" \/ ShouldBeStatic(p, G, Y))
  OBVIOUS
<1>2. ManualJavaScript(p, R, cfg) = SettleManual(p, B, static)
  BY <1>1 DEF ManualJavaScript
<1>3. /\ cfg.runtime = found.runtime /\ cfg.framework = found.framework
      /\ cfg.install = found.install /\ cfg.setup = found.setup /\ cfg.build = found.build
      /\ cfg.post = found.post /\ cfg.run = found.run /\ cfg.init = found.init
  BY <1>1 DEF ConfigOf
<1>4. /\ BaseLike(A, p, R, pm, F) /\ AutoLike(A, p, R, pm, F)
      /\ BaseLike(B, p, R, pm, G) /\ PhasesLike(B, p, R, cfg, pm, G)
  BY <1>1, ManualFields DEF JavaScriptFound
<1>5. A.runtime = R /\ A.framework = F /\ R # "static"
  BY <1>4 DEF BaseLike, IsJavaScript
<1>6. static \in BOOLEAN
  BY <1>1
<1>7. ASSUME cfg.install = A.install, cfg.setup = A.setup, cfg.post = A.post
      PROVE  B.install = A.install /\ B.setup = A.setup /\ B.post = A.post
  <2>1. PICK S, P : /\ S = SetupCommands(p, R, pm) /\ P = Playwright(p, R)
                    /\ IsSequence(S) /\ IsSequence(P)
    BY DetectedSequences
  <2>2. A.setup = MergeUnique(S, P) /\ B.setup = MergeUnique(MergeUnique(S, A.setup), P)
    BY <1>4, <1>7, <2>1 DEF AutoLike, PhasesLike
  <2>3. MergeUnique(S, MergeUnique(S, P)) = MergeUnique(S, P)
        /\ MergeUnique(MergeUnique(S, P), P) = MergeUnique(S, P)
    BY <2>1, Merged
  <2>4. A.install = InstallCommand(p, pm) /\ B.install = Either(A.install, InstallCommand(p, pm))
    BY <1>4, <1>7 DEF AutoLike, PhasesLike
  <2>5. B.install = A.install
    BY <2>4 DEF Either
  <2>6. B.post = A.post
    BY <1>4, <1>7 DEF PhasesLike
  <2>. QED  BY <2>2, <2>3, <2>5, <2>6
<1>8. A.build = Script(p, pm, X) /\ A.build.verb = X /\ (A.build = NoCmd <=> X = "")
  <2>1. A.build = Script(p, pm, X)
    BY <1>1, <1>4 DEF AutoLike
  <2>2. Script(p, pm, X).verb = X /\ (Script(p, pm, X) = NoCmd <=> X = "")
    BY ScriptVerb
  <2>. QED  BY <2>1, <2>2
<1>9. B.build = Either(cfg.build, Script(p, pm, Y)) /\ (Script(p, pm, Y) = NoCmd <=> Y = "")
  <2>1. B.build = Either(cfg.build, Script(p, pm, Y))
    BY <1>1, <1>4 DEF PhasesLike
  <2>2. Script(p, pm, Y) = NoCmd <=> Y = ""
    BY ScriptVerb
  <2>. QED  BY <2>1, <2>2
<1>10. CASE found = MakeStatic(p, A) /\ ShouldBeStatic(p, F, A.build.verb)
  <2>1. StaticLike(found, A)
    BY <1>4, <1>10, StaticFields DEF BaseLike
  <2>2. /\ found.runtime = "static" /\ found.framework = IF F = "" THEN "static-frontend" ELSE F
        /\ found.install = A.install /\ found.setup = A.setup /\ found.build = A.build
        /\ found.post = A.post
    BY <1>5, <2>1 DEF StaticLike
  <2>3. G = IF F = "" THEN "static-frontend" ELSE F
    <3>1. PICK N : N = cfg.framework /\ N = (IF F = "" THEN "static-frontend" ELSE F)
      BY <1>3, <2>2
    <3>2. N # "" /\ G = FirstName(<<N, F>>)
      BY <1>1, <3>1
    <3>. QED  BY <3>1, <3>2, FirstOfTwo
  <2>4. A.build # NoCmd
    BY <1>8, <1>10 DEF ShouldBeStatic
  <2>5. B.install = A.install /\ B.setup = A.setup /\ B.build = A.build /\ B.post = A.post
    BY <1>3, <1>7, <1>9, <2>2, <2>4, Eithers
  <2>6. Agree(MakeStatic(p, B), MakeStatic(p, A))
    BY <1>4, <2>3, <2>5, StaticAgrees
  <2>7. static
    BY <1>1, <1>3, <2>2
  <2>8. ManualJavaScript(p, R, cfg) = MakeStatic(p, B)
    BY <1>2, <2>4, <2>5, <2>7 DEF SettleManual
  <2>. QED  BY <1>1, <1>10, <2>6, <2>8
<1>11. CASE found = A /\ A.run # NoCmd /\ ~ShouldBeStatic(p, F, A.build.verb)
  <2>1. G = F
    <3>1. cfg.framework = F
      BY <1>3, <1>5, <1>11
    <3>2. G = FirstName(<<F, F>>)
      BY <1>1, <3>1
    <3>. QED  BY <3>2, FirstOfTwo
  <2>2. X = "" => Y = ""
    BY <1>1, <2>1, ScriptsTogether
  <2>3. B.build = A.build
    BY <1>3, <1>8, <1>9, <1>11, <2>2, Eithers DEF Either
  <2>4. B.install = A.install /\ B.setup = A.setup /\ B.post = A.post
    BY <1>3, <1>7, <1>11
  <2>5. B.run = A.run
    BY <1>3, <1>4, <1>11, Eithers DEF PhasesLike
  <2>6. B.init = A.init
    BY <1>3, <1>4, <1>11 DEF PhasesLike, AutoLike
  <2>7. Agree(B, A)
    BY <1>4, <2>1, <2>3, <2>4, <2>5, <2>6, PlansAgree
  <2>8. ~ShouldBeStatic(p, G, Y)
    <3>1. ASSUME ShouldBeStatic(p, F, Y) PROVE FALSE
      <4>1. Y # ""
        BY <3>1 DEF ShouldBeStatic
      <4>2. X # ""
        BY <2>2, <4>1
      <4>. QED  BY <1>8, <1>11, <3>1, <4>2, StaticByScript
    <3>. QED  BY <2>1, <3>1
  <2>9. ~static
    BY <1>1, <1>3, <1>5, <1>11, <2>8
  <2>10. ManualJavaScript(p, R, cfg) = B
    BY <1>2, <1>11, <2>5, <2>9 DEF SettleManual
  <2>. QED  BY <1>1, <1>11, <2>7, <2>10
<1>. QED  BY <1>1, <1>10, <1>11 DEF JavaScriptFound

-----------------------------------------------------------------------------
(* Automatic plans of the other runtimes. *)

FoundLike(D, R, phases, f) ==
    /\ DOMAIN D = Fields
    /\ D.ok = TRUE /\ D.runtime = R /\ D.framework = "" /\ D.deps = OwnDeps(R, f)
    /\ D.boot = <<>> /\ D.apt = {} /\ D.static = FALSE
    /\ D.image = BuilderImage(R, phases) /\ D.final = FinalImage(R, phases)
    /\ D.install = phases.install /\ D.build = phases.build /\ D.run = phases.run
    /\ D.setup = <<>> /\ D.post = <<>> /\ D.init = <<>>

LEMMA FoundFields ==
    ASSUME NEW p, NEW R, NEW phases, NEW f
    PROVE  FoundLike([DefaultPlan(p, R, phases, phases) EXCEPT !.deps = OwnDeps(R, f)], R, phases, f)
<1>1. PICK D, E : D = DefaultPlan(p, R, phases, phases) /\ E = [D EXCEPT !.deps = OwnDeps(R, f)]
  OBVIOUS
<1>2. DefaultLike(D, R, phases, phases)
  BY <1>1, DefaultFields
<1>3. FoundLike(E, R, phases, f)
  BY <1>1, <1>2, FieldNames DEF DefaultLike, FoundLike
<1>. QED  BY <1>1, <1>3

LEMMA LongerSequences ==
    /\ \A a, b : IsSequence(<<a, b>>)
    /\ IsSequence(DistillerySetup)
<1>1. ASSUME NEW a, NEW b, NEW c, NEW d PROVE IsSequence(<<a, b, c, d>>)
  <2>1. <<a, b, c, d>> \in Seq({a, b, c, d})
    OBVIOUS
  <2>. QED  BY <2>1, SequenceOver
<1>. QED  BY <1>1, ShortSequences DEF DistillerySetup

\* A plan that submission does not rebuild, but that starts the same.
StartsLike(x, R) ==
    /\ Renderable(x) /\ x.runtime = R /\ x.run # NoCmd /\ x.init = <<>>

LEMMA RunCommands ==
    ASSUME NEW f
    PROVE  /\ GoPhases(f).run # NoCmd /\ RustPhases.run # NoCmd /\ DotnetPhases.run # NoCmd
           /\ ElixirPhases(f).run # NoCmd
<1>1. ASSUME NEW tool, NEW verb, tool # "" PROVE Cmd(tool, verb) # NoCmd
  BY <1>1 DEF NoCmd, Cmd, Command
<1>2. GoPhases(f).run # NoCmd
  <2>1. GoPhases(f).run \in {Cmd("./app", ""), Cmd("go", "run .")}
    BY DEF GoPhases, Phases
  <2>. QED  BY <1>1, <2>1
<1>3. RustPhases.run # NoCmd /\ DotnetPhases.run # NoCmd
  BY <1>1 DEF RustPhases, DotnetPhases, Phases
<1>4. ElixirPhases(f).run # NoCmd
  <2>1. ElixirPhases(f).run = ElixirRun(f)
    BY DEF ElixirPhases, Phases
  <2>2. \/ ElixirRun(f) \in {Cmd("mix", "ecto.setup; release"), Cmd("release", "")}
        \/ ElixirRun(f) = Cmd("mix", IF "phoenix" \in f THEN "phx.server" ELSE "run")
    BY DEF ElixirRun
  <2>. QED  BY <1>1, <2>1, <2>2
<1>. QED  BY <1>2, <1>3, <1>4

LEMMA CompiledFound ==
    ASSUME NEW R, R \in {"go", "dotnet", "rust", "java", "elixir"}, NEW f, NEW D,
           FoundLike(D, R, PhasesOf(R, f, TRUE), f)
    PROVE  StartsLike(DetectMore(f, D), R) /\ DetectMore(f, D).ok
<1>1. PICK x, phases : x = DetectMore(f, D) /\ phases = PhasesOf(R, f, TRUE)
  OBVIOUS
<1>2. /\ DOMAIN D = Fields /\ D.runtime = R /\ D.ok = TRUE /\ D.boot = <<>> /\ D.static = FALSE
      /\ D.setup = <<>> /\ D.post = <<>> /\ D.init = <<>> /\ D.run = phases.run
  BY <1>1 DEF FoundLike
<1>3. CASE R \in {"go", "dotnet"}
  <2>1. x = D
    BY <1>1, <1>2, <1>3 DEF DetectMore
  <2>2. phases.run # NoCmd
    BY <1>1, <1>3, RunCommands DEF PhasesOf
  <2>. QED  BY <1>1, <1>2, <2>1, <2>2, ShortSequences DEF StartsLike, Renderable
<1>4. CASE R = "rust"
  <2>1. x = RustPlan(D, f)
    BY <1>1, <1>2, <1>4 DEF DetectMore
  <2>2. /\ x.runtime = R /\ x.ok = TRUE /\ x.boot = <<>> /\ x.static = FALSE
        /\ x.setup = <<>> /\ x.init = <<>> /\ x.run = D.run
        /\ IsSequence(x.post)
    <3>1. CASE "axum" \in f
      BY <1>2, <2>1, <3>1, FieldNames, ShortSequences DEF RustPlan
    <3>2. CASE "axum" \notin f
      BY <1>2, <2>1, <3>2, FieldNames, ShortSequences DEF RustPlan
    <3>. QED  BY <3>1, <3>2
  <2>3. phases.run # NoCmd
    BY <1>1, <1>4, RunCommands DEF PhasesOf
  <2>. QED  BY <1>1, <1>2, <1>4, <2>2, <2>3, ShortSequences DEF StartsLike, Renderable
<1>5. CASE R = "java"
  <2>1. x = JavaPlan(D, f)
    BY <1>1, <1>2, <1>5 DEF DetectMore
  <2>2. /\ x.runtime = R /\ x.ok = TRUE /\ x.boot = <<>> /\ x.static = FALSE
        /\ x.setup = <<>> /\ x.init = <<>> /\ x.run = Cmd("java", "app.jar")
        /\ IsSequence(x.post)
    BY <1>2, <2>1, FieldNames, ShortSequences DEF JavaPlan
  <2>3. x.run # NoCmd
    <3>1. Cmd("java", "app.jar").tool = "java" /\ NoCmd.tool = ""
      BY DEF NoCmd, Cmd, Command
    <3>. QED  BY <2>2, <3>1
  <2>. QED  BY <1>1, <1>5, <2>2, <2>3, ShortSequences DEF StartsLike, Renderable
<1>6. CASE R = "elixir"
  <2>1. x = [D EXCEPT !.framework = IF "phoenix" \in f THEN "phoenix" ELSE "",
                      !.setup = IF "distillery" \in f THEN DistillerySetup ELSE <<>>]
    BY <1>1, <1>2, <1>6 DEF DetectMore
  <2>2. /\ x.runtime = R /\ x.ok = TRUE /\ x.boot = <<>> /\ x.static = FALSE
        /\ x.init = <<>> /\ x.run = D.run /\ x.post = <<>>
        /\ IsSequence(x.setup)
    BY <1>2, <2>1, FieldNames, ShortSequences, LongerSequences
  <2>3. phases.run # NoCmd
    BY <1>1, <1>6, RunCommands DEF PhasesOf
  <2>. QED  BY <1>1, <1>2, <1>6, <2>2, <2>3, ShortSequences DEF StartsLike, Renderable
<1>. QED  BY <1>3, <1>4, <1>5, <1>6

LEMMA CompiledSubmitted ==
    ASSUME NEW R, R \in {"go", "dotnet", "rust", "java", "elixir"}, NEW p, NEW found,
           StartsLike(found, R)
    PROVE  LET made == ManualServer(p, R, ConfigOf(found))
           IN  made.ok /\ made.run = found.run /\ made.init = found.init
<1>1. PICK cfg, phases, P, made :
         /\ cfg = ConfigOf(found) /\ phases = PhasesOf(R, p.app, FALSE)
         /\ P = WithSubmitted(DefaultPlan(p, R, phases, NoPhases), cfg, phases)
         /\ made = ManualServer(p, R, cfg)
  OBVIOUS
<1>2. ServerLike(P, R, cfg, phases)
  BY <1>1, SubmittedFields
<1>3. P.runtime = R /\ P.ok = TRUE /\ P.run = Either(cfg.run, phases.run) /\ P.init = cfg.init
  BY <1>2 DEF ServerLike
<1>4. made = P
  BY <1>1, <1>3 DEF ManualServer, ManualMore
<1>5. cfg.run = found.run /\ cfg.init = found.init /\ found.run # NoCmd
  BY <1>1 DEF ConfigOf, StartsLike
<1>. QED  BY <1>1, <1>3, <1>4, <1>5, Eithers

PythonFoundLike(x, f) ==
    /\ x.framework = PythonFramework(f) /\ x.setup = PythonSetup(f) /\ x.apt = PythonApt(f)
    /\ x.init = DjangoInit(PythonFramework(f))
    /\ x.ok = TRUE /\ x.runtime = "python" /\ x.deps = NoDeps /\ x.boot = <<>> /\ x.static = FALSE
    /\ x.image = "python" /\ x.final = "python"
    /\ x.install = PythonPhases(f).install /\ x.build = PythonPhases(f).build
    /\ x.run = PythonPhases(f).run /\ x.post = <<>>

LEMMA PythonFound ==
    ASSUME NEW f, NEW D, FoundLike(D, "python", PhasesOf("python", f, TRUE), f)
    PROVE  PythonFoundLike(DetectMore(f, D), f) /\ Renderable(DetectMore(f, D))
<1>1. PICK x, phases : x = DetectMore(f, D) /\ phases = PhasesOf("python", f, TRUE)
  OBVIOUS
<1>2. phases = PythonPhases(f)
  BY <1>1 DEF PhasesOf
<1>3. OwnDeps("python", f) = NoDeps
  BY DEF OwnDeps, NoDeps
<1>4. BuilderImage("python", phases) = "python" /\ FinalImage("python", phases) = "python"
  BY DEF BuilderImage, FinalImage
<1>5. D.runtime = "python"
  BY DEF FoundLike
<1>6. x = [D EXCEPT !.framework = PythonFramework(f), !.setup = PythonSetup(f),
                    !.apt = PythonApt(f), !.init = DjangoInit(PythonFramework(f))]
  BY <1>1, <1>5 DEF DetectMore
<1>7. PythonFoundLike(x, f)
  <2>1. DOMAIN D = Fields
    BY DEF FoundLike
  <2>2. /\ x.framework = PythonFramework(f) /\ x.setup = PythonSetup(f) /\ x.apt = PythonApt(f)
        /\ x.init = DjangoInit(PythonFramework(f))
    BY <1>6, <2>1, FieldNames
  <2>3. /\ x.ok = D.ok /\ x.runtime = D.runtime /\ x.deps = D.deps /\ x.boot = D.boot
        /\ x.static = D.static /\ x.image = D.image /\ x.final = D.final
        /\ x.install = D.install /\ x.build = D.build /\ x.run = D.run /\ x.post = D.post
    BY <1>6, <2>1, FieldNames
  <2>4. /\ D.ok = TRUE /\ D.runtime = "python" /\ D.boot = <<>> /\ D.static = FALSE
        /\ D.post = <<>>
    BY DEF FoundLike
  <2>5. D.deps = NoDeps /\ D.image = "python" /\ D.final = "python"
    BY <1>1, <1>3, <1>4 DEF FoundLike
  <2>6. /\ D.install = PythonPhases(f).install /\ D.build = PythonPhases(f).build
        /\ D.run = PythonPhases(f).run
    BY <1>1, <1>2 DEF FoundLike
  <2>. QED  BY <2>2, <2>3, <2>4, <2>5, <2>6 DEF PythonFoundLike
<1>8. Renderable(x)
  BY <1>7, DetectedSequences, ShortSequences DEF PythonFoundLike, Renderable
<1>. QED  BY <1>1, <1>7, <1>8

LEMMA PythonSubmitted ==
    ASSUME NEW p, NEW found, PythonFoundLike(found, p.app)
    PROVE  Agree(ManualServer(p, "python", ConfigOf(found)), found)
<1>1. PICK f, cfg, phases, P, M :
         /\ f = p.app /\ cfg = ConfigOf(found) /\ phases = PhasesOf("python", f, FALSE)
         /\ P = WithSubmitted(DefaultPlan(p, "python", phases, NoPhases), cfg, phases)
         /\ M = ManualServer(p, "python", cfg)
  OBVIOUS
<1>2. ServerLike(P, "python", cfg, phases)
  BY <1>1, SubmittedFields
<1>3. M = ManualMore(f, P, cfg)
  BY <1>1 DEF ManualServer
<1>4. PythonLike(M, f, "python", cfg, phases)
  BY <1>2, <1>3, PythonFields
<1>5. phases = PythonPhases(f)
  BY <1>1 DEF PhasesOf
<1>6. /\ cfg.framework = found.framework /\ cfg.install = found.install
      /\ cfg.build = found.build /\ cfg.run = found.run /\ cfg.setup = found.setup
      /\ cfg.post = found.post /\ cfg.init = found.init
  BY <1>1 DEF ConfigOf
<1>7. PythonFoundLike(found, f)
  BY <1>1
<1>8. M.install = found.install /\ M.build = found.build /\ M.run = found.run
  <2>1. /\ M.install = Either(found.install, found.install)
        /\ M.build = Either(found.build, found.build) /\ M.run = Either(found.run, found.run)
    BY <1>4, <1>5, <1>6, <1>7 DEF PythonLike, PythonFoundLike
  <2>. QED  BY <2>1 DEF Either
<1>9. M.framework = found.framework
  <2>1. /\ M.framework = FirstName(<<cfg.framework, PythonFramework(f)>>)
        /\ cfg.framework = PythonFramework(f) /\ found.framework = PythonFramework(f)
    BY <1>4, <1>6, <1>7 DEF PythonLike, PythonFoundLike
  <2>. QED  BY <2>1, FirstOfTwo
<1>10. M.setup = found.setup
  <2>1. MergeUnique(PythonSetup(f), PythonSetup(f)) = PythonSetup(f)
    BY DetectedSequences, Merged
  <2>. QED  BY <1>4, <1>6, <1>7, <2>1 DEF PythonLike, PythonFoundLike
<1>11. M.init = found.init
  <2>1. M.init = IF cfg.init = <<>> THEN DjangoInit(M.framework) ELSE cfg.init
    BY <1>4 DEF PythonLike
  <2>2. found.init = DjangoInit(found.framework) /\ cfg.init = found.init
    BY <1>6, <1>7 DEF PythonFoundLike
  <2>. QED  BY <1>9, <2>1, <2>2
<1>12. M.image = "python" /\ M.final = "python"
  BY <1>4 DEF PythonLike, BuilderImage, FinalImage
<1>13. /\ M.post = found.post /\ M.ok = found.ok /\ M.runtime = found.runtime
       /\ M.deps = found.deps /\ M.boot = found.boot /\ M.apt = found.apt
       /\ M.static = found.static
  BY <1>4, <1>6, <1>7 DEF PythonLike, PythonFoundLike
<1>14. M.image = found.image /\ M.final = found.final
  BY <1>7, <1>12 DEF PythonFoundLike
<1>. QED  BY <1>1, <1>8, <1>9, <1>10, <1>11, <1>13, <1>14 DEF Agree, LooksLike

\* What AsFound says of the plan made of the whole configuration.
SubmitRepeats(found, made) ==
    /\ made.ok
    /\ found.runtime \notin {"go", "dotnet", "rust", "java", "elixir"}
       => Dockerfile(made) = Dockerfile(found)
    /\ found.runtime # "php" => Starting(made) = Starting(found)

LEMMA PHPFound ==
    ASSUME NEW f, NEW D, FoundLike(D, "php", PhasesOf("php", f, TRUE), f), DetectMore(f, D).ok
    PROVE  /\ PHPLike(DetectMore(f, D), f, D) /\ D.run # NoCmd
           /\ Renderable(DetectMore(f, D))
<1>1. PICK x, W : x = DetectMore(f, D) /\ W = PHPWith(f, D, PHPFlavor(f, D.run))
  OBVIOUS
<1>2. /\ DOMAIN D = Fields /\ D.runtime = "php" /\ ~D.static /\ D.setup = <<>> /\ D.post = <<>>
  BY DEF FoundLike
<1>3. x = PHPDefaults(f, D)
  BY <1>1, <1>2 DEF DetectMore
<1>4. ~NoPlan.ok
  BY DEF NoPlan
<1>5. D.run # NoCmd
  BY <1>1, <1>3, <1>4 DEF PHPDefaults
<1>6. x = W
  BY <1>1, <1>3, <1>5 DEF PHPDefaults
<1>7. PHPLike(W, f, D)
  BY <1>1, <1>2, PHPFields
<1>8. Renderable(W)
  BY <1>2, <1>7, ShortSequences, PHPRenders
<1>. QED  BY <1>1, <1>5, <1>6, <1>7, <1>8

LEMMA PHPSubmitted ==
    ASSUME NEW p, NEW D, NEW W, FoundLike(D, "php", PhasesOf("php", p.app, TRUE), p.app),
           PHPLike(W, p.app, D), D.run # NoCmd
    PROVE  LET made == ManualServer(p, "php", ConfigOf(W)) IN made.ok /\ LooksLike(made, W)
<1>1. PICK f, cfg, phases, P, M, V :
         /\ f = p.app /\ cfg = ConfigOf(W) /\ phases = PhasesOf("php", f, FALSE)
         /\ P = WithSubmitted(DefaultPlan(p, "php", phases, NoPhases), cfg, phases)
         /\ M = ManualServer(p, "php", cfg) /\ V = PHPWith(f, P, PHPFlavor(f, P.run))
  OBVIOUS
<1>2. ServerLike(P, "php", cfg, phases)
  BY <1>1, SubmittedFields
<1>3. PhasesOf("php", f, TRUE) = phases
  BY <1>1 DEF PhasesOf
<1>4. FoundLike(D, "php", phases, f) /\ PHPLike(W, f, D)
  BY <1>1, <1>3
<1>5. /\ cfg.framework = W.framework /\ cfg.install = W.install /\ cfg.build = W.build
      /\ cfg.run = W.run /\ cfg.setup = W.setup /\ cfg.post = W.post
  BY <1>1 DEF ConfigOf
<1>6. W.run # NoCmd
  BY <1>4, FlavorIsRun DEF PHPLike
<1>7. DOMAIN P = Fields /\ P.runtime = "php" /\ P.ok = TRUE
  BY <1>2 DEF ServerLike
<1>8. P.run = W.run
  BY <1>2, <1>5, <1>6, Eithers DEF ServerLike
<1>9. M = ManualPHP(f, V, cfg)
  <2>1. M = ManualPHP(f, PHPDefaults(f, P), cfg)
    BY <1>1, <1>7 DEF ManualServer, ManualMore
  <2>. QED  BY <1>1, <1>6, <1>8, <2>1 DEF PHPDefaults
<1>10. PHPLike(V, f, P) /\ DOMAIN V = Fields
  <2>1. V = PHPWith(f, P, PHPFlavor(f, P.run)) /\ DOMAIN P = Fields
    BY <1>1, <1>7
  <2>. QED  BY <2>1, PHPFields
<1>11. LooksLike(M, V)
  BY <1>9, <1>10, FieldNames DEF ManualPHP, LooksLike
<1>12. P.framework = W.framework /\ P.setup = W.setup
  BY <1>2, <1>5 DEF ServerLike
<1>13. P.install = D.install /\ P.build = D.build
  <2>1. W.install = phases.install /\ W.build = phases.build
    BY <1>4 DEF PHPLike, FoundLike
  <2>2. P.install = Either(phases.install, phases.install)
        /\ P.build = Either(phases.build, phases.build)
    BY <1>2, <1>5, <2>1 DEF ServerLike
  <2>. QED  BY <1>4, <2>2 DEF Either, FoundLike
<1>14. P.post = D.post
  BY <1>2, <1>4, <1>5 DEF ServerLike, PHPLike
<1>15. P.deps = D.deps
  <2>1. OwnDeps("php", f) = NoDeps
    BY DEF OwnDeps, NoDeps
  <2>. QED  BY <1>2, <1>4, <2>1 DEF ServerLike, FoundLike
<1>16. P.ok = D.ok /\ P.runtime = D.runtime /\ P.static = D.static /\ IsSequence(D.setup)
  BY <1>2, <1>4, ShortSequences DEF ServerLike, FoundLike
<1>17. LooksLike(V, W)
  BY <1>4, <1>8, <1>10, <1>12, <1>13, <1>14, <1>15, <1>16, PHPAgain
<1>18. V.ok
  BY <1>7, <1>10 DEF PHPLike
<1>19. M.ok /\ LooksLike(M, W)
  BY <1>11, <1>17, <1>18 DEF LooksLike
<1>20. M = ManualServer(p, "php", ConfigOf(W))
  BY <1>1
<1>. QED  BY <1>19, <1>20

\* manualRuntimeBuildPlan of what detectBuildPlan has found.
LEMMA ServerFound ==
    ASSUME NEW p, NEW R, ServerRuntime(R), DetectServer(p, R).ok
    PROVE  LET found == DetectServer(p, R)
           IN  /\ Renderable(found) /\ found.runtime = R
               /\ SubmitRepeats(found, ManualServer(p, R, ConfigOf(found)))
<1>1. PICK f, phases, D, found, made :
         /\ f = p.app /\ phases = PhasesOf(R, f, TRUE)
         /\ D = [DefaultPlan(p, R, phases, phases) EXCEPT !.deps = OwnDeps(R, f)]
         /\ found = DetectServer(p, R) /\ made = ManualServer(p, R, ConfigOf(found))
  OBVIOUS
<1>2. FoundLike(D, R, PhasesOf(R, f, TRUE), f)
  BY <1>1, FoundFields
<1>3. found = DetectMore(f, D) /\ found.ok
  <2>1. found = Validate(DetectMore(f, D)) /\ found.ok
    BY <1>1 DEF DetectServer
  <2>. QED  BY <2>1, ValidateKeeps
<1>4. R \in {"go", "dotnet", "rust", "java", "elixir", "python", "php"}
  BY DEF ServerRuntime, Runtimes
<1>. SUFFICES Renderable(found) /\ found.runtime = R /\ SubmitRepeats(found, made)
  BY <1>1
<1>5. CASE R \in {"go", "dotnet", "rust", "java", "elixir"}
  <2>1. StartsLike(found, R)
    BY <1>2, <1>3, <1>5, CompiledFound
  <2>2. made.ok /\ made.run = found.run /\ made.init = found.init
    BY <1>1, <1>5, <2>1, CompiledSubmitted
  <2>. QED  BY <1>5, <2>1, <2>2 DEF StartsLike, SubmitRepeats, Starting
<1>6. CASE R = "python"
  <2>1. PythonFoundLike(found, f) /\ Renderable(found)
    BY <1>2, <1>3, <1>6, PythonFound
  <2>2. Agree(made, found)
    BY <1>1, <1>6, <2>1, PythonSubmitted
  <2>3. found.runtime = R
    BY <1>6, <2>1 DEF PythonFoundLike
  <2>. QED  BY <1>3, <2>1, <2>2, <2>3, SameDockerfile
            DEF Agree, LooksLike, SubmitRepeats, Starting
<1>7. CASE R = "php"
  <2>1. PHPLike(found, f, D) /\ D.run # NoCmd /\ Renderable(found)
    BY <1>2, <1>3, <1>7, PHPFound
  <2>2. made.ok /\ LooksLike(made, found)
    BY <1>1, <1>2, <1>7, <2>1, PHPSubmitted
  <2>3. found.runtime = R
    BY <1>2, <2>1 DEF PHPLike, FoundLike
  <2>. QED  BY <1>7, <2>1, <2>2, <2>3, SameDockerfile DEF SubmitRepeats
<1>. QED  BY <1>4, <1>5, <1>6, <1>7

LEMMA StaticFound ==
    ASSUME NEW p, NEW found, found = StaticPlan(p)
    PROVE  /\ Renderable(found) /\ found.runtime = "static" /\ found.ok
           /\ Agree(ManualStatic(p, ConfigOf(found)), found)
<1>1. /\ DOMAIN found = Fields /\ found.runtime = "static" /\ found.install = NoCmd
      /\ found.build = NoCmd /\ found.setup = <<>> /\ found.post = <<>> /\ found.boot = <<>>
      /\ found.run = NoCmd /\ found.init = <<>> /\ found.ok = TRUE
  BY DEF StaticPlan, NoPlan, Fields
<1>2. {found.install, found.build} = {NoCmd} /\ found.setup \o found.post = <<>>
  BY <1>1
<1>3. PICK cfg, B : cfg = ConfigOf(found) /\ B = ManualStatic(p, cfg)
  OBVIOUS
<1>4. /\ cfg.install = NoCmd /\ cfg.build = NoCmd /\ cfg.setup = <<>> /\ cfg.post = <<>>
      /\ cfg.framework = found.framework /\ cfg.run = NoCmd /\ cfg.init = <<>>
  BY <1>1, <1>3 DEF ConfigOf
<1>5. {cfg.install, cfg.build} = {NoCmd} /\ cfg.setup \o cfg.post = <<>>
  BY <1>4
<1>6. B = [found EXCEPT !.framework = cfg.framework, !.run = cfg.run, !.init = cfg.init]
  BY <1>3, <1>5 DEF ManualStatic
<1>7. Agree(B, found)
  BY <1>1, <1>4, <1>6, FieldNames DEF Agree, LooksLike
<1>8. Renderable(found)
  BY <1>1, <1>2, ShortSequences DEF Renderable
<1>. QED  BY <1>1, <1>3, <1>7, <1>8

LEMMA AgreeRepeats ==
    ASSUME NEW made, NEW found, Agree(made, found), found.ok
    PROVE  SubmitRepeats(found, made)
<1>1. LooksLike(made, found) /\ made.run = found.run /\ made.init = found.init /\ made.ok
  BY DEF Agree, LooksLike
<1>2. Dockerfile(made) = Dockerfile(found)
  BY <1>1, SameDockerfile
<1>. QED  BY <1>1, <1>2 DEF SubmitRepeats, Starting

\* Found: what the inspection of a repository finds can be rendered, and submitted as
\* it is gives the same image and the same start wherever the configuration has what
\* they depend on.
THEOREM Found ==
    ASSUME NEW p, Detect(p).ok
    PROVE  LET found == Detect(p)
           IN  /\ Renderable(found) /\ Inspected(p, ConfigOf(found))
               /\ SubmitRepeats(found, Finalize(p, ConfigOf(found)))
<1>1. PICK D, found, cfg, made, R :
         /\ D = DetectRuntime(p) /\ found = Detect(p) /\ cfg = ConfigOf(found)
         /\ made = Finalize(p, cfg) /\ R = FirstName(<<cfg.runtime, D>>)
  OBVIOUS
<1>2. found = DetectAs(p, D) /\ found.ok /\ made = FinalizeAs(p, cfg, D, R)
  BY <1>1 DEF Detect, Finalize
<1>3. cfg.runtime = found.runtime /\ cfg.setup = found.setup /\ cfg.post = found.post
  BY <1>1 DEF ConfigOf
<1>4. ~NoPlan.ok
  BY DEF NoPlan
<1>5. R = IF cfg.runtime # "" THEN cfg.runtime ELSE D
  BY <1>1, FirstOfTwo
<1>6. ~IsJavaScript("static") /\ ~IsJavaScript("")
  BY DEF IsJavaScript
<1>7. D \in Runtimes \union {""}
  BY <1>1, RuntimeKnown
<1>. SUFFICES Renderable(found) /\ Inspected(p, cfg) /\ SubmitRepeats(found, made)
  BY <1>1
<1>8. CASE IsJavaScript(D)
  <2>1. found = DetectJavaScript(p, D)
    BY <1>2, <1>6, <1>8 DEF DetectAs
  <2>2. PICK A : JavaScriptFound(p, D, PackageManager(p, D), Framework(p), A, found)
    BY <1>2, <2>1, FoundJavaScript
  <2>3. Renderable(found) /\ found.runtime \in {D, "static"}
    BY <1>8, <2>2, FoundJavaScriptRenders
  <2>4. Agree(ManualJavaScript(p, D, cfg), found)
    BY <1>1, <1>8, <2>2, SubmitJavaScript
  <2>5. R = D \/ R = "static"
    BY <1>3, <1>5, <2>3
  <2>6. made = ManualJavaScript(p, D, cfg)
    BY <1>2, <1>6, <1>8, <2>5 DEF FinalizeAs
  <2>7. Inspected(p, cfg)
    BY <1>1, <1>3, <1>8, <2>3 DEF Inspected, Renderable
  <2>. QED  BY <1>2, <2>3, <2>4, <2>6, <2>7, AgreeRepeats
<1>9. CASE D = "static"
  <2>1. found = StaticPlan(p)
    BY <1>2, <1>6, <1>9 DEF DetectAs
  <2>2. Renderable(found) /\ found.runtime = "static" /\ Agree(ManualStatic(p, cfg), found)
    BY <1>1, <2>1, StaticFound
  <2>3. R = "static"
    BY <1>3, <1>5, <2>2
  <2>4. made = ManualStatic(p, cfg)
    BY <1>2, <1>6, <1>9, <2>3 DEF FinalizeAs
  <2>5. Inspected(p, cfg)
    BY <1>1, <1>3, <1>9, <2>2 DEF Inspected, Renderable
  <2>. QED  BY <1>2, <2>2, <2>4, <2>5, AgreeRepeats
<1>10. CASE ~IsJavaScript(D) /\ D # "static"
  <2>1. D # ""
    BY <1>2, <1>4, <1>10 DEF DetectAs
  <2>2. found = DetectServer(p, D)
    BY <1>2, <1>10, <2>1 DEF DetectAs
  <2>3. ServerRuntime(D)
    BY <1>7, <1>10, <2>1 DEF ServerRuntime, IsJavaScript
  <2>4. /\ Renderable(found) /\ found.runtime = D
        /\ SubmitRepeats(found, ManualServer(p, D, cfg))
    BY <1>1, <1>2, <2>2, <2>3, ServerFound
  <2>5. R = D
    BY <1>3, <1>5, <2>4
  <2>6. made = ManualServer(p, D, cfg)
    BY <1>2, <1>10, <2>1, <2>5 DEF FinalizeAs
  <2>7. Inspected(p, cfg)
    BY <1>1, <1>3, <1>10, <2>4 DEF Inspected, Renderable
  <2>. QED  BY <2>4, <2>6, <2>7
<1>. QED  BY <1>8, <1>9, <1>10

\* A submission of some fields of it, with more commands, is one of that repository.
LEMMA SubmissionInspected ==
    ASSUME NEW p, NEW found, Inspected(p, ConfigOf(found)), NEW s \in Submissions
    PROVE  Inspected(p, Submitted(found, s))
<1>1. PICK c, e, cfg : /\ c = ConfigOf(found)
                       /\ e = [c EXCEPT !.setup = @ \o s.more, !.post = @ \o s.more]
                       /\ cfg = Submitted(found, s)
  OBVIOUS
<1>2. DOMAIN c = {"runtime", "framework", "install", "setup", "build", "post", "run", "init"}
  BY <1>1 DEF ConfigOf
<1>3. /\ e.runtime = c.runtime /\ e.setup = c.setup \o s.more /\ e.post = c.post \o s.more
  BY <1>1, <1>2
<1>4. /\ DOMAIN Blank = {"runtime", "framework", "install", "setup", "build", "post", "run", "init"}
      /\ Blank.runtime = "" /\ Blank.setup = <<>> /\ Blank.post = <<>>
  BY DEF Blank, ConfigOf, NoPlan
<1>5. cfg = [f \in DOMAIN Blank |-> IF f \in s.fields THEN e[f] ELSE Blank[f]]
  BY <1>1 DEF Submitted, Submit
<1>6. /\ cfg.runtime \in {c.runtime, ""}
      /\ cfg.setup \in {c.setup \o s.more, <<>>} /\ cfg.post \in {c.post \o s.more, <<>>}
  BY <1>3, <1>4, <1>5
<1>7. IsSequence(s.more)
  BY SubmissionsAssumption, SequenceOver
<1>8. IsSequence(c.setup \o s.more) /\ IsSequence(c.post \o s.more)
  BY <1>1, <1>7, SequenceConcat DEF Inspected
<1>9. IsSequence(cfg.setup) /\ IsSequence(cfg.post)
  BY <1>6, <1>8, ShortSequences
<1>. QED  BY <1>1, <1>6, <1>9 DEF Inspected

=============================================================================
