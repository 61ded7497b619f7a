--------------------------- MODULE JobBuildProofs ---------------------------
(***************************************************************************)
(* Proofs about JobBuild, for every repository, every request and every      *)
(* number of crashes: the types, and the properties of what is built.        *)
(***************************************************************************)
EXTENDS JobBuildInv, SequenceTheorems, TLAPS

-----------------------------------------------------------------------------
(* Files, plans and directories. *)

File == Dockerfile \union {NoFile}

LEMMA FileFacts == /\ NoFile \notin Dockerfile
                   /\ By("repo") \subseteq Dockerfile /\ By("custom") \subseteq Dockerfile
                   /\ NoConfig \in Config
<1>1. NoFile \notin Dockerfile
  BY DEF NoFile, Dockerfile
<1>2. By("repo") \subseteq Dockerfile /\ By("custom") \subseteq Dockerfile
  BY DEF By
<1>3. NoConfig \in Config
  <2>1. <<>> \in [{} -> Override] /\ <<>> \in PlanOf({}) /\ {} \in SUBSET Keys
    BY DEF PlanOf
  <2>2. /\ <<>> \in UNION {[S -> Override] : S \in SUBSET Keys}
        /\ <<>> \in UNION {PlanOf(S) : S \in SUBSET Keys}
    BY <2>1
  <2>3. Unset \in Path
    BY DEF Path
  <2>. QED  BY <2>2, <2>3 DEF NoConfig, Config
<1>. QED  BY <1>1, <1>2, <1>3

LEMMA DirFacts ==
    /\ Root \in Dirs /\ Unset \notin Dirs /\ Outside \notin Dirs /\ Unset # Outside
    /\ \A d \in Dirs : Above[d] \subseteq Dirs /\ d \in Above[d] /\ Root \in Above[d]
  BY DirsAssumption DEF Unset, Outside

\* A Dockerfile, with or without the request's parameters.
LEMMA StageType ==
    ASSUME NEW file \in Dockerfile, NEW params \in SUBSET Keys
    PROVE  /\ Stage(file, params) \in Dockerfile
           /\ Stage(file, params).by = file.by
  BY DEF Stage, Dockerfile

\* The directory of the Dockerfile has one.
LEMMA DockerfileDirType ==
    ASSUME NEW files \in [Dirs -> File], NEW w \in Dirs,
           DockerfileDir(files, w) # Unset
    PROVE  /\ DockerfileDir(files, w) \in Dirs
           /\ files[DockerfileDir(files, w)] \in Dockerfile
  BY DirFacts DEF DockerfileDir, File

\* The scope or secrecy that Resolve gives a key.
Chosen(c, key, field, auto) ==
    IF key \in DOMAIN c.overrides /\ c.overrides[key][field] # Unset
    THEN c.overrides[key][field] ELSE auto

LEMMA ResolveIs ==
    ASSUME NEW files, NEW configs, NEW dirs, NEW c
    PROVE  LET declared == DeclaredIn(files, dirs)
               named == UNION {configs[d] \union files[d].refs : d \in dirs}
           IN  Resolve(files, configs, dirs, c) =
                 [key \in c.env |->
                    [scope |-> Chosen(c, key, "scope", ClassifyScope(key, declared, named)),
                     secret |-> Chosen(c, key, "secret",
                         IF ClassifySecret(key, declared) THEN "yes" ELSE "no") = "yes"]]
  BY DEF Resolve, Chosen

LEMMA ResolveType ==
    ASSUME NEW files, NEW configs, NEW dirs, NEW c \in Config
    PROVE  Resolve(files, configs, dirs, c) \in UNION {PlanOf(S) : S \in SUBSET Keys}
<1>. DEFINE plan == Resolve(files, configs, dirs, c)
            declared == DeclaredIn(files, dirs)
            named == UNION {configs[d] \union files[d].refs : d \in dirs}
            scope(key) == Chosen(c, key, "scope", ClassifyScope(key, declared, named))
            secret(key) == Chosen(c, key, "secret",
                         IF ClassifySecret(key, declared) THEN "yes" ELSE "no") = "yes"
<1>1. ASSUME NEW key PROVE scope(key) \in Scopes
  <2>1. ClassifyScope(key, declared, named) \in Scopes
    BY DEF ClassifyScope, Scopes
  <2>2. key \in DOMAIN c.overrides => c.overrides[key].scope \in Scopes \union {Unset}
    BY DEF Config, Override
  <2>. QED  BY <2>1, <2>2 DEF Chosen
<1>2. ASSUME NEW key PROVE secret(key) \in BOOLEAN
  OBVIOUS
<1>3. plan = [key \in c.env |-> [scope |-> scope(key), secret |-> secret(key)]]
  BY ResolveIs
<1>4. c.env \in SUBSET Keys
  BY DEF Config
<1>. HIDE DEF plan, scope, secret
<1>5. plan \in PlanOf(c.env)
  BY <1>1, <1>2, <1>3 DEF PlanOf
<1>. QED  BY <1>4, <1>5 DEF plan

LEMMA BuildKeysType ==
    ASSUME NEW plan \in UNION {PlanOf(S) : S \in SUBSET Keys}
    PROVE  /\ BuildKeys(plan) \in SUBSET Keys /\ BuildArgs(plan) \in SUBSET Keys
           /\ Generated(plan) \in Dockerfile
<1>1. PICK S \in SUBSET Keys : plan \in PlanOf(S)
  OBVIOUS
<1>2. DOMAIN plan \subseteq Keys
  BY <1>1 DEF PlanOf
<1>. QED  BY <1>2 DEF BuildKeys, BuildArgs, Generated, Dockerfile

-----------------------------------------------------------------------------
(* The choice of a Dockerfile, and what comes of it. *)

LEMMA ConfigFields ==
    ASSUME NEW c \in Config
    PROVE  /\ c.custom \in By("custom") \union {NoFile}
           /\ c.context \in Path /\ c.appDir \in Path
           /\ c.env \in SUBSET Keys /\ c.params \in SUBSET Keys
           /\ c.auto \in BOOLEAN /\ c.phases \in BOOLEAN /\ c.runtime \in BOOLEAN
  BY DEF Config

LEMMA RepoFields ==
    ASSUME NEW head \in Repo
    PROVE  /\ head.files \in [Dirs -> File]
           /\ \A d \in Dirs : head.files[d] # NoFile =>
                 head.files[d] \in Dockerfile /\ head.files[d].by = "repo"
  BY FileFacts DEF Repo, File, By

LEMMA ManualPlanType ==
    ASSUME NEW head \in Repo, NEW c \in Config, NEW w \in Dirs,
           ManualPlan(head, c, w).ok
    PROVE  ManualPlan(head, c, w).context \in Dirs /\ ManualPlan(head, c, w).appDir \in Dirs
<1>1. c.context \in Path /\ c.appDir \in Path
  BY ConfigFields
<1>. QED  BY <1>1, DirFacts DEF ManualPlan, DetectedContext, Path

LEMMA PlanType ==
    ASSUME NEW head \in Repo, NEW c \in Config, NEW w \in Dirs, Plan(head, c, w).ok
    PROVE  Plan(head, c, w).context \in Dirs /\ Plan(head, c, w).appDir \in Dirs
<1>1. CASE c.auto
  BY <1>1, DirFacts DEF Plan, AutoPlan, DetectedContext
<1>2. CASE ~c.auto
  BY <1>2, ManualPlanType DEF Plan
<1>. QED  BY <1>1, <1>2

LEMMA WorkdirType ==
    ASSUME NEW input \in Inputs
    PROVE  /\ input.config \in Config
           /\ AppDir(input.workingDir) # Outside => AppDir(input.workingDir) \in Dirs
  BY InputsAssumption, DirFacts DEF AppDir, Path

LEMMA ChoiceType ==
    ASSUME NEW head \in Repo, NEW c \in Config, NEW w \in Dirs, Choosable(w, head, c)
    PROVE  /\ FilesOf(w, head, c) \in [Dirs -> File]
           /\ DirOf(w, head, c) \in Dirs \union {Unset}
           /\ ContextOf(w, head, c) \in Dirs
           /\ DirOf(w, head, c) # Unset =>
                 FilesOf(w, head, c)[DirOf(w, head, c)] \in Dockerfile
<1>1. head.files \in [Dirs -> File]
  BY RepoFields
<1>2. CASE c.custom # NoFile
  <2>1. c.custom \in Dockerfile
    BY <1>2, ConfigFields, FileFacts
  <2>. QED
    BY <1>1, <1>2, <2>1 DEF FilesOf, DirOf, ContextOf, File
<1>3. CASE c.custom = NoFile /\ DockerfileDir(head.files, w) # Unset
  <2>1. c.context \in Path
    BY ConfigFields
  <2>. QED
    BY <1>1, <1>3, <2>1, DirFacts, DockerfileDirType
       DEF FilesOf, DirOf, ContextOf, Choosable, ContextAllowed
<1>4. CASE c.custom = NoFile /\ DockerfileDir(head.files, w) = Unset
  BY <1>1, <1>4, PlanType DEF FilesOf, DirOf, ContextOf, Choosable
<1>. QED  BY <1>2, <1>3, <1>4

LEMMA PlanForType ==
    ASSUME NEW head, NEW c \in Config, NEW w
    PROVE  PlanFor(w, head, c) \in UNION {PlanOf(S) : S \in SUBSET Keys}
  BY ResolveType DEF PlanFor

\* An argument of a generated Dockerfile is said, known or declared to be no secret.
LEMMA ArgsAreNoSecrets ==
    ASSUME NEW c \in Config, NEW files, NEW configs, NEW dirs \in SUBSET Dirs,
           NEW key \in BuildArgs(Resolve(files, configs, dirs, c))
    PROVE  IF key \in DOMAIN c.overrides /\ c.overrides[key].secret # Unset
           THEN c.overrides[key].secret = "no"
           ELSE key \in PublicKeys \union NonSecretKeys \union DeclaredIn(files, Dirs)
<1>. DEFINE declared == DeclaredIn(files, dirs)
            named == UNION {configs[d] \union files[d].refs : d \in dirs}
            scope(k) == Chosen(c, k, "scope", ClassifyScope(k, declared, named))
            secret(k) == Chosen(c, k, "secret",
                         IF ClassifySecret(k, declared) THEN "yes" ELSE "no") = "yes"
            plan == Resolve(files, configs, dirs, c)
<1>1. plan = [k \in c.env |-> [scope |-> scope(k), secret |-> secret(k)]]
  BY ResolveIs
<1>2. key \in DOMAIN plan /\ ~plan[key].secret
  BY DEF BuildArgs, BuildKeys
<1>3. ~secret(key)
  <2>. HIDE DEF plan, scope, secret
  <2>. QED  BY <1>1, <1>2
<1>4. CASE key \in DOMAIN c.overrides /\ c.overrides[key].secret # Unset
  <2>1. c.overrides[key].secret \in {"yes", "no", Unset}
    BY <1>4 DEF Config, Override
  <2>. QED  BY <1>3, <1>4, <2>1 DEF Chosen
<1>5. CASE ~(key \in DOMAIN c.overrides /\ c.overrides[key].secret # Unset)
  <2>1. ~ClassifySecret(key, declared)
    BY <1>3, <1>5 DEF Chosen
  <2>2. declared \subseteq DeclaredIn(files, Dirs)
    BY DEF DeclaredIn
  <2>. QED  BY <1>5, <2>1, <2>2 DEF ClassifySecret
<1>. QED  BY <1>4, <1>5

LEMMA OutcomeType ==
    ASSUME NEW head \in Repos, NEW c \in Config, NEW w \in Dirs, Choosable(w, head, c)
    PROVE  Outcome(w, head, c) \in Builds
<1>1. head \in Repo
  BY ReposAssumption
<1>2. ContextOf(w, head, c) \in Dirs /\ BuildKeys(PlanFor(w, head, c)) \in SUBSET Keys
  BY <1>1, ChoiceType, PlanForType, BuildKeysType
<1>3. FileOf(w, head, c) \in Dockerfile
  <2>1. CASE c.custom # NoFile
    BY <2>1, ConfigFields, FileFacts DEF FileOf
  <2>2. CASE c.custom = NoFile /\ DirOf(w, head, c) # Unset
    <3>1. head.files[DirOf(w, head, c)] \in Dockerfile
      BY <1>1, <2>2, ChoiceType DEF FilesOf
    <3>. QED  BY <2>2, <3>1, ConfigFields, StageType DEF FileOf
  <2>3. CASE c.custom = NoFile /\ DirOf(w, head, c) = Unset
    BY <2>3, PlanForType, BuildKeysType DEF FileOf
  <2>. QED  BY <2>1, <2>2, <2>3
<1>. QED  BY <1>2, <1>3 DEF Outcome, Builds

\* What comes of a configuration that keeps the request has the properties that
\* the request asks for.
LEMMA OutcomeWellBuilt ==
    ASSUME NEW head \in Repos, NEW c \in Config, NEW input \in Inputs,
           Choosable(AppDir(input.workingDir), head, c), Keeps(c, input)
    PROVE  WellBuilt(Outcome(AppDir(input.workingDir), head, c), input)
<1>. DEFINE w == AppDir(input.workingDir)
            b == Outcome(w, head, c)
<1>1. w \in Dirs /\ head \in Repo
  BY WorkdirType, ReposAssumption DEF Choosable
<1>2. /\ b.head = head /\ b.file = FileOf(w, head, c)
      /\ b.context = ContextOf(w, head, c)
  BY DEF Outcome
<1>3. c.custom = input.config.custom /\ c.overrides = input.config.overrides
  BY DEF Keeps
<1>4. CASE c.custom # NoFile
  <2>1. b.file = c.custom /\ b.context = w
    BY <1>2, <1>4 DEF FileOf, ContextOf
  <2>2. b.file.by = "custom"
    BY <1>4, <2>1, ConfigFields DEF By
  <2>. QED  BY <1>3, <2>1, <2>2 DEF WellBuilt
<1>5. CASE c.custom = NoFile /\ DirOf(w, head, c) # Unset
  <2>1. /\ DirOf(w, head, c) \in Dirs
        /\ head.files[DirOf(w, head, c)] \in Dockerfile
    BY <1>1, <1>5, ChoiceType DEF FilesOf
  <2>2. head.files[DirOf(w, head, c)].by = "repo"
    BY <1>1, <2>1, RepoFields, FileFacts
  <2>3. b.file.by = "repo"
    BY <1>2, <1>5, <2>1, <2>2, ConfigFields, StageType DEF FileOf
  <2>4. b.context \in Above[w]
    BY <1>1, <1>2, <1>5, DirFacts DEF ContextOf, Choosable, ContextAllowed
  <2>. QED  BY <1>3, <1>5, <2>3, <2>4 DEF WellBuilt
<1>6. CASE c.custom = NoFile /\ DirOf(w, head, c) = Unset
  <2>1. b.file = Generated(PlanFor(w, head, c))
    BY <1>2, <1>6 DEF FileOf
  <2>2. b.file.by = "generated" /\ b.file.args = BuildArgs(PlanFor(w, head, c))
    BY <2>1 DEF Generated
  <2>3. {ContextOf(w, head, c), w} \in SUBSET Dirs
    BY <1>1, ChoiceType
  <2>4. ASSUME NEW key \in b.file.args
        PROVE  IF key \in DOMAIN c.overrides /\ c.overrides[key].secret # Unset
               THEN c.overrides[key].secret = "no"
               ELSE key \in PublicKeys \union NonSecretKeys \union
                            DeclaredIn(head.files, Dirs)
    BY <1>6, <2>2, <2>3, ArgsAreNoSecrets DEF PlanFor, FilesOf
  <2>. QED  BY <1>2, <1>3, <1>6, <2>2, <2>4 DEF WellBuilt
<1>. QED  BY <1>4, <1>5, <1>6

-----------------------------------------------------------------------------
(* What is stored of an inspection or an attempt does not steer the next one. *)

PlanSet == UNION {PlanOf(S) : S \in SUBSET Keys}

\* The same request with the same choice has the same outcome.
LEMMA AgreeFields ==
    ASSUME NEW w, NEW head, NEW c, NEW d,
           d.custom = c.custom, d.params = c.params, d.overrides = c.overrides,
           d.env = c.env, Choosable(w, head, d) <=> Choosable(w, head, c),
           ContextOf(w, head, d) = ContextOf(w, head, c)
    PROVE  Agree(w, head, d, c)
<1>1. DirOf(w, head, d) = DirOf(w, head, c) /\ FilesOf(w, head, d) = FilesOf(w, head, c)
  BY DEF DirOf, FilesOf
<1>2. PlanFor(w, head, d) = PlanFor(w, head, c)
  BY <1>1 DEF PlanFor, Resolve
<1>3. FileOf(w, head, d) = FileOf(w, head, c)
  BY <1>1, <1>2 DEF FileOf
<1>. QED  BY <1>2, <1>3 DEF Agree, Outcome

LEMMA PlanSaved ==
    ASSUME NEW w, NEW head, NEW c \in Config, NEW plan \in PlanSet
    PROVE  LET d == [c EXCEPT !.plan = plan]
           IN  /\ d \in Config /\ d.plan = plan
               /\ \A input : Keeps(c, input) => Keeps(d, input)
               /\ Agree(w, head, d, c)
               /\ DirOf(w, head, d) = DirOf(w, head, c)
               /\ FilesOf(w, head, d) = FilesOf(w, head, c)
               /\ ContextOf(w, head, d) = ContextOf(w, head, c)
               /\ PlanFor(w, head, d) = PlanFor(w, head, c)
<1>. DEFINE d == [c EXCEPT !.plan = plan]
<1>1. /\ d \in Config /\ d.plan = plan
      /\ d.auto = c.auto /\ d.phases = c.phases /\ d.runtime = c.runtime
      /\ d.custom = c.custom /\ d.context = c.context /\ d.appDir = c.appDir
      /\ d.env = c.env /\ d.overrides = c.overrides /\ d.params = c.params
  BY DEF Config, PlanSet
<1>. HIDE DEF d
<1>2. DirOf(w, head, d) = DirOf(w, head, c) /\ FilesOf(w, head, d) = FilesOf(w, head, c)
  BY <1>1 DEF DirOf, FilesOf
<1>3. (Plans(d) <=> Plans(c)) /\ Plan(head, d, w) = Plan(head, c, w)
  BY <1>1 DEF Plans, Plan, ManualPlan
<1>4. ContextOf(w, head, d) = ContextOf(w, head, c)
  BY <1>1, <1>2, <1>3 DEF ContextOf
<1>5. Choosable(w, head, d) <=> Choosable(w, head, c)
  BY <1>1, <1>2, <1>3 DEF Choosable
<1>6. PlanFor(w, head, d) = PlanFor(w, head, c)
  BY <1>1, <1>2, <1>4 DEF PlanFor, Resolve
<1>7. \A input : Keeps(c, input) => Keeps(d, input)
  BY <1>1 DEF Keeps
<1>8. Agree(w, head, d, c)
  BY <1>1, <1>4, <1>5, AgreeFields
<1>. QED  BY <1>1, <1>2, <1>4, <1>6, <1>7, <1>8 DEF d

LEMMA StageSaved ==
    ASSUME NEW w \in Dirs, NEW head \in Repo, NEW c \in Config, Choosable(w, head, c),
           DirOf(w, head, c) # Unset, NEW file \in Dockerfile
    PROVE  LET d == [c EXCEPT !.context = ContextOf(w, head, c), !.appDir = w,
                              !.content = file]
           IN  /\ d \in Config /\ d.plan = c.plan
               /\ \A input : Keeps(c, input) => Keeps(d, input)
               /\ Agree(w, head, d, c)
<1>. DEFINE context == ContextOf(w, head, c)
            d == [c EXCEPT !.context = context, !.appDir = w, !.content = file]
<1>0. context \in Dirs
  BY ChoiceType
<1>. HIDE DEF context
<1>1. /\ d \in Config /\ d.plan = c.plan
      /\ d.auto = c.auto /\ d.custom = c.custom /\ d.context = context
      /\ d.env = c.env /\ d.overrides = c.overrides /\ d.params = c.params
  <2>1. context \in Path /\ w \in Path
    BY <1>0 DEF Path
  <2>. QED  BY <2>1 DEF Config
<1>. HIDE DEF d
<1>2. DirOf(w, head, d) = DirOf(w, head, c)
  BY <1>1 DEF DirOf
<1>3. ContextOf(w, head, d) = ContextOf(w, head, c)
  BY <1>0, <1>1, <1>2, DirFacts DEF ContextOf, context
<1>4. Choosable(w, head, d)
  BY <1>0, <1>1, <1>2, DirFacts DEF Choosable, ContextOf, ContextAllowed, context
<1>5. \A input : Keeps(c, input) => Keeps(d, input)
  BY <1>1 DEF Keeps
<1>6. Agree(w, head, d, c)
  BY <1>1, <1>3, <1>4, AgreeFields
<1>. QED  BY <1>1, <1>5, <1>6 DEF d, context

LEMMA GenerateSaved ==
    ASSUME NEW w \in Dirs, NEW head \in Repo, NEW c \in Config, Choosable(w, head, c),
           DirOf(w, head, c) = Unset, Plans(c), NEW file \in Dockerfile
    PROVE  LET plan == Plan(head, c, w)
               d == [c EXCEPT !.phases = TRUE, !.runtime = TRUE, !.content = file,
                              !.context = plan.context, !.appDir = plan.appDir]
           IN  /\ d \in Config /\ d.plan = c.plan
               /\ \A input : Keeps(c, input) => Keeps(d, input)
               /\ Agree(w, head, d, c)
<1>. DEFINE plan == Plan(head, c, w)
            context == plan.context
            appDir == plan.appDir
            d == [c EXCEPT !.phases = TRUE, !.runtime = TRUE, !.content = file,
                           !.context = context, !.appDir = appDir]
<1>0. /\ c.custom = NoFile /\ plan.ok /\ context \in Dirs /\ appDir \in Dirs
      /\ c.context \in Path /\ c.appDir \in Path
  BY DirFacts, PlanType, ConfigFields DEF Choosable, DirOf
<1>. HIDE DEF context, appDir
<1>1. /\ d \in Config /\ d.plan = c.plan /\ d.phases = TRUE /\ d.runtime = TRUE
      /\ d.auto = c.auto /\ d.custom = c.custom /\ d.context = context
      /\ d.appDir = appDir
      /\ d.env = c.env /\ d.overrides = c.overrides /\ d.params = c.params
  <2>1. context \in Path /\ appDir \in Path
    BY <1>0 DEF Path
  <2>. QED  BY <2>1 DEF Config
<1>. HIDE DEF d
<1>2. DirOf(w, head, d) = DirOf(w, head, c)
  BY <1>1 DEF DirOf
<1>3. Plan(head, d, w).ok /\ Plan(head, d, w).context = context
  <2>1. CASE c.auto
    BY <1>0, <1>1, <2>1 DEF Plan, AutoPlan, context
  <2>2. CASE ~c.auto
    BY <1>0, <1>1, <2>2, DirFacts DEF Plan, ManualPlan, context, appDir
  <2>. QED  BY <2>1, <2>2
<1>4. ContextOf(w, head, d) = ContextOf(w, head, c)
  BY <1>0, <1>1, <1>2, <1>3 DEF ContextOf, Plans, context
<1>5. Choosable(w, head, d)
  BY <1>1, <1>2, <1>3 DEF Choosable
<1>6. \A input : Keeps(c, input) => Keeps(d, input)
  BY <1>1 DEF Keeps
<1>7. Agree(w, head, d, c)
  BY <1>1, <1>4, <1>5, AgreeFields
<1>. QED  BY <1>1, <1>6, <1>7 DEF d, context, appDir

LEMMA InspectionSaved ==
    ASSUME repo \in Repos, NEW input \in Inputs, Inspects(input), InspectionPasses(input)
    PROVE  /\ Inspected(input) \in Config
           /\ Keeps(Inspected(input), input)
           /\ Choosable(AppDir(input.workingDir), repo, Inspected(input))
<1>. DEFINE c == input.config
            w == AppDir(input.workingDir)
            dir == DockerfileDir(repo.files, w)
            Found(phases, context, plan, content) ==
              [c EXCEPT !.phases = phases, !.runtime = repo.detectable,
                        !.context = context, !.appDir = w, !.content = content,
                        !.plan = plan]
<1>1. /\ c \in Config /\ w \in Dirs /\ w \in Path /\ w # Outside
      /\ repo \in Repo /\ repo.detectable \in BOOLEAN
  BY WorkdirType, ReposAssumption, DirFacts DEF InspectionPasses, Path, Repo
<1>2. ASSUME NEW files, NEW dirs PROVE Resolve(files, repo.configs, dirs, c) \in PlanSet
  BY <1>1, ResolveType DEF PlanSet
<1>3. c.auto
  BY DEF Inspects
<1>4. CASE c.custom # NoFile
  <2>. DEFINE plan == Resolve([repo.files EXCEPT ![w] = c.custom], repo.configs, {w, w}, c)
              d == Found(FALSE, w, plan, c.custom)
  <2>1. Inspected(input) = d
    BY <1>4 DEF Inspected
  <2>2. c.custom \in File
    BY <1>1, ConfigFields, FileFacts DEF File
  <2>3. plan \in PlanSet
    BY <1>2
  <2>4. d \in Config /\ Keeps(d, input) /\ d.custom = c.custom
    <3>. HIDE DEF plan, w
    <3>1. /\ d \in Config /\ d.auto = c.auto /\ d.custom = c.custom
          /\ d.context = w
          /\ d.env = c.env /\ d.overrides = c.overrides /\ d.params = c.params
      BY <1>1, <2>2, <2>3 DEF Config, PlanSet, File
    <3>. QED  BY <3>1 DEF Keeps
  <2>. HIDE DEF d, w
  <2>. QED  BY <1>1, <1>4, <2>1, <2>4 DEF Choosable, w
<1>5. CASE c.custom = NoFile /\ dir # Unset
  <2>. DEFINE staged == Stage(repo.files[dir], c.params)
              context == IF c.context = Unset THEN Root ELSE c.context
              plan == Resolve([repo.files EXCEPT ![dir] = staged], repo.configs,
                              {context, w}, c)
              d == Found(FALSE, context, plan, staged)
  <2>1. Inspected(input) = d
    BY <1>5 DEF Inspected
  <2>2. staged \in File /\ context \in Path
    BY <1>1, <1>5, RepoFields, DockerfileDirType, ConfigFields, StageType, DirFacts
       DEF File, Path
  <2>3. plan \in PlanSet
    BY <1>2
  <2>4. d \in Config /\ Keeps(d, input) /\ d.custom = c.custom /\ d.context = context
    <3>. HIDE DEF plan, w, context, staged
    <3>1. /\ d \in Config /\ d.auto = c.auto /\ d.custom = c.custom
          /\ d.context = context
          /\ d.env = c.env /\ d.overrides = c.overrides /\ d.params = c.params
      BY <1>1, <2>2, <2>3 DEF Config, PlanSet, File
    <3>. QED  BY <3>1 DEF Keeps
  <2>5. ContextAllowed(context, w)
    BY <1>1, <1>5, DirFacts DEF InspectionPasses, ContextAllowed
  <2>6. dir = DirOf(w, repo, d)
    BY <1>5, <2>4 DEF DirOf
  <2>. HIDE DEF d, w, dir, context
  <2>. QED  BY <1>1, <1>5, <2>1, <2>4, <2>5, <2>6 DEF Choosable, w
<1>6. CASE c.custom = NoFile /\ dir = Unset
  <2>. DEFINE context == DetectedContext(repo, w)
              plan == Resolve(repo.files, repo.configs, {context, w}, c)
              content == Generated(<<>>)
              d == Found(TRUE, context, plan, content)
  <2>1. Inspected(input) = d
    BY <1>6 DEF Inspected
  <2>2. content \in File /\ context \in Path
    <3>1. <<>> \in PlanOf({})
      BY DEF PlanOf
    <3>2. <<>> \in UNION {PlanOf(S) : S \in SUBSET Keys}
      BY <3>1
    <3>. QED  BY <1>1, <3>2, BuildKeysType, DirFacts DEF File, DetectedContext, Path
  <2>3. plan \in PlanSet
    BY <1>2
  <2>4. d \in Config /\ Keeps(d, input) /\ d.custom = c.custom /\ d.auto = c.auto
    <3>. HIDE DEF plan, w, context, content
    <3>1. /\ d \in Config /\ d.auto = c.auto /\ d.custom = c.custom
          /\ d.context = context
          /\ d.env = c.env /\ d.overrides = c.overrides /\ d.params = c.params
      BY <1>1, <2>2, <2>3 DEF Config, PlanSet, File
    <3>. QED  BY <3>1 DEF Keeps
  <2>5. DirOf(w, repo, d) = Unset
    BY <1>6, <2>4 DEF DirOf
  <2>6. Plan(repo, d, w).ok
    BY <1>3, <1>6, <2>4 DEF Plan, AutoPlan, InspectionPasses
  <2>. HIDE DEF d, w, dir
  <2>. QED  BY <1>1, <1>6, <2>1, <2>4, <2>5, <2>6 DEF Choosable, w
<1>. QED  BY <1>4, <1>5, <1>6

-----------------------------------------------------------------------------
(* Steps. *)

LEMMA JobInvInit == Init => JobInv
<1>. SUFFICES ASSUME Init PROVE JobInv
  OBVIOUS
<1>1. ~Stored /\ ~Started /\ built = <<>> /\ DOMAIN built = {}
  BY DEF Init, Stored, Started
<1>2. JobTypeOK
  <2>1. /\ repo \in Repos /\ repo.files \in [Dirs -> Dockerfile \union {NoFile}]
        /\ Root \in Dirs /\ crashes \in 0..MaxCrashes
    BY ReposAssumption, RepoFields, DirFacts, CrashesAssumption DEF Init, File
  <2>2. row \in Config /\ cfg \in Config
    BY FileFacts DEF Init
  <2>3. built \in Seq(Builds)
    BY DEF Init
  <2>. QED  BY <2>1, <2>2, <2>3 DEF Init, JobTypeOK
<1>3. StatusMatches /\ ChoiceMade /\ BuildsOutcome /\ AcceptedIsBuildable
  BY <1>1 DEF Init, StatusMatches, Stored, ChoiceMade, BuildsOutcome, AcceptedIsBuildable
<1>4. RequestKept /\ AllWellBuilt /\ HeadsKnown /\ Replays /\ RerunRepeats /\ Accepted
  BY <1>1 DEF Init, RequestKept, AllWellBuilt, HeadsKnown, Replays, RerunRepeats, Accepted
<1>. QED  BY <1>2, <1>3, <1>4 DEF JobInv

\* What is known while an attempt goes on.
LEMMA Attempt ==
    ASSUME JobInv, pc # "idle"
    PROVE  /\ Stored /\ Started /\ job \in Inputs
           /\ clone.head \in Repos /\ clone.head \in Repo
           /\ clone \in [head : Repos, files : [Dirs -> File]]
           /\ cfg \in Config /\ row \in Config
           /\ Workdir # Outside => Workdir \in Dirs
           /\ Keeps(cfg, job) /\ Keeps(row, job)
<1>1. Stored /\ Started
  BY DEF JobInv, StatusMatches, Started
<1>2. job \in Inputs /\ clone \in [head : Repos, files : [Dirs -> File]]
      /\ cfg \in Config /\ row \in Config
  BY <1>1 DEF JobInv, JobTypeOK, Stored, File
<1>3. clone.head \in Repos /\ clone.head \in Repo
  BY <1>2, ReposAssumption
<1>. QED  BY <1>1, <1>2, <1>3, WorkdirType DEF JobInv, RequestKept, Workdir

\* What was built and stored stays as right as it was while an attempt moves on
\* without storing anything.
LEMMA HistoryFrame ==
    ASSUME JobInv, UNCHANGED <<repo, job, row, cfg, built, moved>>,
           clone'.head = clone.head, Stored' <=> Stored, Started' => Started
    PROVE  /\ RequestKept' /\ AllWellBuilt' /\ HeadsKnown' /\ Replays'
           /\ RerunRepeats' /\ Accepted'
<1>1. Workdir' = Workdir
  BY DEF Workdir
<1>2. RequestKept' /\ AllWellBuilt' /\ HeadsKnown' /\ RerunRepeats'
  BY DEF JobInv, RequestKept, AllWellBuilt, HeadsKnown, RerunRepeats
<1>3. Replays'
  BY <1>1 DEF JobInv, Replays
<1>4. Accepted'
  BY <1>1 DEF JobInv, Accepted, Inspects, InspectionPasses
<1>. QED  BY <1>2, <1>3, <1>4

\* The same when it stores a configuration that is the same to Run.
LEMMA SaveFrame ==
    ASSUME JobInv, UNCHANGED <<repo, job, built, moved>>, clone'.head = clone.head,
           Stored, Stored', Started, Started', row' \in {row, cfg'},
           Keeps(cfg', job), Agree(Workdir, clone.head, cfg', cfg)
    PROVE  /\ RequestKept' /\ AllWellBuilt' /\ HeadsKnown' /\ Replays'
           /\ RerunRepeats' /\ Accepted'
<1>1. Workdir' = Workdir
  BY DEF Workdir
<1>2. RequestKept' /\ AllWellBuilt' /\ HeadsKnown' /\ RerunRepeats'
  BY DEF JobInv, RequestKept, AllWellBuilt, HeadsKnown, RerunRepeats
<1>3. /\ Agree(Workdir, clone.head, cfg', row')
      /\ Agree(Workdir, clone.head, row', row)
  BY DEF JobInv, Replays, Agree
<1>4. Replays'
  BY <1>1, <1>3 DEF JobInv, Replays, Agree
<1>5. Accepted'
  <2>1. ASSUME ~moved, Inspects(job)
        PROVE  InspectionPasses(job)' /\ Choosable(Workdir, repo, row')
    BY <1>3, <2>1 DEF JobInv, Accepted, HeadsKnown, Agree, InspectionPasses
  <2>. QED  BY <1>1, <2>1 DEF Accepted, Inspects
<1>. QED  BY <1>2, <1>4, <1>5

LEMMA SubmitStep ==
    ASSUME JobInv, NEW input \in Inputs, Submit(input) PROVE JobInv'
<1>1. /\ ~Stored /\ pc = "idle" /\ built = <<>> /\ DOMAIN built = {} /\ job' = input
      /\ status' \in {"pending", "rejected"}
      /\ UNCHANGED <<repo, pc, cfg, clone, chosen, built, crashes, moved>>
  BY DEF Submit, JobInv, StatusMatches, Stored, attemptVars
<1>2. repo \in Repos /\ input.config \in Config
  BY WorkdirType DEF JobInv, JobTypeOK
<1>3. Stored' =>
         /\ row' \in Config /\ Keeps(row', input)
         /\ Inspects(input) => /\ InspectionPasses(input)
                               /\ Choosable(AppDir(input.workingDir), repo, row')
  <2>1. CASE ~Inspects(input)
    BY <1>2, <2>1 DEF Submit, Keeps
  <2>2. CASE Inspects(input) /\ InspectionPasses(input)
    BY <1>2, <2>2, InspectionSaved DEF Submit
  <2>3. CASE Inspects(input) /\ ~InspectionPasses(input)
    BY <2>3 DEF Submit, Stored
  <2>. QED  BY <2>1, <2>2, <2>3
<1>4. JobTypeOK'
  <2>1. row' \in Config
    BY <1>3 DEF Submit, Stored, JobInv, JobTypeOK
  <2>. QED  BY <1>1, <2>1 DEF JobInv, JobTypeOK
<1>5. StatusMatches' /\ ChoiceMade' /\ BuildsOutcome' /\ AcceptedIsBuildable'
  BY <1>1 DEF StatusMatches, Stored, ChoiceMade, BuildsOutcome, AcceptedIsBuildable
<1>6. RequestKept' /\ AllWellBuilt' /\ HeadsKnown' /\ Replays' /\ RerunRepeats'
  BY <1>1, <1>3
     DEF RequestKept, AllWellBuilt, HeadsKnown, Replays, RerunRepeats, Started, JobInv
<1>7. Accepted'
  BY <1>1, <1>3 DEF Accepted, Inspects, InspectionPasses, Workdir
<1>. QED  BY <1>4, <1>5, <1>6, <1>7 DEF JobInv

LEMMA TakeJobStep == ASSUME JobInv, TakeJob PROVE JobInv'
<1>1. /\ Stored /\ Stored' /\ pc' = "choose" /\ status' = "building" /\ cfg' = row
      /\ clone'.head = repo /\ clone'.files = repo.files
      /\ UNCHANGED <<repo, job, row, chosen, built, crashes, moved>>
  BY DEF TakeJob, Stored
<1>2. Workdir' = Workdir
  BY <1>1 DEF Workdir
<1>3. JobTypeOK'
  <2>1. clone' \in [head : Repos, files : [Dirs -> Dockerfile \union {NoFile}]]
    BY ReposAssumption, RepoFields DEF TakeJob, JobInv, JobTypeOK, File
  <2>. QED  BY <1>1, <2>1 DEF JobInv, JobTypeOK, Stored
<1>4. StatusMatches' /\ ChoiceMade' /\ BuildsOutcome' /\ AcceptedIsBuildable'
  BY <1>1 DEF StatusMatches, ChoiceMade, BuildsOutcome, AcceptedIsBuildable
<1>5. RequestKept' /\ AllWellBuilt' /\ HeadsKnown' /\ RerunRepeats'
  BY <1>1 DEF JobInv, RequestKept, AllWellBuilt, HeadsKnown, RerunRepeats
<1>6. Replays'
  BY <1>1, <1>2 DEF JobInv, HeadsKnown, Replays, Agree
<1>7. Accepted'
  BY <1>1, <1>2 DEF JobInv, Accepted, Inspects, InspectionPasses
<1>. QED  BY <1>3, <1>4, <1>5, <1>6, <1>7 DEF JobInv

LEMMA ChooseStep ==
    ASSUME JobInv, ChooseCustom \/ ChooseDockerfile \/ ChoosePlan PROVE JobInv'
<1>1. /\ pc = "choose" /\ pc' = "env" /\ Workdir # Outside
      /\ UNCHANGED <<repo, job, row, status, cfg, built, crashes, moved>>
      /\ clone'.head = clone.head
  BY Attempt DEF ChooseCustom, ChooseDockerfile, ChoosePlan
<1>2. /\ Stored /\ Stored' /\ Started /\ Started' /\ Workdir' = Workdir
      /\ Workdir \in Dirs /\ cfg \in Config /\ clone.head \in Repo
      /\ clone \in [head : Repos, files : [Dirs -> File]]
      /\ clone.files = clone.head.files
  BY <1>1, Attempt DEF Stored, Started, Workdir, JobInv, ChoiceMade
<1>3. /\ Choosable(Workdir, clone.head, cfg)
      /\ clone' = [head |-> clone.head, files |-> FilesOf(Workdir, clone.head, cfg)]
      /\ chosen' = [dir |-> DirOf(Workdir, clone.head, cfg),
                    context |-> ContextOf(Workdir, clone.head, cfg)]
  <2>1. CASE ChooseCustom
    BY <1>2, <2>1
       DEF ChooseCustom, CustomDockerfile, Choosable, FilesOf, DirOf, ContextOf
  <2>2. CASE ChooseDockerfile
    BY <1>2, <2>2
       DEF ChooseDockerfile, CustomDockerfile, Choosable, FilesOf, DirOf, ContextOf
  <2>3. CASE ChoosePlan
    BY <1>2, <2>3
       DEF ChoosePlan, CustomDockerfile, Choosable, FilesOf, DirOf, ContextOf
  <2>. QED  BY <2>1, <2>2, <2>3
<1>4. JobTypeOK'
  <2>1. /\ clone' \in [head : Repos, files : [Dirs -> Dockerfile \union {NoFile}]]
        /\ chosen' \in [dir : Dirs \union {Unset}, context : Dirs]
    BY <1>2, <1>3, ChoiceType DEF File
  <2>. QED  BY <1>1, <2>1 DEF JobInv, JobTypeOK
<1>5. ChoiceMade' /\ BuildsOutcome' /\ StatusMatches' /\ AcceptedIsBuildable'
  <2>1. ChoiceMade'
    BY <1>1, <1>2, <1>3 DEF ChoiceMade
  <2>. QED
    BY <1>1, <2>1 DEF BuildsOutcome, StatusMatches, Stored, AcceptedIsBuildable, JobInv
<1>. QED  BY <1>1, <1>2, <1>4, <1>5, HistoryFrame DEF JobInv

\* Why an attempt stops early, if it does: never for what the inspection let in.
LEMMA RefusalReason ==
    ASSUME JobInv, ChooseFails \/ DockerfileFails PROVE ~Inspects(job) \/ moved
<1>. SUFFICES ASSUME Inspects(job), ~moved PROVE FALSE
  OBVIOUS
<1>1. pc \in {"choose", "dockerfile"} /\ pc # "idle"
  BY DEF ChooseFails, DockerfileFails
<1>2. /\ Stored /\ Started /\ cfg \in Config /\ clone.head \in Repo /\ job \in Inputs
      /\ Keeps(cfg, job) /\ clone \in [head : Repos, files : [Dirs -> File]]
      /\ Workdir # Outside => Workdir \in Dirs
  BY <1>1, Attempt
<1>3. clone.head = repo /\ InspectionPasses(job) /\ Choosable(Workdir, clone.head, cfg)
  BY <1>2 DEF JobInv, HeadsKnown, Accepted, Replays, Agree
<1>4. CASE ChooseFails
  <2>1. clone.files = clone.head.files
    BY <1>4 DEF ChooseFails, JobInv, ChoiceMade
  <2>. QED
    BY <1>3, <1>4, <2>1 DEF ChooseFails, CustomDockerfile, Choosable, DirOf
<1>5. CASE DockerfileFails
  <2>1. /\ clone.files = FilesOf(Workdir, repo, cfg)
        /\ chosen.dir = DirOf(Workdir, repo, cfg)
    BY <1>3, <1>5 DEF DockerfileFails, JobInv, ChoiceMade
  <2>2. /\ cfg.auto /\ cfg.custom = job.config.custom /\ cfg.params = job.config.params
        /\ Workdir \in Dirs /\ Workdir = AppDir(job.workingDir)
    BY <1>2, <1>3 DEF Keeps, Inspects, Choosable, Workdir
  <2>3. CASE chosen.dir = Unset
    BY <1>5, <2>2, <2>3 DEF DockerfileFails, Plans
  <2>4. CASE chosen.dir # Unset /\ cfg.custom # NoFile
    <3>1. clone.files[chosen.dir] = cfg.custom
      BY <1>2, <1>3, <2>1, <2>2, <2>4, RepoFields DEF FilesOf, DirOf
    <3>. QED
      BY <1>3, <1>5, <2>2, <2>4, <3>1
         DEF DockerfileFails, CustomDockerfile, InspectionPasses
  <2>5. CASE chosen.dir # Unset /\ cfg.custom = NoFile
    <3>1. chosen.dir = DockerfileDir(repo.files, Workdir) /\ clone.files = repo.files
      BY <2>1, <2>5 DEF FilesOf, DirOf
    <3>. QED
      BY <1>3, <1>5, <2>2, <2>5, <3>1
         DEF DockerfileFails, CustomDockerfile, InspectionPasses
  <2>. QED  BY <2>3, <2>4, <2>5
<1>. QED  BY <1>4, <1>5

LEMMA RefuseStep == ASSUME JobInv, ChooseFails \/ DockerfileFails PROVE JobInv'
<1>1. /\ pc \in {"choose", "dockerfile"} /\ pc # "idle"
      /\ pc' = "refused" /\ status' = "failed"
      /\ UNCHANGED <<repo, job, row, cfg, clone, chosen, built, crashes, moved>>
  BY DEF ChooseFails, DockerfileFails, Refuse, attemptVars
<1>2. Stored /\ Stored' /\ Started
  BY <1>1, Attempt DEF Stored
<1>3. JobTypeOK' /\ StatusMatches' /\ ChoiceMade' /\ BuildsOutcome'
  BY <1>1, <1>2
     DEF JobInv, JobTypeOK, Stored, StatusMatches, ChoiceMade, BuildsOutcome
<1>4. AcceptedIsBuildable'
  BY <1>1, RefusalReason DEF AcceptedIsBuildable, Inspects
<1>. QED  BY <1>1, <1>2, <1>3, <1>4, HistoryFrame DEF JobInv

LEMMA ResolveEnvStep == ASSUME JobInv, ResolveEnv PROVE JobInv'
<1>. DEFINE w == Workdir
            h == clone.head
            plan == Resolve(clone.files, h.configs, {chosen.context, w}, cfg)
<1>1. /\ pc = "env" /\ pc' = "dockerfile" /\ cfg' = [cfg EXCEPT !.plan = plan]
      /\ row' \in {row, cfg'}
      /\ UNCHANGED <<repo, job, status, clone, chosen, built, crashes, moved>>
  BY DEF ResolveEnv, Save
<1>2. /\ Stored /\ Stored' /\ Started /\ Started' /\ Workdir' = w
      /\ cfg \in Config /\ row \in Config /\ Keeps(cfg, job)
  BY <1>1, Attempt DEF Stored, Started, Workdir
<1>3. /\ Choosable(w, h, cfg) /\ clone.files = FilesOf(w, h, cfg)
      /\ chosen.dir = DirOf(w, h, cfg) /\ chosen.context = ContextOf(w, h, cfg)
  BY <1>1 DEF JobInv, ChoiceMade
<1>4. plan \in PlanSet /\ plan = PlanFor(w, h, cfg)
  BY <1>2, <1>3, PlanForType DEF PlanFor, PlanSet
<1>. HIDE DEF plan
<1>5. /\ cfg' \in Config /\ cfg'.plan = plan /\ Keeps(cfg', job)
      /\ Agree(w, h, cfg', cfg)
      /\ DirOf(w, h, cfg') = DirOf(w, h, cfg) /\ FilesOf(w, h, cfg') = FilesOf(w, h, cfg)
      /\ ContextOf(w, h, cfg') = ContextOf(w, h, cfg)
      /\ PlanFor(w, h, cfg') = PlanFor(w, h, cfg)
  BY <1>1, <1>2, <1>4, PlanSaved
<1>6. JobTypeOK'
  BY <1>1, <1>2, <1>5 DEF JobInv, JobTypeOK
<1>7. ChoiceMade'
  BY <1>1, <1>2, <1>3, <1>4, <1>5 DEF ChoiceMade, Agree
<1>8. StatusMatches' /\ BuildsOutcome' /\ AcceptedIsBuildable'
  BY <1>1, <1>2 DEF JobInv, StatusMatches, Stored, BuildsOutcome, AcceptedIsBuildable
<1>. QED  BY <1>1, <1>2, <1>5, <1>6, <1>7, <1>8, SaveFrame DEF JobInv

\* A Dockerfile is written, and the configuration that says so stored.
LEMMA DockerfileWritten ==
    ASSUME JobInv, pc = "dockerfile", pc' = "build",
           UNCHANGED <<repo, job, status, built, crashes, moved>>,
           row' \in {row, cfg'}, cfg' \in Config, cfg'.plan = cfg.plan,
           \A input : Keeps(cfg, input) => Keeps(cfg', input),
           Agree(Workdir, clone.head, cfg', cfg),
           clone' \in [head : Repos, files : [Dirs -> File]], clone'.head = clone.head,
           chosen' \in [dir : Dirs \union {Unset}, context : Dirs],
           chosen'.context = ContextOf(Workdir, clone.head, cfg),
           clone'.files[chosen'.dir] = FileOf(Workdir, clone.head, cfg)
    PROVE  JobInv'
<1>. DEFINE w == Workdir
            h == clone.head
<1>1. /\ Stored /\ Stored' /\ Started /\ Started' /\ Workdir' = w
      /\ cfg \in Config /\ row \in Config /\ Keeps(cfg, job) /\ Keeps(cfg', job)
      /\ job \in Inputs /\ h \in Repos
  BY Attempt DEF Stored, Started, Workdir
<1>2. Choosable(w, h, cfg) /\ cfg.plan = PlanFor(w, h, cfg)
  BY DEF JobInv, ChoiceMade
<1>3. Choosable(w, h, cfg') /\ Outcome(w, h, cfg') = Outcome(w, h, cfg)
  BY <1>2 DEF Agree
<1>4. Given' = Outcome(w, h, cfg)
  BY <1>2 DEF Given, Outcome
<1>5. Outcome(w, h, cfg) \in Builds /\ WellBuilt(Outcome(w, h, cfg), job)
  <2>1. w = AppDir(job.workingDir) /\ w \in Dirs
    BY <1>1, <1>2, WorkdirType DEF Workdir, Choosable
  <2>. QED  BY <1>1, <1>2, <2>1, OutcomeType, OutcomeWellBuilt
<1>6. BuildsOutcome'
  <2>1. WellBuilt(Given', job')
    BY <1>4, <1>5
  <2>. QED  BY <1>1, <1>3, <1>4, <1>5, <2>1 DEF BuildsOutcome
<1>7. JobTypeOK'
  BY <1>1 DEF JobInv, JobTypeOK, File
<1>8. StatusMatches' /\ ChoiceMade' /\ AcceptedIsBuildable'
  BY <1>1 DEF JobInv, StatusMatches, Stored, ChoiceMade, AcceptedIsBuildable
<1>. QED  BY <1>1, <1>6, <1>7, <1>8, SaveFrame DEF JobInv

LEMMA StageDockerfileStep == ASSUME JobInv, StageDockerfile PROVE JobInv'
<1>. DEFINE w == Workdir
            h == clone.head
            context == ContextOf(w, h, cfg)
            file == StagedFile
<1>1. /\ pc = "dockerfile" /\ pc' = "build" /\ chosen.dir # Unset
      /\ clone' = [clone EXCEPT !.files[chosen.dir] = file]
      /\ cfg' = [cfg EXCEPT !.context = chosen.context, !.appDir = w, !.content = file]
      /\ row' \in {row, cfg'}
      /\ UNCHANGED <<repo, job, status, chosen, built, crashes, moved>>
  BY DEF StageDockerfile, Save
<1>2. /\ cfg \in Config /\ h \in Repo
      /\ clone \in [head : Repos, files : [Dirs -> File]]
      /\ chosen \in [dir : Dirs \union {Unset}, context : Dirs]
  BY <1>1, Attempt DEF JobInv, JobTypeOK
<1>3. /\ Choosable(w, h, cfg) /\ clone.files = FilesOf(w, h, cfg)
      /\ chosen.dir = DirOf(w, h, cfg) /\ chosen.context = context
  BY <1>1 DEF JobInv, ChoiceMade
<1>4. w \in Dirs /\ chosen.dir \in Dirs
  BY <1>1, <1>2, <1>3, Attempt DEF Choosable
<1>5. file = FileOf(w, h, cfg)
  <2>1. CASE cfg.custom # NoFile
    BY <1>2, <1>3, <1>4, <2>1, RepoFields
       DEF StagedFile, CustomDockerfile, FileOf, FilesOf, DirOf
  <2>2. CASE cfg.custom = NoFile
    BY <1>1, <1>3, <2>2 DEF StagedFile, CustomDockerfile, FileOf, FilesOf
  <2>. QED  BY <2>1, <2>2
<1>6. file \in Dockerfile
  <2>1. h \in Repos
    BY <1>1, Attempt
  <2>. QED  BY <1>2, <1>3, <1>4, <1>5, <2>1, OutcomeType DEF Outcome, Builds
<1>. HIDE DEF file
<1>7. /\ cfg' \in Config /\ cfg'.plan = cfg.plan
      /\ \A input : Keeps(cfg, input) => Keeps(cfg', input)
      /\ Agree(w, h, cfg', cfg)
  <2>. DEFINE d == [cfg EXCEPT !.context = ContextOf(w, h, cfg), !.appDir = w,
                               !.content = file]
  <2>1. cfg' = d
    BY <1>1, <1>3
  <2>2. /\ d \in Config /\ d.plan = cfg.plan
        /\ \A input : Keeps(cfg, input) => Keeps(d, input)
        /\ Agree(w, h, d, cfg)
    <3>1. DirOf(w, h, cfg) # Unset
      BY <1>1, <1>3
    <3>. HIDE DEF w, h
    <3>. QED  BY <1>2, <1>3, <1>4, <1>6, <3>1, StageSaved
  <2>. HIDE DEF d
  <2>. QED  BY <2>1, <2>2
<1>8. /\ clone' \in [head : Repos, files : [Dirs -> File]] /\ clone'.head = h
      /\ clone'.files[chosen.dir] = file
  BY <1>1, <1>2, <1>4, <1>6 DEF File
<1>. QED  BY <1>1, <1>2, <1>3, <1>5, <1>7, <1>8, DockerfileWritten

LEMMA GenerateDockerfileStep == ASSUME JobInv, GenerateDockerfile PROVE JobInv'
<1>. DEFINE w == Workdir
            h == clone.head
            plan == Plan(h, cfg, w)
            file == Generated(cfg.plan)
<1>1. /\ pc = "dockerfile" /\ pc' = "build" /\ chosen.dir = Unset /\ Plans(cfg)
      /\ clone' = [clone EXCEPT !.files[plan.context] = file]
      /\ chosen' = [dir |-> plan.context, context |-> plan.context]
      /\ cfg' = [cfg EXCEPT !.phases = TRUE, !.runtime = TRUE, !.content = file,
                            !.context = plan.context, !.appDir = plan.appDir]
      /\ row' \in {row, cfg'}
      /\ UNCHANGED <<repo, job, status, built, crashes, moved>>
  BY DEF GenerateDockerfile, Save
<1>2. /\ cfg \in Config /\ h \in Repo
      /\ clone \in [head : Repos, files : [Dirs -> File]]
  BY <1>1, Attempt
<1>3. /\ Choosable(w, h, cfg) /\ Unset = DirOf(w, h, cfg)
      /\ cfg.plan = PlanFor(w, h, cfg)
  BY <1>1 DEF JobInv, ChoiceMade
<1>4. w \in Dirs /\ cfg.custom = NoFile
  BY <1>1, <1>2, <1>3, Attempt, DirFacts DEF Choosable, DirOf
<1>5. file = FileOf(w, h, cfg) /\ plan.context = ContextOf(w, h, cfg)
  BY <1>1, <1>3, <1>4 DEF FileOf, ContextOf
<1>6. file \in Dockerfile /\ plan.context \in Dirs
  BY <1>2, <1>3, <1>4, <1>5, ChoiceType, PlanForType, BuildKeysType
<1>. HIDE DEF file
<1>7. /\ cfg' \in Config /\ cfg'.plan = cfg.plan
      /\ \A input : Keeps(cfg, input) => Keeps(cfg', input)
      /\ Agree(w, h, cfg', cfg)
  <2>. DEFINE d == [cfg EXCEPT !.phases = TRUE, !.runtime = TRUE, !.content = file,
                               !.context = plan.context, !.appDir = plan.appDir]
  <2>1. cfg' = d
    BY <1>1
  <2>2. /\ d \in Config /\ d.plan = cfg.plan
        /\ \A input : Keeps(cfg, input) => Keeps(d, input)
        /\ Agree(w, h, d, cfg)
    <3>1. Plans(cfg)
      BY <1>1
    <3>. HIDE DEF w, h
    <3>. QED  BY <1>2, <1>3, <1>4, <1>6, <3>1, GenerateSaved
  <2>. HIDE DEF d
  <2>. QED  BY <2>1, <2>2
<1>. HIDE DEF plan
<1>8. /\ clone' \in [head : Repos, files : [Dirs -> File]] /\ clone'.head = h
      /\ clone'.files[chosen'.dir] = file
      /\ chosen' \in [dir : Dirs \union {Unset}, context : Dirs]
  BY <1>1, <1>2, <1>6 DEF File
<1>. QED  BY <1>1, <1>3, <1>5, <1>7, <1>8, DockerfileWritten

\* What hubcell is given is the next of the builds.
LEMMA BuiltGrows ==
    ASSUME JobInv, Hubcell
    PROVE  /\ Given \in Builds /\ built' \in Seq(Builds)
           /\ \A i \in DOMAIN built' :
                 \/ built'[i] = Given
                 \/ i \in DOMAIN built /\ built'[i] = built[i]
<1>1. /\ pc = "build" /\ built' = Append(built, Given)
  BY DEF Hubcell, Given
<1>2. built \in Seq(Builds) /\ Given \in Builds
  BY <1>1 DEF JobInv, JobTypeOK, BuildsOutcome
<1>3. /\ built' \in Seq(Builds) /\ Len(built') = Len(built) + 1
      /\ \A i \in 1..Len(built) : built'[i] = built[i]
      /\ built'[Len(built) + 1] = Given
  BY <1>1, <1>2, AppendProperties
<1>4. /\ DOMAIN built' = 1..(Len(built) + 1) /\ DOMAIN built = 1..Len(built)
      /\ Len(built) \in Nat
  BY <1>2, <1>3, LenProperties
<1>. QED  BY <1>2, <1>3, <1>4

LEMMA HubcellStep == ASSUME JobInv, Hubcell PROVE JobInv'
<1>. DEFINE w == Workdir
            h == clone.head
<1>1. /\ pc = "build" /\ pc' = "verdict"
      /\ UNCHANGED <<repo, job, row, status, cfg, clone, chosen, crashes, moved>>
  BY DEF Hubcell, attemptVars
<1>2. Stored /\ Stored' /\ Started /\ Started' /\ Workdir' = w
  BY <1>1, Attempt DEF Stored, Started, Workdir
<1>3. /\ Given \in Builds /\ built' \in Seq(Builds)
      /\ \A i \in DOMAIN built' :
            \/ built'[i] = Given
            \/ i \in DOMAIN built /\ built'[i] = built[i]
  BY BuiltGrows
<1>4. /\ Choosable(w, h, cfg) /\ Given = Outcome(w, h, cfg) /\ WellBuilt(Given, job)
      /\ Given.head = h
  BY <1>1 DEF JobInv, BuildsOutcome, Given
<1>5. Choosable(w, h, row) /\ Given = Outcome(w, h, row)
  BY <1>2, <1>4 DEF JobInv, Replays, Agree
<1>6. Replays'
  <2>1. Agree(w, h, cfg, row)
    BY <1>2 DEF JobInv, Replays
  <2>2. ASSUME NEW i \in DOMAIN built', built'[i].head = h
        PROVE  built'[i] = Outcome(w, h, row)
    BY <1>3, <1>5, <2>2 DEF JobInv, Replays
  <2>. QED  BY <1>1, <1>2, <1>5, <2>1, <2>2 DEF Replays
<1>7. HeadsKnown'
  BY <1>1, <1>3, <1>4 DEF JobInv, HeadsKnown
<1>8. RerunRepeats'
  <2>1. ASSUME NEW i \in DOMAIN built', built'[i].head = h
        PROVE  built'[i] = Outcome(w, h, row)
    BY <1>1, <1>2, <1>6, <2>1 DEF Replays
  <2>2. ASSUME NEW i \in DOMAIN built', built'[i].head # h
        PROVE  i \in DOMAIN built /\ built'[i] = built[i]
    BY <1>3, <1>4, <2>2
  <2>3. ASSUME NEW i \in DOMAIN built', NEW j \in DOMAIN built',
               built'[i].head = built'[j].head
        PROVE  built'[i] = built'[j]
    <3>1. CASE built'[i].head = h
      BY <2>1, <2>3, <3>1
    <3>2. CASE built'[i].head # h
      BY <2>2, <2>3, <3>2 DEF JobInv, RerunRepeats
    <3>. QED  BY <3>1, <3>2
  <2>. QED  BY <2>3 DEF RerunRepeats
<1>9. AllWellBuilt'
  BY <1>1, <1>3, <1>4 DEF JobInv, AllWellBuilt
<1>10. RequestKept' /\ Accepted'
  BY <1>1, <1>2 DEF JobInv, RequestKept, Accepted, Inspects, InspectionPasses
<1>11. JobTypeOK' /\ StatusMatches' /\ ChoiceMade' /\ BuildsOutcome' /\ AcceptedIsBuildable'
  BY <1>1, <1>2, <1>3
     DEF JobInv, JobTypeOK, StatusMatches, Stored, ChoiceMade, BuildsOutcome,
         AcceptedIsBuildable
<1>. QED  BY <1>6, <1>7, <1>8, <1>9, <1>10, <1>11 DEF JobInv

LEMMA FinishStep == ASSUME JobInv, Finish PROVE JobInv'
<1>1. /\ pc = "verdict" /\ pc # "idle" /\ pc' = "done"
      /\ status' \in {"success", "failed"}
      /\ UNCHANGED <<repo, job, row, cfg, clone, chosen, built, crashes, moved>>
  BY DEF Finish, attemptVars
<1>2. Stored /\ Stored' /\ Started
  BY <1>1, Attempt DEF Stored
<1>3. JobTypeOK' /\ StatusMatches' /\ ChoiceMade' /\ BuildsOutcome' /\ AcceptedIsBuildable'
  BY <1>1, <1>2
     DEF JobInv, JobTypeOK, Stored, StatusMatches, ChoiceMade, BuildsOutcome,
         AcceptedIsBuildable
<1>. QED  BY <1>1, <1>2, <1>3, HistoryFrame DEF JobInv

\* What survives of an attempt is what it stored.
LEMMA CrashStep == ASSUME JobInv, Crash PROVE JobInv'
<1>1. /\ status = "building" /\ pc' = "idle" /\ status' = "pending"
      /\ crashes' = crashes + 1 /\ crashes < MaxCrashes
      /\ UNCHANGED <<repo, job, row, cfg, clone, chosen, built, moved>>
  BY DEF Crash, attemptVars
<1>2. Stored /\ Stored' /\ ~Started'
  BY <1>1 DEF Stored, Started
<1>3. JobTypeOK'
  <2>1. crashes' \in 0..MaxCrashes
    BY <1>1, CrashesAssumption DEF JobInv, JobTypeOK
  <2>. QED  BY <1>1, <1>2, <2>1 DEF JobInv, JobTypeOK, Stored
<1>4. StatusMatches' /\ ChoiceMade' /\ BuildsOutcome' /\ AcceptedIsBuildable'
  BY <1>1, <1>2 DEF StatusMatches, Stored, ChoiceMade, BuildsOutcome, AcceptedIsBuildable
<1>. QED  BY <1>1, <1>2, <1>3, <1>4, HistoryFrame DEF JobInv

LEMMA PushStep == ASSUME JobInv, Push PROVE JobInv'
<1>1. /\ ~moved /\ moved' = TRUE /\ repo' \in Repos
      /\ UNCHANGED <<job, row, status, pc, cfg, clone, chosen, built, crashes>>
  BY DEF Push, attemptVars
<1>2. Workdir' = Workdir /\ (Stored' <=> Stored) /\ (Started' <=> Started)
  BY <1>1 DEF Workdir, Stored, Started
<1>3. HeadsKnown'
  BY <1>1 DEF JobInv, HeadsKnown
<1>4. JobTypeOK' /\ StatusMatches' /\ RequestKept' /\ AllWellBuilt' /\ RerunRepeats'
  BY <1>1, <1>2
     DEF JobInv, JobTypeOK, StatusMatches, RequestKept, AllWellBuilt, RerunRepeats
<1>5. ChoiceMade' /\ Replays'
  BY <1>1, <1>2 DEF JobInv, ChoiceMade, Replays
<1>6. BuildsOutcome'
  <2>1. Given' = Given
    BY <1>1 DEF Given
  <2>. QED  BY <1>1, <1>2, <2>1 DEF JobInv, BuildsOutcome
<1>7. Accepted' /\ AcceptedIsBuildable'
  BY <1>1 DEF Accepted, AcceptedIsBuildable
<1>. QED  BY <1>3, <1>4, <1>5, <1>6, <1>7 DEF JobInv

LEMMA JobInvStep == JobInv /\ [Next]_vars => JobInv'
<1>. SUFFICES ASSUME JobInv, [Next]_vars PROVE JobInv'
  OBVIOUS
<1>1. CASE \E input \in Inputs : Submit(input)
  BY <1>1, SubmitStep
<1>2. CASE Worker
  BY <1>2, TakeJobStep, ChooseStep, RefuseStep, ResolveEnvStep, StageDockerfileStep,
     GenerateDockerfileStep, HubcellStep, FinishStep DEF Worker
<1>3. CASE Crash
  BY <1>3, CrashStep
<1>4. CASE Push
  BY <1>4, PushStep
<1>5. CASE UNCHANGED vars
  <2>1. UNCHANGED <<repo, job, row, status, pc, cfg, clone, chosen, built, crashes, moved>>
    BY <1>5 DEF vars
  <2>2. /\ Workdir' = Workdir /\ (Stored' <=> Stored) /\ (Started' <=> Started)
        /\ Given' = Given
    BY <2>1 DEF Workdir, Stored, Started, Given
  <2>3. /\ JobTypeOK' /\ StatusMatches' /\ ChoiceMade' /\ BuildsOutcome'
        /\ AcceptedIsBuildable'
    BY <2>1, <2>2
       DEF JobInv, JobTypeOK, StatusMatches, ChoiceMade, BuildsOutcome,
           AcceptedIsBuildable, Inspects
  <2>. QED  BY <2>1, <2>2, <2>3, HistoryFrame DEF JobInv
<1>. QED  BY <1>1, <1>2, <1>3, <1>4, <1>5 DEF Next

-----------------------------------------------------------------------------
(* Theorems. *)

\* What an attempt gives hubcell is what Run makes of the head it cloned and of the
\* stored configuration, whatever earlier attempts and the inspection have stored in
\* it, for every repository and every request (server.go, CreateJobHandler;
\* worker.go, Run).
THEOREM JobInvariant == Spec => []JobInv
<1>. QED  BY JobInvInit, JobInvStep, PTL DEF Spec

\* A job that runs again after a crash builds the same, unless the head has moved.
THEOREM RerunsRepeat == Spec => []RerunRepeats
<1>1. JobInv => RerunRepeats
  BY DEF JobInv
<1>. QED  BY <1>1, JobInvariant, PTL

\* A custom Dockerfile is built as it was sent, in the working directory, whatever
\* the repository holds and however often the job is run.
THEOREM CustomWins == Spec => []CustomIsBuilt
<1>1. JobInv => CustomIsBuilt
  BY DEF JobInv, AllWellBuilt, WellBuilt, CustomIsBuilt, Workdir
<1>. QED  BY <1>1, JobInvariant, PTL

\* The context of a Dockerfile of the repository holds the working directory.
THEOREM ContextsHoldApp == Spec => []ContextHoldsApp
<1>1. JobInv => ContextHoldsApp
  BY DEF JobInv, AllWellBuilt, WellBuilt, ContextHoldsApp, Workdir
<1>. QED  BY <1>1, JobInvariant, PTL

\* The worker refuses nothing that the inspection of CreateJobHandler let in, unless
\* the head has moved since.
THEOREM AcceptedGetBuilt == Spec => []AcceptedIsBuildable
<1>1. JobInv => AcceptedIsBuildable
  BY DEF JobInv
<1>. QED  BY <1>1, JobInvariant, PTL

\* A generated Dockerfile declares no argument for a key that is secret.
THEOREM SecretsStayOut == Spec => []SecretsAreNoArgs
<1>1. JobInv => SecretsAreNoArgs
  BY DEF JobInv, AllWellBuilt, WellBuilt, SecretsAreNoArgs
<1>. QED  BY <1>1, JobInvariant, PTL
=============================================================================
