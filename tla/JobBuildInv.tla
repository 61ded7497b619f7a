----------------------------- MODULE JobBuildInv -----------------------------
(***************************************************************************)
(* The inductive invariant behind the properties of JobBuild: what an        *)
(* attempt gives hubcell is a function (Outcome) of the head it has cloned    *)
(* and of the configuration it started from, and nothing that an attempt      *)
(* stores changes that function's value. MCJobBuild checks the invariant on   *)
(* small instances, JobBuildProofs proves it.                                 *)
(***************************************************************************)
EXTENDS JobBuild

-----------------------------------------------------------------------------
(* What Run makes of a head and a configuration, in the working directory w. *)

DirOf(w, head, c) ==
    IF c.custom # NoFile THEN w ELSE DockerfileDir(head.files, w)

ContextOf(w, head, c) ==
    CASE c.custom # NoFile -> w
      [] c.custom = NoFile /\ DirOf(w, head, c) # Unset ->
            IF c.context = Unset THEN Root ELSE c.context
      [] OTHER -> IF Plans(c) THEN Plan(head, c, w).context ELSE w

FilesOf(w, head, c) ==
    IF c.custom # NoFile THEN [head.files EXCEPT ![w] = c.custom] ELSE head.files

PlanFor(w, head, c) ==
    Resolve(FilesOf(w, head, c), head.configs, {ContextOf(w, head, c), w}, c)

FileOf(w, head, c) ==
    CASE c.custom # NoFile -> c.custom
      [] c.custom = NoFile /\ DirOf(w, head, c) # Unset ->
            Stage(head.files[DirOf(w, head, c)], c.params)
      [] OTHER -> Generated(PlanFor(w, head, c))

Outcome(w, head, c) ==
    [head |-> head, file |-> FileOf(w, head, c), context |-> ContextOf(w, head, c),
     env |-> BuildKeys(PlanFor(w, head, c))]

\* Does the choice of a Dockerfile succeed?
Choosable(w, head, c) ==
    /\ w # Outside
    /\ c.custom = NoFile =>
          IF DirOf(w, head, c) # Unset
          THEN c.context = Unset \/ ContextAllowed(c.context, w)
          ELSE Plans(c) => Plan(head, c, w).ok

\* Two configurations that are the same to Run.
Agree(w, head, c, d) ==
    /\ Choosable(w, head, c) <=> Choosable(w, head, d)
    /\ Choosable(w, head, c) => Outcome(w, head, c) = Outcome(w, head, d)

\* A configuration with what the request asked for.
Keeps(c, input) ==
    /\ c.auto = input.config.auto
    /\ c.custom = input.config.custom
    /\ c.params = input.config.params
    /\ c.overrides = input.config.overrides
    /\ c.env = input.config.env

\* The properties of a build, one by one.
WellBuilt(b, input) ==
    /\ input.config.custom # NoFile =>
          b.file = input.config.custom /\ b.context = AppDir(input.workingDir)
    /\ b.file.by = "repo" => b.context \in Above[AppDir(input.workingDir)]
    /\ b.file.by = "generated" =>
          \A key \in b.file.args :
             IF key \in DOMAIN input.config.overrides
                /\ input.config.overrides[key].secret # Unset
             THEN input.config.overrides[key].secret = "no"
             ELSE key \in PublicKeys \union NonSecretKeys \union
                          DeclaredIn(b.head.files, Dirs)

-----------------------------------------------------------------------------
(* The invariant. *)

Stored  == status \notin {"none", "rejected"}
Started == pc # "idle"

StatusMatches ==
    /\ pc \in {"choose", "env", "dockerfile", "build", "verdict"} <=> status = "building"
    /\ ~Stored => pc = "idle" /\ built = <<>>

\* What is stored in the configuration leaves the request's part alone.
RequestKept == Stored => Keeps(row, job) /\ (Started => Keeps(cfg, job))

ChoiceMade ==
    /\ pc = "choose" => clone.files = clone.head.files
    /\ pc \in {"env", "dockerfile"} =>
          /\ Choosable(Workdir, clone.head, cfg)
          /\ clone.files = FilesOf(Workdir, clone.head, cfg)
          /\ chosen.dir = DirOf(Workdir, clone.head, cfg)
          /\ chosen.context = ContextOf(Workdir, clone.head, cfg)
    /\ pc = "dockerfile" => cfg.plan = PlanFor(Workdir, clone.head, cfg)

\* What hubcell is about to be given.
Given == [head |-> clone.head, file |-> clone.files[chosen.dir],
          context |-> chosen.context, env |-> BuildKeys(cfg.plan)]
BuildsOutcome ==
    pc = "build" =>
        /\ Choosable(Workdir, clone.head, cfg)
        /\ Given = Outcome(Workdir, clone.head, cfg)
        /\ Given \in Builds
        /\ WellBuilt(Given, job)

AllWellBuilt == \A i \in DOMAIN built : WellBuilt(built[i], job)

\* There are at most two heads, the clone's and a later one.
HeadsKnown ==
    /\ ~moved => clone.head = repo /\ \A i \in DOMAIN built : built[i].head = repo
    /\ clone.head # repo => \A i \in DOMAIN built : built[i].head = clone.head

\* The stored configuration and the worker's agree, and what was built of the
\* clone's head is what they would have built.
Replays ==
    /\ Started => Agree(Workdir, clone.head, cfg, row)
    /\ \A i \in DOMAIN built : built[i].head = clone.head =>
          /\ Choosable(Workdir, clone.head, row)
          /\ built[i] = Outcome(Workdir, clone.head, row)

\* What the inspection found is still so, until the head moves.
Accepted ==
    ~moved /\ Stored /\ Inspects(job) =>
        InspectionPasses(job) /\ Choosable(Workdir, repo, row)

JobInv == /\ JobTypeOK
          /\ StatusMatches
          /\ RequestKept
          /\ ChoiceMade
          /\ BuildsOutcome
          /\ AllWellBuilt
          /\ HeadsKnown
          /\ Replays
          /\ RerunRepeats
          /\ Accepted
          /\ AcceptedIsBuildable
=============================================================================
