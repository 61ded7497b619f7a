----------------------------- MODULE MCJobBuild -----------------------------
(* Instances of JobBuild for TLC. *)
EXTENDS JobBuildInv

MCDirs  == {".", "app", "app/web", "lib"}
MCAbove == [d \in MCDirs |-> {".", d} \union IF d = "app/web" THEN {"app"} ELSE {}]

MCKeys     == {"VITE_URL", "DB_URL", "PORT", "TOKEN", "a-b"}
MCPublic   == {"VITE_URL"}
MCRuntime  == {"DB_URL", "PORT"}
MCNoSecret == {"PORT"}
MCBad      == {"a-b"}

File(by, args, refs, dev) ==
    [by |-> by, args |-> args, refs |-> refs, dev |-> dev, params |-> {}]

\* Repositories: with Dockerfiles f, and keys named in the configuration of the app.
With(f, named, workspace, detectable) ==
    [files |-> [d \in MCDirs |-> IF d \in DOMAIN f THEN f[d] ELSE NoFile],
     configs |-> [d \in MCDirs |-> IF d = "app/web" THEN named ELSE {}],
     workspace |-> workspace, detectable |-> detectable]

MCRepos ==
    {With(<<>>, {"TOKEN"}, TRUE, TRUE),
     With(<<>>, {}, FALSE, TRUE),
     With(<<>>, {}, FALSE, FALSE),
     With([d \in {"."} |-> File("repo", {"TOKEN"}, {}, FALSE)], {}, FALSE, TRUE),
     With([d \in {"app/web"} |-> File("repo", {}, {"DB_URL"}, FALSE)], {}, TRUE, FALSE),
     With([d \in {".", "app/web"} |-> File("repo", {}, {}, d = "app/web")], {}, FALSE, TRUE)}

Envs == {"VITE_URL", "DB_URL", "PORT", "TOKEN"}

MCOverrides ==
    {<<>>,
     [k \in {"TOKEN"} |-> [scope |-> "build", secret |-> "no"]],
     [k \in {"DB_URL", "PORT"} |-> [scope |-> "both", secret |-> IF k = "PORT" THEN "yes" ELSE Unset]]}

Blank == [NoConfig EXCEPT !.env = Envs]

AutoConfigs ==
    {[Blank EXCEPT !.auto = TRUE, !.context = c, !.params = p] :
        c \in {Unset, "app", "lib", Outside}, p \in {{}, {"TOKEN"}, {"a-b"}}}
    \union {[Blank EXCEPT !.auto = TRUE, !.overrides = o] : o \in MCOverrides}

CustomConfigs ==
    {[Blank EXCEPT !.auto = a, !.custom = File("custom", {}, {}, dev), !.params = p] :
        a \in BOOLEAN, dev \in BOOLEAN, p \in {{}, {"TOKEN"}}}

ManualConfigs ==
    {[Blank EXCEPT !.phases = ph, !.runtime = r, !.context = c, !.appDir = a] :
        ph \in BOOLEAN, r \in BOOLEAN, c \in {Unset, "app", "lib", Outside},
        a \in {Unset, "app", Outside}}

MCInputs ==
    [workingDir : {Unset, "app/web", Outside},
     config : AutoConfigs \union CustomConfigs, by : {"CreateJob", "CreateBuildV1"}]
    \union [workingDir : {Unset, "app/web"}, config : ManualConfigs, by : {"CreateJob"}]
=============================================================================
