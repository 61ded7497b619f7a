---------------------------- MODULE MCImageBuild ----------------------------
(* Instances of ImageBuild for TLC: repositories by family. *)
EXTENDS ImageLimits

Alone(f)     == [dir |-> Root, root |-> f, app |-> f]
Nested(r, f) == [dir |-> App, root |-> r, app |-> f]
Monorepo     == {"package.json", "workspaces"}

\* Managers, lock files, install scripts and layouts.
Locks == {"package-lock.json", "pnpm-lock.yaml"}
Apps  == {{"package.json", "build", "start"}, {"package.json", "build", "next"},
          {"package.json", "build", "next", "sharp", "pm:pnpm"}}
Installs ==
    {Alone(a \union l \union s) : a \in Apps, l \in SUBSET Locks, s \in SUBSET {"postinstall"}}
    \union {Nested(r, a) : r \in {{}, {"package.json"}}, a \in Apps}
    \union {Nested(Monorepo \union l \union m, a \union k \union s) :
                a \in Apps, l \in SUBSET Locks, k \in SUBSET Locks, m \in SUBSET {"pm:pnpm"},
                s \in SUBSET {"postinstall"}}

\* Frameworks, their settings and scripts.
Settings ==
    [angular |-> {"ssr", "serve:ssr", "build:ssr"}, astro |-> {"ssr"}, remix |-> {"no ssr"},
     sveltekit |-> {"adapter-static", "adapter-auto", "pages"}, nuxt |-> {"generate", "prerendered"},
     vite |-> {"vite start"}, next |-> {"sharp"}, react |-> {"express", "@nestjs/core"},
     fastify |-> {"web:build", "server.js"}]
FrameworkApps ==
    {{"package.json", n} \union s \union t :
        <<n, s, t>> \in UNION {{n} \X (SUBSET Settings[n]) \X (SUBSET {"build", "start"}) :
                                n \in DOMAIN Settings}}
Frameworks ==
    {Alone(a) : a \in FrameworkApps}
    \union {Nested(Monorepo \union m, a \union s) :
                a \in FrameworkApps, m \in SUBSET {"pm:pnpm"}, s \in SUBSET {"postinstall"}}

\* Prisma and Playwright, Node and Bun.
Extras ==
    {Alone({"package.json", "build", "start"} \union e) :
        e \in SUBSET {"@prisma/client", "schema.prisma", "playwright", "bun.lock"}}
    \union {Nested(Monorepo \union r, {"package.json", "build", "start"} \union e) :
        r \in SUBSET {"schema.prisma"}, e \in SUBSET {"@prisma/client", "schema.prisma", "bun.lock"}}

Some(base, more) == {Alone(base \union s) : s \in SUBSET more}

Compiled ==
    Some({"go.mod"}, {"main.go", "cmd", "go.work"})
    \union Some({"Cargo.toml"}, {"axum"})
    \union Some({"App.csproj"}, {})
    \union Some({}, {"pom.xml", "build.gradle", "mvnw", "gradlew", "quarkus"})
    \union Some({"build.gradle.kts"}, {"gradlew"})
    \union Some({"mix.exs"}, {"phoenix", "distillery", "hex", "releases"})
    \union Some({"index.html"}, {})

Pythons ==
    Some({"main.py", "requirements.txt"},
         {"fastapi", "flask", "uvicorn", "gunicorn", "psycopg2", "playwright", "setup.py"})
    \union Some({"pyproject.toml"}, {"poetry.lock", "main.py"})
    \union Some({"pyproject.toml", "main.py", "flask"}, {"poetry.lock", "gunicorn"})
    \union Some({"requirements.txt", "manage.py"}, {"wsgi.py", "gunicorn", "psycopg2"})
    \union Some({"requirements.txt"}, {"wsgi.py", "asgi.py", "manage.py", "hypercorn", "gunicorn"})
    \union Some({"app.py", "flask"}, {"requirements.in", "Pipfile", "Pipfile.lock", "gunicorn"})
    \union Some({"run.py", "fastapi"}, {"requirements.txt", "Pipfile", "Pipfile.lock", "hypercorn", "uvicorn"})
    \union Some({"pyproject.toml"}, {"server.py", "__main__.py", "fastapi", "flask", "uvicorn", "gunicorn"})

PHPs ==
    Some({"composer.json", "index.php"}, {"artisan", "public/index.php", "worker.php", "nginx.conf", ".htaccess"})
    \union Some({"index.php", "package.json", "build"},
                {"composer.json", "pm:pnpm", "package-lock.json", "nginx.conf"})
    \union Some({"artisan"}, {"composer.json", "public/index.php", "worker.php"})
    \union Some({"bin/console"}, {"composer.json", "web/index.php", "index.php", "nginx.conf"})
    \union Some({}, {"app.php", "server.php", "main.php", "web/index.php", "index.html"})
    \union Some({"public/index.php", "package.json"}, {"build", "web:build", "composer.json"})

MCProjects ==
    Installs \union Frameworks \union Extras \union Compiled
    \union Pythons \union PHPs
    \union {Nested(r, {"main.py"}) : r \in {{"requirements.txt"}, {"go.mod"}, {"package.json"}}}

Script1 == <<Cmd("sh", "custom")>>
MCSubmissions ==
    {[fields |-> DOMAIN Blank, more |-> <<>>], [fields |-> DOMAIN Blank, more |-> Script1],
     [fields |-> {"runtime", "install", "build", "run"}, more |-> <<>>],
     [fields |-> {"run"}, more |-> <<>>]}

=============================================================================
