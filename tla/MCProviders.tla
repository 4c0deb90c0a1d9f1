------------------------------ MODULE MCProviders ------------------------------
(***************************************************************************)
(* The providers explored by one run of TLC: the npm registry's            *)
(* (NpmRegistry) and the others (Providers).  The two share no state, so   *)
(* each is explored with the other at rest.                                *)
(***************************************************************************)
EXTENDS MCNpmRegistry, Providers

Url(host, path) == [host |-> host, path |-> path]

\* What the services have on a package that is in none of their catalogues.
Obscure ==
  [system |-> "pypi", name |-> "obscure", vulns |-> {}, licenses |-> {}, links |-> <<>>,
   home |-> {}, files |-> <<>>, yanked |-> FALSE]

Entry(dir, file, findings) ==
  [dir |-> dir, file |-> file, python |-> file # "pyproject.toml", findings |-> findings,
   backends |-> {}, readable |-> TRUE]

Project(backends) == [Entry(<<"top">>, "pyproject.toml", {}) EXCEPT !.backends = backends]

Archive(size, entries) == [size |-> size, entries |-> entries]

File(type, archive, digest) ==
  [sdist |-> type # "whl", type |-> type, name |-> "file", at |-> 1, archive |-> archive,
   other |-> Archive(1, <<>>), digest |-> digest]

\* A legacy setup.py and another one, a backend in the tree, one that takes the whole
\* tree, one whose configuration does not parse, and an archive that is too large.
Legacy == Archive(2, <<Entry(<<"top">>, "setup.py", {"curl"}), Entry(<<"top", "tests">>, "setup.py", {"wget"})>>)
Backend == Archive(2, <<Entry(<<"top", "build">>, "hooks.py", {"exec"}),
                        Project({<<".", "build">>, <<"..", "else">>}),
                        Entry(<<"top", "src">>, "main.py", {"eval"})>>)
Whole == Archive(1, <<Project({<<".">>}), Entry(<<"top">>, "hooks.py", {"exec"})>>)
\* One with a module at an absolute path, one with no top directory, and one with the
\* project file of a test before its own.
Absolute == Archive(2, <<Project({<<"build">>}), Entry(<<"/", "top", "build">>, "odd.py", {"exec"}),
                         Entry(<<"top", "build">>, "hooks.py", {"eval"})>>)
Flat == Archive(2, <<Entry(<<"build">>, "hooks.py", {"exec"}), Entry(<<>>, "setup.py", {"curl"}),
                     [Project({<<"build">>}) EXCEPT !.dir = <<>>]>>)
Nested == Archive(2, <<[Project({<<"fixture">>}) EXCEPT !.dir = <<"top", "tests">>], Project({<<"build">>}),
                       Entry(<<"top", "build">>, "hooks.py", {"exec"})>>)
Torn == Archive(1, <<[Project({}) EXCEPT !.readable = FALSE]>>)
Huge == Archive(9, <<Entry(<<"top">>, "setup.py", {"curl"})>>)

Released(name, files) == [Obscure EXCEPT !.name = name, !.files = files]

MCCatalogue ==
  "obscure" :> Obscure
  @@ "lib" :> [Obscure EXCEPT !.system = "npm", !.name = "lib", !.licenses = {"MIT"},
                 !.home = {Url("github.com", <<"acme", "lib.git">>)},
                 !.vulns = {[id |-> "v1", ratings |-> {[cvss |-> TRUE, score |-> 39], [cvss |-> TRUE, score |-> 70],
                                                       [cvss |-> FALSE, score |-> 90]}],
                            [id |-> "v2", ratings |-> {[cvss |-> TRUE, score |-> Never]}]}]
  @@ "lib-py" :> [Obscure EXCEPT !.name = "lib", !.licenses = {"GPL"},
                    !.links = <<[label |-> "docs", url |-> Url("docs.dev", <<>>)],
                                [label |-> "code", url |-> Url("github.com", <<"acme", "lib", "tree">>)]>>]
  @@ "site" :> [Obscure EXCEPT !.name = "site", !.links =
                  <<[label |-> "tracker", url |-> Url("github.com", <<"acme", "lib", "issues">>)]>>]
  @@ "forge" :> [Obscure EXCEPT !.system = "npm", !.name = "forge", !.home = {Url("forge.dev", <<"acme", "lib">>)}]
  @@ "legacy" :> Released("legacy", <<File("whl", Legacy, TRUE), File("tar.gz", Legacy, TRUE)>>)
  @@ "unsigned" :> Released("unsigned", <<File("tar.gz", Legacy, FALSE)>>)
  @@ "backend" :> Released("backend", <<File("tar.gz", Backend, TRUE)>>)
  @@ "whole" :> Released("whole", <<File("tar.gz", Whole, TRUE)>>)
  @@ "absolute" :> Released("absolute", <<File("tar.gz", Absolute, TRUE)>>)
  @@ "flat" :> Released("flat", <<File("tar.gz", Flat, TRUE)>>)
  @@ "nested" :> Released("nested", <<File("tar.gz", Nested, TRUE)>>)
  @@ "torn" :> Released("torn", <<File("tar.gz", Torn, TRUE)>>)
  @@ "huge" :> Released("huge", <<File("tar.gz", Huge, TRUE)>>)
  @@ "zipped" :> [Released("zipped", <<[File("zip", Whole, TRUE) EXCEPT !.at = Never, !.name = ""]>>) EXCEPT !.yanked = TRUE]

Run(which, what) == [provider |-> which, package |-> what]

\* Packages of one name in two systems, asked for twice; packages of one repository;
\* and releases of every form.
MCJobs ==
  "catalogue" :> <<Run("depsdev", "lib"), Run("depsdev", "lib"), Run("depsdev", "lib-py")>>
  @@ "repository" :> <<Run("scorecard", "lib"), Run("scorecard", "lib-py"), Run("scorecard", "site")>>
  @@ "unknown" :> <<Run("osv", "obscure"), Run("scorecard", "obscure"), Run("depsdev", "obscure")>>
  @@ "known" :> <<Run("osv", "lib"), Run("scorecard", "forge"), Run("pypi_registry", "obscure")>>
  @@ "legacy" :> <<Run("pypi_sdist", "legacy"), Run("pypi_sdist", "unsigned")>>
  @@ "backends" :> <<Run("pypi_sdist", "backend"), Run("pypi_sdist", "whole")>>
  @@ "odd" :> <<Run("pypi_sdist", "absolute"), Run("pypi_sdist", "flat"), Run("pypi_sdist", "nested")>>
  @@ "refused" :> <<Run("pypi_sdist", "torn"), Run("pypi_sdist", "huge")>>
  @@ "zipped" :> <<Run("pypi_registry", "zipped"), Run("pypi_sdist", "zipped")>>
  @@ "released" :> <<Run("pypi_registry", "legacy")>>

MCScores == <<"acme", "lib">> :> 75
MCWithoutGit == "lib.git" :> "lib"
MCErrorPage == [size |-> 1, entries |-> <<>>, page |-> TRUE]

NpmRegistryAlone == ProvidersInit /\ job = "unknown"
ProvidersAlone == Init /\ world = "reading"

MCInit == Init /\ ProvidersInit /\ (world = "reading" \/ job = "unknown")

MCNext ==
  \/ NpmRegistryAlone /\ Next /\ UNCHANGED providersVars
  \/ ProvidersAlone /\ ProvidersNext /\ UNCHANGED vars

MCSpec == MCInit /\ [][MCNext]_<<vars, providersVars>>
=============================================================================
