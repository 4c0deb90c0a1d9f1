------------------------------ MODULE MCProject ------------------------------
(***************************************************************************)
(* Instances of Project for TLC: a lockfile of each format, with the       *)
(* entries on which the adapters differ.                                   *)
(***************************************************************************)
EXTENDS Project

MCAlphabet == <<"1", "2", "a", "app", "b", "c", "c@patch:c", "d", "https://codeload", "lib",
                "packages/w">>
MCCanonical == "A" :> "a"

From(name, version, from, declared) ==
  [name |-> name, version |-> version, from |-> from, declared |-> declared]

-----------------------------------------------------------------------------
NpmEntry(dir, chain, version, resolved, real) ==
  [dir |-> dir, chain |-> chain, name |-> Absent, version |-> version, resolved |-> resolved,
   link |-> FALSE, real |-> real]
RegistryUrl == [scheme |-> "https", ext |-> ".tgz", dash |-> TRUE]
TarballUrl == [scheme |-> "https", ext |-> ".tgz", dash |-> FALSE]

Npm == [format |-> "npm", version |-> 3, hasPackages |-> TRUE, entries |-> <<
  NpmEntry("", <<>>, "1", Absent, Absent),
  NpmEntry("", <<"a">>, "1", RegistryUrl, From("a", "1", "registry", "plainly")),
  [NpmEntry("", <<"al">>, "1", RegistryUrl, From("d", "1", "registry", "plainly")) EXCEPT !.name = "d"],
  NpmEntry("", <<"b">>, "1", RegistryUrl, From("b", "1", "registry", "plainly")),
  NpmEntry("", <<"b">>, "2", Absent, From("b", "2", "registry", "plainly")),
  NpmEntry("", <<"b", "a">>, "1", RegistryUrl, From("a", "1", "registry", "no")),
  NpmEntry("", <<"b", "d">>, "2", RegistryUrl, From("d", "2", "registry", "no")),
  NpmEntry("", <<"c">>, "1", TarballUrl, From("c", "1", "exotic", "no")),
  [NpmEntry("", <<"w">>, Absent, Absent, Absent) EXCEPT !.link = TRUE],
  NpmEntry("packages/w", <<>>, "1", Absent, From("packages/w", "1", "workspace", "no")),
  NpmEntry("packages/w", <<"c">>, "2", RegistryUrl, From("c", "2", "registry", "no")) >>]

\* A release of npm without the `packages` map.
OldNpm == [format |-> "npm", version |-> 1, hasPackages |-> FALSE, entries |-> <<>>]

PnpmEntry(slash, name, version, from, declared) ==
  [slash |-> slash, name |-> name, version |-> version,
   resolution |-> [tarball |-> FALSE, repo |-> from = "exotic", directory |-> FALSE],
   real |-> From(name, version, from, declared)]
Direct(name, version) == [name |-> name, version |-> version]

\* b twice, for two sets of peers; d under an alias; c from a git host.
Pnpm9 == [format |-> "pnpm", version |-> 9, top |-> {},
  importers |-> <<{Direct("a", "1"), Direct("al", "d@1")}, {Direct("b", "1")}>>,
  entries |-> <<
    PnpmEntry(FALSE, "a", "1", "registry", "plainly"),
    PnpmEntry(FALSE, "a", "2", "registry", "no"),
    PnpmEntry(FALSE, "b", "1", "registry", "plainly"),
    PnpmEntry(FALSE, "b", "1", "registry", "plainly"),
    PnpmEntry(FALSE, "c", "https://codeload", "exotic", "no"),
    PnpmEntry(FALSE, "d", "1", "registry", "otherwise") >>]

\* b is an optional dependency, c from a git host.
Pnpm6 == [format |-> "pnpm", version |-> 6, top |-> {Direct("a", "1")}, importers |-> <<>>,
  entries |-> <<
    PnpmEntry(TRUE, "a", "1", "registry", "plainly"),
    PnpmEntry(TRUE, "b", "1", "registry", "otherwise"),
    PnpmEntry(TRUE, "c", "2", "registry", "no"),
    [PnpmEntry(FALSE, "", "", "exotic", "no") EXCEPT !.real = From("c", "1", "exotic", "no")] >>]

At(upto, protocol, value) == [upto |-> upto, protocol |-> protocol, value |-> value, git |-> FALSE]
YarnEntry(descriptors, version, resolution, real) ==
  [descriptors |-> descriptors, version |-> version, resolution |-> resolution, real |-> real]

\* A workspace member declares b; d is under an alias; c is patched.
Yarn == [format |-> "yarn", metadata |-> TRUE, version |-> 8,
  manifest |-> [declared |-> {[name |-> "a", range |-> "^1"], [name |-> "al", range |-> "d@^1"]},
                workspaces |-> {[path |-> "packages", glob |-> "star"]}],
  dirs |-> ("packages/w" :> [parent |-> "packages",
                             manifest |-> [declared |-> {[name |-> "b", range |-> "^1"]}]]),
  entries |-> <<
    YarnEntry({At("a", "npm", "^1"), At("a", "npm", "*")}, "1", At("a", "npm", "1"),
              From("a", "1", "registry", "plainly")),
    YarnEntry({At("al@npm:d", Absent, "^1")}, "1", At("d", "npm", "1"),
              From("d", "1", "registry", "otherwise")),
    YarnEntry({At("app", "workspace", ".")}, "1", At("app", "workspace", "."), Absent),
    YarnEntry({At("b", "npm", "^1")}, "1", At("b", "npm", "1"), From("b", "1", "registry", "plainly")),
    YarnEntry({At("c", "npm", "^1")}, "1", At("c", "npm", "1"), From("c", "1", "registry", "no")),
    YarnEntry({At("c@patch:c", "npm%3A^1#", "c.patch")}, "1", At("c@patch:c", "npm%3A1#", "c.patch"),
              From("c", "1", "exotic", "no")) >>]

Classic == [format |-> "yarn", metadata |-> FALSE, version |-> Absent, manifest |-> Absent,
            dirs |-> <<>>, entries |-> <<>>]

UvEntry(name, version, kind, path, dependencies, real) ==
  [name |-> name, version |-> version, source |-> [kind |-> kind, path |-> path],
   dependencies |-> dependencies, real |-> real]

Uv == [format |-> "uv", version |-> 1, entries |-> <<
  UvEntry("a", "1", "registry", "", {"c"}, From("a", "1", "registry", "plainly")),
  UvEntry("app", "1", "virtual", ".", {"a", "b"}, Absent),
  UvEntry("b", "1", "registry", "", {}, From("b", "1", "registry", "plainly")),
  UvEntry("c", "1", "git", "", {}, From("c", "1", "exotic", "no")),
  UvEntry("d", "1", "none", "", {}, From("d", "1", "registry", "no")),
  UvEntry("lib", "1", "virtual", "lib", {"d"}, From("lib", "1", "workspace", "no")) >>]

\* A member of the workspace comes before the project.
UvMember == [format |-> "uv", version |-> 1, entries |-> <<
  UvEntry("a", "1", "registry", "", {}, From("a", "1", "registry", "otherwise")),
  UvEntry("b", "1", "registry", "", {}, From("b", "1", "registry", "plainly")),
  UvEntry("lib", "1", "virtual", "lib", {"a"}, From("lib", "1", "workspace", "no")),
  UvEntry("web", "1", "virtual", ".", {"b"}, Absent) >>]

Requirement(name, version, hashed, via, declared) ==
  [name |-> name, version |-> version, hashed |-> hashed, pinned |-> TRUE,
   notes |-> <<[via |-> via]>>, real |-> From(Normalised(name), version, "registry", declared)]

\* c has its `via` on lines of its own; d has no hash.
Requirements == [format |-> "requirements", entries |-> <<
  Requirement("A", "1", TRUE, "-r", "plainly"), Requirement("b", "1", TRUE, "a", "no"),
  Requirement("c", "1", TRUE, Absent, "no"), Requirement("d", "1", FALSE, "a", "no") >>]

PoetryEntry(name, version, source, from, declared) ==
  [name |-> name, version |-> version, source |-> source,
   real |-> From(Normalised(name), version, from, declared)]

Poetry == [format |-> "poetry", version |-> 2,
  manifest |-> [dependencies |-> {"python", "a"}, groups |-> {{"b"}}, project |-> {""}],
  entries |-> <<
    PoetryEntry("A", "1", "none", "registry", "plainly"), PoetryEntry("A", "2", "none", "registry", "plainly"),
    PoetryEntry("b", "1", "legacy", "registry", "plainly"),
    PoetryEntry("c", "1", "git", "exotic", "no"), PoetryEntry("d", "1", "none", "registry", "no") >>]

MCScenarios ==
  "npm" :> Npm @@ "npm 6" :> OldNpm @@ "pnpm 9" :> Pnpm9 @@ "pnpm 8" :> Pnpm6 @@ "yarn" :> Yarn
  @@ "yarn 1" :> Classic @@ "uv" :> Uv @@ "uv member" :> UvMember
  @@ "requirements" :> Requirements @@ "poetry" :> Poetry

\* The manifest's own packages are always there, others come and go.
Varying(always, free) == {always \cup F : F \in SUBSET free}

MCTrees ==
  "npm" :> (Varying({1, 2, 3, 4, 7, 9, 10, 11}, {6, 8}) \cup {{1, 2, 3, 5, 9, 10}})
  @@ "npm 6" :> {{}} @@ "pnpm 9" :> Varying({1, 3, 6}, {2, 4, 5}) @@ "pnpm 8" :> Varying({1, 2}, {3, 4})
  @@ "yarn 1" :> {{}} @@ "yarn" :> (Varying({1, 2, 3, 4}, {5}) \cup {1 .. 6}) @@ "uv" :> Varying({1, 2, 3, 6}, {4, 5})
  @@ "uv member" :> {1 .. 4}
  @@ "requirements" :> Varying({1}, {2, 3, 4}) @@ "poetry" :> Varying({1, 3}, {2, 4, 5})

MCTargets == {Direct("a", "1"), Direct("c", "2")}

MCMaxEdits == [s \in DOMAIN MCScenarios |-> IF s = "npm" THEN 2 ELSE IF s = "uv" THEN 1 ELSE 0]

-----------------------------------------------------------------------------
Published(at) == [Silence EXCEPT !.published = at]
MCRegistry == [n \in {"a", "b", "c", "d"} |-> Published(IF n = "a" THEN 0 ELSE -5)]

MCBad ==
  "a" :> [Published(0) EXCEPT !.scripts = {"install"}, !.unavailable = Providers]
  @@ "b" :> [Published(-5) EXCEPT !.squat = TRUE, !.distTag = "2"]

\* A strict policy with promoted severities, one that trusts direct dependencies,
\* and one that only warns.
Strict == [DefaultPolicy EXCEPT
  !.blockExoticSubdeps = TRUE, !.defaults.minimumReleaseAge = 1,
  !.severity = [c \in Codes |->
     IF c \in {"dist-tag-anomaly", "signal-unavailable"} THEN "block" ELSE None]]
Trusting == [DefaultPolicy EXCEPT
  !.defaults.minimumReleaseAge = 1, !.direct = [@ EXCEPT !.minimumReleaseAge = 0],
  !.severity = [@ EXCEPT !["name-squat"] = "warn"]]
Warning == [DefaultPolicy EXCEPT
  !.blockExoticSubdeps = TRUE, !.severity = [c \in Codes |-> "warn"]]
MCPolicies == {Strict, Trusting, Warning}
=============================================================================
