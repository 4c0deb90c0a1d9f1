------------------------------- MODULE Providers -------------------------------
(***************************************************************************)
(* The providers besides the npm registry's: OSV, deps.dev, Scorecard, the *)
(* PyPI registry and the PyPI source distributions (crates/signals).  Each *)
(* request is a few HTTP calls with an await at every one; deps.dev and    *)
(* Scorecard keep what they were told for the rest of the run.  What must  *)
(* not happen is that a service that fails, now or at an earlier request,  *)
(* looks like a service that has nothing to tell.                          *)
(***************************************************************************)
EXTENDS Integers, Sequences, FiniteSets, SequencesExt, FiniteSetsExt

CONSTANTS
  NotAsked,    \* no entry in a provider's cache
  NotIndexed,  \* the entry for what the service does not know
  Never,       \* a file without an upload time; a rating without a base score
  Unstated,    \* a response without a length
  Catalogue,   \* what the services have on each package
  Scores,      \* per repository, its Scorecard score in tenths
  WithoutGit,  \* the path segments that end in .git, without it
  ErrorPage,   \* a download that is no archive
  Cap,         \* max_sdist_bytes
  Jobs,        \* the requests of a run, by the name of the run
  AtOnce       \* requests at a time

\* A call is answered, refused with a status, or lost on the way; an answer that
\* does not decode is garbled.
Statuses == {"found", "absent", "gone", "refused", "lost", "garbled"}

FirstCall == [osv |-> "query", depsdev |-> "version", scorecard |-> "repository",
              pypi_registry |-> "metadata", pypi_sdist |-> "files"]

\* A package is known by its system and its name, and has one home page at most.
ASSUME ProvidersAssumption ==
  /\ AtOnce \in Nat \ {0} /\ Cap \in Nat
  /\ \A j \in DOMAIN Jobs : \A r \in DOMAIN Jobs[j] :
       Jobs[j][r].package \in DOMAIN Catalogue /\ Jobs[j][r].provider \in DOMAIN FirstCall
  /\ \A p \in DOMAIN Catalogue :
       /\ Catalogue[p].system \in {"npm", "pypi"}
       /\ Catalogue[p].licenses \notin {NotAsked, NotIndexed}
       /\ \A u, v \in Catalogue[p].home : u = v
  /\ \A p, q \in DOMAIN Catalogue :
       Catalogue[p].system = Catalogue[q].system /\ Catalogue[p].name = Catalogue[q].name => p = q
  /\ NotAsked # NotIndexed /\ NotAsked \notin Nat /\ NotIndexed \notin Nat
  /\ DOMAIN Scores \subseteq Seq(STRING) /\ \A t \in DOMAIN Scores : Scores[t] \in Int

VARIABLES
  job,
  step,      \* per request, the call it waits for
  said,      \* per request, its signals
  versions,  \* DepsDevProvider.cache, per system and name
  scores,    \* ScorecardProvider.cache, per repository
  heard      \* the answers of the services so far

providersVars == <<job, step, said, versions, scores, heard>>

Asking == Jobs[job]
Package(r) == Catalogue[Asking[r].package]
InSystem(r) == <<Package(r).system, Package(r).name>>

ProvidersInit ==
  /\ job \in DOMAIN Jobs
  /\ step = [r \in DOMAIN Asking |-> "idle"]
  /\ said = [r \in DOMAIN Asking |-> {}]
  /\ versions = [k \in {InSystem(r) : r \in DOMAIN Asking} |-> NotAsked]
  /\ scores = [t \in DOMAIN Scores |-> NotAsked]
  /\ heard = {}

Unavailable == {<<"signal-unavailable">>}
Error == {<<"error">>}

-----------------------------------------------------------------------------
\* OSV.  The bucket of a base score in tenths; 0 is in none.
Bucket(score) ==
  CASE score >= 90 -> 4 [] score >= 70 -> 3 [] score >= 40 -> 2 [] score > 0 -> 1 [] OTHER -> 0

\* The highest bucket of the CVSS ratings that are plain numbers; 0 is "unknown".
BucketSeverity(ratings) ==
  Max({0} \cup {Bucket(x.score) : x \in {x \in ratings : x.cvss /\ x.score # Never}})

Advisories(package) ==
  {<<"advisory-known", v.id, BucketSeverity(v.ratings)>> : v \in package.vulns}

\* deps.dev: the signal is there also when the list of licences is empty.
ComputeProjectMetadata(licenses) == <<"project-metadata", licenses>>

\* Scorecard.  The score, rounded half up and clamped.
BucketScore(raw) == IF raw <= 0 THEN 0 ELSE Min({(raw + 5) \div 10, 10})

\* Owner and repository of a URL at github.com, if it has both.
Repository(url) ==
  IF \/ url.host # "github.com" \/ Len(url.path) < 2
     \/ url.path[1] = "" \/ url.path[2] = "" THEN {}
  ELSE LET repo == url.path[2]
       IN {<<url.path[1], IF Len(url.path) = 2 /\ repo \in DOMAIN WithoutGit
                          THEN WithoutGit[repo] ELSE repo>>}

Preferred == <<"source", "repository", "source code", "sourcecode", "code">>

\* The project's link with the first preferred label, else the first to github.com,
\* else the home page.
PickPypiRepoUrl(info) ==
  LET labelled == SelectSeq(Preferred, LAMBDA l : \E i \in DOMAIN info.links : info.links[i].label = l)
      with(l) == SelectSeq(info.links, LAMBDA x : x.label = l)
      hosted == SelectSeq(info.links, LAMBDA x : x.url.host = "github.com")
  IN IF labelled # <<>> THEN {Head(with(Head(labelled))).url}
     ELSE IF hosted # <<>> THEN {Head(hosted).url}
     ELSE info.home

\* The repository a package's registry names; none is no failure.
Discovered(package) ==
  UNION {Repository(u) : u \in IF package.system = "pypi" THEN PickPypiRepoUrl(package)
                               ELSE package.home}

\* The run knows every repository the packages name.
ASSUME ScoresAssumption == \A p \in DOMAIN Catalogue : Discovered(Catalogue[p]) \subseteq DOMAIN Scores

\* The PyPI registry.  The first upload of the release, and whether it was yanked.
ComputeSignals(package) ==
  LET times == {package.files[i].at : i \in DOMAIN package.files} \ {Never}
  IN (IF times = {} THEN Unavailable ELSE {<<"published", Min(times)>>})
     \cup {<<"deprecated-version">> : y \in {TRUE} \cap {package.yanked}}

\* The file whose attestations are asked for: a source distribution, or the first.
PickAttestationFilename(files) ==
  LET sources == SelectSeq(files, LAMBDA f : f.type \in {"tar.gz", "zip"})
  IN IF sources # <<>> THEN {Head(sources).name}
     ELSE {files[i].name : i \in DOMAIN files \cap {1}}

-----------------------------------------------------------------------------
\* The PyPI source distributions.
PickTargzSdist(files) == SelectSeq(files, LAMBDA f : f.sdist /\ f.type = "tar.gz")

\* The first entry of an archive with this name, at any depth.
FirstNamed(archive, file) ==
  LET entries == archive.entries
  IN {entries[i] : i \in {i \in DOMAIN entries :
        entries[i].file = file /\ \A k \in 1 .. i - 1 : entries[k].file # file}}

\* What the two sets of rules find in the part of a file that is read.
Scanned(entry) == entry.findings

\* A declared backend-path that stays in the tree, without its dots; <<>> is all of it.
NormalizeBackendPath(path) ==
  IF Range(path) \cap {"..", "/"} # {} THEN {} ELSE {SelectSeq(path, LAMBDA x : x # ".")}

BackendPaths(pyproject) == UNION {NormalizeBackendPath(p) : p \in pyproject.backends}

\* Defect: paths only as they are in the archive, below its top directory.
InBackendAsArchived(entry, roots) ==
  LET path == Append(entry.dir, entry.file)
  IN entry.python /\ \E root \in roots : IsPrefix(root, path)

\* An entry with an absolute path, or with one that climbs.
Odd(entry) == Range(entry.dir) \cap {"/", ".."} # {}

\* A Python file under one of the roots, with or without the top directory.  An odd
\* entry is under none.
InBackend(entry, roots) ==
  LET path == Append(entry.dir, entry.file)
      variants == IF Odd(entry) THEN {}
                  ELSE IF entry.dir = <<>> THEN {path} ELSE {path, Tail(path)}
  IN entry.python /\ \E root \in roots, v \in variants : IsPrefix(root, v)

ExtractBackend(archive, roots) ==
  {archive.entries[i] : i \in {i \in DOMAIN archive.entries :
     InBackend(archive.entries[i], roots) /\ archive.entries[i].file # "setup.py"}}

\* The install-time code of an archive and what is found in it.
AnalyseInstallSurfaces(archive) ==
  LET setup == FirstNamed(archive, "setup.py")
      pyproject == FirstNamed(archive, "pyproject.toml")
      roots == UNION {BackendPaths(e) : e \in pyproject}
  IN IF archive = ErrorPage \/ \E e \in pyproject : ~e.readable THEN Error
     ELSE {<<"lifecycle-scripts", "setup.py">> : e \in setup}
          \cup {<<"lifecycle-scripts", "build-backend">> : r \in roots}
          \cup UNION {{<<"suspicious-script", e.file, f>> : f \in Scanned(e)} :
                        e \in setup \cup ExtractBackend(archive, roots)}

\* A download that is read: within the cap, and the archive the index has the
\* digest of if it has one.
Verified(sdist, served) ==
  /\ served.size <= Cap
  /\ sdist.digest => served = sdist.archive

-----------------------------------------------------------------------------
Waiting == {r \in DOMAIN step : step[r] \notin {"idle", "done"}}

Proceed(r, next, signals) ==
  /\ step' = [step EXCEPT ![r] = next]
  /\ said' = [said EXCEPT ![r] = @ \cup signals]

Finish(r, signals) == Proceed(r, "done", signals)

\* The call a request waits for ends with this status.
Hears(r, call, status) ==
  /\ step[r] = call
  /\ status \in Statuses
  /\ heard' = heard \cup {<<call, InSystem(r), status>>}

\* What the deps.dev cache makes of a version, and the Scorecard cache of a
\* repository.
FromVersions(record) ==
  IF record = NotIndexed THEN {} ELSE {ComputeProjectMetadata(record)}
FromScores(score, repo) ==
  IF score = NotIndexed THEN {} ELSE {<<"scorecard-score", score, repo>>}

\* A request is started: up to its first await.  deps.dev looks in its cache first.
AskProvider(r) ==
  /\ step[r] = "idle" /\ Cardinality(Waiting) < AtOnce
  /\ LET cached == versions[InSystem(r)]
     IN IF Asking[r].provider = "depsdev" /\ cached # NotAsked
        THEN Finish(r, FromVersions(cached))
        ELSE Proceed(r, FirstCall[Asking[r].provider], {})
  /\ UNCHANGED <<job, versions, scores, heard>>

\* OSV: every status that is no success is a failure, since "no results" is one.
Query(r, status) ==
  /\ Hears(r, "query", status)
  /\ Finish(r, CASE status = "found" -> Advisories(Package(r))
               [] status \in {"lost", "garbled"} -> Error
               [] OTHER -> Unavailable)
  /\ UNCHANGED <<job, versions, scores>>

\* Defect: a failure is kept like a miss.
VersionKept(r, status) ==
  /\ Hears(r, "version", status)
  /\ LET record == IF status = "found" THEN Package(r).licenses ELSE NotIndexed
     IN /\ Finish(r, IF status \in {"found", "absent", "gone"} THEN FromVersions(record) ELSE Unavailable)
        /\ versions' = [versions EXCEPT ![InSystem(r)] = record]
  /\ UNCHANGED <<job, scores>>

\* deps.dev: a version and a miss are kept, a failure is not.
Version(r, status) ==
  /\ Hears(r, "version", status)
  /\ LET record == IF status = "found" THEN Package(r).licenses ELSE NotIndexed
     IN IF status \in {"found", "absent", "gone"}
        THEN /\ Finish(r, FromVersions(record))
             /\ versions' = [versions EXCEPT ![InSystem(r)] = record]
        ELSE Finish(r, Unavailable) /\ UNCHANGED versions
  /\ UNCHANGED <<job, scores>>

\* Scorecard, first call: the package's registry names the repository, whose score
\* may be known by then.
Discover(r, status) ==
  /\ Hears(r, "repository", status)
  /\ LET repos == IF status = "found" THEN Discovered(Package(r)) ELSE {}
     IN \/ status \notin {"found", "absent"} /\ Finish(r, Unavailable)
        \/ status \in {"found", "absent"} /\ repos = {} /\ Finish(r, {})
        \/ \E t \in repos : IF scores[t] = NotAsked THEN Proceed(r, "score", {})
                            ELSE Finish(r, FromScores(scores[t], t))
  /\ UNCHANGED <<job, versions, scores>>

\* Scorecard, second call.
Score(r, status) ==
  /\ Hears(r, "score", status)
  /\ \E t \in Discovered(Package(r)) :
       LET score == IF status = "found" THEN BucketScore(Scores[t]) ELSE NotIndexed
       IN IF status \in {"found", "absent"}
          THEN Finish(r, FromScores(score, t)) /\ scores' = [scores EXCEPT ![t] = score]
          ELSE Finish(r, Unavailable) /\ UNCHANGED scores
  /\ UNCHANGED <<job, versions>>

\* The PyPI registry, first call.
Metadata(r, status) ==
  /\ Hears(r, "metadata", status)
  /\ CASE status = "found" ->
            Proceed(r, IF PickAttestationFilename(Package(r).files) \ {""} # {}
                       THEN "provenance" ELSE "done", ComputeSignals(Package(r)))
       [] status \in {"lost", "garbled"} -> Finish(r, Error)
       [] OTHER -> Finish(r, Unavailable)
  /\ UNCHANGED <<job, versions, scores>>

\* The PyPI registry, second call: any success is a claim, anything else is silence.
\* The body is not read.
Provenance(r, status) ==
  /\ Hears(r, "provenance", status)
  /\ Finish(r, IF status \in {"found", "garbled"} THEN {<<"provenance-claimed">>} ELSE {})
  /\ UNCHANGED <<job, versions, scores>>

\* The source distribution, first call: the files of the release.
Files(r, status) ==
  /\ Hears(r, "files", status)
  /\ CASE status = "found" /\ PickTargzSdist(Package(r).files) # <<>> -> Proceed(r, "length", {})
       [] status \in {"lost", "garbled"} -> Finish(r, Error)
       [] OTHER -> Finish(r, Unavailable)
  /\ UNCHANGED <<job, versions, scores>>

Sdist(r) == Head(PickTargzSdist(Package(r).files))

\* Second call: HEAD.  Its status is not looked at; its length, if the HTTP library
\* has it (it may also take the empty body of a HEAD for the length), is.
Length(r, status) ==
  /\ Hears(r, "length", status)
  /\ IF status = "lost" THEN Finish(r, Error)
     ELSE \E length \in {Unstated, 0, Sdist(r).archive.size} :
            IF length # Unstated /\ length > Cap THEN Finish(r, Unavailable)
            ELSE Proceed(r, "download", {})
  /\ UNCHANGED <<job, versions, scores>>

\* Third call: GET, whose status is not looked at either.  What comes is the archive,
\* another one, or an error page.
Download(r, status) ==
  /\ Hears(r, "download", status)
  /\ IF status = "lost" THEN Finish(r, Error)
     ELSE \E served \in IF status = "found" THEN {Sdist(r).archive, Sdist(r).other} ELSE {ErrorPage} :
            Finish(r, IF Verified(Sdist(r), served) THEN AnalyseInstallSurfaces(served)
                      ELSE Unavailable)
  /\ UNCHANGED <<job, versions, scores>>

ProvidersNext ==
  \E r \in DOMAIN step :
    \/ AskProvider(r)
    \/ \E status \in Statuses :
         \/ Query(r, status) \/ Version(r, status) \/ Discover(r, status) \/ Score(r, status)
         \/ Metadata(r, status) \/ Provenance(r, status)
         \/ Files(r, status) \/ Length(r, status) \/ Download(r, status)

ProvidersSpec == ProvidersInit /\ [][ProvidersNext]_providersVars
-----------------------------------------------------------------------------
Told(r) == said[r] \cap (Unavailable \cup Error) # {}

\* One of these calls has ended with one of these statuses.
Heard(call, keys, statuses) == heard \cap ({call} \X keys \X statuses) # {}

\* The packages of the run with the repository of this one.
Sharing(r) ==
  {InSystem(q) : q \in {q \in DOMAIN step : Discovered(Package(q)) = Discovered(Package(r))}}

\* What a service has said of a package, or of its repository, may be repeated.
OsvSays(r) ==
  Heard("query", {InSystem(r)}, {"found"}) /\ said[r] = Advisories(Package(r))

DepsDevSays(r) ==
  \/ Heard("version", {InSystem(r)}, {"found"})
       /\ said[r] = {ComputeProjectMetadata(Package(r).licenses)}
  \/ Heard("version", {InSystem(r)}, {"absent", "gone"}) /\ said[r] = {}

ScorecardSays(r) ==
  \/ Heard("repository", {InSystem(r)}, {"absent"}) /\ said[r] = {}
  \/ /\ Heard("repository", {InSystem(r)}, {"found"})
     /\ \/ Discovered(Package(r)) = {} /\ said[r] = {}
        \/ Heard("score", Sharing(r), {"absent"}) /\ said[r] = {}
        \/ Heard("score", Sharing(r), {"found"})
             /\ \E t \in Discovered(Package(r)) :
                  said[r] = {<<"scorecard-score", BucketScore(Scores[t]), t>>}

\* What stands behind what a request reports, or behind its having nothing to report.
Backed(r) ==
  CASE Asking[r].provider = "osv" -> OsvSays(r)
    [] Asking[r].provider = "depsdev" -> DepsDevSays(r)
    [] Asking[r].provider = "scorecard" -> ScorecardSays(r)
    [] Asking[r].provider = "pypi_registry" -> Heard("metadata", {InSystem(r)}, {"found"})
    [] Asking[r].provider = "pypi_sdist" -> Heard("download", {InSystem(r)}, Statuses \ {"lost"})

\* A request that reports no gap has an answer behind it: the service was heard, then
\* or earlier in the run, on this package, in this system, or on the repository it
\* shares with others, and what is reported, or that there is nothing to report, is
\* what it said.  An outage ends with the request it hits: it is said there, and no
\* later request takes it for a miss.  A lost or refused request for the attestations
\* of a PyPI release is the exception: it is taken for there being none, and only the
\* metadata stands behind that answer.
SilenceWasAnswered ==
  \A r \in DOMAIN step : step[r] = "done" /\ ~Told(r) => Backed(r)

\* Where pip puts an entry when it builds the release: below the one directory that
\* everything in the archive is in, if there is one.
Bare(dir) == IF "/" \in Range(dir) THEN Tail(dir) ELSE dir
Leading(entries) ==
  \A i, k \in DOMAIN entries :
    LET a == Bare(entries[i].dir)  b == Bare(entries[k].dir)
    IN a # <<>> /\ b # <<>> /\ Head(a) = Head(b)
Placed(entries, i) ==
  LET path == Append(Bare(entries[i].dir), entries[i].file)
  IN IF Leading(entries) THEN Tail(path) ELSE path

\* A source distribution that raised no gap was scanned as the index published it:
\* within the cap, and, if the index has a digest, the very archive.  Its first
\* setup.py has had its findings reported, and so has every Python module that pip may
\* import from a backend-path of the project file it builds with, in archives with one
\* top directory and in those with several or none.  Two things are left out without a
\* gap, and are no part of this.  Odd entries, absolute or climbing, are passed over,
\* whatever pip makes of them.  And only the first setup.py and the first
\* pyproject.toml of an archive count, at any depth: an earlier nested one hides the
\* one pip uses.
InstallCodeSeen ==
  \A r \in DOMAIN step :
    Asking[r].provider = "pypi_sdist" /\ step[r] = "done" /\ ~Told(r) /\ Sdist(r).digest =>
      LET entries == Sdist(r).archive.entries
          First(i, file) == entries[i].file = file /\ \A k \in 1 .. i - 1 : entries[k].file # file
          project == {entries[i] : i \in {i \in DOMAIN entries :
                        First(i, "pyproject.toml") /\ Placed(entries, i) = <<"pyproject.toml">>}}
      IN /\ Sdist(r).archive.size <= Cap
         /\ \A i \in DOMAIN entries :
              \/ First(i, "setup.py")
              \/ /\ entries[i].python /\ entries[i].file # "setup.py" /\ ~Odd(entries[i])
                 /\ \E root \in UNION {BackendPaths(e) : e \in project} : IsPrefix(root, Placed(entries, i))
              => \A f \in entries[i].findings : <<"suspicious-script", entries[i].file, f>> \in said[r]
=============================================================================
