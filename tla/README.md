# installguard: formal models

installguard judges the packages a lockfile resolves to: it asks several
sources what is known of every package, evaluates a policy over the answers,
prints a verdict and, on request, writes it down (a lock, an audit log, a
signed attestation). This directory holds TLA+ models of that program,
configurations that check them with TLC, and proofs checked by TLAPS.
Paths below are relative to `src/crates`.

To check a module: `tlc -config scan.cfg Scan`. To check its proofs:
`tlapm ScanProofs.tla`. `PROJECT.json` lists components, runs, the source lines
behind each definition, hazards and theorems.

## 1. Inventory

| component | state it keeps | operations | talks to |
|---|---|---|---|
| signal cache, `cache/src/lib.rs` | a sled tree on disk: (provider id, registry family, name, version) -> stamped list of signals | lookup, put, clear, statistics | wraps the provider stack of a run |
| composite provider, `core/src/composite.rs` | the children | fan-out, concatenation, failures to `Unavailable` | the children, by awaited calls |
| provider stack, `cli/src/main.rs` `build_provider` | which children the flags leave, the cache | built once per run | composite, cache |
| collection, `cli/src/main.rs` `gather_signals` | futures in flight, result slots | start, take | provider stack (await), progress (counter) |
| progress indicator, `cli/src/progress.rs` | an atomic counter, a ticker task | inc, finish, redraw | shares the counter with the collection, stderr with the report |
| policy engine, `core/src/policy.rs`, `decision.rs`, `signal.rs`, `dependency.rs` | none (pure) | evaluate | signals in, decision out |
| trust score, `core/src/trust_score.rs` | none (pure) | compute | called by the policy engine |
| evaluation, `cli/src/main.rs` `evaluate` | files as it read them | read policy, parse lockfile, read it again, collect, evaluate | all of the above |
| decision lock, `core/src/lockfile.rs`, `run_lock`, `run_verify`, `evaluate_frozen` | `installguard.lock` | lock, verify, any command with `--frozen` | evaluation, project files |
| attestations, `core/src/attestation.rs`, `core/src/dsse.rs` | key files, statement, signed bundle | key generate, attest, sign, verify --bundle | evaluation, project files |
| audit log, `core/src/audit.rs` | a file that is appended to, a buffer per run | append | other runs, through the file |
| npm registry provider, `signals/npm-registry/src/lib.rs` | `user_cache`: profiles by account | signals, profile and attestation requests | the registry (HTTP); its own concurrent calls share `user_cache` |
| OSV, deps.dev, Scorecard providers, `signals/*` | deps.dev: licences by package; Scorecard: scores by repository, both for a run | signals: one or two calls | their services, and their own earlier requests through the caches |
| PyPI registry and source distribution providers, `signals/pypi-*` | none beyond an HTTP client | signals: two calls; files, length, download and scan | their services |
| lockfile adapters, `adapters/*` | none (pure) | detect, parse: six formats | evaluation |
| SBOM and VEX, `core/src/sbom.rs`, `vex.rs` | none (pure) | build, serialise | evaluation |
| command line, `cli/src/main.rs` | none | scan, ci, explain, simulate, doctor, report, cache ... | everything |

**What is hard here.** The requests of one run are futures of one task: they
interleave at every await, between the lookup and the write of the cache and
between the check and the insert of `user_cache`. The ticker draws from another
thread. Several processes share the audit log, and one after the other the
cache directory, whose last writer may have been another release or have died.
Commands read four files one after the other while a package manager or an
operator edits them, and overwrite their own files in place. Sources fail one
at a time. Cached answers age, clocks are set back. And the pure parts combine
some twenty detectors, a score and a severity map, of which one should not undo
another.

**What makes each component correct.**

- *Cache*: nobody is served another package's or another release's signals; an
  answer is served for a bounded time, an outage for a shorter one; no failure is
  stored as a result.
- *Collection*: the concurrency limit; the answer of a dependency in its own
  slot; progress; an end.
- *Indicator*: a count that never goes back, and quiet when the report is out.
- *Policy*: monotone in evidence, time and strictness; each section of the file
  about what it names; an outage never green.
- *Lock*: what is replayed is about this project; OK means the same decisions, and
  the same decisions mean OK; each decision rests on answers of its own run.
- *Attestation*: what verifies is what was signed, by the key that is there, for
  what is there; drift is drift.
- *Audit log*: only grows, every run's records in order and, if small, together.
- *npm provider*: no takeover or new binary without a release that reports it;
  later or odd releases change nothing that was said; profiles fetched once.
- *Other providers*: an outage is said, and never remembered as a miss; a source
  distribution without a gap was scanned as the index published it, as far as the
  code looks (section 5).
- *Adapters*: what is asked about is what the package manager installs; what is
  direct is what the manifest names.
- *Outputs*: exit status, annotations, report, SBOM, VEX, `explain`, `verify`,
  `doctor` and `simulate` say the same of one evaluation.

## 2. Modules

| module | models | depends on |
|---|---|---|
| `SignalCache` | cache, composite, provider stack, releases, clock | `SignalMemory` (refinement) |
| `SignalMemory` | what who asks is promised: a memory that forgets and never makes anything up | |
| `Gather` | the collection loop | `SignalCollection` (refinement) |
| `SignalCollection` | what the caller of the loop is promised | |
| `ProgressLine` | the indicator | |
| `Scan` | loop, indicator and report, sharing the counter | `Gather`, `ProgressLine` |
| `Policy` | detectors, accessors, score, severities, verdict (operators) | |
| `Evaluation` | one package evaluated again after each change around it | `Policy` |
| `Lockfiles` | the six adapters (operators) | |
| `PackageManagers` | what package managers write, as far as the adapters rely on it (external) | `Lockfiles` |
| `Outputs` | what the commands make of results (operators) | `Lockfiles`, `Policy` |
| `Project` | a project and every command on it | `Outputs`, `PackageManagers` |
| `DecisionLock` | lock, verify, frozen runs, read by read | `AtomicCommands` (refinement) |
| `AtomicCommands` | what these commands promise to who leaves the project alone meanwhile | |
| `Bundle` | keys, attest, sign, verify --bundle | |
| `AuditLog` | concurrent appends | |
| `NpmRegistry` | the npm provider and a registry that grows | |
| `Providers` | OSV, deps.dev, Scorecard, PyPI registry and sdist | |
| `SignalCacheProofs` | theorems about `SignalCache` | |
| `ScanProofs` | about `Gather` and `Scan` | |
| `RecordsProofs` | about `DecisionLock` and `AuditLog` | |
| `BundleProofs` | about `Bundle` | |
| `ProvidersProofs` | about `NpmRegistry` and `Providers` | |
| `PolicyProofs` | about the operators of `Policy` | |
| `EvaluationProofs` | about `Evaluation` | `PolicyProofs` |
| `ProjectProofs` | about `Project` and the operators of `Outputs` and `Lockfiles` | `PolicyProofs` |
| `MCSignalCache`, `MCEvaluation`, `MCProject`, `MCDecisionLock`, `MCBundle`, `MCNpmRegistry` | constants for TLC | |
| `MCRecords`, `MCProviders` | `DecisionLock` and `AuditLog`, `NpmRegistry` and `Providers`, each pair for one run | |

Operators marked `Defect:` are plausible mistakes of the operator that follows
them. No behaviour uses them; each shows that some property notices.

### SignalCache

`CachedProvider::signals` awaits only its inner provider. `Ask` is everything up
to that await (clock, lookup, removal of what cannot be read, age against TTL),
`Deliver` everything after it (the composite's list, the put, the return);
`Resolve` is one child's HTTP call in between. `StartRun`, `EndRun` and `Crash`
delimit a process: sled admits one at a time, so a second one ends before it
reads. `store` is the open tree, `disk` what has been flushed; a crash leaves,
for each key, one or the other. `Tick` also is sled's background flush (500 ms;
a tick is longer). `Install` exchanges the program over the same directory.
Signals are abstracted to who said them, when, about what and under which
release; the last three are history, kept to be compared with who is served.

`SignalMemory` is the promise: an answer comes from the sources just now, or is
recalled as it was once given, whole, for that package, release and stack, within
its TTL. The memory may lose anything at any step and never gains anything but
answers. `RemembersOnly` maps `SignalCache` to it: the memory is every entry of the
open tree and of the disk (a crash may bring back any of the disk's), an answer is
given when its request is served. Keys, stamps, schemas, flushes, crashes,
interleaved requests and the order of their writes are gone from the promise.

### Gather, SignalCollection, ProgressLine, Scan

`Start` is one turn of the inner loop, `EndFill` its exit, `Take` the result of
any future. `SignalCollection` knows neither order nor limit: every dependency
gets one answer of those it may get, then the collection is closed. The ticker's
`Wake`, `Count` and `Redraw` are separate because the counter is read before
stderr is locked; `Abort` takes effect at the ticker's next await only, as
`JoinHandle::abort` does. `Scan` runs both on the same counter.

### Policy, Evaluation

`Policy` keeps every detector of `evaluate_with`, its condition and the accessor
it takes its setting from; a decision is its verdict and its set of reason
codes. `Evaluation` turns them into a behaviour: a signal comes, a provider
fails, time passes, the operator edits one setting or passes `--ignore-scripts`,
and the package is evaluated again. The properties compare two evaluations.

### DecisionLock

A command is a sequence of reads (`ReadPrior`, `ReadPolicy`, `Parse`,
`ReadBytes`), then `Collect` for every package that is asked about, `Judge`,
`Conclude` and, for `lock`, `Write`. A digest is the content it is of. `Racing` says
whether the project's files may change while a command runs; between commands they
always may. `Collect(p)` is one turn of `gather_signals`: the providers answer about
one package as it is now, or from the cache as it was up to `CacheAge` ago. Advisories
come out (`Disclose`) and time passes between any two answers, and `Judge` reads the
clock after the last, as `main.rs:605` does. `known` is when each advisory came out:
at that very tick both answers are possible (`Said`). Of the signals, the publication
date and the advisory are modelled. Failing providers are not: what a failure becomes
is `SignalCache`'s and `Evaluation`'s; in the lock it is one more kind of signal and
one more reason.

`AtomicCommands` is the promise: a command looks at lockfile, policy, lock and clock
at one moment; of each package it has an answer that was right at some moment since
it began, or up to `CacheAge` before, a moment of its own for each (`Heard`); and what
it says or records is about that. `verify` ends with 0 exactly if the lock it would
record is the one on record, kinds of signals, adapter id and observed ages included
(`Compare`): a project about which nothing has changed is OK, and a frozen verify,
which has no signals (`Replay`), drifts of any lock that has kinds of signals in it.
`CommandsAreAtomic` maps `DecisionLock` to it. A command has looked when it has judged
(`Phase`); a lock is on record when its file is opened for writing, so that a crash
from then on loses it (`OnRecord`); the decision on a package, by policy, answer and
tick, is a constant function (`Judgements`).

### Bundle

The same style for `key generate`, `attest`, `sign` and `verify --bundle`, each
write being a `Truncate` and a `Fill`, with a `Crash` in between if need be. A
signature is the key together with what it was made over. Envelopes have one
signature, the number `sign` writes. The statement may be edited before it is signed
(`EditStatement`) and the bundle after (`EditBundle`); `by` says whose the decisions
are. `sign` signs whatever file it is given, so a bundle that verifies need not hold
what `attest` wrote; `AcceptedIsSigned` claims what the code does ensure: the payload
names what verify read, is what was signed, and is signed with the private half of
the key in `cosign.pub`. Since commands run one after the other, that key is still
the one verify has read. `Generate` repeats the guard of `Begin`
instead of using it: TLC evaluates a constant argument of an action once and
shares the value between workers.
`attest` goes by the lockfile `Located` finds (`locate_lockfile`): the first
candidate at the root, or else the only one in a child directory. A file that
does not parse, whatever it holds, is `Torn`.

### AuditLog

A record is a sequence of pieces (the writes of serde_json), buffered by a
`BufWriter` of `Capacity` pieces that is written out with O_APPEND when the next
piece does not fit. An append is one step. Short writes and a full disk are not
modelled.

### NpmRegistry

`Publish` and `Retag` let a packument grow; `PublisherChange`, `SurfaceChange`
and `DistTagAnomaly` are the detectors over it. `Ask`, `Received`, `Profile` and
`Attestation` are the stretches of `signals` between its awaits: `Received` ends
with the lookup in `user_cache`, `Profile` is the insert, over whatever another
request inserted meanwhile. `entry` keeps the version's entry as the packument
had it, since the registry moves on while a profile is fetched. Versions are
their place in the semver order, their major number and whether they are
pre-releases.

### Providers

One variable `step` per request names the HTTP call it waits for; each action is
the stretch from the answer of that call to the next await, for every way a call
ends: answered, absent (404), gone (410), refused (any other status), lost on the
way, or answered with what does not decode. `versions` and `scores` are the
caches of deps.dev and Scorecard, looked up before the await and written after
it. `heard` is history: what each service has been heard to say. An archive is a
sequence of entries with their findings, in directories without `.` components; an
absolute path starts with "/". `Odd` entries, absolute or climbing, are under no
backend path (`archive_path_variants`). `Bare`, `Leading` and `Placed` are pip's
(external): where it puts an entry when it builds the release, which `InstallCodeSeen`
compares with what the provider scans.

### Lockfiles, Outputs, Project

A lockfile is a document: a format, a version and entries in the order the
adapter reads them, whose strings come in the parts the adapters cut them in.
Every entry also says what the package manager really installs for it (`real`),
which no adapter sees; `AskedAsLocked` and `DirectIsDeclared` compare the two:
the first as sets for what comes from a registry and by number for what does not,
the second by who is direct. `PackageManagers` is the contract under which they are
compared, entry by entry: which key npm gives a package, which resolution pnpm
notes for what comes from elsewhere, that yarn has the declaration among its
descriptors, and so on. It is external: it says nothing of what the adapters do,
only what their code and tests take for granted. `Overlooked` names the two kinds
of entries the adapters are known to miss, which these two properties leave out and
the run `project_unseen` and section 5 report; `RootFirst` is the order of the
packages of a uv workspace without which its direct dependencies are taken from a
member (section 5).
`Outputs` has what each command makes of the results: `ExitCode`, `Annotations`,
`Markdown`, `Bom`, `Vex`, `Explain`, `BuildLock`, `VerifyAgainst`,
`DoctorSuggestion`, `Simulate`. `Project` composes them with `Policy`: a command
reads the project at one moment (the edits that fall into a command are
`DecisionLock`'s) and `out` holds what it said until it is looked at; in between
the lockfile and the policy are edited, a package turns bad, time passes, and
the snippet of `doctor` is pasted (`Adopt`).

## 3. Runs

| run | question | bounds, and why they are enough |
|---|---|---|
| `cache` | can overlapping requests, failures, a crash, a clock that is set back, installs or old files make the cache serve old or foreign answers? | one package name in two families, two sources, two interchangeable requests, two releases, TTLs of 2 and 1 ticks, a fetch of up to 1, entries without stamp and of another schema: the write of the slower request after the faster one, an entry at, before and after its TTL, an entry from the future, one of another release all occur. `InScope` leaves out products of these that have no interplay; where releases are installed over each other, entries were written when they were fetched (`AtOnce`). The refinement `RemembersOnly` is checked on the same states |
| `scan` | does the loop keep its promises while the ticker runs? | 4 dependencies (a workspace member, an unsupported one), limits 0 and 3, two redraws: the limit is reached and refilled, answers overtake each other, a redraw is late |
| `policy` | does the verdict move the way evidence, time and policy do? | three projects: all signals under 4 policies; 72 policies of controls in both layers; 216 of lists and severities. Each pair differing in one setting is compared; larger edits are chains of these |
| `records` | are replayed decisions about this project? do commands behave as if they looked at everything at one moment? what do concurrent runs leave in the audit log? | 3 packages (one too young, one first-party), several lockfiles and policies, 2 ticks (`MaxNow`), answers from the cache of up to 1 tick (`CacheAge`), advisories, crashes: every order of lock, verify, frozen runs, and in each command an advisory before, between and after the answers about two packages, an answer older than the command, a tick between the last answer and the clock. With `MaxNow` above `CacheAge` an answer can be too old. 3 runs of 1 or 2 records of 3 pieces, a buffer of 4: smaller and larger than the buffer, writes out in mid-record |
| `bundle` | what does a bundle that verifies stand for? | at most 2 lockfiles at a time (`MaxLockfiles`) at the root and in a child directory, 2 contents, 2 policies, 2 keys: replaced keys, halves of different pairs, torn files, a statement edited before it is signed, a bundle after, edits between any two reads. Two of each is enough to be wrong; that two child directories with a lockfile are none (`Located`) is not reached, and is like having no lockfile |
| `providers` | can releases hide a change, or noise raise an alarm? do requests share profiles? can a failure look like silence? | npm: 5 versions (pre-release, sentinel) and an unparsable one, three kinds of metadata, every order of publication; 5 requests, 2 at a time, 2 accounts. Others: ten jobs of up to 3 requests, 2 at a time, every call with every outcome: one name in two systems, one repository of three packages, legacy and backend archives, one without a top directory, one with a module at an absolute path, one with a nested project file before its own, one that does not parse, one above the cap, one without a digest |
| `project` | is what is read what is installed, and what is said consistent? | a lockfile of each of six formats, npm and yarn lockfiles too old to be read, both pnpm versions and both orders of a uv workspace, with the entries on which the adapters differ, every choice of which of the optional ones are there; 3 policies, 2 packages that may turn bad, 1 tick. `MaxEdits` lets the npm project change twice and the uv one once: change and change back, a change under a lock; the commands do not depend on the format, so the other formats are read unchanged |

`records` and `providers` each explore two modules that share no state, one with
the other at rest: no behaviour of either is left out.

Five further runs are expected to fail: each checks a sentence of the
documentation that the code does not keep.

| run | sentence | what happens |
|---|---|---|
| `cache_partial_outage` | negative results have a shorter TTL (`cache/src/lib.rs:5-7`) | the outage of one source of several stays for the success TTL |
| `cache_flags` | `--no-osv` is for this run (`cli/src/main.rs:209`) | a later run without the flag is served the entry without advisories. The package is of npm, on which the PyPI registry has nothing: the missing answer is OSV's |
| `lock_race` | the lock is built from the bytes that produced it (`core/src/lockfile.rs:116-117`) | the lockfile is parsed and then read again for its digest; an install in between gives decisions for one tree under the digest of another |
| `project_unseen` | a key outside node_modules/ is a workspace member (`adapters/npm/src/lib.rs:84-86`) | npm also writes `packages/w/node_modules/c` for a package of the registry that one member alone has at that version: it is taken for a member, asked about nowhere and allowed |
| `audit_interleaved` | runs interleave at line boundaries (`core/src/audit.rs:13-14`) | a run larger than the 8 KiB buffer is cut wherever the buffer is full |

`records` has `Racing = FALSE`: `FrozenDecidesThisProject` and `CommandsAreAtomic`
hold when the project's files do not change while a command runs, and `lock_race`
shows that the first does not when they may. Advisories, time and crashes fall
between any two steps of a command all the same, two answers of the providers
included.

**Deadlock.** `scan`, `policy`, `records` and `providers` end and say
CHECK_DEADLOCK FALSE: a scan is over after its report, and time, evidence, edits,
runs that append and requests run out. In `cache`, `bundle` and `project`
something can always happen.

**Fairness.** Only `scan` has a liveness property. `FairScan` has weak fairness of
the loop and the report, which are one task: the executor polls a ready task,
and every future in flight becomes ready because every HTTP client is built with
a timeout (20 to 60 s). Nothing is assumed of the ticker, so `Reports` does not depend
on it. Weak fairness of "some answer is taken" is enough because the set in
flight only grows by `Start`, which the limit bounds.

**Bounds.** `MaxClock`, `MaxNow` and `MaxFrames` bound time and redraws,
`MaxLockfiles` and `MaxEdits` files and changes, `CacheAge` is a TTL of the cache in
ticks, `Cap` and `AtOnce` of `Providers`
are settings of the program (`max_sdist_bytes`, `--concurrency`),
`Concurrency` of `NpmRegistry` is a setting of the program (main.rs caps its
futures), all other constants are finite sets.

## 4. Proofs

All theorems hold for every value of the constants that meets the named
assumptions: `CacheAssumption` (the anchor is a source, FailureTtl <= SuccessTtl,
nothing has the version of an unstamped entry, ...), `GatherAssumption` (the
positions are 1 .. N, a failure is distinguishable from an answer),
`LockAssumption` and `NoLockAssumption` (a missing or torn file is no lock),
`AuditAssumption`, `BundleAssumption` (a missing and a torn file are no contents),
`NpmAssumption` (versions that parse are finitely many and totally ordered, majors
follow that order), `ProvidersAssumption` and `ScoresAssumption` (a package is
known by system and name and has one home page at most), `PolicyAssumption`,
`EvaluationAssumption` and `ProjectAssumption` (policies are records with values of
their settings' types, signals are signals, lockfiles are sequences of entries of
one of the formats), `WrittenAssumption` (every lockfile is one that its package
manager writes, in the sense of `PackageManagers`), `LockfilesAssumption` (strings are compared by their place in
an alphabet; a name is normalised once). The numbers of dependencies, sources,
packages, requests, releases, runs, records, keys, files and lockfile entries, the
policies and signals, limits, TTLs and buffer sizes are arbitrary.

- **SignalCacheProofs.** `TypeCorrect`, `NeverForeignSignals`, `NeverOverdue` and
  `OutageNeverPinned` follow from `IInv`. The properties speak of what is served,
  the invariant of what might be: an entry is about the package in its key, was
  computed by the release in its stamp and is no older than its stamp by more
  than one fetch (`EntryInv`, of the open tree and of the disk, since a crash
  mixes both); a request in flight has answers no older than its own age, which
  the timeout bounds (`FetchInv`). A clock that is set back makes answers look
  younger, which is why ages are compared with the request's age and not with
  the clock it started at. Deliver takes `FetchInv` to `EntryInv`, Ask takes
  `EntryInv` to the properties. `RemembersNothingElse` is the refinement of
  `SignalMemory`, one lemma per action: a step of a run that serves nothing only
  forgets, `Ask` on a fresh entry recalls it because `EntryInv` says whose it is and
  who wrote it, `Deliver` replies with answers `FetchInv` has just bounded and adds
  no more than the one entry, and a crash leaves a subset of tree and disk.
- **ScanProofs.** Of the loop: `ConcurrencyBounded`, `SlotsOwned`, `ProgressRight`
  and `Refinement` (the loop implements `SignalCollection`). `IInv` adds `LoopInv`:
  the loop leaves only with all started and all taken. `OwnSlot` and
  `ProgressCounts` are inductive only with each other, since the counter rises
  exactly when a slot that was still the default is filled. `EveryTurnCounts` and
  `NeverAwaitsNothing` are the part of `Reports` that needs no fairness: `ToGo` is
  a natural number that every turn of the loop lowers by one and that is 0 exactly
  when the loop is over, and what is awaited can answer. `ScanIsGather` gives the
  composition all of this. `CountsUp` needs `LineInv` (all lines drawn are in
  order, below the last count read, which is below the counter), `OneLateFrame`
  needs `LateInv` (after the clearing the indicator is aborted, and a ticker that
  has drawn since is at its await, where the abort ends it).
- **RecordsProofs.** Of the decision lock: `VerifiedIsUnchanged`,
  `RelockingLosesNothing` and, when no file changes while a command runs,
  `FrozenIsAboutThisProject` and `CommandsDoActAtomically`. The lock on disk
  outlives the project it was made for, so `IInv` speaks of the lock alone: its
  verdicts are those of the policy in its digest and, without races, its packages
  those of the lockfile in its digest (`Whole`). A command in progress holds a
  copy of such a lock (`PriorInv`), and what it has read so far is still what is
  there (`ReadInv`, the part that needs no races). `CommandsDoActAtomically` is the
  refinement of `AtomicCommands`: `RestInv` says what a command has read by the
  place it is at, so that `Judge` is `Look` and `Conclude` and `Write` do what
  their command ends with; every other step stutters, is an edit of the project or
  a turn of the world (`StepsAreAtomic`, by one lemma per kind of step). That the
  answers are of the command's own time is `HeardInv`: every package answered about
  had its answer right at some tick since the command began or `CacheAge` before
  (`WasRight`). It is kept by time and by advisories that come out later, since what
  was right at a tick stays so (`SaidRemains`: an advisory published now leaves every
  answer of an earlier tick, and of this one, right). A package of the workspace is
  never answered about and has no advisory, so "none" is right of it.
  Of the audit log: `LogInOrder` and `SmallRunsInOnePiece`. The number of pieces a
  run has in the log plus those in its buffer is the number it has written; an
  append adds to one run's count only. `Untouched` (a run that fits in its buffer
  has nothing in the log before its end) makes the second inductive.
- **BundleProofs.** `AcceptedWasSigned` and `DriftWasReal`. `CmdInv` follows a
  command through its reads; files hold what there is to sign (`Signable`: as attest
  wrote it, or edited since), what sign makes of it, torn, or altered in the payload
  only (`Files`). From the check of the signature on, it is over the payload by the
  key in `cosign.pub`, which no step changes while verify runs; so a payload that was
  altered after it was signed does not get that far.
- **ProvidersProofs.** Of npm's histories: `TakeoverReported`, `SurfaceReported`,
  `PastIsFinal`, `NoiseIgnored`, `RollbackReported`. The first two are by the least
  release, above the older one, whose publisher (or surface) differs from it: the
  release named before that one still agrees, so the detector reports there.
  `LeastNat` gives the least element from the well-foundedness of the naturals.
  Of its requests: `FetchesFew` and `AgesTrue`, from `IInv`: while an account's
  profile is unknown, every fetch of it is an open request (`FetchInv`), and there
  are no more of these than Concurrency; once it is known nobody fetches it.
  Of the other providers: `AnswersBehindSilence`. `ProvidersIInv` says of the
  caches what the property says of the requests: what is kept, a service has said
  of a package of that system and name (`VersionsInv`), or of some package with
  that repository (`ScoresInv`); a miss is kept only if the service was heard to
  say so. `InstallCodeIsSeen`: a source distribution request ends with a gap or
  with what is found in a download below the cap that has the digest of the index
  (`SeenInv`, `StepEnds`), and what is found covers the first setup.py and every
  Python file below a declared backend path (`SurfacesAre`). Where pip puts an entry
  that is not odd is one of the two places the provider compares with the backend
  paths, whether there is a leading directory or not.
- **PolicyProofs, EvaluationProofs.** A decision is split into what is found
  (`Found`: detectors that fire) and how each finding is rated. The verdict ranks
  as high as any finding's severity and no higher (`WorstIs`, `DecisionIs`), so a
  verdict over findings each of which has one as grave on the other side is no
  harsher (`GraverFindings`, `MoreFoundGraver`). What remains is which findings
  come or go: more alarming signals lose none (`EvidenceFound`), time brings none
  (`LaterFound`), a stricter policy misses none (`StricterFinds`). The low score is
  a finding too: `ScoreFalls` compares the sums and clamps of the trust score
  addend by addend. The seven theorems of the run `policy` follow: `TypeCorrect`,
  `AlarmsHold`, `WaitingHelps`, `TighteningHolds`, `DirectSectionStays`,
  `OutagesShow`, `IgnoringSoftens`.
- **ProjectProofs.** `IInv` says that what was said last is what its command makes
  of the project as it still is (`OutIs`). The rest is about the operators: every
  adapter's dependencies have the fields of one (`ParseProper`, one lemma per
  adapter), sorting and selecting keep every element once (`SortedIs`,
  `SelectedIs`, from `Places`: the elements before it number the members of a
  finite order), and what each command says is a fact about each result
  (`CountIs`, `ReportIs`, `BomIs`, `VexIs`, `MentionsAre`, `SimulateIs`). From
  these: `OutputsDoAgree`, `DriftIsTold`, `DoctorHelps`, `SimulateForetold`. That
  the snippet of `doctor` unblocks is once more by findings: with it, what it is
  about is not found, and nothing is found that was not (`SnippetFinds`).
  `AskedIsLocked` and `DirectAreDeclared`: reading undoes writing. Selecting and
  stable sorting give a bijection between the dependencies and the entries listed
  (`SelectedReading`, `WholeReading`); for each format, the dependency made of an
  entry is what is installed for it (`Faithful`; `NpmEntry`, `PnpmEntry`, ...) and
  no entry in sight is passed over; so for any number of entries in any order the
  two properties hold (`AllFaithful`, `AskedIs`, `DirectIs`). They stand on
  `WrittenAssumption`, which is about programs outside this repository and which
  TLC evaluates for every lockfile of the run `project`.

Model-checked only:

- `Reports`, a liveness property (TLAPS 1.4.5 has no ENABLED).
- That real package managers keep to `PackageManagers`: what is installed is an
  input, given entry by entry in the scenarios of the run `project`.
- `LineTypeOK`: `MaxFrames` is a bound of the model.

## 5. Not modelled

The splitting of text into what the models start from (JSON, YAML, TOML, URLs,
keys of lockfiles) and the wording of what is printed; the YAML of policies;
script patterns and name similarity, pure functions on text whose results are
inputs of `Policy`, `NpmRegistry` and `Providers`: over alphabets TLC can enumerate
they have no instances. Licence expressions beyond membership; integrity strings;
`cache stats`, `schema`, `--version`; several signatures in an envelope; short
writes and a full disk.

Seen while modelling, without a run of its own:

- `verify --frozen` reports drift for an unchanged project whenever the lock has
  kinds of signals in it: replayed decisions have no signals, and the kinds are in
  the digest (`cli/src/main.rs:709` against `core/src/lockfile.rs:8-9`: "lets a
  downstream consumer re-verify the same decisions offline", and 174-175: "Two runs
  with identical inputs MUST produce the same digest"). For pypi the adapter's id is
  another too (`cli/src/main.rs:794`). `AtomicCommands` says so (`Replay`, `Compare`).
- A release blocked for its age makes every later `verify` drift, because its
  age in minutes is in the lock (`core/src/policy.rs:382` against
  `core/src/lockfile.rs:91-92`: "the lock stays stable across re-runs"). In
  `DecisionLock` a minute is a tick.
- The answers a lock is built from are of as many moments as there are packages, some
  up to a cache's TTL old, and the ages in it are of a later moment still
  (`cli/src/main.rs:595` and 605).
- A profile request of `npm-registry` that fails late overwrites the profile
  another request has stored (`signals/npm-registry/src/lib.rs:283`); the
  signals it costs are missing, never wrong (`NeverFabricated`).
- `detect_publisher_change` passes over releases that name no publisher, where
  its comment says it gives up; that is what `NoSilentTakeover` rests on.
- A version with a leading `v` is found for its time and scripts, and is not
  seen by the publisher and surface detectors.
- The name-squat check is announced to survive a failing packument request and
  runs after the early returns of one (`signals/npm-registry/src/lib.rs:122`).
- `dsse::verify` stops at a signature that is not base64, though it promises to
  accept any valid one (`core/src/dsse.rs:167`).
- `verify --bundle` checks the lockfile the statement names, which need not be
  the one the other commands would locate by then.
- SBOM components are one per package URL: of two results with one URL the first
  one's decision is kept (`core/src/sbom.rs:129`), while the exit status and VEX
  count both; `OutputsAgree` says so where it allows for it.
- `verify_against` keys its report by name and version: drift between two packages
  of one name and version is told only as a digest mismatch (`core/src/lockfile.rs:218`).
- pnpm 6: keys of git dependencies are passed over, `importers` and
  `optionalDependencies` are not read. yarn: a patched package has the patch
  locator in its name, an alias is never direct. uv: the first virtual
  package is taken for the root (`adapters/pypi/src/lib.rs:98`), also where a member
  of the workspace comes before it, whose dependencies are direct then and the
  project's own are not; an editable root has none and is itself listed as coming
  from elsewhere. requirements.txt: a `# via` on lines of its own
  leaves a dependency direct.
- `simulate` reads the clock again after the evaluation: a release whose age falls
  in between is listed as changed by the candidate.
- pypi-sdist passes over archive entries with an absolute or climbing path without
  reporting a gap (`signals/pypi-sdist/src/lib.rs:429`), whatever pip makes of them,
  and takes the first setup.py and the first pyproject.toml at any depth: a nested one
  that comes earlier hides the one pip builds with, its backend paths included
  (`signals/pypi-sdist/src/lib.rs:331`). `InstallCodeSeen` leaves these out.
- `sign` signs any input: a statement edited after `attest` is signed, and its bundle
  verifies (`cli/src/main.rs:1277`).
- pypi-sdist reads the first setup.py of an archive only, does not look at the
  status of its download, and may take the length of a HEAD for 0: the cap is
  kept by the check after the download. A failing attestation request is silent.
- Scorecard's header says that any failure is silent; the code reports
  `Unavailable` on an outage, which `SilenceWasAnswered` rests on.
- The abort of the indicator lets one redraw through after the line was cleared
  (`cli/src/progress.rs:91`); `OneLateFrame` proves that it is one at most.

## 6. Plan

1. Compose: a whole run, from cache through collection to lock, so that the
   staleness the cache admits appears in what `lock` records; `DecisionLock` over
   the results of `Project` in place of its small policy.
2. Abstract specifications: a verifier that `Bundle` implements, as
   `AtomicCommands` is one for `DecisionLock`.
3. Extend: envelopes with several signatures; sled errors on lookup; the
   per-reason details of `verify`.
4. Prove: that sorting puts what was read into the order of names and versions for
   any lockfile, which the lock's bytes rest on.
