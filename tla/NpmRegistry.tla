------------------------------ MODULE NpmRegistry ------------------------------
(***************************************************************************)
(* The npm registry provider (crates/signals/npm-registry/src/lib.rs): what*)
(* it makes of a package's packument, a document that grows with every     *)
(* release, and how its concurrent requests share the profiles of the      *)
(* publishers' accounts (`user_cache`).                                    *)
(***************************************************************************)
EXTENDS Integers, FiniteSets, FiniteSetsExt

CONSTANTS
  None,        \* a field the packument does not have; a profile that did not come
  Unknown,     \* an account with no entry in user_cache
  Packages,
  Parsed,      \* the version strings that parse, with their place in the semver order,
               \* their major number and whether they are pre-releases
  Stripped,    \* the version strings with a leading v, without it
  Sentinel,    \* SENTINEL_MAJOR_FLOOR
  Hooks,       \* LIFECYCLE_SCRIPTS
  Squats,      \* packages whose name is close to a popular one
  Created,     \* the accounts, with the time they were created
  Concurrency, \* requests at a time
  Worlds       \* the registries to look at, by name.  In one: the releases and tags to
               \* start from, the publications that may follow, and the versions wanted

Accounts == DOMAIN Created

\* What is read of a version: its publisher, the binaries and scripts it has, when
\* it was published, whether it is deprecated and whether it has an attestation.
IsMeta(m) ==
  /\ DOMAIN m = {"publisher", "surface", "at", "deprecated", "attested"}
  /\ m.publisher \in Accounts \cup {None} /\ m.at \in Nat \cup {None}
  /\ m.deprecated \in BOOLEAN /\ m.attested \in BOOLEAN

ASSUME NpmAssumption ==
  /\ \A w \in {Worlds[x] : x \in DOMAIN Worlds} :
       /\ DOMAIN w.releases = Packages /\ DOMAIN w.latest = Packages /\ IsFiniteSet(DOMAIN w.wanted)
       /\ \A p \in DOMAIN w.releases : \A v \in DOMAIN w.releases[p] : IsMeta(w.releases[p][v])
       /\ DOMAIN w.wanted \subseteq Packages
       /\ \A x \in w.publications : x.package \in Packages /\ IsMeta(x.meta)
  /\ IsFiniteSet(DOMAIN Parsed)
  /\ \A u \in DOMAIN Parsed :
       Parsed[u].rank \in 1 .. Cardinality(DOMAIN Parsed) /\ Parsed[u].major \in Nat
  /\ \A u, v \in DOMAIN Parsed :
       /\ Parsed[u].rank <= Parsed[v].rank => Parsed[u].major <= Parsed[v].major
       /\ Parsed[u].rank = Parsed[v].rank => u = v
  /\ Unknown # None /\ \A a \in Accounts : Created[a] \in Int /\ Created[a] # Unknown
  /\ Squats \subseteq Packages
  /\ Sentinel \in Nat /\ Concurrency \in Nat \ {0}

VARIABLES
  world,
  releases,  \* per package, the published versions with their metadata
  latest,    \* per package, dist-tags.latest
  stage,     \* per package wanted, how far its request is
  entry,     \* per package wanted, the entry of the version in the packument it got
  answer,    \* per package wanted, the signals so far
  profiles,  \* user_cache: Unknown, None for a failure, or the creation time
  fetches    \* per account, the profile requests of this run

registry == <<world, releases, latest>>
provider == <<stage, entry, answer, profiles, fetches>>
vars == <<registry, provider>>

Wanted == Worlds[world].wanted

Init ==
  /\ world \in DOMAIN Worlds
  /\ releases = Worlds[world].releases
  /\ latest = Worlds[world].latest
  /\ stage = [p \in DOMAIN Wanted |-> "idle"]
  /\ entry = [p \in DOMAIN Wanted |-> {}]
  /\ answer = [p \in DOMAIN Wanted |-> {}]
  /\ profiles = [a \in Accounts |-> Unknown]
  /\ fetches = [a \in Accounts |-> 0]

-----------------------------------------------------------------------------
\* A release is published, as `latest` or under another tag.
Publish(p, v, meta) ==
  /\ v \notin DOMAIN releases[p]
  /\ releases' = [releases EXCEPT ![p] =
       [u \in DOMAIN @ \cup {v} |-> IF u = v THEN meta ELSE @[u]]]
  /\ latest' \in {latest, [latest EXCEPT ![p] = v]}
  /\ UNCHANGED <<world, provider>>

\* `latest` is moved to another release.
Retag(p, v) ==
  /\ Worlds[world].publications # {}
  /\ v \in DOMAIN releases[p] /\ v # latest[p]
  /\ latest' = [latest EXCEPT ![p] = v]
  /\ UNCHANGED <<world, releases, provider>>

-----------------------------------------------------------------------------
Rank(v) == Parsed[v].rank
Major(v) == Parsed[v].major
Newest(versions) == CHOOSE v \in versions : \A u \in versions : Rank(u) <= Rank(v)

\* The releases whose version parses; the others are passed over.
Parsable(history) == DOMAIN history \cap DOMAIN Parsed

\* Defect: every other release.
OtherReleases(history, v) == {u \in Parsable(history) : u # v}

\* The releases before a version.
Prior(history, v) == {u \in Parsable(history) : Rank(u) < Rank(v)}

\* Defect: the last release decides, also when it does not name its publisher.
PublisherChangeAtLast(history, v) ==
  IF v \notin Parsable(history) THEN {}
  ELSE LET earlier == Prior(history, v)
           now == history[v].publisher
       IN IF now = None \/ earlier = {} THEN {}
          ELSE {<<"publisher-change", was, now>> :
                  was \in {history[Newest(earlier)].publisher} \ {now, None}}

\* The publisher differs from that of the last release that names one.
PublisherChange(history, v) ==
  IF v \notin Parsable(history) THEN {}
  ELSE LET named == {u \in Prior(history, v) : history[u].publisher # None}
           now == history[v].publisher
       IN IF now = None \/ named = {} THEN {}
          ELSE {<<"publisher-change", was, now>> :
                  was \in {history[Newest(named)].publisher} \ {now}}

\* Defect: the comparison is with the first release.
AddedSinceFirst(history, v) ==
  IF v \notin Parsable(history) \/ Prior(history, v) = {} THEN {}
  ELSE LET first == CHOOSE u \in Prior(history, v) : Prior(history, u) = {}
       IN history[v].surface \ history[first].surface

\* Binaries and lifecycle scripts the release before did not have.
Added(history, v) ==
  IF v \notin Parsable(history) \/ Prior(history, v) = {} THEN {}
  ELSE history[v].surface \ history[Newest(Prior(history, v))].surface

SurfaceChange(history, v) ==
  IF Added(history, v) = {} THEN {} ELSE {<<"version-surface-change", Added(history, v)>>}

\* Defect: sentinel versions count as releases.
SettledOrSentinel(history) == {u \in Parsable(history) : ~Parsed[u].pre}

\* The releases `latest` is compared with.
Settled(history) ==
  {u \in Parsable(history) : ~Parsed[u].pre /\ Major(u) < Sentinel}

\* Defect: who installs what `latest` names is taken for having left its train.
BypassesOrFollows(v, tag, top) ==
  v \in DOMAIN Parsed /\ (Rank(v) >= Rank(top) \/ Major(v) <= Major(tag))

\* Who installs this version does not follow `latest`.
Bypasses(v, tag, top) ==
  v \in DOMAIN Parsed /\ (Rank(v) >= Rank(top) \/ Major(v) < Major(tag))

\* `latest` is a major release or more behind the highest one.
DistTagAnomaly(history, tag, v) ==
  IF tag \notin DOMAIN Parsed \/ Settled(history) = {} THEN {}
  ELSE LET top == Newest(Settled(history))
       IN IF \/ Rank(tag) >= Rank(top)
             \/ Major(tag) = Major(top)
             \/ Bypasses(v, tag, top)
          THEN {} ELSE {<<"dist-tag-anomaly", tag, top>>}

\* The name under which the packument may have a version.
Key(history, v) ==
  IF v \notin DOMAIN history /\ v \in DOMAIN Stripped THEN Stripped[v] ELSE v

\* What the entry of a version says of itself.
Declared(meta) ==
  {<<"lifecycle-scripts", s>> : s \in {meta.surface \cap Hooks} \ {{}}}
  \cup {<<"deprecated-version">> : m \in {m \in {meta} : m.deprecated}}

\* The entry of the version a request is about; {} if there is none.
EntryOf(p) == {releases[p][u] : u \in DOMAIN releases[p] \cap {Key(releases[p], Wanted[p])}}

\* When an entry was published, if that is known.
Published(found) ==
  LET times == {m.at : m \in found} \ {None}
  IN IF times = {} THEN {<<"signal-unavailable">>} ELSE {<<"published", at>> : at \in times}

NameSquat(p) == IF p \in Squats THEN {<<"name-squat">>} ELSE {}

\* All that is known from the packument alone.
ReadPackument(p) ==
  NameSquat(p) \cup Published(EntryOf(p)) \cup (UNION {Declared(m) : m \in EntryOf(p)})
    \cup PublisherChange(releases[p], Wanted[p]) \cup SurfaceChange(releases[p], Wanted[p])
    \cup DistTagAnomaly(releases[p], latest[p], Wanted[p])

\* Defect: a profile newer than the release counts too.
AgeSignalAnyhow(account, created, at) ==
  IF created = None THEN {} ELSE {<<"account-age", account, at - created>>}

\* compute_maintainer_account_signal: an account younger than the release it
\* published is no evidence.
AgeSignal(account, created, at) ==
  IF created = None THEN {}
  ELSE {<<"account-age", account, at - t>> : t \in {t \in {created} : t <= at}}

-----------------------------------------------------------------------------
\* The attestation bundle is fetched last, if the entry points to one.
AfterProfile(found) == IF \E m \in found : m.attested THEN "bundle" ELSE "done"

InFlight == {p \in DOMAIN stage : stage[p] \notin {"idle", "done"}}

Ask(p) ==
  /\ stage[p] = "idle"
  /\ Cardinality(InFlight) < Concurrency
  /\ stage' = [stage EXCEPT ![p] = "packument"]
  /\ UNCHANGED <<registry, entry, answer, profiles, fetches>>

\* The packument does not come: an error, or a status that is not a success.
Refused(p) ==
  /\ stage[p] = "packument"
  /\ stage' = [stage EXCEPT ![p] = "done"]
  /\ \E told \in {"error", "signal-unavailable"} : answer' = [answer EXCEPT ![p] = {<<told>>}]
  /\ UNCHANGED <<registry, entry, profiles, fetches>>

\* The packument comes and is read; then the publisher's profile is looked up,
\* which ends the step if it is not known yet.
Received(p) ==
  /\ stage[p] = "packument"
  /\ LET publishers == {m \in EntryOf(p) : m.publisher # None /\ m.at # None}
         unknown == {m \in publishers : profiles[m.publisher] = Unknown}
     IN /\ answer' = [answer EXCEPT ![p] = ReadPackument(p) \cup
             UNION {AgeSignal(m.publisher, profiles[m.publisher], m.at) : m \in publishers \ unknown}]
        /\ stage' = [stage EXCEPT ![p] = IF unknown # {} THEN "profile" ELSE AfterProfile(EntryOf(p))]
        /\ entry' = [entry EXCEPT ![p] = EntryOf(p)]
        /\ fetches' = [a \in Accounts |->
             IF \E m \in unknown : m.publisher = a THEN fetches[a] + 1 ELSE fetches[a]]
  /\ UNCHANGED <<registry, profiles>>

\* Defect: failures are not kept.
ProfileForgetful(p) ==
  /\ stage[p] = "profile"
  /\ \E m \in entry[p] : \E created \in {Created[m.publisher], None} :
       /\ profiles' = [profiles EXCEPT ![m.publisher] = IF created = None THEN @ ELSE created]
       /\ answer' = [answer EXCEPT ![p] = @ \cup AgeSignal(m.publisher, created, m.at)]
  /\ stage' = [stage EXCEPT ![p] = AfterProfile(entry[p])]
  /\ UNCHANGED <<registry, entry, fetches>>

\* The profile comes, or does not: kept either way, over what another request
\* may have kept meanwhile.
Profile(p) ==
  /\ stage[p] = "profile"
  /\ \E m \in entry[p] : \E created \in {Created[m.publisher], None} :
       /\ profiles' = [profiles EXCEPT ![m.publisher] = created]
       /\ answer' = [answer EXCEPT ![p] = @ \cup AgeSignal(m.publisher, created, m.at)]
  /\ stage' = [stage EXCEPT ![p] = AfterProfile(entry[p])]
  /\ UNCHANGED <<registry, entry, fetches>>

\* The bundle comes and names the tarball, or not.
Attestation(p) ==
  /\ stage[p] = "bundle"
  /\ \E found \in {{}, {<<"provenance-claimed">>}} : answer' = [answer EXCEPT ![p] = @ \cup found]
  /\ stage' = [stage EXCEPT ![p] = "done"]
  /\ UNCHANGED <<registry, entry, profiles, fetches>>

\* A later run of the tool has a provider of its own.
NewRun ==
  /\ InFlight = {}
  /\ stage' = [p \in DOMAIN stage |-> "idle"]
  /\ entry' = [p \in DOMAIN entry |-> {}]
  /\ answer' = [p \in DOMAIN answer |-> {}]
  /\ profiles' = [a \in Accounts |-> Unknown]
  /\ fetches' = [a \in Accounts |-> 0]
  /\ UNCHANGED registry

Next ==
  \/ \E x \in Worlds[world].publications : Publish(x.package, x.version, x.meta)
  \/ \E p \in Packages, v \in DOMAIN Parsed : Retag(p, v)
  \/ \E p \in DOMAIN stage :
       Ask(p) \/ Refused(p) \/ Received(p) \/ Profile(p) \/ Attestation(p)
  \/ NewRun

Spec == Init /\ [][Next]_vars
-----------------------------------------------------------------------------
\* The type invariant; at most Concurrency requests are open.
TypeOK ==
  /\ DOMAIN releases = Packages /\ DOMAIN latest = Packages
  /\ stage \in [DOMAIN Wanted -> {"idle", "packument", "profile", "bundle", "done"}]
  /\ \A p \in DOMAIN Wanted : (answer[p] = {}) <=> stage[p] \in {"idle", "packument"}
  /\ \A a \in Accounts : profiles[a] \in {Unknown, None, Created[a]}
  /\ Cardinality(InFlight) <= Concurrency

\* A publisher's profile is asked for by the requests that were open together
\* before its first answer, and by no later one, whether it came or failed: a
\* registry without profiles is not asked once per package.
FetchesBounded == \A a \in Accounts : fetches[a] <= Concurrency

\* "we never fabricate evidence": an account age is the age, at the time of the
\* release, of the account that published it, whoever fetched the profile.
NeverFabricated ==
  \A p \in DOMAIN Wanted : \A s \in answer[p] :
    s[1] = "account-age" =>
      \E m \in entry[p] : s = <<"account-age", m.publisher, m.at - Created[m.publisher]>> /\ s[3] >= 0

\* Between two releases of different publishers there is one, the later of the
\* two or one before it, that is reported for the change: not naming a publisher
\* in between hides nothing, nor do pre-releases and backports.
NoSilentTakeover ==
  \A p \in Packages : LET history == releases[p] IN
    \A w \in Parsable(history) : \A u \in Prior(history, w) :
      {history[u].publisher, history[w].publisher} \cap {None} = {}
        /\ history[u].publisher # history[w].publisher
      => \E v \in Prior(history, w) \cup {w} :
           Rank(u) < Rank(v) /\ PublisherChange(history, v) # {}

\* A binary or script that one release has and an earlier one had not is reported
\* as added at a release in between, however often it came and went.
NoSilentSurface ==
  \A p \in Packages : LET history == releases[p] IN
    \A w \in Parsable(history) : \A u \in Prior(history, w) :
      \A e \in history[w].surface \ history[u].surface :
        \E v \in Prior(history, w) \cup {w} : Rank(u) < Rank(v) /\ e \in Added(history, v)

\* What is reported of a version's publisher and surface does not depend on the
\* releases that follow it.
LaterReleasesDontMatter ==
  [][\A p \in Packages : releases'[p] # releases[p] =>
       \A v \in Parsable(releases[p]) :
         (\A u \in Parsable(releases'[p]) \ DOMAIN releases[p] : Rank(u) > Rank(v)) =>
           /\ PublisherChange(releases'[p], v) = PublisherChange(releases[p], v)
           /\ SurfaceChange(releases'[p], v) = SurfaceChange(releases[p], v)]_vars

\* Pre-releases, sentinels like 1000.0.0 and unparsable versions never make
\* `latest` look moved back, nor hide that it was.
NoiseNeverAlarms ==
  [][\A p \in Packages :
       /\ releases'[p] # releases[p] /\ latest'[p] = latest[p]
       /\ \A u \in Parsable(releases'[p]) \ DOMAIN releases[p] :
            Parsed[u].pre \/ Major(u) >= Sentinel
       => \A v \in DOMAIN Parsed \cup DOMAIN Stripped :
            DistTagAnomaly(releases'[p], latest[p], v) = DistTagAnomaly(releases[p], latest[p], v)]_vars

\* When `latest` is moved from a release to one of an older major, whoever
\* installs what it names now is told.
RollbackSeen ==
  [][\A p \in Packages : latest'[p] # latest[p] =>
       \A w \in Parsable(releases'[p]) \cap {latest'[p]} :
         (\E u \in Settled(releases[p]) \cap {latest[p]} : Major(w) < Major(u))
           => DistTagAnomaly(releases'[p], w, w) # {}]_vars
=============================================================================
