--------------------------- MODULE ProvidersProofs ---------------------------
(***************************************************************************)
(* Proofs about the providers, NpmRegistry and Providers, which share no   *)
(* state. For every history of releases and any number of requests: what   *)
(* the detectors over a packument promise, and what the requests that      *)
(* share user_cache do. For any packages, repositories and requests: a     *)
(* request that reports no gap repeats what a service has said of its      *)
(* package, whatever failed before it and whatever another request left in *)
(* the caches of deps.dev and Scorecard.                                   *)
(***************************************************************************)
EXTENDS NpmRegistry, Providers, FiniteSetTheorems, WellFoundedInduction, TLAPS

-----------------------------------------------------------------------------
\* Sets of places in the semver order have a first and a last member.
LEMMA LeastNat ==
  ASSUME NEW T \in SUBSET Nat, T # {}
  PROVE  \E x \in T : \A y \in T : x <= y
PROOF
<1>1. PICK x \in T : \A y \in T : ~ (<<y, x>> \in OpToRel(<, Nat))
  BY NatLessThanWellFounded, WFMin, Zenon
<1>2. \A y \in T : ~(y < x)
  BY <1>1 DEF OpToRel
<1> QED
  BY <1>2

LEMMA Ranks ==
  /\ \A u \in DOMAIN Parsed : Rank(u) \in Nat /\ Rank(u) <= Cardinality(DOMAIN Parsed) /\ Major(u) \in Nat
  /\ Cardinality(DOMAIN Parsed) \in Nat
  /\ \A u, v \in DOMAIN Parsed : /\ Rank(u) <= Rank(v) => Major(u) <= Major(v)
                                 /\ Rank(u) = Rank(v) => u = v
PROOF
<1>1. Cardinality(DOMAIN Parsed) \in Nat
  BY NpmAssumption, FS_CardinalityType
<1> QED
  BY <1>1, NpmAssumption DEF Rank, Major

LEMMA Oldest ==
  ASSUME NEW S \in SUBSET DOMAIN Parsed, S # {}
  PROVE  \E v \in S : \A u \in S : Rank(v) <= Rank(u)
PROOF
<1> DEFINE T == {Rank(u) : u \in S}
<1>1. T \in SUBSET Nat /\ T # {}
  BY Ranks
<1>2. PICK x \in T : \A y \in T : x <= y
  <2> HIDE DEF T
  <2> QED
    BY <1>1, LeastNat
<1> QED
  BY <1>2

\* `Newest` is one of the versions, with none after it.
LEMMA NewestIs ==
  ASSUME NEW S \in SUBSET DOMAIN Parsed, S # {}
  PROVE  Newest(S) \in S /\ \A u \in S : Rank(u) <= Rank(Newest(S))
PROOF
<1> DEFINE C == Cardinality(DOMAIN Parsed)
           T == {C - Rank(u) : u \in S}
<1>1. T \in SUBSET Nat /\ T # {}
  BY Ranks
<1>2. PICK x \in T : \A y \in T : x <= y
  <2> HIDE DEF T
  <2> QED
    BY <1>1, LeastNat
<1>3. PICK v \in S : x = C - Rank(v)
  BY <1>2
<1>4. \A u \in S : Rank(u) <= Rank(v)
  <2> SUFFICES ASSUME NEW u \in S PROVE Rank(u) <= Rank(v)
    OBVIOUS
  <2>1. C - Rank(v) <= C - Rank(u)
    BY <1>2, <1>3
  <2> QED
    BY <2>1, Ranks
<1> QED
  BY <1>4 DEF Newest

-----------------------------------------------------------------------------
\* Between two releases of different publishers there is one that is reported: the
\* first whose publisher is named and not that of the earlier release, since that
\* of the last named one before it still is.
LEMMA Takeovers == NoSilentTakeover
PROOF
<1> SUFFICES ASSUME NEW p \in Packages, NEW w \in Parsable(releases[p]),
                    NEW u \in Prior(releases[p], w),
                    releases[p][u].publisher # None, releases[p][w].publisher # None,
                    releases[p][u].publisher # releases[p][w].publisher
             PROVE  \E v \in Prior(releases[p], w) \cup {w} :
                      Rank(u) < Rank(v) /\ PublisherChange(releases[p], v) # {}
  BY DEF NoSilentTakeover
<1> DEFINE h == releases[p]
           was == h[u].publisher
           D == {v \in Prior(h, w) \cup {w} : Rank(u) < Rank(v) /\ h[v].publisher \notin {None, was}}
<1>1. u \in DOMAIN Parsed /\ w \in DOMAIN Parsed /\ u \in Parsable(h) /\ Rank(u) < Rank(w)
  BY DEF Prior, Parsable
<1>2. w \in D /\ D \subseteq Parsable(h) /\ D \subseteq DOMAIN Parsed
  BY <1>1 DEF Prior, Parsable
<1>3. PICK v \in D : \A x \in D : Rank(v) <= Rank(x)
  <2> HIDE DEF D
  <2> QED
    BY <1>2, Oldest
<1> DEFINE named == {x \in Prior(h, v) : h[x].publisher # None}
<1>4. v \in Parsable(h) /\ v \in DOMAIN Parsed /\ Rank(u) < Rank(v) /\ Rank(v) <= Rank(w)
  BY <1>1, <1>2, <1>3, Ranks DEF Prior
<1>5. u \in named /\ named \subseteq DOMAIN Parsed
  BY <1>1, <1>4 DEF Prior, Parsable
<1>6. Newest(named) \in named /\ Rank(u) <= Rank(Newest(named))
  <2> HIDE DEF named
  <2> QED
    BY <1>5, NewestIs
<1>7. h[Newest(named)].publisher = was
  <2> DEFINE n == Newest(named)
  <2>1. n \in Parsable(h) /\ n \in DOMAIN Parsed /\ Rank(n) < Rank(v) /\ h[n].publisher # None
    BY <1>6 DEF Prior, Parsable
  <2>2. CASE n = u
    BY <2>2
  <2>3. CASE n # u
    <3>1. Rank(u) < Rank(n) /\ Rank(n) < Rank(w) /\ ~(Rank(v) <= Rank(n))
      BY <1>1, <1>4, <1>6, <2>1, <2>3, Ranks
    <3>2. n \in Prior(h, w)
      BY <2>1, <3>1 DEF Prior
    <3>3. n \notin D
      BY <1>3, <3>1
    <3> QED
      BY <2>1, <3>1, <3>2, <3>3
  <2> QED
    BY <2>2, <2>3
<1>8. was # h[v].publisher /\ h[v].publisher # None
  BY <1>3
<1>9. PublisherChange(h, v) # {}
  BY <1>4, <1>5, <1>7, <1>8 DEF PublisherChange
<1> QED
  BY <1>3, <1>4, <1>9

\* What one release has and an earlier one had not is reported as added at the
\* first release in between that has it.
LEMMA Surfaces == NoSilentSurface
PROOF
<1> SUFFICES ASSUME NEW p \in Packages, NEW w \in Parsable(releases[p]),
                    NEW u \in Prior(releases[p], w),
                    NEW e \in releases[p][w].surface \ releases[p][u].surface
             PROVE  \E v \in Prior(releases[p], w) \cup {w} :
                      Rank(u) < Rank(v) /\ e \in Added(releases[p], v)
  BY DEF NoSilentSurface
<1> DEFINE h == releases[p]
           D == {v \in Prior(h, w) \cup {w} : Rank(u) < Rank(v) /\ e \in h[v].surface}
<1>1. u \in DOMAIN Parsed /\ w \in DOMAIN Parsed /\ u \in Parsable(h) /\ Rank(u) < Rank(w)
  BY DEF Prior, Parsable
<1>2. w \in D /\ D \subseteq Parsable(h) /\ D \subseteq DOMAIN Parsed
  BY <1>1 DEF Prior, Parsable
<1>3. PICK v \in D : \A x \in D : Rank(v) <= Rank(x)
  <2> HIDE DEF D
  <2> QED
    BY <1>2, Oldest
<1> DEFINE n == Newest(Prior(h, v))
<1>4. v \in Parsable(h) /\ v \in DOMAIN Parsed /\ Rank(u) < Rank(v) /\ Rank(v) <= Rank(w)
  BY <1>1, <1>2, <1>3, Ranks DEF Prior
<1>5. u \in Prior(h, v) /\ Prior(h, v) \subseteq DOMAIN Parsed
  BY <1>1, <1>4 DEF Prior, Parsable
<1>6. n \in Prior(h, v) /\ Rank(u) <= Rank(n)
  BY <1>5, NewestIs
<1>7. e \notin h[n].surface
  <2>1. n \in Parsable(h) /\ n \in DOMAIN Parsed /\ Rank(n) < Rank(v)
    BY <1>6 DEF Prior, Parsable
  <2>2. CASE n # u
    <3>1. Rank(u) < Rank(n) /\ Rank(n) < Rank(w) /\ ~(Rank(v) <= Rank(n))
      BY <1>1, <1>4, <1>6, <2>1, <2>2, Ranks
    <3>2. n \in Prior(h, w)
      BY <2>1, <3>1 DEF Prior
    <3> QED
      BY <1>3, <3>1, <3>2
  <2> QED
    BY <2>2
<1>8. e \in Added(h, v)
  BY <1>3, <1>4, <1>5, <1>7 DEF Added
<1> QED
  BY <1>3, <1>4, <1>8

-----------------------------------------------------------------------------
\* A packument only grows, by a release at a time; `latest` moves to a release.
Grows(p) ==
  /\ DOMAIN releases[p] \subseteq DOMAIN releases'[p]
  /\ \A v \in DOMAIN releases[p] : releases'[p][v] = releases[p][v]

History == DOMAIN releases = Packages /\ DOMAIN latest = Packages /\ world \in DOMAIN Worlds

LEMMA HistoryStep ==
  ASSUME History, [Next]_vars
  PROVE  History' /\ \A p \in Packages : Grows(p)
PROOF
<1>1. CASE UNCHANGED registry
  BY <1>1 DEF History, registry, Grows
<1>2. ASSUME NEW x \in Worlds[world].publications, Publish(x.package, x.version, x.meta)
      PROVE  History' /\ \A p \in Packages : Grows(p)
  <2> DEFINE q == x.package
             v == x.version
  <2>1. /\ v \notin DOMAIN releases[q]
        /\ releases' = [releases EXCEPT ![q] =
             [u \in DOMAIN releases[q] \cup {v} |-> IF u = v THEN x.meta ELSE releases[q][u]]]
        /\ latest' \in {latest, [latest EXCEPT ![q] = v]} /\ world' = world
    BY <1>2 DEF Publish
  <2>2. ASSUME NEW p \in Packages PROVE Grows(p)
    <3>1. CASE p = q
      BY <2>1, <3>1 DEF Grows, History
    <3>2. CASE p # q
      BY <2>1, <3>2 DEF Grows, History
    <3> QED
      BY <3>1, <3>2
  <2> QED
    BY <2>1, <2>2 DEF History
<1>3. ASSUME NEW q \in Packages, NEW v \in DOMAIN Parsed, Retag(q, v)
      PROVE  History' /\ \A p \in Packages : Grows(p)
  BY <1>3 DEF Retag, History, Grows
<1>4. CASE \E p \in DOMAIN stage :
             Ask(p) \/ Refused(p) \/ Received(p) \/ Profile(p) \/ Attestation(p)
  BY <1>1, <1>4 DEF Ask, Refused, Received, Profile, Attestation
<1>5. CASE NewRun
  BY <1>1, <1>5 DEF NewRun
<1>6. CASE UNCHANGED vars
  BY <1>1, <1>6 DEF vars
<1> QED
  BY <1>2, <1>3, <1>4, <1>5, <1>6 DEF Next

LEMMA HistoryAlways == Spec => []History
PROOF
<1>1. Init => History
  BY NpmAssumption DEF Init, History
<1> QED
  BY <1>1, HistoryStep, PTL DEF Spec

\* Releases that come after a version change nothing about what is before it.
LEMMA SamePast ==
  ASSUME NEW p \in Packages, Grows(p), NEW v \in Parsable(releases[p]),
         \A u \in Parsable(releases'[p]) \ DOMAIN releases[p] : Rank(u) > Rank(v)
  PROVE  /\ PublisherChange(releases'[p], v) = PublisherChange(releases[p], v)
         /\ SurfaceChange(releases'[p], v) = SurfaceChange(releases[p], v)
PROOF
<1> DEFINE h == releases[p]
           g == releases'[p]
<1>1. v \in Parsable(g) /\ v \in DOMAIN Parsed /\ g[v] = h[v]
  BY DEF Grows, Parsable
<1>2. Prior(g, v) = Prior(h, v)
  <2>1. ASSUME NEW u \in Prior(g, v) PROVE u \in Prior(h, v)
    <3>1. u \in DOMAIN Parsed /\ Rank(u) < Rank(v) /\ Rank(u) \in Nat /\ Rank(v) \in Nat
      BY <1>1, <2>1, Ranks DEF Prior, Parsable
    <3>2. ~(Rank(u) > Rank(v))
      BY <3>1
    <3> QED
      BY <2>1, <3>1, <3>2 DEF Prior, Parsable
  <2>2. Prior(h, v) \subseteq Prior(g, v)
    BY DEF Prior, Parsable, Grows
  <2> QED
    BY <2>1, <2>2
<1>3. \A u \in Prior(h, v) : g[u] = h[u] /\ u \in DOMAIN Parsed
  BY DEF Prior, Parsable, Grows
<1>4. {u \in Prior(g, v) : g[u].publisher # None} = {u \in Prior(h, v) : h[u].publisher # None}
  BY <1>2, <1>3
<1>5. PublisherChange(g, v) = PublisherChange(h, v)
  <2> DEFINE named == {u \in Prior(h, v) : h[u].publisher # None}
  <2>1. named \subseteq DOMAIN Parsed
    BY <1>3
  <2>2. named # {} => g[Newest(named)] = h[Newest(named)]
    <3> SUFFICES ASSUME named # {} PROVE g[Newest(named)] = h[Newest(named)]
      OBVIOUS
    <3>1. Newest(named) \in named
      <4> HIDE DEF named
      <4> QED
        BY <2>1, NewestIs
    <3> QED
      BY <1>3, <3>1
  <2> QED
    BY <1>1, <1>2, <1>4, <2>2 DEF PublisherChange
<1>6. Added(g, v) = Added(h, v)
  <2>1. Prior(h, v) # {} => g[Newest(Prior(h, v))] = h[Newest(Prior(h, v))]
    BY <1>3, NewestIs
  <2> QED
    BY <1>1, <1>2, <2>1 DEF Added
<1> QED
  BY <1>5, <1>6 DEF SurfaceChange

-----------------------------------------------------------------------------
\* detect_publisher_change, whatever was published in which order: a new publisher
\* does not go unreported.
THEOREM TakeoverReported == Spec => []NoSilentTakeover
PROOF BY Takeovers, PTL

\* detect_version_surface_change: neither does a new binary or lifecycle script.
THEOREM SurfaceReported == Spec => []NoSilentSurface
PROOF BY Surfaces, PTL

\* What both say of a version is final once no earlier version can be published.
THEOREM PastIsFinal == Spec => LaterReleasesDontMatter
PROOF
<1>1. History /\ [Next]_vars => [\A p \in Packages : releases'[p] # releases[p] =>
       \A v \in Parsable(releases[p]) :
         (\A u \in Parsable(releases'[p]) \ DOMAIN releases[p] : Rank(u) > Rank(v)) =>
           /\ PublisherChange(releases'[p], v) = PublisherChange(releases[p], v)
           /\ SurfaceChange(releases'[p], v) = SurfaceChange(releases[p], v)]_vars
  BY HistoryStep, SamePast
<1> QED
  BY <1>1, HistoryAlways, PTL DEF Spec, LaterReleasesDontMatter

\* detect_dist_tag_anomaly: pre-releases and sentinels neither raise nor hide it.
THEOREM NoiseIgnored == Spec => NoiseNeverAlarms
PROOF
<1>1. ASSUME NEW p \in Packages, Grows(p),
             \A u \in Parsable(releases'[p]) \ DOMAIN releases[p] : Parsed[u].pre \/ Major(u) >= Sentinel
      PROVE  Settled(releases'[p]) = Settled(releases[p])
  <2>1. ASSUME NEW u \in Settled(releases'[p]) PROVE u \in Settled(releases[p])
    <3>1. u \in Parsable(releases'[p]) /\ ~Parsed[u].pre /\ Major(u) < Sentinel /\ Major(u) \in Nat
      BY <2>1, Ranks DEF Settled, Parsable
    <3>2. ~(Major(u) >= Sentinel)
      BY <3>1, NpmAssumption
    <3> QED
      BY <1>1, <3>1, <3>2 DEF Settled, Parsable
  <2>2. Settled(releases[p]) \subseteq Settled(releases'[p])
    BY <1>1 DEF Settled, Parsable, Grows
  <2> QED
    BY <2>1, <2>2
<1>2. History /\ [Next]_vars => [\A p \in Packages :
       /\ releases'[p] # releases[p] /\ latest'[p] = latest[p]
       /\ \A u \in Parsable(releases'[p]) \ DOMAIN releases[p] :
            Parsed[u].pre \/ Major(u) >= Sentinel
       => \A v \in DOMAIN Parsed \cup DOMAIN Stripped :
            DistTagAnomaly(releases'[p], latest[p], v) = DistTagAnomaly(releases[p], latest[p], v)]_vars
  BY <1>1, HistoryStep DEF DistTagAnomaly
<1> QED
  BY <1>2, HistoryAlways, PTL DEF Spec, NoiseNeverAlarms

\* detect_dist_tag_anomaly: a rollback of `latest` to an older major is reported to
\* whoever follows it.
THEOREM RollbackReported == Spec => RollbackSeen
PROOF
<1>1. ASSUME NEW p \in Packages, Grows(p), NEW w \in Parsable(releases'[p]),
             NEW u \in Settled(releases[p]), Major(w) < Major(u)
      PROVE  DistTagAnomaly(releases'[p], w, w) # {}
  <2> DEFINE S == Settled(releases'[p])
             top == Newest(S)
  <2>1. u \in S /\ S \subseteq DOMAIN Parsed /\ w \in DOMAIN Parsed
    BY <1>1 DEF Settled, Parsable, Grows
  <2>2. top \in S /\ Rank(u) <= Rank(top)
    <3> HIDE DEF S
    <3> QED
      BY <2>1, NewestIs
  <2>3. top \in DOMAIN Parsed /\ Major(u) <= Major(top) /\ Major(w) < Major(top)
    BY <1>1, <2>1, <2>2, Ranks
  <2>4. Rank(w) < Rank(top)
    BY <2>1, <2>3, Ranks
  <2>5. ~(Rank(w) >= Rank(top)) /\ Major(w) # Major(top) /\ ~(Major(w) < Major(w))
    BY <2>1, <2>3, <2>4, Ranks
  <2>6. ~Bypasses(w, w, top)
    BY <2>5 DEF Bypasses
  <2> QED
    BY <2>1, <2>5, <2>6 DEF DistTagAnomaly
<1>2. History /\ [Next]_vars => [\A p \in Packages : latest'[p] # latest[p] =>
       \A w \in Parsable(releases'[p]) \cap {latest'[p]} :
         (\E u \in Settled(releases[p]) \cap {latest[p]} : Major(w) < Major(u))
           => DistTagAnomaly(releases'[p], w, w) # {}]_vars
  BY <1>1, HistoryStep
<1> QED
  BY <1>2, HistoryAlways, PTL DEF Spec, RollbackSeen

-----------------------------------------------------------------------------
\* The requests that wait for the profile of an account.
FetchesOf(a) == {p \in DOMAIN Wanted : stage[p] = "profile" /\ \E m \in entry[p] : m.publisher = a}

\* Whoever waits for a profile knows whose and as of when; one request has one entry.
EntryInv ==
  /\ \A p \in DOMAIN Wanted : \A m \in entry[p] : IsMeta(m) /\ \A o \in entry[p] : o = m
  /\ \A p \in DOMAIN Wanted : stage[p] = "profile" =>
       \A m \in entry[p] : m.publisher # None /\ m.at # None

\* While a profile has not come, everybody who asked for it waits for it.
FetchInv ==
  \A a \in Accounts : profiles[a] = Unknown => fetches[a] <= Cardinality(FetchesOf(a))

Shape ==
  /\ History
  /\ \A p \in Packages : \A v \in DOMAIN releases[p] : IsMeta(releases[p][v])
  /\ stage \in [DOMAIN Wanted -> {"idle", "packument", "profile", "bundle", "done"}]
  /\ DOMAIN entry = DOMAIN Wanted /\ DOMAIN answer = DOMAIN Wanted /\ DOMAIN profiles = Accounts
  /\ fetches \in [Accounts -> Nat]

IInv == Shape /\ EntryInv /\ TypeOK /\ FetchInv /\ FetchesBounded /\ NeverFabricated

LEMMA Counted ==
  ASSUME Shape
  PROVE  /\ IsFiniteSet(InFlight) /\ Cardinality(InFlight) \in Nat
         /\ \A a : /\ FetchesOf(a) \subseteq InFlight /\ IsFiniteSet(FetchesOf(a))
                   /\ Cardinality(FetchesOf(a)) \in Nat
                   /\ Cardinality(FetchesOf(a)) <= Cardinality(InFlight)
PROOF
<1>1. IsFiniteSet(DOMAIN Wanted)
  BY NpmAssumption DEF Shape, History, Wanted
<1>2. InFlight \subseteq DOMAIN Wanted
  BY DEF InFlight, Shape
<1>3. IsFiniteSet(InFlight) /\ Cardinality(InFlight) \in Nat
  BY <1>1, <1>2, FS_Subset, FS_CardinalityType
<1>4. ASSUME NEW a PROVE FetchesOf(a) \subseteq InFlight
  BY DEF FetchesOf, InFlight, Shape
<1> QED
  BY <1>3, <1>4, FS_Subset, FS_CardinalityType

\* An account age is the age at the release, whether the profile is an answer to
\* this request or to another one.
LEMMA AgeTrue ==
  ASSUME NEW m, IsMeta(m), m.publisher # None, m.at # None,
         NEW created \in {Created[m.publisher], None}, NEW s \in AgeSignal(m.publisher, created, m.at)
  PROVE  s = <<"account-age", m.publisher, m.at - Created[m.publisher]>> /\ s[3] >= 0
PROOF
<1>1. m.publisher \in Accounts /\ m.at \in Nat /\ Created[m.publisher] \in Int
  BY NpmAssumption DEF IsMeta
<1>2. created = Created[m.publisher] /\ created <= m.at /\ s = <<"account-age", m.publisher, m.at - created>>
  BY DEF AgeSignal
<1> QED
  BY <1>1, <1>2

\* Nothing that is read from the packument is an account age.
LEMMA PackumentHasNoAges ==
  ASSUME NEW p, NEW s \in ReadPackument(p)
  PROVE  s[1] # "account-age"
PROOF
<1>1. \A h, v : \A t \in PublisherChange(h, v) : t[1] # "account-age"
  <2> SUFFICES ASSUME NEW h, NEW v, NEW t \in PublisherChange(h, v) PROVE t[1] # "account-age"
    OBVIOUS
  <2>1. \E was : t = <<"publisher-change", was, h[v].publisher>>
    BY Zenon DEF PublisherChange
  <2> QED
    BY <2>1
<1>2. \A h, v : \A t \in SurfaceChange(h, v) : t[1] # "account-age"
  BY DEF SurfaceChange
<1>3. \A h, tag, v : \A t \in DistTagAnomaly(h, tag, v) : t[1] # "account-age"
  BY DEF DistTagAnomaly
<1>4. \A m : \A t \in Declared(m) : t[1] # "account-age"
  BY DEF Declared
<1>5. \/ s = <<"name-squat">> \/ s = <<"signal-unavailable">> \/ \E at : s = <<"published", at>>
      \/ \E m : s \in Declared(m)
      \/ \E h, v : s \in PublisherChange(h, v) \/ s \in SurfaceChange(h, v)
      \/ \E h, tag, v : s \in DistTagAnomaly(h, tag, v)
  <2>1. s \in NameSquat(p) => s = <<"name-squat">>
    BY DEF NameSquat
  <2>2. s \in Published(EntryOf(p)) => s = <<"signal-unavailable">> \/ \E at : s = <<"published", at>>
    <3> DEFINE times == {m.at : m \in EntryOf(p)} \ {None}
    <3>1. Published(EntryOf(p)) =
            IF times = {} THEN {<<"signal-unavailable">>} ELSE {<<"published", at>> : at \in times}
      BY DEF Published
    <3> HIDE DEF times
    <3> QED
      BY <3>1
  <2> DEFINE declared == UNION {Declared(m) : m \in EntryOf(p)}
  <2>3. s \in declared => \E m : s \in Declared(m)
    OBVIOUS
  <2>4. s \in NameSquat(p) \cup Published(EntryOf(p)) \cup declared
          \cup PublisherChange(releases[p], Wanted[p]) \cup SurfaceChange(releases[p], Wanted[p])
          \cup DistTagAnomaly(releases[p], latest[p], Wanted[p])
    BY Zenon DEF ReadPackument
  <2> HIDE DEF declared
  <2> QED
    BY <2>1, <2>2, <2>3, <2>4, SMTT(30)
<1>6. \A at : <<"published", at>>[1] # "account-age" /\ <<"name-squat">>[1] # "account-age"
             /\ <<"signal-unavailable">>[1] # "account-age"
  OBVIOUS
<1> QED
  BY <1>1, <1>2, <1>3, <1>4, <1>5, <1>6, Zenon

LEMMA PackumentSaysSomething == \A p : ReadPackument(p) # {}
PROOF
<1> SUFFICES ASSUME NEW p PROVE ReadPackument(p) # {}
  OBVIOUS
<1>1. Published(EntryOf(p)) # {}
  BY DEF Published
<1> QED
  BY <1>1 DEF ReadPackument

LEMMA EntryIs ==
  ASSUME Shape, NEW p \in DOMAIN Wanted
  PROVE  p \in Packages /\ \A m \in EntryOf(p) : IsMeta(m) /\ \A o \in EntryOf(p) : o = m
PROOF
<1>1. p \in Packages
  BY NpmAssumption DEF Shape, History, Wanted
<1> QED
  BY <1>1 DEF Shape, EntryOf

-----------------------------------------------------------------------------
LEMMA ReqInit == Init => IInv
PROOF
<1> SUFFICES ASSUME Init PROVE IInv
  OBVIOUS
<1>1. Shape
  BY NpmAssumption DEF Init, Shape, History, Wanted
<1>2. InFlight = {} /\ \A p \in DOMAIN Wanted : stage[p] = "idle" /\ entry[p] = {} /\ answer[p] = {}
  BY DEF Init, InFlight
<1>3. EntryInv
  BY <1>2 DEF EntryInv
<1>4. \A a \in Accounts : profiles[a] = Unknown /\ fetches[a] = 0
  BY DEF Init
<1>5. TypeOK
  BY <1>1, <1>2, <1>4, FS_EmptySet, NpmAssumption DEF TypeOK, Shape, History
<1>6. FetchInv /\ FetchesBounded
  BY <1>1, <1>4, Counted, NpmAssumption DEF FetchInv, FetchesBounded
<1>7. NeverFabricated
  BY <1>2 DEF NeverFabricated
<1> QED
  BY <1>1, <1>3, <1>5, <1>6, <1>7 DEF IInv

\* The registry changes, the provider does not.
LEMMA RegistryStep ==
  ASSUME IInv, UNCHANGED provider, UNCHANGED world, History',
         \A p \in Packages : \A v \in DOMAIN releases'[p] : IsMeta(releases'[p][v])
  PROVE  IInv'
PROOF
<1>1. stage' = stage /\ entry' = entry /\ answer' = answer /\ profiles' = profiles /\ fetches' = fetches
      /\ Wanted' = Wanted /\ world' = world
  BY DEF provider, Wanted
<1>2. Shape'
  BY <1>1 DEF IInv, Shape, IsMeta
<1>3. EntryInv'
  BY <1>1 DEF IInv, EntryInv, IsMeta
<1>4. TypeOK'
  BY <1>1 DEF IInv, TypeOK, InFlight, History
<1>5. FetchInv' /\ FetchesBounded'
  BY <1>1 DEF IInv, FetchInv, FetchesBounded, FetchesOf
<1>6. NeverFabricated'
  BY <1>1 DEF IInv, NeverFabricated
<1> QED
  BY <1>2, <1>3, <1>4, <1>5, <1>6 DEF IInv

LEMMA PublishInv ==
  ASSUME IInv, NEW x \in Worlds[world].publications, Publish(x.package, x.version, x.meta)
  PROVE  IInv'
PROOF
<1>1. History' /\ UNCHANGED provider /\ UNCHANGED world /\ History
  BY HistoryStep DEF IInv, Shape, Next, Publish
<1>2. IsMeta(x.meta) /\ x.package \in Packages
  BY <1>1, NpmAssumption DEF History
<1>3. \A p \in Packages : \A v \in DOMAIN releases'[p] : IsMeta(releases'[p][v])
  <2> SUFFICES ASSUME NEW p \in Packages, NEW v \in DOMAIN releases'[p] PROVE IsMeta(releases'[p][v])
    OBVIOUS
  <2>1. releases' = [releases EXCEPT ![x.package] =
          [u \in DOMAIN releases[x.package] \cup {x.version} |->
             IF u = x.version THEN x.meta ELSE releases[x.package][u]]]
    BY DEF Publish
  <2>2. CASE p = x.package /\ v = x.version
    <3>1. releases'[p][v] = x.meta
      BY <1>1, <1>2, <2>1, <2>2 DEF History
    <3> QED
      BY <1>2, <3>1
  <2>3. CASE ~(p = x.package /\ v = x.version)
    <3>1. v \in DOMAIN releases[p] /\ releases'[p][v] = releases[p][v]
      BY <1>1, <1>2, <2>1, <2>3 DEF History
    <3> QED
      BY <3>1 DEF IInv, Shape
  <2> QED
    BY <2>2, <2>3
<1> QED
  BY <1>1, <1>3, RegistryStep

LEMMA RetagInv == ASSUME IInv, NEW q \in Packages, NEW v \in DOMAIN Parsed, Retag(q, v) PROVE IInv'
PROOF
<1>1. History' /\ UNCHANGED provider /\ UNCHANGED world /\ releases' = releases
  BY HistoryStep DEF IInv, Shape, Next, Retag
<1> QED
  BY <1>1, RegistryStep DEF IInv, Shape, IsMeta

-----------------------------------------------------------------------------
\* A request is started, within the limit.
LEMMA AskInv == ASSUME IInv, NEW p \in DOMAIN stage, Ask(p) PROVE IInv'
PROOF
<1>1. /\ stage[p] = "idle" /\ Cardinality(InFlight) < Concurrency
      /\ stage' = [stage EXCEPT ![p] = "packument"] /\ UNCHANGED registry
      /\ entry' = entry /\ answer' = answer /\ profiles' = profiles /\ fetches' = fetches
      /\ releases' = releases /\ latest' = latest /\ world' = world /\ Wanted' = Wanted
      /\ Shape /\ EntryInv /\ TypeOK /\ FetchInv /\ FetchesBounded /\ NeverFabricated
  BY DEF Ask, registry, Wanted, IInv
<1>2. Shape'
  BY <1>1 DEF Shape, History, IsMeta
<1>3. p \in DOMAIN Wanted /\ \A q \in DOMAIN Wanted : stage'[q] = IF q = p THEN "packument" ELSE stage[q]
  BY <1>1 DEF Shape
<1>4. InFlight' = InFlight \cup {p} /\ p \notin InFlight
  BY <1>1, <1>3 DEF InFlight, Shape
<1>5. Cardinality(InFlight') <= Concurrency
  <2>1. IsFiniteSet(InFlight) /\ Cardinality(InFlight) \in Nat
    BY <1>1, Counted
  <2>2. Cardinality(InFlight \cup {p}) = Cardinality(InFlight) + 1
    BY <1>4, <2>1, FS_AddElement, Zenon
  <2> QED
    BY <1>1, <1>4, <2>1, <2>2, NpmAssumption
<1>6. EntryInv'
  BY <1>1, <1>3 DEF EntryInv, IsMeta
<1>7. TypeOK'
  BY <1>1, <1>2, <1>3, <1>5 DEF TypeOK, Shape, History
<1>8. \A a : FetchesOf(a)' = FetchesOf(a)
  BY <1>1, <1>3 DEF FetchesOf
<1>9. FetchInv' /\ FetchesBounded' /\ NeverFabricated'
  BY <1>1, <1>8 DEF FetchInv, FetchesBounded, NeverFabricated
<1> QED
  BY <1>2, <1>6, <1>7, <1>9 DEF IInv

\* The end of a request that asks for no profile.
LEMMA EndInv == ASSUME IInv, NEW p \in DOMAIN stage, Refused(p) \/ Attestation(p) PROVE IInv'
PROOF
<1>1. /\ stage[p] \in {"packument", "bundle"} /\ stage' = [stage EXCEPT ![p] = "done"]
      /\ entry' = entry /\ profiles' = profiles /\ fetches' = fetches
      /\ releases' = releases /\ latest' = latest /\ world' = world /\ Wanted' = Wanted
      /\ Shape /\ EntryInv /\ TypeOK /\ FetchInv /\ FetchesBounded /\ NeverFabricated
  BY DEF Refused, Attestation, registry, Wanted, IInv
<1>2. PICK told : /\ answer' = [answer EXCEPT ![p] = told]
                  /\ told # {} /\ \A s \in told : s \in answer[p] \/ s[1] # "account-age"
  <2>1. CASE Refused(p)
    <3>1. PICK t \in {"error", "signal-unavailable"} : answer' = [answer EXCEPT ![p] = {<<t>>}]
      BY <2>1 DEF Refused
    <3>2. {<<t>>} # {} /\ \A s \in {<<t>>} : s[1] # "account-age"
      BY <3>1
    <3> QED
      BY <3>1, <3>2, Zenon
  <2>2. CASE Attestation(p)
    <3>1. PICK found \in {{}, {<<"provenance-claimed">>}} :
            answer' = [answer EXCEPT ![p] = answer[p] \cup found]
      BY <2>2 DEF Attestation
    <3>2. answer[p] # {}
      <4>1. p \in DOMAIN Wanted /\ stage[p] = "bundle"
        BY <1>1, <2>2 DEF Attestation, Shape
      <4> QED
        BY <1>1, <4>1 DEF TypeOK
    <3>3. \A s \in found : s[1] # "account-age"
      BY <3>1
    <3> QED
      BY <3>1, <3>2, <3>3
  <2> QED
    BY <2>1, <2>2
<1>3. /\ p \in DOMAIN Wanted
      /\ \A q \in DOMAIN Wanted : /\ stage'[q] = IF q = p THEN "done" ELSE stage[q]
                                  /\ answer'[q] = IF q = p THEN told ELSE answer[q]
  BY <1>1, <1>2 DEF Shape
<1>4. Shape'
  BY <1>1, <1>2 DEF Shape, History, IsMeta
<1>5. InFlight' \subseteq InFlight
  BY <1>1, <1>3 DEF InFlight, Shape
<1>6. Cardinality(InFlight') <= Concurrency
  BY <1>1, <1>5, Counted, FS_Subset, FS_CardinalityType, NpmAssumption DEF TypeOK
<1>7. EntryInv'
  BY <1>1, <1>3 DEF EntryInv, IsMeta
<1>8. TypeOK'
  <2>1. \A q \in DOMAIN Wanted : (answer'[q] = {}) <=> stage'[q] \in {"idle", "packument"}
    BY <1>1, <1>2, <1>3 DEF TypeOK
  <2> QED
    BY <1>1, <1>4, <1>6, <2>1 DEF TypeOK, Shape, History
<1>9. \A a : FetchesOf(a)' = FetchesOf(a)
  BY <1>1, <1>3 DEF FetchesOf
<1>10. FetchInv' /\ FetchesBounded'
  BY <1>1, <1>9 DEF FetchInv, FetchesBounded
<1>11. NeverFabricated'
  BY <1>1, <1>2, <1>3 DEF NeverFabricated
<1> QED
  BY <1>4, <1>7, <1>8, <1>10, <1>11 DEF IInv

\* The packument is there: whoever asks for a profile joins those who wait for it,
\* and a profile that is known was the account's.
LEMMA ReceivedInv == ASSUME IInv, NEW p \in DOMAIN stage, Received(p) PROVE IInv'
PROOF
<1> DEFINE found == EntryOf(p)
           publishers == {m \in found : m.publisher # None /\ m.at # None}
           unknown == {m \in publishers : profiles[m.publisher] = Unknown}
           ages == UNION {AgeSignal(m.publisher, profiles[m.publisher], m.at) : m \in publishers \ unknown}
           next == IF unknown # {} THEN "profile" ELSE AfterProfile(found)
           told == ReadPackument(p) \cup ages
<1>1. /\ stage[p] = "packument" /\ UNCHANGED registry /\ profiles' = profiles
      /\ answer' = [answer EXCEPT ![p] = told]
      /\ stage' = [stage EXCEPT ![p] = next]
      /\ entry' = [entry EXCEPT ![p] = found]
      /\ fetches' = [a \in Accounts |->
           IF \E m \in unknown : m.publisher = a THEN fetches[a] + 1 ELSE fetches[a]]
  BY DEF Received
<1>2. /\ releases' = releases /\ latest' = latest /\ world' = world /\ Wanted' = Wanted
      /\ Shape /\ EntryInv /\ TypeOK /\ FetchInv /\ FetchesBounded /\ NeverFabricated
      /\ p \in DOMAIN Wanted
  BY <1>1 DEF registry, Wanted, IInv, Shape
<1>3. \A m \in found : IsMeta(m) /\ \A o \in found : o = m
  BY <1>2, EntryIs
<1>4. next \in {"profile", "bundle", "done"} /\ (next = "profile" => unknown # {})
  BY DEF AfterProfile
<1>5. told # {}
  BY PackumentSaysSomething
<1>6. \A s \in told : s[1] = "account-age" =>
        \E m \in found : s = <<"account-age", m.publisher, m.at - Created[m.publisher]>> /\ s[3] >= 0
  <2> SUFFICES ASSUME NEW s \in told, s[1] = "account-age"
               PROVE  \E m \in found :
                        s = <<"account-age", m.publisher, m.at - Created[m.publisher]>> /\ s[3] >= 0
    OBVIOUS
  <2>1. s \in ages
    BY PackumentHasNoAges
  <2>2. PICK m \in publishers \ unknown : s \in AgeSignal(m.publisher, profiles[m.publisher], m.at)
    BY <2>1
  <2>3. m \in found /\ IsMeta(m) /\ m.publisher # None /\ m.at # None /\ m.publisher \in Accounts
        /\ profiles[m.publisher] # Unknown
    BY <1>3, <2>2 DEF IsMeta
  <2>4. profiles[m.publisher] \in {Created[m.publisher], None}
    BY <1>2, <2>3 DEF TypeOK
  <2> QED
    BY <2>2, <2>3, <2>4, AgeTrue
<1> HIDE DEF found, told, next
<1>7. /\ \A q \in DOMAIN Wanted : /\ stage'[q] = IF q = p THEN next ELSE stage[q]
                                  /\ answer'[q] = IF q = p THEN told ELSE answer[q]
                                  /\ entry'[q] = IF q = p THEN found ELSE entry[q]
      /\ DOMAIN entry' = DOMAIN Wanted /\ DOMAIN answer' = DOMAIN Wanted
      /\ stage' \in [DOMAIN Wanted -> {"idle", "packument", "profile", "bundle", "done"}]
  BY <1>1, <1>2, <1>4 DEF Shape
<1>8. fetches' \in [Accounts -> Nat]
  BY <1>1, <1>2 DEF Shape
<1>9. Shape'
  BY <1>1, <1>2, <1>7, <1>8 DEF Shape, History, IsMeta
<1>10. InFlight' \subseteq InFlight
  BY <1>1, <1>2, <1>7 DEF InFlight, Shape
<1>11. Cardinality(InFlight') <= Cardinality(InFlight) /\ Cardinality(InFlight') \in Nat
       /\ Cardinality(InFlight) \in Nat /\ Cardinality(InFlight') <= Concurrency
  <2>1. IsFiniteSet(InFlight) /\ Cardinality(InFlight) \in Nat /\ Cardinality(InFlight) <= Concurrency
    BY <1>2, Counted DEF TypeOK
  <2>2. Cardinality(InFlight') <= Cardinality(InFlight) /\ Cardinality(InFlight') \in Nat
    BY <1>10, <2>1, FS_Subset, FS_CardinalityType
  <2> QED
    BY <2>1, <2>2, NpmAssumption
<1>12. EntryInv'
  <2>1. \A q \in DOMAIN Wanted : \A m \in entry'[q] : IsMeta(m) /\ \A o \in entry'[q] : o = m
    BY <1>2, <1>3, <1>7 DEF EntryInv
  <2>2. ASSUME NEW q \in DOMAIN Wanted, stage'[q] = "profile", NEW m \in entry'[q]
        PROVE  m.publisher # None /\ m.at # None
    <3>1. CASE q = p
      BY <1>3, <1>4, <1>7, <2>2, <3>1
    <3>2. CASE q # p
      BY <1>2, <1>7, <2>2, <3>2 DEF EntryInv
    <3> QED
      BY <3>1, <3>2
  <2> QED
    BY <1>2, <2>1, <2>2 DEF EntryInv, IsMeta
<1>13. TypeOK'
  <2>1. \A q \in DOMAIN Wanted : (answer'[q] = {}) <=> stage'[q] \in {"idle", "packument"}
    BY <1>2, <1>4, <1>5, <1>7 DEF TypeOK
  <2> QED
    BY <1>1, <1>2, <1>9, <1>11, <2>1 DEF TypeOK, Shape, History
<1>14. \A a : FetchesOf(a) \subseteq FetchesOf(a)' /\ p \notin FetchesOf(a)
  BY <1>1, <1>2, <1>7 DEF FetchesOf
<1>15. FetchInv' /\ FetchesBounded'
  <2> SUFFICES ASSUME NEW a \in Accounts
               PROVE  /\ profiles'[a] = Unknown => fetches'[a] <= Cardinality(FetchesOf(a)')
                      /\ fetches'[a] <= Concurrency
    BY DEF FetchInv, FetchesBounded
  <2>1. /\ fetches[a] \in Nat /\ fetches[a] <= Concurrency
        /\ profiles[a] = Unknown => fetches[a] <= Cardinality(FetchesOf(a))
    BY <1>2 DEF Shape, FetchInv, FetchesBounded
  <2>2. /\ IsFiniteSet(FetchesOf(a)) /\ Cardinality(FetchesOf(a)) \in Nat
        /\ IsFiniteSet(FetchesOf(a)') /\ Cardinality(FetchesOf(a)') \in Nat
        /\ Cardinality(FetchesOf(a)') <= Cardinality(InFlight')
    <3>1. IsFiniteSet(FetchesOf(a)) /\ Cardinality(FetchesOf(a)) \in Nat
      BY <1>2, Counted
    <3>2. IsFiniteSet(InFlight') /\ FetchesOf(a)' \subseteq InFlight'
      <4>1. FetchesOf(a)' \subseteq InFlight'
        BY <1>2, <1>7 DEF FetchesOf, InFlight
      <4> QED
        BY <1>2, <1>10, <4>1, Counted, FS_Subset
    <3> QED
      BY <3>1, <3>2, FS_Subset, FS_CardinalityType
  <2>3. Cardinality(FetchesOf(a)) <= Cardinality(FetchesOf(a)')
    BY <1>14, <2>2, FS_Subset
  <2>4. CASE \E m \in unknown : m.publisher = a
    <3>1. fetches'[a] = fetches[a] + 1 /\ profiles[a] = Unknown
      BY <1>1, <2>4
    <3>2. FetchesOf(a) \cup {p} \subseteq FetchesOf(a)'
      <4>1. stage'[p] = "profile" /\ \E m \in entry'[p] : m.publisher = a
        BY <1>2, <1>7, <2>4 DEF next
      <4> QED
        BY <1>2, <1>14, <4>1 DEF FetchesOf
    <3>3. Cardinality(FetchesOf(a) \cup {p}) = Cardinality(FetchesOf(a)) + 1
      BY <1>14, <2>2, FS_AddElement, Zenon
    <3>4. Cardinality(FetchesOf(a) \cup {p}) <= Cardinality(FetchesOf(a)')
      BY <2>2, <3>2, FS_Subset, Zenon
    <3> QED
      BY <1>11, <2>1, <2>2, <3>1, <3>3, <3>4, NpmAssumption
  <2>5. CASE ~ \E m \in unknown : m.publisher = a
    <3>1. fetches'[a] = fetches[a]
      BY <1>1, <2>5
    <3> QED
      BY <1>1, <2>1, <2>2, <2>3, <3>1
  <2> QED
    BY <2>4, <2>5
<1>16. NeverFabricated'
  <2> SUFFICES ASSUME NEW q \in DOMAIN Wanted, NEW s \in answer'[q], s[1] = "account-age"
               PROVE  \E m \in entry'[q] :
                        s = <<"account-age", m.publisher, m.at - Created[m.publisher]>> /\ s[3] >= 0
    BY <1>2 DEF NeverFabricated
  <2>1. CASE q = p
    BY <1>6, <1>7, <2>1
  <2>2. CASE q # p
    BY <1>2, <1>7, <2>2 DEF NeverFabricated
  <2> QED
    BY <2>1, <2>2
<1> QED
  BY <1>9, <1>12, <1>13, <1>15, <1>16 DEF IInv

\* The profile is there or has failed: it is known from now on, and those who wait
\* for another one still do.
LEMMA ProfileInv == ASSUME IInv, NEW p \in DOMAIN stage, Profile(p) PROVE IInv'
PROOF
<1>1. /\ stage[p] = "profile" /\ UNCHANGED registry /\ entry' = entry /\ fetches' = fetches
      /\ releases' = releases /\ latest' = latest /\ world' = world /\ Wanted' = Wanted
      /\ Shape /\ EntryInv /\ TypeOK /\ FetchInv /\ FetchesBounded /\ NeverFabricated
      /\ p \in DOMAIN Wanted /\ stage' = [stage EXCEPT ![p] = AfterProfile(entry[p])]
  BY DEF Profile, registry, Wanted, IInv, Shape
<1>2. PICK m \in entry[p] : \E created \in {Created[m.publisher], None} :
           /\ profiles' = [profiles EXCEPT ![m.publisher] = created]
           /\ answer' = [answer EXCEPT ![p] = @ \cup AgeSignal(m.publisher, created, m.at)]
  BY DEF Profile
<1>3. PICK created \in {Created[m.publisher], None} :
           /\ profiles' = [profiles EXCEPT ![m.publisher] = created]
           /\ answer' = [answer EXCEPT ![p] = @ \cup AgeSignal(m.publisher, created, m.at)]
  BY <1>2
<1>4. IsMeta(m) /\ m.publisher # None /\ m.at # None /\ m.publisher \in Accounts
      /\ \A o \in entry[p] : o = m
  BY <1>1 DEF EntryInv, IsMeta
<1> DEFINE told == answer[p] \cup AgeSignal(m.publisher, created, m.at)
           next == AfterProfile(entry[p])
<1>5. next \in {"bundle", "done"}
  BY DEF AfterProfile
<1>6. told # {}
  BY <1>1 DEF TypeOK
<1>7. \A s \in told : s[1] = "account-age" =>
        \E o \in entry[p] : s = <<"account-age", o.publisher, o.at - Created[o.publisher]>> /\ s[3] >= 0
  BY <1>1, <1>4, AgeTrue DEF NeverFabricated
<1> HIDE DEF told, next
<1>8. /\ \A q \in DOMAIN Wanted : /\ stage'[q] = IF q = p THEN next ELSE stage[q]
                                  /\ answer'[q] = IF q = p THEN told ELSE answer[q]
      /\ DOMAIN answer' = DOMAIN Wanted
      /\ stage' \in [DOMAIN Wanted -> {"idle", "packument", "profile", "bundle", "done"}]
  BY <1>1, <1>3, <1>5 DEF Shape, told, next
<1>9. /\ DOMAIN profiles' = Accounts /\ profiles'[m.publisher] = created /\ created # Unknown
      /\ \A a \in Accounts \ {m.publisher} : profiles'[a] = profiles[a]
  BY <1>1, <1>3, <1>4, NpmAssumption DEF Shape
<1>10. Shape'
  BY <1>1, <1>8, <1>9 DEF Shape, History, IsMeta
<1>11. InFlight' \subseteq InFlight
  BY <1>1, <1>8 DEF InFlight, Shape
<1>12. Cardinality(InFlight') <= Concurrency
  <2>1. IsFiniteSet(InFlight) /\ Cardinality(InFlight) \in Nat /\ Cardinality(InFlight) <= Concurrency
    BY <1>1, Counted DEF TypeOK
  <2>2. Cardinality(InFlight') <= Cardinality(InFlight) /\ Cardinality(InFlight') \in Nat
    BY <1>11, <2>1, FS_Subset, FS_CardinalityType
  <2> QED
    BY <2>1, <2>2, NpmAssumption
<1>13. EntryInv'
  BY <1>1, <1>5, <1>8 DEF EntryInv, IsMeta
<1>14. TypeOK'
  <2>1. \A q \in DOMAIN Wanted : (answer'[q] = {}) <=> stage'[q] \in {"idle", "packument"}
    BY <1>1, <1>5, <1>6, <1>8 DEF TypeOK
  <2>2. \A a \in Accounts : profiles'[a] \in {Unknown, None, Created[a]}
    BY <1>1, <1>3, <1>9 DEF TypeOK
  <2> QED
    BY <1>1, <1>10, <1>12, <2>1, <2>2 DEF TypeOK, Shape, History
<1>15. \A a \in Accounts \ {m.publisher} : FetchesOf(a)' = FetchesOf(a)
  BY <1>1, <1>4, <1>5, <1>8 DEF FetchesOf
<1>16. FetchInv' /\ FetchesBounded'
  <2>1. ASSUME NEW a \in Accounts, profiles'[a] = Unknown
        PROVE  fetches'[a] <= Cardinality(FetchesOf(a)')
    <3>1. a # m.publisher
      BY <1>9, <2>1
    <3> QED
      BY <1>1, <1>9, <1>15, <2>1, <3>1 DEF FetchInv
  <2> QED
    BY <1>1, <2>1 DEF FetchInv, FetchesBounded
<1>17. NeverFabricated'
  <2> SUFFICES ASSUME NEW q \in DOMAIN Wanted, NEW s \in answer'[q], s[1] = "account-age"
               PROVE  \E o \in entry[q] :
                        s = <<"account-age", o.publisher, o.at - Created[o.publisher]>> /\ s[3] >= 0
    BY <1>1 DEF NeverFabricated
  <2>1. CASE q = p
    BY <1>7, <1>8, <2>1
  <2>2. CASE q # p
    BY <1>1, <1>8, <2>2 DEF NeverFabricated
  <2> QED
    BY <2>1, <2>2
<1> QED
  BY <1>10, <1>13, <1>14, <1>16, <1>17 DEF IInv

\* A new run has forgotten everything.
LEMMA NewRunInv == ASSUME IInv, NewRun PROVE IInv'
PROOF
<1>1. /\ stage' = [p \in DOMAIN stage |-> "idle"] /\ entry' = [p \in DOMAIN entry |-> {}]
      /\ answer' = [p \in DOMAIN answer |-> {}] /\ profiles' = [a \in Accounts |-> Unknown]
      /\ fetches' = [a \in Accounts |-> 0]
      /\ releases' = releases /\ latest' = latest /\ world' = world /\ Wanted' = Wanted
      /\ Shape /\ TypeOK
  BY DEF NewRun, registry, Wanted, IInv
<1>2. Shape'
  BY <1>1 DEF Shape, History, IsMeta
<1>3. \A p \in DOMAIN Wanted : stage'[p] = "idle" /\ entry'[p] = {} /\ answer'[p] = {}
  BY <1>1 DEF Shape
<1>4. InFlight' = {}
  BY <1>1 DEF InFlight
<1>5. EntryInv'
  BY <1>1, <1>3 DEF EntryInv
<1>6. TypeOK'
  <2>1. Cardinality(InFlight') <= Concurrency
    BY <1>4, FS_EmptySet, NpmAssumption
  <2> QED
    BY <1>1, <1>2, <1>3, <2>1 DEF TypeOK, Shape, History
<1>7. \A a : FetchesOf(a)' = {}
  BY <1>1, <1>3 DEF FetchesOf
<1>8. FetchInv' /\ FetchesBounded'
  <2>1. \A a \in Accounts : fetches'[a] = 0 /\ 0 <= Concurrency /\ 0 <= Cardinality(FetchesOf(a)')
    <3>1. Cardinality({}) = 0
      BY FS_EmptySet
    <3>2. ASSUME NEW a PROVE Cardinality(FetchesOf(a)') = 0
      BY <1>7, <3>1
    <3> QED
      BY <1>1, <3>2, NpmAssumption
  <2> QED
    BY <2>1 DEF FetchInv, FetchesBounded
<1>9. NeverFabricated'
  BY <1>1, <1>3 DEF NeverFabricated
<1> QED
  BY <1>2, <1>5, <1>6, <1>8, <1>9 DEF IInv

LEMMA Inductive == IInv /\ [Next]_vars => IInv'
PROOF
<1> SUFFICES ASSUME IInv, [Next]_vars PROVE IInv'
  OBVIOUS
<1>1. CASE UNCHANGED vars
  <2>1. UNCHANGED provider /\ UNCHANGED world /\ releases' = releases
    BY <1>1 DEF vars, registry
  <2>2. History'
    BY <1>1, HistoryStep DEF IInv, Shape
  <2> QED
    BY <2>1, <2>2, RegistryStep DEF IInv, Shape, IsMeta
<1>2. CASE Next
  BY <1>2, PublishInv, RetagInv, AskInv, EndInv, ReceivedInv, ProfileInv, NewRunInv DEF Next
<1> QED
  BY <1>1, <1>2

LEMMA Invariance == Spec => []IInv
PROOF BY ReqInit, Inductive, PTL DEF Spec

-----------------------------------------------------------------------------
\* Types; a request has said something exactly when it is past its packument, and
\* no more are open than main.rs allows.
THEOREM TypeCorrect == Spec => []TypeOK
PROOF BY Invariance, PTL DEF IInv

\* A profile is asked for (fetch_user_created) by the requests that were open together,
\* and not again, whether it came or failed.
THEOREM FetchesFew == Spec => []FetchesBounded
PROOF BY Invariance, PTL DEF IInv

\* An account age (compute_maintainer_account_signal) is always that of the release's
\* publisher at the release, whoever fetched the profile.
THEOREM AgesTrue == Spec => []NeverFabricated
PROOF BY Invariance, PTL DEF IInv

-----------------------------------------------------------------------------
\* The providers of the other services.

\* The calls of each provider.
Calls ==
  [osv |-> {"query"}, depsdev |-> {"version"}, scorecard |-> {"repository", "score"},
   pypi_registry |-> {"metadata", "provenance"}, pypi_sdist |-> {"files", "length", "download"}]

ProvidersShape ==
  /\ job \in DOMAIN Jobs
  /\ step = [r \in DOMAIN Asking |-> step[r]] /\ said = [r \in DOMAIN Asking |-> said[r]]
  /\ versions = [k \in {InSystem(r) : r \in DOMAIN Asking} |-> versions[k]]
  /\ scores = [t \in DOMAIN Scores |-> scores[t]]

Answered(r) == step[r] = "done" /\ ~Told(r) => Backed(r)

\* A request waits for a call of its provider, with nothing said before its last,
\* and makes its second call because the first was answered.
RequestInv(r) ==
  /\ step[r] \in {"idle", "done"} \cup Calls[Asking[r].provider]
  /\ step[r] \notin {"provenance", "done"} => said[r] = {}
  /\ step[r] = "score" => Heard("repository", {InSystem(r)}, {"found"})
  /\ step[r] = "provenance" => Heard("metadata", {InSystem(r)}, {"found"})
  /\ Answered(r)

\* What the deps.dev cache has on a package, deps.dev has said of it.
VersionsInv ==
  \A r \in DOMAIN step :
    LET kept == versions[InSystem(r)]
    IN \/ kept = NotAsked
       \/ kept = NotIndexed /\ Heard("version", {InSystem(r)}, {"absent", "gone"})
       \/ kept = Package(r).licenses /\ Heard("version", {InSystem(r)}, {"found"})

\* What the Scorecard cache has on a repository was said when a package with that
\* repository was asked about.
ScoresInv ==
  \A t \in DOMAIN Scores :
    \/ scores[t] = NotAsked
    \/ \E q \in DOMAIN step :
         /\ t \in Discovered(Package(q))
         /\ \/ scores[t] = NotIndexed /\ Heard("score", {InSystem(q)}, {"absent"})
            \/ scores[t] = BucketScore(Scores[t]) /\ Heard("score", {InSystem(q)}, {"found"})

ProvidersIInv == ProvidersShape /\ (\A r \in DOMAIN step : RequestInv(r)) /\ VersionsInv /\ ScoresInv

-----------------------------------------------------------------------------
\* A package has one repository at most (PickPypiRepoUrl, Repository).
LEMMA OneRepository ==
  ASSUME NEW p \in DOMAIN Catalogue, NEW t \in Discovered(Catalogue[p]), NEW u \in Discovered(Catalogue[p])
  PROVE  t = u
PROOF
<1> DEFINE urls == IF Catalogue[p].system = "pypi" THEN PickPypiRepoUrl(Catalogue[p]) ELSE Catalogue[p].home
<1>1. \A x, y \in urls : x = y
  <2>1. \A x, y \in Catalogue[p].home : x = y
    BY ProvidersAssumption
  <2>2. \A x, y \in PickPypiRepoUrl(Catalogue[p]) : x = y
    BY <2>1 DEF PickPypiRepoUrl
  <2> QED
    BY <2>1, <2>2
<1>2. \A x : \A a, b \in Repository(x) : a = b
  BY DEF Repository
<1>3. PICK x \in urls : t \in Repository(x)
  BY DEF Discovered
<1>4. PICK y \in urls : u \in Repository(y)
  BY DEF Discovered
<1> QED
  BY <1>1, <1>2, <1>3, <1>4

\* What requests are about.
LEMMA About ==
  ASSUME ProvidersShape, NEW r \in DOMAIN step
  PROVE  /\ Asking[r].package \in DOMAIN Catalogue /\ Asking[r].provider \in DOMAIN FirstCall
         /\ Package(r).licenses \notin {NotAsked, NotIndexed}
         /\ Discovered(Package(r)) \subseteq DOMAIN Scores
         /\ \A t, u \in Discovered(Package(r)) : t = u
         /\ InSystem(r) \in DOMAIN versions
         /\ \A q \in DOMAIN step : InSystem(q) = InSystem(r) => Package(q) = Package(r)
PROOF
<1>1. \A q \in DOMAIN step : Asking[q].package \in DOMAIN Catalogue /\ Asking[q].provider \in DOMAIN FirstCall
  BY ProvidersAssumption DEF ProvidersShape, Asking
<1>2. Package(r).licenses \notin {NotAsked, NotIndexed} /\ Discovered(Package(r)) \subseteq DOMAIN Scores
  BY <1>1, ProvidersAssumption, ScoresAssumption DEF Package
<1>3. \A t, u \in Discovered(Package(r)) : t = u
  BY <1>1, OneRepository DEF Package
<1>4. InSystem(r) \in DOMAIN versions
  BY DEF ProvidersShape
<1>5. ASSUME NEW q \in DOMAIN step, InSystem(q) = InSystem(r) PROVE Package(q) = Package(r)
  BY <1>1, <1>5, ProvidersAssumption DEF InSystem, Package
<1> QED
  BY <1>1, <1>2, <1>3, <1>4, <1>5

\* The score of a repository is a number.
LEMMA ScoreIsNumber ==
  ASSUME NEW t \in DOMAIN Scores
  PROVE  BucketScore(Scores[t]) \notin {NotAsked, NotIndexed}
PROOF
<1>1. \A x \in Int : BucketScore(x) \in Nat
  <2> TAKE x \in Int
  <2>1. CASE x <= 0
    BY <2>1 DEF BucketScore
  <2>2. CASE ~(x <= 0)
    <3> DEFINE h == (x + 5) \div 10
    <3>1. h \in Nat
      BY <2>2
    <3>2. Min({h, 10}) \in {h, 10}
      <4>1. \E m \in {h, 10} : \A y \in {h, 10} : m <= y
        BY <3>1
      <4> QED
        BY <4>1 DEF Min
    <3> QED
      BY <2>2, <3>1, <3>2 DEF BucketScore
  <2> QED
    BY <2>1, <2>2
<1> QED
  BY <1>1, ProvidersAssumption

\* A request that waits for a call is one of the provider that makes the call.
LEMMA ProviderOf ==
  ASSUME ProvidersShape, NEW r \in DOMAIN step, RequestInv(r)
  PROVE  /\ step[r] = "query" => Asking[r].provider = "osv"
         /\ step[r] = "version" => Asking[r].provider = "depsdev"
         /\ step[r] \in {"repository", "score"} => Asking[r].provider = "scorecard"
         /\ step[r] \in {"metadata", "provenance"} => Asking[r].provider = "pypi_registry"
         /\ step[r] \in {"files", "length", "download"} => Asking[r].provider = "pypi_sdist"
PROOF
<1>1. Asking[r].provider \in {"osv", "depsdev", "scorecard", "pypi_registry", "pypi_sdist"}
  BY About DEF FirstCall
<1> QED
  BY <1>1 DEF RequestInv, Calls

-----------------------------------------------------------------------------
\* The packages of a run stay, and nothing heard is forgotten.
LEMMA Context ==
  ASSUME job' = job, heard \subseteq heard', DOMAIN step' = DOMAIN step
  PROVE  /\ Asking' = Asking
         /\ \A q : Package(q)' = Package(q) /\ InSystem(q)' = InSystem(q) /\ Sharing(q)' = Sharing(q)
         /\ \A c, q, S : /\ Heard(c, {InSystem(q)}, S) => Heard(c, {InSystem(q)}, S)'
                         /\ Heard(c, Sharing(q), S) => Heard(c, Sharing(q), S)'
PROOF
<1>1. Asking' = Asking /\ (\A q : Package(q)' = Package(q) /\ InSystem(q)' = InSystem(q))
  BY DEF Asking, Package, InSystem
<1>2. \A q : Sharing(q)' = Sharing(q)
  BY <1>1 DEF Sharing
<1>3. \A c, q, S : /\ Heard(c, {InSystem(q)}, S) => Heard(c, {InSystem(q)}, S)'
                   /\ Heard(c, Sharing(q), S) => Heard(c, Sharing(q), S)'
  BY <1>1, <1>2 DEF Heard
<1> QED
  BY <1>1, <1>2, <1>3

\* Of the requests only r moves.
Moves(r) ==
  /\ job' = job /\ heard \subseteq heard' /\ DOMAIN step' = DOMAIN step
  /\ \A q \in DOMAIN step \ {r} : step'[q] = step[q] /\ said'[q] = said[q]

LEMMA OthersStay ==
  ASSUME ProvidersIInv, job' = job, heard \subseteq heard', DOMAIN step' = DOMAIN step,
         NEW q \in DOMAIN step, step'[q] = step[q], said'[q] = said[q]
  PROVE  RequestInv(q)'
PROOF
<1>1. step'[q] = step[q] /\ said'[q] = said[q]
  OBVIOUS
<1>2. /\ Asking' = Asking /\ Package(q)' = Package(q) /\ InSystem(q)' = InSystem(q)
      /\ \A c, S : /\ Heard(c, {InSystem(q)}, S) => Heard(c, {InSystem(q)}, S)'
                   /\ Heard(c, Sharing(q), S) => Heard(c, Sharing(q), S)'
  BY Context
<1>3. RequestInv(q)
  BY DEF ProvidersIInv
<1>4. Told(q)' = Told(q)
  BY <1>1 DEF Told, Unavailable, Error
<1>5. /\ (OsvSays(q) => OsvSays(q)') /\ (DepsDevSays(q) => DepsDevSays(q)')
      /\ (ScorecardSays(q) => ScorecardSays(q)')
  BY <1>1, <1>2 DEF OsvSays, DepsDevSays, ScorecardSays
<1>6. ASSUME Backed(q) PROVE Backed(q)'
  <2>1. Asking[q].provider \in {"osv", "depsdev", "scorecard", "pypi_registry", "pypi_sdist"}
    BY About DEF ProvidersIInv, FirstCall
  <2>2. Asking'[q].provider = Asking[q].provider /\ Statuses' = Statuses
    BY <1>2 DEF Statuses
  <2> QED
    BY <2>1, <2>2, <1>2, <1>5, <1>6 DEF Backed
<1> QED
  BY <1>1, <1>2, <1>3, <1>4, <1>6 DEF RequestInv, Answered

\* A request that goes on, and what follows for the rest.
LEMMA Proceeds ==
  ASSUME ProvidersShape, NEW r \in DOMAIN step, NEW next, NEW signals, job' = job, heard \subseteq heard',
         Proceed(r, next, signals)
  PROVE  /\ Moves(r) /\ step'[r] = next /\ said'[r] = said[r] \cup signals
         /\ step' = [q \in DOMAIN Asking' |-> step'[q]] /\ said' = [q \in DOMAIN Asking' |-> said'[q]]
PROOF BY DEF ProvidersShape, Proceed, Moves, Asking

LEMMA CachesStay ==
  ASSUME ProvidersIInv, job' = job, heard \subseteq heard', DOMAIN step' = DOMAIN step
  PROVE  /\ versions' = versions => VersionsInv'
         /\ scores' = scores => ScoresInv'
PROOF
<1>1. /\ DOMAIN step' = DOMAIN step
      /\ \A q : Package(q)' = Package(q) /\ InSystem(q)' = InSystem(q)
      /\ \A c, q, S : Heard(c, {InSystem(q)}, S) => Heard(c, {InSystem(q)}, S)'
  BY Context
<1>2. ASSUME versions' = versions PROVE VersionsInv'
  BY <1>1, <1>2 DEF ProvidersIInv, VersionsInv
<1>3. ASSUME scores' = scores PROVE ScoresInv'
  <2>1. \A q : Discovered(Package(q))' = Discovered(Package(q))
    BY <1>1
  <2> QED
    BY <1>1, <1>3, <2>1 DEF ProvidersIInv, ScoresInv
<1> QED
  BY <1>2, <1>3

\* The four parts of the invariant after a step of request r.
LEMMA StepInv ==
  ASSUME ProvidersIInv, NEW r \in DOMAIN step, NEW next, NEW signals, job' = job, heard \subseteq heard',
         Proceed(r, next, signals), RequestInv(r)',
         versions' = versions \/ (VersionsInv' /\ versions' = [k \in DOMAIN versions |-> versions'[k]]),
         scores' = scores \/ (ScoresInv' /\ scores' = [t \in DOMAIN scores |-> scores'[t]])
  PROVE  ProvidersIInv'
PROOF
<1>1. /\ Moves(r)
      /\ step' = [q \in DOMAIN Asking' |-> step'[q]] /\ said' = [q \in DOMAIN Asking' |-> said'[q]]
  BY Proceeds DEF ProvidersIInv
<1>2. VersionsInv' /\ ScoresInv'
  BY <1>1, CachesStay DEF Moves
<1>3. /\ Asking' = Asking /\ \A q : InSystem(q)' = InSystem(q)
  BY <1>1, Context DEF Moves
<1>4. ProvidersShape'
  <2>1. versions' = [k \in {InSystem(q)' : q \in DOMAIN Asking'} |-> versions'[k]]
    <3>1. {InSystem(q)' : q \in DOMAIN Asking'} = {InSystem(q) : q \in DOMAIN Asking}
      BY <1>3
    <3>2. DOMAIN versions = {InSystem(q) : q \in DOMAIN Asking} /\ versions = [k \in DOMAIN versions |-> versions[k]]
      BY DEF ProvidersIInv, ProvidersShape
    <3> QED
      BY <3>1, <3>2
  <2>2. scores' = [t \in DOMAIN Scores |-> scores'[t]]
    BY DEF ProvidersIInv, ProvidersShape
  <2> QED
    BY <1>1, <2>1, <2>2 DEF ProvidersShape, Moves, ProvidersIInv
<1>5. \A q \in DOMAIN step' : RequestInv(q)'
  BY <1>1, OthersStay DEF Moves
<1> QED
  BY <1>2, <1>4, <1>5 DEF ProvidersIInv

\* A request is over when it has said of a gap, or repeats what is behind it.
LEMMA OverInv ==
  ASSUME NEW r, step'[r] = "done",
         said'[r] \cap (Unavailable \cup Error) # {} \/ Backed(r)'
  PROVE  RequestInv(r)'
PROOF
<1>1. Told(r)' \/ Backed(r)'
  BY DEF Told, Unavailable, Error
<1>2. Answered(r)'
  BY <1>1 DEF Answered
<1> QED
  BY <1>2 DEF RequestInv

\* What has just been heard.
LEMMA JustHeard ==
  ASSUME NEW r, NEW call, NEW status, Hears(r, call, status), job' = job
  PROVE  /\ heard \subseteq heard' /\ status \in Statuses /\ step[r] = call
         /\ \A S : status \in S => Heard(call, {InSystem(r)}, S)'
PROOF
<1>1. InSystem(r)' = InSystem(r)
  BY DEF InSystem, Package, Asking
<1>2. heard' = heard \cup {<<call, InSystem(r), status>>} /\ status \in Statuses /\ step[r] = call
  BY DEF Hears
<1>3. ASSUME NEW S, status \in S PROVE Heard(call, {InSystem(r)}, S)'
  <2>1. <<call, InSystem(r), status>> \in {call} \X {InSystem(r)} \X S
    BY <1>3
  <2> QED
    BY <1>1, <1>2, <2>1 DEF Heard
<1> QED
  BY <1>2, <1>3

\* What a request has said so far is nothing, but for the second call to PyPI.
LEMMA NothingSaid ==
  ASSUME ProvidersIInv, NEW r \in DOMAIN step, step[r] \notin {"provenance", "done"}
  PROVE  said[r] = {} /\ \A signals : said[r] \cup signals = signals
PROOF BY DEF ProvidersIInv, RequestInv

-----------------------------------------------------------------------------
LEMMA ProvidersInitInv == ProvidersInit => ProvidersIInv
PROOF
<1> SUFFICES ASSUME ProvidersInit PROVE ProvidersIInv
  OBVIOUS
<1>1. ProvidersShape
  BY DEF ProvidersInit, ProvidersShape
<1>2. \A r \in DOMAIN step : RequestInv(r)
  BY DEF ProvidersInit, RequestInv, Answered
<1>3. VersionsInv /\ ScoresInv
  BY DEF ProvidersInit, VersionsInv, ScoresInv
<1> QED
  BY <1>1, <1>2, <1>3 DEF ProvidersIInv

\* A request that finds its package in the deps.dev cache has what deps.dev said.
LEMMA AskServiceInv ==
  ASSUME ProvidersIInv, NEW r \in DOMAIN step, AskProvider(r)
  PROVE  ProvidersIInv'
PROOF
<1> DEFINE cached == versions[InSystem(r)]
<1>1. /\ step[r] = "idle" /\ job' = job /\ versions' = versions /\ scores' = scores /\ heard' = heard
  BY DEF AskProvider
<1>2. said[r] = {}
  BY <1>1, NothingSaid
<1>3. CASE Asking[r].provider = "depsdev" /\ cached # NotAsked
  <2>1. Proceed(r, "done", FromVersions(cached))
    BY <1>3 DEF AskProvider, Finish
  <2>2. step'[r] = "done" /\ said'[r] = FromVersions(cached) /\ DOMAIN step' = DOMAIN step
    BY <1>1, <1>2, <2>1, Proceeds DEF ProvidersIInv, Moves
  <2>3. /\ Asking' = Asking /\ Package(r)' = Package(r) /\ InSystem(r)' = InSystem(r)
        /\ \A c, S : Heard(c, {InSystem(r)}, S) => Heard(c, {InSystem(r)}, S)'
    BY <1>1, <2>2, Context
  <2>4. Package(r).licenses # NotIndexed
    BY About DEF ProvidersIInv
  <2>5. \/ cached = NotIndexed /\ Heard("version", {InSystem(r)}, {"absent", "gone"})
        \/ cached = Package(r).licenses /\ Heard("version", {InSystem(r)}, {"found"})
    BY <1>3 DEF ProvidersIInv, VersionsInv
  <2>6. DepsDevSays(r)'
    BY <2>2, <2>3, <2>4, <2>5 DEF DepsDevSays, FromVersions
  <2>7. Backed(r)'
    BY <1>3, <2>3, <2>6 DEF Backed
  <2> QED
    BY <1>1, <2>1, <2>2, <2>7, OverInv, StepInv
<1>4. CASE ~(Asking[r].provider = "depsdev" /\ cached # NotAsked)
  <2>1. Proceed(r, FirstCall[Asking[r].provider], {})
    BY <1>4 DEF AskProvider
  <2>2. step'[r] = FirstCall[Asking[r].provider] /\ said'[r] = {} /\ DOMAIN step' = DOMAIN step
    BY <1>1, <1>2, <2>1, Proceeds DEF ProvidersIInv, Moves
  <2>3. Asking' = Asking
    BY <1>1 DEF Asking
  <2>4. Asking[r].provider \in DOMAIN FirstCall
    BY About DEF ProvidersIInv
  <2>5. RequestInv(r)'
    BY <2>2, <2>3, <2>4 DEF RequestInv, Answered, FirstCall, Calls
  <2> QED
    BY <1>1, <2>1, <2>5, StepInv
<1> QED
  BY <1>3, <1>4

\* A request that ends with a gap, whatever it waited for.
LEMMA GapInv ==
  ASSUME ProvidersIInv, NEW r \in DOMAIN step, NEW signals, job' = job, heard \subseteq heard',
         Finish(r, signals), signals \in {Unavailable, Error}, versions' = versions, scores' = scores
  PROVE  ProvidersIInv'
PROOF
<1>1. Proceed(r, "done", signals)
  BY DEF Finish
<1>2. step'[r] = "done" /\ said'[r] = said[r] \cup signals
  BY <1>1, Proceeds DEF ProvidersIInv
<1>3. said'[r] \cap (Unavailable \cup Error) # {}
  BY <1>2 DEF Unavailable, Error
<1> QED
  BY <1>1, <1>2, <1>3, OverInv, StepInv

LEMMA QueryInv ==
  ASSUME ProvidersIInv, NEW r \in DOMAIN step, NEW status, Query(r, status)
  PROVE  ProvidersIInv'
PROOF
<1>1. Hears(r, "query", status) /\ job' = job /\ versions' = versions /\ scores' = scores
  BY DEF Query
<1>2. /\ heard \subseteq heard' /\ step[r] = "query"
      /\ \A S : status \in S => Heard("query", {InSystem(r)}, S)'
  BY <1>1, JustHeard
<1>3. CASE status = "found"
  <2>1. Proceed(r, "done", Advisories(Package(r)))
    BY <1>3 DEF Query, Finish
  <2>2. step'[r] = "done" /\ said'[r] = Advisories(Package(r))
    BY <1>1, <1>2, <2>1, Proceeds, NothingSaid DEF ProvidersIInv
  <2>3. Asking' = Asking /\ Package(r)' = Package(r)
    BY <1>1 DEF Asking, Package
  <2>4. OsvSays(r)'
    BY <1>2, <1>3, <2>2, <2>3 DEF OsvSays, Advisories
  <2>5. Backed(r)'
    BY <1>2, <2>3, <2>4, ProviderOf DEF Backed, ProvidersIInv
  <2> QED
    BY <1>1, <1>2, <2>1, <2>2, <2>5, OverInv, StepInv
<1>4. CASE status # "found"
  <2>1. \/ Finish(r, Error) \/ Finish(r, Unavailable)
    BY <1>4 DEF Query
  <2> QED
    BY <1>1, <1>2, <2>1, GapInv
<1> QED
  BY <1>3, <1>4

\* What deps.dev says of a version or of a miss is kept for every request for the
\* package, and a failure leaves the cache as it was.
LEMMA VersionInv ==
  ASSUME ProvidersIInv, NEW r \in DOMAIN step, NEW status, Version(r, status)
  PROVE  ProvidersIInv'
PROOF
<1> DEFINE record == IF status = "found" THEN Package(r).licenses ELSE NotIndexed
<1>1. Hears(r, "version", status) /\ job' = job /\ scores' = scores
  BY DEF Version
<1>2. /\ heard \subseteq heard' /\ step[r] = "version"
      /\ \A S : status \in S => Heard("version", {InSystem(r)}, S)'
  BY <1>1, JustHeard
<1>3. CASE status \in {"found", "absent", "gone"}
  <2>1. Proceed(r, "done", FromVersions(record)) /\ versions' = [versions EXCEPT ![InSystem(r)] = record]
    BY <1>3 DEF Version, Finish
  <2>2. Moves(r) /\ step'[r] = "done" /\ said'[r] = FromVersions(record)
    BY <1>1, <1>2, <2>1, Proceeds, NothingSaid DEF ProvidersIInv
  <2>3. /\ Asking' = Asking /\ \A q : Package(q)' = Package(q) /\ InSystem(q)' = InSystem(q)
        /\ \A c, q, S : Heard(c, {InSystem(q)}, S) => Heard(c, {InSystem(q)}, S)'
    BY <2>2, Context DEF Moves
  <2>4. \A q \in DOMAIN step : InSystem(q) = InSystem(r) => Package(q) = Package(r)
    BY About DEF ProvidersIInv
  <2>5. /\ InSystem(r) \in DOMAIN versions /\ Package(r).licenses # NotIndexed
    BY About DEF ProvidersIInv
  <2>6. VersionsInv'
    <3> SUFFICES ASSUME NEW q \in DOMAIN step PROVE
          \/ versions'[InSystem(q)] = NotAsked
          \/ versions'[InSystem(q)] = NotIndexed /\ Heard("version", {InSystem(q)}, {"absent", "gone"})'
          \/ versions'[InSystem(q)] = Package(q).licenses /\ Heard("version", {InSystem(q)}, {"found"})'
      BY <2>2, <2>3 DEF VersionsInv, Moves
    <3>1. CASE InSystem(q) = InSystem(r)
      <4>1. versions'[InSystem(q)] = record /\ Package(q) = Package(r)
        BY <2>1, <2>4, <2>5, <3>1
      <4>2. /\ status \in {"absent", "gone"} => Heard("version", {InSystem(q)}, {"absent", "gone"})'
            /\ status = "found" => Heard("version", {InSystem(q)}, {"found"})'
        <5>1. InSystem(q)' = InSystem(r)'
          BY <2>3, <3>1
        <5> QED
          BY <1>2, <5>1 DEF Heard
      <4> QED
        BY <1>3, <4>1, <4>2
    <3>2. CASE InSystem(q) # InSystem(r)
      <4>1. versions'[InSystem(q)] = versions[InSystem(q)]
        <5>1. InSystem(q) \in DOMAIN versions
          BY About DEF ProvidersIInv
        <5> QED
          BY <2>1, <3>2, <5>1
      <4> QED
        BY <4>1, <2>3 DEF ProvidersIInv, VersionsInv
    <3> QED
      BY <3>1, <3>2
  <2>7. DepsDevSays(r)'
    BY <1>2, <1>3, <2>2, <2>3, <2>5 DEF DepsDevSays, FromVersions
  <2>8. Backed(r)'
    BY <1>2, <2>3, <2>7, ProviderOf DEF Backed, ProvidersIInv
  <2>9. RequestInv(r)'
    BY <2>2, <2>8, OverInv
  <2>10. versions' = [k \in DOMAIN versions |-> versions'[k]]
    BY <2>1
  <2> QED
    BY <1>1, <1>2, <2>1, <2>6, <2>9, <2>10, StepInv
<1>4. CASE status \notin {"found", "absent", "gone"}
  <2>1. Finish(r, Unavailable) /\ versions' = versions
    BY <1>4 DEF Version
  <2> QED
    BY <1>1, <1>2, <2>1, GapInv
<1> QED
  BY <1>3, <1>4

\* What the Scorecard cache has on a package's repository was said of it, if for
\* another package.
LEMMA KeptScore ==
  ASSUME ProvidersIInv, NEW r \in DOMAIN step, NEW t \in Discovered(Package(r)), scores[t] # NotAsked
  PROVE  \/ scores[t] = NotIndexed /\ Heard("score", Sharing(r), {"absent"})
         \/ scores[t] = BucketScore(Scores[t]) /\ Heard("score", Sharing(r), {"found"})
PROOF
<1>1. t \in DOMAIN Scores
  BY About DEF ProvidersIInv
<1>2. PICK q \in DOMAIN step :
        /\ t \in Discovered(Package(q))
        /\ \/ scores[t] = NotIndexed /\ Heard("score", {InSystem(q)}, {"absent"})
           \/ scores[t] = BucketScore(Scores[t]) /\ Heard("score", {InSystem(q)}, {"found"})
  BY <1>1 DEF ProvidersIInv, ScoresInv
<1>3. Discovered(Package(q)) = {t} /\ Discovered(Package(r)) = {t}
  BY <1>2, About DEF ProvidersIInv
<1>4. InSystem(q) \in Sharing(r)
  BY <1>3 DEF Sharing
<1> QED
  BY <1>2, <1>4 DEF Heard

LEMMA DiscoverInv ==
  ASSUME ProvidersIInv, NEW r \in DOMAIN step, NEW status, Discover(r, status)
  PROVE  ProvidersIInv'
PROOF
<1> DEFINE repos == IF status = "found" THEN Discovered(Package(r)) ELSE {}
<1>1. /\ Hears(r, "repository", status) /\ job' = job /\ versions' = versions /\ scores' = scores
  BY DEF Discover
<1>2. /\ heard \subseteq heard' /\ step[r] = "repository"
      /\ \A S : status \in S => Heard("repository", {InSystem(r)}, S)'
  BY <1>1, JustHeard
<1>3. \/ Finish(r, Unavailable)
      \/ status \in {"found", "absent"} /\ repos = {} /\ Finish(r, {})
      \/ \E t \in repos : scores[t] = NotAsked /\ Proceed(r, "score", {})
      \/ \E t \in repos : scores[t] # NotAsked /\ Finish(r, FromScores(scores[t], t))
  BY DEF Discover
<1>4. Asking[r].provider = "scorecard"
  BY <1>2, ProviderOf DEF ProvidersIInv
<1>5. CASE Finish(r, Unavailable)
  BY <1>1, <1>2, <1>5, GapInv
<1>6. CASE status \in {"found", "absent"} /\ repos = {} /\ Finish(r, {})
  <2>1. Proceed(r, "done", {})
    BY <1>6 DEF Finish
  <2>2. Moves(r) /\ step'[r] = "done" /\ said'[r] = {}
    BY <1>1, <1>2, <2>1, Proceeds, NothingSaid DEF ProvidersIInv
  <2>3. Asking' = Asking /\ Package(r)' = Package(r)
    BY <1>1 DEF Asking, Package
  <2>4. Discovered(Package(r))' = Discovered(Package(r))
    BY <2>3
  <2>5. ScorecardSays(r)'
    BY <1>2, <1>6, <2>2, <2>4 DEF ScorecardSays
  <2>6. Backed(r)'
    BY <1>4, <2>3, <2>5 DEF Backed
  <2> QED
    BY <1>1, <1>2, <2>1, <2>2, <2>6, OverInv, StepInv
<1>7. CASE \E t \in repos : scores[t] = NotAsked /\ Proceed(r, "score", {})
  <2>1. status = "found" /\ Proceed(r, "score", {})
    BY <1>7
  <2>2. Moves(r) /\ step'[r] = "score" /\ said'[r] = {}
    BY <1>1, <1>2, <2>1, Proceeds, NothingSaid DEF ProvidersIInv
  <2>3. Asking' = Asking
    BY <1>1 DEF Asking
  <2>4. RequestInv(r)'
    BY <1>2, <1>4, <2>1, <2>2, <2>3 DEF RequestInv, Answered, Calls
  <2> QED
    BY <1>1, <1>2, <2>1, <2>4, StepInv
<1>8. CASE \E t \in repos : scores[t] # NotAsked /\ Finish(r, FromScores(scores[t], t))
  <2>1. PICK t \in repos : scores[t] # NotAsked /\ Finish(r, FromScores(scores[t], t))
    BY <1>8
  <2>2. status = "found" /\ t \in Discovered(Package(r)) /\ Proceed(r, "done", FromScores(scores[t], t))
    BY <2>1 DEF Finish
  <2>3. Moves(r) /\ step'[r] = "done" /\ said'[r] = FromScores(scores[t], t)
    <3>1. Moves(r) /\ step'[r] = "done" /\ said'[r] = said[r] \cup FromScores(scores[t], t)
      BY <1>1, <1>2, <2>2, Proceeds DEF ProvidersIInv
    <3>2. said[r] = {}
      BY <1>2, NothingSaid
    <3> QED
      BY <3>1, <3>2
  <2>4. /\ Asking' = Asking /\ Package(r)' = Package(r)
        /\ \A c, S : Heard(c, Sharing(r), S) => Heard(c, Sharing(r), S)'
    BY <2>3, Context DEF Moves
  <2>5. Discovered(Package(r))' = Discovered(Package(r))
    BY <2>4
  <2>6. \/ scores[t] = NotIndexed /\ Heard("score", Sharing(r), {"absent"})
        \/ scores[t] = BucketScore(Scores[t]) /\ Heard("score", Sharing(r), {"found"})
    BY <2>1, <2>2, KeptScore
  <2>7. BucketScore(Scores[t]) # NotIndexed
    BY <2>2, About, ScoreIsNumber DEF ProvidersIInv
  <2>8. ScorecardSays(r)'
    BY <1>2, <2>2, <2>3, <2>4, <2>5, <2>6, <2>7 DEF ScorecardSays, FromScores
  <2>9. Backed(r)'
    BY <1>4, <2>4, <2>8 DEF Backed
  <2> QED
    BY <1>1, <1>2, <2>2, <2>3, <2>9, OverInv, StepInv
<1> QED
  BY <1>3, <1>5, <1>6, <1>7, <1>8

LEMMA ScoreInv ==
  ASSUME ProvidersIInv, NEW r \in DOMAIN step, NEW status, Score(r, status)
  PROVE  ProvidersIInv'
PROOF
<1>1. /\ Hears(r, "score", status) /\ job' = job /\ versions' = versions
  BY DEF Score
<1>2. /\ heard \subseteq heard' /\ step[r] = "score"
      /\ \A S : status \in S => Heard("score", {InSystem(r)}, S)'
  BY <1>1, JustHeard
<1>3. PICK t \in Discovered(Package(r)) :
        LET score == IF status = "found" THEN BucketScore(Scores[t]) ELSE NotIndexed
        IN IF status \in {"found", "absent"}
           THEN Finish(r, FromScores(score, t)) /\ scores' = [scores EXCEPT ![t] = score]
           ELSE Finish(r, Unavailable) /\ UNCHANGED scores
  BY DEF Score
<1> DEFINE score == IF status = "found" THEN BucketScore(Scores[t]) ELSE NotIndexed
<1>4. CASE status \in {"found", "absent"}
  <2>1. Proceed(r, "done", FromScores(score, t)) /\ scores' = [scores EXCEPT ![t] = score]
    BY <1>3, <1>4 DEF Finish
  <2>2. Moves(r) /\ step'[r] = "done" /\ said'[r] = FromScores(score, t)
    <3> HIDE DEF score
    <3>1. Moves(r) /\ step'[r] = "done" /\ said'[r] = said[r] \cup FromScores(score, t)
      BY <1>1, <1>2, <2>1, Proceeds DEF ProvidersIInv
    <3> QED
      BY <1>2, <3>1, NothingSaid
  <2>3. /\ Asking' = Asking /\ \A q : /\ Package(q)' = Package(q) /\ InSystem(q)' = InSystem(q)
                                      /\ Sharing(q)' = Sharing(q)
        /\ \A c, q, S : Heard(c, {InSystem(q)}, S) => Heard(c, {InSystem(q)}, S)'
    BY <2>2, Context DEF Moves
  <2>4. \A q : Discovered(Package(q))' = Discovered(Package(q))
    BY <2>3
  <2>5. t \in DOMAIN Scores /\ BucketScore(Scores[t]) # NotIndexed
    BY About, ScoreIsNumber DEF ProvidersIInv
  <2>6. ScoresInv'
    <3> SUFFICES ASSUME NEW u \in DOMAIN Scores PROVE
          \/ scores'[u] = NotAsked
          \/ \E q \in DOMAIN step :
               /\ u \in Discovered(Package(q))
               /\ \/ scores'[u] = NotIndexed /\ Heard("score", {InSystem(q)}, {"absent"})'
                  \/ scores'[u] = BucketScore(Scores[u]) /\ Heard("score", {InSystem(q)}, {"found"})'
      BY <2>2, <2>4 DEF ScoresInv, Moves
    <3>1. CASE u = t
      <4>1. scores'[u] = score
        BY <2>1, <2>5, <3>1 DEF ProvidersIInv, ProvidersShape
      <4> QED
        BY <1>2, <1>4, <3>1, <4>1
    <3>2. CASE u # t
      <4>1. scores'[u] = scores[u]
        BY <2>1, <3>2 DEF ProvidersIInv, ProvidersShape
      <4> QED
        BY <4>1, <2>3 DEF ProvidersIInv, ScoresInv
    <3> QED
      BY <3>1, <3>2
  <2>7. /\ status = "absent" => Heard("score", Sharing(r), {"absent"})'
        /\ status = "found" => Heard("score", Sharing(r), {"found"})'
    <3>1. InSystem(r)' \in Sharing(r)'
      BY <2>2, <2>3 DEF Sharing, Moves
    <3> QED
      BY <1>2, <3>1 DEF Heard
  <2>8. Heard("repository", {InSystem(r)}, {"found"})'
    BY <1>2, <2>3 DEF ProvidersIInv, RequestInv
  <2>9. ScorecardSays(r)'
    BY <1>4, <2>2, <2>3, <2>4, <2>5, <2>7, <2>8 DEF ScorecardSays, FromScores
  <2>10. Backed(r)'
    BY <1>2, <2>3, <2>9, ProviderOf DEF Backed, ProvidersIInv
  <2>11. RequestInv(r)'
    BY <2>2, <2>10, OverInv
  <2>12. scores' = [u \in DOMAIN scores |-> scores'[u]]
    BY <2>1
  <2> QED
    BY <1>1, <1>2, <2>1, <2>6, <2>11, <2>12, StepInv
<1>5. CASE status \notin {"found", "absent"}
  <2>1. Finish(r, Unavailable) /\ scores' = scores
    BY <1>3, <1>5
  <2> QED
    BY <1>1, <1>2, <2>1, GapInv
<1> QED
  BY <1>4, <1>5

-----------------------------------------------------------------------------
\* The PyPI registry: what is said after its first call has that call behind it.
LEMMA PypiInv ==
  ASSUME ProvidersIInv, NEW r \in DOMAIN step, NEW status, Metadata(r, status) \/ Provenance(r, status)
  PROVE  ProvidersIInv'
PROOF
<1>1. job' = job /\ versions' = versions /\ scores' = scores
  BY DEF Metadata, Provenance
<1>2. Asking' = Asking /\ InSystem(r)' = InSystem(r)
  BY <1>1 DEF Asking, InSystem, Package
<1>3. CASE Metadata(r, status)
  <2>1. Hears(r, "metadata", status)
    BY <1>3 DEF Metadata
  <2>2. /\ heard \subseteq heard' /\ step[r] = "metadata"
        /\ \A S : status \in S => Heard("metadata", {InSystem(r)}, S)'
    BY <1>1, <2>1, JustHeard
  <2>3. Asking[r].provider = "pypi_registry"
    BY <2>2, ProviderOf DEF ProvidersIInv
  <2>4. CASE status = "found"
    <3>1. PICK next \in {"provenance", "done"} : Proceed(r, next, ComputeSignals(Package(r)))
      BY <1>3, <2>4 DEF Metadata
    <3>2. step'[r] = next
      BY <1>1, <2>2, <3>1, Proceeds DEF ProvidersIInv
    <3>3. Heard("metadata", {InSystem(r)}, {"found"})'
      BY <2>2, <2>4
    <3>4. Backed(r)'
      BY <1>2, <2>3, <3>3 DEF Backed
    <3>5. RequestInv(r)'
      BY <1>2, <2>3, <3>2, <3>3, <3>4 DEF RequestInv, Answered, Calls
    <3> QED
      BY <1>1, <2>2, <3>1, <3>5, StepInv
  <2>5. CASE status # "found"
    <3>1. Finish(r, Error) \/ Finish(r, Unavailable)
      BY <1>3, <2>5 DEF Metadata
    <3> QED
      BY <1>1, <2>2, <3>1, GapInv
  <2> QED
    BY <2>4, <2>5
<1>4. CASE Provenance(r, status)
  <2>1. PICK signals : Proceed(r, "done", signals)
    BY <1>4 DEF Provenance, Finish
  <2>2. heard \subseteq heard' /\ step[r] = "provenance"
    BY <1>1, <1>4, JustHeard DEF Provenance
  <2>3. Moves(r) /\ step'[r] = "done"
    BY <1>1, <2>1, <2>2, Proceeds DEF ProvidersIInv
  <2>4. Heard("metadata", {InSystem(r)}, {"found"})'
    BY <2>2, <2>3, Context DEF ProvidersIInv, RequestInv, Moves
  <2>5. Backed(r)'
    BY <1>2, <2>2, <2>4, ProviderOf DEF Backed, ProvidersIInv
  <2> QED
    BY <1>1, <2>1, <2>2, <2>3, <2>5, OverInv, StepInv
<1> QED
  BY <1>3, <1>4

\* The source distributions: nothing is reported but after the download.
LEMMA SdistInv ==
  ASSUME ProvidersIInv, NEW r \in DOMAIN step, NEW status,
         Files(r, status) \/ Length(r, status) \/ Download(r, status)
  PROVE  ProvidersIInv'
PROOF
<1>1. job' = job /\ versions' = versions /\ scores' = scores
  BY DEF Files, Length, Download
<1>2. PICK call \in {"files", "length", "download"} : Hears(r, call, status)
  BY DEF Files, Length, Download
<1>3. /\ heard \subseteq heard' /\ step[r] = call /\ status \in Statuses
      /\ \A S : status \in S => Heard(call, {InSystem(r)}, S)'
  BY <1>1, <1>2, JustHeard
<1>4. Asking[r].provider = "pypi_sdist" /\ Asking' = Asking /\ Statuses' = Statuses
  BY <1>1, <1>3, ProviderOf DEF ProvidersIInv, Asking, Statuses
<1>5. \/ Finish(r, Error) \/ Finish(r, Unavailable)
      \/ Proceed(r, "length", {}) \/ Proceed(r, "download", {})
      \/ call = "download" /\ status # "lost" /\ \E signals : Finish(r, signals)
  <2>1. Files(r, status) => Finish(r, Error) \/ Finish(r, Unavailable) \/ Proceed(r, "length", {})
    BY DEF Files
  <2>2. Length(r, status) => Finish(r, Error) \/ Finish(r, Unavailable) \/ Proceed(r, "download", {})
    BY DEF Length
  <2>3. Download(r, status) => Finish(r, Error) \/ (status # "lost" /\ \E signals : Finish(r, signals))
    BY DEF Download
  <2>4. Download(r, status) => call = "download"
    BY <1>2 DEF Download, Hears
  <2> QED
    BY <2>1, <2>2, <2>3, <2>4
<1>6. CASE Finish(r, Error) \/ Finish(r, Unavailable)
  BY <1>1, <1>3, <1>6, GapInv
<1>7. ASSUME NEW next \in {"length", "download"}, Proceed(r, next, {}) PROVE ProvidersIInv'
  <2>1. step'[r] = next /\ said'[r] = {}
    BY <1>1, <1>3, <1>7, Proceeds, NothingSaid DEF ProvidersIInv
  <2>2. RequestInv(r)'
    BY <1>4, <2>1 DEF RequestInv, Answered, Calls
  <2> QED
    BY <1>1, <1>3, <1>7, <2>2, StepInv
<1>8. CASE call = "download" /\ status # "lost" /\ \E signals : Finish(r, signals)
  <2>1. PICK signals : Proceed(r, "done", signals)
    BY <1>8 DEF Finish
  <2>2. step'[r] = "done"
    BY <1>1, <1>3, <2>1, Proceeds DEF ProvidersIInv
  <2>3. Heard("download", {InSystem(r)}, Statuses \ {"lost"})'
    BY <1>3, <1>4, <1>8
  <2>4. Backed(r)'
    BY <1>4, <2>3 DEF Backed
  <2> QED
    BY <1>1, <1>3, <2>1, <2>2, <2>4, OverInv, StepInv
<1> QED
  BY <1>5, <1>6, <1>7, <1>8

LEMMA ProvidersInductive == ProvidersIInv /\ [ProvidersNext]_providersVars => ProvidersIInv'
PROOF
<1> SUFFICES ASSUME ProvidersIInv, [ProvidersNext]_providersVars PROVE ProvidersIInv'
  OBVIOUS
<1>1. CASE ProvidersNext
  BY <1>1, AskServiceInv, QueryInv, VersionInv, DiscoverInv, ScoreInv, PypiInv, SdistInv DEF ProvidersNext
<1>2. CASE UNCHANGED providersVars
  <2>1. /\ job' = job /\ step' = step /\ said' = said /\ versions' = versions /\ scores' = scores
        /\ heard' = heard
    BY <1>2 DEF providersVars
  <2>2. VersionsInv' /\ ScoresInv' /\ \A q \in DOMAIN step : RequestInv(q)'
    BY <2>1, CachesStay, OthersStay
  <2>3. ProvidersShape'
    <3>1. Asking' = Asking /\ \A q : InSystem(q)' = InSystem(q)
      BY <2>1, Context
    <3> QED
      BY <2>1, <3>1 DEF ProvidersIInv, ProvidersShape
  <2> QED
    BY <2>1, <2>2, <2>3 DEF ProvidersIInv
<1> QED
  BY <1>1, <1>2

-----------------------------------------------------------------------------
\* Every request that reports no gap has an answer behind it (the caches of
\* DepsDevProvider and ScorecardProvider keep answers and misses, never failures).
THEOREM AnswersBehindSilence == ProvidersSpec => []SilenceWasAnswered
PROOF
<1>1. ProvidersIInv => SilenceWasAnswered
  BY DEF ProvidersIInv, RequestInv, Answered, SilenceWasAnswered
<1> QED
  BY <1>1, ProvidersInitInv, ProvidersInductive, PTL DEF ProvidersSpec
-----------------------------------------------------------------------------
\* What is reported of a source distribution is what is found in a download that
\* was verified.
ScannedAs(r) ==
  \E served : Verified(Sdist(r), served) /\ AnalyseInstallSurfaces(served) \subseteq said[r]

SeenInv ==
  \A r \in DOMAIN step :
    Asking[r].provider = "pypi_sdist" /\ step[r] = "done" /\ ~Told(r) => ScannedAs(r)

\* A request for one ends with a gap, or with what is found in such a download.
Ends(r, next, signals) ==
  Asking[r].provider = "pypi_sdist" /\ next = "done" =>
    \/ signals \in {Unavailable, Error}
    \/ \E served : Verified(Sdist(r), served) /\ signals = AnalyseInstallSurfaces(served)

LEMMA StepEnds ==
  ASSUME ProvidersIInv, NEW r \in DOMAIN step, NEW status \in Statuses,
         \/ AskProvider(r)
         \/ Query(r, status) \/ Version(r, status) \/ Discover(r, status) \/ Score(r, status)
         \/ Metadata(r, status) \/ Provenance(r, status)
         \/ Files(r, status) \/ Length(r, status) \/ Download(r, status)
  PROVE  /\ job' = job /\ heard \subseteq heard'
         /\ \E next, signals : Proceed(r, next, signals) /\ Ends(r, next, signals)
PROOF
<1>1. job' = job
  BY DEF AskProvider, Query, Version, Discover, Score, Metadata, Provenance, Files, Length, Download
<1>2. heard \subseteq heard'
  BY DEF AskProvider, Query, Version, Discover, Score, Metadata, Provenance, Files, Length, Download, Hears
<1>3. CASE AskProvider(r)
  <2>1. Asking[r].provider = "pypi_sdist" => FirstCall[Asking[r].provider] = "files"
    BY DEF FirstCall
  <2> QED
    BY <1>1, <1>2, <1>3, <2>1 DEF AskProvider, Finish, Ends
<1>4. CASE Query(r, status) \/ Version(r, status) \/ Discover(r, status) \/ Score(r, status)
           \/ Metadata(r, status) \/ Provenance(r, status)
  <2>1. Asking[r].provider # "pypi_sdist"
    BY <1>4, ProviderOf
       DEF ProvidersIInv, Query, Version, Discover, Score, Metadata, Provenance, Hears
  <2>2. \E next, signals : Proceed(r, next, signals)
    BY <1>4 DEF Query, Version, Discover, Score, Metadata, Provenance, Finish
  <2> QED
    BY <1>1, <1>2, <2>1, <2>2 DEF Ends
<1>5. CASE Files(r, status) \/ Length(r, status)
  <2>1. \/ Finish(r, Error) \/ Finish(r, Unavailable)
        \/ Proceed(r, "length", {}) \/ Proceed(r, "download", {})
    BY <1>5 DEF Files, Length
  <2> QED
    BY <1>1, <1>2, <2>1 DEF Finish, Ends
<1>6. CASE Download(r, status)
  <2>1. \/ Finish(r, Error) \/ Finish(r, Unavailable)
        \/ \E served : Verified(Sdist(r), served) /\ Finish(r, AnalyseInstallSurfaces(served))
    BY <1>6 DEF Download
  <2> QED
    BY <1>1, <1>2, <2>1 DEF Finish, Ends
<1> QED
  BY <1>3, <1>4, <1>5, <1>6

LEMMA SeenInductive == ProvidersIInv /\ SeenInv /\ [ProvidersNext]_providersVars => SeenInv'
PROOF
<1> SUFFICES ASSUME ProvidersIInv, SeenInv, [ProvidersNext]_providersVars PROVE SeenInv'
  OBVIOUS
<1>1. ASSUME job' = job, NEW q \in DOMAIN step, step'[q] = step[q], said'[q] = said[q]
      PROVE  (Asking[q].provider = "pypi_sdist" /\ step[q] = "done" /\ ~Told(q) => ScannedAs(q))'
  <2>1. Asking' = Asking /\ Sdist(q)' = Sdist(q) /\ Told(q)' = Told(q)
    BY <1>1 DEF Asking, Sdist, Package, Told, Unavailable, Error
  <2>2. ScannedAs(q)' = ScannedAs(q)
    BY <1>1, <2>1 DEF ScannedAs, Verified, AnalyseInstallSurfaces
  <2> QED
    BY <1>1, <2>1, <2>2 DEF SeenInv
<1>2. ASSUME NEW r \in DOMAIN step, NEW next, NEW signals, job' = job, heard \subseteq heard',
             Proceed(r, next, signals), Ends(r, next, signals)
      PROVE  SeenInv'
  <2>1. Moves(r) /\ step'[r] = next /\ said'[r] = said[r] \cup signals
    BY <1>2, Proceeds DEF ProvidersIInv
  <2>2. Asking' = Asking /\ Sdist(r)' = Sdist(r)
    BY <1>2 DEF Asking, Sdist, Package
  <2>3. (Asking[r].provider = "pypi_sdist" /\ step[r] = "done" /\ ~Told(r) => ScannedAs(r))'
    <3>1. CASE ~(Asking[r].provider = "pypi_sdist" /\ next = "done")
      BY <2>1, <2>2, <3>1
    <3>2. CASE signals \in {Unavailable, Error}
      <4>1. Told(r)'
        BY <2>1, <3>2 DEF Told, Unavailable, Error
      <4> QED
        BY <4>1
    <3>3. CASE \E served : Verified(Sdist(r), served) /\ signals = AnalyseInstallSurfaces(served)
      <4>1. ScannedAs(r)'
        BY <2>1, <2>2, <3>3 DEF ScannedAs
      <4> QED
        BY <4>1
    <3> QED
      BY <1>2, <3>1, <3>2, <3>3 DEF Ends
  <2> QED
    BY <1>1, <1>2, <2>1, <2>3 DEF SeenInv, Moves
<1>3. ASSUME NEW r \in DOMAIN step, NEW status \in Statuses,
             \/ AskProvider(r) \/ Query(r, status) \/ Version(r, status) \/ Discover(r, status)
             \/ Score(r, status) \/ Metadata(r, status) \/ Provenance(r, status)
             \/ Files(r, status) \/ Length(r, status) \/ Download(r, status)
      PROVE  SeenInv'
  <2>1. /\ job' = job
        /\ heard \subseteq heard'
        /\ \E next, signals : Proceed(r, next, signals) /\ Ends(r, next, signals)
    BY <1>3, StepEnds
  <2> QED
    BY <1>2, <2>1
<1>4. CASE ProvidersNext
  <2>1. PICK r \in DOMAIN step :
          \/ AskProvider(r)
          \/ \E status \in Statuses :
               \/ Query(r, status) \/ Version(r, status) \/ Discover(r, status) \/ Score(r, status)
               \/ Metadata(r, status) \/ Provenance(r, status)
               \/ Files(r, status) \/ Length(r, status) \/ Download(r, status)
    BY <1>4 DEF ProvidersNext
  <2>2. \E status \in Statuses : TRUE
    BY DEF Statuses
  <2>3. CASE AskProvider(r)
    BY <1>3, <2>2, <2>3
  <2>4. CASE ~AskProvider(r)
    <3>1. PICK status \in Statuses :
               \/ Query(r, status) \/ Version(r, status) \/ Discover(r, status) \/ Score(r, status)
               \/ Metadata(r, status) \/ Provenance(r, status)
               \/ Files(r, status) \/ Length(r, status) \/ Download(r, status)
      BY <2>1, <2>4
    <3> QED
      BY <1>3, <3>1
  <2> QED
    BY <2>3, <2>4
<1>5. CASE UNCHANGED providersVars
  BY <1>1, <1>5 DEF providersVars, SeenInv
<1> QED
  BY <1>4, <1>5

\* What is found in an archive that is none of the errors covers its first setup.py
\* and every module of a declared backend-path.
LEMMA SurfacesAre ==
  ASSUME NEW archive, ~(AnalyseInstallSurfaces(archive) = Error),
         NEW i \in DOMAIN archive.entries, NEW e, e = archive.entries[i], NEW f \in e.findings,
         \/ e \in FirstNamed(archive, "setup.py")
         \/ /\ e.file # "setup.py"
            /\ InBackend(e, UNION {BackendPaths(x) : x \in FirstNamed(archive, "pyproject.toml")})
  PROVE  <<"suspicious-script", e.file, f>> \in AnalyseInstallSurfaces(archive)
PROOF
<1> DEFINE setup == FirstNamed(archive, "setup.py")
           pyproject == FirstNamed(archive, "pyproject.toml")
           roots == UNION {BackendPaths(x) : x \in pyproject}
           found == UNION {{<<"suspicious-script", x.file, g>> : g \in Scanned(x)} :
                             x \in setup \cup ExtractBackend(archive, roots)}
<1>1. found \subseteq AnalyseInstallSurfaces(archive)
  BY DEF AnalyseInstallSurfaces
<1>2. e \in setup \cup ExtractBackend(archive, roots)
  BY DEF ExtractBackend
<1>3. f \in Scanned(e)
  BY DEF Scanned
<1> HIDE DEF setup, roots
<1>4. <<"suspicious-script", e.file, f>> \in found
  BY <1>2, <1>3
<1> QED
  BY <1>1, <1>4

\* (InstallCodeSeen) The install-time code of a source distribution that raised no
\* gap has been scanned, and its findings reported: its first setup.py and every
\* module in the backend-paths of the project file pip builds with, if no other comes
\* before it and but for odd entries, which are passed over (archive_path_variants).
\* For every archive an index may publish, every download and every order of the
\* requests (analyze_one, analyze_install_surfaces, extract_backend_python_files).
THEOREM InstallCodeIsSeen == ProvidersSpec => []InstallCodeSeen
PROOF
<1>1. ASSUME SeenInv PROVE InstallCodeSeen
  <2> SUFFICES ASSUME NEW r \in DOMAIN step, Asking[r].provider = "pypi_sdist", step[r] = "done",
                      ~Told(r), Sdist(r).digest
      PROVE  LET entries == Sdist(r).archive.entries
                 First(i, file) == entries[i].file = file /\ \A k \in 1 .. i - 1 : entries[k].file # file
                 project == {entries[i] : i \in {i \in DOMAIN entries :
                               First(i, "pyproject.toml") /\ Placed(entries, i) = <<"pyproject.toml">>}}
             IN /\ Sdist(r).archive.size <= Cap
                /\ \A i \in DOMAIN entries :
                     \/ First(i, "setup.py")
                     \/ /\ entries[i].python /\ entries[i].file # "setup.py" /\ ~Odd(entries[i])
                        /\ \E root \in UNION {BackendPaths(e) : e \in project} : IsPrefix(root, Placed(entries, i))
                     => \A f \in entries[i].findings : <<"suspicious-script", entries[i].file, f>> \in said[r]
    BY DEF InstallCodeSeen
  <2>1. PICK archive : archive = Sdist(r).archive
    OBVIOUS
  <2>2. /\ archive.size <= Cap /\ AnalyseInstallSurfaces(archive) \subseteq said[r]
    BY <1>1, <2>1 DEF SeenInv, ScannedAs, Verified
  <2>3. AnalyseInstallSurfaces(archive) # Error
    BY <2>2 DEF Told, Error
  <2> DEFINE entries == archive.entries
             First(i, file) == entries[i].file = file /\ \A k \in 1 .. i - 1 : entries[k].file # file
             project == {entries[i] : i \in {i \in DOMAIN entries :
                           First(i, "pyproject.toml") /\ Placed(entries, i) = <<"pyproject.toml">>}}
             roots == UNION {BackendPaths(e) : e \in FirstNamed(archive, "pyproject.toml")}
             own == UNION {BackendPaths(e) : e \in project}
  <2>4. own \subseteq roots
    <3>1. project \subseteq FirstNamed(archive, "pyproject.toml")
      BY DEF FirstNamed
    <3> HIDE DEF project
    <3> QED
      BY <3>1
  <2>5. ASSUME NEW i \in DOMAIN entries, NEW f \in entries[i].findings,
               \/ First(i, "setup.py")
               \/ /\ entries[i].python /\ entries[i].file # "setup.py" /\ ~Odd(entries[i])
                  /\ \E root \in own : IsPrefix(root, Placed(entries, i))
        PROVE  <<"suspicious-script", entries[i].file, f>> \in said[r]
    <3>1. CASE First(i, "setup.py")
      <4>1. entries[i] \in FirstNamed(archive, "setup.py")
        BY <3>1 DEF FirstNamed
      <4> QED
        BY <2>2, <2>3, <4>1, SurfacesAre
    <3>2. CASE /\ entries[i].python /\ entries[i].file # "setup.py" /\ ~Odd(entries[i])
               /\ \E root \in own : IsPrefix(root, Placed(entries, i))
      <4>1. InBackend(entries[i], roots)
        <5> HIDE DEF roots, own
        <5>1. PICK root \in roots : IsPrefix(root, Placed(entries, i))
          BY <2>4, <3>2
        <5>2. Bare(entries[i].dir) = entries[i].dir
          BY <3>2 DEF Odd, Bare
        <5>3. CASE Leading(entries)
          <6>1. /\ Placed(entries, i) = Tail(Append(entries[i].dir, entries[i].file))
                /\ entries[i].dir # <<>>
            BY <5>2, <5>3 DEF Placed, Leading
          <6> QED
            BY <3>2, <5>1, <6>1 DEF InBackend
        <5>4. CASE ~Leading(entries)
          <6>1. Placed(entries, i) = Append(entries[i].dir, entries[i].file)
            BY <5>2, <5>4 DEF Placed
          <6> QED
            BY <3>2, <5>1, <6>1 DEF InBackend
        <5> QED
          BY <5>3, <5>4
      <4> QED
        BY <2>2, <2>3, <3>2, <4>1, SurfacesAre
    <3> QED
      BY <2>5, <3>1, <3>2
  <2> QED
    BY <2>1, <2>2, <2>5
<1>2. ProvidersInit => SeenInv
  BY DEF ProvidersInit, SeenInv
<1> QED
  BY <1>1, <1>2, SeenInductive, ProvidersInitInv, ProvidersInductive, PTL DEF ProvidersSpec
=============================================================================
