----------------------------- MODULE SignalCache -----------------------------
(***************************************************************************)
(* The persistent signal cache and the CachedProvider that reads through   *)
(* it (crates/cache), over the fan-out CompositeProvider (crates/core) and *)
(* the provider stack `build_provider` arms for a run (crates/cli).        *)
(*                                                                         *)
(* One process at a time has the store open (sled locks its directory).    *)
(* Inside a run the requests of `gather_signals` are futures of ONE task:  *)
(* between two awaits a request is atomic.  CachedProvider::signals awaits *)
(* only the inner provider, so it splits into Ask (clock, lookup, verdict) *)
(* and Deliver (put, return), and other requests, the clock and a crash    *)
(* come between the two.                                                   *)
(*                                                                         *)
(* A list of signals is abstracted to what each child provider last said:  *)
(* a kind, and the wall-clock time `seen` at which the child said it.      *)
(***************************************************************************)
EXTENDS Integers, FiniteSets

CONSTANTS
  Families,     \* registry families: the npm registry, PyPI
  Names,        \* name-and-version pairs, as they enter the cache key
  Sources,      \* child providers of the composite
  Anchor,       \* npm-registry, the child no flag disables
  Serves,       \* Serves[c]: the families child c supports
  Outcomes,     \* what a child may answer, of the four kinds below
  Requests,     \* slots for the requests of a run
  Tools,        \* tool versions
  Unstamped,    \* the version read from an entry older than the stamp
  Binaries,     \* the releases that get installed, [schema, tool]
  LegacyKeys,   \* keys an older release may have left entries under
  SuccessTtl,
  FailureTtl,
  FetchTimeout, \* longest a fan-out can take, in ticks
  Skews,        \* by how much the wall clock may be set back at once
  MaxClock      \* bound on the wall clock

ASSUME CacheAssumption ==
  /\ Anchor \in Sources
  /\ Serves \in [Sources -> SUBSET Families]
  /\ Families # {} /\ Names # {}
  /\ LegacyKeys \subseteq {"composite", "npm-registry"} \X Families \X Names
  /\ Outcomes \subseteq {"signals", "silent", "unavailable", "error"}
  /\ Unstamped \notin Tools
  /\ Binaries \subseteq [schema : Nat, tool : Tools]
  /\ SuccessTtl \in Nat /\ FailureTtl \in Nat /\ FetchTimeout \in Nat
  /\ FailureTtl <= SuccessTtl
  /\ MaxClock \in Nat /\ Skews \subseteq Nat

VARIABLES
  clock,    \* Utc::now(), in ticks
  binary,   \* the installed release
  armed,    \* children of the running process; {} when none runs
  store,    \* the open sled tree: a partial function from keys to entries
  disk,     \* what of it has been flushed
  req       \* the requests of the run

vars == <<clock, binary, armed, store, disk, req>>

-----------------------------------------------------------------------------
Packages == Families \X Names
Family(d) == d[1]

\* What a child says of a package: nothing was asked of it, its signals, no
\* signal at all, or Signal::Unavailable; on the way, also a future that has
\* not resolved and an Err.
Settled == {"absent", "signals", "silent", "unavailable"}
Kinds == Settled \cup {"pending", "error"}
Answers(kinds) == [Sources -> [kind : kinds, seen : Nat]]
Absent == [kind |-> "absent", seen |-> 0]

Release == [schema : Nat, tool : Tools \cup {Unstamped}]

\* The signals of one package as they are passed around.  `of` and `by` are
\* what they are about and the release that computed them: the code keeps
\* neither, they are here to be compared with who gets the signals.
Signals(kinds) == [of : Packages, by : Release, ans : Answers(kinds)]

Ids == {"composite", "npm-registry"}
Keys == Ids \X Families \X Names
Entry == [readable : BOOLEAN, stamp : Release, fetchedAt : Nat, signals : Signals(Settled)]

Supporting(cs, d) == {c \in cs : Family(d) \in Serves[c]}

\* build_provider puts no composite over a single child.
ProviderId(cs) == IF cs = {Anchor} THEN "npm-registry" ELSE "composite"

CacheKey(id, d) == <<id, d[1], d[2]>>

KeyOf(d) == CacheKey(ProviderId(armed), d)

\* Defect: the version stamp is written and never compared.
ReadableBySchema(e) == e.readable /\ e.stamp.schema = binary.schema

\* get_with_age knows only entries of this build's schema and tool version.
Readable(e) == e.readable /\ e.stamp = binary

\* A list that is not empty and holds nothing but Signal::Unavailable.
AllUnavailable(ans) ==
  /\ \E c \in Sources : ans[c].kind = "unavailable"
  /\ \A c \in Sources : ans[c].kind # "signals"

\* Defect: failures are kept as long as anything else.
TtlOfAll(ans) == SuccessTtl

TtlOf(ans) == IF AllUnavailable(ans) THEN FailureTtl ELSE SuccessTtl

\* Defect: an entry is good for one tick more.
FreshInclusive(e, now) == e.fetchedAt <= now /\ now - e.fetchedAt <= TtlOf(e.signals.ans)

\* age < ttl; a negative age is no age (to_std fails) and never a hit.
Fresh(e, now) == e.fetchedAt <= now /\ now - e.fetchedAt < TtlOf(e.signals.ans)

Hit(d) == /\ KeyOf(d) \in DOMAIN store
          /\ Readable(store[KeyOf(d)])
          /\ Fresh(store[KeyOf(d)], clock)

Without(s, k) == [x \in DOMAIN s \ {k} |-> s[x]]
With(s, k, e) == [x \in DOMAIN s \cup {k} |-> IF x = k THEN e ELSE s[x]]

\* An entry that cannot be read is removed by the lookup, a stale one is not.
AfterLookup(k) == IF k \in DOMAIN store /\ ~Readable(store[k]) THEN Without(store, k) ELSE store

\* put stamps the time of the write, later than every answer in the list.
Stamped(sig) == [readable |-> TRUE, stamp |-> binary, fetchedAt |-> clock, signals |-> sig]

\* Defect: a child's Err goes into the list as it is.
ConcatenatedRaw(ans) == ans

\* The composite turns a child's Err into that child's Unavailable; a single
\* provider's Err reaches the caller and nothing is stored.
Concatenated(ans) ==
  [c \in Sources |->
     [ans[c] EXCEPT !.kind = IF @ = "error" THEN "unavailable" ELSE @]]

Failed(ans) == ProviderId(armed) # "composite" /\ ans[Anchor].kind = "error"
-----------------------------------------------------------------------------
NoSignals == [of |-> CHOOSE d \in Packages : TRUE,
              by |-> [schema |-> 0, tool |-> Unstamped],
              ans |-> [c \in Sources |-> Absent]]

\* A request for the package `dep`: `asked` is the `now` of its lookup, `age`
\* the ticks since then.
Request == [phase : {"idle", "fetching", "cached", "fetched", "failed"}, dep : Packages,
            asked : Nat, age : Nat, sig : Signals(Kinds)]
Idle == [phase |-> "idle", dep |-> NoSignals.of, asked |-> 0, age |-> 0, sig |-> NoSignals]

Fetching(r) == req[r].phase = "fetching"
PendingOf(r) == {c \in Sources : req[r].sig.ans[c].kind = "pending"}

\* Entries of an older release: an older schema, no version stamp, or bytes
\* that no longer parse.
LegacyEntry(k, readable, schema) ==
  [readable |-> readable, stamp |-> [schema |-> schema, tool |-> Unstamped], fetchedAt |-> 0,
   signals |-> [of |-> <<k[2], k[3]>>, by |-> [schema |-> schema, tool |-> Unstamped],
                ans |-> [c \in Sources |-> [kind |-> "signals", seen |-> 0]]]]

Init ==
  /\ clock = 0
  /\ binary \in Binaries
  /\ armed = {}
  /\ \E K \in SUBSET LegacyKeys, readable \in BOOLEAN, schema \in {1, binary.schema} :
       store = [k \in K |-> LegacyEntry(k, readable, schema)]
  /\ disk = store
  /\ req = [r \in Requests |-> Idle]

\* A run starts: it takes the store's lock and arms the children its --no-*
\* flags leave.  Without the lock the command ends with an error (exit 2).
StartRun(cs) ==
  /\ armed = {}
  /\ Anchor \in cs
  /\ armed' = cs
  /\ UNCHANGED <<clock, binary, store, disk, req>>

\* CachedProvider::signals up to its await: read the clock, look the key up,
\* answer from the entry or start the fan-out.
Ask(r, d) ==
  /\ armed # {}
  /\ ~Fetching(r)
  /\ Supporting(armed, d) # {}
  /\ store' = AfterLookup(KeyOf(d))
  /\ req' = [req EXCEPT ![r] =
       IF Hit(d)
       THEN [phase |-> "cached", dep |-> d, asked |-> clock, age |-> 0,
             sig |-> store[KeyOf(d)].signals]
       ELSE [phase |-> "fetching", dep |-> d, asked |-> clock, age |-> 0,
             sig |-> [of |-> d, by |-> binary,
                      ans |-> [c \in Sources |->
                                 [kind |-> IF c \in Supporting(armed, d) THEN "pending" ELSE "absent",
                                  seen |-> 0]]]]]
  /\ UNCHANGED <<clock, binary, armed, disk>>

\* One child's future resolves: with signals, with none, with Unavailable (an
\* HTTP status it reports), or with Err (the transport, a timeout, a decode).
Resolve(r, c, kind) ==
  /\ Fetching(r)
  /\ c \in PendingOf(r)
  /\ req' = [req EXCEPT ![r].sig.ans[c] = [kind |-> kind, seen |-> clock]]
  /\ UNCHANGED <<clock, binary, armed, store, disk>>

\* CachedProvider::signals after its await.  `written`: a put that fails is
\* logged and the fresh signals are returned all the same.
Deliver(r, written) ==
  /\ Fetching(r)
  /\ PendingOf(r) = {}
  /\ LET sig == [req[r].sig EXCEPT !.ans = Concatenated(@)]
     IN IF Failed(req[r].sig.ans)
        THEN /\ req' = [req EXCEPT ![r].phase = "failed"]
             /\ UNCHANGED store
        ELSE /\ req' = [req EXCEPT ![r].phase = "fetched", ![r].sig = sig]
             /\ store' = IF written THEN With(store, KeyOf(req[r].dep), Stamped(sig)) ELSE store
  /\ UNCHANGED <<clock, binary, armed, disk>>

\* The run ends with nothing in flight; closing the store flushes it.
EndRun ==
  /\ armed # {}
  /\ \A r \in Requests : ~Fetching(r)
  /\ armed' = {}
  /\ disk' = store
  /\ req' = [r \in Requests |-> Idle]
  /\ UNCHANGED <<clock, binary, store>>

\* The process dies mid-run.  A change sled had not flushed may be gone, one it
\* had is not.
Crash ==
  /\ armed # {}
  /\ armed' = {}
  /\ \E lost \in SUBSET (DOMAIN store \cup DOMAIN disk) :
       store' = [k \in (DOMAIN store \ lost) \cup (DOMAIN disk \cap lost) |->
                   IF k \in lost THEN disk[k] ELSE store[k]]
  /\ disk' = store'
  /\ req' = [r \in Requests |-> Idle]
  /\ UNCHANGED <<clock, binary>>

\* `installguard cache clear`: clears and flushes, also under the lock.
Clear ==
  /\ armed = {}
  /\ store' = [k \in {} |-> k]
  /\ disk' = store'
  /\ UNCHANGED <<clock, binary, armed, req>>

\* Another release is installed, newer or older.
Install(b) ==
  /\ armed = {}
  /\ binary' = b
  /\ UNCHANGED <<clock, armed, store, disk, req>>

\* Time passes: enough of it for sled's background flush (every 500 ms).  The
\* children's HTTP clients time out, on a clock that no adjustment of the wall
\* clock touches.
Tick ==
  /\ clock < MaxClock
  /\ \A r \in Requests : Fetching(r) => req[r].age < FetchTimeout
  /\ clock' = clock + 1
  /\ disk' = store
  /\ req' = [r \in Requests |-> IF Fetching(r) THEN [req[r] EXCEPT !.age = @ + 1] ELSE req[r]]
  /\ UNCHANGED <<binary, armed, store>>

\* The wall clock is set back (time synchronisation, a restored virtual
\* machine); a jump forward is a Tick between two lookups.
SetBack(skew) ==
  /\ skew <= clock
  /\ clock' = clock - skew
  /\ UNCHANGED <<binary, armed, store, disk, req>>

Next ==
  \/ \E cs \in SUBSET Sources : StartRun(cs)
  \/ \E r \in Requests, d \in Packages : Ask(r, d)
  \/ \E r \in Requests, c \in Sources, kind \in Outcomes : Resolve(r, c, kind)
  \/ \E r \in Requests, written \in BOOLEAN : Deliver(r, written)
  \/ EndRun
  \/ Crash
  \/ Clear
  \/ \E b \in Binaries : Install(b)
  \/ Tick
  \/ \E skew \in Skews : SetBack(skew)

Spec == Init /\ [][Next]_vars
-----------------------------------------------------------------------------
\* The type invariant.  It also says that nothing unsettled is ever stored: no
\* entry holds an Err or a future that had not resolved.
TypeOK ==
  /\ clock \in Nat
  /\ binary \in Binaries
  /\ armed \in SUBSET Sources
  /\ armed # {} => Anchor \in armed
  /\ DOMAIN store \subseteq Keys
  /\ \A k \in DOMAIN store : store[k] \in Entry
  /\ DOMAIN disk \subseteq Keys
  /\ \A k \in DOMAIN disk : disk[k] \in Entry
  /\ req \in [Requests -> Request]

\* The oldest answer in a list of signals is younger than `limit`, measured at
\* `now` by the wall clock.
YoungerThan(ans, now, limit) ==
  \A c \in Sources : ans[c].kind # "absent" => now - ans[c].seen < limit

Cached(r) == req[r].phase = "cached"
Served(r) == req[r].phase \in {"cached", "fetched"}

\* No request is served the signals of another package, or signals another
\* release computed, whatever was installed, crashed or left in the store
\* before (the key of cache_key, the stamp get_with_age compares).
OwnSignals ==
  \A r \in Requests :
    Served(r) => req[r].sig.of = req[r].dep /\ req[r].sig.by = binary

\* No request is served from the cache what a source said longer ago than the
\* success TTL plus one fan-out: fetched_at is the time of the put, so an entry
\* can be older than its stamp by the whole fetch, and no older.
BoundedStaleness ==
  \A r \in Requests :
    Cached(r) => YoungerThan(req[r].sig.ans, req[r].asked, SuccessTtl + FetchTimeout)

\* A total outage is served from the cache for no longer than the failure TTL
\* (plus the fetch): "so a network blip doesn't block iteration".
OutageShortLived ==
  \A r \in Requests :
    Cached(r) /\ AllUnavailable(req[r].sig.ans) =>
      YoungerThan(req[r].sig.ans, req[r].asked, FailureTtl + FetchTimeout)

\* The module's promise: a result `Signal::Unavailable` is cached "with a
\* shorter TTL so transient registry hiccups don't get pinned for hours".
NoOutagePinned ==
  \A r \in Requests : \A c \in Sources :
    Cached(r) /\ req[r].sig.ans[c].kind = "unavailable" =>
      req[r].asked - req[r].sig.ans[c].seen < FailureTtl + FetchTimeout

\* What a flag of the command line promises: it disables a source "for this
\* run", so a run that arms a source is served what that source said.
FlagsLastOneRun ==
  \A r \in Requests :
    Served(r) => \A c \in Supporting(armed, req[r].dep) : req[r].sig.ans[c].kind # "absent"
-----------------------------------------------------------------------------
\* The entries of both the tree and the disk are the memory: a crash may bring
\* back any of the disk's.  An answer is given when a request has its signals.
Memory(s) == {[stack |-> k[1], at |-> s[k].fetchedAt, sig |-> s[k].signals] : k \in DOMAIN s}

Answer(r) == {[to |-> req[q].dep, sig |-> req[q].sig] : q \in {q \in {r} : Served(q)}}

Recollection == INSTANCE SignalMemory WITH
  Stacks <- Ids, Releases <- Binaries, Kinds <- Settled,
  release <- binary, stack <- IF armed = {} THEN {} ELSE {ProviderId(armed)},
  kept <- Memory(store) \cup Memory(disk), served <- [r \in Requests |-> Answer(r)]

\* Whatever is flushed late, lost in a crash, left by another release, cleared or
\* written by the slower of two requests, what the cache serves is what the
\* sources once said of that package to that release, in one piece and in time.
RemembersOnly == Recollection!Spec
=============================================================================
