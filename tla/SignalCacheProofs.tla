-------------------------- MODULE SignalCacheProofs --------------------------
(***************************************************************************)
(* Proofs about SignalCache: its type invariant, and that a request is     *)
(* never served foreign or overdue signals, for any number of packages,    *)
(* sources, requests and releases, any TTLs and any clock adjustments.     *)
(***************************************************************************)
EXTENDS SignalCache, TLAPS

\* Nothing is requested while no run is on.
IdleWhenStopped == armed = {} => \A r \in Requests : req[r].phase = "idle"

\* A request in flight is for its own package and this release, and what it was
\* told is no older than the request itself.
FetchInv ==
  \A r \in Requests :
    Fetching(r) =>
      /\ req[r].age <= FetchTimeout
      /\ \A c \in Sources :
           req[r].sig.ans[c].kind \notin {"absent", "pending"} =>
             clock - req[r].sig.ans[c].seen <= req[r].age

\* An entry holds what its key and its stamp say, and is no older than its stamp
\* by more than a fetch.
EntryInv(s) ==
  \A k \in DOMAIN s :
    /\ s[k].signals.of = <<k[2], k[3]>>
    /\ s[k].signals.by = s[k].stamp
    /\ \A c \in Sources :
         s[k].signals.ans[c].kind # "absent" =>
           s[k].fetchedAt - s[k].signals.ans[c].seen <= FetchTimeout

OwnInv ==
  \A r \in Requests :
    req[r].phase \in {"fetching", "cached", "fetched"} =>
      req[r].sig.of = req[r].dep /\ req[r].sig.by = binary

IInv ==
  /\ TypeOK
  /\ IdleWhenStopped
  /\ FetchInv
  /\ EntryInv(store)
  /\ EntryInv(disk)
  /\ OwnInv
  /\ BoundedStaleness
  /\ OutageShortLived

-----------------------------------------------------------------------------
\* The placeholder of an idle request is well formed.
LEMMA IdleType == Idle \in Request /\ NoSignals \in Signals(Settled)
PROOF
<1>1. Packages # {}
  <2>1. PICK f \in Families, n \in Names : TRUE
    BY CacheAssumption
  <2>2. <<f, n>> \in Packages
    BY DEF Packages
  <2> QED
    BY <2>2
<1>2. NoSignals.of \in Packages
  BY <1>1 DEF NoSignals
<1>3. NoSignals \in Signals(Settled)
  BY <1>2 DEF NoSignals, Signals, Release, Answers, Absent, Settled
<1>4. NoSignals \in Signals(Kinds)
  BY <1>3 DEF Signals, Answers, Kinds
<1> QED
  BY <1>2, <1>3, <1>4 DEF Idle, Request

\* What was settled when it was stored may be served.
LEMMA SettledIsKind == Signals(Settled) \subseteq Signals(Kinds)
PROOF BY DEF Signals, Answers, Kinds

\* Keys are well formed and say which package they are for.
LEMMA KeyType ==
  ASSUME NEW d \in Packages
  PROVE  KeyOf(d) \in Keys /\ <<KeyOf(d)[2], KeyOf(d)[3]>> = d
PROOF BY DEF KeyOf, CacheKey, ProviderId, Keys, Ids, Packages

LEMMA InitInv == Init => IInv
PROOF
<1> SUFFICES ASSUME Init PROVE IInv
  OBVIOUS
<1> USE DEF Init
<1>1. PICK K \in SUBSET LegacyKeys, readable \in BOOLEAN, schema \in {1, binary.schema} :
        store = [k \in K |-> LegacyEntry(k, readable, schema)]
  OBVIOUS
<1>2. schema \in Nat
  BY CacheAssumption
<1>3. ASSUME NEW k \in K
      PROVE  /\ k \in Keys
             /\ store[k] \in Entry
             /\ store[k].signals.of = <<k[2], k[3]>>
             /\ store[k].signals.by = store[k].stamp
             /\ store[k].fetchedAt = 0
             /\ \A c \in Sources : store[k].signals.ans[c].seen = 0
  BY <1>1, <1>2, <1>3, CacheAssumption
  DEF LegacyEntry, Keys, Ids, Entry, Signals, Answers, Settled, Release, Packages
<1>4. TypeOK
  BY <1>1, <1>3, IdleType DEF TypeOK
<1>5. EntryInv(store) /\ EntryInv(disk)
  BY <1>1, <1>3, CacheAssumption DEF EntryInv
<1>6. \A r \in Requests : req[r].phase = "idle"
  BY DEF Idle
<1> QED
  BY <1>4, <1>5, <1>6
  DEF IInv, IdleWhenStopped, FetchInv, Fetching, OwnInv, BoundedStaleness, OutageShortLived, Cached

-----------------------------------------------------------------------------
\* One lemma per action of Next: the step preserves the invariant.
LEMMA StartRunInv ==
  ASSUME IInv, NEW cs \in SUBSET Sources, StartRun(cs)
  PROVE  IInv'
PROOF
<1> USE DEF StartRun
<1>1. TypeOK'
  BY DEF IInv, TypeOK
<1>2. IdleWhenStopped'
  BY DEF IdleWhenStopped
<1>3. (FetchInv /\ EntryInv(store) /\ EntryInv(disk) /\ OwnInv /\ BoundedStaleness /\ OutageShortLived)'
  BY DEF IInv, FetchInv, Fetching, EntryInv, OwnInv, BoundedStaleness, OutageShortLived, Cached
<1> QED
  BY <1>1, <1>2, <1>3 DEF IInv

LEMMA AskInv ==
  ASSUME IInv, NEW r \in Requests, NEW d \in Packages, Ask(r, d)
  PROVE  IInv'
PROOF
<1> USE DEF Ask
<1> DEFINE k == KeyOf(d)
<1>k. k \in Keys /\ <<k[2], k[3]>> = d
  BY KeyType
<1> HIDE DEF k
<1>s. /\ DOMAIN store' \subseteq DOMAIN store
      /\ \A x \in DOMAIN store' : store'[x] = store[x]
  BY DEF AfterLookup, Without
<1>h. ASSUME Hit(d)
      PROVE  /\ req' = [req EXCEPT ![r] = [phase |-> "cached", dep |-> d, asked |-> clock, age |-> 0,
                                           sig |-> store[k].signals]]
             /\ k \in DOMAIN store /\ store[k].stamp = binary
             /\ store[k].fetchedAt <= clock
             /\ clock - store[k].fetchedAt < TtlOf(store[k].signals.ans)
  BY <1>h DEF Hit, Readable, Fresh, k
<1> DEFINE asked == [phase |-> "fetching", dep |-> d, asked |-> clock, age |-> 0,
                     sig |-> [of |-> d, by |-> binary,
                              ans |-> [c \in Sources |->
                                 [kind |-> IF c \in Supporting(armed, d) THEN "pending" ELSE "absent",
                                  seen |-> 0]]]]
<1>m. ASSUME ~Hit(d) PROVE req' = [req EXCEPT ![r] = asked]
  BY <1>m
<1>1. TypeOK'
  <2>a. [c \in Sources |->
           [kind |-> IF c \in Supporting(armed, d) THEN "pending" ELSE "absent", seen |-> 0]]
        \in Answers(Kinds)
    BY DEF Answers, Kinds, Settled
  <2>b. binary \in Release /\ clock \in Nat
    BY CacheAssumption DEF IInv, TypeOK, Release
  <2>1. asked \in Request
    BY <2>a, <2>b DEF Request, Signals
  <2>2. ASSUME Hit(d) PROVE req'[r] \in Request /\ req' \in [Requests -> Request]
    BY <1>h, <2>2, SettledIsKind DEF IInv, TypeOK, Request, Entry
  <2>3. req' \in [Requests -> Request]
    BY <1>m, <2>1, <2>2 DEF IInv, TypeOK
  <2> QED
    BY <1>s, <2>3 DEF IInv, TypeOK
<1>2. IdleWhenStopped'
  BY DEF IdleWhenStopped
<1>3. ASSUME NEW q \in Requests, q # r PROVE req'[q] = req[q]
  BY <1>3, <1>h, <1>m DEF IInv, TypeOK
<1>4. \/ Hit(d) /\ req'[r] = [phase |-> "cached", dep |-> d, asked |-> clock, age |-> 0,
                              sig |-> store[k].signals]
      \/ ~Hit(d) /\ req'[r] = asked
  BY <1>h, <1>m DEF IInv, TypeOK
<1>5. FetchInv'
  BY <1>3, <1>4, CacheAssumption DEF IInv, FetchInv, Fetching
<1>6. EntryInv(store)' /\ EntryInv(disk)'
  BY <1>s DEF IInv, EntryInv
<1>7. OwnInv'
  <2>1. req'[r].sig.of = d /\ req'[r].sig.by = binary /\ req'[r].dep = d
    <3>1. ASSUME Hit(d)
          PROVE  store[k].signals.of = d /\ store[k].signals.by = binary
      BY <3>1, <1>h, <1>k DEF IInv, EntryInv
    <3>2. CASE Hit(d)
      BY <3>1, <3>2, <1>4
    <3>3. CASE ~Hit(d)
      BY <3>3, <1>4
    <3> QED
      BY <3>2, <3>3
  <2> QED
    BY <1>3, <2>1 DEF IInv, OwnInv
<1>8. ASSUME Hit(d)
      PROVE \A c \in Sources : store[k].signals.ans[c].kind # "absent" =>
               clock - store[k].signals.ans[c].seen < TtlOf(store[k].signals.ans) + FetchTimeout
  <2> SUFFICES ASSUME NEW c \in Sources, store[k].signals.ans[c].kind # "absent"
               PROVE  clock - store[k].signals.ans[c].seen < TtlOf(store[k].signals.ans) + FetchTimeout
    OBVIOUS
  <2>1. store[k].fetchedAt - store[k].signals.ans[c].seen <= FetchTimeout
    BY <1>8, <1>h DEF IInv, EntryInv
  <2>2. store[k].fetchedAt \in Nat /\ store[k].signals.ans[c].seen \in Nat /\ clock \in Nat
    BY <1>8, <1>h DEF IInv, TypeOK, Entry, Signals, Answers
  <2>3. TtlOf(store[k].signals.ans) \in Nat
    BY CacheAssumption DEF TtlOf
  <2> QED
    BY <1>8, <1>h, <2>1, <2>2, <2>3, CacheAssumption
<1>9. BoundedStaleness'
  <2>1. ASSUME Hit(d) PROVE TtlOf(store[k].signals.ans) <= SuccessTtl
    BY CacheAssumption DEF TtlOf
  <2>2. ASSUME Hit(d), NEW c \in Sources, store[k].signals.ans[c].kind # "absent"
        PROVE  clock - store[k].signals.ans[c].seen < SuccessTtl + FetchTimeout
    <3>1. store[k].signals.ans[c].seen \in Nat /\ clock \in Nat
      BY <2>2, <1>h DEF IInv, TypeOK, Entry, Signals, Answers
    <3>2. TtlOf(store[k].signals.ans) \in Nat
      BY CacheAssumption DEF TtlOf
    <3> QED
      BY <1>8, <2>1, <2>2, <3>1, <3>2, CacheAssumption
  <2> QED
    BY <1>3, <1>4, <2>2 DEF IInv, BoundedStaleness, Cached, YoungerThan
<1>10. OutageShortLived'
  <2>1. ASSUME Hit(d), AllUnavailable(store[k].signals.ans)
        PROVE  TtlOf(store[k].signals.ans) = FailureTtl
    BY <2>1 DEF TtlOf
  <2> QED
    BY <1>3, <1>4, <1>8, <2>1 DEF IInv, OutageShortLived, Cached, YoungerThan, AllUnavailable
<1> QED
  BY <1>1, <1>2, <1>5, <1>6, <1>7, <1>9, <1>10 DEF IInv

LEMMA ResolveInv ==
  ASSUME IInv, NEW r \in Requests, NEW c \in Sources, NEW kind \in Outcomes, Resolve(r, c, kind)
  PROVE  IInv'
PROOF
<1> USE DEF Resolve
<1>t. /\ req \in [Requests -> Request] /\ clock \in Nat
      /\ req[r] \in Request
      /\ kind \in Kinds
      /\ c \in Sources
  BY CacheAssumption DEF IInv, TypeOK, Kinds, Settled
<1>a. req[r].sig \in Signals(Kinds) /\ req[r].sig.ans \in Answers(Kinds)
  BY <1>t DEF Request, Signals
<1> DEFINE ans == [req[r].sig.ans EXCEPT ![c] = [kind |-> kind, seen |-> clock]]
           new == [req[r] EXCEPT !.sig.ans = ans]
<1>b. ans \in Answers(Kinds)
  BY <1>t, <1>a DEF Answers
<1>c. new \in Request
  BY <1>t, <1>a, <1>b DEF Request, Signals
<1>d. req' = [req EXCEPT ![r] = new]
  BY <1>t, <1>a DEF Request, Signals, Answers
<1>e. /\ new.phase = req[r].phase /\ new.dep = req[r].dep /\ new.age = req[r].age
      /\ new.sig.of = req[r].sig.of /\ new.sig.by = req[r].sig.by /\ new.sig.ans = ans
  BY <1>t, <1>a, <1>b DEF Request, Signals
<1>f. \A x \in Sources : ans[x] = IF x = c THEN [kind |-> kind, seen |-> clock] ELSE req[r].sig.ans[x]
  BY <1>a DEF Answers
<1> HIDE DEF new, ans
<1>g. /\ req'[r] = new
      /\ \A q \in Requests : q # r => req'[q] = req[q]
  BY <1>d, <1>t
<1>1. TypeOK'
  BY <1>c, <1>d, <1>t DEF IInv, TypeOK
<1>2. IdleWhenStopped'
  BY <1>g, <1>e DEF IInv, IdleWhenStopped
<1>3. FetchInv'
  <2>1. req[r].age \in Nat /\ req[r].age <= FetchTimeout
    BY <1>t DEF IInv, FetchInv, Request
  <2>2. \A x \in Sources : ans[x].kind \notin {"absent", "pending"} => clock - ans[x].seen <= req[r].age
    BY <2>1, <1>f, <1>t DEF IInv, FetchInv
  <2> QED
    BY <1>e, <1>g, <2>1, <2>2 DEF IInv, FetchInv, Fetching
<1>4. (EntryInv(store) /\ EntryInv(disk))'
  BY DEF IInv, EntryInv
<1>5. OwnInv'
  BY <1>e, <1>g DEF IInv, OwnInv
<1>6. req'[r].phase = "fetching"
  BY <1>e, <1>g DEF Fetching
<1>7. BoundedStaleness' /\ OutageShortLived'
  BY <1>g, <1>6 DEF IInv, BoundedStaleness, OutageShortLived, Cached
<1> QED
  BY <1>1, <1>2, <1>3, <1>4, <1>5, <1>7 DEF IInv

LEMMA DeliverInv ==
  ASSUME IInv, NEW r \in Requests, NEW written \in BOOLEAN, Deliver(r, written)
  PROVE  IInv'
PROOF
<1> DEFINE ans == req[r].sig.ans
           d == req[r].dep
           k == KeyOf(d)
           sig == [req[r].sig EXCEPT !.ans = Concatenated(@)]
<1>t. /\ req \in [Requests -> Request] /\ clock \in Nat /\ binary \in Release
      /\ req[r] \in Request
      /\ req[r].sig \in Signals(Kinds) /\ ans \in Answers(Kinds) /\ d \in Packages
  BY CacheAssumption DEF IInv, TypeOK, Request, Signals, Release
<1>a. \A c \in Sources : ans[c].kind # "pending" /\ ans[c].kind \in Kinds /\ ans[c].seen \in Nat
  BY <1>t DEF Deliver, PendingOf, Answers
<1>b. /\ Concatenated(ans) \in Answers(Settled)
      /\ \A c \in Sources : /\ Concatenated(ans)[c].seen = ans[c].seen
                            /\ Concatenated(ans)[c].kind # "absent" => ans[c].kind # "absent"
  <2>1. ASSUME NEW c \in Sources
        PROVE  /\ Concatenated(ans)[c] \in [kind : Settled, seen : Nat]
               /\ Concatenated(ans)[c].seen = ans[c].seen
               /\ Concatenated(ans)[c].kind # "absent" => ans[c].kind # "absent"
    <3>1. ans[c] \in [kind : Kinds, seen : Nat]
      BY <1>t DEF Answers
    <3> QED
      BY <3>1, <1>a DEF Concatenated, Kinds, Settled
  <2> QED
    BY <2>1 DEF Answers, Concatenated
<1>c. /\ sig \in Signals(Settled) /\ sig.of = req[r].sig.of /\ sig.by = req[r].sig.by
      /\ sig.ans = Concatenated(ans)
  BY <1>t, <1>b DEF Signals
<1>o. sig.of = d /\ sig.by = binary
  BY <1>c DEF IInv, OwnInv, Deliver, Fetching
<1>k. k \in Keys /\ <<k[2], k[3]>> = d
  BY <1>t, KeyType
<1>e. /\ UNCHANGED <<clock, binary, armed, disk>>
      /\ \/ req' = [req EXCEPT ![r].phase = "failed"] /\ store' = store
         \/ /\ req' = [req EXCEPT ![r].phase = "fetched", ![r].sig = sig]
            /\ store' = IF written THEN With(store, k, Stamped(sig)) ELSE store
  BY DEF Deliver
<1> HIDE DEF sig, k, ans
<1>f. \A c \in Sources : sig.ans[c].kind # "absent" => clock - sig.ans[c].seen <= FetchTimeout
  <2> SUFFICES ASSUME NEW c \in Sources, sig.ans[c].kind # "absent"
               PROVE  clock - sig.ans[c].seen <= FetchTimeout
    OBVIOUS
  <2>a. ans[c].kind \notin {"absent", "pending"} /\ sig.ans[c].seen = ans[c].seen
    BY <1>a, <1>b, <1>c
  <2>1. clock - ans[c].seen <= req[r].age /\ req[r].age <= FetchTimeout
    BY <2>a DEF IInv, FetchInv, Deliver, Fetching, ans
  <2>2. sig.ans[c].seen = ans[c].seen /\ ans[c].seen \in Nat
    BY <2>a, <1>a
  <2>3. req[r].age \in Nat
    BY <1>t DEF Request
  <2> QED
    BY <2>1, <2>2, <2>3, <1>t, CacheAssumption
<1> DEFINE new == req'[r]
<1>g. /\ \A q \in Requests : q # r => req'[q] = req[q]
      /\ new \in Request /\ req' \in [Requests -> Request]
      /\ \/ new.phase = "failed"
         \/ new.phase = "fetched" /\ new.dep = d /\ new.sig = sig
  <2>1. CASE req' = [req EXCEPT ![r].phase = "failed"]
    BY <2>1, <1>t DEF Request
  <2>2. CASE req' = [req EXCEPT ![r].phase = "fetched", ![r].sig = sig]
    BY <2>2, <1>t, <1>c, SettledIsKind DEF Request
  <2> QED
    BY <1>e, <2>1, <2>2
<1> HIDE DEF new
<1>h. new = req'[r]
  BY DEF new
<1>s. /\ DOMAIN store' \subseteq DOMAIN store \cup {k}
      /\ \A x \in DOMAIN store' : (x \in DOMAIN store /\ store'[x] = store[x])
                                \/ (x = k /\ store'[x] = Stamped(sig))
  BY <1>e DEF With
<1>1. TypeOK'
  <2>1. Stamped(sig) \in Entry
    BY <1>t, <1>c DEF Stamped, Entry
  <2>2. DOMAIN store' \subseteq Keys
    BY <1>s, <1>k DEF IInv, TypeOK
  <2>3. \A x \in DOMAIN store' : store'[x] \in Entry
    BY <1>s, <2>1 DEF IInv, TypeOK
  <2> QED
    BY <1>e, <1>g, <2>2, <2>3 DEF IInv, TypeOK
<1>2. IdleWhenStopped'
  BY <1>e DEF IInv, IdleWhenStopped, Deliver, Fetching
<1>3. FetchInv'
  BY <1>e, <1>g, <1>h DEF IInv, FetchInv, Fetching
<1>4. EntryInv(store)' /\ EntryInv(disk)'
  <2>1. /\ Stamped(sig).signals = sig /\ Stamped(sig).stamp = binary
        /\ Stamped(sig).fetchedAt = clock
    BY DEF Stamped
  <2>2. EntryInv(store)'
    BY <1>s, <1>k, <1>o, <1>f, <2>1 DEF IInv, EntryInv
  <2> QED
    BY <2>2, <1>e DEF IInv, EntryInv
<1>5. OwnInv'
  BY <1>e, <1>g, <1>h, <1>o DEF IInv, OwnInv
<1>6. BoundedStaleness' /\ OutageShortLived'
  BY <1>g, <1>h DEF IInv, BoundedStaleness, OutageShortLived, Cached
<1> QED
  BY <1>1, <1>2, <1>3, <1>4, <1>5, <1>6 DEF IInv

\* A run that is over leaves the requests idle, whatever it left in the store.
LEMMA StoppedInv ==
  ASSUME IInv, req' = [r \in Requests |-> Idle], binary' = binary, clock' = clock, armed' = {},
         DOMAIN store' \subseteq Keys, \A k \in DOMAIN store' : store'[k] \in Entry, EntryInv(store)',
         disk' = store'
  PROVE  IInv'
PROOF
<1>1. req' \in [Requests -> Request] /\ \A r \in Requests : req'[r].phase = "idle"
  BY IdleType DEF Idle
<1>2. TypeOK'
  BY <1>1 DEF IInv, TypeOK
<1>3. EntryInv(disk)'
  BY DEF EntryInv
<1> QED
  BY <1>1, <1>2, <1>3
  DEF IInv, IdleWhenStopped, FetchInv, Fetching, OwnInv, BoundedStaleness, OutageShortLived, Cached

LEMMA EndRunInv == ASSUME IInv, EndRun PROVE IInv'
PROOF
<1> SUFFICES /\ DOMAIN store' \subseteq Keys
             /\ \A k \in DOMAIN store' : store'[k] \in Entry
             /\ EntryInv(store)'
             /\ disk' = store'
  BY StoppedInv DEF EndRun
<1> QED
  BY DEF EndRun, IInv, TypeOK, EntryInv

LEMMA CrashInv == ASSUME IInv, Crash PROVE IInv'
PROOF
<1>1. \A k \in DOMAIN store' : (k \in DOMAIN store /\ store'[k] = store[k])
                           \/ (k \in DOMAIN disk /\ store'[k] = disk[k])
  BY DEF Crash
<1>2. DOMAIN store' \subseteq Keys /\ \A k \in DOMAIN store' : store'[k] \in Entry
  BY <1>1 DEF IInv, TypeOK
<1>3. EntryInv(store)'
  BY <1>1 DEF IInv, EntryInv
<1> QED
  BY <1>2, <1>3, StoppedInv DEF Crash

LEMMA ClearInv == ASSUME IInv, Clear PROVE IInv'
PROOF
<1> USE DEF Clear
<1>1. DOMAIN store' = {} /\ DOMAIN disk' = {}
  OBVIOUS
<1>2. TypeOK' /\ EntryInv(store)' /\ EntryInv(disk)'
  BY <1>1 DEF IInv, TypeOK, EntryInv
<1>3. IdleWhenStopped' /\ FetchInv' /\ OwnInv' /\ BoundedStaleness' /\ OutageShortLived'
  BY DEF IInv, IdleWhenStopped, FetchInv, Fetching, OwnInv, BoundedStaleness, OutageShortLived, Cached
<1> QED
  BY <1>2, <1>3 DEF IInv

LEMMA InstallInv ==
  ASSUME IInv, NEW b \in Binaries, Install(b)
  PROVE  IInv'
PROOF
<1> USE DEF Install
<1>1. \A r \in Requests : req[r].phase = "idle" /\ req'[r].phase = "idle"
  BY DEF IInv, IdleWhenStopped
<1>2. TypeOK'
  BY DEF IInv, TypeOK
<1>3. EntryInv(store)' /\ EntryInv(disk)'
  BY DEF IInv, EntryInv
<1> QED
  BY <1>1, <1>2, <1>3
  DEF IInv, IdleWhenStopped, FetchInv, Fetching, OwnInv, BoundedStaleness, OutageShortLived, Cached

\* The wall clock moves by at most a tick per tick of the requests' age.
LEMMA TickInv == ASSUME IInv, Tick PROVE IInv'
PROOF
<1> USE DEF Tick
<1>t. clock \in Nat /\ clock' = clock + 1 /\ req \in [Requests -> Request]
  BY DEF IInv, TypeOK
<1>1. ASSUME NEW r \in Requests
      PROVE  /\ req'[r] \in Request
             /\ req'[r].phase = req[r].phase /\ req'[r].dep = req[r].dep
             /\ req'[r].sig = req[r].sig /\ req'[r].asked = req[r].asked
             /\ Fetching(r) => req'[r].age = req[r].age + 1 /\ req[r].age < FetchTimeout
             /\ req[r].age \in Nat
  <2>1. req[r] \in Request
    BY <1>t
  <2>2. CASE Fetching(r)
    BY <2>1, <2>2 DEF Request
  <2>3. CASE ~Fetching(r)
    BY <2>1, <2>3 DEF Request
  <2> QED
    BY <2>2, <2>3
<1>2. TypeOK'
  <2>1. req' \in [Requests -> Request]
    BY <1>1
  <2> QED
    BY <2>1, <1>t DEF IInv, TypeOK
<1>3. FetchInv'
  <2> SUFFICES ASSUME NEW r \in Requests, Fetching(r)'
               PROVE  /\ req'[r].age <= FetchTimeout
                      /\ \A c \in Sources :
                           req'[r].sig.ans[c].kind \notin {"absent", "pending"} =>
                             clock' - req'[r].sig.ans[c].seen <= req'[r].age
    BY DEF FetchInv
  <2>1. Fetching(r)
    BY <1>1 DEF Fetching
  <2>a. req'[r].age = req[r].age + 1 /\ req[r].age < FetchTimeout /\ req[r].age \in Nat
    BY <2>1, <1>1
  <2>2. req'[r].age <= FetchTimeout
    BY <2>a, CacheAssumption
  <2>3. ASSUME NEW c \in Sources, req[r].sig.ans[c].kind \notin {"absent", "pending"}
        PROVE  clock' - req[r].sig.ans[c].seen <= req[r].age + 1
    <3>1. clock - req[r].sig.ans[c].seen <= req[r].age
      BY <2>1, <2>3 DEF IInv, FetchInv
    <3>2. req[r].sig.ans[c].seen \in Nat
      BY <1>t DEF Request, Signals, Answers
    <3> QED
      BY <3>1, <3>2, <2>a, <1>t
  <2> QED
    BY <2>1, <2>2, <2>3, <1>1
<1>4. IdleWhenStopped' /\ OwnInv' /\ BoundedStaleness' /\ OutageShortLived'
  BY <1>1 DEF IInv, IdleWhenStopped, OwnInv, BoundedStaleness, OutageShortLived, Cached
<1>5. EntryInv(store)' /\ EntryInv(disk)'
  BY DEF IInv, EntryInv
<1> QED
  BY <1>2, <1>3, <1>4, <1>5 DEF IInv

LEMMA SetBackInv ==
  ASSUME IInv, NEW skew \in Skews, SetBack(skew)
  PROVE  IInv'
PROOF
<1> USE DEF SetBack
<1>1. clock \in Nat /\ clock' \in Nat /\ clock' <= clock
  BY CacheAssumption DEF IInv, TypeOK
<1>2. TypeOK'
  BY <1>1 DEF IInv, TypeOK
<1>3. FetchInv'
  <2> SUFFICES ASSUME NEW r \in Requests, Fetching(r), NEW c \in Sources,
                      req[r].sig.ans[c].kind \notin {"absent", "pending"}
               PROVE  clock' - req[r].sig.ans[c].seen <= req[r].age
    BY DEF IInv, FetchInv, Fetching
  <2>1. clock - req[r].sig.ans[c].seen <= req[r].age
    BY DEF IInv, FetchInv
  <2>2. req[r].sig.ans[c].seen \in Nat /\ req[r].age \in Nat
    BY DEF IInv, TypeOK, Request, Signals, Answers
  <2> QED
    BY <2>1, <2>2, <1>1
<1>4. (IdleWhenStopped /\ OwnInv /\ BoundedStaleness /\ OutageShortLived)'
  BY DEF IInv, IdleWhenStopped, OwnInv, BoundedStaleness, OutageShortLived, Cached
<1>5. (EntryInv(store) /\ EntryInv(disk))'
  BY DEF IInv, EntryInv
<1> QED
  BY <1>2, <1>3, <1>4, <1>5 DEF IInv

LEMMA StutterInv == ASSUME IInv, UNCHANGED vars PROVE IInv'
PROOF BY DEF vars, IInv, TypeOK, IdleWhenStopped, FetchInv, Fetching, EntryInv, OwnInv,
             BoundedStaleness, OutageShortLived, Cached

-----------------------------------------------------------------------------
\* The strengthened invariant holds in every behaviour.
THEOREM Invariance == Spec => []IInv
PROOF
<1>1. Init => IInv
  BY InitInv
<1>2. IInv /\ [Next]_vars => IInv'
  <2> SUFFICES ASSUME IInv, [Next]_vars PROVE IInv'
    OBVIOUS
  <2>1. ASSUME NEW cs \in SUBSET Sources, StartRun(cs) PROVE IInv'
    BY <2>1, StartRunInv
  <2>2. ASSUME NEW r \in Requests, NEW d \in Packages, Ask(r, d) PROVE IInv'
    BY <2>2, AskInv
  <2>3. ASSUME NEW r \in Requests, NEW c \in Sources, NEW kind \in Outcomes, Resolve(r, c, kind)
        PROVE  IInv'
    BY <2>3, ResolveInv
  <2>4. ASSUME NEW r \in Requests, NEW written \in BOOLEAN, Deliver(r, written) PROVE IInv'
    BY <2>4, DeliverInv
  <2>5. CASE EndRun
    BY <2>5, EndRunInv
  <2>6. CASE Crash
    BY <2>6, CrashInv
  <2>7. CASE Clear
    BY <2>7, ClearInv
  <2>8. ASSUME NEW b \in Binaries, Install(b) PROVE IInv'
    BY <2>8, InstallInv
  <2>9. CASE Tick
    BY <2>9, TickInv
  <2>10. ASSUME NEW skew \in Skews, SetBack(skew) PROVE IInv'
    BY <2>10, SetBackInv
  <2>11. CASE UNCHANGED vars
    BY <2>11, StutterInv
  <2> QED
    BY <2>1, <2>2, <2>3, <2>4, <2>5, <2>6, <2>7, <2>8, <2>9, <2>10, <2>11 DEF Next
<1> QED
  BY <1>1, <1>2, PTL DEF Spec

\* The type invariant: in particular no entry of the store, flushed or not, ever
\* holds a child's error or an answer that was still pending.
THEOREM TypeCorrect == Spec => []TypeOK
PROOF BY Invariance, PTL DEF IInv

\* No request is ever served the signals of another package or of another
\* release (the key of cache_key, the stamp get_with_age compares).
THEOREM NeverForeignSignals == Spec => []OwnSignals
PROOF
<1>1. IInv => OwnSignals
  BY DEF IInv, OwnInv, OwnSignals, Served
<1> QED
  BY <1>1, Invariance, PTL

\* The success TTL plus one fan-out bounds the age of whatever the cache serves,
\* although the stamp of an entry is the time of its put.
THEOREM NeverOverdue == Spec => []BoundedStaleness
PROOF BY Invariance, PTL DEF IInv

\* The failure TTL plus one fan-out bounds how long a total outage is served.
THEOREM OutageNeverPinned == Spec => []OutageShortLived
PROOF BY Invariance, PTL DEF IInv

-----------------------------------------------------------------------------
(***************************************************************************)
(* The cache implements SignalMemory.                                      *)
(***************************************************************************)
Kept == Memory(store) \cup Memory(disk)
Given == [r \in Requests |-> Answer(r)]
Stack == IF armed = {} THEN {} ELSE {ProviderId(armed)}

\* A tree without new entries is remembered in part.
LEMMA MemoryOfPart ==
  ASSUME NEW s, NEW M,
         \A k \in DOMAIN s : [stack |-> k[1], at |-> s[k].fetchedAt, sig |-> s[k].signals] \in M
  PROVE  Memory(s) \subseteq M
PROOF BY DEF Memory

LEMMA Remembered ==
  ASSUME NEW s, NEW k \in DOMAIN s
  PROVE  [stack |-> k[1], at |-> s[k].fetchedAt, sig |-> s[k].signals] \in Memory(s)
PROOF BY DEF Memory

\* What becomes of the memory when each tree has only entries either had.
LEMMA Forgotten ==
  ASSUME \A k \in DOMAIN store' : \/ k \in DOMAIN store /\ store'[k] = store[k]
                                  \/ k \in DOMAIN disk /\ store'[k] = disk[k],
         \A k \in DOMAIN disk' : \/ k \in DOMAIN store /\ disk'[k] = store[k]
                                 \/ k \in DOMAIN disk /\ disk'[k] = disk[k]
  PROVE  Kept' \subseteq Kept
PROOF
<1>1. \A k \in DOMAIN store' :
        [stack |-> k[1], at |-> store'[k].fetchedAt, sig |-> store'[k].signals] \in Kept
  BY Remembered DEF Kept
<1>2. \A k \in DOMAIN disk' :
        [stack |-> k[1], at |-> disk'[k].fetchedAt, sig |-> disk'[k].signals] \in Kept
  BY Remembered DEF Kept
<1>3. Memory(store') \subseteq Kept /\ Memory(disk') \subseteq Kept
  BY <1>1, <1>2, MemoryOfPart
<1>4. Kept' = Memory(store') \cup Memory(disk')
  BY DEF Kept, Memory
<1> QED
  BY <1>3, <1>4

\* A request has the answer it was served, or none.
LEMMA AnswerIs ==
  ASSUME NEW r \in Requests
  PROVE  /\ Served(r) => Answer(r) = {[to |-> req[r].dep, sig |-> req[r].sig]}
         /\ ~Served(r) => Answer(r) = {}
PROOF BY DEF Answer

LEMMA OneAnswer ==
  ASSUME NEW r \in Requests, \A q \in Requests : q # r => req'[q] = req[q]
  PROVE  Given' = [Given EXCEPT ![r] = Answer(r)']
PROOF
<1>1. ASSUME NEW q \in Requests, q # r PROVE Answer(q)' = Answer(q)
  BY <1>1 DEF Answer, Served
<1> QED
  BY <1>1 DEF Given

LEMMA SameAnswers ==
  ASSUME \A r \in Requests : /\ req'[r].phase = req[r].phase
                             /\ req'[r].dep = req[r].dep
                             /\ ~Fetching(r) => req'[r].sig = req[r].sig
  PROVE  Given' = Given
PROOF
<1>1. ASSUME NEW r \in Requests PROVE Answer(r)' = Answer(r)
  <2>1. Served(r)' <=> Served(r)
    BY DEF Served
  <2>2. CASE Served(r)
    <3>1. req'[r].sig = req[r].sig /\ req'[r].dep = req[r].dep
      BY <2>2 DEF Served, Fetching
    <3> QED
      BY <2>1, <2>2, <3>1 DEF Answer
  <2>3. CASE ~Served(r)
    BY <2>1, <2>3 DEF Answer
  <2> QED
    BY <2>2, <2>3
<1> QED
  BY <1>1 DEF Given

LEMMA NoAnswers ==
  ASSUME \A r \in Requests : ~Served(r)
  PROVE  Given = [r \in Requests |-> {}]
PROOF BY AnswerIs DEF Given

LEMMA SameTtl == ASSUME NEW ans PROVE Recollection!Ttl(ans) = TtlOf(ans)
PROOF BY DEF Recollection!Ttl, Recollection!Outage, TtlOf, AllUnavailable

LEMMA MemoryInit == Init => Recollection!Init
PROOF
<1> SUFFICES ASSUME Init PROVE Recollection!Init
  OBVIOUS
<1> USE DEF Init
<1>1. PICK K \in SUBSET LegacyKeys, readable \in BOOLEAN, schema \in {1, binary.schema} :
        store = [k \in K |-> LegacyEntry(k, readable, schema)]
  OBVIOUS
<1>2. ASSUME NEW m \in Memory(store) PROVE m.sig.by \notin Binaries
  <2>1. PICK k \in K : m.sig = LegacyEntry(k, readable, schema).signals
    BY <1>1 DEF Memory
  <2>2. m.sig.by.tool = Unstamped
    BY <2>1 DEF LegacyEntry
  <2> QED
    BY <2>2, CacheAssumption
<1>3. \A r \in Requests : ~Served(r)
  BY DEF Served, Idle
<1>4. Given = [r \in Requests |-> {}] /\ Kept = Memory(store) /\ Stack = {}
  BY <1>3, NoAnswers DEF Kept, Stack
<1> QED
  BY <1>2, <1>4 DEF Recollection!Init, Given, Kept, Stack

\* The variables of SignalMemory, as the mapping gives them.
Recalled == <<clock, binary, Stack, Kept, Given>>

LEMMA StartRunStep ==
  ASSUME NEW cs \in SUBSET Sources, StartRun(cs)
  PROVE  Recollection!Start
PROOF
<1> USE DEF StartRun
<1>1. Stack = {} /\ Stack' = {ProviderId(armed')} /\ ProviderId(armed') \in Ids
  BY DEF Stack, ProviderId, Ids
<1>2. Kept' = Kept
  BY DEF Kept, Memory
<1>3. Given' = Given
  BY SameAnswers
<1> QED
  BY <1>1, <1>2, <1>3 DEF Recollection!Start, Stack, Kept, Given

\* A lookup answers from the memory or finds nothing it may use; it drops an
\* entry it cannot read.
LEMMA AskStep ==
  ASSUME IInv, NEW r \in Requests, NEW d \in Packages, Ask(r, d)
  PROVE  Recollection!Ask(r) \/ Recollection!Recall(r, d)
PROOF
<1> USE DEF Ask
<1> DEFINE k == KeyOf(d)
<1>k. k[1] = ProviderId(armed) /\ <<k[2], k[3]>> = d
  BY KeyType DEF KeyOf, CacheKey
<1> HIDE DEF k
<1>1. Kept' \subseteq Kept
  <2>1. /\ DOMAIN store' \subseteq DOMAIN store
        /\ \A x \in DOMAIN store' : store'[x] = store[x]
    BY DEF AfterLookup, Without
  <2> QED
    BY <2>1, Forgotten
<1>2. Stack = {ProviderId(armed)} /\ Stack' = Stack
  BY DEF Stack
<1>3. Given' = [Given EXCEPT ![r] = Answer(r)']
  <2>1. \A q \in Requests : q # r => req'[q] = req[q]
    BY DEF IInv, TypeOK
  <2> QED
    BY <2>1, OneAnswer
<1>4. CASE Hit(d)
  <2> DEFINE e == store[k]
             m == [stack |-> k[1], at |-> e.fetchedAt, sig |-> e.signals]
  <2>1. /\ k \in DOMAIN store /\ e.stamp = binary
        /\ e.fetchedAt <= clock /\ clock - e.fetchedAt < TtlOf(e.signals.ans)
    BY <1>4 DEF Hit, Readable, Fresh, k
  <2>2. m \in Kept
    BY <2>1, Remembered DEF Kept
  <2>3. m.sig.of = d /\ m.sig.by = binary
    BY <2>1, <1>k DEF IInv, EntryInv
  <2>4. req'[r] = [phase |-> "cached", dep |-> d, asked |-> clock, age |-> 0, sig |-> e.signals]
    BY <1>4 DEF IInv, TypeOK, k
  <2>5. Answer(r)' = {[to |-> d, sig |-> m.sig]}
    BY <2>4 DEF Answer, Served
  <2>6. Stack = {m.stack} /\ m.at <= clock /\ clock - m.at < Recollection!Ttl(m.sig.ans)
    BY <2>1, <1>2, <1>k, SameTtl
  <2> HIDE DEF m
  <2>7. Recollection!Recall(r, d)
    BY <2>2, <2>3, <2>5, <2>6, <1>1, <1>2, <1>3
    DEF Recollection!Recall, Recollection!Forget, Stack, Kept, Given
  <2> QED
    BY <2>7
<1>5. CASE ~Hit(d)
  <2>1. req'[r].phase = "fetching"
    BY <1>5 DEF IInv, TypeOK
  <2>2. Answer(r)' = {}
    BY <2>1 DEF Answer, Served
  <2>3. Recollection!Ask(r)
    BY <2>2, <1>1, <1>2, <1>3 DEF Recollection!Ask, Recollection!Forget, Stack, Kept, Given
  <2> QED
    BY <2>3
<1> QED
  BY <1>4, <1>5

\* A source that answers gives nobody an answer yet.
LEMMA ResolveStep ==
  ASSUME IInv, NEW r \in Requests, NEW c \in Sources, NEW kind \in Outcomes, Resolve(r, c, kind)
  PROVE  UNCHANGED Recalled
PROOF
<1> USE DEF Resolve
<1>1. ASSUME NEW q \in Requests
      PROVE  /\ req'[q].phase = req[q].phase /\ req'[q].dep = req[q].dep
             /\ ~Fetching(q) => req'[q].sig = req[q].sig
  <2>1. req[r] \in Request /\ req \in [Requests -> Request]
    BY DEF IInv, TypeOK
  <2>2. CASE q = r
    BY <2>1, <2>2 DEF Request
  <2>3. CASE q # r
    BY <2>1, <2>3
  <2> QED
    BY <2>2, <2>3
<1>2. Given' = Given
  BY <1>1, SameAnswers
<1>3. Kept' = Kept /\ Stack' = Stack
  BY DEF Kept, Memory, Stack
<1> QED
  BY <1>2, <1>3 DEF Recalled

\* What a request has when its sources have answered, none of them as an error.
LEMMA Delivered ==
  ASSUME IInv, NEW r \in Requests, NEW written \in BOOLEAN, Deliver(r, written),
         ~Failed(req[r].sig.ans)
  PROVE  /\ req'[r].phase = "fetched" /\ req'[r].dep = req[r].dep
         /\ req'[r].sig.of = req[r].dep /\ req'[r].sig.by = binary
         /\ Recollection!JustSaid(req'[r].sig.ans)
         /\ store' \in {store, With(store, KeyOf(req[r].dep), Stamped(req'[r].sig))}
PROOF
<1> USE DEF Deliver
<1> DEFINE ans == req[r].sig.ans
           sig == [req[r].sig EXCEPT !.ans = Concatenated(@)]
<1>t. /\ req \in [Requests -> Request] /\ req[r] \in Request /\ clock \in Nat
      /\ req[r].sig \in Signals(Kinds) /\ ans \in Answers(Kinds) /\ req[r].age \in Nat
  BY DEF IInv, TypeOK, Request, Signals
<1>1. sig.of = req[r].dep /\ sig.by = binary /\ sig.ans = Concatenated(ans)
  BY <1>t DEF IInv, OwnInv, Fetching, Signals
<1>2. ASSUME NEW c \in Sources
      PROVE  /\ Concatenated(ans)[c].kind \in Settled
             /\ Concatenated(ans)[c].kind # "absent" => clock - Concatenated(ans)[c].seen <= FetchTimeout
  <2>1. ans[c] \in [kind : Kinds, seen : Nat] /\ ans[c].kind # "pending"
    BY <1>t DEF Answers, PendingOf
  <2>2. /\ Concatenated(ans)[c].seen = ans[c].seen
        /\ Concatenated(ans)[c].kind \in Settled
        /\ Concatenated(ans)[c].kind # "absent" => ans[c].kind \notin {"absent", "pending"}
    BY <2>1 DEF Concatenated, Kinds, Settled
  <2>3. ans[c].kind \notin {"absent", "pending"} => clock - ans[c].seen <= req[r].age
    BY DEF IInv, FetchInv
  <2>4. req[r].age <= FetchTimeout
    BY DEF IInv, FetchInv
  <2>5. ASSUME Concatenated(ans)[c].kind # "absent"
        PROVE  clock - Concatenated(ans)[c].seen <= FetchTimeout
    <3>1. clock - ans[c].seen <= req[r].age /\ ans[c].seen \in Nat
      BY <2>1, <2>2, <2>3, <2>5
    <3> QED
      BY <3>1, <2>2, <2>4, <1>t, CacheAssumption
  <2> QED
    BY <2>2, <2>5
<1>3. Recollection!JustSaid(sig.ans)
  BY <1>1, <1>2 DEF Recollection!JustSaid
<1> HIDE DEF sig
<1>4. /\ req' = [req EXCEPT ![r].phase = "fetched", ![r].sig = sig]
      /\ store' = IF written THEN With(store, KeyOf(req[r].dep), Stamped(sig)) ELSE store
  BY DEF sig
<1>5. req'[r].phase = "fetched" /\ req'[r].dep = req[r].dep /\ req'[r].sig = sig
  BY <1>t, <1>4 DEF Request
<1> QED
  BY <1>1, <1>3, <1>4, <1>5

\* The fresh answer is given, and kept unless the put fails; an error is no answer.
LEMMA DeliverStep ==
  ASSUME IInv, NEW r \in Requests, NEW written \in BOOLEAN, Deliver(r, written)
  PROVE  Recollection!Reply(r, req[r].dep) \/ UNCHANGED Recalled
PROOF
<1> USE DEF Deliver
<1> DEFINE d == req[r].dep
<1>t. req \in [Requests -> Request] /\ req[r] \in Request /\ d \in Packages
  BY DEF IInv, TypeOK, Request
<1>1. Stack = {ProviderId(armed)} /\ Stack' = Stack
  BY DEF IInv, IdleWhenStopped, Fetching, Stack
<1>2. \A q \in Requests : q # r => req'[q] = req[q]
  BY <1>t
<1>3. CASE Failed(req[r].sig.ans)
  <2>1. req' = [req EXCEPT ![r].phase = "failed"] /\ store' = store
    BY <1>3
  <2>2. Answer(r)' = Answer(r)
    BY <2>1, <1>t DEF Answer, Served, Fetching, Request
  <2>3. Given' = Given
    BY <2>2, <1>2, OneAnswer DEF Given
  <2>4. Kept' = Kept
    BY <2>1 DEF Kept, Memory
  <2> QED
    BY <2>3, <2>4, <1>1 DEF Recalled
<1>4. CASE ~Failed(req[r].sig.ans)
  <2> DEFINE sig == req'[r].sig
             k == KeyOf(d)
             a == [to |-> d, sig |-> sig]
             m == [stack |-> ProviderId(armed), at |-> clock, sig |-> sig]
  <2>1. /\ req'[r].phase = "fetched" /\ req'[r].dep = d
        /\ sig.of = d /\ sig.by = binary /\ Recollection!JustSaid(sig.ans)
        /\ store' \in {store, With(store, k, Stamped(sig))}
    BY <1>4, Delivered
  <2>2. Answer(r)' = {a}
    BY <2>1 DEF Answer, Served
  <2>3. Given' = [Given EXCEPT ![r] = {a}] /\ a \in Given'[r]
    BY <2>2, <1>2, OneAnswer DEF Given
  <2> HIDE DEF sig
  <2>4. ASSUME NEW x \in DOMAIN store'
        PROVE  [stack |-> x[1], at |-> store'[x].fetchedAt, sig |-> store'[x].signals] \in Kept \cup {m}
    <3>1. CASE x \in DOMAIN store /\ store'[x] = store[x]
      BY <3>1, Remembered DEF Kept
    <3>2. CASE x = k /\ store'[x] = Stamped(sig)
      BY <3>2 DEF KeyOf, CacheKey, Stamped
    <3> QED
      BY <2>1, <3>1, <3>2 DEF With
  <2>5. Memory(store') \subseteq Kept \cup {m}
    BY <2>4, MemoryOfPart
  <2>6. Kept' \subseteq Kept \cup {m}
    <3>1. Kept' = Memory(store') \cup Memory(disk)
      BY DEF Kept, Memory
    <3> QED
      BY <3>1, <2>5 DEF Kept
  <2> HIDE DEF m, a
  <2>7. a.to = d /\ a.sig = sig /\ m = [stack |-> ProviderId(armed), at |-> clock, sig |-> a.sig]
    BY DEF a, m
  <2>8. Recollection!Reply(r, d)
    BY <2>1, <2>3, <2>6, <2>7, <1>1 DEF Recollection!Reply, Stack, Kept, Given
  <2> QED
    BY <2>8
<1> QED
  BY <1>3, <1>4

\* However a run ends, its answers are gone, and the trees have only what either
\* had.
LEMMA StopStep ==
  ASSUME armed # {}, armed' = {}, UNCHANGED <<clock, binary>>, req' = [r \in Requests |-> Idle],
         Kept' \subseteq Kept
  PROVE  Recollection!Stop
PROOF
<1>1. \A r \in Requests : ~Served(r)'
  BY DEF Served, Idle
<1>2. Given' = [r \in Requests |-> {}]
  BY <1>1 DEF Given, Answer
<1>3. Stack # {} /\ Stack' = {}
  BY DEF Stack
<1> QED
  BY <1>2, <1>3 DEF Recollection!Stop, Recollection!Forget, Stack, Kept, Given

LEMMA EndRunStep == ASSUME EndRun PROVE Recollection!Stop
PROOF
<1>1. Kept' \subseteq Kept
  BY Forgotten DEF EndRun
<1> QED
  BY <1>1, StopStep DEF EndRun

LEMMA CrashStep == ASSUME Crash PROVE Recollection!Stop
PROOF
<1>1. \A k \in DOMAIN store' : \/ k \in DOMAIN store /\ store'[k] = store[k]
                               \/ k \in DOMAIN disk /\ store'[k] = disk[k]
  BY DEF Crash
<1>2. Kept' \subseteq Kept
  BY <1>1, Forgotten DEF Crash
<1> QED
  BY <1>2, StopStep DEF Crash

LEMMA BetweenStep ==
  ASSUME IInv, Clear \/ \E b \in Binaries : Install(b)
  PROVE  Recollection!Between
PROOF
<1>1. armed = {} /\ Stack = {} /\ Stack' = {} /\ clock' = clock /\ req' = req /\ binary' \in Binaries
  BY DEF Clear, Install, Stack, IInv, TypeOK
<1>2. Given' = Given
  BY <1>1, SameAnswers
<1>3. Kept' \subseteq Kept
  BY Forgotten DEF Clear, Install
<1> QED
  BY <1>1, <1>2, <1>3 DEF Recollection!Between, Recollection!Forget, Stack, Kept, Given

\* A flush brings the disk up to date with the tree, and whatever the clock does
\* changes no answer.
LEMMA TurnStep ==
  ASSUME IInv, Tick \/ \E skew \in Skews : SetBack(skew)
  PROVE  Recollection!Turn
PROOF
<1>1. clock' \in Nat /\ binary' = binary /\ Stack' = Stack
  <2>1. CASE Tick
    BY <2>1 DEF Tick, IInv, TypeOK, Stack
  <2>2. ASSUME NEW skew \in Skews, SetBack(skew) PROVE clock' \in Nat
    BY <2>2, CacheAssumption DEF SetBack, IInv, TypeOK
  <2>3. CASE \E skew \in Skews : SetBack(skew)
    BY <2>2, <2>3 DEF SetBack, Stack
  <2> QED
    BY <2>1, <2>3
<1>2. Given' = Given
  <2>1. ASSUME NEW r \in Requests
        PROVE  /\ req'[r].phase = req[r].phase /\ req'[r].dep = req[r].dep
               /\ ~Fetching(r) => req'[r].sig = req[r].sig
    <3>1. req[r] \in Request
      BY DEF IInv, TypeOK
    <3> QED
      BY <3>1 DEF Tick, SetBack, Request
  <2> QED
    BY <2>1, SameAnswers
<1>3. Kept' \subseteq Kept
  BY Forgotten DEF Tick, SetBack
<1> QED
  BY <1>1, <1>2, <1>3 DEF Recollection!Turn, Recollection!Forget, Stack, Kept, Given

\* What the cache serves is what the sources once said of that package to that
\* release, in one piece and in time: every step of CachedProvider, of the store
\* and of the world around them is a step of SignalMemory or invisible to it.
THEOREM RemembersNothingElse == Spec => RemembersOnly
PROOF
<1>1. Init => Recollection!Init
  BY MemoryInit
<1>2. IInv /\ [Next]_vars => [Recollection!Next]_Recalled
  <2> SUFFICES ASSUME IInv, [Next]_vars PROVE [Recollection!Next]_Recalled
    OBVIOUS
  <2> USE DEF Recollection!Next
  <2>1. ASSUME NEW cs \in SUBSET Sources, StartRun(cs) PROVE Recollection!Next
    BY <2>1, StartRunStep
  <2>2. ASSUME NEW r \in Requests, NEW d \in Packages, Ask(r, d) PROVE Recollection!Next
    BY <2>2, AskStep
  <2>3. ASSUME NEW r \in Requests, NEW c \in Sources, NEW kind \in Outcomes, Resolve(r, c, kind)
        PROVE  UNCHANGED Recalled
    BY <2>3, ResolveStep
  <2>4. ASSUME NEW r \in Requests, NEW written \in BOOLEAN, Deliver(r, written)
        PROVE  [Recollection!Next]_Recalled
    <3>1. req[r].dep \in Packages
      BY DEF IInv, TypeOK, Request
    <3> QED
      BY <2>4, <3>1, DeliverStep
  <2>5. CASE EndRun \/ Crash
    BY <2>5, EndRunStep, CrashStep
  <2>6. CASE Clear \/ \E b \in Binaries : Install(b)
    BY <2>6, BetweenStep
  <2>7. CASE Tick \/ \E skew \in Skews : SetBack(skew)
    BY <2>7, TurnStep
  <2>8. CASE UNCHANGED vars
    BY <2>8, SameAnswers DEF vars, Recalled, Kept, Memory, Stack
  <2> QED
    BY <2>1, <2>2, <2>3, <2>4, <2>5, <2>6, <2>7, <2>8 DEF Next
<1>3. [Recollection!Next]_Recalled
      <=> [Recollection!Next]_<<clock, binary, Stack, Kept, Given>>
  BY DEF Recalled
<1> QED
  BY <1>1, <1>2, <1>3, Invariance, PTL
  DEF Spec, RemembersOnly, Recollection!Spec, Recalled, Stack, Kept, Given
=============================================================================
