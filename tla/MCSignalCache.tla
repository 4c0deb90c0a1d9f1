---------------------------- MODULE MCSignalCache ----------------------------
(***************************************************************************)
(* Instances of SignalCache for TLC.                                       *)
(***************************************************************************)
EXTENDS SignalCache, TLC

CONSTANTS npm, pypi,            \* registry families
          npmreg, pypireg, osv, \* child providers
          v1, v2                \* tool versions

\* One registry, two sources that serve it.
MCServesOne == [c \in Sources |-> {npm}]
MCOneRelease == {[schema |-> 2, tool |-> v1]}

\* An npm package: the PyPI registry has nothing on it.
MCServesNpm == npmreg :> {npm} @@ pypireg :> {} @@ osv :> {npm}
MCServesBoth == npmreg :> {npm} @@ osv :> {npm, pypi}
MCTwoReleases == {[schema |-> 2, tool |-> v1], [schema |-> 2, tool |-> v2]}

\* Request slots are interchangeable.
MCSymmetry == Permutations(Requests)

MCLegacy == {<<"composite", npm, "p">>}

-----------------------------------------------------------------------------
\* The run `cache` explores two parts of the state space, which meet in the states
\* that belong to both.  In one, two requests for a package overlap in runs of
\* one release over one source, and the clock moves.
Overlapping ==
  /\ binary.tool = v1
  /\ armed \subseteq {npmreg}
  /\ DOMAIN store \subseteq {CacheKey("npm-registry", <<npm, "p">>)}
  /\ \A r \in Requests :
       req[r] # Idle => /\ Family(req[r].dep) = npm
                        /\ req[r].sig.ans[npmreg].kind # "error"

\* An entry of the first two ticks that was written when it was fetched.
AtOnce(e) ==
  /\ e.fetchedAt <= 1
  /\ \A c \in Sources : e.signals.ans[c].kind # "absent" => e.signals.ans[c].seen = e.fetchedAt

\* In the other, requests do not overlap while releases are installed over each
\* other's store and over one an older release left.
Installing ==
  /\ clock <= 1
  /\ \A k \in DOMAIN store : AtOnce(store[k])
  /\ \A k \in DOMAIN disk : AtOnce(disk[k])
  /\ Cardinality({r \in Requests : req[r] # Idle}) <= 1
  /\ \A r \in Requests :
       Fetching(r) => /\ req[r].age = 0
                      /\ \A c \in Sources : req[r].sig.ans[c].kind # "unavailable"

InScope == Overlapping \/ Installing
=============================================================================
