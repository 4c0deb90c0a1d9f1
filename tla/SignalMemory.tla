---------------------------- MODULE SignalMemory ----------------------------
(***************************************************************************)
(* What the cache promises to who asks for a package's signals: an answer  *)
(* comes from the sources, just now, or is recalled as it was once given.  *)
(* The memory may lose anything at any time; whatever else happens between *)
(* two questions (runs that end or die, other releases over the same       *)
(* directory, a clock that is set back), it never gains, changes or mixes  *)
(* up anything.  How it is kept is left to the implementation.             *)
(***************************************************************************)
EXTENDS Integers

CONSTANTS
  Packages, Sources, Requests,
  Stacks,      \* the provider stacks a run may have
  Releases,    \* the releases that get installed
  Kinds,       \* what a source may have said in the end
  SuccessTtl, FailureTtl, FetchTimeout

VARIABLES
  clock,
  release,
  stack,   \* of the run that is on: one, or {} between runs
  kept,    \* the memory: a set of [stack, at, sig], sig being [of, by, ans]
  served   \* per request, its answer [to, sig]: one, or {} while it has none

Outage(ans) ==
  /\ \E c \in Sources : ans[c].kind = "unavailable"
  /\ \A c \in Sources : ans[c].kind # "signals"

Ttl(ans) == IF Outage(ans) THEN FailureTtl ELSE SuccessTtl

\* Nobody's answer is still open or older than one fan-out takes.
JustSaid(ans) ==
  \A c \in Sources :
    /\ ans[c].kind \in Kinds
    /\ ans[c].kind # "absent" => clock - ans[c].seen <= FetchTimeout

\* The memory loses what it likes.
Forget == kept' \subseteq kept

Init ==
  /\ stack = {} /\ served = [r \in Requests |-> {}]
  /\ release \in Releases
  /\ \A m \in kept : m.sig.by \notin Releases

Start ==
  /\ stack = {} /\ \E s \in Stacks : stack' = {s}
  /\ UNCHANGED <<clock, release, kept, served>>

\* A question that the memory does not answer.
Ask(r) ==
  stack # {} /\ served' = [served EXCEPT ![r] = {}] /\ Forget /\ UNCHANGED <<clock, release, stack>>

\* One that it does: with what this release was told of this package by such a
\* stack, less than its TTL ago.
Recall(r, d) ==
  /\ \E m \in kept :
       /\ stack = {m.stack} /\ m.sig.of = d /\ m.sig.by = release
       /\ m.at <= clock /\ clock - m.at < Ttl(m.sig.ans)
       /\ served' = [served EXCEPT ![r] = {[to |-> d, sig |-> m.sig]}]
  /\ Forget
  /\ UNCHANGED <<clock, release, stack>>

\* The sources have answered; the memory may keep it.
Reply(r, d) ==
  /\ \E s \in stack, a \in served'[r] :
       /\ a.to = d /\ a.sig.of = d /\ a.sig.by = release /\ JustSaid(a.sig.ans)
       /\ served' = [served EXCEPT ![r] = {a}]
       /\ kept' \subseteq kept \cup {[stack |-> s, at |-> clock, sig |-> a.sig]}
  /\ UNCHANGED <<clock, release, stack>>

\* The run ends or dies.
Stop ==
  /\ stack # {} /\ stack' = {}
  /\ served' = [r \in Requests |-> {}] /\ Forget
  /\ UNCHANGED <<clock, release>>

\* Between runs the memory may be cleared and another release installed.
Between == stack = {} /\ Forget /\ release' \in Releases /\ UNCHANGED <<clock, stack, served>>

\* Time passes, or the clock is set back.
Turn == clock' \in Nat /\ Forget /\ UNCHANGED <<release, stack, served>>

Next ==
  \/ Start
  \/ \E r \in Requests : Ask(r)
  \/ \E r \in Requests, d \in Packages : Recall(r, d) \/ Reply(r, d)
  \/ Stop \/ Between \/ Turn

Spec == Init /\ [][Next]_<<clock, release, stack, kept, served>>
=============================================================================
