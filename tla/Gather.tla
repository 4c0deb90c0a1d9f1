-------------------------------- MODULE Gather --------------------------------
(***************************************************************************)
(* `gather_signals` (crates/cli/src/main.rs): the bounded-concurrency loop *)
(* that collects the signals of every dependency of the lockfile.          *)
(*                                                                         *)
(* The loop is one task.  It fills its set of futures up to the limit,     *)
(* takes the result of whichever is ready first, and goes round.           *)
(***************************************************************************)
EXTENDS Integers, FiniteSets

CONSTANTS
  N,            \* deps.len()
  Limits,       \* what --concurrency may be, 0 included
  Workspace,    \* positions of first-party packages
  Supported,    \* positions the provider supports
  Values,       \* what the provider may say of a package
  Failure,      \* the Signal::Unavailable list an Err becomes
  Nothing       \* the empty list

Deps == 1 .. N

ASSUME GatherAssumption ==
  /\ N \in Nat /\ Limits \subseteq Nat
  /\ Workspace \subseteq Deps /\ Supported \subseteq Deps
  /\ Failure \notin Values /\ Nothing \notin Values /\ Failure # Nothing

VARIABLES
  concurrency,  \* the argument, which stays
  pc,           \* "fill", "await", "done"
  next,         \* the next position to start
  inFlight,     \* positions whose future is held
  results,      \* the result slots, defaults included
  progress      \* the counter of the progress indicator

vars == <<concurrency, pc, next, inFlight, results, progress>>

\* Defect: the limit as given.
LimitAsGiven == concurrency

\* `concurrency.max(1)`.
Limit == IF concurrency = 0 THEN 1 ELSE concurrency

\* What is said of dependency d, so that results can be told apart by owner.
Said(d, v) == [of |-> d, what |-> v]
Default == Said(0, Nothing)
Asked(d) == d \notin Workspace /\ d \in Supported

\* Who may be answered what: the provider's own words (an Err among them) when
\* it is asked, nothing when it is not.
AnswersTo(d) == {Said(d, v) : v \in IF Asked(d) THEN Values \cup {Nothing, Failure}
                                               ELSE {Nothing}}

Init ==
  /\ concurrency \in Limits
  /\ pc = "fill"
  /\ next = 1
  /\ inFlight = {}
  /\ results = [d \in Deps |-> Default]
  /\ progress = 0

\* Defect: one future too many.
StartOneMore ==
  /\ pc = "fill"
  /\ Cardinality(inFlight) <= Limit
  /\ next <= N
  /\ inFlight' = inFlight \cup {next}
  /\ next' = next + 1
  /\ UNCHANGED <<concurrency, pc, results, progress>>

\* The inner loop: one more future.
Start ==
  /\ pc = "fill"
  /\ Cardinality(inFlight) < Limit
  /\ next <= N
  /\ inFlight' = inFlight \cup {next}
  /\ next' = next + 1
  /\ UNCHANGED <<concurrency, pc, results, progress>>

\* Defect: the loop ends when the last future was started.
EndFillEarly ==
  /\ pc = "fill"
  /\ Cardinality(inFlight) >= Limit \/ next > N
  /\ pc' = IF next > N THEN "done" ELSE IF inFlight # {} THEN "await" ELSE "fill"
  /\ UNCHANGED <<concurrency, next, inFlight, results, progress>>

\* The inner loop is over: await a result, or leave, or go round again.
EndFill ==
  /\ pc = "fill"
  /\ Cardinality(inFlight) >= Limit \/ next > N
  /\ pc' = IF inFlight # {} THEN "await" ELSE IF next > N THEN "done" ELSE "fill"
  /\ UNCHANGED <<concurrency, next, inFlight, results, progress>>

\* Defect: results are stored in the order they arrive.
TakeInOrder(d) ==
  /\ pc = "await"
  /\ d \in inFlight
  /\ \E a \in AnswersTo(d) : results' = [results EXCEPT ![progress + 1] = a]
  /\ inFlight' = inFlight \ {d}
  /\ progress' = progress + 1
  /\ pc' = "fill"
  /\ UNCHANGED <<concurrency, next>>

\* Defect: an Err leaves the slot as it was.
TakeUnlessFailed(d) ==
  /\ pc = "await"
  /\ d \in inFlight
  /\ \E a \in AnswersTo(d) : results' = [results EXCEPT ![d] = IF a.what = Failure THEN @ ELSE a]
  /\ inFlight' = inFlight \ {d}
  /\ progress' = progress + 1
  /\ pc' = "fill"
  /\ UNCHANGED <<concurrency, next>>

\* in_flight.next() yields the result of any future, in no order.
Take(d) ==
  /\ pc = "await"
  /\ d \in inFlight
  /\ \E a \in AnswersTo(d) : results' = [results EXCEPT ![d] = a]
  /\ inFlight' = inFlight \ {d}
  /\ progress' = progress + 1
  /\ pc' = "fill"
  /\ UNCHANGED <<concurrency, next>>

Next ==
  \/ Start
  \/ EndFill
  \/ \E d \in Deps : Take(d)

Spec == Init /\ [][Next]_vars
-----------------------------------------------------------------------------
TypeOK ==
  /\ concurrency \in Limits
  /\ pc \in {"fill", "await", "done"}
  /\ next \in 1 .. N + 1
  /\ inFlight \subseteq 1 .. next - 1
  /\ results \in [Deps -> {Default} \cup UNION {AnswersTo(d) : d \in Deps}]
  /\ progress \in 0 .. N

\* Never more futures than --concurrency allows, 0 counting as 1: the registries
\* are not flooded however slow the answers are.
BoundedConcurrency == Cardinality(inFlight) <= Limit

\* Every slot holds its own dependency's signals or is still its default, and
\* the default ones are exactly those not yet taken: an answer that comes late
\* or out of order never lands in another dependency's slot.
OwnSlot ==
  \A d \in Deps :
    IF d < next /\ d \notin inFlight THEN results[d] \in AnswersTo(d) ELSE results[d] = Default

\* The counter the indicator shows is the number of slots filled.
ProgressCounts == progress = Cardinality({d \in Deps : results[d] # Default})

\* The promise of SignalCollection: the filled slots are what is collected, and
\* leaving the loop hands them over.
Collection == INSTANCE SignalCollection WITH
  Answers <- [d \in Deps |-> AnswersTo(d)], None <- Default,
  collected <- results, closed <- pc = "done"

Collects == Collection!Spec
=============================================================================
