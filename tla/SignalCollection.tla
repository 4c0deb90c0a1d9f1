--------------------------- MODULE SignalCollection ---------------------------
(***************************************************************************)
(* What signal collection promises to the evaluation that follows it: each *)
(* dependency of the lockfile gets one set of signals, its own, once and   *)
(* for all, in whatever order the answers come in, and the collection ends *)
(* only when every dependency has its set.  How many requests are open at  *)
(* a time, and in which order, is left to the implementation.              *)
(***************************************************************************)
CONSTANTS
  Deps,       \* positions in the list of dependencies
  Answers,    \* Answers[d]: what may be collected for a dependency
  None        \* nothing yet

VARIABLES
  collected,  \* per dependency, its signals or None
  closed      \* the collection was handed over

Init == collected = [d \in Deps |-> None] /\ closed = FALSE

Collect(d) ==
  /\ ~closed
  /\ collected[d] = None
  /\ \E a \in Answers[d] : collected' = [collected EXCEPT ![d] = a]
  /\ UNCHANGED closed

Close ==
  /\ ~closed
  /\ \A d \in Deps : collected[d] # None
  /\ closed' = TRUE
  /\ UNCHANGED collected

Next == Close \/ \E d \in Deps : Collect(d)

Spec == Init /\ [][Next]_<<collected, closed>>
=============================================================================
