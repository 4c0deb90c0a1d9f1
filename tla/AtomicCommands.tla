---------------------------- MODULE AtomicCommands ----------------------------
(***************************************************************************)
(* What `lock`, `verify` and the frozen commands promise to who lets the   *)
(* project's files alone while they run: a command looks at the project,   *)
(* its policy, its lock and the clock at one moment, and what it then says *)
(* or records is about that moment.  Of the packages it knows what the     *)
(* world said at some moment of its run, or as long before as answers are  *)
(* kept, a moment of its own for each package.  In how many reads it looks *)
(* and in which order it is answered is left to the implementation.        *)
(***************************************************************************)
EXTENDS Integers

CONSTANTS
  AdapterId,
  FrozenId,      \* what becomes of the adapter's id in a lock that is replayed
  Judged,        \* Judged[rules][p][told][at]: the decision on package p
  CacheAge,      \* how long an answer is kept
  Missing, Torn  \* no lock, one that a crash cut off

VARIABLES
  tree,    \* the packages of the lockfile
  rules,   \* the policy
  known,   \* known[p]: when an advisory about package p was published, if one was
  now,
  lock,    \* [adapter, lockfile, policy, decisions], Missing or Torn
  phase,   \* of the last command: "running", "looked" or "over"
  op,      \* which one it is
  began,   \* when it began
  result,  \* the lock it goes by, once it has looked
  exit     \* its exit status

project == <<tree, rules, known, now>>
command == <<phase, op, began, result, exit>>

Init == lock = Missing /\ phase = "over"

Begin ==
  /\ phase = "over" /\ phase' = "running"
  /\ op' \in {"lock", "verify", "scan"} /\ began' = now /\ result' = Missing /\ exit' = 0
  /\ UNCHANGED <<project, lock>>

\* Whether "there is an advisory about p" (told), or "there is none", is right at
\* tick m.  Both are at the tick of its publication.
Right(p, m, told) ==
  IF told THEN p \in DOMAIN known /\ known[p] <= m
  ELSE p \in DOMAIN known => m <= known[p]

\* What is told of the packages, each at a moment of its own.
Heard(told) == \A p \in tree : \E m \in began - CacheAge .. now : Right(p, m, p \in told)

\* A lock that is replayed keeps its verdicts and reasons; the kinds of signals, which
\* are in its digest, are gone.
Replay(l) ==
  [adapter |-> FrozenId, lockfile |-> l.lockfile, policy |-> l.policy,
   decisions |-> [p \in DOMAIN l.decisions |-> [l.decisions[p] EXCEPT !.kinds = {}]]]

\* The command looks.  A frozen one goes by the lock, which has to be about the
\* lockfile and the policy that are there.
Look(frozen) ==
  /\ phase = "running" /\ phase' = "looked"
  /\ op = "verify" \/ frozen => lock \notin {Missing, Torn}
  /\ IF frozen
     THEN lock.lockfile = tree /\ lock.policy = rules /\ result' = Replay(lock)
     ELSE \E told \in SUBSET tree :
            /\ Heard(told)
            /\ result' = [adapter |-> AdapterId, lockfile |-> tree, policy |-> rules,
                          decisions |-> [p \in tree |-> Judged[rules][p][(p \in told)][now]]]
  /\ UNCHANGED <<project, lock, op, began, exit>>

End(status) == phase' = "over" /\ exit' = status /\ UNCHANGED <<project, op, began, result>>

Record ==
  phase = "looked" /\ op = "lock" /\ lock' = result /\ UNCHANGED <<project, command>>

Recorded == phase = "looked" /\ op = "lock" /\ lock = result /\ End(0) /\ UNCHANGED lock

\* `verify` says OK exactly if what it sees is what is recorded, so always of a project
\* about which nothing has changed; a frozen one never sees the kinds of signals.
Compare ==
  /\ phase = "looked" /\ op = "verify"
  /\ End(IF lock = result THEN 0 ELSE 1)
  /\ UNCHANGED lock

Gate ==
  /\ phase = "looked" /\ op = "scan"
  /\ End(IF \E p \in DOMAIN result.decisions : result.decisions[p].verdict = "block" THEN 1 ELSE 0)
  /\ UNCHANGED lock

\* The command gives up or dies.  Only a lock that it was writing may be lost.
Refuse ==
  /\ phase # "over" /\ End(2)
  /\ \/ UNCHANGED lock
     \/ phase = "looked" /\ op = "lock" /\ lock = result /\ lock' = Torn

\* The project is edited between commands; an advisory comes out and the clock
\* advances at any time.
Edit == phase = "over" /\ UNCHANGED <<known, now, lock, command>>
Turn == UNCHANGED <<tree, rules, lock, command>>

Next ==
  \/ Begin
  \/ \E frozen \in BOOLEAN : Look(frozen)
  \/ Record \/ Recorded \/ Compare \/ Gate \/ Refuse
  \/ Edit \/ Turn

Spec == Init /\ [][Next]_<<project, lock, command>>
=============================================================================
