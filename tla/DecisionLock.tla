---------------------------- MODULE DecisionLock ----------------------------
(***************************************************************************)
(* `installguard.lock`: the commands that write it (`lock`), compare it    *)
(* with a fresh evaluation (`verify`) and take its decisions in place of   *)
(* one (`--frozen`), in crates/cli/src/main.rs and crates/core/src/        *)
(* lockfile.rs.                                                            *)
(*                                                                         *)
(* A command reads the files of the project one after the other; they may  *)
(* be edited in between.  The package manager's lockfile is abstracted to  *)
(* the set of packages it resolves to and the policy to the few settings   *)
(* below.  SHA-256 digests are equal only for equal contents, so a digest  *)
(* is the content itself.                                                  *)
(*                                                                         *)
(* The evaluation asks for the signals of one package after the other,     *)
(* while the world goes on, and some answers come from a cache.  Of the    *)
(* signals, the publication date and whether there is an advisory are      *)
(* modelled; providers that fail are in Evaluation and SignalCache.        *)
(***************************************************************************)
EXTENDS Integers, FiniteSets

CONSTANTS
  Packages,
  FirstParty,    \* workspace members: no signals, always allowed
  Published,     \* Published[p]: when package p was published
  AdapterId,     \* the id of the adapter that parses the lockfile
  Trees, Rules,  \* what the lockfile and the policy file may contain
  Racing,        \* whether files are edited while a command runs
  CacheAge,      \* how old an answer from the cache may be; 0 is no cache
  MaxNow,        \* bound: how far the clock goes
  Missing, Torn  \* no lock file, one that a crash cut off

ASSUME LockAssumption ==
  /\ FirstParty \subseteq Packages
  /\ \A p \in Packages : Published[p] \in Int /\ Published[p] <= 0
  /\ AdapterId \in {"npm", "pnpm", "yarn", "pypi"}
  /\ Trees \subseteq SUBSET Packages
  /\ Rules \subseteq [age : Nat, advisory : {"warn", "block"}]
  /\ Racing \in BOOLEAN /\ CacheAge \in Nat /\ MaxNow \in Nat

VARIABLES
  tree,   \* the lockfile of the package manager
  rules,  \* installguard.yaml
  known,  \* known[p]: when an advisory about package p was published, if one was
  now,
  lock,   \* installguard.lock
  cmd     \* the running command

vars == <<tree, rules, known, now, lock, cmd>>

-----------------------------------------------------------------------------
Reasons == [code : {"release-age", "advisory"}, observed : Nat]
Decisions == [verdict : {"allow", "warn", "block"}, reasons : SUBSET Reasons,
              kinds : SUBSET {"published_at", "advisory_known"}]

\* A frozen command knows the adapter by its id, and only npm's, pnpm's and yarn's.
FrozenAdapter(id) == IF id \in {"npm", "pnpm", "yarn"} THEN id ELSE "frozen"

Locks == [adapter : {AdapterId, FrozenAdapter(AdapterId)}, lockfile : Trees, policy : Rules,
          decisions : UNION {[t -> Decisions] : t \in Trees}]

ASSUME NoLockAssumption == {Missing, Torn} \cap Locks = {}

\* Whether the providers' answer about package p at tick m may be that there is an
\* advisory (told), or that there is none.  At the tick of its publication it may
\* be either.
Said(p, m, told) ==
  IF told THEN p \in DOMAIN known /\ known[p] <= m
  ELSE p \in DOMAIN known => m <= known[p]

\* The signals of a package of which the providers said so, and what the policy makes
\* of them at tick `at`.  The release-age reason carries the age it observed.
Kinds(p, told) ==
  IF p \in FirstParty THEN {}
  ELSE {"published_at"} \cup (IF told THEN {"advisory_known"} ELSE {})

Found(ru, p, told, at) ==
  {[code |-> "release-age", observed |-> at - Published[p]] :
     x \in {y \in {p} \ FirstParty : at - Published[y] < ru.age}}
  \cup {[code |-> "advisory", observed |-> 0] : x \in {y \in {p} \ FirstParty : told}}

Verdict(ru, found) ==
  CASE \E r \in found : r.code = "release-age" \/ ru.advisory = "block" -> "block"
    [] found = {} -> "allow"
    [] OTHER -> "warn"

Decide(ru, p, told, at) ==
  [verdict |-> Verdict(ru, Found(ru, p, told, at)), reasons |-> Found(ru, p, told, at),
   kinds |-> Kinds(p, told)]

\* Defect: the reasons are not replayed.
ReplayedVerdict(d) == [d EXCEPT !.kinds = {}, !.reasons = {}]

\* A frozen evaluation has the recorded verdict and reasons, but no signals.
Replayed(d) == [d EXCEPT !.kinds = {}]

\* Defect: the decisions are left out of the digest.
DigestOfInputs(l) == <<l.adapter, l.lockfile, l.policy, DOMAIN l.decisions>>

\* Every field of a lock enters its digest, except the time it was generated,
\* which is not modelled.
Digest(l) == l

\* verify_against, without the lines that say what has changed.
SameLock(new, prior) == Digest(new) = Digest(prior)

-----------------------------------------------------------------------------
\* op: the command; at: what it does next; began: when it started; prior: the lock it
\* read; asked, told: the packages the providers have answered about, and those of
\* which they said that there is an advisory; new: the lock it builds.  A command
\* that is over keeps its exit status.
Ops == {"lock", "verify", "scan"}
Places == {"prior", "policy", "parse", "bytes", "gather", "conclude", "write", "over"}

First(op, frozen) == IF frozen \/ op = "verify" THEN "prior" ELSE "policy"

\* Whether a file may change now.
Quiet == Racing \/ cmd.at = "over"

Init ==
  /\ tree \in Trees
  /\ rules \in Rules
  /\ known = [p \in {} |-> 0]
  /\ now = 0
  /\ lock = Missing
  /\ cmd = [op |-> "scan", frozen |-> FALSE, at |-> "over", began |-> 0, prior |-> Missing,
            policy |-> rules, parsed |-> tree, bytes |-> tree, asked |-> {}, told |-> {},
            new |-> Missing, exit |-> 0]

Run(op, frozen) ==
  /\ cmd.at = "over"
  /\ op = "scan" => frozen
  /\ cmd' = [op |-> op, frozen |-> frozen, at |-> First(op, frozen), began |-> now,
             prior |-> Missing, policy |-> rules, parsed |-> tree, bytes |-> tree,
             asked |-> {}, told |-> {}, new |-> Missing, exit |-> 0]
  /\ UNCHANGED <<tree, rules, known, now, lock>>

Step(at, c) == cmd.at = at /\ cmd' = c /\ UNCHANGED <<tree, rules, known, now>>

Fail(status) == [cmd EXCEPT !.at = "over", !.asked = {}, !.told = {}, !.exit = status]

\* A lock that is missing or does not parse ends the command with status 2.
\* `verify --frozen` reads it twice, here and for the evaluation.
ReadPrior ==
  /\ Step("prior", IF lock \in {Missing, Torn} THEN Fail(2)
                   ELSE [cmd EXCEPT !.prior = lock, !.at = IF cmd.frozen THEN "bytes" ELSE "policy"])
  /\ UNCHANGED lock

\* The frozen evaluation checks the bytes of the lockfile, then the policy.
ReadPolicy ==
  /\ Step("policy",
          IF cmd.frozen /\ rules # cmd.prior.policy THEN Fail(2)
          ELSE [cmd EXCEPT !.policy = rules, !.at = IF cmd.frozen THEN "gather" ELSE "parse"])
  /\ UNCHANGED lock

Parse == Step("parse", [cmd EXCEPT !.parsed = tree, !.at = "bytes"]) /\ UNCHANGED lock

\* Defect: the recorded digest of the lockfile is not compared.
ReadBytesUnchecked ==
  /\ Step("bytes", [cmd EXCEPT !.bytes = tree, !.at = IF cmd.frozen THEN "policy" ELSE "gather"])
  /\ UNCHANGED lock

\* The lockfile is read once more, for its digest.
ReadBytes ==
  /\ Step("bytes",
          IF cmd.frozen /\ tree # cmd.prior.lockfile THEN Fail(2)
          ELSE [cmd EXCEPT !.bytes = tree, !.at = IF cmd.frozen THEN "policy" ELSE "gather"])
  /\ UNCHANGED lock

\* Defect: whatever is in the cache is taken, however old it is.
CollectStale(p) ==
  /\ ~cmd.frozen /\ p \in cmd.parsed \ (FirstParty \cup cmd.asked)
  /\ \E m \in 0 .. now, told \in BOOLEAN :
       /\ Said(p, m, told)
       /\ Step("gather", [cmd EXCEPT !.asked = @ \cup {p}, !.told = IF told THEN @ \cup {p} ELSE @])
  /\ UNCHANGED lock

\* gather_signals: the providers answer about one package, now or from the cache.
\* In which order the answers come is Gather's.
Collect(p) ==
  /\ ~cmd.frozen /\ p \in cmd.parsed \ (FirstParty \cup cmd.asked)
  /\ \E m \in now - CacheAge .. now, told \in BOOLEAN :
       /\ Said(p, m, told)
       /\ Step("gather", [cmd EXCEPT !.asked = @ \cup {p}, !.told = IF told THEN @ \cup {p} ELSE @])
  /\ UNCHANGED lock

\* When all have answered the clock is read and every package is decided on; a frozen
\* command asks nobody.  build_lock makes a lock of the decisions.
Judge ==
  /\ cmd.frozen \/ cmd.parsed \ FirstParty \subseteq cmd.asked
  /\ Step("gather",
       [cmd EXCEPT !.at = "conclude", !.asked = {}, !.told = {}, !.new =
          [adapter |-> IF cmd.frozen THEN FrozenAdapter(cmd.prior.adapter) ELSE AdapterId,
           lockfile |-> cmd.bytes,
           policy |-> cmd.policy,
           decisions |-> IF cmd.frozen
                         THEN [p \in DOMAIN cmd.prior.decisions |-> Replayed(cmd.prior.decisions[p])]
                         ELSE [p \in cmd.parsed |-> Decide(cmd.policy, p, p \in cmd.told, now)]]])
  /\ UNCHANGED lock

\* `lock` truncates the file and then writes it; `verify` compares digests; a
\* frozen `scan` or `ci` exits by the verdicts.
Conclude ==
  \/ cmd.op = "lock" /\ Step("conclude", [cmd EXCEPT !.at = "write"]) /\ lock' = Torn
  \/ /\ cmd.op = "verify"
     /\ Step("conclude", Fail(IF SameLock(cmd.new, cmd.prior) THEN 0 ELSE 1))
     /\ UNCHANGED lock
  \/ /\ cmd.op = "scan"
     /\ Step("conclude", Fail(IF \E p \in DOMAIN cmd.new.decisions : cmd.new.decisions[p].verdict = "block"
                              THEN 1 ELSE 0))
     /\ UNCHANGED lock

Write == Step("write", Fail(0)) /\ lock' = cmd.new

\* The process dies; the lock stays as it is, cut off if it was being written.
Crash == cmd.at # "over" /\ cmd' = Fail(2) /\ UNCHANGED <<tree, rules, known, now, lock>>

Install(t) == Quiet /\ tree' = t /\ UNCHANGED <<rules, known, now, lock, cmd>>
EditPolicy(r) == Quiet /\ rules' = r /\ UNCHANGED <<tree, known, now, lock, cmd>>

\* An advisory about a package is published.
Disclose(p) ==
  /\ p \notin DOMAIN known
  /\ known' = [q \in DOMAIN known \cup {p} |-> IF q = p THEN now ELSE known[q]]
  /\ UNCHANGED <<tree, rules, now, lock, cmd>>

Tick == now < MaxNow /\ now' = now + 1 /\ UNCHANGED <<tree, rules, known, lock, cmd>>

Next ==
  \/ \E op \in Ops, frozen \in BOOLEAN : Run(op, frozen)
  \/ ReadPrior \/ ReadPolicy \/ Parse \/ ReadBytes
  \/ \E p \in Packages : Collect(p)
  \/ Judge \/ Conclude \/ Write
  \/ Crash
  \/ \E t \in Trees : Install(t)
  \/ \E r \in Rules : EditPolicy(r)
  \/ \E p \in Packages \ FirstParty : Disclose(p)
  \/ Tick

Spec == Init /\ [][Next]_vars
-----------------------------------------------------------------------------
TypeOK ==
  /\ tree \in Trees /\ rules \in Rules /\ now \in 0 .. MaxNow
  /\ DOMAIN known \subseteq Packages \ FirstParty
  /\ \A p \in DOMAIN known : known[p] \in 0 .. now
  /\ lock \in {Missing, Torn} \cup Locks
  /\ cmd.op \in Ops /\ cmd.frozen \in BOOLEAN /\ cmd.at \in Places /\ cmd.exit \in 0 .. 2
  /\ cmd.began \in 0 .. now /\ cmd.asked \subseteq cmd.parsed \ FirstParty
  /\ cmd.told \subseteq cmd.asked
  /\ cmd.policy \in Rules /\ cmd.parsed \in Trees /\ cmd.bytes \in Trees
  /\ cmd.prior \in {Missing} \cup Locks
  /\ cmd.new \in {Missing} \cup Locks

Ended(op, frozen) == cmd.at = "over" /\ cmd.op = op /\ cmd.frozen = frozen

\* A `verify` that says OK found the recorded verdicts, and the reasons for
\* them, still to be the ones the policy reaches today.
VerifyOkMeansSameDecisions ==
  Ended("verify", FALSE) /\ cmd.exit = 0 /\ cmd.new # Missing =>
    \A p \in cmd.parsed :
      /\ p \in DOMAIN cmd.prior.decisions
      /\ cmd.prior.decisions[p].verdict = cmd.new.decisions[p].verdict
      /\ cmd.prior.decisions[p].reasons = cmd.new.decisions[p].reasons

\* A frozen `scan` or `ci` that ends with a verdict has decided on every package
\* of the lockfile it found, each decision one the policy it found stands for:
\* what was recorded, perhaps long ago, is about this project.
FrozenDecidesThisProject ==
  Ended("scan", TRUE) /\ cmd.new # Missing /\ cmd.exit # 2 =>
    \A p \in cmd.bytes :
      /\ p \in DOMAIN cmd.new.decisions
      /\ LET d == cmd.new.decisions[p] IN d.verdict = Verdict(cmd.policy, d.reasons)

\* Locking again from the lock, however often, changes no verdict, no reason
\* and nothing the next frozen run checks.
FrozenRelockKeepsDecisions ==
  [][ cmd.at = "write" /\ cmd.frozen /\ lock' # Torn =>
        /\ lock'.lockfile = cmd.prior.lockfile /\ lock'.policy = cmd.prior.policy
        /\ DOMAIN lock'.decisions = DOMAIN cmd.prior.decisions
        /\ \A p \in DOMAIN cmd.prior.decisions :
             /\ lock'.decisions[p].verdict = cmd.prior.decisions[p].verdict
             /\ lock'.decisions[p].reasons = cmd.prior.decisions[p].reasons ]_vars

-----------------------------------------------------------------------------
\* What is decided on a package of which the providers said so, at each tick.
Judgements ==
  [ru \in Rules |-> [p \in Packages |-> [told \in BOOLEAN |->
     [at \in 0 .. MaxNow |-> Decide(ru, p, told, at)]]]]

\* A command has looked when it has judged.
Phase ==
  CASE cmd.at = "over" -> "over"
    [] cmd.at \in {"conclude", "write"} -> "looked"
    [] OTHER -> "running"

\* A lock is recorded when its file is opened for writing: a command that dies from
\* then on loses it.
OnRecord == IF cmd.at = "write" THEN cmd.new ELSE lock

Atomic == INSTANCE AtomicCommands WITH
  Judged <- Judgements, FrozenId <- FrozenAdapter(AdapterId),
  lock <- OnRecord, phase <- Phase, op <- cmd.op, began <- cmd.began, result <- cmd.new,
  exit <- cmd.exit

\* When its project is at rest while it runs, every command does what one does that
\* looks at the project's files and at the clock at one moment, and has for each
\* package an answer that was right at some moment since the command began, or up to
\* CacheAge before: in whatever order it reads and is answered, and whatever comes to
\* light, ages or dies meanwhile.  `verify` then says OK exactly if what it would
\* record is what is recorded.
CommandsAreAtomic == Atomic!Spec
=============================================================================
