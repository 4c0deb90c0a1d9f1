---------------------------- MODULE RecordsProofs ----------------------------
(***************************************************************************)
(* Proofs about what runs leave on disk, the lock (DecisionLock) and the   *)
(* audit log (AuditLog), which share no state. For any packages, lockfiles *)
(* and policies, any length of time and any order of commands, edits and   *)
(* crashes: one inductive invariant carries what is said of the lock; only *)
(* that a lock's decisions are those of the lockfile it has the digest of  *)
(* needs files that are at rest while a command runs. For any number of    *)
(* runs with any number of records, of any size, through a buffer of any   *)
(* size: whoever dies, each run's part of the log is the beginning of what *)
(* it had to say, and a run that fits in its buffer is written in one      *)
(* piece.                                                                  *)
(***************************************************************************)
EXTENDS DecisionLock, AuditLog, FiniteSetTheorems, TLAPS

-----------------------------------------------------------------------------
\* The lock.

\* Each recorded verdict is the one its policy reaches from the recorded reasons.
Whole(l) ==
  /\ l \in Locks
  /\ \A p \in DOMAIN l.decisions : l.decisions[p].verdict = Verdict(l.policy, l.decisions[p].reasons)
  /\ ~Racing => DOMAIN l.decisions = l.lockfile

CmdFields ==
  DOMAIN cmd = {"op", "frozen", "at", "began", "prior", "policy", "parsed", "bytes",
                "asked", "told", "new", "exit"}

\* What a command knows of the lock it started from.
PriorInv ==
  /\ cmd.prior # Missing => Whole(cmd.prior)
  /\ cmd.at \notin {"prior", "over"} /\ (cmd.frozen \/ cmd.op = "verify") => Whole(cmd.prior)
  /\ cmd.at \in {"policy", "gather", "conclude", "write"} /\ cmd.frozen =>
       cmd.bytes = cmd.prior.lockfile
  /\ cmd.at \in {"gather", "conclude", "write"} /\ cmd.frozen => cmd.policy = cmd.prior.policy

\* Files at rest are read alike.
ReadInv ==
  ~Racing /\ ~cmd.frozen => /\ cmd.at \in {"bytes", "gather"} => cmd.parsed = tree
                            /\ cmd.at = "gather" => cmd.bytes = cmd.parsed

Built == cmd.at \in {"conclude", "write"} \/ cmd.new # Missing

\* What a command knows of the lock it builds.
NewInv ==
  /\ cmd.at \in {"prior", "policy", "parse", "bytes", "gather"} => cmd.new = Missing
  /\ Built => /\ Whole(cmd.new)
              /\ cmd.new.lockfile = cmd.bytes /\ cmd.new.policy = cmd.policy
              /\ ~cmd.frozen => DOMAIN cmd.new.decisions = cmd.parsed
  /\ cmd.at \in {"conclude", "write"} /\ cmd.frozen =>
       /\ DOMAIN cmd.new.decisions = DOMAIN cmd.prior.decisions
       /\ \A p \in DOMAIN cmd.prior.decisions :
            /\ cmd.new.decisions[p].verdict = cmd.prior.decisions[p].verdict
            /\ cmd.new.decisions[p].reasons = cmd.prior.decisions[p].reasons

\* The places of each command, and how it ends.
PlaceInv ==
  /\ cmd.at = "write" => lock = Torn /\ cmd.op = "lock"
  /\ cmd.op = "scan" => cmd.frozen \/ cmd.at = "over"
  /\ cmd.at \in {"parse"} => ~cmd.frozen
  /\ cmd.at = "over" /\ cmd.op = "verify" /\ cmd.exit = 0 /\ cmd.new # Missing =>
       cmd.new = cmd.prior

\* Whom a command has asked is of interest until it judges.
AskedInv == cmd.at # "gather" => cmd.asked = {} /\ cmd.told = {}

IInv ==
  /\ TypeOK /\ CmdFields /\ AskedInv
  /\ lock \notin {Missing, Torn} => Whole(lock)
  /\ PriorInv /\ ReadInv /\ NewInv /\ PlaceInv

-----------------------------------------------------------------------------
\* A verdict is one of three, and what is decided is a decision.
LEMMA DecideType ==
  ASSUME NEW ru \in Rules, NEW p \in Packages, NEW told \in BOOLEAN, NEW at \in Nat
  PROVE  /\ Decide(ru, p, told, at) \in Decisions
         /\ Decide(ru, p, told, at).verdict = Verdict(ru, Decide(ru, p, told, at).reasons)
PROOF
<1>1. Found(ru, p, told, at) \in SUBSET Reasons
  BY LockAssumption DEF Found, Reasons
<1>2. Verdict(ru, Found(ru, p, told, at)) \in {"allow", "warn", "block"}
  BY DEF Verdict
<1>3. Kinds(p, told) \in SUBSET {"published_at", "advisory_known"}
  BY DEF Kinds
<1> QED
  BY <1>1, <1>2, <1>3 DEF Decide, Decisions

\* A decision that is replayed is one with the same verdict and reasons.
LEMMA ReplayedType ==
  ASSUME NEW d \in Decisions
  PROVE  /\ Replayed(d) \in Decisions
         /\ Replayed(d).verdict = d.verdict /\ Replayed(d).reasons = d.reasons
PROOF BY DEF Replayed, Decisions

LEMMA InitInv == Init => IInv
PROOF
<1> SUFFICES ASSUME Init PROVE IInv
  OBVIOUS
<1> USE DEF Init
<1>1. TypeOK /\ CmdFields /\ AskedInv
  BY LockAssumption DEF TypeOK, CmdFields, AskedInv, Ops, Places
<1>2. PriorInv /\ ReadInv /\ NewInv /\ PlaceInv
  BY DEF PriorInv, ReadInv, NewInv, PlaceInv, Built
<1> QED
  BY <1>1, <1>2 DEF IInv

\* A command begins.
LEMMA RunInv ==
  ASSUME IInv, NEW op \in Ops, NEW frozen \in BOOLEAN, Run(op, frozen)
  PROVE  IInv'
PROOF
<1> USE DEF IInv, Run
<1>1. cmd'.at \in {"prior", "policy"} /\ (cmd'.at = "policy" => ~frozen /\ op # "verify")
  BY DEF First
<1>2. TypeOK' /\ CmdFields' /\ AskedInv'
  BY <1>1 DEF TypeOK, CmdFields, AskedInv, Ops, Places, Locks
<1>3. (lock \notin {Missing, Torn} => Whole(lock))'
  BY DEF Whole, Locks
<1>4. PriorInv' /\ ReadInv' /\ NewInv' /\ PlaceInv'
  BY <1>1 DEF PriorInv, ReadInv, NewInv, PlaceInv, Built
<1> QED
  BY <1>2, <1>3, <1>4

\* The lock is read, or the command ends without it.
LEMMA ReadPriorInv == ASSUME IInv, ReadPrior PROVE IInv'
PROOF
<1> USE DEF IInv, ReadPrior, Step, Fail
<1>1. /\ cmd'.op = cmd.op /\ cmd'.frozen = cmd.frozen /\ cmd'.new = Missing
      /\ \/ cmd'.at = "over" /\ cmd'.exit = 2 /\ cmd'.prior = cmd.prior
         \/ /\ cmd'.at \in {"bytes", "policy"} /\ cmd'.prior = lock /\ lock \notin {Missing, Torn}
            /\ cmd'.at = "policy" <=> ~cmd.frozen
  BY DEF CmdFields, NewInv
<1>2. TypeOK' /\ CmdFields' /\ AskedInv'
  BY <1>1 DEF TypeOK, CmdFields, AskedInv, Ops, Places, Locks
<1>3. (lock \notin {Missing, Torn} => Whole(lock))' /\ (cmd.prior # Missing => Whole(cmd.prior))'
  BY <1>1 DEF Whole, Locks, PriorInv
<1>4. PriorInv' /\ ReadInv' /\ NewInv' /\ PlaceInv'
  BY <1>1, <1>3 DEF PriorInv, ReadInv, NewInv, PlaceInv, Built, CmdFields, Whole, Locks
<1> QED
  BY <1>2, <1>3, <1>4

\* The policy is read, and by a frozen command compared.
LEMMA ReadPolicyInv == ASSUME IInv, ReadPolicy PROVE IInv'
PROOF
<1> USE DEF IInv, ReadPolicy, Step, Fail
<1>1. /\ cmd'.op = cmd.op /\ cmd'.frozen = cmd.frozen /\ cmd'.new = Missing
      /\ cmd'.prior = cmd.prior /\ cmd'.bytes = cmd.bytes
      /\ \/ cmd'.at = "over" /\ cmd'.exit = 2
         \/ cmd'.at = "gather" /\ cmd.frozen /\ cmd'.policy = cmd.prior.policy
         \/ cmd'.at = "parse" /\ ~cmd.frozen
  BY DEF CmdFields, NewInv
<1>2. TypeOK' /\ CmdFields' /\ AskedInv'
  BY <1>1 DEF TypeOK, CmdFields, AskedInv, Ops, Places, Locks
<1>3. (lock \notin {Missing, Torn} => Whole(lock))' /\ (cmd.prior # Missing => Whole(cmd.prior))'
  BY <1>1 DEF Whole, Locks, PriorInv
<1>4. PriorInv' /\ ReadInv' /\ NewInv' /\ PlaceInv'
  BY <1>1, <1>3 DEF PriorInv, ReadInv, NewInv, PlaceInv, Built, CmdFields, Whole, Locks
<1> QED
  BY <1>2, <1>3, <1>4

\* The lockfile is parsed.
LEMMA ParseInv == ASSUME IInv, Parse PROVE IInv'
PROOF
<1> USE DEF IInv, Parse, Step
<1>1. /\ cmd'.op = cmd.op /\ cmd'.frozen = FALSE /\ cmd'.new = Missing
      /\ cmd'.prior = cmd.prior /\ cmd'.at = "bytes" /\ cmd'.parsed = tree
  BY DEF CmdFields, NewInv, PlaceInv, TypeOK
<1>2. TypeOK' /\ CmdFields' /\ AskedInv'
  BY <1>1 DEF TypeOK, CmdFields, AskedInv, Ops, Places, Locks
<1>3. (lock \notin {Missing, Torn} => Whole(lock))' /\ (cmd.prior # Missing => Whole(cmd.prior))'
  BY <1>1 DEF Whole, Locks, PriorInv
<1>4. PriorInv' /\ ReadInv' /\ NewInv' /\ PlaceInv'
  BY <1>1, <1>3 DEF PriorInv, ReadInv, NewInv, PlaceInv, Built, CmdFields, Whole, Locks
<1> QED
  BY <1>2, <1>3, <1>4

\* The lockfile is read for its digest, and by a frozen command compared.
LEMMA ReadBytesInv == ASSUME IInv, ReadBytes PROVE IInv'
PROOF
<1> USE DEF IInv, ReadBytes, Step, Fail
<1>1. /\ cmd'.op = cmd.op /\ cmd'.frozen = cmd.frozen /\ cmd'.new = Missing
      /\ cmd'.prior = cmd.prior /\ cmd'.parsed = cmd.parsed
      /\ \/ cmd'.at = "over" /\ cmd'.exit = 2
         \/ cmd'.at = "policy" /\ cmd.frozen /\ cmd'.bytes = cmd.prior.lockfile
         \/ cmd'.at = "gather" /\ ~cmd.frozen /\ cmd'.bytes = tree
  BY DEF CmdFields, NewInv
<1>2. TypeOK' /\ CmdFields' /\ AskedInv'
  BY <1>1 DEF TypeOK, CmdFields, AskedInv, Ops, Places, Locks
<1>3. (lock \notin {Missing, Torn} => Whole(lock))' /\ (cmd.prior # Missing => Whole(cmd.prior))'
  BY <1>1 DEF Whole, Locks, PriorInv
<1>4. PriorInv' /\ ReadInv' /\ NewInv' /\ PlaceInv'
  BY <1>1, <1>3 DEF PriorInv, ReadInv, NewInv, PlaceInv, Built, CmdFields, Whole, Locks
<1> QED
  BY <1>2, <1>3, <1>4

\* An answer arrives.
LEMMA CollectInv == ASSUME IInv, NEW p \in Packages, Collect(p) PROVE IInv'
PROOF
<1> USE DEF IInv
<1>1. PICK told \in SUBSET {p} :
        /\ cmd' = [cmd EXCEPT !.asked = cmd.asked \cup {p}, !.told = cmd.told \cup told]
        /\ cmd.at = "gather" /\ p \in cmd.parsed \ FirstParty
        /\ UNCHANGED <<tree, rules, known, now, lock>>
  <2>1. \E told \in SUBSET {p} :
          cmd' = [cmd EXCEPT !.asked = cmd.asked \cup {p}, !.told = cmd.told \cup told]
    <3>1. PICK t \in BOOLEAN :
            cmd' = [cmd EXCEPT !.asked = cmd.asked \cup {p}, !.told = IF t THEN cmd.told \cup {p} ELSE cmd.told]
      BY DEF Collect, Step
    <3>2. CASE t
      BY <3>1, <3>2
    <3>3. CASE ~t
      <4>1. cmd.told \cup {} = cmd.told
        OBVIOUS
      <4>2. cmd' = [cmd EXCEPT !.asked = cmd.asked \cup {p}, !.told = cmd.told \cup {}]
        BY <3>1, <3>3, <4>1
      <4> QED
        BY <4>2
    <3> QED
      BY <3>2, <3>3
  <2>2. cmd.at = "gather" /\ p \in cmd.parsed \ FirstParty /\ UNCHANGED <<tree, rules, known, now, lock>>
    BY DEF Collect, Step
  <2> QED
    BY <2>1, <2>2
<1>2. TypeOK' /\ CmdFields' /\ AskedInv'
  BY <1>1 DEF TypeOK, CmdFields, AskedInv, Locks
<1>3. (lock \notin {Missing, Torn} => Whole(lock))' /\ (cmd.prior # Missing => Whole(cmd.prior))'
  BY <1>1 DEF Whole, Locks, PriorInv, CmdFields
<1>4. PriorInv' /\ ReadInv' /\ NewInv' /\ PlaceInv'
  BY <1>1, <1>3 DEF PriorInv, ReadInv, NewInv, PlaceInv, Built, CmdFields, Whole, Locks
<1> QED
  BY <1>2, <1>3, <1>4

\* A frozen command builds a lock of the recorded decisions, any other of its own.
LEMMA JudgeNew ==
  ASSUME IInv, Judge
  PROVE  /\ Whole(cmd'.new) /\ cmd'.new.lockfile = cmd.bytes /\ cmd'.new.policy = cmd.policy
         /\ ~cmd.frozen => DOMAIN cmd'.new.decisions = cmd.parsed
         /\ cmd.frozen =>
              /\ DOMAIN cmd'.new.decisions = DOMAIN cmd.prior.decisions
              /\ \A p \in DOMAIN cmd.prior.decisions :
                   /\ cmd'.new.decisions[p].verdict = cmd.prior.decisions[p].verdict
                   /\ cmd'.new.decisions[p].reasons = cmd.prior.decisions[p].reasons
PROOF
<1> USE DEF IInv, Judge, Step
<1>1. /\ cmd.at = "gather" /\ cmd.bytes \in Trees /\ cmd.policy \in Rules /\ cmd.parsed \in Trees
      /\ now \in Nat
  BY DEF TypeOK, LockAssumption
<1>2. CASE cmd.frozen
  <2>1. Whole(cmd.prior) /\ cmd.bytes = cmd.prior.lockfile /\ cmd.policy = cmd.prior.policy
    BY <1>1, <1>2 DEF PriorInv
  <2>2. cmd'.new = [adapter |-> FrozenAdapter(cmd.prior.adapter), lockfile |-> cmd.bytes,
                    policy |-> cmd.policy,
                    decisions |-> [p \in DOMAIN cmd.prior.decisions |-> Replayed(cmd.prior.decisions[p])]]
    BY <1>2 DEF CmdFields
  <2>3. \A p \in DOMAIN cmd.prior.decisions :
          /\ Replayed(cmd.prior.decisions[p]) \in Decisions
          /\ Replayed(cmd.prior.decisions[p]).verdict = cmd.prior.decisions[p].verdict
          /\ Replayed(cmd.prior.decisions[p]).reasons = cmd.prior.decisions[p].reasons
    BY <2>1, ReplayedType DEF Whole, Locks
  <2>4. FrozenAdapter(cmd.prior.adapter) \in {AdapterId, FrozenAdapter(AdapterId)}
    BY <2>1 DEF FrozenAdapter, Whole, Locks
  <2>5. cmd'.new \in Locks
    BY <1>1, <2>1, <2>2, <2>3, <2>4 DEF Whole, Locks
  <2> QED
    BY <1>2, <2>1, <2>2, <2>3, <2>5 DEF Whole
<1>3. CASE ~cmd.frozen
  <2>1. cmd'.new = [adapter |-> AdapterId, lockfile |-> cmd.bytes, policy |-> cmd.policy,
                    decisions |-> [p \in cmd.parsed |-> Decide(cmd.policy, p, p \in cmd.told, now)]]
    BY <1>3 DEF CmdFields
  <2>2. ASSUME NEW p \in cmd.parsed
        PROVE  /\ Decide(cmd.policy, p, p \in cmd.told, now) \in Decisions
               /\ Decide(cmd.policy, p, p \in cmd.told, now).verdict
                    = Verdict(cmd.policy, Decide(cmd.policy, p, p \in cmd.told, now).reasons)
    <3>1. p \in Packages /\ (p \in cmd.told) \in BOOLEAN
      BY <1>1, LockAssumption
    <3> QED
      BY <1>1, <3>1, DecideType, Zenon
  <2>3. cmd'.new \in Locks
    BY <1>1, <2>1, <2>2 DEF Locks
  <2>4. ~Racing => cmd.bytes = cmd.parsed
    BY <1>1, <1>3 DEF ReadInv
  <2> QED
    BY <1>3, <2>1, <2>2, <2>3, <2>4 DEF Whole
<1> QED
  BY <1>2, <1>3 DEF TypeOK

LEMMA JudgeInv == ASSUME IInv, Judge PROVE IInv'
PROOF
<1> USE DEF IInv, Judge, Step
<1>1. cmd' = [cmd EXCEPT !.at = "conclude", !.asked = {}, !.told = {}, !.new = cmd'.new]
  BY DEF CmdFields
<1>2. TypeOK' /\ CmdFields' /\ AskedInv'
  BY <1>1, JudgeNew DEF TypeOK, CmdFields, AskedInv, Ops, Places, Whole, Locks
<1>3. (lock \notin {Missing, Torn} => Whole(lock))' /\ (cmd.prior # Missing => Whole(cmd.prior))'
  BY <1>1 DEF Whole, Locks, PriorInv, CmdFields
<1>4. NewInv'
  BY <1>1, JudgeNew DEF NewInv, Built, Whole, Locks, CmdFields
<1>5. PriorInv' /\ ReadInv' /\ PlaceInv'
  BY <1>1, <1>3 DEF PriorInv, ReadInv, PlaceInv, CmdFields, Whole, Locks
<1> QED
  BY <1>2, <1>3, <1>4, <1>5

\* `lock` truncates its file, `verify` compares, a frozen `scan` counts blocks.
LEMMA ConcludeInv == ASSUME IInv, Conclude PROVE IInv'
PROOF
<1> USE DEF IInv
<1>1. CASE cmd.op = "lock" /\ Step("conclude", [cmd EXCEPT !.at = "write"]) /\ lock' = Torn
  <2>1. /\ cmd' = [cmd EXCEPT !.at = "write"] /\ cmd.at = "conclude" /\ cmd.op = "lock"
        /\ lock' = Torn /\ UNCHANGED <<tree, rules, known, now>>
    BY <1>1 DEF Step
  <2>2. TypeOK' /\ CmdFields' /\ AskedInv'
    BY <2>1 DEF TypeOK, CmdFields, AskedInv, Ops, Places, Locks
  <2>3. (lock \notin {Missing, Torn} => Whole(lock))' /\ NewInv'
    BY <2>1 DEF NewInv, Built, Whole, Locks, CmdFields
  <2>4. PriorInv' /\ ReadInv' /\ PlaceInv'
    BY <2>1 DEF PriorInv, ReadInv, PlaceInv, CmdFields, Whole, Locks
  <2> QED
    BY <2>2, <2>3, <2>4
<1>2. ASSUME NEW e \in {0, 1}, Step("conclude", Fail(e)), lock' = lock,
             cmd.op = "verify" /\ e = 0 => cmd.new = cmd.prior
      PROVE  IInv'
  <2>1. /\ cmd' = [cmd EXCEPT !.at = "over", !.asked = {}, !.told = {}, !.exit = e] /\ cmd.at = "conclude"
        /\ UNCHANGED <<tree, rules, known, now, lock>>
    BY <1>2 DEF Step, Fail
  <2>2. TypeOK' /\ CmdFields' /\ AskedInv'
    BY <2>1 DEF TypeOK, CmdFields, AskedInv, Ops, Places, Locks
  <2>3. (lock \notin {Missing, Torn} => Whole(lock))' /\ NewInv'
    BY <2>1 DEF NewInv, Built, Whole, Locks, CmdFields
  <2>4. PriorInv' /\ ReadInv' /\ PlaceInv'
    BY <1>2, <2>1 DEF PriorInv, ReadInv, PlaceInv, CmdFields, Whole, Locks
  <2> QED
    BY <2>2, <2>3, <2>4
<1>3. CASE /\ cmd.op = "verify" /\ lock' = lock
           /\ Step("conclude", Fail(IF SameLock(cmd.new, cmd.prior) THEN 0 ELSE 1))
  <2>1. CASE SameLock(cmd.new, cmd.prior)
    BY <1>2, <1>3, <2>1 DEF SameLock, Digest
  <2>2. CASE ~SameLock(cmd.new, cmd.prior)
    BY <1>2, <1>3, <2>2
  <2> QED
    BY <2>1, <2>2
<1>4. CASE /\ cmd.op = "scan" /\ lock' = lock
           /\ \E e \in {0, 1} : Step("conclude", Fail(e))
  BY <1>2, <1>4
<1>5. cmd.op = "scan" /\ Conclude => lock' = lock /\ \E e \in {0, 1} : Step("conclude", Fail(e))
  <2> DEFINE Blocks == \E p \in DOMAIN cmd.new.decisions : cmd.new.decisions[p].verdict = "block"
  <2>1. (IF Blocks THEN 1 ELSE 0) \in {0, 1}
    OBVIOUS
  <2> HIDE DEF Blocks
  <2> QED
    BY <2>1, Zenon DEF Conclude, Blocks
<1> QED
  BY <1>1, <1>3, <1>4, <1>5 DEF Conclude

\* The new lock is written.
LEMMA WriteInv == ASSUME IInv, Write PROVE IInv'
PROOF
<1> USE DEF IInv, Write, Step, Fail
<1>1. /\ cmd' = [cmd EXCEPT !.at = "over", !.asked = {}, !.told = {}, !.exit = 0] /\ cmd.at = "write" /\ cmd.op = "lock"
      /\ lock' = cmd.new /\ UNCHANGED <<tree, rules, known, now>> /\ Whole(cmd.new)
  BY DEF CmdFields, PlaceInv, NewInv, Built
<1>2. TypeOK' /\ CmdFields' /\ AskedInv'
  BY <1>1 DEF TypeOK, CmdFields, AskedInv, Ops, Places, Locks, Whole
<1>3. (lock \notin {Missing, Torn} => Whole(lock))' /\ (cmd.prior # Missing => Whole(cmd.prior))'
  BY <1>1 DEF Whole, Locks, PriorInv, CmdFields
<1>4. NewInv'
  BY <1>1 DEF NewInv, Built, Whole, Locks, CmdFields
<1>5. PriorInv' /\ ReadInv' /\ PlaceInv'
  BY <1>1, <1>3 DEF PriorInv, ReadInv, PlaceInv, CmdFields, Whole, Locks
<1> QED
  BY <1>2, <1>3, <1>4, <1>5

\* The process dies, wherever it is.
LEMMA CrashInv == ASSUME IInv, Crash PROVE IInv'
PROOF
<1> USE DEF IInv, Crash, Fail
<1>1. TypeOK' /\ CmdFields' /\ AskedInv'
  BY DEF TypeOK, CmdFields, AskedInv, Ops, Places, Locks
<1>2. (lock \notin {Missing, Torn} => Whole(lock))' /\ (cmd.prior # Missing => Whole(cmd.prior))'
  BY DEF Whole, Locks, PriorInv, CmdFields
<1>3. NewInv'
  BY DEF NewInv, Built, Whole, Locks, CmdFields
<1>4. PriorInv' /\ ReadInv' /\ PlaceInv'
  BY <1>2 DEF PriorInv, ReadInv, PlaceInv, CmdFields, Whole, Locks
<1> QED
  BY <1>1, <1>2, <1>3, <1>4

\* Everything that happens outside the commands.
World ==
  \/ \E t \in Trees : Install(t)
  \/ \E r \in Rules : EditPolicy(r)
  \/ \E p \in Packages \ FirstParty : Disclose(p)
  \/ Tick
  \/ UNCHANGED vars

LEMMA WorldInv == ASSUME IInv, World PROVE IInv'
PROOF
<1> USE DEF IInv
<1>1. /\ lock' = lock /\ cmd' = cmd /\ tree' \in Trees /\ rules' \in Rules
      /\ DOMAIN known' \subseteq Packages \ FirstParty /\ now' \in 0 .. MaxNow /\ now <= now'
      /\ \A p \in DOMAIN known' : known'[p] \in 0 .. now'
      /\ ~Racing /\ cmd.at # "over" => tree' = tree
  <2>1. CASE \E p \in Packages \ FirstParty : Disclose(p)
    BY <2>1 DEF Disclose, TypeOK
  <2>2. CASE ~\E p \in Packages \ FirstParty : Disclose(p)
    BY <2>2, LockAssumption DEF World, Install, EditPolicy, Tick, vars, Quiet, TypeOK
  <2> QED
    BY <2>1, <2>2
<1>2. TypeOK' /\ CmdFields' /\ AskedInv'
  BY <1>1 DEF TypeOK, CmdFields, AskedInv, Locks
<1>3. (lock \notin {Missing, Torn} => Whole(lock))' /\ PriorInv' /\ NewInv' /\ PlaceInv'
  BY <1>1 DEF Whole, Locks, PriorInv, NewInv, Built, PlaceInv
<1>4. ReadInv'
  BY <1>1 DEF ReadInv
<1> QED
  BY <1>2, <1>3, <1>4

LEMMA StepInv == ASSUME IInv, [Next]_vars PROVE IInv'
PROOF
<1>1. ASSUME NEW op \in Ops, NEW frozen \in BOOLEAN, Run(op, frozen) PROVE IInv'
  BY <1>1, RunInv
<1>2. CASE ReadPrior
  BY <1>2, ReadPriorInv
<1>3. CASE ReadPolicy
  BY <1>3, ReadPolicyInv
<1>4. CASE Parse
  BY <1>4, ParseInv
<1>5. CASE ReadBytes
  BY <1>5, ReadBytesInv
<1>6. CASE Judge
  BY <1>6, JudgeInv
<1>7. ASSUME NEW p \in Packages, Collect(p) PROVE IInv'
  BY <1>7, CollectInv
<1>8. CASE Conclude
  BY <1>8, ConcludeInv
<1>9. CASE Write
  BY <1>9, WriteInv
<1>10. CASE Crash
  BY <1>10, CrashInv
<1>11. CASE World
  BY <1>11, WorldInv
<1> QED
  BY <1>1, <1>2, <1>3, <1>4, <1>5, <1>6, <1>8, <1>9, <1>10, <1>11, <1>7 DEF Next, World

LEMMA Inductive == Spec => []IInv
PROOF
<1>1. Init => IInv
  BY InitInv
<1>2. IInv /\ [Next]_vars => IInv'
  BY StepInv
<1> QED
  BY <1>1, <1>2, PTL DEF Spec

-----------------------------------------------------------------------------
\* The lock file, and the locks a command holds, are complete or known not to be:
\* whatever is written by hand, dies or races, no command goes by half a lock.
THEOREM TypeCorrect == Spec => []TypeOK
PROOF
<1>1. IInv => TypeOK
  BY DEF IInv
<1> QED
  BY <1>1, Inductive, PTL

\* A `verify` that ends with OK has compared the decisions on every package of
\* the lockfile it parsed with recorded ones, and found the same verdicts and
\* reasons; also when files change while it runs.
THEOREM VerifiedIsUnchanged == Spec => []VerifyOkMeansSameDecisions
PROOF
<1>1. IInv => VerifyOkMeansSameDecisions
  BY DEF IInv, VerifyOkMeansSameDecisions, Ended, NewInv, Built, PlaceInv
<1> QED
  BY <1>1, Inductive, PTL

\* With files that are at rest while a command runs, a frozen `scan` or `ci` decides
\* on every package of the lockfile it found, by the policy it found: evaluate and
\* evaluate_frozen agree on what the two digests of a lock stand for.
THEOREM FrozenIsAboutThisProject == ASSUME ~Racing PROVE Spec => []FrozenDecidesThisProject
PROOF
<1>1. IInv => FrozenDecidesThisProject
  BY ~Racing DEF IInv, FrozenDecidesThisProject, Ended, NewInv, Built, Whole
<1> QED
  BY <1>1, Inductive, PTL

\* `lock --frozen`, repeated however often, keeps every verdict, every reason and
\* both digests, for locks of any size.
THEOREM RelockingLosesNothing == Spec => FrozenRelockKeepsDecisions
PROOF
<1> DEFINE Kept ==
      cmd.at = "write" /\ cmd.frozen /\ lock' # Torn =>
        /\ lock'.lockfile = cmd.prior.lockfile /\ lock'.policy = cmd.prior.policy
        /\ DOMAIN lock'.decisions = DOMAIN cmd.prior.decisions
        /\ \A p \in DOMAIN cmd.prior.decisions :
             /\ lock'.decisions[p].verdict = cmd.prior.decisions[p].verdict
             /\ lock'.decisions[p].reasons = cmd.prior.decisions[p].reasons
<1>1. IInv /\ [Next]_vars => [Kept]_vars
  <2> SUFFICES ASSUME IInv, Next, cmd.at = "write", cmd.frozen, lock' # Torn PROVE Kept
    BY DEF vars
  <2>1. lock = Torn
    BY DEF IInv, PlaceInv
  <2>2. lock' = cmd.new
    BY <2>1 DEF Next, Run, ReadPrior, ReadPolicy, Parse, ReadBytes, Collect, Judge, Conclude,
                Write, Crash, Install, EditPolicy, Disclose, Tick, Step
  <2> QED
    BY <2>2 DEF IInv, NewInv, Built, PriorInv
<1> QED
  BY <1>1, Inductive, PTL DEF Spec, FrozenRelockKeepsDecisions

-----------------------------------------------------------------------------
\* Commands are atomic when their project is at rest.

\* What a command has read is what is still there.
RestInv ==
  /\ cmd.at \in {"parse", "gather"} \/ (cmd.at = "bytes" /\ ~cmd.frozen) => cmd.policy = rules
  /\ cmd.at = "gather" \/ (cmd.at = "policy" /\ cmd.frozen) => cmd.bytes = tree
  /\ cmd.at \in {"policy", "parse", "bytes", "gather", "conclude"} /\ (cmd.frozen \/ cmd.op = "verify") =>
       cmd.prior = lock /\ lock \notin {Missing, Torn}

\* What the answer about a package says was so at some moment of the command's run, or
\* at most CacheAge before.
WasRight(p) == \E m \in cmd.began - CacheAge .. now : Said(p, m, p \in cmd.told)
HeardInv == \A p \in cmd.asked : WasRight(p)

AtRest == IInv /\ RestInv /\ HeardInv

LEMMA RestInductive ==
  ASSUME ~Racing, IInv, RestInv, [Next]_vars
  PROVE  RestInv'
PROOF
<1> USE DEF RestInv, Step, Fail
<1>1. ASSUME NEW op \in Ops, NEW frozen \in BOOLEAN, Run(op, frozen) PROVE RestInv'
  BY <1>1 DEF Run, First
<1>2. CASE ReadPrior
  BY <1>2 DEF ReadPrior, IInv, CmdFields
<1>3. CASE ReadPolicy
  BY <1>3 DEF ReadPolicy, IInv, CmdFields
<1>4. CASE Parse
  BY <1>4 DEF Parse, IInv, CmdFields, PlaceInv
<1>5. CASE ReadBytes
  BY <1>5 DEF ReadBytes, IInv, CmdFields
<1>6. CASE Judge
  BY <1>6 DEF Judge, IInv, CmdFields
<1>7. ASSUME NEW p \in Packages, Collect(p) PROVE RestInv'
  <2>1. /\ UNCHANGED <<tree, rules, lock>>
        /\ cmd'.at = cmd.at /\ cmd'.op = cmd.op /\ cmd'.frozen = cmd.frozen /\ cmd'.prior = cmd.prior
        /\ cmd'.policy = cmd.policy /\ cmd'.bytes = cmd.bytes
    BY <1>7, Zenon DEF Collect, IInv, CmdFields
  <2> QED
    BY <2>1
<1>8. CASE Conclude
  <2>1. cmd'.at \in {"write", "over"}
    BY <1>8, Zenon DEF Conclude, IInv, CmdFields
  <2> QED
    BY <2>1
<1>9. CASE Write \/ Crash
  BY <1>9 DEF Write, Crash, IInv, CmdFields
<1>10. CASE World
  <2>1. /\ cmd' = cmd /\ lock' = lock
        /\ cmd.at # "over" => tree' = tree /\ rules' = rules
    BY <1>10, ~Racing DEF World, Install, EditPolicy, Disclose, Tick, vars, Quiet
  <2> QED
    BY <2>1
<1> QED
  BY <1>1, <1>2, <1>3, <1>4, <1>5, <1>6, <1>8, <1>9, <1>10, <1>7 DEF Next, World

\* An answer that was right remains one that was: what comes to light does so now.
LEMMA SaidRemains ==
  ASSUME IInv, [Next]_vars, NEW p \in Packages, NEW m \in Int, m <= now, NEW told \in BOOLEAN,
         Said(p, m, told)
  PROVE  Said(p, m, told)'
PROOF
<1>1. CASE UNCHANGED known
  BY <1>1 DEF Said
<1>2. ASSUME NEW q \in Packages \ FirstParty, Disclose(q) PROVE Said(p, m, told)'
  <2>1. /\ q \notin DOMAIN known /\ DOMAIN known' = DOMAIN known \cup {q}
        /\ known'[q] = now /\ \A r \in DOMAIN known : known'[r] = known[r]
    BY <1>2 DEF Disclose
  <2> QED
    BY <2>1 DEF Said
<1>3. (\E q \in Packages \ FirstParty : Disclose(q)) \/ UNCHANGED known
  BY Zenon DEF Next, Run, ReadPrior, ReadPolicy, Parse, ReadBytes, Collect, Judge, Conclude, Write,
               Crash, Install, EditPolicy, Tick, Step, vars
<1> QED
  BY <1>1, <1>2, <1>3

\* The answers that a command has, after a step.
LEMMA HeardInductive ==
  ASSUME IInv, HeardInv, [Next]_vars
  PROVE  HeardInv'
PROOF
<1>1. now \in Int /\ now' \in Int /\ now <= now' /\ CacheAge \in Nat /\ cmd.began \in Int
      /\ cmd.asked \subseteq Packages
  <2>1. now \in Int /\ CacheAge \in Nat /\ cmd.began \in Int /\ cmd.asked \subseteq Packages
    BY LockAssumption DEF IInv, TypeOK
  <2>2. now' = now \/ now' = now + 1
    BY Zenon DEF Next, Run, ReadPrior, ReadPolicy, Parse, ReadBytes, Collect, Judge, Conclude, Write,
                 Crash, Install, EditPolicy, Disclose, Tick, Step, vars
  <2> QED
    BY <2>1, <2>2
<1>2. ASSUME NEW p \in cmd.asked, cmd'.began = cmd.began, p \in cmd'.told <=> p \in cmd.told
      PROVE  WasRight(p)'
  <2>1. PICK m \in cmd.began - CacheAge .. now : Said(p, m, p \in cmd.told)
    BY DEF HeardInv, WasRight
  <2>2. m \in Int /\ m <= now /\ p \in Packages
    BY <1>1
  <2>3. m \in cmd'.began - CacheAge .. now'
    BY <1>1, <1>2
  <2>4. CASE p \in cmd.told
    <3>1. Said(p, m, TRUE)
      BY <2>1, <2>4 DEF Said
    <3>2. Said(p, m, TRUE)'
      BY <2>2, <3>1, SaidRemains
    <3> QED
      BY <1>2, <2>3, <2>4, <3>2 DEF WasRight, Said
  <2>5. CASE p \notin cmd.told
    <3>1. Said(p, m, FALSE)
      BY <2>1, <2>5 DEF Said
    <3>2. Said(p, m, FALSE)'
      BY <2>2, <3>1, SaidRemains
    <3> QED
      BY <1>2, <2>3, <2>5, <3>2 DEF WasRight, Said
  <2> QED
    BY <2>4, <2>5
<1>3. CASE cmd' = cmd
  BY <1>2, <1>3 DEF HeardInv
<1>4. CASE cmd'.asked = {}
  BY <1>4 DEF HeardInv
<1>5. ASSUME NEW q \in Packages, Collect(q) PROVE HeardInv'
  <2>1. PICK m \in now - CacheAge .. now, told \in BOOLEAN :
          /\ Said(q, m, told) /\ q \notin cmd.asked /\ UNCHANGED <<known, now>>
          /\ cmd'.began = cmd.began /\ cmd'.asked = cmd.asked \cup {q}
          /\ cmd'.told = IF told THEN cmd.told \cup {q} ELSE cmd.told
    BY <1>5 DEF Collect, Step, IInv, CmdFields
  <2>2. q \notin cmd.told /\ cmd.began <= now
    BY <2>1 DEF IInv, TypeOK
  <2>3. m \in cmd'.began - CacheAge .. now'
    BY <1>1, <2>1, <2>2
  <2>4. WasRight(q)'
    BY <2>1, <2>2, <2>3 DEF WasRight, Said
  <2>5. ASSUME NEW p \in cmd.asked PROVE WasRight(p)'
    <3>1. p \in cmd'.told <=> p \in cmd.told
      BY <2>1
    <3> QED
      BY <1>2, <2>1, <3>1
  <2> QED
    BY <2>1, <2>4, <2>5 DEF HeardInv
<1>6. cmd' = cmd \/ (\E q \in Packages : Collect(q)) \/ cmd'.asked = {}
  <2> USE DEF IInv, CmdFields, AskedInv
  <2>1. CASE ReadPrior \/ ReadPolicy \/ Parse \/ ReadBytes
    BY <2>1 DEF ReadPrior, ReadPolicy, Parse, ReadBytes, Step, Fail
  <2>2. CASE Conclude
    <3>1. cmd.at = "conclude" /\ (cmd'.asked = cmd.asked \/ cmd'.asked = {})
      BY <2>2 DEF Conclude, Step, Fail
    <3> QED
      BY <3>1
  <2>3. CASE Judge \/ Write \/ Crash
    BY <2>3 DEF Judge, Write, Crash, Step, Fail
  <2>4. CASE \E op \in Ops, frozen \in BOOLEAN : Run(op, frozen)
    BY <2>4 DEF Run
  <2>5. CASE World
    BY <2>5 DEF World, Install, EditPolicy, Disclose, Tick, vars
  <2> QED
    BY <2>1, <2>2, <2>3, <2>4, <2>5 DEF Next, World
<1> QED
  BY <1>3, <1>4, <1>5, <1>6

\* A step of a command that has not looked yet, seen from outside: none, or its end.
LEMMA ReadingSteps ==
  ASSUME AtRest, Phase = "running", Step(cmd.at, cmd'), lock' = lock, cmd'.op = cmd.op,
         cmd'.began = cmd.began, cmd'.new = cmd.new,
         \/ Phase' = "running" /\ cmd'.exit = cmd.exit
         \/ cmd'.at = "over" /\ cmd'.exit = 2
  PROVE  Atomic!Refuse \/ UNCHANGED <<Atomic!project, OnRecord, Atomic!command>>
PROOF
<1>1. cmd.at # "write"
  BY DEF Phase
<1>2. UNCHANGED <<tree, rules, known, now>>
  BY DEF Step
<1>3. CASE Phase' = "running" /\ cmd'.exit = cmd.exit
  <2>1. OnRecord' = OnRecord
    BY <1>1, <1>3 DEF OnRecord, Phase
  <2> QED
    BY <1>2, <1>3, <2>1 DEF Atomic!project, Atomic!command
<1>4. CASE cmd'.at = "over" /\ cmd'.exit = 2
  <2>1. OnRecord' = OnRecord /\ Phase' = "over"
    BY <1>1, <1>4 DEF OnRecord, Phase
  <2> QED
    BY <1>2, <1>4, <2>1 DEF Atomic!Refuse, Atomic!End, Atomic!project
<1> QED
  BY <1>3, <1>4

\* The answers with which a command judges are such as one may have.
LEMMA JudgeHeard ==
  ASSUME AtRest, cmd.parsed = tree, tree \in Trees, tree \ FirstParty \subseteq cmd.asked
  PROVE  cmd.told \in SUBSET tree /\ Atomic!Heard(cmd.told)
PROOF
<1>1. /\ cmd.told \subseteq cmd.asked /\ cmd.asked \subseteq tree
      /\ cmd.told \cap FirstParty = {}
      /\ DOMAIN known \cap FirstParty = {} /\ now \in Nat /\ cmd.began \in 0 .. now /\ CacheAge \in Nat
  BY LockAssumption DEF AtRest, IInv, TypeOK
<1>2. ASSUME NEW p \in tree
      PROVE  \E m \in cmd.began - CacheAge .. now : Atomic!Right(p, m, p \in cmd.told)
  <2>1. CASE p \in FirstParty
    <3>1. p \notin cmd.told /\ p \notin DOMAIN known /\ now \in cmd.began - CacheAge .. now
      BY <1>1, <2>1
    <3> QED
      BY <3>1 DEF Atomic!Right
  <2>2. CASE p \notin FirstParty
    <3>1. p \in cmd.asked
      BY <2>2
    <3>2. PICK m \in cmd.began - CacheAge .. now : Said(p, m, p \in cmd.told)
      BY <3>1 DEF AtRest, HeardInv, WasRight
    <3> QED
      BY <3>2 DEF Said, Atomic!Right
  <2> QED
    BY <2>1, <2>2
<1> QED
  BY <1>1, <1>2 DEF Atomic!Heard

\* The evaluation is the moment at which a command has looked.
LEMMA JudgeLooks ==
  ASSUME ~Racing, AtRest, Judge
  PROVE  Atomic!Look(cmd.frozen)
PROOF
<1>1. /\ cmd.at = "gather" /\ cmd'.at = "conclude" /\ cmd'.op = cmd.op /\ cmd'.exit = cmd.exit
      /\ cmd'.began = cmd.began
      /\ tree' = tree /\ rules' = rules /\ known' = known /\ now' = now /\ lock' = lock
  BY DEF Judge, Step, AtRest, IInv, CmdFields
<1>2. OnRecord = lock /\ OnRecord' = OnRecord
  BY <1>1 DEF OnRecord
<1>3. Phase = "running" /\ Phase' = "looked"
  BY <1>1 DEF Phase
<1>4. /\ cmd.policy = rules /\ cmd.bytes = tree /\ cmd.policy \in Rules /\ tree \in Trees
      /\ ~cmd.frozen => cmd.parsed = tree
      /\ cmd.frozen \/ cmd.op = "verify" => cmd.prior = lock /\ lock \in Locks
  BY <1>1, ~Racing DEF AtRest, RestInv, IInv, TypeOK, ReadInv
<1>5. CASE cmd.frozen
  <2>1. lock \in Locks /\ lock \notin {Missing, Torn} /\ lock.lockfile = tree /\ lock.policy = rules
    BY <1>1, <1>4, <1>5, NoLockAssumption DEF AtRest, IInv, PriorInv
  <2>2. cmd'.new = [adapter |-> FrozenAdapter(lock.adapter), lockfile |-> tree, policy |-> rules,
                    decisions |-> [p \in DOMAIN lock.decisions |-> Replayed(lock.decisions[p])]]
    BY <1>1, <1>4, <1>5 DEF Judge, Step, AtRest, IInv, CmdFields
  <2>3. FrozenAdapter(lock.adapter) = FrozenAdapter(AdapterId)
    BY <2>1 DEF Locks, FrozenAdapter
  <2>4. cmd'.new = Atomic!Replay(lock)
    <3>1. [p \in DOMAIN lock.decisions |-> [lock.decisions[p] EXCEPT !.kinds = {}]]
            = [p \in DOMAIN lock.decisions |-> Replayed(lock.decisions[p])]
      BY Zenon DEF Replayed
    <3> QED
      BY <2>1, <2>2, <2>3, <3>1, Zenon DEF Atomic!Replay
  <2> QED
    BY <1>1, <1>2, <1>3, <1>5, <2>1, <2>4 DEF Atomic!Look, Atomic!project
<1>6. CASE ~cmd.frozen
  <2>1. cmd'.new = [adapter |-> AdapterId, lockfile |-> tree, policy |-> rules,
                    decisions |-> [p \in tree |-> Decide(rules, p, p \in cmd.told, now)]]
    BY <1>1, <1>4, <1>6 DEF Judge, Step, AtRest, IInv, CmdFields
  <2>2. now \in 0 .. MaxNow
    BY DEF AtRest, IInv, TypeOK
  <2>3. ASSUME NEW p \in tree
        PROVE  Judgements[rules][p][(p \in cmd.told)][now] = Decide(rules, p, p \in cmd.told, now)
    <3>1. rules \in Rules /\ p \in Packages /\ (p \in cmd.told) \in BOOLEAN
      BY <1>4, LockAssumption
    <3> QED
      BY <2>2, <3>1, Zenon DEF Judgements
  <2>4. cmd'.new = [adapter |-> AdapterId, lockfile |-> tree, policy |-> rules,
                    decisions |-> [p \in tree |-> Judgements[rules][p][(p \in cmd.told)][now]]]
    BY <2>1, <2>3, Zenon
  <2>5. cmd.told \in SUBSET tree /\ Atomic!Heard(cmd.told)
    BY <1>1, <1>4, <1>6, JudgeHeard DEF Judge
  <2>6. cmd.op = "verify" => OnRecord \notin {Missing, Torn}
    BY <1>2, <1>4, NoLockAssumption
  <2> QED
    BY <1>1, <1>2, <1>3, <1>6, <2>4, <2>5, <2>6, Zenon DEF Atomic!Look, Atomic!project
<1> QED
  BY <1>5, <1>6

\* What a command has looked at is what it records, compares or goes by.
LEMMA ConcludeDoes ==
  ASSUME AtRest, Conclude
  PROVE  Atomic!Record \/ Atomic!Compare \/ Atomic!Gate
PROOF
<1>1. /\ cmd.at = "conclude" /\ UNCHANGED <<tree, rules, known, now>>
      /\ cmd'.op = cmd.op /\ cmd'.began = cmd.began /\ cmd'.new = cmd.new
      /\ Phase = "looked" /\ OnRecord = lock
  <2>1. cmd.at = "conclude" /\ UNCHANGED <<tree, rules, known, now>>
    BY Zenon DEF Conclude, Step
  <2>2. cmd'.op = cmd.op /\ cmd'.began = cmd.began /\ cmd'.new = cmd.new
    BY DEF Conclude, Step, Fail, AtRest, IInv, CmdFields
  <2> QED
    BY <2>1, <2>2 DEF Phase, OnRecord
<1>2. CASE cmd.op = "lock"
  <2>1. cmd' = [cmd EXCEPT !.at = "write"]
    BY <1>2 DEF Conclude, Step
  <2>2. cmd'.at = "write" /\ cmd'.exit = cmd.exit
    BY <2>1 DEF AtRest, IInv, CmdFields
  <2>3. Phase' = "looked" /\ OnRecord' = cmd.new
    BY <1>1, <2>2 DEF Phase, OnRecord
  <2> QED
    BY <1>1, <1>2, <2>2, <2>3 DEF Atomic!Record, Atomic!project, Atomic!command
<1>3. ASSUME lock' = lock, NEW e, cmd' = Fail(e)
      PROVE  OnRecord' = OnRecord /\ Atomic!End(e)
  <2>1. cmd'.at = "over" /\ cmd'.exit = e
    BY <1>3 DEF Fail, AtRest, IInv, CmdFields
  <2>2. Phase' = "over" /\ OnRecord' = OnRecord
    BY <1>1, <1>3, <2>1 DEF Phase, OnRecord
  <2> QED
    BY <1>1, <2>1, <2>2 DEF Atomic!End, Atomic!project
<1>4. CASE cmd.op = "verify"
  <2>1. lock' = lock /\ cmd' = Fail(IF SameLock(cmd.new, cmd.prior) THEN 0 ELSE 1)
    BY <1>4 DEF Conclude, Step
  <2>2. SameLock(cmd.new, cmd.prior) <=> OnRecord = cmd.new
    BY <1>1, <1>4 DEF AtRest, RestInv, SameLock, Digest
  <2>3. cmd' = Fail(IF OnRecord = cmd.new THEN 0 ELSE 1)
    BY <2>1, <2>2
  <2>4. OnRecord' = OnRecord /\ Atomic!End(IF OnRecord = cmd.new THEN 0 ELSE 1)
    BY <1>3, <2>1, <2>3
  <2> QED
    BY <1>1, <1>4, <2>4 DEF Atomic!Compare
<1>5. CASE cmd.op = "scan"
  <2> DEFINE Blocks == \E p \in DOMAIN cmd.new.decisions : cmd.new.decisions[p].verdict = "block"
  <2>1. lock' = lock /\ cmd' = Fail(IF Blocks THEN 1 ELSE 0)
    BY <1>5, Zenon DEF Conclude, Step
  <2> HIDE DEF Blocks
  <2>2. OnRecord' = OnRecord /\ Atomic!End(IF Blocks THEN 1 ELSE 0)
    BY <1>3, <2>1
  <2> QED
    BY <1>1, <1>5, <2>2, Zenon DEF Atomic!Gate, Blocks
<1> QED
  BY <1>2, <1>4, <1>5 DEF AtRest, IInv, TypeOK, Ops

\* From the truncation on, the new lock is what is on record, or nothing is.
LEMMA WriteRecords == ASSUME AtRest, Write PROVE Atomic!Recorded
PROOF
<1>1. /\ cmd.at = "write" /\ cmd.op = "lock" /\ lock' = cmd.new
      /\ tree' = tree /\ rules' = rules /\ known' = known /\ now' = now
      /\ cmd'.at = "over" /\ cmd'.exit = 0 /\ cmd'.op = cmd.op /\ cmd'.began = cmd.began
      /\ cmd'.new = cmd.new
  BY DEF Write, Step, Fail, AtRest, IInv, CmdFields, PlaceInv
<1>2. Phase = "looked" /\ Phase' = "over" /\ OnRecord = cmd.new /\ OnRecord' = OnRecord
  BY <1>1 DEF Phase, OnRecord
<1> QED
  BY <1>1, <1>2 DEF Atomic!Recorded, Atomic!End, Atomic!project

LEMMA CrashRefuses == ASSUME AtRest, Crash PROVE Atomic!Refuse
PROOF
<1>1. /\ cmd.at # "over" /\ lock' = lock /\ tree' = tree /\ rules' = rules /\ known' = known /\ now' = now
      /\ cmd'.at = "over" /\ cmd'.exit = 2 /\ cmd'.op = cmd.op /\ cmd'.began = cmd.began
      /\ cmd'.new = cmd.new
  BY DEF Crash, Fail, AtRest, IInv, CmdFields
<1>2. Phase # "over" /\ Phase' = "over" /\ OnRecord' = lock
  BY <1>1 DEF Phase, OnRecord
<1>3. Atomic!End(2)
  BY <1>1, <1>2 DEF Atomic!End, Atomic!project
<1>4. CASE cmd.at = "write"
  <2>1. cmd.op = "lock" /\ lock = Torn /\ Phase = "looked"
    BY <1>4 DEF AtRest, IInv, PlaceInv, Phase
  <2>2. OnRecord = cmd.new /\ OnRecord' = Torn
    BY <1>2, <1>4, <2>1 DEF OnRecord
  <2> QED
    BY <1>2, <1>3, <2>1, <2>2 DEF Atomic!Refuse
<1>5. CASE cmd.at # "write"
  BY <1>2, <1>3, <1>5 DEF Atomic!Refuse, OnRecord
<1> QED
  BY <1>4, <1>5

LEMMA RunBegins == ASSUME AtRest, NEW op \in Ops, NEW frozen \in BOOLEAN, Run(op, frozen) PROVE Atomic!Begin
PROOF
<1>1. /\ cmd.at = "over" /\ cmd'.at \in {"prior", "policy"} /\ cmd'.op = op /\ cmd'.new = Missing
      /\ cmd'.began = now /\ cmd'.exit = 0 /\ UNCHANGED <<tree, rules, known, now, lock>>
  BY DEF Run, First
<1>2. Phase = "over" /\ Phase' = "running" /\ OnRecord' = OnRecord
  BY <1>1 DEF Phase, OnRecord
<1> QED
  BY <1>1, <1>2 DEF Atomic!Begin, Atomic!project, Ops

\* An answer that arrives is not seen from outside.
LEMMA CollectUnseen ==
  ASSUME AtRest, NEW p \in Packages, Collect(p)
  PROVE  UNCHANGED <<Atomic!project, OnRecord, Atomic!command>>
PROOF
<1>1. /\ UNCHANGED <<tree, rules, known, now, lock>> /\ cmd'.at = cmd.at /\ cmd'.op = cmd.op
      /\ cmd'.began = cmd.began /\ cmd'.new = cmd.new /\ cmd'.exit = cmd.exit
  BY Zenon DEF Collect, Step, AtRest, IInv, CmdFields
<1>2. Phase' = Phase /\ OnRecord' = OnRecord
  BY <1>1 DEF Phase, OnRecord
<1> QED
  BY <1>1, <1>2 DEF Atomic!project, Atomic!command

LEMMA WorldTurns ==
  ASSUME ~Racing, World
  PROVE  Atomic!Edit \/ Atomic!Turn
PROOF
<1>1. cmd' = cmd /\ lock' = lock
  BY DEF World, Install, EditPolicy, Disclose, Tick, vars
<1>2. Phase' = Phase /\ OnRecord' = OnRecord
  BY <1>1 DEF Phase, OnRecord
<1>3. \/ cmd.at = "over" /\ known' = known /\ now' = now
      \/ tree' = tree /\ rules' = rules
  BY ~Racing DEF World, Install, EditPolicy, Disclose, Tick, vars, Quiet
<1>4. CASE cmd.at = "over" /\ known' = known /\ now' = now
  BY <1>1, <1>2, <1>4 DEF Atomic!Edit, Atomic!command, Phase
<1>5. CASE tree' = tree /\ rules' = rules
  BY <1>1, <1>2, <1>5 DEF Atomic!Turn, Atomic!command
<1> QED
  BY <1>3, <1>4, <1>5

LEMMA StepsAreAtomic ==
  ASSUME ~Racing, AtRest, [Next]_vars
  PROVE  [Atomic!Next]_<<Atomic!project, OnRecord, Atomic!command>>
PROOF
<1>1. ASSUME NEW op \in Ops, NEW frozen \in BOOLEAN, Run(op, frozen) PROVE Atomic!Next
  BY <1>1, RunBegins DEF Atomic!Next
<1>2. CASE ReadPrior \/ ReadPolicy \/ Parse \/ ReadBytes
  <2>1. /\ Phase = "running" /\ Step(cmd.at, cmd') /\ lock' = lock
        /\ cmd'.op = cmd.op /\ cmd'.began = cmd.began /\ cmd'.new = cmd.new
    BY <1>2 DEF ReadPrior, ReadPolicy, Parse, ReadBytes, Step, Fail, Phase, AtRest, IInv, CmdFields
  <2>2. \/ Phase' = "running" /\ cmd'.exit = cmd.exit
        \/ cmd'.at = "over" /\ cmd'.exit = 2
    BY <1>2 DEF ReadPrior, ReadPolicy, Parse, ReadBytes, Step, Fail, Phase, AtRest, IInv, CmdFields
  <2> QED
    BY <2>1, <2>2, ReadingSteps DEF Atomic!Next
<1>3. CASE Judge
  <2>1. Atomic!Look(cmd.frozen) /\ cmd.frozen \in BOOLEAN
    BY <1>3, ~Racing, JudgeLooks DEF AtRest, IInv, TypeOK
  <2> QED
    BY <2>1 DEF Atomic!Next
<1>4. ASSUME NEW p \in Packages, Collect(p)
      PROVE  UNCHANGED <<Atomic!project, OnRecord, Atomic!command>>
  BY <1>4, CollectUnseen
<1>5. CASE Conclude
  BY <1>5, ConcludeDoes DEF Atomic!Next
<1>6. CASE Write
  BY <1>6, WriteRecords DEF Atomic!Next
<1>7. CASE Crash
  BY <1>7, CrashRefuses DEF Atomic!Next
<1>8. CASE World
  BY <1>8, ~Racing, WorldTurns DEF Atomic!Next
<1> QED
  BY <1>1, <1>2, <1>3, <1>5, <1>6, <1>7, <1>8, <1>4 DEF Next, World

\* Every command of a project that is at rest while it runs (run_lock, run_verify,
\* evaluate, evaluate_frozen) behaves as one that looks at the files and the clock at one
\* moment, with an answer about each package that was right at a moment of its run or at
\* most CacheAge before; for any lockfiles, policies and histories of the world.
THEOREM CommandsDoActAtomically == ASSUME ~Racing PROVE Spec => CommandsAreAtomic
PROOF
<1>1. Init => RestInv /\ HeardInv
  BY DEF Init, RestInv, HeardInv
<1>2. IInv /\ RestInv /\ HeardInv /\ [Next]_vars => RestInv' /\ HeardInv'
  BY ~Racing, RestInductive, HeardInductive
<1>3. Init => Atomic!Init
  <2> SUFFICES ASSUME Init PROVE Atomic!Init
    OBVIOUS
  <2>1. cmd.at = "over" /\ lock = Missing
    BY DEF Init
  <2> QED
    BY <2>1 DEF Atomic!Init, OnRecord, Phase
<1>4. IInv /\ RestInv /\ HeardInv /\ [Next]_vars => [Atomic!Next]_<<Atomic!project, OnRecord, Atomic!command>>
  BY ~Racing, StepsAreAtomic DEF AtRest
<1> QED
  BY <1>1, <1>2, <1>3, <1>4, Inductive, PTL DEF Spec, CommandsAreAtomic, Atomic!Spec

-----------------------------------------------------------------------------
\* The audit log.

\* A run that has not begun has nothing anywhere; a run that fits in its buffer
\* has nothing in the log before it ends.
Untouched ==
  \A p \in Runs :
    /\ state[p] = "ready" => written[p] = 0 /\ buffer[p] = <<>> /\ InLog(p) = 0
    /\ state[p] = "writing" /\ Total(p) <= Capacity => InLog(p) = 0

LogIInv == LogTypeOK /\ EachRunInOrder /\ Untouched /\ SmallRunsWhole

-----------------------------------------------------------------------------
\* Division with remainder.
LEMMA DivMod ==
  ASSUME NEW P \in Nat \ {0}, NEW k \in Nat
  PROVE  k % P \in 0 .. (P - 1) /\ k \div P \in Nat /\ (k \div P) * P + (k % P) = k
PROOF
<1>1. k % P \in 0 .. (P - 1) /\ k \div P \in Nat
  OBVIOUS
<1>2. P * (k \div P) + (k % P) = k
  OBVIOUS
<1>3. \A d \in Nat : P * d = d * P
  OBVIOUS
<1> QED
  BY <1>1, <1>2, <1>3

LEMMA ModLast ==
  ASSUME NEW P \in Nat \ {0}, NEW r \in Nat \ {0}
  PROVE  (r * P - 1) % P = P - 1 /\ r * P \in Nat \ {0}
PROOF
<1>1. r * P - 1 = (r - 1) * P + (P - 1) /\ r * P \in Nat /\ (r - 1) * P \in Nat
  OBVIOUS
<1> QED
  BY <1>1

\* The pieces of a run are numbered: each is followed by the next one, and the
\* last of its records ends with a newline.
LEMMA PieceType ==
  ASSUME NEW p \in Runs, NEW n \in Nat \ {0}
  PROVE  /\ Piece(p, n) \in AnyPiece
         /\ Piece(p, n).run = p
         /\ Piece(p, n).record * Pieces + Piece(p, n).part = n
PROOF
<1> DEFINE k == n - 1
<1>1. k \in Nat /\ Pieces \in Nat \ {0}
  BY AuditAssumption
<1>2. k % Pieces \in 0 .. (Pieces - 1) /\ k \div Pieces \in Nat
      /\ (k \div Pieces) * Pieces + (k % Pieces) = k
  BY <1>1, DivMod
<1>3. (k \div Pieces) * Pieces \in Nat
  BY <1>1, <1>2
<1>4. (k \div Pieces) * Pieces + ((k % Pieces) + 1) = n
  BY <1>1, <1>2, <1>3
<1> QED
  BY <1>1, <1>2, <1>4 DEF Piece, AnyPiece

LEMMA TotalType ==
  ASSUME LogTypeOK, NEW p \in Runs
  PROVE  Total(p) \in Nat \ {0} /\ Piece(p, Total(p)).part = Pieces
PROOF
<1>1. records[p] \in Nat \ {0} /\ Pieces \in Nat \ {0}
  BY AuditAssumption DEF LogTypeOK
<1>2. (records[p] * Pieces - 1) % Pieces = Pieces - 1 /\ records[p] * Pieces \in Nat \ {0}
  BY <1>1, ModLast, Zenon
<1> QED
  BY <1>1, <1>2 DEF Total, Piece

\* A set of positions, and positions after them.
LEMMA Joined ==
  ASSUME NEW S, IsFiniteSet(S), NEW n \in Nat, NEW i \in Nat, n <= i,
         S \cap ((n + 1) .. i) = {}
  PROVE  Cardinality(S \cup ((n + 1) .. i)) = Cardinality(S) + (i - n)
PROOF
<1> DEFINE a == n + 1
           T == a .. i
<1>1. a \in Int /\ i \in Int
  OBVIOUS
<1>2. (IF a > i THEN 0 ELSE i - a + 1) = i - n
  OBVIOUS
<1> HIDE DEF a
<1>3. IsFiniteSet(T) /\ Cardinality(T) = IF a > i THEN 0 ELSE i - a + 1
  BY <1>1, FS_Interval, Zenon
<1>4. Cardinality({}) = 0
  BY FS_EmptySet
<1>5. S \cap T = {}
  BY DEF a
<1> HIDE DEF T
<1>6. Cardinality(S \cup T) = Cardinality(S) + Cardinality(T) - Cardinality(S \cap T)
  BY <1>3, FS_Union, Zenon
<1>7. Cardinality(S) \in Nat
  BY FS_CardinalityType
<1>8. Cardinality(S \cup T) = Cardinality(S) + (i - n)
  <2>1. Cardinality(S \cap T) = 0
    BY <1>4, <1>5, Zenon
  <2>2. Cardinality(T) = i - n
    BY <1>2, <1>3
  <2> QED
    BY <1>6, <1>7, <2>1, <2>2
<1> QED
  BY <1>8 DEF T, a

LEMMA UptoType ==
  ASSUME NEW p, NEW i \in Nat
  PROVE  /\ IsFiniteSet({j \in 1 .. i : file[j].run = p})
         /\ Upto(p, i) \in Nat
PROOF
<1>1. IsFiniteSet(1 .. i)
  BY FS_Interval
<1>2. {j \in 1 .. i : file[j].run = p} \subseteq 1 .. i
  OBVIOUS
<1> QED
  BY <1>1, <1>2, FS_Subset, FS_CardinalityType DEF Upto

-----------------------------------------------------------------------------
\* A run's buffer is put at the end of the log: its own count grows by it, the
\* others' do not, and what was there stays where it was.
LEMMA Flush ==
  ASSUME LogTypeOK, NEW p \in Runs, file' = file \o buffer[p],
         \A j \in DOMAIN buffer[p] : buffer[p][j].run = p
  PROVE  /\ Len(file') = Len(file) + Len(buffer[p])
         /\ \A i \in 1 .. Len(file) : file'[i] = file[i]
         /\ \A j \in 1 .. Len(buffer[p]) : file'[Len(file) + j] = buffer[p][j]
         /\ \A q \in Runs, i \in 0 .. Len(file) : Upto(q, i)' = Upto(q, i)
         /\ \A i \in Len(file) .. Len(file) + Len(buffer[p]) :
              Upto(p, i)' = InLog(p) + (i - Len(file))
         /\ InLog(p)' = InLog(p) + Len(buffer[p])
         /\ \A q \in Runs \ {p} : InLog(q)' = InLog(q)
PROOF
<1> DEFINE n == Len(file)
           m == Len(buffer[p])
           Mine(q, i) == {j \in 1 .. i : file[j].run = q}
           Mine2(q, i) == {j \in 1 .. i : file'[j].run = q}
<1>1. n \in Nat /\ m \in Nat /\ file \in Seq(AnyPiece) /\ buffer[p] \in Seq(AnyPiece)
  BY DEF LogTypeOK
<1>2. /\ Len(file') = n + m
      /\ \A i \in 1 .. n : file'[i] = file[i]
      /\ \A j \in 1 .. m : file'[n + j] = buffer[p][j]
  BY <1>1
<1>3. \A j \in 1 .. m : file'[n + j].run = p
  BY <1>1, <1>2
<1>4. \A q \in Runs, i \in 0 .. n : Upto(q, i)' = Upto(q, i)
  <2> SUFFICES ASSUME NEW q \in Runs, NEW i \in 0 .. n PROVE Upto(q, i)' = Upto(q, i)
    OBVIOUS
  <2>1. Mine2(q, i) = Mine(q, i)
    BY <1>1, <1>2
  <2> QED
    BY <2>1 DEF Upto
<1>5. ASSUME NEW i \in n .. (n + m) PROVE Cardinality(Mine2(p, i)) = InLog(p) + (i - n)
  <2>1. Mine2(p, i) = Mine(p, n) \cup ((n + 1) .. i)
    <3>1. \A k \in 1 .. i : k \in 1 .. n \/ (k - n \in 1 .. m /\ k = n + (k - n))
      BY <1>1
    <3> QED
      BY <1>1, <1>2, <1>3, <3>1
  <2>2. Mine(p, n) \cap ((n + 1) .. i) = {}
    BY <1>1
  <2>3. IsFiniteSet(Mine(p, n)) /\ Cardinality(Mine(p, n)) \in Nat
    BY <1>1, UptoType DEF Upto
  <2>4. Cardinality(Mine2(p, i)) = Cardinality(Mine(p, n)) + (i - n)
    <3>1. n \in Nat /\ i \in Nat /\ n <= i
      BY <1>1
    <3> HIDE DEF n, Mine, Mine2
    <3> QED
      BY <2>1, <2>2, <2>3, <3>1, Joined, Zenon
  <2>5. InLog(p) = Cardinality(Mine(p, n))
    BY DEF Upto, InLog
  <2> QED
    BY <2>4, <2>5
<1>6. ASSUME NEW q \in Runs \ {p} PROVE InLog(q)' = InLog(q)
  <2>1. Mine2(q, n + m) = Mine(q, n)
    <3>1. \A k \in 1 .. (n + m) : k \in 1 .. n \/ (k - n \in 1 .. m /\ k = n + (k - n))
      BY <1>1
    <3> QED
      BY <1>1, <1>2, <1>3, <3>1
  <2> QED
    BY <1>2, <2>1 DEF Upto, InLog
<1>7. \A i \in n .. (n + m) : Upto(p, i)' = InLog(p) + (i - n)
  BY <1>5 DEF Upto
<1>8. InLog(p)' = InLog(p) + m
  <2>1. InLog(p)' = Cardinality(Mine2(p, n + m))
    BY <1>2 DEF InLog, Upto
  <2>2. n + m \in n .. (n + m) /\ (n + m) - n = m
    BY <1>1
  <2> HIDE DEF n, m, Mine2
  <2> QED
    BY <1>5, <2>1, <2>2
<1> QED
  BY <1>2, <1>4, <1>6, <1>7, <1>8

\* A buffer holds pieces of its own run only.
LEMMA BufferOwn ==
  ASSUME LogTypeOK, EachRunInOrder, NEW p \in Runs, state[p] = "writing"
  PROVE  /\ InLog(p) \in Nat
         /\ \A j \in DOMAIN buffer[p] : buffer[p][j] = Piece(p, InLog(p) + j) /\ buffer[p][j].run = p
PROOF
<1>1. file \in Seq(AnyPiece) /\ buffer[p] \in Seq(AnyPiece)
  BY DEF LogTypeOK
<1>2. InLog(p) \in Nat
  <2>1. Len(file) \in Nat
    BY <1>1
  <2> QED
    BY <2>1, UptoType, Zenon DEF InLog
<1>3. \A j \in DOMAIN buffer[p] : InLog(p) + j \in Nat \ {0}
  BY <1>1, <1>2
<1> QED
  BY <1>2, <1>3, PieceType DEF EachRunInOrder

\* After a flush every run's part of the log is still in order.
LEMMA FlushInOrder ==
  ASSUME LogTypeOK, EachRunInOrder, NEW p \in Runs, state[p] = "writing",
         file' = file \o buffer[p]
  PROVE  /\ \A q \in Runs : \A i \in DOMAIN file' :
              file'[i].run = q => file'[i] = Piece(q, Upto(q, i)')
         /\ file' \in Seq(AnyPiece)
         /\ InLog(p)' = written[p]
         /\ \A q \in Runs \ {p} : InLog(q)' = InLog(q)
         /\ Len(file') = Len(file) + Len(buffer[p]) /\ Len(file) \in Nat /\ Len(buffer[p]) \in Nat
         /\ \A i \in 1 .. Len(file) : file'[i] = file[i]
         /\ \A j \in 1 .. Len(buffer[p]) : file'[Len(file) + j] = Piece(p, InLog(p) + j)
PROOF
<1> DEFINE n == Len(file)
           m == Len(buffer[p])
<1>1. n \in Nat /\ m \in Nat /\ file \in Seq(AnyPiece) /\ buffer[p] \in Seq(AnyPiece)
  BY DEF LogTypeOK
<1>2. /\ InLog(p) \in Nat
      /\ \A j \in 1 .. m : buffer[p][j] = Piece(p, InLog(p) + j) /\ buffer[p][j].run = p
  BY <1>1, BufferOwn
<1>3. \A j \in DOMAIN buffer[p] : buffer[p][j].run = p
  BY <1>1, <1>2
<1>4. /\ Len(file') = n + m
      /\ \A i \in 1 .. n : file'[i] = file[i]
      /\ \A j \in 1 .. m : file'[n + j] = buffer[p][j]
      /\ \A q \in Runs, i \in 0 .. n : Upto(q, i)' = Upto(q, i)
      /\ \A i \in n .. n + m : Upto(p, i)' = InLog(p) + (i - n)
      /\ InLog(p)' = InLog(p) + m
      /\ \A q \in Runs \ {p} : InLog(q)' = InLog(q)
  BY <1>3, Flush
<1>5. file' \in Seq(AnyPiece) /\ DOMAIN file' = 1 .. (n + m)
  BY <1>1
<1>6. InLog(p)' = written[p]
  BY <1>4 DEF EachRunInOrder
<1>7. ASSUME NEW q \in Runs, NEW i \in DOMAIN file', file'[i].run = q
      PROVE  file'[i] = Piece(q, Upto(q, i)')
  <2>1. CASE i \in 1 .. n
    <3>1. file'[i] = file[i] /\ i \in DOMAIN file /\ Upto(q, i)' = Upto(q, i)
      BY <1>1, <1>4, <2>1
    <3> QED
      BY <1>7, <3>1 DEF EachRunInOrder
  <2>2. CASE i \notin 1 .. n
    <3>1. i - n \in 1 .. m /\ i = n + (i - n) /\ i \in n .. n + m
      BY <1>1, <1>5, <2>2
    <3>2. file'[i] = Piece(p, InLog(p) + (i - n)) /\ file'[i].run = p
      BY <1>2, <1>4, <3>1
    <3>3. q = p /\ Upto(p, i)' = InLog(p) + (i - n)
      BY <1>4, <1>7, <3>1, <3>2
    <3> QED
      BY <3>2, <3>3
  <2> QED
    BY <2>1, <2>2
<1> QED
  BY <1>1, <1>2, <1>4, <1>5, <1>6, <1>7

\* A flush keeps runs that fit in their buffer in one piece, if it is not before
\* their end.
LEMMA FlushWhole ==
  ASSUME LogIInv, NEW p \in Runs, state[p] = "writing", file' = file \o buffer[p],
         records' = records, Total(p) <= Capacity => written[p] = Total(p)
  PROVE  SmallRunsWhole'
PROOF
<1> DEFINE n == Len(file)
           m == Len(buffer[p])
<1>1. LogTypeOK /\ EachRunInOrder /\ SmallRunsWhole /\ Untouched
  BY DEF LogIInv
<1>2. /\ n \in Nat /\ m \in Nat /\ Len(file') = n + m /\ file' \in Seq(AnyPiece)
      /\ \A i \in 1 .. n : file'[i] = file[i]
      /\ \A j \in 1 .. m : file'[n + j] = Piece(p, InLog(p) + j)
  BY <1>1, FlushInOrder
<1>3. /\ DOMAIN file' = 1 .. (n + m) /\ DOMAIN file = 1 .. n
      /\ \A q \in Runs : Total(q)' = Total(q)
  BY <1>1, <1>2 DEF LogTypeOK, Total
<1>4. ASSUME Total(p) <= Capacity, NEW i \in (n + 1) .. (n + m)
      PROVE  \/ file'[i] = Piece(p, Total(p))
             \/ i < n + m /\ file'[i + 1].run = p /\ LineIntact(i)'
  <2>1. InLog(p) = 0 /\ m = Total(p)
    BY <1>1, <1>2, <1>4 DEF Untouched, EachRunInOrder
  <2>2. PICK j \in 1 .. m : i = n + j
    <3>1. i - n \in 1 .. m /\ i = n + (i - n)
      BY <1>2
    <3> QED
      BY <3>1
  <2>3. file'[i] = Piece(p, j)
    BY <1>2, <2>1, <2>2
  <2>4. CASE j # m
    <3>1. j + 1 \in 1 .. m /\ i + 1 = n + (j + 1) /\ i < n + m /\ j + 1 \in Nat \ {0}
          /\ j \in Nat \ {0}
      BY <1>2, <2>2, <2>4
    <3>2. file'[i + 1] = Piece(p, j + 1)
      <4>1. file'[n + (j + 1)] = Piece(p, 0 + (j + 1))
        BY <1>2, <2>1, <3>1, Zenon
      <4> QED
        BY <3>1, <4>1
    <3>3. file'[i + 1].run = p
      BY <3>1, <3>2, PieceType, Zenon
    <3>4. Piece(p, j + 1) = Piece(file'[i].run, file'[i].record * Pieces + file'[i].part + 1)
      <4>1. file'[i].run = p /\ file'[i].record * Pieces + file'[i].part = j
        <5>1. Piece(p, j).run = p /\ Piece(p, j).record * Pieces + Piece(p, j).part = j
          BY <3>1, PieceType, Zenon
        <5> QED
          BY <2>3, <5>1
      <4> QED
        BY <4>1, Zenon
    <3>5. LineIntact(i)'
      BY <3>2, <3>4, Zenon DEF LineIntact
    <3> QED
      BY <3>1, <3>3, <3>5
  <2> QED
    BY <2>1, <2>3, <2>4
<1>5. ASSUME NEW i \in 1 .. n, i < n
      PROVE  file'[i + 1] = file[i + 1] /\ (LineIntact(i) => LineIntact(i)')
  <2>1. i + 1 \in 1 .. n /\ file'[i + 1] = file[i + 1] /\ file'[i] = file[i]
    BY <1>2, <1>5
  <2> QED
    BY <2>1 DEF LineIntact
<1>6. ASSUME NEW q \in Runs, Total(q) <= Capacity, NEW i \in 1 .. (n + m), file'[i].run = q
      PROVE  file'[i] = Piece(q, Total(q)) \/ (i < n + m /\ file'[i + 1].run = q /\ LineIntact(i)')
  <2>1. CASE i \in 1 .. n
    <3>1. file'[i] = file[i]
      BY <1>2, <2>1
    <3>2. file[i] = Piece(q, Total(q)) \/ (i < n /\ file[i + 1].run = q /\ LineIntact(i))
      BY <1>1, <1>3, <1>6, <2>1, <3>1 DEF SmallRunsWhole
    <3>3. CASE i < n /\ file[i + 1].run = q /\ LineIntact(i)
      <4>1. i < n + m
        BY <1>2, <3>3
      <4> QED
        BY <1>5, <2>1, <3>3, <4>1
    <3> QED
      BY <3>1, <3>2, <3>3
  <2>2. CASE i \notin 1 .. n
    <3>1. i \in (n + 1) .. (n + m)
      BY <1>2, <2>2
    <3>2. q = p
      <4>1. i - n \in 1 .. m /\ i = n + (i - n) /\ InLog(p) \in Nat
        BY <1>1, <1>2, <3>1, BufferOwn
      <4>2. file'[i] = Piece(p, InLog(p) + (i - n)) /\ InLog(p) + (i - n) \in Nat \ {0}
        BY <1>2, <4>1
      <4> QED
        BY <1>6, <4>2, PieceType, Zenon
    <3> QED
      BY <1>4, <1>6, <3>1, <3>2
  <2> QED
    BY <2>1, <2>2
<1>7. ASSUME \A q \in Runs : Total(q) <= Capacity, NEW i \in 1 .. (n + m - 1)
      PROVE  LineIntact(i)'
  <2>1. CASE i < n
    <3>1. i \in 1 .. n /\ i \in 1 .. (n - 1)
      BY <1>2, <2>1
    <3>2. LineIntact(i)
      BY <1>1, <1>7, <3>1 DEF SmallRunsWhole
    <3> QED
      BY <1>5, <2>1, <3>1, <3>2
  <2>2. CASE i = n
    <3>1. i \in DOMAIN file /\ file'[i] = file[i] /\ file[i] \in AnyPiece /\ ~(i < n)
      BY <1>1, <1>2, <1>3, <2>2 DEF LogTypeOK
    <3>2. PICK q \in Runs : file[i].run = q
      BY <3>1 DEF AnyPiece
    <3>3. file[i] = Piece(q, Total(q))
      BY <1>1, <1>7, <3>1, <3>2 DEF SmallRunsWhole
    <3>4. file[i].part = Pieces
      BY <1>1, <3>3, TotalType
    <3> QED
      BY <3>1, <3>4 DEF LineIntact
  <2>3. CASE i > n
    <3>1. i \in (n + 1) .. (n + m)
      BY <1>2, <2>3
    <3>2. CASE file'[i] = Piece(p, Total(p))
      <4>1. Piece(p, Total(p)).part = Pieces
        BY <1>1, TotalType
      <4> QED
        BY <3>2, <4>1 DEF LineIntact
    <3> QED
      BY <1>4, <1>7, <3>1, <3>2
  <2> QED
    BY <1>2, <2>1, <2>2, <2>3
<1>8. \A q \in Runs : Total(q)' <= Capacity =>
        \A i \in DOMAIN file' : file'[i].run = q =>
          file'[i] = Piece(q, Total(q)') \/ (i < Len(file') /\ file'[i + 1].run = q /\ LineIntact(i)')
  <2> SUFFICES ASSUME NEW q \in Runs, Total(q)' <= Capacity, NEW i \in DOMAIN file', file'[i].run = q
               PROVE  file'[i] = Piece(q, Total(q)')
                      \/ (i < Len(file') /\ file'[i + 1].run = q /\ LineIntact(i)')
    OBVIOUS
  <2>1. Total(q)' = Total(q) /\ Total(q) <= Capacity /\ i \in 1 .. (n + m) /\ Len(file') = n + m
    BY <1>2, <1>3
  <2> QED
    BY <1>6, <2>1
<1>9. (\A q \in Runs : Total(q)' <= Capacity) => \A i \in 1 .. (Len(file') - 1) : LineIntact(i)'
  <2> SUFFICES ASSUME \A q \in Runs : Total(q)' <= Capacity, NEW i \in 1 .. (Len(file') - 1)
               PROVE  LineIntact(i)'
    OBVIOUS
  <2>1. (\A q \in Runs : Total(q) <= Capacity) /\ i \in 1 .. (n + m - 1)
    BY <1>2, <1>3
  <2> QED
    BY <1>7, <2>1
<1> QED
  BY <1>8, <1>9 DEF SmallRunsWhole, Piece

-----------------------------------------------------------------------------
\* Nothing is in the log, and every run is there to begin.
LEMMA LogInitInv == LogInit => LogIInv
PROOF
<1> SUFFICES ASSUME LogInit PROVE LogIInv
  OBVIOUS
<1>1. file = <<>> /\ Len(file) = 0 /\ DOMAIN file = {}
  BY DEF LogInit
<1>2. \A p \in Runs : InLog(p) = 0
  <2>1. \A p \in Runs : {j \in 1 .. 0 : file[j].run = p} = {}
    OBVIOUS
  <2> QED
    BY <1>1, <2>1, FS_EmptySet DEF InLog, Upto
<1>3. LogTypeOK
  <2>1. ASSUME NEW p \in Runs PROVE Total(p) \in Nat
    <3>1. records[p] \in Nat /\ Pieces \in Nat
      BY AuditAssumption DEF LogInit
    <3>2. records[p] * Pieces \in Nat
      BY <3>1
    <3> QED
      BY <3>2 DEF Total
  <2> QED
    BY <2>1, AuditAssumption DEF LogInit, LogTypeOK
<1>4. EachRunInOrder
  BY <1>1, <1>2 DEF LogInit, EachRunInOrder
<1>5. Untouched
  BY <1>2 DEF LogInit, Untouched
<1>6. SmallRunsWhole
  BY <1>1 DEF SmallRunsWhole
<1> QED
  BY <1>3, <1>4, <1>5, <1>6 DEF LogIInv

\* A step that leaves the log alone, and the number of records.
LEMMA SameLog ==
  ASSUME file' = file, records' = records
  PROVE  /\ \A p, i : Upto(p, i)' = Upto(p, i)
         /\ \A p : InLog(p)' = InLog(p) /\ Total(p)' = Total(p)
         /\ SmallRunsWhole => SmallRunsWhole'
PROOF
<1>1. \A p, i : Upto(p, i)' = Upto(p, i)
  BY DEF Upto
<1>2. \A p : InLog(p)' = InLog(p) /\ Total(p)' = Total(p)
  BY DEF InLog, Upto, Total
<1>3. SmallRunsWhole => SmallRunsWhole'
  BY DEF SmallRunsWhole, LineIntact, Total, Piece
<1> QED
  BY <1>1, <1>2, <1>3

\* The type invariant after a step, from facts about the new values alone.
LEMMA TypeNext ==
  ASSUME records' \in [Runs -> Sizes], file' \in Seq(AnyPiece), buffer' \in [Runs -> Seq(AnyPiece)],
         written' \in [Runs -> Nat], state' \in [Runs -> {"ready", "writing", "done", "dead"}],
         \A q \in Runs : Len(buffer'[q]) <= Capacity /\ written'[q] <= Total(q)'
  PROVE  LogTypeOK'
PROOF
<1>1. AnyPiece' = AnyPiece
  BY DEF AnyPiece
<1> QED
  BY <1>1, Zenon DEF LogTypeOK

\* A run begins: what it has in the log is nothing.
LEMMA OpenInv == ASSUME LogIInv, NEW p \in Runs, Open(p) PROVE LogIInv'
PROOF
<1>1. /\ LogTypeOK /\ EachRunInOrder /\ Untouched /\ SmallRunsWhole
      /\ file' = file /\ records' = records /\ buffer' = buffer /\ written' = written
      /\ state[p] = "ready" /\ state' = [state EXCEPT ![p] = "writing"]
  BY DEF LogIInv, Open
<1>2. /\ \A q, i : Upto(q, i)' = Upto(q, i)
      /\ \A q : InLog(q)' = InLog(q) /\ Total(q)' = Total(q)
      /\ SmallRunsWhole'
  BY <1>1, SameLog
<1>3. LogTypeOK'
  BY <1>1, <1>2 DEF LogTypeOK, AnyPiece
<1>4. written[p] = 0 /\ buffer[p] = <<>> /\ InLog(p) = 0
  BY <1>1 DEF Untouched
<1>5. \A q \in Runs : q # p => state'[q] = state[q]
  BY <1>1 DEF LogTypeOK
<1>6. state'[p] = "writing"
  BY <1>1 DEF LogTypeOK
<1>7. EachRunInOrder'
  <2>1. ASSUME NEW q \in Runs, NEW i \in DOMAIN file', file'[i].run = q
        PROVE  file'[i] = Piece(q, Upto(q, i)')
    BY <1>1, <1>2, <2>1 DEF EachRunInOrder
  <2>2. ASSUME NEW q \in Runs, state'[q] = "writing"
        PROVE  /\ written'[q] = InLog(q)' + Len(buffer'[q])
               /\ \A j \in DOMAIN buffer'[q] : buffer'[q][j] = Piece(q, InLog(q)' + j)
    BY <1>1, <1>2, <1>4, <1>5, <2>2 DEF EachRunInOrder
  <2>3. ASSUME NEW q \in Runs, state'[q] = "done" PROVE InLog(q)' = Total(q)'
    BY <1>1, <1>2, <1>5, <1>6, <2>3 DEF EachRunInOrder
  <2> QED
    BY <2>1, <2>2, <2>3 DEF EachRunInOrder, Piece
<1>8. Untouched'
  BY <1>1, <1>2, <1>4, <1>5, <1>6 DEF Untouched
<1> QED
  BY <1>2, <1>3, <1>7, <1>8 DEF LogIInv

\* A run produces its next piece, into its buffer or after writing it out.
LEMMA PutInv == ASSUME LogIInv, NEW p \in Runs, Put(p) PROVE LogIInv'
PROOF
<1> DEFINE n == InLog(p)
           next == Piece(p, written[p] + 1)
<1>1. /\ LogTypeOK /\ EachRunInOrder /\ Untouched /\ SmallRunsWhole
      /\ records' = records /\ state' = state
      /\ state[p] = "writing" /\ written[p] < Total(p)
      /\ written' = [written EXCEPT ![p] = @ + 1]
  BY DEF LogIInv, Put
<1>2. /\ written[p] \in Nat /\ Capacity \in Nat \ {0} /\ buffer[p] \in Seq(AnyPiece)
      /\ Len(buffer[p]) \in Nat /\ Len(buffer[p]) <= Capacity
      /\ Total(p) \in Nat /\ n \in Nat
      /\ written[p] = n + Len(buffer[p])
  BY <1>1, AuditAssumption, TotalType, BufferOwn DEF LogTypeOK, EachRunInOrder
<1>3. next \in AnyPiece /\ written[p] + 1 \in Nat \ {0}
  BY <1>2, PieceType
<1>4. \A q \in Runs : Total(q)' = Total(q)
  BY <1>1 DEF Total
<1>5. /\ written' \in [Runs -> Nat] /\ written'[p] = written[p] + 1
      /\ \A q \in Runs \ {p} : written'[q] = written[q]
      /\ \A q \in Runs : written'[q] <= Total(q)'
  BY <1>1, <1>2, <1>4 DEF LogTypeOK
<1>6. CASE Len(buffer[p]) < Capacity
  <2>1. file' = file /\ buffer' = [buffer EXCEPT ![p] = Append(@, next)]
    BY <1>6 DEF Put
  <2>2. /\ \A q, i : Upto(q, i)' = Upto(q, i)
        /\ \A q : InLog(q)' = InLog(q)
        /\ SmallRunsWhole'
    BY <1>1, <2>1, SameLog
  <2>3. /\ buffer' \in [Runs -> Seq(AnyPiece)] /\ buffer'[p] = Append(buffer[p], next)
        /\ \A q \in Runs \ {p} : buffer'[q] = buffer[q]
        /\ Len(buffer'[p]) = Len(buffer[p]) + 1
    BY <1>1, <1>2, <1>3, <2>1 DEF LogTypeOK
  <2>4. LogTypeOK'
    <3>1. \A q \in Runs : Len(buffer'[q]) <= Capacity
      <4>1. \A q \in Runs \ {p} : Len(buffer'[q]) <= Capacity
        BY <1>1, <2>3, Zenon DEF LogTypeOK
      <4>2. Len(buffer'[p]) <= Capacity
        BY <1>2, <1>6, <2>3
      <4> QED
        BY <4>1, <4>2, Zenon
    <3>2. records' \in [Runs -> Sizes] /\ file' \in Seq(AnyPiece)
          /\ state' \in [Runs -> {"ready", "writing", "done", "dead"}]
      BY <1>1, <2>1 DEF LogTypeOK
    <3> QED
      BY <1>5, <2>3, <3>1, <3>2, TypeNext
  <2>5. \A j \in DOMAIN buffer'[p] : buffer'[p][j] = Piece(p, n + j)
    <3> SUFFICES ASSUME NEW j \in DOMAIN buffer'[p] PROVE buffer'[p][j] = Piece(p, n + j)
      OBVIOUS
    <3>1. CASE j \in DOMAIN buffer[p]
      <4>1. buffer'[p][j] = buffer[p][j]
        BY <1>2, <1>3, <2>3, <3>1
      <4> QED
        BY <1>1, <3>1, <4>1 DEF EachRunInOrder
    <3>2. CASE j \notin DOMAIN buffer[p]
      <4>1. j = Len(buffer[p]) + 1 /\ buffer'[p][j] = next /\ written[p] + 1 = n + j
        <5>1. j \in 1 .. (Len(buffer[p]) + 1) /\ ~(j \in 1 .. Len(buffer[p]))
          BY <1>2, <2>3, <3>2
        <5>2. Append(buffer[p], next)[Len(buffer[p]) + 1] = next
          BY <1>2, <1>3
        <5>3. j = Len(buffer[p]) + 1
          BY <1>2, <5>1
        <5>4. buffer'[p][j] = next
          BY <2>3, <5>2, <5>3
        <5> QED
          BY <1>2, <5>3, <5>4
      <4> QED
        BY <4>1
    <3> QED
      BY <3>1, <3>2
  <2>6. EachRunInOrder'
    <3>1. ASSUME NEW q \in Runs, NEW i \in DOMAIN file', file'[i].run = q
          PROVE  file'[i] = Piece(q, Upto(q, i)')
      BY <1>1, <2>1, <2>2, <3>1 DEF EachRunInOrder
    <3>2. ASSUME NEW q \in Runs, state'[q] = "writing"
          PROVE  /\ written'[q] = InLog(q)' + Len(buffer'[q])
                 /\ \A j \in DOMAIN buffer'[q] : buffer'[q][j] = Piece(q, InLog(q)' + j)
      <4>1. CASE q = p
        <5>1. written'[q] = InLog(q)' + Len(buffer'[q])
          BY <1>2, <1>5, <2>2, <2>3, <4>1
        <5> QED
          BY <2>2, <2>5, <4>1, <5>1
      <4>2. CASE q # p
        BY <1>1, <1>5, <2>2, <2>3, <3>2, <4>2 DEF EachRunInOrder
      <4> QED
        BY <4>1, <4>2
    <3>3. ASSUME NEW q \in Runs, state'[q] = "done" PROVE InLog(q)' = Total(q)'
      BY <1>1, <1>4, <2>2, <3>3 DEF EachRunInOrder
    <3> QED
      BY <3>1, <3>2, <3>3 DEF EachRunInOrder, Piece
  <2>7. Untouched'
    BY <1>1, <1>4, <1>5, <2>2, <2>3 DEF Untouched
  <2> QED
    BY <2>2, <2>4, <2>6, <2>7 DEF LogIInv
<1>7. CASE ~(Len(buffer[p]) < Capacity)
  <2>1. file' = file \o buffer[p] /\ buffer' = [buffer EXCEPT ![p] = <<next>>]
    BY <1>7 DEF Put
  <2>2. ~(Total(p) <= Capacity)
    <3>1. Total(p) <= Capacity => n = 0
      BY <1>1 DEF Untouched
    <3> QED
      BY <1>1, <1>2, <1>7, <3>1
  <2>3. /\ \A q \in Runs : \A i \in DOMAIN file' :
              file'[i].run = q => file'[i] = Piece(q, Upto(q, i)')
        /\ file' \in Seq(AnyPiece)
        /\ InLog(p)' = written[p]
        /\ \A q \in Runs \ {p} : InLog(q)' = InLog(q)
    BY <1>1, <2>1, FlushInOrder
  <2>4. SmallRunsWhole'
    BY <1>1, <2>1, <2>2, FlushWhole
  <2>5. /\ buffer' \in [Runs -> Seq(AnyPiece)] /\ buffer'[p] = <<next>>
        /\ \A q \in Runs \ {p} : buffer'[q] = buffer[q]
        /\ Len(buffer'[p]) = 1
    BY <1>1, <1>2, <1>3, <2>1 DEF LogTypeOK
  <2>6. LogTypeOK'
    <3>1. \A q \in Runs : Len(buffer'[q]) <= Capacity
      <4>1. \A q \in Runs \ {p} : Len(buffer'[q]) <= Capacity
        BY <1>1, <2>5, Zenon DEF LogTypeOK
      <4>2. Len(buffer'[p]) <= Capacity
        BY <1>2, <2>5
      <4> QED
        BY <4>1, <4>2, Zenon
    <3>2. records' \in [Runs -> Sizes] /\ state' \in [Runs -> {"ready", "writing", "done", "dead"}]
      BY <1>1 DEF LogTypeOK
    <3> QED
      BY <1>5, <2>3, <2>5, <3>1, <3>2, TypeNext
  <2>7. EachRunInOrder'
    <3>1. ASSUME NEW q \in Runs, state'[q] = "writing"
          PROVE  /\ written'[q] = InLog(q)' + Len(buffer'[q])
                 /\ \A j \in DOMAIN buffer'[q] : buffer'[q][j] = Piece(q, InLog(q)' + j)
      <4>1. CASE q = p
        <5>1. DOMAIN buffer'[p] = {1} /\ buffer'[p][1] = next
          BY <2>5
        <5> QED
          BY <1>2, <1>5, <2>3, <2>5, <4>1, <5>1
      <4>2. CASE q # p
        BY <1>1, <1>5, <2>3, <2>5, <3>1, <4>2 DEF EachRunInOrder
      <4> QED
        BY <4>1, <4>2
    <3>2. ASSUME NEW q \in Runs, state'[q] = "done" PROVE InLog(q)' = Total(q)'
      <4>1. q # p
        BY <1>1, <3>2
      <4> QED
        BY <1>1, <1>4, <2>3, <3>2, <4>1 DEF EachRunInOrder
    <3> QED
      BY <2>3, <3>1, <3>2 DEF EachRunInOrder, Piece
  <2>8. Untouched'
    BY <1>1, <1>4, <1>5, <2>2, <2>3, <2>5 DEF Untouched
  <2> QED
    BY <2>4, <2>6, <2>7, <2>8 DEF LogIInv
<1> QED
  BY <1>6, <1>7

\* A run ends: all it had to say is in the log.
LEMMA FinishInv == ASSUME LogIInv, NEW p \in Runs, Finish(p) PROVE LogIInv'
PROOF
<1>1. /\ LogTypeOK /\ EachRunInOrder /\ Untouched /\ SmallRunsWhole
      /\ records' = records /\ written' = written /\ state[p] = "writing" /\ written[p] = Total(p)
      /\ file' = file \o buffer[p] /\ buffer' = [buffer EXCEPT ![p] = <<>>]
      /\ state' = [state EXCEPT ![p] = "done"]
  BY DEF LogIInv, Finish
<1>2. /\ \A q \in Runs : \A i \in DOMAIN file' :
            file'[i].run = q => file'[i] = Piece(q, Upto(q, i)')
      /\ file' \in Seq(AnyPiece)
      /\ InLog(p)' = written[p]
      /\ \A q \in Runs \ {p} : InLog(q)' = InLog(q)
  BY <1>1, FlushInOrder
<1>3. SmallRunsWhole'
  BY <1>1, FlushWhole
<1>4. /\ buffer' \in [Runs -> Seq(AnyPiece)] /\ buffer'[p] = <<>> /\ state'[p] = "done"
      /\ state' \in [Runs -> {"ready", "writing", "done", "dead"}]
      /\ \A q \in Runs \ {p} : buffer'[q] = buffer[q] /\ state'[q] = state[q]
      /\ \A q \in Runs : Total(q)' = Total(q)
  BY <1>1 DEF LogTypeOK, Total
<1>5. LogTypeOK'
  <2>1. \A q \in Runs : Len(buffer'[q]) <= Capacity /\ written'[q] <= Total(q)'
    <3>1. Len(buffer'[p]) = 0 /\ 0 <= Capacity
      BY <1>4, AuditAssumption
    <3> QED
      BY <1>1, <1>2, <1>4, <3>1 DEF LogTypeOK
  <2>2. records' \in [Runs -> Sizes] /\ file' \in Seq(AnyPiece) /\ written' \in [Runs -> Nat]
    BY <1>1, <1>2 DEF LogTypeOK
  <2> QED
    BY <1>4, <2>1, <2>2, TypeNext
<1>6. EachRunInOrder'
  <2>1. ASSUME NEW q \in Runs, state'[q] = "writing"
        PROVE  /\ written'[q] = InLog(q)' + Len(buffer'[q])
               /\ \A j \in DOMAIN buffer'[q] : buffer'[q][j] = Piece(q, InLog(q)' + j)
    <3>1. q # p
      BY <1>4, <2>1
    <3> QED
      BY <1>1, <1>2, <1>4, <2>1, <3>1 DEF EachRunInOrder
  <2>2. ASSUME NEW q \in Runs, state'[q] = "done" PROVE InLog(q)' = Total(q)'
    <3>1. CASE q = p
      BY <1>1, <1>2, <1>4, <3>1
    <3>2. CASE q # p
      BY <1>1, <1>2, <1>4, <2>2, <3>2 DEF EachRunInOrder
    <3> QED
      BY <3>1, <3>2
  <2> QED
    BY <1>2, <2>1, <2>2 DEF EachRunInOrder, Piece
<1>7. Untouched'
  BY <1>1, <1>2, <1>4 DEF Untouched
<1> QED
  BY <1>3, <1>5, <1>6, <1>7 DEF LogIInv

\* A run is killed: what it has in the log remains in order.
LEMMA DieInv == ASSUME LogIInv, NEW p \in Runs, Die(p) PROVE LogIInv'
PROOF
<1>1. /\ LogTypeOK /\ EachRunInOrder /\ Untouched /\ SmallRunsWhole
      /\ records' = records /\ written' = written /\ file' = file
      /\ buffer' = [buffer EXCEPT ![p] = <<>>] /\ state' = [state EXCEPT ![p] = "dead"]
  BY DEF LogIInv, Die
<1>2. /\ \A q, i : Upto(q, i)' = Upto(q, i)
      /\ \A q : InLog(q)' = InLog(q) /\ Total(q)' = Total(q)
      /\ SmallRunsWhole'
  BY <1>1, SameLog
<1>3. /\ buffer' \in [Runs -> Seq(AnyPiece)] /\ buffer'[p] = <<>> /\ state'[p] = "dead"
      /\ state' \in [Runs -> {"ready", "writing", "done", "dead"}]
      /\ \A q \in Runs \ {p} : buffer'[q] = buffer[q] /\ state'[q] = state[q]
  BY <1>1 DEF LogTypeOK
<1>4. LogTypeOK'
  <2>1. \A q \in Runs : Len(buffer'[q]) <= Capacity /\ written'[q] <= Total(q)'
    <3>1. Len(buffer'[p]) = 0 /\ 0 <= Capacity
      BY <1>3, AuditAssumption
    <3> QED
      BY <1>1, <1>2, <1>3, <3>1 DEF LogTypeOK
  <2>2. records' \in [Runs -> Sizes] /\ file' \in Seq(AnyPiece) /\ written' \in [Runs -> Nat]
    BY <1>1, <1>2 DEF LogTypeOK
  <2> QED
    BY <1>3, <2>1, <2>2, TypeNext
<1>5. EachRunInOrder'
  BY <1>1, <1>2, <1>3 DEF EachRunInOrder, Piece
<1>6. Untouched'
  BY <1>1, <1>2, <1>3 DEF Untouched
<1> QED
  BY <1>2, <1>4, <1>5, <1>6 DEF LogIInv

LEMMA LogInductive == LogIInv /\ [LogNext]_logVars => LogIInv'
PROOF
<1> SUFFICES ASSUME LogIInv, [LogNext]_logVars PROVE LogIInv'
  OBVIOUS
<1>1. CASE \E p \in Runs : Open(p) \/ Put(p) \/ Finish(p) \/ Die(p)
  BY <1>1, OpenInv, PutInv, FinishInv, DieInv
<1>2. CASE UNCHANGED logVars
  <2>1. /\ records' = records /\ file' = file /\ buffer' = buffer /\ written' = written /\ state' = state
        /\ LogTypeOK /\ EachRunInOrder /\ Untouched /\ SmallRunsWhole
    BY <1>2 DEF logVars, LogIInv
  <2>2. /\ \A q, i : Upto(q, i)' = Upto(q, i)
        /\ \A q : InLog(q)' = InLog(q) /\ Total(q)' = Total(q)
        /\ SmallRunsWhole'
    BY <2>1, SameLog
  <2>3. LogTypeOK'
    BY <2>1, <2>2, TypeNext DEF LogTypeOK
  <2>4. EachRunInOrder'
    BY <2>1, <2>2 DEF EachRunInOrder, Piece
  <2>5. Untouched'
    BY <2>1, <2>2 DEF Untouched
  <2> QED
    BY <2>2, <2>3, <2>4, <2>5 DEF LogIInv
<1> QED
  BY <1>1, <1>2 DEF LogNext

LEMMA LogInvariance == LogSpec => []LogIInv
PROOF
  BY LogInitInv, LogInductive, PTL DEF LogSpec

-----------------------------------------------------------------------------
\* The state of the log and of its writers has its type, and no buffer grows
\* beyond its capacity.
THEOREM LogTypeCorrect == LogSpec => []LogTypeOK
PROOF
<1>1. LogIInv => LogTypeOK
  BY DEF LogIInv
<1> QED
  BY <1>1, LogInvariance, PTL

\* Whoever writes at the same time and whoever dies (audit.rs append, write_records),
\* each run's part of the log is a beginning of its records with no gap, and all of
\* them when it ended.
THEOREM LogInOrder == LogSpec => []EachRunInOrder
PROOF
<1>1. LogIInv => EachRunInOrder
  BY DEF LogIInv
<1> QED
  BY <1>1, LogInvariance, PTL

\* A run whose records fit in the BufWriter of append is in the log in one piece.
THEOREM SmallRunsInOnePiece == LogSpec => []SmallRunsWhole
PROOF
<1>1. LogIInv => SmallRunsWhole
  BY DEF LogIInv
<1> QED
  BY <1>1, LogInvariance, PTL
=============================================================================
