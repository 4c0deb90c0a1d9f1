--------------------------------- MODULE Bundle ---------------------------------
(***************************************************************************)
(* Signed attestations: `key generate`, `attest`, `sign` and `verify       *)
(* --bundle` (crates/cli/src/main.rs, crates/core/src/attestation.rs and   *)
(* dsse.rs), one command after the other, on a project that is edited      *)
(* meanwhile and with commands that die half-way.                          *)
(*                                                                         *)
(* A file holds a value, Missing, or Torn where a write was cut off.       *)
(* SHA-256 digests are equal only for equal contents, so a digest is the   *)
(* content itself; a signature is the key together with what it signed.    *)
(***************************************************************************)
EXTENDS Integers, Sequences, SequencesExt, FiniteSets

CONSTANTS
  Candidates,     \* names of lockfiles, in the order in which they are looked for
  Children,       \* lockfiles in child directories, one per directory
  Trees,          \* what a lockfile may hold
  Policies,       \* what installguard.yaml may hold
  Keys,           \* keypairs that may be generated
  MaxLockfiles,   \* bound: lockfiles that lie there at a time
  Missing, Torn,
  Other           \* a payload type that is not in-toto's

ASSUME BundleAssumption ==
  /\ IsInjective(Candidates) /\ Range(Candidates) \cap Children = {}
  /\ {Missing, Torn, Other} \cap (Trees \cup Policies \cup Keys) = {}

VARIABLES
  disk,      \* the project's lockfiles
  policy,    \* installguard.yaml
  file,      \* cosign.key, cosign.pub, installguard.intoto.json and the signed bundle
  cmd        \* the running command

vars == <<disk, policy, file, cmd>>

Names == Range(Candidates) \cup Children
InToto == "in-toto"

\* from_lock: the lockfile's name and digest are the subject, the lock around
\* them the predicate.  by: whose the decisions in it are, those of an attest run, of
\* an editor of the statement's file, or of an editor of the signed bundle.
Statement == [lockfile : Names, digest : Trees, policy : Policies,
              by : {"attest", "edited", "altered"}]

\* What is signed is the statement's file, whole or not: a torn one stands for
\* any file that does not parse as a statement.
Payload == Statement \cup {Torn}
Envelope == [type : {InToto, Other}, payload : Payload,
             sig : [key : Keys, type : {InToto, Other}, payload : Payload]]

Disks ==
  {d \in [Names -> Trees \cup {Missing}] :
     Cardinality({n \in Names : d[n] # Missing}) <= MaxLockfiles}

\* at: what the command does next; name, rules: the lockfile and the policy it
\* goes by; input, bytes: the files it read; todo: the files it has still to write.
Idle(exit) ==
  [op |-> "none", at |-> "over", exit |-> exit, name |-> Missing, rules |-> Missing,
   input |-> Missing, type |-> Missing, bytes |-> Missing, todo |-> <<>>]

Init ==
  /\ disk \in Disks
  /\ policy \in Policies
  /\ file = [f \in {"private", "public", "statement", "bundle"} |-> Missing]
  /\ cmd = Idle(0)

Begin(c) == cmd.at = "over" /\ cmd' = c /\ UNCHANGED <<disk, policy, file>>

At(op, at) == cmd.op = op /\ cmd.at = at
Step(c) == cmd' = c /\ UNCHANGED <<disk, policy, file>>

\* fs::write truncates a file and then fills it.
Truncate ==
  /\ cmd.at = "write"
  /\ cmd' = [cmd EXCEPT !.at = "fill"]
  /\ file' = [file EXCEPT ![cmd.todo[1][1]] = Torn]
  /\ UNCHANGED <<disk, policy>>

Fill ==
  /\ cmd.at = "fill"
  /\ cmd' = IF Len(cmd.todo) = 1 THEN Idle(0)
            ELSE [cmd EXCEPT !.at = "write", !.todo = Tail(cmd.todo)]
  /\ file' = [file EXCEPT ![cmd.todo[1][1]] = cmd.todo[1][2]]
  /\ UNCHANGED <<disk, policy>>

\* The process dies.
Crash == cmd.at # "over" /\ cmd' = Idle(2) /\ UNCHANGED <<disk, policy, file>>

-----------------------------------------------------------------------------
\* `key generate`: a fresh keypair, the private half first.
Generate(k) ==
  /\ cmd.at = "over"
  /\ cmd' = [Idle(0) EXCEPT !.op = "generate", !.at = "write", !.todo = <<<<"private", k>>, <<"public", k>>>>]
  /\ UNCHANGED <<disk, policy, file>>

\* The first candidate there is, or else the only one in a child directory.
Located ==
  LET present == {i \in DOMAIN Candidates : disk[Candidates[i]] # Missing}
      below == {n \in Children : disk[n] # Missing}
  IN IF present # {} THEN {Candidates[i] : i \in {i \in present : \A j \in present : i <= j}}
     ELSE IF Cardinality(below) = 1 THEN below ELSE {}

\* `attest`: the lockfile is located, then the policy is read,
Attest ==
  \/ Located = {} /\ Begin(Idle(2))
  \/ \E n \in Located :
       Begin([Idle(0) EXCEPT !.op = "attest", !.at = "policy", !.name = n])

AttestPolicy ==
  At("attest", "policy") /\ Step([cmd EXCEPT !.at = "lockfile", !.rules = policy])

\* then the lockfile, and the statement is built from what was read.
AttestLockfile ==
  /\ At("attest", "lockfile") /\ disk[cmd.name] # Missing
  /\ LET s == [lockfile |-> cmd.name, digest |-> disk[cmd.name], policy |-> cmd.rules,
               by |-> "attest"]
     IN Step([cmd EXCEPT !.at = "write", !.todo = <<<<"statement", s>>>>])

\* `sign` signs the file as it is, whoever wrote it,
Sign(type) ==
  Begin(IF file["statement"] = Missing THEN Idle(2)
        ELSE [Idle(0) EXCEPT !.op = "sign", !.at = "key", !.input = file["statement"],
                             !.type = type])

\* with the private key there is then.
SignWithKey ==
  LET key == file["private"]
      signed == [key |-> key, type |-> cmd.type, payload |-> cmd.input]
      envelope == [type |-> cmd.type, payload |-> cmd.input, sig |-> signed]
  IN /\ At("sign", "key") /\ key \notin {Missing, Torn}
     /\ Step([cmd EXCEPT !.at = "write", !.todo = <<<<"bundle", envelope>>>>])

\* `verify --bundle`: the envelope must parse and be of in-toto's type,
Verify ==
  LET e == file["bundle"]
  IN Begin(IF e \in {Missing, Torn} \/ e.type # InToto THEN Idle(2)
           ELSE [Idle(0) EXCEPT !.op = "verify", !.at = "key", !.input = e])

\* Defects: the payload is not looked at; the key is not.
AuthenticAnyhow(e, key) == e.sig.key = key /\ e.sig.type = e.type
AuthenticAnyKey(e, key) == key \in Keys /\ e.sig.type = e.type /\ e.sig.payload = e.payload

\* The signature is over the envelope's type and payload, by this key.
Authentic(e, key) == e.sig = [key |-> key, type |-> e.type, payload |-> e.payload]

\* the signature must be one by the public key there is, the payload a statement,
VerifySignature ==
  /\ At("verify", "key")
  /\ Authentic(cmd.input, file["public"])
  /\ cmd.input.payload # Torn
  /\ Step([cmd EXCEPT !.at = "lockfile", !.name = cmd.input.payload.lockfile])

\* the lockfile it names must be there, and it and the policy be as recorded.
VerifyLockfile ==
  /\ At("verify", "lockfile") /\ disk[cmd.name] # Missing
  /\ Step([cmd EXCEPT !.at = "policy", !.bytes = disk[cmd.name]])

\* Defect: the policy is not compared.
SameProjectAnyPolicy(s, bytes, rules) == bytes = s.digest

SameProject(s, bytes, rules) == bytes = s.digest /\ rules = s.policy

VerifyPolicy ==
  LET same == SameProject(cmd.input.payload, cmd.bytes, policy)
  IN /\ At("verify", "policy")
     /\ Step([cmd EXCEPT !.at = "over", !.exit = IF same THEN 0 ELSE 1, !.rules = policy])

\* What a command needs next is missing, torn or not what it should be: status 2.
Refuse ==
  /\ \/ cmd.at = "lockfile" /\ disk[cmd.name] = Missing
     \/ At("sign", "key") /\ file["private"] \in {Missing, Torn}
     \/ /\ At("verify", "key")
        /\ ~Authentic(cmd.input, file["public"]) \/ cmd.input.payload = Torn
  /\ Step(Idle(2))

-----------------------------------------------------------------------------
\* The package manager writes or removes a lockfile; the operator edits the policy.
Install(n, t) ==
  disk' = [disk EXCEPT ![n] = t] /\ disk' \in Disks /\ UNCHANGED <<policy, file, cmd>>

EditPolicy(p) == policy' = p /\ UNCHANGED <<disk, file, cmd>>

\* The decisions are edited in the statement's file, whenever that is, or in the
\* bundle, which is after it was signed.
EditStatement ==
  /\ file["statement"] \notin {Missing, Torn}
  /\ file' = [file EXCEPT !["statement"].by = "edited"]
  /\ UNCHANGED <<disk, policy, cmd>>

EditBundle ==
  /\ file["bundle"] \notin {Missing, Torn} /\ file["bundle"].payload \in Statement
  /\ file' = [file EXCEPT !["bundle"].payload.by = "altered"]
  /\ UNCHANGED <<disk, policy, cmd>>

Next ==
  \/ Truncate \/ Fill \/ Crash \/ Refuse
  \/ \E k \in Keys : Generate(k)
  \/ Attest \/ AttestPolicy \/ AttestLockfile
  \/ \E type \in {InToto, Other} : Sign(type)
  \/ SignWithKey
  \/ Verify \/ VerifySignature \/ VerifyLockfile \/ VerifyPolicy
  \/ \E n \in Names, t \in Trees \cup {Missing} : Install(n, t)
  \/ \E p \in Policies : EditPolicy(p)
  \/ EditStatement \/ EditBundle

Spec == Init /\ [][Next]_vars
-----------------------------------------------------------------------------
\* The type invariant.
TypeOK ==
  /\ disk \in Disks /\ policy \in Policies
  /\ file["private"] \in Keys \cup {Missing, Torn} /\ file["public"] \in Keys \cup {Missing, Torn}
  /\ file["statement"] \in Statement \cup {Missing, Torn}
  /\ file["bundle"] \in {Missing, Torn} \/ file["bundle"] \in Envelope
  /\ cmd.at \in {"over", "write", "fill", "policy", "lockfile", "key"} /\ cmd.exit \in 0 .. 2
  /\ (cmd.todo # <<>>) <=> cmd.at \in {"write", "fill"}

\* What `verify --bundle` last ended with, until another command begins.
Ended(exit) == At("verify", "over") /\ cmd.exit = exit

\* A bundle that verifies is one that `sign` made, as it made it.  Its payload names
\* the lockfile, the bytes and the policy that verify has read; it was not altered
\* after it was signed, nor is it a statement that a crash cut off; and it is signed
\* with the private half of the public key that lies there, not of one that was
\* replaced, half-way through a `key generate` that died included.  That attest wrote
\* the statement is not in it: sign signs any input, one edited before it too.
AcceptedIsSigned ==
  Ended(0) =>
    /\ \E by \in {"attest", "edited"} :
         cmd.input.payload = [lockfile |-> cmd.name, digest |-> cmd.bytes, policy |-> cmd.rules,
                              by |-> by]
    /\ cmd.input.sig = [key |-> file["public"], type |-> InToto, payload |-> cmd.input.payload]

\* "Otherwise the bundle is genuine but no longer current; exit 1": status 1 is
\* not for bundles that were altered, or that another key has signed, nor for
\* projects that are current.
DriftIsReal ==
  Ended(1) =>
    /\ cmd.input.payload \in Statement /\ cmd.input.payload.by # "altered"
    /\ cmd.input.sig.key = file["public"]
    /\ cmd.bytes # cmd.input.payload.digest \/ cmd.rules # cmd.input.payload.policy
=============================================================================
