------------------------------ MODULE BundleProofs ------------------------------
(***************************************************************************)
(* Proofs about Bundle, for any lockfiles, policies and keys: whatever is  *)
(* edited, replaced or cut off, and whichever command dies, a bundle that  *)
(* verifies is one that was signed for what is there.                      *)
(***************************************************************************)
EXTENDS Bundle, TLAPS

\* What there is to sign, as attest wrote it or edited since; what sign makes of it,
\* or of a file that was cut off, the payload of which may have been altered.
Signable == {s \in Statement : s.by \in {"attest", "edited"}}
Signed == {e \in Envelope : e.sig.payload \in Signable \cup {Torn}}

\* What a command may have left to write.
Todos ==
  {<<>>}
  \cup {<<<<"private", k>>, <<"public", k>>>> : k \in Keys}
  \cup {<<<<"public", k>>>> : k \in Keys}
  \cup {<<<<"statement", s>>>> : s \in Signable}
  \cup {<<<<"bundle", e>>>> : e \in Signed}

Commands ==
  [op : {"none", "generate", "attest", "sign", "verify"},
   at : {"over", "write", "fill", "policy", "lockfile", "key"}, exit : 0 .. 2,
   name : Names \cup {Missing}, rules : Policies \cup {Missing},
   input : Signable \cup Signed \cup {Missing, Torn}, type : {InToto, Other, Missing},
   bytes : Trees \cup {Missing}, todo : Todos]

Files ==
  {f \in [{"private", "public", "statement", "bundle"} ->
            Keys \cup Signable \cup Signed \cup {Missing, Torn}] :
     /\ f["private"] \in Keys \cup {Missing, Torn}
     /\ f["public"] \in Keys \cup {Missing, Torn}
     /\ f["statement"] \in Signable \cup {Missing, Torn}
     /\ f["bundle"] \in Signed \cup {Missing, Torn}}

\* A command that has more to read knows what it goes by.  From the check of the
\* signature on, verify's input is what was signed, whole, and with the key of which
\* the public half lies there: no key is generated while verify runs.
CmdInv ==
  /\ (cmd.todo # <<>>) <=> cmd.at \in {"write", "fill"}
  /\ cmd.op = "attest" /\ cmd.at \in {"policy", "lockfile"} => cmd.name \in Names
  /\ cmd.op = "attest" /\ cmd.at = "lockfile" => cmd.rules \in Policies
  /\ cmd.op = "sign" /\ cmd.at = "key" =>
       cmd.input \in Signable \cup {Torn} /\ cmd.type \in {InToto, Other}
  /\ cmd.op = "verify" => cmd.input \in Signed
  /\ cmd.op = "verify" /\ cmd.at # "key" =>
       /\ cmd.input.payload \in Signable /\ cmd.name = cmd.input.payload.lockfile
       /\ Authentic(cmd.input, file["public"])
  /\ cmd.op = "verify" /\ cmd.at # "over" => cmd.at \in {"key", "lockfile", "policy"}
  /\ cmd.op = "verify" => cmd.input.type = InToto
  /\ cmd.op = "verify" /\ cmd.at = "policy" => cmd.bytes \in Trees
  /\ cmd.op = "verify" /\ cmd.at = "over" =>
       cmd.exit = IF SameProject(cmd.input.payload, cmd.bytes, cmd.rules) THEN 0 ELSE 1

IInv == disk \in Disks /\ policy \in Policies /\ file \in Files /\ cmd \in Commands /\ CmdInv

-----------------------------------------------------------------------------
LEMMA IdleInv ==
  ASSUME NEW exit \in 0 .. 2, disk' \in Disks, policy' \in Policies, file' \in Files, cmd' = Idle(exit)
  PROVE  IInv'
PROOF
<1>1. <<>> \in Todos
  BY DEF Todos
<1> QED
  BY <1>1 DEF IInv, CmdInv, Commands, Idle

\* A command that begins knows nothing but what it is given.
LEMMA BeginInv ==
  ASSUME disk' \in Disks, policy' \in Policies, file' \in Files,
         NEW op, NEW at, NEW name, NEW input, NEW type, NEW todo,
         cmd' = [op |-> op, at |-> at, exit |-> 0, name |-> name, rules |-> Missing, input |-> input,
                 type |-> type, bytes |-> Missing, todo |-> todo],
         \/ /\ op = "generate" /\ at = "write" /\ todo \in Todos \ {<<>>}
            /\ name = Missing /\ input = Missing /\ type = Missing
         \/ op = "attest" /\ at = "policy" /\ name \in Names /\ input = Missing /\ type = Missing /\ todo = <<>>
         \/ /\ op = "sign" /\ at = "key" /\ input \in Signable \cup {Torn} /\ type \in {InToto, Other}
            /\ name = Missing /\ todo = <<>>
         \/ /\ op = "verify" /\ at = "key" /\ input \in Signed /\ input.type = InToto
            /\ name = Missing /\ type = Missing /\ todo = <<>>
  PROVE  IInv'
PROOF
<1>1. <<>> \in Todos
  BY DEF Todos
<1>2. cmd' \in Commands
  BY <1>1 DEF Commands
<1>3. CmdInv'
  BY DEF CmdInv
<1> QED
  BY <1>2, <1>3 DEF IInv

LEMMA InitInv == Init => IInv
PROOF
<1> SUFFICES ASSUME Init PROVE IInv
  OBVIOUS
<1>1. <<>> \in Todos
  BY DEF Todos
<1>2. file \in Files
  BY DEF Init, Files
<1> QED
  BY <1>1, <1>2 DEF Init, IInv, CmdInv, Commands, Idle

\* fs::write cuts a file off before it fills it.
LEMMA WriteInv == ASSUME IInv, Truncate \/ Fill PROVE IInv'
PROOF
<1>1. /\ disk \in Disks /\ policy \in Policies /\ file \in Files /\ cmd \in Commands /\ CmdInv
      /\ disk' = disk /\ policy' = policy /\ cmd.at \in {"write", "fill"}
  BY DEF IInv, Truncate, Fill
<1>2. cmd.todo \in Todos /\ cmd.todo # <<>>
  BY <1>1 DEF Commands, CmdInv
<1>3. ASSUME NEW f, NEW v, file' = [file EXCEPT ![f] = v],
             \/ v = Torn /\ f \in {"private", "public", "statement", "bundle"}
             \/ v \in Keys /\ f \in {"private", "public"}
             \/ v \in Signable /\ f = "statement"
             \/ v \in Signed /\ f = "bundle"
      PROVE  file' \in Files
  BY <1>1, <1>3 DEF Files
<1>4. CASE Truncate
  <2>1. file' \in Files
    <3>1. cmd.todo[1][1] \in {"private", "public", "statement", "bundle"}
      BY <1>2 DEF Todos
    <3> QED
      BY <1>3, <1>4, <3>1 DEF Truncate
  <2>2. cmd' = [cmd EXCEPT !.at = "fill"] /\ cmd.at = "write"
    BY <1>4 DEF Truncate
  <2>3. cmd' \in Commands
    BY <1>1, <2>2 DEF Commands
  <2>4. CmdInv'
    BY <1>1, <1>2, <2>2 DEF CmdInv, Commands, SameProject
  <2> QED
    BY <1>1, <2>1, <2>3, <2>4 DEF IInv
<1>5. CASE Fill
  <2>1. file' \in Files
    <3>1. \/ cmd.todo[1][2] \in Keys /\ cmd.todo[1][1] \in {"private", "public"}
          \/ cmd.todo[1][2] \in Signable /\ cmd.todo[1][1] = "statement"
          \/ cmd.todo[1][2] \in Signed /\ cmd.todo[1][1] = "bundle"
      BY <1>2 DEF Todos
    <3> QED
      BY <1>3, <1>5, <3>1 DEF Fill
  <2>2. CASE Len(cmd.todo) = 1
    BY <1>1, <1>5, <2>1, <2>2, IdleInv DEF Fill
  <2>3. CASE Len(cmd.todo) # 1
    <3>1. PICK k \in Keys : cmd.todo = <<<<"private", k>>, <<"public", k>>>>
      BY <1>2, <2>3 DEF Todos
    <3>2. Tail(cmd.todo) = <<<<"public", k>>>>
      BY <3>1
    <3>3. Tail(cmd.todo) \in Todos /\ Tail(cmd.todo) # <<>>
      BY <3>2 DEF Todos
    <3>4. cmd' = [cmd EXCEPT !.at = "write", !.todo = Tail(cmd.todo)] /\ cmd.at = "fill"
      BY <1>5, <2>3 DEF Fill
    <3>5. cmd' \in Commands
      BY <1>1, <3>3, <3>4 DEF Commands
    <3>6. CmdInv'
      BY <1>1, <3>3, <3>4 DEF CmdInv, Commands, SameProject
    <3> QED
      BY <1>1, <2>1, <3>5, <3>6 DEF IInv
  <2> QED
    BY <2>2, <2>3
<1> QED
  BY <1>4, <1>5

\* `key generate` and `attest`: what is attested is a statement.
LEMMA AttestInv ==
  ASSUME IInv, (\E k \in Keys : Generate(k)) \/ Attest \/ AttestPolicy \/ AttestLockfile
  PROVE  IInv'
PROOF
<1>1. /\ disk \in Disks /\ policy \in Policies /\ file \in Files /\ cmd \in Commands /\ CmdInv
      /\ disk' = disk /\ policy' = policy /\ file' = file
  BY DEF IInv, Generate, Attest, AttestPolicy, AttestLockfile, Begin, Step
<1>2. ASSUME NEW k \in Keys, Generate(k) PROVE IInv'
  <2>1. cmd' = [Idle(0) EXCEPT !.op = "generate", !.at = "write",
                               !.todo = <<<<"private", k>>, <<"public", k>>>>]
    BY <1>2 DEF Generate, Begin
  <2>2. <<<<"private", k>>, <<"public", k>>>> \in Todos /\ <<<<"private", k>>, <<"public", k>>>> # <<>>
    BY DEF Todos
  <2> QED
    <3>1. cmd' = [op |-> "generate", at |-> "write", exit |-> 0, name |-> Missing, rules |-> Missing,
                         input |-> Missing, type |-> Missing, bytes |-> Missing, todo |-> <<<<"private", k>>, <<"public", k>>>>]
      BY <2>1 DEF Idle
    <3>2. <<<<"private", k>>, <<"public", k>>>> \in Todos \ {<<>>}
      BY <2>2
    <3> QED
      BY <1>1, <3>1, <3>2, BeginInv, Zenon
<1>3. CASE Attest
  <2>1. Located \subseteq Names
    <3>1. ASSUME NEW i \in DOMAIN Candidates PROVE Candidates[i] \in Names
      BY DEF Names, Range
    <3> QED
      BY <3>1 DEF Located, Names
  <2>2. CASE \E n \in Located :
               Begin([Idle(0) EXCEPT !.op = "attest", !.at = "policy", !.name = n])
    <3>1. PICK n \in Names : cmd' = [Idle(0) EXCEPT !.op = "attest", !.at = "policy", !.name = n]
      BY <2>1, <2>2 DEF Begin
    <3> QED
      BY <1>1, <3>1, BeginInv DEF Idle
  <2>3. CASE Begin(Idle(2))
    BY <1>1, <2>3, IdleInv DEF Begin
  <2> QED
    BY <1>3, <2>2, <2>3 DEF Attest
<1>4. CASE AttestPolicy
  <2>1. cmd.op = "attest" /\ cmd.at = "policy" /\ cmd' = [cmd EXCEPT !.at = "lockfile", !.rules = policy]
    BY <1>4 DEF AttestPolicy, At, Step
  <2>2. cmd' \in Commands
    BY <1>1, <2>1 DEF Commands
  <2>3. CmdInv'
    BY <1>1, <2>1 DEF CmdInv, Commands
  <2> QED
    BY <1>1, <2>2, <2>3 DEF IInv
<1>5. CASE AttestLockfile
  <2> DEFINE s == [lockfile |-> cmd.name, digest |-> disk[cmd.name], policy |-> cmd.rules, by |-> "attest"]
  <2>1. /\ cmd.op = "attest" /\ cmd.at = "lockfile" /\ disk[cmd.name] # Missing
        /\ cmd' = [cmd EXCEPT !.at = "write", !.todo = <<<<"statement", s>>>>]
    BY <1>5 DEF AttestLockfile, At, Step
  <2>2. cmd.name \in Names /\ cmd.rules \in Policies /\ disk[cmd.name] \in Trees
    BY <1>1, <2>1 DEF CmdInv, Disks
  <2>3. s \in Signable
    BY <2>2 DEF Signable, Statement
  <2> HIDE DEF s
  <2>4. <<<<"statement", s>>>> \in Todos /\ <<<<"statement", s>>>> # <<>>
    BY <2>3 DEF Todos
  <2>5. cmd' \in Commands
    BY <1>1, <2>1, <2>4 DEF Commands
  <2>6. CmdInv'
    BY <1>1, <2>1, <2>4 DEF CmdInv, Commands
  <2> QED
    BY <1>1, <2>5, <2>6 DEF IInv
<1> QED
  BY <1>2, <1>3, <1>4, <1>5

\* `sign`: whatever it signs was attested, or does not parse.
LEMMA SignInv ==
  ASSUME IInv, (\E type \in {InToto, Other} : Sign(type)) \/ SignWithKey
  PROVE  IInv'
PROOF
<1>1. /\ disk \in Disks /\ policy \in Policies /\ file \in Files /\ cmd \in Commands /\ CmdInv
      /\ disk' = disk /\ policy' = policy /\ file' = file
  BY DEF IInv, Sign, SignWithKey, Begin, Step
<1>2. ASSUME NEW type \in {InToto, Other}, Sign(type) PROVE IInv'
  <2>1. CASE file["statement"] = Missing
    BY <1>1, <1>2, <2>1, IdleInv DEF Sign, Begin
  <2>2. CASE file["statement"] # Missing
    <3>1. cmd' = [Idle(0) EXCEPT !.op = "sign", !.at = "key", !.input = file["statement"], !.type = type]
      BY <1>2, <2>2 DEF Sign, Begin
    <3>2. file["statement"] \in Signable \cup {Torn}
      BY <1>1, <2>2 DEF Files
    <3> QED
      <4>1. cmd' = [op |-> "sign", at |-> "key", exit |-> 0, name |-> Missing, rules |-> Missing,
                           input |-> file["statement"], type |-> type, bytes |-> Missing, todo |-> <<>>]
        BY <3>1 DEF Idle
      <4> QED
        BY <1>1, <3>2, <4>1, BeginInv, Zenon
  <2> QED
    BY <2>1, <2>2
<1>3. CASE SignWithKey
  <2> DEFINE e == [type |-> cmd.type, payload |-> cmd.input,
                   sig |-> [key |-> file["private"], type |-> cmd.type, payload |-> cmd.input]]
  <2>1. /\ cmd.op = "sign" /\ cmd.at = "key" /\ file["private"] \notin {Missing, Torn}
        /\ cmd' = [cmd EXCEPT !.at = "write", !.todo = <<<<"bundle", e>>>>]
    BY <1>3 DEF SignWithKey, At, Step
  <2>2. /\ file["private"] \in Keys /\ cmd.type \in {InToto, Other}
        /\ cmd.input \in Signable \cup {Torn} /\ cmd.input \in Payload
    BY <1>1, <2>1 DEF CmdInv, Files, Payload, Signable
  <2>3. e \in Signed
    BY <2>2 DEF Signed, Envelope
  <2> HIDE DEF e
  <2>4. <<<<"bundle", e>>>> \in Todos /\ <<<<"bundle", e>>>> # <<>>
    BY <2>3 DEF Todos
  <2>5. cmd' \in Commands
    BY <1>1, <2>1, <2>4 DEF Commands
  <2>6. CmdInv'
    BY <1>1, <2>1, <2>4 DEF CmdInv, Commands
  <2> QED
    BY <1>1, <2>5, <2>6 DEF IInv
<1> QED
  BY <1>2, <1>3

\* `verify --bundle`: what its signature is over is what it goes by.
LEMMA VerifyInv ==
  ASSUME IInv, Verify \/ VerifySignature \/ VerifyLockfile \/ VerifyPolicy
  PROVE  IInv'
PROOF
<1>1. /\ disk \in Disks /\ policy \in Policies /\ file \in Files /\ cmd \in Commands /\ CmdInv
      /\ disk' = disk /\ policy' = policy /\ file' = file
  BY DEF IInv, Verify, VerifySignature, VerifyLockfile, VerifyPolicy, Begin, Step
<1>2. CASE Verify
  <2>1. CASE file["bundle"] \in {Missing, Torn} \/ file["bundle"].type # InToto
    BY <1>1, <1>2, <2>1, IdleInv DEF Verify, Begin
  <2>2. CASE ~(file["bundle"] \in {Missing, Torn} \/ file["bundle"].type # InToto)
    <3>1. cmd' = [Idle(0) EXCEPT !.op = "verify", !.at = "key", !.input = file["bundle"]]
      BY <1>2, <2>2 DEF Verify, Begin
    <3>2. file["bundle"] \in Signed /\ file["bundle"].type = InToto
      BY <1>1, <2>2 DEF Files
    <3> QED
      <4>1. cmd' = [op |-> "verify", at |-> "key", exit |-> 0, name |-> Missing, rules |-> Missing,
                           input |-> file["bundle"], type |-> Missing, bytes |-> Missing, todo |-> <<>>]
        BY <3>1 DEF Idle
      <4> QED
        BY <1>1, <3>2, <4>1, BeginInv, Zenon
  <2> QED
    BY <2>1, <2>2
<1>3. CASE VerifySignature
  <2>1. /\ cmd.op = "verify" /\ cmd.at = "key" /\ Authentic(cmd.input, file["public"])
        /\ cmd.input.payload # Torn
        /\ cmd' = [cmd EXCEPT !.at = "lockfile", !.name = cmd.input.payload.lockfile]
    BY <1>3 DEF VerifySignature, At, Step
  <2>2. cmd.input \in Signed
    BY <1>1, <2>1 DEF CmdInv
  <2>3. cmd.input.payload \in Signable
    BY <2>1, <2>2 DEF Authentic, Signed
  <2>4. cmd.input.payload.lockfile \in Names
    BY <2>3 DEF Signable, Statement
  <2>5. cmd' \in Commands
    BY <1>1, <2>1, <2>4 DEF Commands
  <2>6. CmdInv'
    BY <1>1, <2>1, <2>2, <2>3 DEF CmdInv, Commands
  <2> QED
    BY <1>1, <2>5, <2>6 DEF IInv
<1>4. CASE VerifyLockfile
  <2>1. /\ cmd.op = "verify" /\ cmd.at = "lockfile" /\ disk[cmd.name] # Missing
        /\ cmd' = [cmd EXCEPT !.at = "policy", !.bytes = disk[cmd.name]]
    BY <1>4 DEF VerifyLockfile, At, Step
  <2>2. cmd.input.payload \in Signable /\ cmd.name = cmd.input.payload.lockfile
    BY <1>1, <2>1 DEF CmdInv
  <2>3. disk[cmd.name] \in Trees
    BY <1>1, <2>1, <2>2 DEF Signable, Statement, Disks
  <2>4. cmd' \in Commands
    BY <1>1, <2>1, <2>3 DEF Commands
  <2>5. CmdInv'
    BY <1>1, <2>1, <2>2, <2>3 DEF CmdInv, Commands
  <2> QED
    BY <1>1, <2>4, <2>5 DEF IInv
<1>5. CASE VerifyPolicy
  <2> DEFINE exit == IF SameProject(cmd.input.payload, cmd.bytes, policy) THEN 0 ELSE 1
  <2>1. /\ cmd.op = "verify" /\ cmd.at = "policy"
        /\ cmd' = [cmd EXCEPT !.at = "over", !.exit = exit, !.rules = policy]
    BY <1>5 DEF VerifyPolicy, At, Step
  <2>2. exit \in 0 .. 2
    OBVIOUS
  <2>3. cmd' \in Commands
    <3> HIDE DEF exit
    <3> QED
      BY <1>1, <2>1, <2>2 DEF Commands
  <2>4. CmdInv'
    BY <1>1, <2>1 DEF CmdInv, Commands, SameProject
  <2> QED
    BY <1>1, <2>3, <2>4 DEF IInv
<1> QED
  BY <1>2, <1>3, <1>4, <1>5

\* Everybody else: the project and the bundle are edited, a command gives up or dies.
LEMMA OutsideInv ==
  ASSUME IInv, \/ Crash \/ Refuse \/ EditStatement \/ EditBundle
               \/ \E n \in Names, t \in Trees \cup {Missing} : Install(n, t)
               \/ \E p \in Policies : EditPolicy(p)
  PROVE  IInv'
PROOF
<1>1. disk \in Disks /\ policy \in Policies /\ file \in Files /\ cmd \in Commands /\ CmdInv
  BY DEF IInv
<1>2. CASE Crash \/ Refuse
  BY <1>1, <1>2, IdleInv DEF Crash, Refuse, Step
<1>3. CASE EditBundle
  <2>1. /\ file["bundle"] \notin {Missing, Torn} /\ file["bundle"].payload \in Statement
        /\ file' = [file EXCEPT !["bundle"].payload.by = "altered"]
        /\ disk' = disk /\ policy' = policy /\ cmd' = cmd
    BY <1>3 DEF EditBundle
  <2>2. file["bundle"] \in Signed
    BY <1>1, <2>1 DEF Files
  <2>3. [file["bundle"].payload EXCEPT !.by = "altered"] \in Payload
    BY <2>1 DEF Payload, Statement
  <2>4. [file["bundle"] EXCEPT !.payload.by = "altered"] \in Signed
    BY <2>2, <2>3 DEF Signed, Envelope
  <2>5. file' \in Files
    BY <1>1, <2>1, <2>4 DEF Files
  <2>6. file'["public"] = file["public"]
    BY <1>1, <2>1 DEF Files
  <2> QED
    BY <1>1, <2>1, <2>5, <2>6 DEF IInv, CmdInv
<1>4. CASE EditStatement
  <2>1. /\ file["statement"] \notin {Missing, Torn}
        /\ file' = [file EXCEPT !["statement"].by = "edited"]
        /\ disk' = disk /\ policy' = policy /\ cmd' = cmd
    BY <1>4 DEF EditStatement
  <2>2. file["statement"] \in Signable
    BY <1>1, <2>1 DEF Files
  <2>3. [file["statement"] EXCEPT !.by = "edited"] \in Signable
    BY <2>2 DEF Signable, Statement
  <2>4. file' \in Files
    BY <1>1, <2>1, <2>3 DEF Files
  <2>5. file'["public"] = file["public"]
    BY <1>1, <2>1 DEF Files
  <2> QED
    BY <1>1, <2>1, <2>4, <2>5 DEF IInv, CmdInv
<1>5. CASE \E n \in Names, t \in Trees \cup {Missing} : Install(n, t)
  BY <1>1, <1>5 DEF Install, IInv, CmdInv
<1>6. CASE \E p \in Policies : EditPolicy(p)
  BY <1>1, <1>6 DEF EditPolicy, IInv, CmdInv
<1> QED
  BY <1>2, <1>3, <1>5, <1>6, <1>4

LEMMA Inductive == IInv /\ [Next]_vars => IInv'
PROOF
<1> SUFFICES ASSUME IInv, [Next]_vars PROVE IInv'
  OBVIOUS
<1>1. CASE Next
  BY <1>1, WriteInv, AttestInv, SignInv, VerifyInv, OutsideInv DEF Next
<1>2. CASE UNCHANGED vars
  BY <1>2 DEF vars, IInv, CmdInv
<1> QED
  BY <1>1, <1>2

LEMMA Invariance == Spec => []IInv
PROOF BY InitInv, Inductive, PTL DEF Spec

-----------------------------------------------------------------------------
\* The project, the files and the running command have their types, a file cut off
\* by a crash included.
THEOREM TypeCorrect == Spec => []TypeOK
PROOF
<1>1. IInv => TypeOK
  BY DEF IInv, TypeOK, Files, Commands, CmdInv, Signed, Signable
<1> QED
  BY <1>1, Invariance, PTL

\* Status 0 of `verify --bundle` (run_verify_bundle) stands for a bundle that sign made,
\* with the key that lies there, of a statement about the lockfile and the policy that
\* were read, and that nobody has altered since.
THEOREM AcceptedWasSigned == Spec => []AcceptedIsSigned
PROOF
<1>1. IInv => AcceptedIsSigned
  <2> SUFFICES ASSUME IInv, Ended(0) PROVE
        /\ \E by \in {"attest", "edited"} :
             cmd.input.payload = [lockfile |-> cmd.name, digest |-> cmd.bytes, policy |-> cmd.rules,
                                  by |-> by]
        /\ cmd.input.sig = [key |-> file["public"], type |-> InToto, payload |-> cmd.input.payload]
    BY DEF AcceptedIsSigned
  <2>1. /\ cmd.input \in Signed /\ cmd.input.type = InToto /\ cmd.input.payload \in Signable
        /\ cmd.name = cmd.input.payload.lockfile /\ SameProject(cmd.input.payload, cmd.bytes, cmd.rules)
        /\ Authentic(cmd.input, file["public"])
    BY DEF IInv, CmdInv, Ended, At
  <2>2. /\ cmd.input.payload \in Statement /\ cmd.input.payload.by \in {"attest", "edited"}
        /\ cmd.bytes = cmd.input.payload.digest /\ cmd.rules = cmd.input.payload.policy
    BY <2>1 DEF Signable, SameProject
  <2>3. cmd.input.payload = [lockfile |-> cmd.name, digest |-> cmd.bytes, policy |-> cmd.rules,
                             by |-> cmd.input.payload.by]
    BY <2>1, <2>2 DEF Statement
  <2> QED
    BY <2>1, <2>2, <2>3 DEF Authentic
<1> QED
  BY <1>1, Invariance, PTL

\* Status 1 (run_verify_bundle) is for a bundle as it was signed with the key that lies
\* there, and a project that differs.
THEOREM DriftWasReal == Spec => []DriftIsReal
PROOF
<1>1. IInv => DriftIsReal
  <2> SUFFICES ASSUME IInv, Ended(1) PROVE
        /\ cmd.input.payload \in Statement /\ cmd.input.payload.by # "altered"
        /\ cmd.input.sig.key = file["public"]
        /\ cmd.bytes # cmd.input.payload.digest \/ cmd.rules # cmd.input.payload.policy
    BY DEF DriftIsReal
  <2>1. /\ cmd.input.payload \in Signable /\ Authentic(cmd.input, file["public"])
        /\ ~SameProject(cmd.input.payload, cmd.bytes, cmd.rules)
    BY DEF IInv, CmdInv, Ended, At
  <2> QED
    BY <2>1 DEF Signable, SameProject, Authentic
<1> QED
  BY <1>1, Invariance, PTL
=============================================================================
