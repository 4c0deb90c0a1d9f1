------------------------------- MODULE Project -------------------------------
(***************************************************************************)
(* A project under the tool: its lockfile is read by an adapter, each      *)
(* dependency is asked about and decided on by the policy, and a command   *)
(* makes something of the results.  Between commands the lockfile and the  *)
(* policy are edited, packages turn bad and time passes.                   *)
(*                                                                         *)
(* Composes Lockfiles (what is read), Policy (what is decided) and Outputs *)
(* (what is said), with PackageManagers for what there is to read.  A      *)
(* command reads its files at one moment here; DecisionLock has the edits  *)
(* that fall into a command.                                               *)
(***************************************************************************)
EXTENDS Outputs, PackageManagers

CONSTANTS
  Scenarios,   \* Scenarios[s]: a lockfile with all its entries
  Trees,       \* Trees[s]: which of its entries it may have, as sets of positions
  Registry,    \* Registry[n]: the signals for package n, of the packages there are
  Bad,         \* Bad[n]: the same once n has turned bad
  Policies,
  Limits,      \* values of --max-warn
  Targets,     \* what `explain` is asked for: [name, version]
  MaxRows,     \* --max-rows
  MaxNow,
  MaxEdits     \* MaxEdits[s]: how often a project may change

\* Lockfile s with some of its entries.
Lockfile(s, t) == [Scenarios[s] EXCEPT !.entries = Selected(Scenarios[s].entries, t)]

ASSUME ProjectAssumption ==
  /\ DOMAIN Trees = DOMAIN Scenarios /\ DOMAIN MaxEdits = DOMAIN Scenarios
  /\ DOMAIN Bad \subseteq DOMAIN Registry
  /\ \A s \in DOMAIN Scenarios :
       /\ {"format", "entries"} \subseteq DOMAIN Scenarios[s]
       /\ Scenarios[s].format \in Formats
       /\ Scenarios[s].entries \in Seq(Range(Scenarios[s].entries))
       /\ Trees[s] \subseteq SUBSET (DOMAIN Scenarios[s].entries)
  /\ \A p \in Policies : IsPolicy(p)
  /\ MaxRows \in Nat
  /\ MaxNow \in Nat /\ \A s \in DOMAIN MaxEdits : MaxEdits[s] \in Nat

\* A package manager wrote it.
ASSUME WrittenAssumption == \A s \in DOMAIN Scenarios : \A t \in Trees[s] : Written(Lockfile(s, t))

VARIABLES
  scenario,
  tree,     \* the entries of the lockfile
  policy,   \* installguard.yaml
  bad,      \* packages that have turned bad
  now,
  lock,     \* installguard.lock, or None
  edits,    \* how often the project or the world has changed
  out       \* what the last command said, or None

vars == <<scenario, tree, policy, bad, now, lock, edits, out>>
project == <<scenario, tree, policy, bad, now, lock, edits>>

-----------------------------------------------------------------------------
\* The lockfile as it is.
Document == Lockfile(scenario, tree)

\* The sources a policy tells apart.
Class(dep) ==
  CASE dep.source \in {"registry", "pypi"} -> "registry"
    [] dep.source = "workspace" -> "workspace"
    [] OTHER -> "exotic"

PolicyDep(dep) ==
  [source |-> Class(dep), direct |-> dep.direct, family |-> FamilyOf(dep.eco),
   name |-> dep.name, version |-> dep.version]

\* Workspace members are not asked about; a name the registry does not have is
\* an outage of the registry provider.
SignalsOf(dep) ==
  CASE Class(dep) = "workspace" -> Silence
    [] Class(dep) # "workspace" /\ dep.name \notin DOMAIN Registry ->
         [Silence EXCEPT !.unavailable = Providers]
    [] OTHER -> IF dep.name \in bad THEN Bad[dep.name] ELSE Registry[dep.name]

\* The results of an evaluation under a policy, at a time.
Results(p, at) ==
  LET deps == Parse(Document).deps
      Of(d) == Result(d, SignalsOf(d), Evaluate(p, PolicyDep(d), SignalsOf(d), at, FALSE))
  IN Each(deps, Of)

Current == Results(policy, now)

Readable == Parse(Document).ok

-----------------------------------------------------------------------------
Init ==
  /\ scenario \in DOMAIN Scenarios
  /\ tree \in Trees[scenario]
  /\ policy \in Policies
  /\ bad = {} /\ now = 0 /\ lock = None /\ edits = 0 /\ out = None

Say(o) == out = None /\ out' = o /\ UNCHANGED project

\* A command that cannot read the lockfile ends with status 2 and says nothing.
Refuse(cmd) == ~Readable /\ Say([cmd |-> cmd, exit |-> 2])

\* `ci --summary-file`, and `report` from that file.
CiSays(limit) ==
  LET rs == Current
  IN [cmd |-> "ci", exit |-> ExitCode(rs, limit), limit |-> limit,
      annotations |-> Annotations(rs), report |-> Markdown(Summary(rs), MaxRows)]

Ci(limit) ==
  \/ Refuse("ci")
  \/ Readable /\ Say(CiSays(limit))

\* `sbom`, then `vex`.
ExportSays == LET rs == Current IN [cmd |-> "export", exit |-> 0, bom |-> Bom(rs), vex |-> Vex(rs)]

Export ==
  \/ Refuse("export")
  \/ Readable /\ Say(ExportSays)

ExplainSays(target) ==
  LET r == Explain(Current, target.name, target.version)
  IN [cmd |-> "explain", exit |-> IF r = None THEN 2 ELSE 0, shown |-> r]

ExplainTarget(target) ==
  \/ Refuse("explain")
  \/ Readable /\ Say(ExplainSays(target))

LockNow == BuildLock(Document, policy, Current)

\* `lock` writes the file; what it prints is left out.
Lock ==
  /\ out = None /\ Readable
  /\ lock' = LockNow
  /\ UNCHANGED <<scenario, tree, policy, bad, now, edits, out>>

VerifySays ==
  LET lines == VerifyAgainst(LockNow, lock)
  IN [cmd |-> "verify", exit |-> IF lines = {} THEN 0 ELSE 1, lines |-> lines]

Verify ==
  \/ Refuse("verify")
  \/ Readable /\ lock = None /\ Say([cmd |-> "verify", exit |-> 2])
  \/ Readable /\ lock # None /\ Say(VerifySays)

DoctorSays == [cmd |-> "doctor", exit |-> 0, snippet |-> DoctorSuggestion(Current)]

Doctor ==
  \/ Refuse("doctor")
  \/ Readable /\ Say(DoctorSays)

SimulateSays(candidate, at) ==
  LET diff == Simulate(Current, Results(candidate, at))
  IN [cmd |-> "simulate", exit |-> 0, candidate |-> candidate, at |-> at,
      diff |-> diff, totals |-> SimulateTotals(diff)]

\* `simulate` reads the clock a second time, after the evaluation.
SimulateWith(candidate, at) ==
  \/ Refuse("simulate")
  \/ Readable /\ at \in now .. now + 1 /\ Say(SimulateSays(candidate, at))

-----------------------------------------------------------------------------
\* Changes from outside come between commands, when the last output is read.
Change == edits < MaxEdits[scenario] /\ edits' = edits + 1 /\ out' = None
Between == out = None /\ Change

Install(t) ==
  Between /\ t # tree /\ tree' = t /\ UNCHANGED <<scenario, policy, bad, now, lock>>

EditPolicy(p) ==
  Between /\ p # policy /\ policy' = p /\ UNCHANGED <<scenario, tree, bad, now, lock>>

TurnBad(n) ==
  Between /\ n \notin bad /\ bad' = bad \cup {n} /\ UNCHANGED <<scenario, tree, policy, now, lock>>

Tick ==
  Between /\ now < MaxNow /\ now' = now + 1 /\ UNCHANGED <<scenario, tree, policy, bad, lock>>

\* The suggestion of `doctor` is pasted into the policy.
Adopt ==
  /\ out # None /\ out.cmd = "doctor" /\ out.exit = 0
  /\ Change /\ policy' = WithSnippet(policy, out.snippet)
  /\ UNCHANGED <<scenario, tree, bad, now, lock>>

TurnAway == out # None /\ out' = None /\ UNCHANGED project

Next ==
  \/ \E limit \in Limits : Ci(limit)
  \/ Export
  \/ \E t \in Targets : ExplainTarget(t)
  \/ Lock \/ Verify \/ Doctor
  \/ \E p \in Policies, at \in 0 .. MaxNow + 1 : SimulateWith(p, at)
  \/ \E t \in Trees[scenario] : Install(t)
  \/ \E p \in Policies : EditPolicy(p)
  \/ \E n \in DOMAIN Bad : TurnBad(n)
  \/ Tick \/ Adopt \/ TurnAway

Spec == Init /\ [][Next]_vars
-----------------------------------------------------------------------------
(***************************************************************************)
(* What is read, against what the package manager really installs.         *)
(***************************************************************************)
Real == {e.real : e \in {x \in Range(Document.entries) : x.real # Absent}}

\* The entries the adapters are not known to miss.
Seen == {i \in DOMAIN Document.entries :
           Document.entries[i].real # Absent /\ ~Overlooked(Document, Document.entries[i])}

RealSeen == {Document.entries[i].real : i \in Seen}

Deps == Range(Parse(Document).deps)
Coordinates(x) == <<x.name, x.version>>

\* Every package that comes from a registry is asked about under its own name
\* and version and nothing else is; every other one, each time the lockfile has
\* it, is decided on as coming from elsewhere, and none is added to them.
AskedAsLocked ==
  Readable =>
    LET deps == Parse(Document).deps
        asked == {Coordinates(d) : d \in {x \in Deps : Class(x) = "registry"}}
        decided == {k \in DOMAIN deps : Class(deps[k]) = "exotic"}
        elsewhere == {i \in Seen : Document.entries[i].real.from = "exotic"}
    IN /\ asked = {Coordinates(r) : r \in {x \in RealSeen : x.from = "registry"}}
       /\ Cardinality(decided) = Cardinality(elsewhere)

\* The settings for direct dependencies reach every package the manifest names
\* plainly; where the lockfile tells, they reach nothing else.  Of a uv workspace
\* that has a member before the project, the member's dependencies are taken.
DirectIsDeclared ==
  Readable /\ RootFirst(Document) =>
    LET direct == {Coordinates(d) : d \in {x \in Deps : x.direct}}
        declared == {Coordinates(r) : r \in {x \in RealSeen : x.declared = "plainly"}}
    IN /\ declared \subseteq direct
       /\ Document.format \in {"pnpm", "yarn", "uv", "poetry"} => direct \subseteq declared

\* No package from outside the repository is passed over without a word: it is
\* asked about, or decided on as coming from elsewhere.
NothingUnseen ==
  Readable =>
    \A r \in {x \in Real : x.from = "registry"} :
      \E d \in Deps : Coordinates(d) = Coordinates(r) /\ Class(d) # "workspace"

-----------------------------------------------------------------------------
Said(cmd) == out # None /\ out.cmd = cmd /\ out.exit # 2

Having(seq, field, value) == {i \in DOMAIN seq : seq[i][field] = value}

\* What the exit status, the annotations, the report, the SBOM, the VEX document
\* and `explain` say of one evaluation is the same: none is green where another
\* is red, and a package is in all of them or in none.
OutputsAgree ==
  /\ Said("ci") =>
       LET errors == Having(out.annotations, "level", "error")
           warnings == Having(out.annotations, "level", "warning")
       IN /\ (out.exit = 1) = (errors # {} \/ (out.limit # None /\ Cardinality(warnings) > out.limit))
          /\ (out.report.headline = "BLOCKED") = (errors # {})
          /\ (out.report.headline = "Clean") = (out.annotations = <<>>)
          /\ Len(out.report.rows) + out.report.more = Len(out.annotations)
  /\ Said("export") =>
       LET rs == Current
           products(status) == {s.product : s \in {x \in out.vex : x.status = status}}
           all == DOMAIN out.bom.components
           As(verdict) == {p \in all : out.bom.components[p].decision = verdict}
       IN /\ all = {Purl(d) : d \in Deps}
          /\ out.bom.dependsOn = {Purl(d) : d \in {x \in Deps : x.direct}}
          /\ As("block") \subseteq products("affected")
          /\ As("warn") \subseteq products("under_investigation")
          /\ (products("affected") # {}) = (ExitCode(rs, None) = 1)
          /\ \A p \in As("allow") \cap {s.product : s \in out.vex} :
               \E i, j \in DOMAIN rs : i # j /\ Purl(rs[i].dep) = p /\ Purl(rs[j].dep) = p
  /\ Said("explain") =>
       Bom(Current).components[Purl(out.shown.dep)] = Component(out.shown)

\* The decisions a lock has for a package, their verdicts, and whether `verify` names it.
KeyOf(d) == <<d.name, d.version>>
Keyed(locked, k) == {i \in DOMAIN locked.decisions : KeyOf(locked.decisions[i]) = k}
Ruled(locked, k) == {locked.decisions[i].decision : i \in Keyed(locked, k)}
Mentions(lines, k) == \E l \in lines : "key" \in DOMAIN l /\ l.key = k

\* `verify` says OK only if every package is there with the verdict it had; and
\* of a package that came, went or is decided otherwise it says which, unless
\* the lockfile has that name and version twice.
DriftTold ==
  Said("verify") =>
    LET new == LockNow
        keys == {KeyOf(d) : d \in Range(new.decisions) \cup Range(lock.decisions)}
    IN /\ out.exit = 0 => ExitCode(Current, None) = (IF lock.summary.block > 0 THEN 1 ELSE 0)
       /\ \A k \in keys :
            Cardinality(Keyed(new, k)) < 2 /\ Cardinality(Keyed(lock, k)) < 2 =>
              (Mentions(out.lines, k) = (Ruled(new, k) # Ruled(lock, k)))

\* With the snippet `doctor` prints, no package is blocked for a reason doctor
\* knows a remedy for, and none is decided more harshly than before.
DoctorUnblocks ==
  Said("doctor") =>
    LET before == Current
        after == Results(WithSnippet(policy, out.snippet), now)
    IN \A i \in DOMAIN after :
         /\ Rank[Verdict(after[i])] <= Rank[Verdict(before[i])]
         /\ Verdict(after[i]) = "block" =>
              after[i].decision.reasons \cap {"disallowed-lifecycle-script", "name-squat"} = {}
         /\ (\A r \in before[i].decision.reasons :
               r \in {"disallowed-lifecycle-script", "name-squat", "dist-tag-anomaly",
                      "signal-unavailable"}) => Verdict(after[i]) # "block"

\* What `simulate` announces is what happens when its candidate becomes the
\* policy: what it does not list stays as it is, reasons included, and a gate
\* that closes or opens is announced.
SimulateForetells ==
  Said("simulate") =>
    LET before == Current
        after == Results(out.candidate, out.at)
        listed == {out.diff[i].dep : i \in DOMAIN out.diff}
        Exit(rs) == ExitCode(rs, None)
    IN /\ \A i \in DOMAIN after : after[i].dep \notin listed => after[i].decision = before[i].decision
       /\ Exit(before) = 0 /\ Exit(after) = 1 => out.totals.newly_blocked > 0
       /\ Exit(before) = 1 /\ Exit(after) = 0 => out.totals.newly_allowed + out.totals.newly_warned > 0
=============================================================================
