------------------------------- MODULE Outputs -------------------------------
(***************************************************************************)
(* What the commands make of one evaluation: exit status, JSON summary,    *)
(* annotations, Markdown report (crates/cli/src/main.rs), SBOM and VEX     *)
(* (crates/core/src/sbom.rs, vex.rs), the lock and the drift report of     *)
(* `verify` (lockfile.rs), the suggestion of `doctor`, `explain` and the   *)
(* comparison of `simulate`.                                               *)
(*                                                                         *)
(* An evaluation is a sequence of results [dep, sig, decision] in the      *)
(* order of the adapter.  Documents are abstracted to what they say: the   *)
(* order of what they sort is left out, what they drop is not.             *)
(***************************************************************************)
EXTENDS Policy, Lockfiles

Result(dep, sig, decision) == [dep |-> dep, sig |-> sig, decision |-> decision]

Verdict(r) == r.decision.verdict

-----------------------------------------------------------------------------
\* Counts, exit_code.
Count(results, verdict) == Cardinality(Where(results, LAMBDA r : Verdict(r) = verdict))

Counts(results) ==
  [total |-> Len(results), allow |-> Count(results, "allow"),
   warn |-> Count(results, "warn"), block |-> Count(results, "block")]

ExitCode(results, maxWarn) ==
  LET c == Counts(results)
  IN IF c.block > 0 \/ (maxWarn # None /\ c.warn > maxWarn) THEN 1 ELSE 0

\* The document `ci` writes; `report` is given it again.
Summary(results) ==
  [summary |-> Counts(results),
   decisions |-> [i \in DOMAIN results |->
                    [name |-> results[i].dep.name, version |-> results[i].dep.version,
                     direct |-> results[i].dep.direct, decision |-> Verdict(results[i])]]]

Annotations(results) ==
  LET flagged == Selected(results, Where(results, LAMBDA r : Verdict(r) # "allow"))
  IN [i \in DOMAIN flagged |->
        [level |-> IF Verdict(flagged[i]) = "warn" THEN "warning" ELSE "error",
         name |-> flagged[i].dep.name, version |-> flagged[i].dep.version]]

\* Defect: the headline is of the rows that fit.
MarkdownOfRows(doc, maxRows) ==
  LET flagged == Selected(doc.decisions, Where(doc.decisions, LAMBDA d : d.decision # "allow"))
      rows == SubSeq(flagged, 1, IF Len(flagged) > maxRows THEN maxRows ELSE Len(flagged))
      Some(v) == \E i \in DOMAIN rows : rows[i].decision = v
  IN [headline |-> CASE Some("block") -> "BLOCKED" [] ~Some("block") /\ Some("warn") -> "Warnings"
                     [] OTHER -> "Clean",
      rows |-> rows, more |-> Len(flagged) - Len(rows)]

\* The headline is of the counts, the table has at most maxRows rows and says
\* how many it left out.
Markdown(doc, maxRows) ==
  LET flagged == Selected(doc.decisions, Where(doc.decisions, LAMBDA d : d.decision # "allow"))
      rows == SubSeq(flagged, 1, IF Len(flagged) > maxRows THEN maxRows ELSE Len(flagged))
  IN [headline |-> CASE doc.summary.block > 0 -> "BLOCKED"
                     [] doc.summary.block = 0 /\ doc.summary.warn > 0 -> "Warnings"
                     [] OTHER -> "Clean",
      rows |-> rows, more |-> Len(flagged) - Len(rows)]

-----------------------------------------------------------------------------
\* The package URL: the type is the registry family.
FamilyOf(eco) == IF eco = "pypi" THEN "pypi" ELSE "npm"

Purl(dep) ==
  [type |-> FamilyOf(dep.eco), version |-> dep.version,
   name |-> IF dep.eco = "pypi" THEN Normalised(dep.name) ELSE dep.name]

Component(r) ==
  [decision |-> Verdict(r), direct |-> r.dep.direct, reasons |-> r.decision.reasons]

\* Components are sorted by purl, stably, and of those with one purl the first
\* is kept.  Every direct dependency is an edge from the project.
Bom(results) ==
  LET purls == {Purl(results[i].dep) : i \in DOMAIN results}
      FirstOf(p) == Min(Where(results, LAMBDA r : Purl(r.dep) = p))
  IN [components |-> [p \in purls |-> Component(results[FirstOf(p)])],
      dependsOn |-> {Purl(results[i].dep) : i \in Where(results, LAMBDA r : r.dep.direct)}]

\* One statement for each reason of a package that is not allowed.
Statements(r) ==
  IF Verdict(r) = "allow" THEN {}
  ELSE {[code |-> c, product |-> Purl(r.dep),
         status |-> IF Verdict(r) = "block" THEN "affected" ELSE "under_investigation"] :
          c \in r.decision.reasons}

Vex(results) == UNION {Statements(results[i]) : i \in DOMAIN results}

\* What `explain` shows of a package: the first result of that name and version.
Explain(results, name, version) ==
  LET found == Where(results, LAMBDA r : r.dep.name = name /\ r.dep.version = version)
  IN IF found = {} THEN None ELSE results[Min(found)]

-----------------------------------------------------------------------------
SignalKinds(sig) == {k \in DOMAIN Silence : sig[k] # Silence[k]}

LockDecision(r) ==
  [name |-> r.dep.name, version |-> r.dep.version, ecosystem |-> r.dep.eco,
   direct |-> r.dep.direct, source |-> r.dep.source, decision |-> Verdict(r),
   reasons |-> r.decision.reasons, signalKinds |-> SignalKinds(r.sig)]

\* A digest is the content it is of.
BuildLock(doc, policy, results) ==
  [adapter |-> Ecosystem(doc.format), lockfileDigest |-> doc, policyDigest |-> policy,
   summary |-> Counts(results), decisions |-> [i \in DOMAIN results |-> LockDecision(results[i])]]

\* The decisions by name and version; of several the last.
ByKey(lock) ==
  LET KeyOf(i) == <<lock.decisions[i].name, lock.decisions[i].version>>
      keys == {KeyOf(i) : i \in DOMAIN lock.decisions}
  IN [k \in keys |-> lock.decisions[Max({i \in DOMAIN lock.decisions : KeyOf(i) = k})]]

\* Defect: what is gone is not looked for.
VerifyAgainstPresent(new, prior) ==
  LET cur == ByKey(new)  prev == ByKey(prior)
      changed == {[line |-> "changed", key |-> k, from |-> prev[k].decision, to |-> cur[k].decision] :
                    k \in {x \in DOMAIN cur \cap DOMAIN prev : cur[x].decision # prev[x].decision}}
      added == {[line |-> "added", key |-> k, to |-> cur[k].decision] : k \in DOMAIN cur \ DOMAIN prev}
  IN IF new = prior THEN {} ELSE changed \cup added \cup {[line |-> "digest mismatch"]}

\* verify_against: no line if the digests agree, and at least one if they do not.
VerifyAgainst(new, prior) ==
  LET cur == ByKey(new)  prev == ByKey(prior)
      inputs == {[line |-> f] : f \in {x \in {"lockfileDigest", "policyDigest"} : new[x] # prior[x]}}
      changed == {[line |-> "changed", key |-> k, from |-> prev[k].decision, to |-> cur[k].decision] :
                    k \in {x \in DOMAIN cur \cap DOMAIN prev : cur[x].decision # prev[x].decision}}
      added == {[line |-> "added", key |-> k, to |-> cur[k].decision] : k \in DOMAIN cur \ DOMAIN prev}
      removed == {[line |-> "removed", key |-> k] : k \in DOMAIN prev \ DOMAIN cur}
      all == inputs \cup changed \cup added \cup removed
  IN IF new = prior THEN {} ELSE IF all = {} THEN {[line |-> "digest mismatch"]} ELSE all

-----------------------------------------------------------------------------
\* Defect: a severity is suggested only for a package nothing else blocks.
DoctorSuggestionAlone(results) ==
  LET blocked == Where(results, LAMBDA r : Verdict(r) = "block")
      Having(code) == {i \in blocked : code \in results[i].decision.reasons}
      NamesOf(I) == {results[i].dep.name : i \in I}
      Alone(code) == \E i \in Having(code) : results[i].decision.reasons = {code}
  IN [scripts |-> NamesOf(Having("disallowed-lifecycle-script")),
      squats |-> NamesOf(Having("name-squat")),
      severities |-> {c \in {"dist-tag-anomaly", "signal-unavailable"} : Alone(c)}]

\* Of the blocked packages, those whose scripts or names could be allowed, and the
\* kinds of reason whose severity has a milder default.
DoctorSuggestion(results) ==
  LET blocked == Where(results, LAMBDA r : Verdict(r) = "block")
      Having(code) == {i \in blocked : code \in results[i].decision.reasons}
      NamesOf(I) == {results[i].dep.name : i \in I}
  IN [scripts |-> NamesOf(Having("disallowed-lifecycle-script")),
      squats |-> NamesOf(Having("name-squat")),
      severities |-> {c \in {"dist-tag-anomaly", "signal-unavailable"} : Having(c) # {}}]

\* The policy with the suggested snippet added to it: bare names, for any family.
WithSnippet(policy, s) ==
  LET matchers(names) == {[family |-> None, name |-> n] : n \in names}
  IN [policy EXCEPT !.scriptAllow = @ \cup matchers(s.scripts),
                    !.nameSquatAllow = @ \cup matchers(s.squats),
                    !.severity = [c \in Codes |-> IF c \in s.severities THEN "warn" ELSE @[c]]]

-----------------------------------------------------------------------------
ChangeClass(before, after) ==
  CASE before.verdict # after.verdict /\ after.verdict = "allow" -> "newly_allowed"
    [] before.verdict # after.verdict /\ after.verdict = "block" -> "newly_blocked"
    [] before.verdict # after.verdict /\ after.verdict = "warn" -> "newly_warned"
    [] OTHER -> "reasons_changed"

Changes(results, after) ==
  [i \in DOMAIN results |->
     [dep |-> results[i].dep, before |-> results[i].decision, after |-> after[i].decision]]

\* Defect: a change of reasons within a class is no change.
SimulateVerdicts(results, after) ==
  LET all == Changes(results, after)
  IN Selected(all, Where(all, LAMBDA c : c.before.verdict # c.after.verdict))

\* The results another policy decides otherwise; `after` are the same dependencies
\* and signals under that policy.
Simulate(results, after) ==
  LET all == Changes(results, after)
  IN Selected(all, Where(all, LAMBDA c : c.before # c.after))

\* The totals at the head of the comparison.
SimulateTotals(diff) ==
  [c \in {"newly_allowed", "newly_blocked", "newly_warned", "reasons_changed"} |->
     Cardinality({i \in DOMAIN diff : ChangeClass(diff[i].before, diff[i].after) = c})]
=============================================================================
