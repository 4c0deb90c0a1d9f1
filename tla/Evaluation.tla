------------------------------ MODULE Evaluation ------------------------------
(***************************************************************************)
(* One dependency evaluated again and again, by `evaluate_with` of         *)
(* crates/core/src/policy.rs, as the world around it moves: providers      *)
(* report new signals or fall silent, time passes, the operator edits      *)
(* installguard.yaml or passes --ignore-scripts.  Every step is one such   *)
(* change followed by an evaluation, so that its decision can be compared  *)
(* with the one before.                                                    *)
(***************************************************************************)
EXTENDS Policy

CONSTANTS
  Reported,  \* Reported[c]: the fields of a signal set that provider c fills
  Projects,  \* the projects to evaluate, by name.  In one: the policies its operator may
             \* write, the dependencies it may have, the signal sets to start from,
             \* the providers asked and values[f], what they may report in field f
  MaxNow

Fields == DOMAIN Silence \ {"unavailable"}

ASSUME EvaluationAssumption ==
  /\ Reported \in [Providers -> SUBSET Fields]
  /\ \A p \in {Projects[x] : x \in DOMAIN Projects} :
       /\ DOMAIN p = {"policies", "deps", "origins", "providers", "values"}
       /\ \A y \in p.policies : IsPolicy(y)
       /\ p.deps \subseteq Dependency /\ p.origins \subseteq SignalSet
       /\ p.providers \subseteq Providers
       /\ DOMAIN p.values \subseteq Fields
       /\ \A f \in DOMAIN p.values : \A v \in p.values[f] : [Silence EXCEPT ![f] = v] \in SignalSet
  /\ MaxNow \in Nat

VARIABLES project, policy, dep, sig, now, ignoring, decision

vars == <<project, policy, dep, sig, now, ignoring, decision>>

Init ==
  /\ project \in DOMAIN Projects
  /\ policy \in Projects[project].policies
  /\ dep \in Projects[project].deps
  /\ sig \in Projects[project].origins
  /\ now = 0
  /\ ignoring = FALSE
  /\ decision = Evaluate(policy, dep, sig, now, ignoring)

Reevaluate ==
  /\ decision' = Evaluate(policy', dep', sig', now', ignoring')
  /\ UNCHANGED project

\* A provider that answers reports something it had not reported.
Report(c, f) ==
  /\ c \notin sig.unavailable
  /\ f \in Reported[c] \cap DOMAIN Projects[project].values
  /\ sig[f] = Silence[f]
  /\ \E v \in Projects[project].values[f] : sig' = [sig EXCEPT ![f] = v]
  /\ UNCHANGED <<policy, dep, now, ignoring>>
  /\ Reevaluate

\* A provider fails: all it would have reported is missing and it is listed as
\* unavailable.  npm-registry also lists itself when only the time is missing.
Outage(c, lost) ==
  /\ c \notin sig.unavailable
  /\ sig' = [f \in DOMAIN sig |->
               IF f = "unavailable" THEN sig.unavailable \cup {c}
               ELSE IF f \in lost THEN Silence[f] ELSE sig[f]]
  /\ UNCHANGED <<policy, dep, now, ignoring>>
  /\ Reevaluate

Tick ==
  /\ now < MaxNow
  /\ now' = now + 1
  /\ UNCHANGED <<policy, dep, sig, ignoring>>
  /\ Reevaluate

\* What differs between two policies, layer by layer.
Changes(p, q) ==
  {<<"defaults", c>> : c \in {c \in Controls : p.defaults[c] # q.defaults[c]}}
  \cup {<<"direct", c>> : c \in {c \in Controls : p.direct[c] # q.direct[c]}}
  \cup {<<"severity", r>> : r \in {r \in Codes : p.severity[r] # q.severity[r]}}
  \cup {<<"policy", f>> : f \in {f \in DOMAIN p \ {"defaults", "direct", "severity"} : p[f] # q[f]}}

\* The operator changes one setting; a larger edit is several of them.
Edits == [x \in DOMAIN Projects |-> [p \in Projects[x].policies |->
            {q \in Projects[x].policies : Cardinality(Changes(p, q)) = 1}]]

Edit ==
  /\ policy' \in Edits[project][policy]
  /\ UNCHANGED <<dep, sig, now, ignoring>>
  /\ Reevaluate

IgnoreScripts ==
  /\ ~ignoring
  /\ ignoring' = TRUE
  /\ UNCHANGED <<policy, dep, sig, now>>
  /\ Reevaluate

Next ==
  \/ \E c \in Projects[project].providers, f \in Fields : Report(c, f)
  \/ \E c \in Projects[project].providers :
       \E lost \in {Reported[c], Reported[c] \cap {"published"}} : Outage(c, lost)
  \/ Tick
  \/ Edit
  \/ IgnoreScripts

Spec == Init /\ [][Next]_vars
-----------------------------------------------------------------------------
\* The type invariant; the trust score is a percentage whatever adds up (the code
\* keeps it in a u8).
TypeOK ==
  /\ policy \in Projects[project].policies /\ dep \in Projects[project].deps
  /\ sig \in SignalSet
  /\ now \in 0 .. MaxNow
  /\ ignoring \in BOOLEAN
  /\ decision \in [verdict : Verdicts, reasons : SUBSET Codes]
  /\ TrustScore(sig, now) \in 0 .. 100

Harsher == Rank[decision'.verdict] >= Rank[decision.verdict]
Softer == Rank[decision'.verdict] <= Rank[decision.verdict]

\* What is worse in one signal set than in another: nothing reassuring was
\* added, nothing alarming was taken away.
AsAlarming(old, new) ==
  /\ new.published = old.published
  /\ new.provenance = old.provenance
  /\ \A f \in {"scripts", "suspicious", "advisories", "unavailable"} : old[f] \subseteq new[f]
  /\ \A f \in {"publisherChange", "deprecated", "surface", "squat"} : old[f] => new[f]
  /\ \A f \in {"distTag", "accountAge", "metadata"} : old[f] \in {None, new[f]}
  /\ new.scorecard # old.scorecard => old.scorecard = None /\ new.scorecard <= 5

\* A further alarming signal never relaxes the verdict: the many detectors, the
\* score that adds all signals up and the severity map work in one direction.
AlarmNeverRelaxes ==
  [][ UNCHANGED <<policy, dep, now, ignoring>> /\ AsAlarming(sig, sig') => Harsher ]_vars

\* Waiting helps and never hurts: an old enough release stays old enough, and
\* leaves the freshness window of the trust score for good.  (Not so for a
\* publication time in the future, which the score takes for an old one.)
WaitingNeverHurts ==
  [][ UNCHANGED <<policy, dep, sig, ignoring>> /\ (sig.published # None => sig.published <= now)
        => Softer ]_vars

\* A stricter value of a control.  The floor "none" and the empty allowlist are
\* no strict values, they turn the control off.
AsStrict(c, old, new) ==
  CASE c = "maxAdvisorySeverity" -> AtOrAbove(old) \subseteq AtOrAbove(new)
    [] c = "licenseAllowlist" -> old = {} \/ (new # {} /\ new \subseteq old)
    [] c \in {"minimumReleaseAge", "minMaintainerAccountAgeDays", "minTrustScore",
              "minScorecardScore"} -> old <= new
    [] OTHER -> old => new

AsStrictAPolicy(p, q) ==
  /\ \A c \in Controls : AsStrict(c, Effective(p, dep, c), Effective(q, dep, c))
  /\ p.blockExoticSubdeps => q.blockExoticSubdeps
  /\ p.denyScripts => q.denyScripts
  /\ q.scriptAllow \subseteq p.scriptAllow
  /\ q.nameSquatAllow \subseteq p.nameSquatAllow
  /\ \A r \in Codes : Rank[SeverityOf(p, r)] <= Rank[SeverityOf(q, r)]

\* Tightening the policy never relaxes the verdict, whichever of its layers
\* (defaults, direct overrides, allowlists, severities) is tightened.
TighteningNeverRelaxes ==
  [][ UNCHANGED <<dep, sig, now, ignoring>> /\ AsStrictAPolicy(policy, policy') => Harsher ]_vars

\* The `direct` section is about direct dependencies: a transitive one is
\* decided on as if the section were not there.
DirectSectionIsDirect ==
  [][ UNCHANGED <<dep, sig, now, ignoring>> /\ ~dep.direct
      /\ policy' = [policy EXCEPT !.direct = policy'.direct] => UNCHANGED decision ]_vars

\* An outage takes findings away, but never turns the verdict green, unless the
\* operator suppressed `signal-unavailable`.
OutageNeverGreen ==
  [][ sig'.unavailable # sig.unavailable /\ dep.source # "workspace"
      /\ SeverityOf(policy, "signal-unavailable") # "allow" => decision'.verdict # "allow" ]_vars

\* --ignore-scripts softens the finding about scripts and nothing else, as long
\* as the policy does not rate the ignored script above the disallowed one.
IgnoringNeverHarsher ==
  [][ ignoring' # ignoring
      /\ Rank[SeverityOf(policy, "lifecycle-script-ignored")]
           <= Rank[SeverityOf(policy, "disallowed-lifecycle-script")] => Softer ]_vars
=============================================================================
