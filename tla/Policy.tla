-------------------------------- MODULE Policy --------------------------------
(***************************************************************************)
(* The policy engine (crates/core/src/policy.rs) and the trust score it    *)
(* consults (trust_score.rs), as operators: from a policy, a dependency,   *)
(* the signals collected for it, the time and the --ignore-scripts context *)
(* to a verdict and the codes of its reasons.                              *)
(*                                                                         *)
(* A signal set is one record with a field per kind of signal; a kind that *)
(* no provider reported is None, {} or FALSE.  Of every kind the policy    *)
(* reads with `find_map` the providers report at most one.                 *)
(***************************************************************************)
EXTENDS Integers, FiniteSets

CONSTANTS
  None,        \* no value: a signal not reported, an override not given
  Providers,   \* ids of signal providers
  Names,       \* package names
  Curated,     \* the npm packages of DEFAULT_SCRIPT_ALLOWLIST
  Versions, Scripts, Licenses, Advisories,
  Fresh        \* FRESHNESS_WINDOW_DAYS, in ticks

ASSUME PolicyAssumption == Curated \subseteq Names /\ Fresh \in Nat

Families == {"npm", "pypi"}

Level == [none |-> 0, unknown |-> 1, low |-> 2, medium |-> 3, high |-> 4, critical |-> 5]
Advisory == [id : Advisories, severity : DOMAIN Level \ {"none"}]

Metadata == [licenses : SUBSET Licenses, archived : BOOLEAN]

\* What a list of members of S may hold.
Listed(S) == {T \in SUBSET S : IsFiniteSet(T)}

SignalSet == [
  published : Int \cup {None},  scripts : SUBSET Scripts,      publisherChange : BOOLEAN,
  deprecated : BOOLEAN,         suspicious : Listed(Scripts),  surface : BOOLEAN,
  distTag : Versions \cup {None}, squat : BOOLEAN,             accountAge : Nat \cup {None},
  provenance : BOOLEAN,         advisories : Listed(Advisory), metadata : Metadata \cup {None},
  scorecard : 0 .. 10 \cup {None}, unavailable : Listed(Providers) ]

Silence == [
  published |-> None, scripts |-> {}, publisherChange |-> FALSE, deprecated |-> FALSE,
  suspicious |-> {}, surface |-> FALSE, distTag |-> None, squat |-> FALSE,
  accountAge |-> None, provenance |-> FALSE, advisories |-> {}, metadata |-> None,
  scorecard |-> None, unavailable |-> {} ]

Dependency == [source : {"registry", "workspace", "exotic"}, direct : BOOLEAN,
               family : Families, name : Names, version : Versions]

Matcher == [family : Families \cup {None}, name : Names]
Matches(m, dep) == m.name = dep.name /\ m.family \in {None, dep.family}

\* The controls a policy may set apart for direct dependencies, all off.
Off == [
  minimumReleaseAge |-> 0, detectPublisherChange |-> FALSE, flagDeprecated |-> FALSE,
  detectVersionSurfaceChange |-> FALSE, minMaintainerAccountAgeDays |-> 0,
  requireProvenance |-> FALSE, minTrustScore |-> 0, maxAdvisorySeverity |-> "none",
  requireLicense |-> FALSE, licenseAllowlist |-> {}, blockArchived |-> FALSE,
  minScorecardScore |-> 0 ]
Controls == DOMAIN Off

NoOverride == [c \in Controls |-> None]

Codes == {
  "exotic-source", "release-age-below-threshold", "published-at-unknown",
  "disallowed-lifecycle-script", "lifecycle-script-ignored", "publisher-change",
  "deprecated-version", "suspicious-script", "version-surface-change",
  "dist-tag-anomaly", "name-squat", "maintainer-new-account", "provenance-missing",
  "advisory-known", "license-missing", "license-disallowed", "project-archived",
  "scorecard-below-threshold", "trust-score-below-threshold", "signal-unavailable" }

Verdicts == {"allow", "warn", "block"}
Rank == [allow |-> 0, warn |-> 1, block |-> 2]

\* The values of a control.
Values(c) ==
  CASE c \in {"minimumReleaseAge", "minMaintainerAccountAgeDays", "minTrustScore",
              "minScorecardScore"} -> Nat
    [] c = "maxAdvisorySeverity" -> DOMAIN Level
    [] c = "licenseAllowlist" -> SUBSET Licenses
    [] OTHER -> BOOLEAN

\* What installguard.yaml can hold.
IsPolicy(p) ==
  /\ DOMAIN p = {"defaults", "direct", "blockExoticSubdeps", "nameSquatAllow", "denyScripts",
                 "scriptAllow", "severity"}
  /\ \A c \in Controls : p.defaults[c] \in Values(c) /\ p.direct[c] \in Values(c) \cup {None}
  /\ p.blockExoticSubdeps \in BOOLEAN /\ p.denyScripts \in BOOLEAN
  /\ p.severity \in [Codes -> Verdicts \cup {None}]

\* What an absent installguard.yaml stands for.
DefaultPolicy == [
  defaults |-> Off, direct |-> NoOverride, blockExoticSubdeps |-> FALSE,
  nameSquatAllow |-> {}, denyScripts |-> TRUE, scriptAllow |-> {},
  severity |-> [r \in Codes |-> None] ]

-----------------------------------------------------------------------------
\* Defect: overrides count for every dependency.
EffectiveEverywhere(p, dep, c) ==
  IF p.direct[c] # None THEN p.direct[c] ELSE p.defaults[c]

\* An override counts for direct dependencies only, and then replaces the
\* default, also with a laxer value.
Effective(p, dep, c) ==
  IF dep.direct /\ p.direct[c] # None THEN p.direct[c] ELSE p.defaults[c]

\* Whether a dependency may run install scripts.
ScriptAllowed(p, dep) ==
  \/ ~p.denyScripts
  \/ dep.family = "npm" /\ dep.name \in Curated
  \/ \E m \in p.scriptAllow : Matches(m, dep)

\* Defect: with --ignore-scripts every script is reported.
ScriptFindingOfAll(p, dep, ignoring) ==
  IF ignoring THEN {"lifecycle-script-ignored"}
  ELSE IF ScriptAllowed(p, dep) THEN {} ELSE {"disallowed-lifecycle-script"}

\* What a package with install scripts is reported for.
ScriptFinding(p, dep, ignoring) ==
  IF ScriptAllowed(p, dep) THEN {}
  ELSE IF ignoring THEN {"lifecycle-script-ignored"} ELSE {"disallowed-lifecycle-script"}

\* Defect: the difference the wrong way round.
OffendingSwapped(licenses, allowlist) == allowlist \ licenses

\* Licences outside the allowlist; an empty allowlist is none.
Offending(licenses, allowlist) == IF allowlist = {} THEN {} ELSE licenses \ allowlist

\* Severities at or above a floor; with the floor "none" there are none.
AtOrAbove(floor) == {s \in DOMAIN Level : floor # "none" /\ Level[s] >= Level[floor]}

\* Each advisory counts by its severity.
AdvisoryWeight(advisories) ==
  LET Rated(severity) == Cardinality({a \in advisories : a.severity = severity})
  IN -50 * Rated("critical") - 35 * Rated("high") - 15 * Rated("medium")
       - 5 * Rated("low") - 10 * Rated("unknown")

Weight(observed, delta) == IF observed THEN delta ELSE 0

\* Defect: no lower bound.
ClampAbove(x, low, high) == IF x > high THEN high ELSE x

Clamp(x, low, high) == IF x < low THEN low ELSE IF x > high THEN high ELSE x

\* Defect: the comparison the wrong way round.
NotJustPublished(sig, now) == sig.published # None /\ now - sig.published >= Fresh

\* A publication time in the future is not within the freshness window.
JustPublished(sig, now) ==
  sig.published # None /\ now - sig.published \in 0 .. Fresh - 1

TrustScore(sig, now) ==
  Clamp(100
      + Weight(JustPublished(sig, now), -10)
      + Weight(sig.scripts # {}, -15)
      + Weight(sig.publisherChange, -10)
      + Weight(sig.deprecated, -10)
      + -35 * Cardinality(sig.suspicious)
      + Weight(sig.surface, -5)
      + Weight(sig.distTag # None, -15)
      + Weight(sig.squat, -40)
      + Weight(sig.accountAge # None, -20)
      + Weight(sig.provenance, 10)
      + Weight(sig.metadata # None /\ sig.metadata.archived, -10)
      + AdvisoryWeight(sig.advisories)
      + -5 * Cardinality(sig.unavailable)
      + (IF sig.scorecard = None THEN 0 ELSE 2 * (sig.scorecard - 5)), 0, 100)

Reasons(p, dep, sig, now, ignoring) ==
  LET On(c) == Effective(p, dep, c)
      Licenced == IF sig.metadata = None THEN {} ELSE sig.metadata.licenses
  IN {r \in Codes :
      \/ r = "exotic-source" /\ p.blockExoticSubdeps /\ dep.source = "exotic"
      \/ /\ r = "release-age-below-threshold"
         /\ On("minimumReleaseAge") > 0 /\ sig.published # None
         /\ now - sig.published < On("minimumReleaseAge")
      \/ /\ r = "published-at-unknown"
         /\ On("minimumReleaseAge") > 0 /\ sig.published = None
      \/ r \in ScriptFinding(p, dep, ignoring) /\ sig.scripts # {}
      \/ r = "publisher-change" /\ On("detectPublisherChange") /\ sig.publisherChange
      \/ r = "deprecated-version" /\ On("flagDeprecated") /\ sig.deprecated
      \/ r = "suspicious-script" /\ sig.suspicious # {}
      \/ r = "version-surface-change" /\ On("detectVersionSurfaceChange") /\ sig.surface
      \/ r = "dist-tag-anomaly" /\ sig.distTag \notin {None, dep.version}
      \/ r = "name-squat" /\ sig.squat /\ ~\E m \in p.nameSquatAllow : Matches(m, dep)
      \/ /\ r = "maintainer-new-account" /\ sig.accountAge # None
         /\ sig.accountAge < On("minMaintainerAccountAgeDays")
      \/ r = "provenance-missing" /\ On("requireProvenance") /\ ~sig.provenance
      \/ /\ r = "advisory-known"
         /\ \E a \in sig.advisories : a.severity \in AtOrAbove(On("maxAdvisorySeverity"))
      \/ /\ r = "license-missing" /\ On("requireLicense")
         /\ sig.metadata # None /\ Licenced = {}
      \/ r = "license-disallowed" /\ Offending(Licenced, On("licenseAllowlist")) # {}
      \/ /\ r = "project-archived" /\ On("blockArchived")
         /\ sig.metadata # None /\ sig.metadata.archived
      \/ /\ r = "scorecard-below-threshold" /\ sig.scorecard # None
         /\ sig.scorecard < On("minScorecardScore")
      \/ /\ r = "trust-score-below-threshold"
         /\ TrustScore(sig, now) < On("minTrustScore")
      \/ r = "signal-unavailable" /\ sig.unavailable # {}}

\* The severity map's entry, or the default for the kind of reason.
SeverityOf(p, r) ==
  CASE p.severity[r] # None -> p.severity[r]
    [] p.severity[r] = None
       /\ r \in {"lifecycle-script-ignored", "dist-tag-anomaly", "signal-unavailable"} -> "warn"
    [] OTHER -> "block"

\* Defect: warnings are looked for first.
WorstWarnFirst(severities) ==
  CASE "warn" \in severities -> "warn"
    [] "warn" \notin severities /\ "block" \in severities -> "block"
    [] OTHER -> "allow"

Worst(severities) ==
  CASE "block" \in severities -> "block"
    [] "block" \notin severities /\ "warn" \in severities -> "warn"
    [] OTHER -> "allow"

\* Defect: what could not be looked at is no reason.
EvaluateTrusting(p, dep, sig, now, ignoring) ==
  LET found == IF dep.source = "workspace" THEN {}
               ELSE Reasons(p, dep, sig, now, ignoring) \ {"signal-unavailable"}
  IN [verdict |-> Worst({SeverityOf(p, r) : r \in found}),
      reasons |-> {r \in found : SeverityOf(p, r) # "allow"}]

\* First-party code is allowed unseen; reasons the severity map sets to "allow"
\* are dropped, the others are all reported.
Evaluate(p, dep, sig, now, ignoring) ==
  LET found == IF dep.source = "workspace" THEN {}
               ELSE Reasons(p, dep, sig, now, ignoring)
  IN [verdict |-> Worst({SeverityOf(p, r) : r \in found}),
      reasons |-> {r \in found : SeverityOf(p, r) # "allow"}]
=============================================================================
