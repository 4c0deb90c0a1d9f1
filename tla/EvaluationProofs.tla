--------------------------- MODULE EvaluationProofs ---------------------------
(***************************************************************************)
(* Proofs about Evaluation, for any policies, packages, providers and      *)
(* signals: the verdict moves in one direction with the evidence, the time *)
(* and the strictness of the policy, an outage never turns it green, and   *)
(* each setting reaches what it is about and nothing else.                 *)
(***************************************************************************)
EXTENDS Evaluation, PolicyProofs

\* What was decided is what the engine makes of the policy, the signals and the
\* time that are there.
IInv ==
  /\ project \in DOMAIN Projects
  /\ policy \in Projects[project].policies /\ dep \in Projects[project].deps
  /\ sig \in SignalSet
  /\ now \in 0 .. MaxNow
  /\ ignoring \in BOOLEAN
  /\ decision = Evaluate(policy, dep, sig, now, ignoring)

LEMMA SilenceIsSignals == Silence \in SignalSet
PROOF BY FS_EmptySet DEF Silence, SignalSet, Listed

\* A field may be filled with what it may be filled with in an empty signal set.
LEMMA FieldFilled ==
  ASSUME NEW s \in SignalSet, NEW f \in Fields, NEW v, [Silence EXCEPT ![f] = v] \in SignalSet
  PROVE  /\ [s EXCEPT ![f] = v] \in SignalSet
         /\ [s EXCEPT ![f] = v].unavailable = s.unavailable
PROOF BY DEF Fields, Silence, SignalSet

\* What an outage makes of a signal set.
LEMMA FieldsEmptied ==
  ASSUME NEW s \in SignalSet, NEW c \in Providers, NEW lost \in SUBSET Fields
  PROVE  LET t == [f \in DOMAIN s |->
                     IF f = "unavailable" THEN s.unavailable \cup {c}
                     ELSE IF f \in lost THEN Silence[f] ELSE s[f]]
         IN t \in SignalSet /\ t.unavailable = s.unavailable \cup {c}
PROOF
<1> DEFINE t == [f \in DOMAIN s |->
                   IF f = "unavailable" THEN s.unavailable \cup {c}
                   ELSE IF f \in lost THEN Silence[f] ELSE s[f]]
           fields == [
             published |-> t.published, scripts |-> t.scripts, publisherChange |-> t.publisherChange,
             deprecated |-> t.deprecated, suspicious |-> t.suspicious, surface |-> t.surface,
             distTag |-> t.distTag, squat |-> t.squat, accountAge |-> t.accountAge,
             provenance |-> t.provenance, advisories |-> t.advisories, metadata |-> t.metadata,
             scorecard |-> t.scorecard, unavailable |-> t.unavailable ]
<1>1. s.unavailable \cup {c} \in Listed(Providers)
  BY FS_AddElement DEF SignalSet, Listed
<1>2. DOMAIN s = DOMAIN Silence /\ DOMAIN t = DOMAIN Silence
  BY DEF SignalSet, Silence
<1>3. "unavailable" \notin lost
  BY DEF Fields
<1>4. \A f \in DOMAIN Silence :
        t[f] = IF f = "unavailable" THEN s.unavailable \cup {c}
               ELSE IF f \in lost THEN Silence[f] ELSE s[f]
  BY <1>2
<1>5. t = [f \in DOMAIN s |-> t[f]]
  OBVIOUS
<1>6. t.unavailable = s.unavailable \cup {c}
  BY <1>2 DEF Silence
<1> HIDE DEF t
<1>7. t = fields
  BY <1>2, <1>5 DEF Silence
<1>8. fields \in SignalSet
  BY <1>1, <1>3, <1>4, SilenceIsSignals DEF Silence, SignalSet
<1> QED
  BY <1>6, <1>7, <1>8 DEF t

\* The projects of the assumption.
LEMMA InProject ==
  ASSUME NEW x \in DOMAIN Projects
  PROVE  /\ \A p \in Projects[x].policies : IsPolicy(p)
         /\ Projects[x].deps \subseteq Dependency /\ Projects[x].origins \subseteq SignalSet
         /\ Projects[x].providers \subseteq Providers
         /\ DOMAIN Projects[x].values \subseteq Fields
         /\ \A f \in DOMAIN Projects[x].values :
              \A v \in Projects[x].values[f] : [Silence EXCEPT ![f] = v] \in SignalSet
         /\ MaxNow \in Nat
PROOF BY EvaluationAssumption

LEMMA InitInv == Init => IInv
PROOF
<1> SUFFICES ASSUME Init PROVE IInv
  OBVIOUS
<1>1. project \in DOMAIN Projects /\ sig \in Projects[project].origins /\ now = 0
  BY DEF Init
<1>2. sig \in SignalSet /\ now \in 0 .. MaxNow
  BY <1>1, InProject
<1> QED
  BY <1>2 DEF Init, IInv

LEMMA ReportInv ==
  ASSUME IInv, NEW c \in Projects[project].providers, NEW f \in Fields, Report(c, f)
  PROVE  IInv' /\ sig'.unavailable = sig.unavailable
PROOF
<1>1. PICK v \in Projects[project].values[f] : sig' = [sig EXCEPT ![f] = v]
  BY DEF Report
<1>2. [Silence EXCEPT ![f] = v] \in SignalSet
  BY InProject DEF IInv, Report
<1>3. sig' \in SignalSet /\ sig'.unavailable = sig.unavailable
  BY <1>1, <1>2, FieldFilled DEF IInv
<1> QED
  BY <1>3 DEF IInv, Report, Reevaluate

LEMMA OutageInv ==
  ASSUME IInv, NEW c \in Projects[project].providers,
         NEW lost \in {Reported[c], Reported[c] \cap {"published"}}, Outage(c, lost)
  PROVE  IInv' /\ sig'.unavailable # {}
PROOF
<1>1. c \in Providers /\ lost \in SUBSET Fields
  BY InProject, EvaluationAssumption DEF IInv
<1> DEFINE t == [f \in DOMAIN sig |->
                   IF f = "unavailable" THEN sig.unavailable \cup {c}
                   ELSE IF f \in lost THEN Silence[f] ELSE sig[f]]
<1>2. t \in SignalSet /\ t.unavailable = sig.unavailable \cup {c}
  BY <1>1, FieldsEmptied DEF IInv
<1>3. sig' = t
  BY DEF Outage
<1>4. sig' \in SignalSet /\ sig'.unavailable # {}
  BY <1>2, <1>3
<1> QED
  BY <1>4 DEF IInv, Outage, Reevaluate

LEMMA TickInv == ASSUME IInv, Tick PROVE IInv' /\ now <= now' /\ sig' = sig
PROOF BY InProject DEF IInv, Tick, Reevaluate

LEMMA EditInv == ASSUME IInv, Edit PROVE IInv' /\ sig' = sig
PROOF BY DEF IInv, Edit, Edits, Reevaluate

LEMMA IgnoreInv == ASSUME IInv, IgnoreScripts PROVE IInv' /\ ~ignoring /\ sig' = sig
PROOF BY DEF IInv, IgnoreScripts, Reevaluate

\* What every step keeps, and the little it may do apart from deciding anew.
LEMMA Step ==
  ASSUME IInv, [Next]_vars
  PROVE  /\ IInv'
         /\ now <= now'
         /\ ignoring' # ignoring => ~ignoring /\ ignoring' /\ UNCHANGED <<policy, dep, sig, now>>
         /\ sig'.unavailable # sig.unavailable => policy' = policy /\ dep' = dep /\ sig'.unavailable # {}
PROOF
<1>1. now \in Int
  BY InProject DEF IInv
<1>2. CASE UNCHANGED vars
  BY <1>1, <1>2 DEF vars, IInv
<1>3. ASSUME NEW c \in Projects[project].providers, NEW f \in Fields, Report(c, f)
      PROVE  IInv' /\ sig'.unavailable = sig.unavailable /\ UNCHANGED <<now, ignoring>>
  BY <1>3, ReportInv DEF Report
<1>4. ASSUME NEW c \in Projects[project].providers,
             NEW lost \in {Reported[c], Reported[c] \cap {"published"}}, Outage(c, lost)
      PROVE  IInv' /\ sig'.unavailable # {} /\ UNCHANGED <<policy, dep, now, ignoring>>
  BY <1>4, OutageInv DEF Outage
<1>5. CASE Tick
  BY <1>5, TickInv DEF Tick
<1>6. CASE Edit
  BY <1>1, <1>6, EditInv DEF Edit
<1>7. CASE IgnoreScripts
  <2>1. IInv' /\ ~ignoring /\ ignoring' = TRUE /\ UNCHANGED <<policy, dep, sig, now>>
    BY <1>7, IgnoreInv DEF IgnoreScripts
  <2>2. now <= now'
    BY <1>1, <2>1
  <2> QED
    BY <2>1, <2>2, Zenon
<1>8. CASE \E c \in Projects[project].providers, f \in Fields : Report(c, f)
  BY <1>1, <1>3, <1>8
<1>9. CASE \E c \in Projects[project].providers :
             \E lost \in {Reported[c], Reported[c] \cap {"published"}} : Outage(c, lost)
  <2>1. IInv' /\ sig'.unavailable # {} /\ UNCHANGED <<policy, dep, now, ignoring>>
    BY <1>4, <1>9
  <2> QED
    BY <1>1, <2>1
<1> QED
  BY <1>2, <1>5, <1>6, <1>7, <1>8, <1>9 DEF Next

LEMMA Invariance == Spec => []IInv
PROOF
<1>1. Init => IInv
  BY InitInv
<1>2. IInv /\ [Next]_vars => IInv'
  BY Step
<1> QED
  BY <1>1, <1>2, PTL DEF Spec
-----------------------------------------------------------------------------
\* More alarming signals: nothing that was found is missed, and the score falls.
LEMMA EvidenceFound ==
  ASSUME NEW p, IsPolicy(p), NEW d, NEW s \in SignalSet, NEW t \in SignalSet, AsAlarming(s, t),
         NEW at, NEW ign
  PROVE  Found(p, d, s, at, ign) \subseteq Found(p, d, t, at, ign)
PROOF
<1>1. /\ t.published = s.published /\ t.provenance = s.provenance
      /\ s.scripts \subseteq t.scripts /\ s.suspicious \subseteq t.suspicious
      /\ s.advisories \subseteq t.advisories /\ s.unavailable \subseteq t.unavailable
      /\ s.publisherChange => t.publisherChange
      /\ s.deprecated => t.deprecated
      /\ s.surface => t.surface
      /\ s.squat => t.squat
  BY DEF AsAlarming
<1>2. /\ s.distTag \in {None, t.distTag} /\ s.accountAge \in {None, t.accountAge}
      /\ s.metadata \in {None, t.metadata}
      /\ t.scorecard # s.scorecard => s.scorecard = None /\ t.scorecard <= 5
  BY DEF AsAlarming
<1>3. JustPublished(s, at) => JustPublished(t, at)
  BY <1>1 DEF JustPublished
<1>4. /\ TrustScore(s, at) \in Int /\ TrustScore(t, at) \in Int
      /\ TrustScore(t, at) <= TrustScore(s, at)
  <2>1. NoLighter(s, at, t, at)
    BY <1>1, <1>2, <1>3 DEF NoLighter
  <2> QED
    BY <2>1, ScoreFalls
<1>5. Effective(p, d, "minTrustScore") \in Nat
  BY EffectiveType DEF Controls, Off, Values
<1>6. Reasons(p, d, s, at, ign) \subseteq Reasons(p, d, t, at, ign)
  <2> SUFFICES ASSUME NEW r \in Reasons(p, d, s, at, ign)
               PROVE  r \in Reasons(p, d, t, at, ign)
    OBVIOUS
  <2>1. r \in Codes
    BY DEF Reasons
  <2>2. CASE r \in {"exotic-source", "release-age-below-threshold", "published-at-unknown",
                    "publisher-change", "deprecated-version", "version-surface-change", "name-squat"}
    BY <1>1, <2>2 DEF Reasons, ScriptFinding
  <2>3. CASE r \in {"disallowed-lifecycle-script", "lifecycle-script-ignored"}
    BY <1>1, <2>3 DEF Reasons, ScriptFinding
  <2>4. CASE r \in {"suspicious-script", "dist-tag-anomaly", "maintainer-new-account",
                    "provenance-missing", "signal-unavailable"}
    BY <1>1, <1>2, <2>4 DEF Reasons, ScriptFinding
  <2>5. CASE r = "advisory-known"
    BY <1>1, <2>5 DEF Reasons, ScriptFinding
  <2>6. CASE r \in {"license-missing", "license-disallowed", "project-archived"}
    BY <1>2, <2>6 DEF Reasons, ScriptFinding, Offending
  <2>7. CASE r = "scorecard-below-threshold"
    BY <1>2, <2>7 DEF Reasons, ScriptFinding
  <2>8. CASE r = "trust-score-below-threshold"
    BY <1>4, <1>5, <2>8 DEF Reasons, ScriptFinding
  <2> QED
    BY <2>1, <2>2, <2>3, <2>4, <2>5, <2>6, <2>7, <2>8 DEF Codes
<1> QED
  BY <1>6 DEF Found

\* Time passes: what is found later was found before, unless the publication time
\* still lies ahead.
LEMMA LaterFound ==
  ASSUME NEW p, IsPolicy(p), NEW d, NEW s \in SignalSet, NEW at \in Int, NEW later \in Int,
         at <= later, s.published # None => s.published <= at, NEW ign
  PROVE  Found(p, d, s, later, ign) \subseteq Found(p, d, s, at, ign)
PROOF
<1>1. s.published \in Int \cup {None}
  BY DEF SignalSet
<1>2. JustPublished(s, later) => JustPublished(s, at)
  BY <1>1, PolicyAssumption DEF JustPublished
<1>3. s.scorecard \in Int \cup {None}
  BY DEF SignalSet
<1>4. NoLighter(s, later, s, at)
  BY <1>2, <1>3 DEF NoLighter
<1>5. /\ TrustScore(s, at) \in Int /\ TrustScore(s, later) \in Int
      /\ TrustScore(s, at) <= TrustScore(s, later)
  BY <1>4, ScoreFalls
<1>6. Effective(p, d, "minTrustScore") \in Nat /\ Effective(p, d, "minimumReleaseAge") \in Nat
  BY EffectiveType DEF Controls, Off, Values
<1>7. ASSUME NEW r \in Reasons(p, d, s, later, ign)
      PROVE  r \in Reasons(p, d, s, at, ign)
  <2>1. CASE r = "release-age-below-threshold"
    BY <1>1, <1>6, <1>7, <2>1 DEF Reasons, ScriptFinding
  <2>2. CASE r = "trust-score-below-threshold"
    BY <1>5, <1>6, <1>7, <2>2 DEF Reasons, ScriptFinding
  <2>3. CASE r \notin {"release-age-below-threshold", "trust-score-below-threshold"}
    BY <1>7, <2>3 DEF Reasons
  <2> QED
    BY <2>1, <2>2, <2>3
<1> QED
  BY <1>7 DEF Found

\* A stricter policy finds all that a laxer one does.
LEMMA StricterFinds ==
  ASSUME NEW p, IsPolicy(p), NEW q, IsPolicy(q), NEW s \in SignalSet,
         AsStrictAPolicy(p, q), NEW at \in Int, NEW ign
  PROVE  Found(p, dep, s, at, ign) \subseteq Found(q, dep, s, at, ign)
PROOF
<1> DEFINE Old(c) == Effective(p, dep, c)
           New(c) == Effective(q, dep, c)
<1>1. /\ p.blockExoticSubdeps => q.blockExoticSubdeps
      /\ p.denyScripts => q.denyScripts
      /\ q.scriptAllow \subseteq p.scriptAllow
      /\ q.nameSquatAllow \subseteq p.nameSquatAllow
      /\ \A c \in Controls : AsStrict(c, Old(c), New(c))
  BY DEF AsStrictAPolicy
<1>2. ScriptAllowed(q, dep) => ScriptAllowed(p, dep)
  BY <1>1 DEF ScriptAllowed
<1>3. \A c \in {"minimumReleaseAge", "minMaintainerAccountAgeDays", "minTrustScore", "minScorecardScore"} :
        Old(c) \in Nat /\ New(c) \in Nat /\ Old(c) <= New(c)
  BY <1>1, EffectiveType DEF Controls, Off, Values, AsStrict
<1>4. \A c \in {"detectPublisherChange", "flagDeprecated", "detectVersionSurfaceChange",
                "requireProvenance", "requireLicense", "blockArchived"} : Old(c) => New(c)
  BY <1>1 DEF Controls, Off, AsStrict
<1>5. AtOrAbove(Old("maxAdvisorySeverity")) \subseteq AtOrAbove(New("maxAdvisorySeverity"))
  BY <1>1 DEF Controls, Off, AsStrict
<1>6. \/ Old("licenseAllowlist") = {}
      \/ New("licenseAllowlist") # {} /\ New("licenseAllowlist") \subseteq Old("licenseAllowlist")
  BY <1>1 DEF Controls, Off, AsStrict
<1>7. TrustScore(s, at) \in Int
  BY ScoreIs
<1>8. ASSUME NEW r \in Reasons(p, dep, s, at, ign)
      PROVE  r \in Reasons(q, dep, s, at, ign)
  <2>1. r \in Codes
    BY <1>8 DEF Reasons
  <2>2. s.published \in Int \cup {None} /\ s.accountAge \in Int \cup {None} /\ s.scorecard \in Int \cup {None}
    BY DEF SignalSet
  <2>3. CASE r \in {"exotic-source", "suspicious-script", "dist-tag-anomaly", "signal-unavailable"}
    BY <1>1, <1>8, <2>3 DEF Reasons, ScriptFinding
  <2>4. CASE r \in {"release-age-below-threshold", "published-at-unknown"}
    BY <1>3, <1>8, <2>2, <2>4 DEF Reasons, ScriptFinding
  <2>5. CASE r \in {"disallowed-lifecycle-script", "lifecycle-script-ignored"}
    BY <1>2, <1>8, <2>5 DEF Reasons, ScriptFinding
  <2>6. CASE r \in {"publisher-change", "deprecated-version", "version-surface-change",
                    "provenance-missing", "license-missing", "project-archived"}
    <3>1. /\ Old("detectPublisherChange") => New("detectPublisherChange")
          /\ Old("flagDeprecated") => New("flagDeprecated")
          /\ Old("detectVersionSurfaceChange") => New("detectVersionSurfaceChange")
          /\ Old("requireProvenance") => New("requireProvenance")
          /\ Old("requireLicense") => New("requireLicense")
          /\ Old("blockArchived") => New("blockArchived")
      BY <1>4
    <3> QED
      BY <1>8, <2>6, <3>1 DEF Reasons, ScriptFinding
  <2>7. CASE r = "name-squat"
    BY <1>1, <1>8, <2>7 DEF Reasons, ScriptFinding
  <2>8. CASE r \in {"maintainer-new-account", "scorecard-below-threshold"}
    BY <1>3, <1>8, <2>2, <2>8 DEF Reasons, ScriptFinding
  <2>9. CASE r = "advisory-known"
    BY <1>5, <1>8, <2>9 DEF Reasons, ScriptFinding
  <2>10. CASE r = "license-disallowed"
    BY <1>6, <1>8, <2>10 DEF Reasons, ScriptFinding, Offending
  <2>11. CASE r = "trust-score-below-threshold"
    BY <1>3, <1>7, <1>8, <2>11 DEF Reasons, ScriptFinding
  <2> QED
    BY <2>1, <2>3, <2>4, <2>5, <2>6, <2>7, <2>8, <2>9, <2>10, <2>11 DEF Codes
<1> QED
  BY <1>8 DEF Found

-----------------------------------------------------------------------------
\* Every policy of the project is one.
LEMMA InvPolicies ==
  ASSUME IInv
  PROVE  IsPolicy(policy) /\ now \in Int /\ decision = Evaluate(policy, dep, sig, now, ignoring)
PROOF BY InProject DEF IInv

\* The type invariant: whatever signals a package has collected, its score is a
\* percentage and its decision one of the three with reasons from the list
\* (TrustScore::compute_at, Policy::evaluate_with).
THEOREM TypeCorrect == Spec => []TypeOK
PROOF
<1>1. ASSUME IInv PROVE TypeOK
  <2>1. decision \in [verdict : Verdicts, reasons : SUBSET Codes]
    BY <1>1, InvPolicies, DecisionIs
  <2>2. TrustScore(sig, now) \in 0 .. 100
    BY <1>1, ScoreIs DEF IInv
  <2> QED
    BY <1>1, <2>1, <2>2 DEF IInv, TypeOK
<1> QED
  BY <1>1, Invariance, PTL

\* What is found more, or the same found in a policy as grave, is no laxer.
LEMMA MoreFoundGraver ==
  ASSUME NEW p, IsPolicy(p), NEW q, IsPolicy(q), NEW d, NEW s, NEW t, NEW n, NEW m, NEW i, NEW j,
         Found(p, d, s, n, i) \subseteq Found(q, d, t, m, j),
         \A r \in Codes : Rank[SeverityOf(p, r)] <= Rank[SeverityOf(q, r)]
  PROVE  Rank[Evaluate(p, d, s, n, i).verdict] <= Rank[Evaluate(q, d, t, m, j).verdict]
PROOF
<1>1. \A r \in Found(p, d, s, n, i) :
        r \in Found(q, d, t, m, j) /\ Rank[SeverityOf(p, r)] <= Rank[SeverityOf(q, r)]
  BY FoundType
<1> QED
  BY <1>1, GraverFindings

\* One policy rates a reason as it does.
LEMMA AsGrave ==
  ASSUME NEW p, IsPolicy(p)
  PROVE  \A r \in Codes : Rank[SeverityOf(p, r)] <= Rank[SeverityOf(p, r)]
PROOF BY SeverityType

\* Another alarming signal never relaxes the verdict (the detectors of evaluate_with).
THEOREM AlarmsHold == Spec => AlarmNeverRelaxes
PROOF
<1>1. ASSUME IInv, [Next]_vars, UNCHANGED <<policy, dep, now, ignoring>>, AsAlarming(sig, sig')
      PROVE  Harsher
  <2>1. /\ IsPolicy(policy) /\ sig \in SignalSet /\ sig' \in SignalSet
        /\ decision = Evaluate(policy, dep, sig, now, ignoring)
        /\ decision' = Evaluate(policy, dep, sig', now, ignoring)
    BY <1>1, Step, InvPolicies DEF IInv
  <2>2. Found(policy, dep, sig, now, ignoring) \subseteq Found(policy, dep, sig', now, ignoring)
    BY <1>1, <2>1, EvidenceFound
  <2> QED
    BY <2>1, <2>2, AsGrave, MoreFoundGraver DEF Harsher
<1> QED
  BY <1>1, Invariance, PTL DEF Spec, AlarmNeverRelaxes

\* Waiting never makes the verdict worse (the age checks and score_signal_at).
THEOREM WaitingHelps == Spec => WaitingNeverHurts
PROOF
<1>1. ASSUME IInv, [Next]_vars, UNCHANGED <<policy, dep, sig, ignoring>>,
             sig.published # None => sig.published <= now
      PROVE  Softer
  <2>1. /\ IsPolicy(policy) /\ sig \in SignalSet /\ now \in Int /\ now' \in Int /\ now <= now'
        /\ decision = Evaluate(policy, dep, sig, now, ignoring)
        /\ decision' = Evaluate(policy, dep, sig, now', ignoring)
    BY <1>1, Step, InvPolicies, InProject DEF IInv
  <2>2. Found(policy, dep, sig, now', ignoring) \subseteq Found(policy, dep, sig, now, ignoring)
    BY <1>1, <2>1, LaterFound
  <2> QED
    BY <2>1, <2>2, AsGrave, MoreFoundGraver DEF Softer
<1> QED
  BY <1>1, Invariance, PTL DEF Spec, WaitingNeverHurts

\* A tighter policy is never laxer in its verdict (the accessors, severity_for).
THEOREM TighteningHolds == Spec => TighteningNeverRelaxes
PROOF
<1>1. ASSUME IInv, [Next]_vars, UNCHANGED <<dep, sig, now, ignoring>>, AsStrictAPolicy(policy, policy')
      PROVE  Harsher
  <2>1. /\ IsPolicy(policy) /\ IsPolicy(policy') /\ sig \in SignalSet /\ now \in Int
        /\ decision = Evaluate(policy, dep, sig, now, ignoring)
        /\ decision' = Evaluate(policy', dep, sig, now, ignoring)
    BY <1>1, Step, InvPolicies, InProject DEF IInv
  <2>2. Found(policy, dep, sig, now, ignoring) \subseteq Found(policy', dep, sig, now, ignoring)
    BY <1>1, <2>1, StricterFinds
  <2>3. \A r \in Codes : Rank[SeverityOf(policy, r)] <= Rank[SeverityOf(policy', r)]
    BY <1>1 DEF AsStrictAPolicy
  <2> QED
    BY <2>1, <2>2, <2>3, MoreFoundGraver DEF Harsher
<1> QED
  BY <1>1, Invariance, PTL DEF Spec, TighteningNeverRelaxes

\* A transitive dependency is decided on without the direct section.
LEMMA WithoutDirect ==
  ASSUME NEW p, IsPolicy(p), NEW q, q = [p EXCEPT !.direct = q.direct], NEW d, ~d.direct,
         NEW s, NEW n, NEW i
  PROVE  Evaluate(q, d, s, n, i) = Evaluate(p, d, s, n, i)
PROOF
<1>1. /\ q.defaults = p.defaults /\ q.blockExoticSubdeps = p.blockExoticSubdeps
      /\ q.nameSquatAllow = p.nameSquatAllow /\ q.denyScripts = p.denyScripts
      /\ q.scriptAllow = p.scriptAllow /\ q.severity = p.severity
  BY DEF IsPolicy
<1>2. \A c : Effective(q, d, c) = Effective(p, d, c)
  BY <1>1 DEF Effective
<1>3. ScriptAllowed(q, d) = ScriptAllowed(p, d)
  BY <1>1 DEF ScriptAllowed
<1>4. \A r : SeverityOf(q, r) = SeverityOf(p, r)
  BY <1>1 DEF SeverityOf
<1>5. Reasons(q, d, s, n, i) = Reasons(p, d, s, n, i)
  BY <1>1, <1>2, <1>3 DEF Reasons, ScriptFinding
<1> QED
  BY <1>4, <1>5 DEF Evaluate

\* Editing the section for direct dependencies (DirectOverrides) changes nothing for
\* the others.
THEOREM DirectSectionStays == Spec => DirectSectionIsDirect
PROOF
<1>1. ASSUME IInv, [Next]_vars, UNCHANGED <<dep, sig, now, ignoring>>, ~dep.direct,
             policy' = [policy EXCEPT !.direct = policy'.direct]
      PROVE  UNCHANGED decision
  <2>1. /\ IsPolicy(policy)
        /\ decision = Evaluate(policy, dep, sig, now, ignoring)
        /\ decision' = Evaluate(policy', dep, sig, now, ignoring)
    BY <1>1, Step, InvPolicies, InProject DEF IInv
  <2>2. Evaluate(policy', dep, sig, now, ignoring) = Evaluate(policy, dep, sig, now, ignoring)
    BY <1>1, <2>1, WithoutDirect
  <2> QED
    BY <2>1, <2>2
<1> QED
  BY <1>1, Invariance, PTL DEF Spec, DirectSectionIsDirect

\* An outage never turns the verdict green, unless signal-unavailable is set to allow
\* (evaluate_with: Unavailable).
THEOREM OutagesShow == Spec => OutageNeverGreen
PROOF
<1>1. ASSUME IInv, [Next]_vars, sig'.unavailable # sig.unavailable, dep.source # "workspace",
             SeverityOf(policy, "signal-unavailable") # "allow"
      PROVE  decision'.verdict # "allow"
  <2>1. IInv' /\ policy' = policy /\ dep' = dep /\ sig'.unavailable # {}
    BY <1>1, Step
  <2>2. IsPolicy(policy) /\ decision' = Evaluate(policy, dep, sig', now', ignoring')
    BY <1>1, <2>1, InvPolicies DEF IInv
  <2>3. "signal-unavailable" \in Found(policy, dep, sig', now', ignoring')
    BY <1>1, <2>1 DEF Found, Reasons, Codes
  <2>4. Rank[SeverityOf(policy, "signal-unavailable")] <= Rank[decision'.verdict]
    BY <2>2, <2>3, DecisionIs
  <2>5. Rank[SeverityOf(policy, "signal-unavailable")] \in 1 .. 2
    BY <1>1, <2>2, SeverityType DEF Codes
  <2>6. Rank["allow"] = 0
    BY DEF Rank
  <2> QED
    BY <2>4, <2>5, <2>6
<1> QED
  BY <1>1, Invariance, PTL DEF Spec, OutageNeverGreen

\* --ignore-scripts changes what is found about scripts and nothing else
\* (evaluate_with: EvalContext).
THEOREM IgnoringSoftens == Spec => IgnoringNeverHarsher
PROOF
<1>1. ASSUME IInv, [Next]_vars, ignoring' # ignoring,
             Rank[SeverityOf(policy, "lifecycle-script-ignored")]
               <= Rank[SeverityOf(policy, "disallowed-lifecycle-script")]
      PROVE  Softer
  <2>1. IInv' /\ ~ignoring /\ ignoring' /\ UNCHANGED <<policy, dep, sig, now>>
    BY <1>1, Step
  <2>2. /\ IsPolicy(policy)
        /\ decision = Evaluate(policy, dep, sig, now, ignoring)
        /\ decision' = Evaluate(policy, dep, sig, now, ignoring')
    BY <1>1, <2>1, InvPolicies DEF IInv
  <2>3. ASSUME NEW r \in Found(policy, dep, sig, now, ignoring')
        PROVE  \E s \in Found(policy, dep, sig, now, ignoring) :
                 Rank[SeverityOf(policy, r)] <= Rank[SeverityOf(policy, s)]
    <3>1. r \in Codes
      BY FoundType
    <3>2. CASE r = "lifecycle-script-ignored"
      <4>1. "disallowed-lifecycle-script" \in Found(policy, dep, sig, now, ignoring)
        BY <2>1, <2>3, <3>2 DEF Found, Reasons, ScriptFinding, Codes
      <4> QED
        BY <1>1, <3>2, <4>1
    <3>3. CASE r # "lifecycle-script-ignored"
      <4>1. r \in Found(policy, dep, sig, now, ignoring)
        BY <2>1, <2>3, <3>3 DEF Found, Reasons, ScriptFinding
      <4> QED
        BY <2>2, <3>1, <4>1, AsGrave
    <3> QED
      BY <3>2, <3>3
  <2> QED
    BY <2>2, <2>3, GraverFindings DEF Softer
<1> QED
  BY <1>1, Invariance, PTL DEF Spec, IgnoringNeverHarsher
=============================================================================
