----------------------------- MODULE PolicyProofs -----------------------------
(***************************************************************************)
(* Facts about the policy engine, for any policy, dependency and signals,  *)
(* on which EvaluationProofs and ProjectProofs rest: what its operators    *)
(* return, that the verdict is as grave as the gravest finding, and that   *)
(* the trust score adds up to what its signals weigh.                      *)
(***************************************************************************)
EXTENDS Policy, FiniteSetTheorems, TLAPS

\* An accessor gives a value of its control, from whichever layer.
LEMMA EffectiveType ==
  ASSUME NEW p, IsPolicy(p), NEW dep, NEW c \in Controls
  PROVE  Effective(p, dep, c) \in Values(c)
PROOF BY DEF IsPolicy, Effective

LEMMA SeverityType ==
  ASSUME NEW p, IsPolicy(p), NEW r \in Codes
  PROVE  /\ SeverityOf(p, r) \in Verdicts
         /\ Rank[SeverityOf(p, r)] \in 0 .. 2
         /\ SeverityOf(p, r) = "allow" <=> Rank[SeverityOf(p, r)] = 0
         /\ SeverityOf(p, r) = "block" <=> Rank[SeverityOf(p, r)] = 2
PROOF
<1>1. p.severity[r] \in Verdicts \cup {None}
  BY DEF IsPolicy
<1>2. SeverityOf(p, r) \in Verdicts
  BY <1>1 DEF SeverityOf, Verdicts
<1> QED
  BY <1>2 DEF Verdicts, Rank

\* The verdict of a set of severities ranks as high as any of them and no higher.
LEMMA WorstIs ==
  ASSUME NEW S \in SUBSET Verdicts
  PROVE  /\ Worst(S) \in Verdicts
         /\ Rank[Worst(S)] \in 0 .. 2
         /\ \A x \in S : Rank[x] <= Rank[Worst(S)]
         /\ Worst(S) # "allow" => Worst(S) \in S
PROOF
<1>1. Worst(S) \in Verdicts /\ (Worst(S) # "allow" => Worst(S) \in S)
  BY DEF Worst, Verdicts
<1>2. \A x \in S : Rank[x] <= Rank[Worst(S)]
  BY DEF Worst, Verdicts, Rank
<1> QED
  BY <1>1, <1>2 DEF Verdicts, Rank

\* What is found of a dependency.
Found(p, dep, sig, now, ignoring) ==
  IF dep.source = "workspace" THEN {} ELSE Reasons(p, dep, sig, now, ignoring)

LEMMA FoundType ==
  ASSUME NEW p, NEW dep, NEW sig, NEW now, NEW ignoring
  PROVE  Found(p, dep, sig, now, ignoring) \subseteq Codes
PROOF BY DEF Found, Reasons

\* The verdict is the severity of some finding, and of none below any of them; the
\* reasons are the findings that count.
LEMMA DecisionIs ==
  ASSUME NEW p, IsPolicy(p), NEW dep, NEW sig, NEW now, NEW ignoring
  PROVE  LET found == Found(p, dep, sig, now, ignoring)
             decision == Evaluate(p, dep, sig, now, ignoring)
         IN /\ decision \in [verdict : Verdicts, reasons : SUBSET Codes]
            /\ Rank[decision.verdict] \in 0 .. 2
            /\ \A r \in found : Rank[SeverityOf(p, r)] <= Rank[decision.verdict]
            /\ decision.verdict # "allow" =>
                 \E r \in found : SeverityOf(p, r) = decision.verdict
            /\ decision.reasons = {r \in found : SeverityOf(p, r) # "allow"}
PROOF
<1> DEFINE found == Found(p, dep, sig, now, ignoring)
           S == {SeverityOf(p, r) : r \in found}
           decision == Evaluate(p, dep, sig, now, ignoring)
<1>1. decision = [verdict |-> Worst(S), reasons |-> {r \in found : SeverityOf(p, r) # "allow"}]
  BY DEF Evaluate, Found
<1>2. found \subseteq Codes
  BY FoundType
<1>3. S \subseteq Verdicts
  BY <1>2, SeverityType
<1> HIDE DEF decision, found
<1>4. /\ Worst(S) \in Verdicts /\ Rank[Worst(S)] \in 0 .. 2
      /\ \A x \in S : Rank[x] <= Rank[Worst(S)]
      /\ Worst(S) # "allow" => Worst(S) \in S
  BY <1>3, WorstIs
<1>5. decision.verdict = Worst(S) /\ decision.reasons = {r \in found : SeverityOf(p, r) # "allow"}
  BY <1>1
<1>6. decision \in [verdict : Verdicts, reasons : SUBSET Codes]
  BY <1>1, <1>2, <1>4
<1>7. \A r \in found : Rank[SeverityOf(p, r)] <= Rank[decision.verdict]
  BY <1>4, <1>5
<1>8. decision.verdict # "allow" => \E r \in found : SeverityOf(p, r) = decision.verdict
  BY <1>4, <1>5
<1> QED
  BY <1>4, <1>5, <1>6, <1>7, <1>8 DEF found, decision

\* The same of one decision: what is found and counts, as grave as the gravest of it.
IsDecision(d, p, found) ==
  /\ d.verdict \in Verdicts
  /\ \A r \in found : Rank[SeverityOf(p, r)] <= Rank[d.verdict]
  /\ d.verdict # "allow" => \E r \in found : SeverityOf(p, r) = d.verdict
  /\ \A r : r \in d.reasons <=> r \in found /\ SeverityOf(p, r) # "allow"

LEMMA EvaluateIs ==
  ASSUME NEW p, IsPolicy(p), NEW dep, NEW sig, NEW now, NEW ignoring
  PROVE  IsDecision(Evaluate(p, dep, sig, now, ignoring), p, Found(p, dep, sig, now, ignoring))
PROOF
<1> DEFINE found == Found(p, dep, sig, now, ignoring)
           d == Evaluate(p, dep, sig, now, ignoring)
<1>1. d \in [verdict : Verdicts, reasons : SUBSET Codes]
  BY DecisionIs
<1>2. \A r \in found : Rank[SeverityOf(p, r)] <= Rank[d.verdict]
  BY DecisionIs
<1>3. d.verdict # "allow" => \E r \in found : SeverityOf(p, r) = d.verdict
  BY DecisionIs
<1>4. d.reasons = {r \in found : SeverityOf(p, r) # "allow"}
  BY DecisionIs
<1> HIDE DEF d, found
<1>5. \A r : r \in d.reasons <=> r \in found /\ SeverityOf(p, r) # "allow"
  BY <1>4
<1>6. IsDecision(d, p, found)
  BY <1>1, <1>2, <1>3, <1>5 DEF IsDecision
<1> QED
  BY <1>6 DEF d, found

\* If for every finding here that counts there is one at least as grave there, the
\* verdict there is at least as grave.
LEMMA GraverFindings ==
  ASSUME NEW p, IsPolicy(p), NEW q, IsPolicy(q), NEW dep, NEW dep2, NEW sig, NEW sig2,
         NEW now, NEW now2, NEW ignoring, NEW ignoring2,
         \A r \in Found(p, dep, sig, now, ignoring) :
           SeverityOf(p, r) = "allow" \/
           \E s \in Found(q, dep2, sig2, now2, ignoring2) :
             Rank[SeverityOf(p, r)] <= Rank[SeverityOf(q, s)]
  PROVE  Rank[Evaluate(p, dep, sig, now, ignoring).verdict]
           <= Rank[Evaluate(q, dep2, sig2, now2, ignoring2).verdict]
PROOF
<1> DEFINE here == Evaluate(p, dep, sig, now, ignoring)
           there == Evaluate(q, dep2, sig2, now2, ignoring2)
<1>1. CASE here.verdict = "allow"
  <2>1. Rank[here.verdict] = 0
    BY <1>1 DEF Rank
  <2> QED
    BY <2>1, DecisionIs
<1>2. CASE here.verdict # "allow"
  <2>1. PICK r \in Found(p, dep, sig, now, ignoring) : SeverityOf(p, r) = here.verdict
    BY <1>2, DecisionIs
  <2>2. PICK s \in Found(q, dep2, sig2, now2, ignoring2) :
          Rank[SeverityOf(p, r)] <= Rank[SeverityOf(q, s)]
    BY <1>2, <2>1
  <2>3. Rank[SeverityOf(q, s)] <= Rank[there.verdict]
    BY <2>2, DecisionIs
  <2>4. s \in Codes /\ r \in Codes
    BY <2>1, <2>2, FoundType
  <2>5. Rank[SeverityOf(p, r)] \in Int /\ Rank[SeverityOf(q, s)] \in Int /\ Rank[there.verdict] \in Int
    BY <2>4, SeverityType, DecisionIs
  <2> QED
    BY <2>1, <2>2, <2>3, <2>5
<1> QED
  BY <1>1, <1>2

-----------------------------------------------------------------------------
\* Longer lists have no fewer members of a kind.
LEMMA Counted ==
  ASSUME NEW S, NEW T \in Listed(S), NEW U \in SUBSET T
  PROVE  /\ Cardinality(T) \in Nat /\ Cardinality(U) \in Nat
         /\ Cardinality(U) <= Cardinality(T)
         /\ IsFiniteSet(U)
PROOF BY FS_CardinalityType, FS_Subset DEF Listed

LEMMA AdvisoriesWeigh ==
  ASSUME NEW A \in Listed(Advisory), NEW B \in Listed(Advisory), A \subseteq B
  PROVE  /\ AdvisoryWeight(A) \in Int /\ AdvisoryWeight(B) \in Int
         /\ AdvisoryWeight(B) <= AdvisoryWeight(A)
PROOF
<1> DEFINE Rated(C, severity) == {a \in C : a.severity = severity}
<1>1. ASSUME NEW severity
      PROVE  /\ Cardinality(Rated(A, severity)) \in Nat /\ Cardinality(Rated(B, severity)) \in Nat
             /\ Cardinality(Rated(A, severity)) <= Cardinality(Rated(B, severity))
  <2>1. Rated(A, severity) \subseteq Rated(B, severity) /\ Rated(B, severity) \subseteq B
    OBVIOUS
  <2>2. IsFiniteSet(Rated(B, severity))
    BY <2>1, Counted
  <2> QED
    BY <2>1, <2>2, FS_Subset, FS_CardinalityType
<1>2. ASSUME NEW C
      PROVE  AdvisoryWeight(C) = -50 * Cardinality(Rated(C, "critical")) - 35 * Cardinality(Rated(C, "high"))
               - 15 * Cardinality(Rated(C, "medium")) - 5 * Cardinality(Rated(C, "low"))
               - 10 * Cardinality(Rated(C, "unknown"))
  BY DEF AdvisoryWeight
<1> HIDE DEF Rated
<1> QED
  BY <1>1, <1>2

LEMMA ClampIs ==
  ASSUME NEW x \in Int, NEW y \in Int
  PROVE  Clamp(x, 0, 100) \in 0 .. 100 /\ (x <= y => Clamp(x, 0, 100) <= Clamp(y, 0, 100))
PROOF BY DEF Clamp

\* No signal of s weighs less in t.
NoLighter(s, n, t, m) ==
  /\ JustPublished(s, n) => JustPublished(t, m)
  /\ s.scripts # {} => t.scripts # {}
  /\ s.publisherChange => t.publisherChange
  /\ s.deprecated => t.deprecated
  /\ s.suspicious \subseteq t.suspicious
  /\ s.surface => t.surface
  /\ s.squat => t.squat
  /\ s.distTag # None => t.distTag # None
  /\ s.accountAge # None => t.accountAge # None
  /\ t.provenance => s.provenance
  /\ (s.metadata # None /\ s.metadata.archived) => (t.metadata # None /\ t.metadata.archived)
  /\ s.advisories \subseteq t.advisories /\ s.unavailable \subseteq t.unavailable
  /\ t.scorecard # s.scorecard => s.scorecard = None /\ t.scorecard <= 5

\* The score falls, or stays, where no signal weighs less.
LEMMA ScoreFalls ==
  ASSUME NEW s \in SignalSet, NEW t \in SignalSet, NEW n, NEW m, NoLighter(s, n, t, m)
  PROVE  /\ TrustScore(s, n) \in 0 .. 100 /\ TrustScore(t, m) \in 0 .. 100
         /\ TrustScore(t, m) <= TrustScore(s, n)
PROOF
<1>1. /\ Cardinality(s.suspicious) \in Nat /\ Cardinality(t.suspicious) \in Nat
      /\ Cardinality(s.suspicious) <= Cardinality(t.suspicious)
  BY Counted DEF SignalSet, NoLighter
<1>2. /\ Cardinality(s.unavailable) \in Nat /\ Cardinality(t.unavailable) \in Nat
      /\ Cardinality(s.unavailable) <= Cardinality(t.unavailable)
  BY Counted DEF SignalSet, NoLighter
<1>3. /\ AdvisoryWeight(s.advisories) \in Int /\ AdvisoryWeight(t.advisories) \in Int
      /\ AdvisoryWeight(t.advisories) <= AdvisoryWeight(s.advisories)
  BY AdvisoriesWeigh DEF SignalSet, NoLighter
<1> DEFINE Nudge(sig) == IF sig.scorecard = None THEN 0 ELSE 2 * (sig.scorecard - 5)
<1>4. Nudge(s) \in Int /\ Nudge(t) \in Int /\ Nudge(t) <= Nudge(s)
  BY DEF SignalSet, NoLighter
<1> DEFINE Seen(sig, at) ==
             Weight(JustPublished(sig, at), -10) + Weight(sig.scripts # {}, -15)
               + Weight(sig.publisherChange, -10) + Weight(sig.deprecated, -10)
           Built(sig) ==
             Weight(sig.surface, -5) + Weight(sig.distTag # None, -15) + Weight(sig.squat, -40)
               + Weight(sig.accountAge # None, -20) + Weight(sig.provenance, 10)
               + Weight(sig.metadata # None /\ sig.metadata.archived, -10)
<1>5. Seen(s, n) \in Int /\ Seen(t, m) \in Int /\ Seen(t, m) <= Seen(s, n)
  BY DEF Weight, NoLighter
<1>6. Built(s) \in Int /\ Built(t) \in Int /\ Built(t) <= Built(s)
  BY DEF Weight, NoLighter
<1>7. ASSUME NEW sig \in {s, t}, NEW at \in {n, m},
             Seen(sig, at) \in Int, Built(sig) \in Int
      PROVE  TrustScore(sig, at) =
               Clamp(100 + Seen(sig, at) - 35 * Cardinality(sig.suspicious) + Built(sig)
                     + AdvisoryWeight(sig.advisories) - 5 * Cardinality(sig.unavailable) + Nudge(sig), 0, 100)
  <2>1. /\ Cardinality(sig.suspicious) \in Int /\ AdvisoryWeight(sig.advisories) \in Int
        /\ Cardinality(sig.unavailable) \in Int /\ Nudge(sig) \in Int
    BY <1>1, <1>2, <1>3, <1>4
  <2>2. \A x, w : Weight(x, w) \in {w, 0}
    BY DEF Weight
  <2> HIDE DEF Nudge
  <2> QED
    BY <2>1, <2>2 DEF TrustScore, Nudge
<1> HIDE DEF Seen, Built, Nudge
<1> DEFINE sum(sig, at) == 100 + Seen(sig, at) - 35 * Cardinality(sig.suspicious) + Built(sig)
                     + AdvisoryWeight(sig.advisories) - 5 * Cardinality(sig.unavailable) + Nudge(sig)
<1>8. sum(s, n) \in Int /\ sum(t, m) \in Int /\ sum(t, m) <= sum(s, n)
  BY <1>1, <1>2, <1>3, <1>4, <1>5, <1>6
<1>9. TrustScore(s, n) = Clamp(sum(s, n), 0, 100) /\ TrustScore(t, m) = Clamp(sum(t, m), 0, 100)
  BY <1>5, <1>6, <1>7
<1> HIDE DEF sum
<1> QED
  BY <1>8, <1>9, ClampIs

\* The trust score is a percentage.
LEMMA ScoreIs ==
  ASSUME NEW s \in SignalSet, NEW n
  PROVE  TrustScore(s, n) \in 0 .. 100
PROOF
<1>1. NoLighter(s, n, s, n)
  BY DEF NoLighter
<1> QED
  BY <1>1, ScoreFalls
=============================================================================
