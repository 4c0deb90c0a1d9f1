----------------------------- MODULE MCEvaluation -----------------------------
(***************************************************************************)
(* Instances of Evaluation for TLC.                                        *)
(***************************************************************************)
EXTENDS Evaluation, TLC

MCReported ==
  "npm-registry" :> {"published", "scripts", "publisherChange", "deprecated", "suspicious",
                     "surface", "distTag", "squat", "accountAge", "provenance"}
  @@ "osv" :> {"advisories"}
  @@ "catalogues" :> {"metadata", "scorecard"}

Of(name, source, direct, family) ==
  [name |-> name, source |-> source, direct |-> direct, family |-> family, version |-> "1"]

-----------------------------------------------------------------------------
\* One policy that arms everything, the default one, and two severity maps.
Armed == [DefaultPolicy EXCEPT
  !.blockExoticSubdeps = TRUE,
  !.defaults = [
     minimumReleaseAge |-> 2, detectPublisherChange |-> TRUE, flagDeprecated |-> TRUE,
     detectVersionSurfaceChange |-> TRUE, minMaintainerAccountAgeDays |-> 2,
     requireProvenance |-> TRUE, minTrustScore |-> 60, maxAdvisorySeverity |-> "medium",
     requireLicense |-> TRUE, licenseAllowlist |-> {"MIT"}, blockArchived |-> TRUE,
     minScorecardScore |-> 4]]

\* Only the score gate can tell how many signals there are.
ScoreOnly == [DefaultPolicy EXCEPT
  !.defaults.minTrustScore = 60,
  !.severity = [r \in Codes |-> IF r = "trust-score-below-threshold" THEN None ELSE "warn"]]

Quiet == [Armed EXCEPT
  !.severity = [r \in Codes |->
     IF r \in {"suspicious-script", "signal-unavailable", "trust-score-below-threshold"}
     THEN None ELSE "allow"]]

MCEvidencePolicies == {DefaultPolicy, Armed, ScoreOnly, Quiet}

MCEvidenceDeps == {Of("leaf", "registry", TRUE, "npm")}

MCEvidence ==
  [published |-> {-1, 1}, scripts |-> {{"install"}}, suspicious |-> {{"install"}},
   squat |-> {TRUE}, accountAge |-> {1},
   advisories |-> {{[id |-> "a", severity |-> "low"], [id |-> "b", severity |-> "high"]}},
   metadata |-> {[licenses |-> {}, archived |-> TRUE]},
   scorecard |-> {3}]

MCSilentOrUnusual == {Silence, [Silence EXCEPT !.publisherChange = TRUE, !.deprecated = TRUE,
                                               !.surface = TRUE, !.distTag = "0",
                                               !.provenance = TRUE]}

-----------------------------------------------------------------------------
\* Policies that differ in a few controls of each kind, in both layers.
Layer(age, score, floor, licences) ==
  [minimumReleaseAge |-> age, minTrustScore |-> score, maxAdvisorySeverity |-> floor,
   licenseAllowlist |-> licences]

MCControlPolicies ==
  {[DefaultPolicy EXCEPT
      !.defaults = Layer(age, score, floor, licences) @@ @,
      !.direct.minimumReleaseAge = direct] :
     age \in {0, 2}, score \in {0, 70}, floor \in {"none", "low", "high"},
     licences \in {{}, {"MIT"}, {"MIT", "GPL"}}, direct \in {None, 3}}

MCControlDeps ==
  {Of("leaf", "registry", direct, "npm") : direct \in BOOLEAN} 
    \cup {Of("leaf", "exotic", FALSE, "pypi"), Of("leaf", "workspace", FALSE, "npm")}

MCControlOrigins ==
  {[Silence EXCEPT !.published = at, !.advisories = found,
                   !.metadata = [licenses |-> licences, archived |-> FALSE]] :
     at \in {None, -1}, licences \in {{}, {"MIT"}, {"GPL", "BSD"}},
     found \in {{}, {[id |-> "a", severity |-> "low"]},
                 {[id |-> "a", severity |-> "unknown"], [id |-> "b", severity |-> "high"]}}}

-----------------------------------------------------------------------------
\* Policies that differ in the allowlists and the severity map.
MCListPolicies ==
  {[DefaultPolicy EXCEPT
      !.denyScripts = deny, !.blockExoticSubdeps = exotic,
      !.scriptAllow = allow, !.nameSquatAllow = squats,
      !.severity = [s EXCEPT !["lifecycle-script-ignored"] = ignored]] :
     deny \in BOOLEAN, exotic \in BOOLEAN,
     allow \in {{}, {[family |-> "npm", name |-> "leaf"]}, {[family |-> None, name |-> "leaf"]}},
     squats \in {{}, {[family |-> "pypi", name |-> "leaf"]}},
     ignored \in {None, "allow", "block"},
     s \in {DefaultPolicy.severity,
            [DefaultPolicy.severity EXCEPT !["name-squat"] = "warn"],
            [DefaultPolicy.severity EXCEPT !["exotic-source"] = "allow"]}}

MCListDeps ==
  {Of(name, source, FALSE, family) : name \in {"leaf", "esbuild"},
                                     source \in {"registry", "exotic"}, family \in Families}

MCListOrigins ==
  {[Silence EXCEPT !.scripts = scripts, !.squat = squat] :
     scripts \in {{}, {"install"}}, squat \in BOOLEAN}

MCNothing == [f \in {} |-> {}]

-----------------------------------------------------------------------------
Project(policies, deps, origins, providers, values) ==
  [policies |-> policies, deps |-> deps, origins |-> origins,
   providers |-> providers, values |-> values]

\* Evidence comes in one signal at a time; the operator edits one control, list
\* or severity at a time.
MCProjects ==
  "evidence" :> Project(MCEvidencePolicies, MCEvidenceDeps, MCSilentOrUnusual, Providers, MCEvidence)
  @@ "controls" :> Project(MCControlPolicies, MCControlDeps, MCControlOrigins, {}, MCNothing)
  @@ "lists" :> Project(MCListPolicies, MCListDeps, MCListOrigins, {}, MCNothing)
=============================================================================
