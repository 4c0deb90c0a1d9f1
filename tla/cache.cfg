\* Requests that overlap, releases installed over each other, entries of older ones.
SPECIFICATION Spec
CONSTANTS
  npm = npm
  pypi = pypi
  npmreg = npmreg
  pypireg = pypireg
  osv = osv
  v1 = v1
  v2 = v2
  r1 = r1
  r2 = r2
  Names = {"p"}
  Anchor = npmreg
  Unstamped = "unstamped"
  Families = {npm, pypi}
  Sources = {npmreg, osv}
  Serves <- MCServesBoth
  Requests = {r1, r2}
  Tools = {v1, v2}
  Binaries <- MCTwoReleases
  SuccessTtl = 2
  FailureTtl = 1
  FetchTimeout = 1
  MaxClock = 3
  LegacyKeys <- MCLegacy
  Outcomes = {"signals", "unavailable", "error"}
  Skews = {2}
SYMMETRY MCSymmetry
CONSTRAINT InScope
PROPERTY RemembersOnly
INVARIANTS OwnSignals BoundedStaleness OutageShortLived
