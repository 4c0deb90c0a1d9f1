\* A package npm installs for one workspace member only.
SPECIFICATION Spec
CONSTANTS
  None = None
  Absent = Absent
  Providers = {"npm-registry"}
  Names = {"a", "b", "c", "d"}
  Curated = {}
  Versions = {"1", "2"}
  Scripts = {"install"}
  Licenses = {}
  Advisories = {}
  Fresh = 1
  Alphabet <- MCAlphabet
  Canonical <- MCCanonical
  Scenarios <- MCScenarios
  Trees <- MCTrees
  Registry <- MCRegistry
  Bad <- MCBad
  Policies <- MCPolicies
  Limits = {None, 1}
  Targets <- MCTargets
  MaxRows = 1
  MaxNow = 1
  MaxEdits <- MCMaxEdits
INVARIANT NothingUnseen
