\* The lockfile is edited while a command runs.
SPECIFICATION Spec
CONSTANTS
  Missing = missing
  Torn = torn
  Packages = {"app", "old", "new"}
  FirstParty = {"app"}
  Published <- MCPublished
  AdapterId = "npm"
  Trees <- MCTrees
  Rules <- MCRules
  Racing = TRUE
  CacheAge = 0
  MaxNow = 0
INVARIANTS FrozenDecidesThisProject
