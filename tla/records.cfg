\* Locking, verifying and frozen runs of a project that is edited between them;
\* runs that fit in their buffers and runs that do not append to one log.  When
\* every run has appended there is nothing left to do.
SPECIFICATION MCSpec
CONSTANTS
  Missing = missing
  Torn = torn
  Packages = {"app", "old", "new"}
  FirstParty = {"app"}
  Published <- MCPublished
  AdapterId = "npm"
  Trees <- MCTrees
  Rules <- MCRules
  Racing = FALSE
  CacheAge = 1
  MaxNow = 2
  Runs = {p, q, r}
  Sizes = {1, 2}
  Pieces = 3
  Capacity = 4
INVARIANTS FrozenDecidesThisProject EachRunInOrder SmallRunsWhole
PROPERTIES FrozenRelockKeepsDecisions CommandsAreAtomic
CHECK_DEADLOCK FALSE
