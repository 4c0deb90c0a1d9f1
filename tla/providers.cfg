\* A package that gets releases and requests that share profiles; then the requests
\* of the other providers, to services that answer, fail and come back.  Providers
\* that have answered are done.
SPECIFICATION MCSpec
CONSTANTS
  None = None
  Unknown = Unknown
  Packages = {"lib", "early", "timeless", "signed", "squat"}
  Parsed <- MCParsed
  Stripped <- MCStripped
  Sentinel = 999
  Hooks = {"postinstall"}
  Squats = {"squat"}
  Created <- MCCreated
  Concurrency = 2
  Worlds <- MCWorlds
  NotAsked = NotAsked
  NotIndexed = NotIndexed
  Never = Never
  Unstated = Unstated
  Catalogue <- MCCatalogue
  Scores <- MCScores
  WithoutGit <- MCWithoutGit
  ErrorPage <- MCErrorPage
  Cap = 4
  Jobs <- MCJobs
  AtOnce = 2
INVARIANTS FetchesBounded NeverFabricated NoSilentTakeover NoSilentSurface SilenceWasAnswered InstallCodeSeen
PROPERTIES LaterReleasesDontMatter NoiseNeverAlarms RollbackSeen
CHECK_DEADLOCK FALSE
