\* A run with --no-osv, then a run without the flag, on an npm package.
SPECIFICATION Spec
CONSTANTS
  npm = npm
  pypi = pypi
  npmreg = npmreg
  pypireg = pypireg
  osv = osv
  v1 = v1
  v2 = v2
  Names = {"p"}
  Anchor = npmreg
  Unstamped = "unstamped"
  Families = {npm}
  Sources = {npmreg, pypireg, osv}
  Serves <- MCServesNpm
  Requests = {"r1"}
  Tools = {v1}
  Binaries <- MCOneRelease
  SuccessTtl = 3
  FailureTtl = 1
  FetchTimeout = 0
  MaxClock = 1
  LegacyKeys = {}
  Outcomes = {"signals", "silent", "unavailable", "error"}
  Skews = {}
INVARIANTS FlagsLastOneRun
CHECK_DEADLOCK FALSE
