\* One source of two fails.
SPECIFICATION Spec
CONSTANTS
  npm = npm
  pypi = pypi
  npmreg = npmreg
  pypireg = pypireg
  osv = osv
  v1 = v1
  v2 = v2
  Names = {"p"}
  Anchor = npmreg
  Unstamped = "unstamped"
  Families = {npm}
  Sources = {npmreg, osv}
  Serves <- MCServesOne
  Requests = {"r1"}
  Tools = {v1}
  Binaries <- MCOneRelease
  SuccessTtl = 3
  FailureTtl = 1
  FetchTimeout = 0
  MaxClock = 3
  LegacyKeys = {}
  Outcomes = {"signals", "silent", "unavailable", "error"}
  Skews = {}
INVARIANTS NoOutagePinned
CHECK_DEADLOCK FALSE
