\* Evidence, time and edits, one change and one evaluation after another.
SPECIFICATION Spec
CONSTANTS
  None = None
  Providers = {"npm-registry", "osv", "catalogues"}
  Names = {"leaf", "esbuild"}
  Curated = {"esbuild"}
  Versions = {"0", "1"}
  Scripts = {"install"}
  Licenses = {"MIT", "GPL", "BSD"}
  Advisories = {"a", "b"}
  Fresh = 2
  Reported <- MCReported
  Projects <- MCProjects
  MaxNow = 1
INVARIANTS TypeOK
PROPERTIES AlarmNeverRelaxes WaitingNeverHurts OutageNeverGreen TighteningNeverRelaxes DirectSectionIsDirect IgnoringNeverHarsher
CHECK_DEADLOCK FALSE
