\* Four dependencies, limits 0 and 3: a workspace member, an unsupported package.
SPECIFICATION FairScan
CONSTANTS
  N = 4
  Limits = {0, 3}
  Workspace = {2}
  Supported = {1, 2, 3}
  Values = {v1}
  Failure = failure
  Nothing = nothing
  MaxFrames = 2
INVARIANTS BoundedConcurrency OwnSlot ProgressCounts CountNeverGoesBack AtMostOneLateFrame
PROPERTIES Collects Reports
CHECK_DEADLOCK FALSE
