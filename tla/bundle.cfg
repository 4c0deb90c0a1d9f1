\* Keys, statements and bundles of a project with a lockfile and one in a child directory.
SPECIFICATION Spec
CONSTANTS
  t1 = t1
  t2 = t2
  p1 = p1
  p2 = p2
  k1 = k1
  k2 = k2
  c1 = c1
  Children = {c1}
  Candidates <- MCCandidates
  Trees = {t1, t2}
  Policies = {p1, p2}
  Keys = {k1, k2}
  MaxLockfiles = 2
  Missing = missing
  Torn = torn
  Other = other
SYMMETRY MCSymmetry
INVARIANTS AcceptedIsSigned DriftIsReal
