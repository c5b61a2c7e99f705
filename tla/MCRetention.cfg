SPECIFICATION Spec
CONSTANTS
  s1 = s1
  s2 = s2
  k1 = k1
  k2 = k2
  None = None
  Keep = 1
  RetainFor = 2
  PackageKeep = 2
  Tag = {1, 2, 3, 4}
  System = {"x86_64"}
  Snapshot = {s1, s2}
  Key = {k1, k2}
  Time = {1, 2, 3}
INVARIANTS PruneResumes EveryPackageSurvives NothingExtraKept
CHECK_DEADLOCK FALSE
