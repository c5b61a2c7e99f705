SPECIFICATION FairSpec
CONSTANTS
  p1 = p1
  h1 = h1
  h2 = h2
  d1 = d1
  d2 = d2
  d3 = d3
  s1 = s1
  s2 = s2
  k1 = k1
  None = None
  Keep = 1
  RetainFor = 1
  PackageKeep = 1
  Push <- ThreePushes
  Pruner = {p1}
  Hash <- MCHash
  Digest <- MCDigest
  SystemOf <- MCSystem
  SnapshotOf <- MCSnapshot
  KeyOf <- MCKey
  Entries <- MCEntries
  MaxFailures = 0
  Home <- MCHome
  MaxBreaks = 1
INVARIANTS TypeOK NoFalseMiss
PROPERTIES ServeLoadsTagByTag RefreshMovesForward NarFollowsNarinfo IndexCatchesUp
CHECK_DEADLOCK FALSE
