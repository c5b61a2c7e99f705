SPECIFICATION FairStoreSpec
CONSTANTS
  p1 = p1
  p2 = p2
  h1 = h1
  h2 = h2
  d1 = d1
  d2 = d2
  s1 = s1
  s2 = s2
  k1 = k1
  k2 = k2
  None = None
  Keep = 1
  RetainFor = 1
  PackageKeep = 1
  Push <- ThreePushes
  Pruner <- TwoPruners
  Hash <- MCHash
  Digest <- MCDigest
  SystemOf <- MCSystem
  SnapshotOf <- MCSnapshot
  KeyOf <- MCKey
  Entries <- MCEntries
  MaxFailures = 1
INVARIANTS VisibleIsWhole NewestStays
PROPERTIES PruneCatchesUp
CHECK_DEADLOCK FALSE
