SPECIFICATION FairSpec
CONSTANTS
  t1 = t1
  t2 = t2
  t3 = t3
  Tag <- ThreeTags
  Wanted <- ThreeTags
  Malformed = {t3}
  Unsound = {t2}
  Limit = 2
  Attempts = 2
INVARIANTS TypeOK LoadIsComplete FailureHasACause
PROPERTIES LoadsTagByTag LoadEnds LoadsRecover
