SPECIFICATION FairSpec
CONSTANTS
  a = a
  r1 = r1
  r2 = r2
  Package = {a}
  PushExcluded <- None
  Last = 3
  Side <- AnotherBranch
  OutPath <- MCOutPath
  Run <- TwoRuns
  MaxFailures = 2
  MaxDispatches = 1
INVARIANTS QuietMeansCurrent
PROPERTIES NoGoingBackInOrder ArtifactsCatchUp
