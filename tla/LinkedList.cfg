SPECIFICATION FairSpec
CONSTANTS
  Nodes = {n1, n2, n3, n4}
  Values = {"x", "y"}
  Counts <- MCCounts
  Indices <- MCIndices
  NULL = NULL
INVARIANTS TypeOK WellLinked NoLeak NoUseAfterFree
PROPERTIES IsSequence RemReturns
