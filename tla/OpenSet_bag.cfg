SPECIFICATION Spec
CONSTANTS
  Keys <- AnyKeys
  Djb2 <- RealDjb2
  Sdbm <- RealSdbm
  MaxRequest = 22
  Sizes = {2, 5, 11, 23}
  NULL = NULL
  DELETED = DELETED
INVARIANTS TypeOK Reachable RehashMerges CountBound NeverNested
PROPERTY IsBag
