SPECIFICATION Spec
CONSTANTS
  Keys <- CoveringKeys
  Djb2 <- RealDjb2
  Sdbm <- RealSdbm
  MaxRequest = 22
  Sizes = {2, 5, 11, 23}
  NULL = NULL
  DELETED = DELETED
INVARIANT EmptiedIsGone
