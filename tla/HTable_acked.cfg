SPECIFICATION Spec
CONSTANTS
  Keys <- AnyKeys
  Djb2 <- RealDjb2
  Sdbm <- RealSdbm
  MaxRequest = 22
  Sizes = {2, 5, 11, 23}
  Handles = {h1, h2, h3, h4, h5}
  Types = {"STR_T"}
  NULL = NULL
  DELETED = DELETED
  FREE = FREE
INVARIANT AckedSetReadable
