SPECIFICATION Spec
CONSTANTS
  Keys <- AnyKeys
  Djb2 <- RealDjb2
  Sdbm <- RealSdbm
  MaxRequest = 22
  Sizes = {2, 5, 11, 23}
  Handles = {h1, h2, h3, h4}
  Types = {"STR_T", "LIST_T"}
  NULL = NULL
  DELETED = DELETED
  FREE = FREE
SYMMETRY Symmetric
INVARIANTS TypeOK Findable CountBound Ownership Headroom NeverNested
PROPERTY IsLossyMap
