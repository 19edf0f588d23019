SPECIFICATION Spec
CONSTANTS
  NULL = NULL
  GARBAGE = GARBAGE
  word = word
  EMPTY = EMPTY
  Words <- MCWords
  StrLen <- MCStrLen
  IntMax = 1
  Keys = {k1, k2}
  Ops <- AllOps
  Data = {1, word}
  Numbers <- Numerals
  MaxArgs = 2
  MaxLen = 2
  MaxUsed = 3
  Shaky = {k2, word}
VIEW AllButReply
INVARIANTS TypeOK CountedContainers
PROPERTIES TypeStable BatchEffect
CHECK_DEADLOCK FALSE
