SPECIFICATION Spec
CONSTANTS
  Blanks = {"sp", "nl", "cr"}
  Quotes = {"dq", "sq"}
  Letters = {"x", "7"}
  Commands <- MCCommands
  NULL = NULL
  Garbage = Garbage
  IntMax = 10
  Ints <- MCInts
  BufSize = 10
  Leads = {0, 4}
  MaxChars = 5
INVARIANTS TypeOK TokensAreTheWords NoNullArgument OnlyLongTextsOverrun AnswerShown BuffersSuffice
PROPERTY Returns
CHECK_DEADLOCK FALSE
