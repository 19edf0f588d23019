SPECIFICATION FairSpec
CONSTANTS
  Clients = {c1, c2}
  Wordy = {c2}
  Sizes <- MCSizes
  Lines = {1, 2}
  ReadCap = 2
  Backlog = 1
  MayAbort = {c2}
  MayEnd = {c1}
  MaxSent = 3
  NULL = NULL
INVARIANTS TypeOK Lockstep InOrder NoStandoff
PROPERTY Served
CHECK_DEADLOCK FALSE
