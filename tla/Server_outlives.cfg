SPECIFICATION Spec
CONSTANTS
  Clients = {c1, c2}
  Wordy = {}
  Sizes <- MCSizes
  Lines = {1, 2}
  ReadCap = 2
  Backlog = 1
  MayAbort = {c1, c2}
  MayEnd = {c1}
  MaxSent = 2
  NULL = NULL
INVARIANT OutlivesClients
CHECK_DEADLOCK FALSE
