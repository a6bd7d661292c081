\* A service is asked for its commands twice.
SPECIFICATION RequestsSpec
CONSTANTS
  Ops = {"getCommands"}
  Askers = {a1, a2}
  Remotes = {s1}
  Deletes = {}
  CancelsInside = FALSE
  Echoes = FALSE
  AsksAgain = TRUE
  Sessions = {}
  MaxRequests = 2
  MaxIncoming = 0
INVARIANT
  AskerTold
CHECK_DEADLOCK FALSE
