\* Any mode; a manager of HTTP/1.0 or 1.1 that refuses or ends a session.
SPECIFICATION FairSpec
CONSTANTS
  Modes = {"pipelining", "persistent", "legacy"}
  Limits = {1, 2}
  Faults = {"refuse", "status", "terminate", "http10", "early"}
  Careful = TRUE
  MaxStanzas = 2
  MaxRestarts = 1
  MaxConns = 2
  RidCycle = 4
INVARIANTS
  RidsFollow
PROPERTIES
  KeepsTalking
  SentAtLast
CHECK_DEADLOCK FALSE
