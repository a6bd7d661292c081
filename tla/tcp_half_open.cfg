\* A closer beside the reader.
SPECIFICATION Spec
CONSTANTS
  Reader = reader
  Writers = {}
  Closers = {c}
  HandlerCloses = FALSE
  MaxCalls = 1
  MaxAttempts = 1
  NoThread = nobody
INVARIANT
  CleanAtRest
CHECK_DEADLOCK FALSE
