\* A session through losses, resumption and orderly quits, stanzas both ways;
\* bursts of blocks both ways, past several wraps, and the initiator closes.
SPECIFICATION TransfersSpec
CONSTANTS
  MaxStanzas = 4
  MaxDown = 2
  MaxConnects = 3
  SendWhen = {"offline", "online"}
  SecondSender = FALSE
  SendsTags = FALSE
  OnConnectSends = FALSE
  AcksAnyTime = FALSE
  QuitWhen = {"acked"}
  ServerCloses = FALSE
  ServerForgets = TRUE
  MaxSeq = 1
  MaxBlocks = 4
  MaxBurst = 2
  EmptySends = FALSE
  Closers = {"initiator"}
  ClosesEarly = FALSE
  Messages = FALSE
  Faults = {}
INVARIANTS
  QueueSound
  DownstreamExact
  AnsweredOnce
  EndsMatch
PROPERTIES
  ReliableDelivery
  Delivered
  WholeTransfer
CHECK_DEADLOCK FALSE
