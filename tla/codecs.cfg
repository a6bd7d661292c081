\* What the bounds of MCCodecs name; blocks bounced and lost, empty blocks,
\* messages, either end closing; two threads that send on one connection.
SPECIFICATION CodecsSpec
CONSTANTS
  Sent <- SomeStanzas
  Samples <- SomeSamples
  Together = {1, 4, 7}
  MaxSeq = 2
  MaxBlocks = 2
  MaxBurst = 2
  EmptySends = TRUE
  Closers = {"initiator", "target"}
  ClosesEarly = TRUE
  Messages = TRUE
  Faults = {"bounce", "drop"}
  MaxStanzas = 5
  MaxDown = 1
  MaxConnects = 1
  SendWhen = {"online"}
  SecondSender = TRUE
  SendsTags = TRUE
  OnConnectSends = FALSE
  AcksAnyTime = FALSE
  QuitWhen = {}
  ServerCloses = TRUE
  ServerForgets = FALSE
INVARIANT TagsSound
INVARIANT PiecesJoin
INVARIANT ExtensionsKept
INVARIANT BlocksSound
INVARIANT SendersCounted
CHECK_DEADLOCK FALSE
