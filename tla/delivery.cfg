\* One thread connects and reads, another sends and disconnects; a proxy or TLS
\* layer with answers in pieces; backends of TLS and compression;
\* the search for a server; the link-local services; a component's stream;
\* IQs asked and answered from two threads.
SPECIFICATION DeliverySpec
CONSTANTS
  Reader = reader
  Writers = {t}
  Closers = {t}
  HandlerCloses = TRUE
  MaxCalls = 1
  MaxAttempts = 2
  NoThread = nobody
  Wrappers = {"http", "socks5", "tls"}
  Cuts = {"http", "tls"}
  SendFails = FALSE
  Reuses = FALSE
  MaxDials = 2
  MaxPayload = 2
  Services = {s1, s2}
  BindFails = TRUE
  StopsInside = FALSE
  MaxRefs = 4
  MaxStreams = 4
  Ids = {1}
  Askers = {a1, a2}
  Servants = {s1, s2}
  NTypes = 1
  ForgetsInside = FALSE
  ForgetsBeside = FALSE
  MaxIncoming = 1
  Coders = {"gnutls", "openssl", "schannel", "zlib"}
  Refused <- Failing
  Early = {"openssl"}
  Quitting = {"schannel", "zlib"}
  Eager = {"openssl", "schannel", "zlib"}
  Reused = FALSE
  MaxSessions = 2
  MaxRecords = 5
  MaxItems = 2
  Lookups = {"addrinfo", "plain"}
  SrvAnswers <- ServerAnswers
  NameOrder <- ServerNames
  Domain = "a"
  MaxAddresses = 2
  MaxOpen = 2
INVARIANTS
  DescriptorsSound
  LayersSound
  LinkLocalSound
  HandlersCalled
PROPERTIES
  ThreadsConclude
  HandshakesEnd
  SecondThreadReturns
CHECK_DEADLOCK FALSE
