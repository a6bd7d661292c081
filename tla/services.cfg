\* A roster through changes and one loss; a room that is entered, left, renamed
\* in and configured; messages of a contact with two resources; seven kinds of
\* requests, two askers each; a Jingle session whose first message may bounce; a
\* file offered by two hosts; handlers that come and go; a BOSH session that loses connections.
SPECIFICATION ServicesSpec
CONSTANTS
  Contacts = {c1}
  Me = me
  Resources = {r1, r2}
  Names = {n1, n2}
  AutoAnswer = TRUE
  MaxRosterChanges = 3
  MaxLosses = 1
  Nicks = {"n1", "n2", "n3"}
  Taken = {"n3"}
  Roles = {"visitor", "moderator"}
  Operations = {"SendRoomConfig", "DestroyRoom"}
  Unique = FALSE
  Patient = TRUE
  Kicks = TRUE
  Marks = FALSE
  MaxRoomCalls = 4
  Ops = {"getDiscoInfo", "getCommands", "execute", "fetchVCard", "search",
         "store", "createNode"}
  Askers = {a1, a2}
  Remotes = {s1, s2}
  Deletes = {"VCardManager", "Search"}
  CancelsInside = FALSE
  Echoes = FALSE
  AsksAgain = FALSE
  Sessions = {x}
  MaxRequests = 2
  MaxIncoming = 1
  Waits = TRUE
  Lists = TRUE
  Keeps = TRUE
  Bounced = {"session-initiate"}
  MaxActions = 5
  StreamHosts <- SelfThenProxy
  Methods = {"s5b", "ibb", "oob"}
  Fails = TRUE
  MaxDrops = 1
  Kinds = {"chat"}
  BoshModes = {"pipelining", "persistent", "legacy"}
  BoshFaults = {"refuse", "status", "terminate", "http10", "early", "close", "loss"}
INVARIANTS
  BooksMirror
  QuestionsAnswered
  HandlersAlive
  EndsMeet
  ConversationKept
  NothingStale
  EachSentOnce
  AnswersInOrder
  BoshEndTold
CHECK_DEADLOCK FALSE
