----------------------------- MODULE MCServices -----------------------------
(* The services on top of a stream, for TLC: the roster, a room, message    *)
(* sessions, requests and answers, a Jingle session, a file transfer, and   *)
(* below them the lists of handlers and a BOSH session whose connections    *)
(* are lost.  A behaviour is one of them, chosen first, while the others    *)
(* rest.                                                                    *)
EXTENDS Roster, MucRoom, Requests, Jingle, FileTransfer

CONSTANTS
  Kinds,                  \* kinds of messages
  BoshModes, BoshFaults   \* the modes of BOSH, and the faults of its manager

VARIABLES part, talks, sent, given, received,
          listed, iteration, changes, givenTo, entitled, stale, bosh, link, buffer, loop, client

talkVars == <<talks, sent, given, received>>

listVars == <<listed, iteration, changes, givenTo, entitled, stale>>
boshVars == <<bosh, link, buffer, loop, client>>

Bosh == INSTANCE ConnectionBosh WITH
  Modes <- BoshModes, Limits <- {2}, Faults <- BoshFaults, Careful <- TRUE,
  MaxStanzas <- 2, MaxRestarts <- 1, MaxConns <- 2, RidCycle <- 4

ASSUME BoshAssumption ==
  /\ BoshModes \subseteq {"pipelining", "persistent", "legacy"} /\ BoshModes # {}
  /\ BoshFaults \subseteq Bosh!AllFaults

\* The application may open a session for any message; messages of the contact
\* ask to be told of what becomes of them.
Talk == INSTANCE Conversation WITH
  MsgThreads <- {"t"}, OpenedAs <- {[types |-> {}, honor |-> TRUE, track |-> TRUE]},
  MaxSessions <- 2, MaxMessages <- 2,
  Asked <- {{}, {"delivered", "composing"}, {"refused"}},
  sessions <- talks, sentEvents <- sent

\* The sender offers itself, then a proxy.
SelfThenProxy == <<"self", "proxy">>

Loops == INSTANCE HandlerLists WITH
  Handlers <- {"h1", "h2"}, Keys <- {"k1", "k2"}, Anything <- "any", Twice <- FALSE,
  SelfRemoval <- {"jid"}, OtherRemoval <- {"presence", "tag", "all"},
  MaxEntries <- 2, MaxChanges <- 4,
  loop <- iteration, dangling <- stale

RestRoster == UNCHANGED rosterVars
RestRoom == UNCHANGED mucVars
RestSessions == UNCHANGED talkVars
RestRequests == UNCHANGED requestVars
RestJingle == UNCHANGED jingleVars
RestTransfer == UNCHANGED ftVars
RestLists == UNCHANGED listVars
RestBosh == UNCHANGED boshVars
RestBooks == RestRoster /\ RestRoom /\ RestSessions
RestBelow == RestLists /\ RestBosh
RestOthers == RestRequests /\ RestJingle /\ RestTransfer /\ RestBelow

ServicesInit ==
  /\ part \in {"roster", "room", "sessions", "requests", "jingle", "transfer", "lists", "bosh"}
  /\ RosterInit /\ MucInit /\ Talk!ConvInit /\ RequestsInit /\ JingleInit /\ FtInit
  /\ Loops!ListInit /\ Bosh!Init
  /\ part # "roster" => \A c \in Contacts : server[c] = NoName
  /\ part # "bosh" => bosh.mode = "legacy"

ServicesNext ==
  /\ \/ part = "roster" /\ RosterNext /\ RestRoom /\ RestSessions /\ RestOthers
     \/ part = "room" /\ MucNext /\ RestRoster /\ RestSessions /\ RestOthers
     \/ part = "sessions" /\ Talk!ConvNext /\ RestRoster /\ RestRoom /\ RestOthers
     \/ /\ part = "requests" /\ RequestsNext
        /\ RestBooks /\ RestJingle /\ RestTransfer /\ RestBelow
     \/ /\ part = "jingle" /\ JingleNext
        /\ RestBooks /\ RestRequests /\ RestTransfer /\ RestBelow
     \/ /\ part = "transfer" /\ FtNext
        /\ RestBooks /\ RestRequests /\ RestJingle /\ RestBelow
     \/ /\ part = "lists" /\ Loops!ListNext
        /\ RestBooks /\ RestRequests /\ RestJingle /\ RestTransfer /\ RestBosh
     \/ /\ part = "bosh" /\ Bosh!Next
        /\ RestBooks /\ RestRequests /\ RestJingle /\ RestTransfer /\ RestLists
  /\ UNCHANGED part

ServicesSpec ==
  ServicesInit
  /\ [][ServicesNext]_<<part, rosterVars, mucVars, talkVars, requestVars, jingleVars,
                       ftVars, listVars, boshVars>>

\* When all that was sent has arrived the client's books show what the server
\* has: contacts and presences, and the user's own place in a room
\* (rostermanager.cpp:172-456; mucroom.cpp:648-977).
BooksMirror == RosterMirrors /\ PresenceMirrors /\ NickMirrors

\* A question is answered to its asker, by the party that was asked, and an
\* incoming one is answered (disco.cpp, adhoc.cpp, vcardmanager.cpp, ...).
QuestionsAnswered == AskerTold /\ AnsweredHere

\* No manager keeps or calls a handler that is gone, nor an entry nobody will
\* ask for again.
HandlersAlive == NothingDangles /\ MapsEmpty

\* The two ends of a Jingle session or of a file transfer come to agree: on the
\* state, on the stream both were told of, and in the order they were told.
EndsMeet == JingleTypeOK /\ FtTypeOK /\ SessionsAgree /\ StreamsMeet /\ ToldInTurn

\* A contact is talked to in one session, and what it asked to be told of a
\* message it is told once (clientbase.cpp:1701-1793; messageeventfilter.cpp).
ConversationKept == Talk!OneSession /\ Talk!EventsOnce

\* Each stanza given to a BOSH connection is in one request or kept, and no more
\* requests are open than the manager allows (connectionbosh.cpp:212, 254,
\* 260, 300, 396, 553).
EachSentOnce == Bosh!TypeOK /\ Bosh!StanzasOnce /\ Bosh!SlotsRespected

\* Answers are handled whole, the oldest request's first, from the connection
\* they came on (connectionbosh.cpp:365, 623).
AnswersInOrder == Bosh!AnswersInOrder

\* A BOSH session that is over was announced (connectionbosh.cpp:126-128,
\* 159-161, 441-446, 540-541).
BoshEndTold == Bosh!EndIsTold
\* Handlers come and go while they are called: no iterator of a list is used
\* after its entry was erased, and who was there all the time is called once
\* (clientbase.cpp:1559-1635, 1795-1803).
NothingStale == Loops!ListTypeOK /\ Loops!IteratorsHold /\ Loops!EachToldOnce
=============================================================================
