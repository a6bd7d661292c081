------------------------------ MODULE Requests ------------------------------
(***************************************************************************)
(* The managers that send an IQ and pass its answer on: Disco, Adhoc,      *)
(* PubSub::Manager, VCardManager, Search, PrivateXML (with bookmarks,      *)
(* annotations and the roster's delimiter), PrivacyManager, Registration,  *)
(* LastActivity and FlexibleOffline.  ClientBase finds a manager by the    *)
(* id of the answer (see IqDispatch); the manager finds in its own map     *)
(* whom to tell.  Some go through Disco, whose map then names the manager. *)
(* The services that answer conform to their specifications.               *)
(***************************************************************************)
EXTENDS Naturals, Sequences, SequencesExt, FiniteSets, FiniteSetsExt, Functions

CONSTANTS
  Ops,           \* the operations the application uses
  Askers,        \* handlers it passes
  Remotes,       \* services it asks
  Deletes,       \* managers it may delete
  CancelsInside, \* does it cancel inside callbacks?
  Echoes,        \* do errors carry the request they answer?
  AsksAgain,     \* does it ask Adhoc the same again before it was told?
  Sessions,      \* sessions in which commands are executed here
  MaxRequests,   \* bound: requests sent
  MaxIncoming    \* bound: requests received

VARIABLES
  requests,  \* what was asked, in order of the ids
  waiting,   \* m_iqIDHandlers: ids whose manager is to be told
  track,     \* entries of the managers' maps: manager and id
  nodes,     \* PubSub's m_nopTrackMap
  alive,     \* managers not deleted
  told,      \* history: callbacks, with the answer and whose context it was
  answered,  \* history: ids whose answer has come
  cancelled, \* history: ids whose entry the application has cancelled
  dangling,  \* has something erased or deleted been used?
  sessions,  \* Adhoc's m_activeSessions: the id to answer
  incoming,  \* requests received
  replies    \* history: ids answered to

reqVars == <<requests, waiting, track, nodes, alive, told, answered, cancelled, dangling>>
srvVars == <<sessions, incoming, replies>>
requestVars == <<reqVars, srvVars>>

DiscoOps == {"getDiscoInfo", "getDiscoItems"}
AdhocOps == {"checkSupport", "getCommands", "execute"}
SubscriptionOps == {"subscribe", "unsubscribe", "getSubscriptions", "getAffiliations",
                    "getSubscriptionOptions", "setSubscriptionOptions"}
ItemOps == {"requestItems", "publishItem", "deleteItem"}
NodeOps == {"createNode", "deleteNode", "getDefaultNodeConfig", "getNodeConfig",
            "setNodeConfig"}
ListOps == {"getSubscribers", "setSubscribers", "getAffiliates", "setAffiliates",
            "purgeNode"}
PubSubOps == SubscriptionOps \cup ItemOps \cup NodeOps \cup ListOps
VCardOps == {"fetchVCard", "storeVCard"}
SearchOps == {"fetchSearchFields", "search"}
PrivateOps == {"requestXML", "storeXML"}
BookmarkOps == {"requestBookmarks", "storeBookmarks"}
AnnotationOps == {"requestAnnotations", "storeAnnotations"}
PrivacyOps == {"requestNames", "requestList", "setDefault", "unsetDefault",
               "setActive", "unsetActive", "store", "removeList"}
RegistrationOps == {"fetchRegistrationFields", "createAccount", "removeAccount",
                    "changePassword"}
OfflineOps == {"checkFlexible", "getMsgCount", "fetchHeaders", "messageOperation"}

OpsOf ==
  [Disco |-> DiscoOps, Adhoc |-> AdhocOps, PubSub |-> PubSubOps,
   VCardManager |-> VCardOps, Search |-> SearchOps, PrivateXML |-> PrivateOps,
   Bookmarks |-> BookmarkOps, Annotations |-> AnnotationOps,
   PrivacyManager |-> PrivacyOps, Registration |-> RegistrationOps,
   LastActivity |-> {"query"}, FlexibleOffline |-> OfflineOps]

Managers == DOMAIN OpsOf
ManagerOf(op) == CHOOSE m \in Managers : op \in OpsOf[m]

\* Questions a manager asks through Disco.
ThroughDisco == {"checkSupport", "getCommands", "checkFlexible", "getMsgCount", "fetchHeaders"}

\* Managers with a map of their own.
Tracking == {"Disco", "Adhoc", "PubSub", "VCardManager", "Search", "PrivateXML",
             "Bookmarks", "Annotations"}

\* PubSub keeps the node of these.
WithNode == {"subscribe", "createNode", "deleteNode", "purgeNode", "getNodeConfig",
             "setNodeConfig", "getSubscribers", "setSubscribers", "getAffiliates", "setAffiliates"}

\* Answers that have something to say carry it.
Informs ==
  DiscoOps \cup AdhocOps \cup SearchOps
    \cup {"fetchVCard", "requestXML", "requestBookmarks", "requestAnnotations", "requestNames", "requestList",
          "fetchRegistrationFields", "query", "checkFlexible", "getMsgCount", "fetchHeaders",
          "subscribe", "getSubscriptions", "getAffiliations", "requestItems", "publishItem",
          "getDefaultNodeConfig", "getNodeConfig", "getSubscribers", "getAffiliates",
          "getSubscriptionOptions"}

RequestsInit ==
  /\ requests = <<>>
  /\ waiting = {} /\ track = {} /\ nodes = {}
  /\ alive = Managers
  /\ told = <<>>
  /\ answered = {}
  /\ cancelled = {}
  /\ dangling = FALSE
  /\ sessions = <<>>
  /\ incoming = <<>>
  /\ replies = <<>>

-----------------------------------------------------------------------------

Entry(m, i) == [manager |-> m, id |-> i]

\* Which maps an operation is noted in: its manager's, and Disco's.
Entries(op, i) ==
  {Entry(ManagerOf(op), i) : m \in {ManagerOf(op)} \cap Tracking}
    \cup (IF op \in ThroughDisco THEN {Entry("Disco", i)} ELSE {})

\* The same was asked of the same service, and its asker is not told yet.
AskedAlready(op, remote) ==
  \E e \in track : /\ e.manager = "Adhoc" /\ op \in ThroughDisco
                   /\ requests[e.id].op = op /\ requests[e.id].remote = remote

\* Noted first, sent then.
Request(op, remote, asker) ==
  /\ Len(requests) < MaxRequests
  /\ ManagerOf(op) \in alive
  /\ AsksAgain \/ ~AskedAlready(op, remote)
  /\ LET i == Len(requests) + 1
     IN /\ requests' = Append(requests, [op |-> op, remote |-> remote, asker |-> asker])
        /\ waiting' = waiting \cup {i}
        /\ track' = track \cup Entries(op, i)
        /\ nodes' = IF op \in WithNode THEN nodes \cup {i} ELSE nodes
  /\ UNCHANGED <<alive, told, answered, cancelled, dangling>>
  /\ UNCHANGED srvVars

\* cancelVCardOperations(), removeDiscoHandler(), PubSub's removeID(): the
\* entries of one handler.
Cancellable == {"VCardManager", "Disco", "PubSub"}

EntriesOf(m, asker) ==
  {e \in track : e.manager = m /\ ManagerOf(requests[e.id].op) = m
                   /\ requests[e.id].asker = asker}

Cancel(m, asker) ==
  /\ m \in Cancellable \cap alive
  /\ EntriesOf(m, asker) # {}
  /\ \E gone \in IF m = "PubSub" THEN {{e} : e \in EntriesOf(m, asker)} ELSE {EntriesOf(m, asker)} :
       /\ track' = track \ gone
       /\ cancelled' = cancelled \cup {e.id : e \in gone}
  /\ UNCHANGED <<requests, waiting, nodes, alive, told, answered, dangling>>
  /\ UNCHANGED srvVars

\* The destructors take back what waits for them; PubSub::Manager has none,
\* and what Disco's map says of a manager stays.
SlipWaitsOn(m) == waiting

StillWaiting(m) ==
  IF m = "PubSub" THEN waiting
  ELSE {i \in waiting : ManagerOf(requests[i].op) # m \/ requests[i].op \in ThroughDisco}

DeleteManager(m) ==
  /\ m \in Deletes \cap alive
  /\ alive' = alive \ {m}
  /\ waiting' = StillWaiting(m)
  /\ track' = {e \in track : e.manager # m}
  /\ UNCHANGED <<requests, nodes, told, answered, cancelled, dangling>>
  /\ UNCHANGED srvVars

-----------------------------------------------------------------------------
(* An answer: ok or an error, with or without an element that says more.   *)

Answers(op) ==
  {[ok |-> TRUE, payload |-> op \in Informs]}
    \cup {[ok |-> FALSE, payload |-> e] : e \in IF Echoes THEN BOOLEAN ELSE {FALSE}}

\* handleIqID() of PubSub::Manager tells of these whatever the answer carries.
PubSubTells == {"unsubscribe", "publishItem", "createNode", "deleteNode", "purgeNode",
                "setNodeConfig", "setSubscribers", "setAffiliates"}

\* ... and of these only if it finds what it looks for: a subscription, the
\* subscribers in an element of the other namespace, and nothing at all.
PubSubFinds(op, a) ==
  CASE op \in PubSubTells -> TRUE
    [] op = "subscribe" -> a.ok
    [] op \in {"getSubscribers", "setSubscriptionOptions"} -> FALSE
    [] OTHER -> a.payload

\* Deactivating a privacy list is confirmed to nobody.
PrivacyTells(op, a) == op \in {"unsetDefault", "unsetActive"} => ~a.ok

\* Offline messages: an error of a question through Disco is swallowed.
OfflineTells(op, a) == op = "messageOperation" \/ a.ok

\* These pass on what was found and say nothing of results and errors.
BookmarksTell(op, a) == a.ok /\ op = "requestBookmarks"
AnnotationsTell(op, a) == a.ok /\ op = "requestAnnotations"

\* These tell of every answer.
DiscoTells == DiscoOps
AdhocTells == AdhocOps
VCardTells == VCardOps
SearchTells == SearchOps
PrivateTells == PrivateOps
RegistrationTells == RegistrationOps
LastActivityTells == {"query"}
ToldAlways == UNION {DiscoTells, AdhocTells, VCardTells, SearchTells, PrivateTells,
                     RegistrationTells, LastActivityTells}

\* Does the manager of op call its handler for this answer?
Tells(op, a) ==
  \/ op \in ToldAlways
  \/ op \in PubSubOps /\ PubSubFinds(op, a)
  \/ op \in PrivacyOps /\ PrivacyTells(op, a)
  \/ op \in OfflineOps /\ OfflineTells(op, a)
  \/ op \in BookmarkOps /\ BookmarksTell(op, a)
  \/ op \in AnnotationOps /\ AnnotationsTell(op, a)

Tell(i, for) == [answer |-> i, context |-> for]

\* Where Adhoc looks for whom a Disco answer is: by context and remote, but
\* for the check of support by either.
AdhocIds == {e.id : e \in {e \in track : e.manager = "Adhoc"}}

SlipAnyRemote(i) == {j \in AdhocIds : requests[j].op = requests[i].op}

SameQuestion(i) ==
  {j \in AdhocIds : requests[j].op = requests[i].op /\ requests[j].remote = requests[i].remote}

LooseMatch(i) ==
  {j \in AdhocIds : requests[j].op = "checkSupport" \/ requests[j].remote = requests[i].remote}

First(s) == IF s = {} THEN {} ELSE {Min(s)}

AdhocFinds(i, a) ==
  IF ~a.ok THEN SameQuestion(i)
  ELSE IF requests[i].op = "checkSupport" THEN First(LooseMatch(i))
  ELSE First(SameQuestion(i))

\* Whose contexts are told of the answer, and what is forgotten then.
Recipients(i, a) ==
  LET op == requests[i].op
      m == ManagerOf(op)
  IN IF m = "Adhoc" /\ op \in ThroughDisco THEN AdhocFinds(i, a)
     ELSE IF ~Tells(op, a) \/ (m \in Tracking /\ Entry(m, i) \notin track) THEN {}
     ELSE {i}

SlipForgetsOnSuccess(i, a) ==
  IF a.ok THEN {Entry(ManagerOf(requests[i].op), j) : j \in Recipients(i, a) \cup {i}} ELSE {}

Forgotten(i, a) ==
  LET op == requests[i].op
      m == ManagerOf(op)
  IN (IF m = "Adhoc" /\ op \in ThroughDisco
        THEN {Entry(m, j) : j \in Recipients(i, a)} ELSE {Entry(m, i)})
       \cup {Entry("Disco", i)}

\* Maps that are searched before the callback and erased from after it.
ErasedLate == {"VCardManager", "Disco", "Search", "PrivateXML", "Bookmarks",
               "Annotations", "Adhoc"}

\* The map a late erase() is done on after the callback.
OuterMap(op) == IF op \in ThroughDisco THEN "Disco" ELSE ManagerOf(op)

\* The answer to request i is handled; inside the callback the application
\* may cancel what its handler waits for.
HandleReply(i, a, cancels) ==
  /\ i \in waiting
  /\ waiting' = waiting \ {i}
  /\ answered' = answered \cup {i}
  /\ LET op == requests[i].op
         m == ManagerOf(op)
         map == OuterMap(op)
         found == map \in Tracking => Entry(map, i) \in track
         gone == IF cancels THEN EntriesOf(map, requests[i].asker) ELSE {}
     IN IF ~found
          THEN ~cancels /\ dangling' = (dangling \/ (map = m /\ m \notin alive))
               /\ UNCHANGED <<track, nodes, told, cancelled>>
          ELSE /\ cancels => CancelsInside /\ map \in Cancellable /\ Recipients(i, a) # {}
               /\ dangling' = (dangling \/ m \notin alive
                                 \/ (Entry(map, i) \in gone /\ map \in ErasedLate))
               /\ told' = told \o SetToSeq({Tell(i, j) : j \in Recipients(i, a)})
               /\ track' = (track \ gone) \ Forgotten(i, a)
               /\ cancelled' = cancelled \cup ({e.id : e \in gone} \ {i})
               /\ nodes' = IF op \in PubSubTells THEN nodes \ {i} ELSE nodes
  /\ UNCHANGED <<requests, alive>>
  /\ UNCHANGED srvVars

-----------------------------------------------------------------------------
(* Requests received: answered at once, but for commands, whose provider   *)
(* answers with respond().                                                 *)

\* Disco::handleIq(), PrivacyManager::handleIq(), LastActivity::handleIq();
\* what nobody takes is refused by ClientBase.
HandleQuery ==
  /\ Len(incoming) < MaxIncoming
  /\ incoming' = Append(incoming, "query")
  /\ replies' = Append(replies, Len(incoming) + 1)
  /\ UNCHANGED sessions
  /\ UNCHANGED reqVars

\* Adhoc::handleIq(): a command without a session opens one.
HandleCommand(s) ==
  /\ Len(incoming) < MaxIncoming
  /\ s \notin DOMAIN sessions   \* one at a time in a session
  /\ incoming' = Append(incoming, "command")
  /\ sessions' = [t \in DOMAIN sessions \cup {s} |->
                    IF t = s THEN Len(incoming) + 1 ELSE sessions[t]]
  /\ UNCHANGED replies
  /\ UNCHANGED reqVars

SlipSessionStays(s) == sessions

Answered(s) == Restrict(sessions, DOMAIN sessions \ {s})

\* Adhoc::respond().
Respond(s) ==
  /\ s \in DOMAIN sessions
  /\ Len(replies) <= MaxIncoming
  /\ replies' = Append(replies, sessions[s])
  /\ sessions' = Answered(s)
  /\ UNCHANGED incoming
  /\ UNCHANGED reqVars

RequestsNext ==
  \/ \E op \in Ops, r \in Remotes, a \in Askers : Request(op, r, a)
  \/ \E m \in Cancellable, a \in Askers : Cancel(m, a)
  \/ \E m \in Deletes : DeleteManager(m)
  \/ \E i \in waiting : \E a \in Answers(requests[i].op), c \in BOOLEAN : HandleReply(i, a, c)
  \/ HandleQuery
  \/ \E s \in Sessions : HandleCommand(s) \/ Respond(s)

RequestsSpec == RequestsInit /\ [][RequestsNext]_requestVars

-----------------------------------------------------------------------------

(* Whoever asks is told once, of the answer to this question and no other,  *)
(* whatever else is asked, cancelled or answered meanwhile: an error, "in   *)
(* case the respective request returned an error" (adhochandler.h:60).      *)
AskerTold ==
  /\ \A i, j \in DOMAIN told : told[i].context = told[j].context => i = j
  /\ \A i \in DOMAIN told : told[i].answer = told[i].context
  /\ waiting = {} =>
       \A i \in answered \ cancelled : ManagerOf(requests[i].op) \in alive =>
         \E t \in DOMAIN told : told[t].context = i

(* No manager is called after it was deleted, and no entry is erased that a *)
(* callback has already erased.                                             *)
NothingDangles == ~dangling

(* When every question is answered no map keeps one.                        *)
MapsEmpty == waiting = {} => \A e \in track : e.manager \notin alive

(* ... nor does PubSub keep a node.                                         *)
NodesForgotten == waiting = {} => nodes = {}

(* Every request received is answered at most once, and all but commands    *)
(* are answered.                                                            *)
AnsweredHere ==
  /\ \A i, j \in DOMAIN replies : replies[i] = replies[j] => i = j
  /\ \A i \in DOMAIN incoming :
       i \in Range(replies) \/ \E s \in DOMAIN sessions : sessions[s] = i
=============================================================================
