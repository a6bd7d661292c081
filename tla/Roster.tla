------------------------------- MODULE Roster -------------------------------
(***************************************************************************)
(* RosterManager: the local copy of the server's contact list, filled once *)
(* after each connection, changed by pushes and presence, and by the       *)
(* application, which may alter items locally and synchronize() them       *)
(* later.  Other resources of the user change the list on the server, too. *)
(* The connection may be lost with whatever is on its way.                 *)
(***************************************************************************)
EXTENDS Naturals, FiniteSets, Sequences, SequencesExt

CONSTANTS
  Contacts,      \* bare JIDs; Me is the user's own
  Me,
  Resources,     \* resources that contacts and the user log in with
  Names,         \* what an item is called
  AutoAnswer,    \* registerRosterListener()'s syncSubscribeReq
  MaxRosterChanges,  \* bound: changes made on either side
  MaxLosses      \* bound: connections lost

NoName == "no name"

ASSUME RosterAssumption ==
  /\ Me \notin Contacts /\ NoName \notin Names
  /\ IsFiniteSet(Contacts) /\ IsFiniteSet(Resources)
  /\ AutoAnswer \in BOOLEAN
  /\ {MaxRosterChanges, MaxLosses} \subseteq Nat

VARIABLES
  roster,    \* m_roster: the items by contact, or NoItem
  self,      \* the resources of m_self
  filled,    \* has the initial roster come on this connection?
  online,    \* is there a connection?
  up, down,  \* what is on its way to the server and to the client
  server,    \* the server's list: a name, or NoName
  present,   \* the resources online: contacts' and the user's other ones
  changed,   \* changes made so far
  losses     \* connections lost so far

rosterVars == <<roster, self, filled, online, up, down, server, present,
                changed, losses>>

NoItem == [name |-> NoName, changed |-> FALSE, res |-> {}]

RosterInit ==
  /\ roster = [c \in Contacts |-> NoItem]
  /\ self = {}
  /\ filled = FALSE
  /\ online = FALSE
  /\ up = <<>>
  /\ down = <<>>
  /\ server \in [Contacts -> Names \cup {NoName}]
  /\ present = [c \in Contacts \cup {Me} |-> {}]
  /\ changed = 0
  /\ losses = 0

Change == changed < MaxRosterChanges /\ changed' = changed + 1

-----------------------------------------------------------------------------
(* The connection, and what the application calls. *)

\* fill(): everything is deleted, and asked for.
Fill ==
  /\ ~online
  /\ online' = TRUE
  /\ filled' = FALSE
  /\ roster' = [c \in Contacts |-> NoItem]
  /\ up' = <<[kind |-> "get"]>>
  /\ UNCHANGED <<self, down, server, present, changed, losses>>

LoseRosterLink ==
  /\ online
  /\ losses < MaxLosses
  /\ losses' = losses + 1
  /\ online' = FALSE
  /\ up' = <<>>
  /\ down' = <<>>
  /\ UNCHANGED <<roster, self, filled, server, present, changed>>

Put(kind, c, n) == up' = Append(up, [kind |-> kind, jid |-> c, name |-> n])

\* add(), subscribe() and remove() only ask; the push changes the roster.
Add(c, n) ==
  /\ filled /\ online
  /\ Change
  /\ Put("set", c, n)
  /\ UNCHANGED <<roster, self, filled, online, down, server, present, losses>>

Remove1(c) ==
  /\ filled /\ online
  /\ Change
  /\ Put("remove", c, NoName)
  /\ UNCHANGED <<roster, self, filled, online, down, server, present, losses>>

\* RosterItem::setName(), setGroups(): seen here only until synchronize().
Rename(c, n) ==
  /\ roster[c] # NoItem
  /\ Change
  /\ roster' = [roster EXCEPT ![c].name = n, ![c].changed = TRUE]
  /\ UNCHANGED <<self, filled, online, up, down, server, present, losses>>

ChangedItems == {c \in Contacts : roster[c] # NoItem /\ roster[c].changed}

\* An item stays changed until the push for it comes.
Synchronize ==
  /\ filled /\ online
  /\ ChangedItems # {}
  /\ Change
  /\ LET s == SetToSeq(ChangedItems)
     IN up' = up \o [i \in DOMAIN s |->
                       [kind |-> "set", jid |-> s[i], name |-> roster[s[i]].name]]
  /\ UNCHANGED <<roster, self, filled, online, down, server, present, losses>>

-----------------------------------------------------------------------------
(* What arrives. *)

Arrived(kind) == down # <<>> /\ Head(down).kind = kind /\ down' = Tail(down)

Item(n) == [name |-> n, changed |-> FALSE, res |-> {}]

\* mergeRoster() inserts, it does not overwrite.
HandleRoster ==
  /\ Arrived("roster")
  /\ roster' = [c \in Contacts |->
                  IF roster[c] # NoItem \/ Head(down).items[c] = NoName
                    THEN roster[c] ELSE Item(Head(down).items[c])]
  /\ filled' = TRUE
  /\ UNCHANGED <<self, online, up, server, present, changed, losses>>

SlipKeepsRemoved(item) == item

Removed1(item) == NoItem

\* setData() replaces name and flag and leaves the resources alone.
SlipNewItem(item, n) == Item(n)

Updated(item, n) == [item EXCEPT !.name = n, !.changed = FALSE]

MergePush(p) ==
  roster' = [roster EXCEPT ![p.jid] =
    IF @ # NoItem
      THEN IF p.name = NoName THEN Removed1(@) ELSE Updated(@, p.name)
      ELSE IF p.name = NoName THEN @ ELSE Item(p.name)]

HandlePush ==
  /\ Arrived("push")
  /\ MergePush(Head(down))
  /\ UNCHANGED <<self, filled, online, up, server, present, changed, losses>>

\* The result of add(), remove() and synchronize() changes nothing.
HandleResult ==
  /\ Arrived("result")
  /\ UNCHANGED <<roster, self, filled, online, up, server, present, changed, losses>>

WithResource(res, p) == IF p.up THEN res \cup {p.res} ELSE res \ {p.res}

\* The roster is looked at first, then m_self; what is neither is passed on.
HandlePresence ==
  /\ Arrived("presence")
  /\ LET p == Head(down)
     IN /\ roster' = IF p.jid \in Contacts /\ roster[p.jid] # NoItem
                       THEN [roster EXCEPT ![p.jid].res = WithResource(@, p)]
                       ELSE roster
        /\ self' = IF p.jid = Me THEN WithResource(self, p) ELSE self
  /\ UNCHANGED <<filled, online, up, server, present, changed, losses>>

\* handleSubscription(): only unsubscribe is answered whatever is
\* registered; a request accepted to be removed is removed.
HandleSubscription(accepts) ==
  /\ Arrived("subscription")
  /\ LET p == Head(down)
         answer == IF AutoAnswer /\ accepts THEN <<[kind |-> "subscribed", jid |-> p.jid]>>
                   ELSE IF AutoAnswer THEN <<[kind |-> "unsubscribed", jid |-> p.jid]>>
                   ELSE <<>>
         gone == <<[kind |-> "unsubscribed", jid |-> p.jid]>> \o
                 IF AutoAnswer /\ accepts
                   THEN <<[kind |-> "remove", jid |-> p.jid, name |-> NoName]>>
                   ELSE <<>>
     IN up' = up \o IF p.wants THEN answer ELSE gone
  /\ UNCHANGED <<roster, self, filled, online, server, present, changed, losses>>

-----------------------------------------------------------------------------
(* The server: it pushes every change once the roster was asked for, and   *)
(* passes on the presence of contacts on the list.                         *)

Presences(c) ==
  LET s == SetToSeq(present[c])
  IN [i \in DOMAIN s |-> [kind |-> "presence", jid |-> c, res |-> s[i], up |-> TRUE]]

\* In whatever order the server lists them.
AllPresences ==
  LET s == SetToSeq({p \in (Contacts \cup {Me}) \X Resources :
                       p[2] \in present[p[1]] /\ (p[1] = Me \/ server[p[1]] # NoName)})
  IN [i \in DOMAIN s |-> [kind |-> "presence", jid |-> s[i][1], res |-> s[i][2], up |-> TRUE]]

Push(c, n) == [kind |-> "push", jid |-> c, name |-> n]

Interested == online /\ \A i \in DOMAIN up : up[i].kind # "get"

Stored(c, n, done) ==
  /\ server' = [server EXCEPT ![c] = n]
  /\ down' = down \o <<Push(c, n)>> \o done \o
             IF server[c] = NoName /\ n # NoName THEN Presences(c) ELSE <<>>

ServerTakes ==
  /\ up # <<>>
  /\ up' = Tail(up)
  /\ LET m == Head(up)
     IN IF m.kind = "get"
          THEN /\ down' = down \o <<[kind |-> "roster", items |-> server]>> \o AllPresences
               /\ UNCHANGED server
          ELSE IF m.kind \in {"set", "remove"} /\ (m.kind = "remove" => server[m.jid] # NoName)
          THEN Stored(m.jid, m.name, <<[kind |-> "result"]>>)
          ELSE UNCHANGED <<down, server>>
  /\ UNCHANGED <<roster, self, filled, online, present, changed, losses>>

\* Another resource of the user changes the list.
ChangedElsewhere(c, n) ==
  /\ Change
  /\ server[c] # n
  /\ IF Interested THEN Stored(c, n, <<>>)
     ELSE server' = [server EXCEPT ![c] = n] /\ UNCHANGED down
  /\ UNCHANGED <<roster, self, filled, online, up, present, losses>>

PresenceChanges(c, r) ==
  /\ Change
  /\ present' = [present EXCEPT ![c] = IF r \in @ THEN @ \ {r} ELSE @ \cup {r}]
  /\ down' = IF Interested /\ (c = Me \/ server[c] # NoName)
               THEN Append(down, [kind |-> "presence", jid |-> c, res |-> r,
                                  up |-> r \notin present[c]])
               ELSE down
  /\ UNCHANGED <<roster, self, filled, online, up, server, losses>>

SubscriptionRequest(c, wants) ==
  /\ Interested
  /\ Change
  /\ down' = Append(down, [kind |-> "subscription", jid |-> c, wants |-> wants])
  /\ UNCHANGED <<roster, self, filled, online, up, server, present, losses>>

RosterNext ==
  \/ Fill \/ LoseRosterLink \/ Synchronize
  \/ \E c \in Contacts, n \in Names : Add(c, n) \/ Rename(c, n)
  \/ \E c \in Contacts : Remove1(c)
  \/ HandleRoster \/ HandlePush \/ HandleResult \/ HandlePresence
  \/ \E accepts \in BOOLEAN : HandleSubscription(accepts)
  \/ ServerTakes
  \/ \E c \in Contacts, n \in Names \cup {NoName} : ChangedElsewhere(c, n)
  \/ \E c \in Contacts \cup {Me}, r \in Resources : PresenceChanges(c, r)
  \/ \E c \in Contacts, wants \in BOOLEAN : SubscriptionRequest(c, wants)

RosterSpec == RosterInit /\ [][RosterNext]_rosterVars

-----------------------------------------------------------------------------

AtRest == online /\ filled /\ up = <<>> /\ down = <<>>

(* When nothing is on its way, the roster has the server's items, with the  *)
(* server's names unless the application has changed one and not            *)
(* synchronized it.                                                         *)
RosterMirrors ==
  AtRest => \A c \in Contacts :
    /\ (roster[c] = NoItem) = (server[c] = NoName)
    /\ roster[c] # NoItem /\ ~roster[c].changed => roster[c].name = server[c]

(* ... and every item has the resources its contact is online with, even if *)
(* it was renamed, removed or added meanwhile.                              *)
PresenceMirrors ==
  AtRest => \A c \in Contacts : roster[c] # NoItem => roster[c].res = present[c]

(* The same of the user's own resources.                                    *)
SelfMirrors == AtRest => self = present[Me]

(* A name the application gave an item stays until the server has it.       *)
RenameKept ==
  [][\A c \in Contacts :
       roster[c] # NoItem /\ roster'[c] # NoItem /\ roster[c].changed
         => roster'[c].changed \/ roster'[c].name = roster[c].name]_rosterVars
=============================================================================
