------------------------------- MODULE MucRoom -------------------------------
(***************************************************************************)
(* MUCRoom, InstantMUCRoom and UniqueMUCRoom: one user's room object       *)
(* against the room.  Presences carry joining, leaving, nicknames and      *)
(* roles, IQs the room's creation and configuration; what is on its way    *)
(* arrives in order.                                                       *)
(***************************************************************************)
EXTENDS Naturals, Sequences, SequencesExt, FiniteSets

CONSTANTS
  Nicks,        \* nicknames
  Taken,        \* those the room never gives: somebody else's
  Roles,        \* roles an occupant may have
  Operations,   \* MUCOperations of IQs the application sends in the room
  Unique,       \* is the object a UniqueMUCRoom?
  Patient,      \* does the application await the answer to each presence?
  Kicks,        \* may the room put the user out?
  Marks,        \* does the room mark a change of nickname as the user's own?
  MaxRoomCalls  \* bound: what the application and the room undertake

NoNick == "no nick"

ASSUME MucAssumption ==
  /\ Taken \subseteq Nicks /\ Taken # Nicks /\ NoNick \notin Nicks
  /\ {Unique, Patient, Kicks, Marks} \subseteq BOOLEAN
  /\ MaxRoomCalls \in Nat

VARIABLES
  muc,       \* the object: joined, nick, newNick, role, creating, flags, named
  room,      \* the room: the user's nick and role, its name's state, anonymity
  toRoom,    \* stanzas on their way to the room
  toUser,    \* ... and to the user
  concluded, \* operations whose result or form the application was given
  calls      \* calls so far

mucVars == <<muc, room, toRoom, toUser, concluded, calls>>

NoRole == "none"
Anonymity == {"non", "semi", "full"}

MucInit ==
  /\ muc = [joined |-> FALSE, nick |-> CHOOSE n \in Nicks : n \notin Taken,
            newNick |-> NoNick, role |-> NoRole, creating |-> FALSE, flags |-> {}]
  /\ room = [nick |-> NoNick, role |-> NoRole, state |-> "none", anonymity |-> "semi"]
  /\ toRoom = <<>>
  /\ toUser = <<>>
  /\ concluded = {}
  /\ calls = 0

Idle == toRoom = <<>> /\ toUser = <<>>

Call == calls < MaxRoomCalls /\ calls' = calls + 1

Asks(stanza) == toRoom' = Append(toRoom, stanza)

-----------------------------------------------------------------------------
(* What the application calls.  The presence handler is registered exactly *)
(* while m_joined is set.                                                  *)

Presence(nick, muced) == [kind |-> "presence", nick |-> nick, muc |-> muced]
Unavailable == [kind |-> "unavailable"]
Iq(op) == [kind |-> "iq", op |-> op]

\* MUCRoom::join() sets m_joined before the room has let the user in.
Joined(m) == [m EXCEPT !.joined = TRUE]

Join ==
  /\ ~muc.joined
  /\ Patient => Idle
  /\ Call
  /\ IF Unique
       THEN Asks(Iq("RequestUniqueName")) /\ UNCHANGED muc
       ELSE Asks(Presence(muc.nick, TRUE)) /\ muc' = Joined(muc)
  /\ UNCHANGED <<room, toUser, concluded>>

\* The session goes with m_joined; role and m_creationInProgress stay.
Leave ==
  /\ muc.joined
  /\ Call
  /\ Asks(Unavailable)
  /\ muc' = [muc EXCEPT !.joined = FALSE]
  /\ UNCHANGED <<room, toUser, concluded>>

SetNick(n) ==
  /\ n # muc.nick
  /\ Patient => Idle
  /\ Call
  /\ IF muc.joined
       THEN muc' = [muc EXCEPT !.newNick = n] /\ Asks(Presence(n, FALSE))
       ELSE muc' = [muc EXCEPT !.nick = n] /\ UNCHANGED toRoom
  /\ UNCHANGED <<room, toUser, concluded>>

\* setRole(), setAffiliation(), requestList(), storeList(), setRoomConfig();
\* destroy() is the one that does not need the room joined.
AskRoom(op) ==
  /\ muc.joined \/ op = "DestroyRoom"
  /\ op = "SendRoomConfig" => "RequestRoomConfig" \in concluded  \* it takes the form
  /\ Call
  /\ Asks(Iq(op))
  /\ UNCHANGED <<muc, room, toUser, concluded>>

\* requestRoomConfig() ends the chance of instantRoom().
RequestRoomConfig ==
  /\ muc.joined
  /\ Call
  /\ Asks(Iq("RequestRoomConfig"))
  /\ muc' = [muc EXCEPT !.creating = FALSE]
  /\ UNCHANGED <<room, toUser, concluded>>

Opened(m) == [m EXCEPT !.creating = FALSE]

\* acknowledgeInstantRoom() and cancelRoomCreation().
InstantRoom(op) ==
  /\ muc.creating /\ muc.joined
  /\ Call
  /\ Asks(Iq(op))
  /\ muc' = Opened(muc)
  /\ UNCHANGED <<room, toUser, concluded>>

-----------------------------------------------------------------------------
(* What the room sends.                                                    *)

Arrives(kind) == toUser # <<>> /\ Head(toUser).kind = kind /\ toUser' = Tail(toUser)

\* A refusal is of a new nickname if one is asked for, else of the join.
RefusedRoom(m) ==
  IF m.newNick = NoNick THEN [m EXCEPT !.joined = FALSE] ELSE [m EXCEPT !.newNick = NoNick]

HandleRefusal ==
  /\ Arrives("refusal")
  /\ muc' = IF muc.joined THEN RefusedRoom(muc) ELSE muc
  /\ UNCHANGED <<room, toRoom, concluded, calls>>

SetAnonymity(flags, a) == (flags \ Anonymity) \cup {a}

SlipOwnOnlyMarked(m, p) == FALSE

\* A change of nickname that is not marked as the user's own.
OwnChange(m, p) == m.nick = p.nick /\ p.newNick = m.newNick

Renamed(m, p) ==
  IF "NickChanged" \in p.flags /\ p.newNick # NoNick
       /\ ("Self" \in p.flags \/ OwnChange(m, p))
    THEN [m EXCEPT !.nick = p.newNick] ELSE m

Noted(m, p) ==
  LET anon == IF "NonAnonymous" \in p.flags THEN [m EXCEPT !.flags = SetAnonymity(@, "non")] ELSE m
      self == IF "Self" \in p.flags THEN [anon EXCEPT !.role = p.role] ELSE anon
      new == IF "NewRoom" \in p.flags THEN [self EXCEPT !.creating = TRUE] ELSE self
  IN new

Assigned(m, p) == IF "NickAssigned" \in p.flags THEN [m EXCEPT !.nick = p.nick] ELSE m

\* Inside, handleMUCRoomCreation() may accept the room at once.
HandleParticipant(accepts) ==
  /\ Arrives("participant")
  /\ LET p == Head(toUser)
         noted == Noted(muc, p)
         instant == accepts /\ "NewRoom" \in p.flags
     IN IF ~muc.joined THEN ~accepts /\ UNCHANGED <<muc, toRoom>>
        ELSE /\ muc' = Renamed(Assigned(IF instant THEN Opened(noted) ELSE noted, p), p)
             /\ toRoom' = IF instant THEN Append(toRoom, Iq("CreateInstantRoom")) ELSE toRoom
  /\ UNCHANGED <<room, concluded, calls>>

\* handleMessage(): a change of the room's anonymity, told to its session.
HandleRoomMessage ==
  /\ Arrives("message")
  /\ muc' = IF muc.joined THEN [muc EXCEPT !.flags = SetAnonymity(@, Head(toUser).status)] ELSE muc
  /\ UNCHANGED <<room, toRoom, concluded, calls>>

\* handleIqResult() knows these; a request's own result is given as a form or list.
ToldResults ==
  (Operations \cup {"CreateInstantRoom", "CancelRoomCreation", "RequestRoomConfig"})
    \ {"StoreOwnerList"}

\* UniqueMUCRoom::handleIqID() takes every answer for the room's name.
HandleRoomIq ==
  /\ Arrives("iq")
  /\ LET op == Head(toUser).op
     IN IF Unique
          THEN /\ IF muc.joined THEN UNCHANGED <<muc, toRoom>>
                  ELSE muc' = Joined(muc) /\ Asks(Presence(muc.nick, TRUE))
               /\ UNCHANGED concluded
          ELSE /\ concluded' = IF op \in ToldResults \/ ~Head(toUser).ok
                                 THEN concluded \cup {op} ELSE concluded
               /\ UNCHANGED <<muc, toRoom>>
  /\ UNCHANGED <<room, calls>>

-----------------------------------------------------------------------------
(* The room.                                                               *)

Takes(kind) == toRoom # <<>> /\ Head(toRoom).kind = kind /\ toRoom' = Tail(toRoom)

Participant(nick, new, role, flags) ==
  [kind |-> "participant", nick |-> nick, newNick |-> new, role |-> role, flags |-> flags]

Entered(nick, given, role) ==
  /\ room' = [room EXCEPT !.nick = given, !.role = role,
                          !.state = IF @ = "none" THEN "locked" ELSE @]
  /\ toUser' = Append(toUser, Participant(given, NoNick, role,
       {"Self"} \cup (IF room.state = "none" THEN {"NewRoom"} ELSE {})
                \cup (IF room.anonymity = "non" THEN {"NonAnonymous"} ELSE {})
                \cup (IF nick # given THEN {"NickAssigned"} ELSE {})))

Changed(nick) ==
  /\ room' = [room EXCEPT !.nick = nick]
  /\ toUser' = toUser \o
       <<Participant(room.nick, nick, room.role,
                     {"NickChanged"} \cup (IF Marks THEN {"Self"} ELSE {})),
         Participant(nick, NoNick, room.role, {"Self"})>>

RefusePresence == toUser' = Append(toUser, [kind |-> "refusal"]) /\ UNCHANGED room

\* A join may be refused, or given another nickname; a stranger that sends a
\* plain presence is refused.
RoomTakesPresence ==
  /\ Takes("presence")
  /\ LET p == Head(toRoom)
     IN IF room.nick = NoNick
          THEN \/ p.muc /\ \E n \in Nicks \ Taken, r \in Roles : Entered(p.nick, n, r)
               \/ RefusePresence
          ELSE \/ p.nick \notin Taken /\ p.nick # room.nick /\ Changed(p.nick)
               \/ p.nick # room.nick /\ RefusePresence
               \/ p.nick = room.nick /\ UNCHANGED <<room, toUser>>
  /\ UNCHANGED <<muc, concluded, calls>>

Out(flags) ==
  /\ room' = [room EXCEPT !.nick = NoNick, !.role = NoRole,
                          !.state = IF @ = "locked" THEN "none" ELSE @]
  /\ toUser' = Append(toUser, Participant(room.nick, NoNick, NoRole, flags))

RoomTakesUnavailable ==
  /\ Takes("unavailable")
  /\ IF room.nick = NoNick THEN UNCHANGED <<room, toUser>> ELSE Out({"Self"})
  /\ UNCHANGED <<muc, concluded, calls>>

RoomAnswers(op, ok) == toUser' = Append(toUser, [kind |-> "iq", op |-> op, ok |-> ok])

RoomTakesIq(ok) ==
  /\ Takes("iq")
  /\ LET op == Head(toRoom).op
     IN /\ op = "RequestUniqueName" \/ room.nick # NoNick \/ ~ok
        /\ RoomAnswers(op, ok)
        /\ room' = IF ok /\ op \in {"CreateInstantRoom", "SendRoomConfig"}
                     THEN [room EXCEPT !.state = "open"]
                   ELSE IF ok /\ op \in {"CancelRoomCreation", "DestroyRoom"}
                     THEN [room EXCEPT !.state = "none", !.nick = NoNick, !.role = NoRole]
                   ELSE room
  /\ UNCHANGED <<muc, concluded, calls>>

Kick ==
  /\ Kicks
  /\ room.nick # NoNick
  /\ Call
  /\ Out({"Self", "Kicked"})
  /\ UNCHANGED <<muc, toRoom, concluded>>

RoleChanges(r) ==
  /\ room.nick # NoNick /\ r # room.role
  /\ Call
  /\ room' = [room EXCEPT !.role = r]
  /\ toUser' = Append(toUser, Participant(room.nick, NoNick, r, {"Self"}))
  /\ UNCHANGED <<muc, toRoom, concluded>>

\* Somebody else enters with a taken nickname.
OthersEnter(n, r) ==
  /\ room.nick # NoNick
  /\ Call
  /\ toUser' = Append(toUser, Participant(n, NoNick, r, {}))
  /\ UNCHANGED <<muc, room, toRoom, concluded>>

AnonymityChanges(a) ==
  /\ room.nick # NoNick /\ a # room.anonymity
  /\ Call
  /\ room' = [room EXCEPT !.anonymity = a]
  /\ toUser' = Append(toUser, [kind |-> "message", status |-> a])
  /\ UNCHANGED <<muc, toRoom, concluded>>

MucNext ==
  \/ Join \/ Leave \/ RequestRoomConfig
  \/ \E n \in Nicks : SetNick(n)
  \/ \E op \in Operations : AskRoom(op)
  \/ \E op \in {"CreateInstantRoom", "CancelRoomCreation"} : InstantRoom(op)
  \/ HandleRefusal
  \/ \E accepts \in BOOLEAN : HandleParticipant(accepts)
  \/ HandleRoomMessage \/ HandleRoomIq
  \/ RoomTakesPresence \/ RoomTakesUnavailable
  \/ \E ok \in BOOLEAN : RoomTakesIq(ok)
  \/ Kick
  \/ \E r \in Roles : RoleChanges(r)
  \/ \E n \in Taken, r \in Roles : OthersEnter(n, r)
  \/ \E a \in Anonymity : AnonymityChanges(a)

MucSpec == MucInit /\ [][MucNext]_mucVars

-----------------------------------------------------------------------------

(* When nothing is on its way, a user who is in the room is joined, under   *)
(* the nickname and with the role the room knows, through refused, granted  *)
(* and assigned nicknames.                                                  *)
NickMirrors ==
  Idle /\ room.nick # NoNick
    => muc.joined /\ muc.nick = room.nick /\ muc.role = room.role

(* ... and a joined object is in the room.                                  *)
JoinedMirrors == Idle /\ muc.joined => room.nick # NoNick

(* A room the user has created stays locked only as long as instantRoom()   *)
(* can still open or cancel it.                                             *)
LockedCanOpen ==
  Idle /\ muc.joined /\ room.nick # NoNick /\ room.state = "locked" => muc.creating

(* The object never takes an open room for one being created: an            *)
(* application that asks opens or cancels nothing it did not create.        *)
CreatingIsLocked ==
  Idle /\ room.nick # NoNick /\ muc.creating => room.state = "locked"
=============================================================================
