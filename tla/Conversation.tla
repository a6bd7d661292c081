---------------------------- MODULE Conversation ----------------------------
(***************************************************************************)
(* The messages a ClientBase receives, the MessageSessions they belong to, *)
(* and the two filters of a session: MessageEventFilter (XEP-0022) and     *)
(* ChatStateFilter (XEP-0085).  A JID is its bare part and its resource.   *)
(***************************************************************************)
EXTENDS Naturals, FiniteSets, Sequences, SequencesExt

CONSTANTS
  Contacts,     \* bare JIDs
  Resources,    \* their resources
  MsgThreads,   \* thread ids of messages
  Kinds,        \* subtypes of messages: "chat", "normal"
  OpenedAs,     \* how the application opens one: its types, honor and track
  Asked,        \* the events a message asks for, or {"refused"}
  MaxSessions,  \* bound: sessions at a time
  MaxMessages   \* bound: messages received, and the ids they have

VARIABLES
  sessions,     \* m_messageSessions, oldest first
  received,     \* messages received so far
  given,        \* who had the last message: a session, 0: nobody yet
  sentEvents    \* the message events sent: <<event, id of the message>>

convVars == <<sessions, received, given, sentEvents>>

NoResource == "none"
NoMsgThread == "no thread"
Own == "own"  \* a thread id made by this side

\* XEP-0022 events; a message asks for some or answers with one.
OnceEvents == {"delivered", "displayed"}
Events == OnceEvents \cup {"composing"}

ConvInit ==
  /\ sessions = <<>>
  /\ received = 0
  /\ given = 0
  /\ sentEvents = <<>>

-----------------------------------------------------------------------------
(* Sessions. *)

\* auto: made for a message that came.  shown is the chat state the contact
\* knows, wanted the one the application means, state the filter's last one.
NewSession(bare, res, o, auto) ==
  [bare |-> bare, res |-> res, types |-> o.types, honor |-> o.honor,
   track |-> o.track, auto |-> auto,
   thread |-> NoMsgThread, had |-> FALSE,
   requested |-> {}, lastId |-> 0, lastSent |-> "cancel", off |-> FALSE,
   state |-> "gone", shown |-> "gone", wanted |-> "gone"]

Open(bare, res, o) ==
  /\ Len(sessions) < MaxSessions
  /\ sessions' = Append(sessions, NewSession(bare, res, o, FALSE))
  /\ UNCHANGED <<received, given, sentEvents>>

Dispose(i) ==
  /\ sessions' = RemoveAt(sessions, i)
  /\ UNCHANGED <<received, given, sentEvents>>

ResetResource(i) ==
  /\ sessions' = [sessions EXCEPT ![i].res = NoResource]
  /\ UNCHANGED <<received, given, sentEvents>>

\* decorate() says "active" without telling setChatState().
Decorated(s) == [s EXCEPT !.lastSent = IF s.off THEN @ ELSE "cancel",
                          !.shown = "active", !.wanted = "active"]

\* The first message makes the thread; every one asks for events.
SendMessage(i) ==
  /\ LET d == Decorated(sessions[i])
     IN sessions' = [sessions EXCEPT ![i] =
          [d EXCEPT !.thread = IF d.had THEN @ ELSE Own, !.had = TRUE]]
  /\ UNCHANGED <<received, given, sentEvents>>

-----------------------------------------------------------------------------
(* A message arrives: body (or an event alone), the events it asks for.   *)

Messages ==
  [bare : Contacts, res : Resources, kind : Kinds, body : BOOLEAN,
   thread : MsgThreads \cup {NoMsgThread}, events : Asked]

SlipExactThread(s, m) == s.thread = m.thread

\* honorThreadID() makes the thread not matter.
ThreadFits(s, m) == m.thread = NoMsgThread \/ s.thread = m.thread \/ s.honor

KindFits(s, m) == s.types = {} \/ m.kind \in s.types

Candidates(m, full) ==
  {i \in DOMAIN sessions :
     /\ sessions[i].bare = m.bare
     /\ full => sessions[i].res = m.res
     /\ ThreadFits(sessions[i], m)
     /\ KindFits(sessions[i], m)}

First(S) == CHOOSE i \in S : \A j \in S : i <= j

\* MessageEventFilter::filter(); "refused" stands for an error of type
\* feature-not-implemented.
Filtered(s, m, id) ==
  IF s.off THEN s
  ELSE IF m.events = {"refused"} THEN [s EXCEPT !.off = TRUE]
  ELSE IF m.events = {} THEN [s EXCEPT !.requested = {}, !.lastId = 0]
  ELSE IF m.body THEN [s EXCEPT !.requested = m.events, !.lastId = id]
  ELSE s

\* MessageSession::handleMessage().
Handled(s, m, id) ==
  LET r == IF s.track THEN [s EXCEPT !.res = m.res] ELSE s
      t == IF s.had THEN r
           ELSE [r EXCEPT !.had = TRUE,
                          !.thread = IF m.thread = NoMsgThread THEN Own ELSE m.thread]
  IN Filtered(t, m, id)

ForMessage(m) == [types |-> {m.kind}, honor |-> TRUE, track |-> TRUE]

\* A full match wins over a bare one; without a match a session is made and
\* the application's MessageSessionHandler given it.
ReceiveMessage(m) ==
  LET id == received + 1
      full == Candidates(m, TRUE)
      bare == Candidates(m, FALSE)
  IN /\ received < MaxMessages
     /\ received' = id
     /\ IF full \cup bare # {}
          THEN LET i == First(IF full # {} THEN full ELSE bare)
               IN /\ sessions' = [sessions EXCEPT ![i] = Handled(@, m, id)]
                  /\ given' = i
          ELSE /\ Len(sessions) < MaxSessions
               /\ sessions' = Append(sessions,
                    Handled(NewSession(m.bare, m.res, ForMessage(m), TRUE), m, id))
               /\ given' = Len(sessions')
     /\ UNCHANGED sentEvents

-----------------------------------------------------------------------------
(* MessageEventFilter::raiseMessageEvent(), ChatStateFilter::setChatState() *)

SlipKeepsRequest(s, e) == s.requested

LeftAfter(s, e) == IF e \in OnceEvents THEN s.requested \ {e} ELSE s.requested

Raise(i, e) ==
  LET s == sessions[i]
  IN /\ ~s.off
     /\ e \in s.requested \/ e = "cancel"
     /\ e = "composing" => s.lastSent # "composing"
     /\ sessions' = [sessions EXCEPT ![i].requested = LeftAfter(s, e),
                                     ![i].lastSent = e]
     /\ sentEvents' = IF e \in OnceEvents THEN Append(sentEvents, <<e, s.lastId>>)
                      ELSE sentEvents
     /\ UNCHANGED <<received, given>>

SetChatState(i, state) ==
  /\ sessions' = [sessions EXCEPT ![i].wanted = state, ![i].state = state,
                    ![i].shown = IF state = sessions[i].state THEN @ ELSE state]
  /\ UNCHANGED <<received, given, sentEvents>>

ConvNext ==
  \/ \E m \in Messages : ReceiveMessage(m)
  \/ \E b \in Contacts, r \in Resources \cup {NoResource}, o \in OpenedAs : Open(b, r, o)
  \/ \E i \in DOMAIN sessions :
       \/ Dispose(i)
       \/ ResetResource(i)
       \/ SendMessage(i)
       \/ \E e \in Events \cup {"cancel"} : Raise(i, e)
       \/ \E st \in {"active", "gone"} : SetChatState(i, st)

ConvSpec == ConvInit /\ [][ConvNext]_convVars

-----------------------------------------------------------------------------

(* A contact who writes from several resources, with or without threads,   *)
(* gets one session for each kind of message; a second one would split the  *)
(* conversation.                                                            *)
OneSession ==
  \A i, j \in DOMAIN sessions :
    /\ sessions[i].auto /\ sessions[j].auto /\ i # j
    => \/ sessions[i].bare # sessions[j].bare
       \/ sessions[i].types # sessions[j].types

(* "Delivered" and "displayed" are sent once for each message, and only for *)
(* one that asked: a later message resets what an earlier one asked for.    *)
EventsOnce ==
  /\ IsInjective(sentEvents)
  /\ \A i \in DOMAIN sentEvents : sentEvents[i][2] # 0

(* The contact knows the chat state the application set last.               *)
StateShown == \A i \in DOMAIN sessions : sessions[i].shown = sessions[i].wanted
=============================================================================
