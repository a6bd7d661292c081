-------------------------- MODULE StreamManagement --------------------------
(***************************************************************************)
(* Stream management (XEP-0198) of gloox::Client: numbering and keeping    *)
(* what is sent, acknowledgements both ways, resumption after a loss.      *)
(*                                                                         *)
(* ClientStream models when a session is enabled, resumed or refused; here *)
(* the stanzas themselves travel, in order, on a connection that may be    *)
(* lost with what is under way.  The connection is authenticated, its      *)
(* server offers the feature and implements XEP-0198.                      *)
(*                                                                         *)
(* An operator named Slip... is the operator after it with one plausible   *)
(* mistake; it is not part of the model.                                   *)
(***************************************************************************)
EXTENDS Naturals, Sequences, FiniteSets, SequencesExt

CONSTANTS
  MaxStanzas,   \* bound: stanzas the client sends
  MaxDown,      \* bound: stanzas the server sends in a session
  MaxConnects,  \* bound: connections opened
  SendWhen,     \* phases in which the application sends: see Phase
  SecondSender, \* does another thread send, too?
  SendsTags,    \* does it send stanzas with send( Tag* )?
  OnConnectSends, \* does it send a stanza inside onConnect()?
  AcksAnyTime,  \* does it call ack- and reqStreamManagement() at any time?
  QuitWhen,     \* when it calls disconnect(): see AppDisconnects
  ServerCloses, \* may the server close the stream?
  ServerForgets \* may the server give up a session that lost its connection?

ASSUME ConstantsAssumption ==
  /\ {MaxStanzas, MaxDown, MaxConnects} \subseteq Nat
  /\ SendWhen \subseteq {"offline", "online", "enabling", "resuming"}
  /\ QuitWhen \subseteq {"acked", "unacked", "offline"}
  /\ {SecondSender, SendsTags, OnConnectSends, AcksAnyTime, ServerCloses,
      ServerForgets} \subseteq BOOLEAN

VARIABLES
  client,   \* the Client object and what it has written to the connection
  server,   \* the server's side of the session, and what it has written
  connects  \* connections opened

vars == <<client, server, connects>>

Managed == {"Enabled", "Resumed"}          \* smContext >= CtxSMEnabled
Live    == Managed \cup {"Resume"}         \* the client counts on a session

Init ==
  /\ client = [online |-> FALSE, wanted |-> TRUE, smContext |-> "Invalid",
               bound |-> FALSE, told |-> FALSE, \* onConnect() called
               smId |-> 0, smSent |-> 0, smHandled |-> 0,
               smQueue |-> <<>>,     \* from numbers to the stanzas kept
               up |-> <<>>,          \* written, and not read by the server
               made |-> 0,           \* stanzas made so far; they name them
               written |-> 0,        \* by the other thread, not yet kept
               accepted |-> <<>>,    \* sent since the session was enabled
               seen |-> <<>>,        \* the server's stanzas handled since
               losses |-> 0,         \* connections the session has lost
               ended |-> "never"]    \* how the last connection ended
  /\ server = [session |-> 0, resumable |-> FALSE, attached |-> FALSE,
               got |-> <<>>,         \* stanzas taken in this session
               out |-> 0,            \* stanzas sent in this session
               down |-> <<>>]        \* written, and not read by the client
  /\ connects = 0

-----------------------------------------------------------------------------
(* What the client's functions do to its record. *)

\* ClientBase::send(xml) writes nothing without a connection.
Write(c, elements) == IF c.online THEN [c EXCEPT !.up = @ \o elements] ELSE c

\* The first half of ClientBase::send( Tag, queue = true, del = false ).
WriteStanza(c) ==
  LET st == c.made + 1
      w  == Write([c EXCEPT !.made = st], << <<"stanza", st>> >>)
  IN IF c.smContext \in Managed THEN [w EXCEPT !.accepted = Append(@, st)] ELSE w

\* std::map::insert() keeps what is there already under the same number.
Inserted(q, n, st) ==
  [m \in DOMAIN q \cup {n} |-> IF m \in DOMAIN q THEN q[m] ELSE st]

SlipNumbersLate(c, st) ==
  IF c.smContext \in Managed
  THEN [c EXCEPT !.smSent = @ + 1, !.smQueue = Inserted(@, c.smSent, st)]
  ELSE c

\* The second half.
Keep(c, st) ==
  IF c.smContext \in Managed
  THEN [c EXCEPT !.smSent = @ + 1, !.smQueue = Inserted(@, c.smSent + 1, st)]
  ELSE c

SendStanza(c) == LET w == WriteStanza(c) IN Keep(w, w.made)

SlipAcksOneMore(q, h) == [n \in {n \in DOMAIN q : n > h + 1} |-> q[n]]

\* What checkQueue( h, _ ) leaves in the queue.
Unhandled(q, h) == [n \in {n \in DOMAIN q : n > h} |-> q[n]]

\* The numbers N as a walk through the map meets them, smallest first.
Walk(N) == [i \in 1..Cardinality(N) |->
              CHOOSE n \in N : Cardinality({m \in N : m <= n}) = i]

SlipResendsAll(c, h) ==
  LET numbers == Walk(DOMAIN c.smQueue)
  IN [Write(c, [i \in DOMAIN numbers |-> <<"stanza", c.smQueue[numbers[i]]>>])
        EXCEPT !.smQueue = Unhandled(@, h)]

SlipResendsNothing(c, h) == [c EXCEPT !.smQueue = Unhandled(@, h)]

\* checkQueue( h, true ): the rest is written again, in the map's order.
CheckAndResend(c, h) ==
  LET rest == Unhandled(c.smQueue, h)
      numbers == Walk(DOMAIN rest)
  IN Write([c EXCEPT !.smQueue = rest],
           [i \in DOMAIN numbers |-> <<"stanza", rest[numbers[i]]>>])

\* The application's part of onConnect().
OnConnect(c) ==
  LET t == [c EXCEPT !.told = TRUE]
  IN IF OnConnectSends THEN SendStanza(t) ELSE t

\* Client::connected() of a client that manages no roster: the initial
\* presence, unless the session was resumed.
Connected(c) ==
  OnConnect(IF c.smContext # "Resumed" THEN SendStanza(c) ELSE c)

\* The stanzas Connected() may send.
Greetings(presence) == presence + (IF OnConnectSends THEN 1 ELSE 0)

SlipResumesFromZero(c) ==
  IF c.wanted /\ c.smContext = "Invalid"
  THEN [Write(c, << <<"enable">> >>) EXCEPT
          !.smContext = "Enable", !.smHandled = 0]
  ELSE IF c.wanted /\ c.smContext = "Enabled"
  THEN [Write(c, << <<"resume", c.smId, 0>> >>) EXCEPT !.smContext = "Resume"]
  ELSE c

\* Client::sendStreamManagement().
SendStreamManagement(c) ==
  IF c.wanted /\ c.smContext = "Invalid"
  THEN [Write(c, << <<"enable">> >>) EXCEPT
          !.smContext = "Enable", !.smHandled = 0]
  ELSE IF c.wanted /\ c.smContext = "Enabled"
  THEN [Write(c, << <<"resume", c.smId, c.smHandled>> >>) EXCEPT
          !.smContext = "Resume"]
  ELSE c

\* What every end of a connection does; disconnect() also resets m_smSent.
Cleanup(c) == [c EXCEPT !.online = FALSE, !.bound = FALSE, !.told = FALSE]

HandleDisconnect(c) == [Cleanup(c) EXCEPT !.up = <<>>, !.ended = "lost",
                                               !.losses = @ + 1]

BaseDisconnect(c, end) ==
  IF ~c.online THEN c
  ELSE [Cleanup(Write(c, << <<"close">> >>)) EXCEPT !.smSent = 0, !.ended = end]

-----------------------------------------------------------------------------
(* The client reads. *)

\* The next element from the server, if it is of this kind.
Reads(kind) ==
  /\ client.online /\ server.down # <<>> /\ Head(server.down)[1] = kind
  /\ server' = [server EXCEPT !.down = Tail(@)]
  /\ UNCHANGED connects

Room(n) == client.made + n <= MaxStanzas

\* The <features/> branch of handleNormalNode() for an authenticated stream.
RecvFeatures ==
  /\ Reads("features")
  /\ client' = IF client.wanted /\ client.smContext \in Managed
               THEN SendStreamManagement(client)
               ELSE IF client.smContext \notin Managed
               THEN Write(client, << <<"bind">> >>)
               ELSE client

\* Client::processResourceBind().
RecvBound ==
  /\ Reads("bound")
  /\ Room(Greetings(1))
  /\ LET c == [client EXCEPT !.bound = TRUE]
     IN client' = IF c.wanted THEN SendStreamManagement(c) ELSE Connected(c)

RecvEnabled ==
  /\ Reads("enabled")
  /\ Room(Greetings(1))
  /\ client' = Connected([client EXCEPT !.smContext = "Enabled",
                                        !.smId = Head(server.down)[2],
                                        !.accepted = <<>>, !.seen = <<>>,
                                        !.losses = 0])

\* <resumed/>: connected() first, then the queue.
RecvResumed ==
  /\ Reads("resumed") /\ client.smContext = "Resume"
  /\ Room(Greetings(0))
  /\ client' = CheckAndResend(Connected([client EXCEPT !.smContext = "Resumed"]),
                              Head(server.down)[2])

RecvFailed ==
  /\ Reads("failed")
  /\ client' = [client EXCEPT !.smContext = "Failed"]

\* <a/>
RecvAck ==
  /\ Reads("a")
  /\ client' = IF client.smContext \in Managed
               THEN [client EXCEPT
                       !.smQueue = Unhandled(@, Head(server.down)[2])]
               ELSE client

\* Client::ackStreamManagement().
Ack(c) ==
  IF c.smContext \in Managed THEN Write(c, << <<"a", c.smHandled>> >>) ELSE c

\* Client::reqStreamManagement().
Req(c) == IF c.smContext \in Managed THEN Write(c, << <<"r">> >>) ELSE c

\* <r/>
RecvRequest ==
  /\ Reads("r")
  /\ client' = Ack(client)

SlipCountsAll(c, st) ==
  [c EXCEPT !.smHandled = @ + 1,
            !.seen = IF c.smContext \in Managed THEN Append(@, st) ELSE @]

\* handleTag() counts a stanza after its handlers have run.
Handled(c, st) ==
  IF c.smContext \in Managed
  THEN [c EXCEPT !.smHandled = @ + 1, !.seen = Append(@, st)]
  ELSE c

RecvStanza ==
  /\ Reads("stanza")
  /\ client' = Handled(client, Head(server.down)[2])

\* </stream:stream>
RecvClose ==
  /\ Reads("close")
  /\ client' = BaseDisconnect(client, "server")

-----------------------------------------------------------------------------
(* The application. *)

Phase == CASE ~client.online -> "offline"
           [] client.told -> "online"
           [] ~client.told /\ client.smContext = "Enable" -> "enabling"
           [] ~client.told /\ client.smContext = "Resume" -> "resuming"
           [] OTHER -> "negotiating"

\* Parser, TLS, SASL and the like work again; see ClientStream.  What the
\* server had not read of the previous connection is gone.
Connect ==
  /\ ~client.online /\ connects < MaxConnects
  /\ connects' = connects + 1
  /\ client' = [client EXCEPT !.online = TRUE, !.up = <<>>]
  /\ server' = [server EXCEPT !.attached = FALSE, !.down = << <<"features">> >>]

AppSends ==
  /\ Phase \in SendWhen /\ Room(1)
  /\ client' = SendStanza(client)
  /\ UNCHANGED <<server, connects>>

\* send( Tag* ) is send( tag, false, true ): it neither numbers nor keeps.
AppSendsTag ==
  /\ SendsTags /\ Phase = "online" /\ Room(1)
  /\ client' = LET st == client.made + 1
               IN Write([client EXCEPT !.made = st], << <<"stanza", st>> >>)
  /\ UNCHANGED <<server, connects>>

\* "put the bytestream into its own thread ... It is safe to do so without
\* additional synchronization" (bytestreamhandler.h:63-65): an in-band bytestream
\* sends through the same ClientBase, whose m_queueMutex covers the second half
\* of send() only.
ThreadWrites ==
  /\ SecondSender /\ Phase = "online" /\ client.written = 0 /\ Room(1)
  /\ client' = LET w == WriteStanza(client) IN [w EXCEPT !.written = w.made]
  /\ UNCHANGED <<server, connects>>

ThreadKeeps ==
  /\ client.written # 0
  /\ client' = [Keep(client, client.written) EXCEPT !.written = 0]
  /\ UNCHANGED <<server, connects>>

\* Only while nothing is under way, which bounds the requests.
AppAcks ==
  /\ AcksAnyTime \/ client.told
  /\ client.online /\ client.up = <<>> /\ server.down = <<>>
  /\ client' \in {Ack(client), Req(client)}
  /\ UNCHANGED <<server, connects>>

\* Client::disconnect(), in whatever connection the client has.
AppDisconnects ==
  /\ \/ "acked" \in QuitWhen /\ client.online /\ client.smQueue = <<>>
     \/ "unacked" \in QuitWhen /\ client.online
     \/ "offline" \in QuitWhen /\ ~client.online
  /\ client' = BaseDisconnect([client EXCEPT
                                 !.smContext = "Invalid", !.smHandled = 0,
                                 !.smId = 0, !.wanted = FALSE],
                              "user")
  /\ UNCHANGED <<server, connects>>

\* Client::setStreamManagement( true ) for the next connection.
SetStreamManagement ==
  /\ ~client.online /\ ~client.wanted
  /\ client' = [client EXCEPT !.wanted = TRUE]
  /\ UNCHANGED <<server, connects>>

-----------------------------------------------------------------------------
(* The connection and the server. *)

\* What was under way in either direction is gone with the connection.  Only a
\* connection that the bound allows another to follow is lost.
Lose ==
  /\ client.online /\ connects < MaxConnects
  /\ client' = HandleDisconnect(client)
  /\ server' = [server EXCEPT !.attached = FALSE, !.down = <<>>]
  /\ UNCHANGED connects

Took(kind) ==
  /\ client.up # <<>> /\ Head(client.up)[1] = kind
  /\ client' = [client EXCEPT !.up = Tail(@)]
  /\ UNCHANGED connects

Answer(elements) == [server EXCEPT !.down = @ \o elements]

ServerBinds ==
  /\ Took("bind")
  /\ server' = Answer(<< <<"bound">> >>)

\* The session has a name if it can be resumed.
ServerEnables ==
  /\ Took("enable")
  /\ \E resumable \in BOOLEAN :
       LET id == server.session + 1
       IN server' = [Answer(<< <<"enabled", IF resumable THEN id ELSE 0>> >>)
                       EXCEPT !.session = id, !.resumable = resumable,
                              !.attached = TRUE, !.got = <<>>, !.out = 0]

\* The stanzas the client has not handled are sent again.
ServerResumes ==
  /\ Took("resume")
  /\ LET id == Head(client.up)[2]
         h  == Head(client.up)[3]
     IN server' =
          IF server.resumable /\ id = server.session
          THEN [Answer(<< <<"resumed", Len(server.got)>> >>
                       \o [i \in 1..(server.out - h) |-> <<"stanza", h + i>>])
                  EXCEPT !.attached = TRUE]
          ELSE [Answer(<< <<"failed">> >>) EXCEPT !.resumable = FALSE]

ServerTakes ==
  /\ Took("stanza")
  /\ server' = IF server.attached
               THEN [server EXCEPT !.got = Append(@, Head(client.up)[2])]
               ELSE server

ServerAcks ==
  /\ Took("r")
  /\ server' = IF server.attached THEN Answer(<< <<"a", Len(server.got)>> >>)
               ELSE server

ServerHears ==
  /\ Took("a")
  /\ UNCHANGED server

ServerHearsClose ==
  /\ Took("close")
  /\ server' = [server EXCEPT !.resumable = FALSE, !.attached = FALSE]

ServerSends ==
  /\ server.attached /\ server.out < MaxDown /\ client.online
  /\ server' = [Answer(<< <<"stanza", server.out + 1>> >>) EXCEPT !.out = @ + 1]
  /\ UNCHANGED <<client, connects>>

\* To a bound client that has just asked for a session.
ServerSendsEarly ==
  /\ client.bound /\ ~server.attached /\ client.smContext = "Enable"
  /\ server.down = <<>>
  /\ server' = Answer(<< <<"stanza", 0>> >>)
  /\ UNCHANGED <<client, connects>>

ServerRequests ==
  /\ server.attached /\ client.online /\ server.down = <<>> /\ client.up = <<>>
  /\ server' = Answer(<< <<"r">> >>)
  /\ UNCHANGED <<client, connects>>

ServerEnds ==
  /\ ServerCloses /\ server.attached /\ client.online
  /\ server' = [Answer(<< <<"close">> >>) EXCEPT !.resumable = FALSE,
                                                 !.attached = FALSE]
  /\ UNCHANGED <<client, connects>>

ServerGivesUp ==
  /\ ServerForgets /\ server.resumable /\ ~server.attached
  /\ server' = [server EXCEPT !.resumable = FALSE]
  /\ UNCHANGED <<client, connects>>

-----------------------------------------------------------------------------
ClientReads ==
  \/ RecvFeatures \/ RecvBound \/ RecvEnabled \/ RecvResumed \/ RecvFailed
  \/ RecvAck \/ RecvRequest \/ RecvStanza \/ RecvClose

ServerReads ==
  \/ ServerBinds \/ ServerEnables \/ ServerResumes \/ ServerTakes
  \/ ServerAcks \/ ServerHears \/ ServerHearsClose

Next ==
  \/ ClientReads \/ ServerReads
  \/ Connect \/ AppSends \/ AppSendsTag \/ ThreadWrites \/ ThreadKeeps
  \/ AppAcks \/ AppDisconnects \/ SetStreamManagement
  \/ Lose \/ ServerSends \/ ServerSendsEarly \/ ServerRequests \/ ServerEnds
  \/ ServerGivesUp

Spec == Init /\ [][Next]_vars

\* Both sides read what they are sent and the application connects again.
Fairness == WF_vars(ClientReads) /\ WF_vars(ServerReads) /\ WF_vars(Connect)

FairSpec == Spec /\ Fairness

-----------------------------------------------------------------------------
(* Properties. *)

\* Types and bounds of both sides.
TypeOK ==
  /\ client.smContext \in {"Invalid", "Failed", "Enable", "Resume"} \cup Managed
  /\ client.smSent \in 0..MaxStanzas /\ client.smHandled \in 0..MaxDown
  /\ DOMAIN client.smQueue \subseteq 1..MaxStanzas
  /\ Len(client.accepted) <= MaxStanzas /\ Len(client.seen) <= MaxDown
  /\ client.smId \in 0..server.session

\* What the session's application sent is with the server or kept: "Stanzas in
\* the queue have been sent but not yet acknowledged" (client.h:113-114), and
\* every stanza that may have to be sent again is there.
NothingLost ==
  client.smContext \in Live =>
    \A i \in DOMAIN client.accepted :
      \/ \E j \in DOMAIN server.got : server.got[j] = client.accepted[i]
      \/ \E n \in DOMAIN client.smQueue :
           client.smQueue[n] = client.accepted[i]
      \/ client.written = client.accepted[i]

\* The number a stanza is kept under, which the server's h is compared with, is
\* its place among the stanzas of the session (clientbase.cpp:1048-1053).
QueueNumbered ==
  client.smContext \in Live /\ client.written = 0 =>
    /\ client.smSent = Len(client.accepted)
    /\ \A n \in DOMAIN client.smQueue :
         n \in DOMAIN client.accepted /\ client.smQueue[n] = client.accepted[n]

\* With two senders on a connection the places may be swapped, but the counter
\* is right, no number is given twice and nothing foreign is kept:
\* what m_queueMutex does protect (clientbase.cpp:1046-1054).  The client
\* may count on a session the server has ended: nothing is compared then.
SendersCounted ==
  client.smContext \in Live /\ (server.attached \/ server.resumable) =>
    /\ client.smSent + (IF client.written = 0 THEN 0 ELSE 1)
         = Len(client.accepted)
    /\ DOMAIN client.smQueue \subseteq 1..client.smSent
    /\ IsInjective(client.smQueue)
    /\ \A n \in DOMAIN client.smQueue :
         \E i \in DOMAIN client.accepted :
           client.accepted[i] = client.smQueue[n]

\* The application is handed the server's stanzas of a session each once and in
\* order, whatever was lost: the h of <resume/> is right.
DownstreamExact ==
  client.smContext \in Live => \A i \in DOMAIN client.seen : client.seen[i] = i

\* Upstream, the session is a reliable stream.
Stream == INSTANCE ReliableStream WITH
  Stanzas <- 1..MaxStanzas,
  accepted <- IF client.smContext \in Live THEN client.accepted ELSE <<>>,
  delivered <- IF client.smContext \in Live THEN server.got ELSE <<>>

ReliableDelivery == Stream!Spec

\* Acknowledgements and requests for them are written on a stream whose session
\* is enabled or resumed only: "This function is a no-op if called in situations
\* where sending an ack is not allowed by the protocol" (client.h:225-226).
AcksWhenAllowed ==
  [][AppAcks /\ client'.up # client.up => client.told]_vars

\* A resumption is tried "after an unexpected (i.e. neither user-triggered nor
\* server-triggered) disconnect" (client.h:109).
ResumesUnexpected ==
  [][RecvFeatures /\ client'.smContext = "Resume" => client.ended = "lost"]_vars

\* "gloox will try to resume the stream and re-send any non-acknowledged stanzas
\* automatically" (client.h:109-110): through one loss of the connection, what
\* was sent arrives, unless the session ends.
Delivered ==
  LET Ends == client.smContext \notin Live \/ client.losses > 1 \/ ~server.resumable
  IN \A n \in 1..MaxStanzas :
       (Len(client.accepted) >= n /\ ~Ends) ~> (Len(server.got) >= n \/ Ends)

\* The queue that a resumption sends again from: nothing is missing in it, and
\* each stanza is under the number the server's h counts.
QueueSound == TypeOK /\ NothingLost /\ QueueNumbered
=============================================================================
