--------------------------- MODULE ConnectionBosh --------------------------
(***************************************************************************)
(* ConnectionBOSH: an XMPP stream carried by HTTP requests over a pool of  *)
(* ConnectionTCPClients, driven by the one thread that calls recv().       *)
(*                                                                         *)
(* A method that others call is an operator on the world, the record of    *)
(* all the state it may change; an action is a call from outside, or the   *)
(* part of recv() up to the next call of the client's handler.  A stanza   *)
(* is a number, a request id counts modulo RidCycle, and an answer comes   *)
(* in two pieces.  One session: connect() is called once.  An operator     *)
(* named Slip... is the operator after it with one plausible mistake.      *)
(***************************************************************************)
EXTENDS Naturals, Sequences, FiniteSets

CONSTANTS
  Modes,       \* setMode(): a subset of {"pipelining", "persistent", "legacy"}
  Limits,      \* the 'requests' a manager may grant
  Faults,      \* what goes wrong: see AllFaults
  Careful,     \* the client restarts the stream only as ClientBase does
  MaxStanzas,  \* bound: stanzas the client sends
  MaxRestarts, \* bound: times it restarts the stream
  MaxConns,    \* bound: transport connections
  RidCycle     \* bound: request ids count modulo this

\* A connect() fails; an answer has an HTTP error, ends the session, or is the
\* last on its connection; the manager speaks HTTP/1.0; a connection is lost
\* before the manager answers the first request, or at any time.
AllFaults == {"refuse", "status", "terminate", "close", "http10", "early", "loss"}

ASSUME ConstantsAssumption ==
  /\ Modes \subseteq {"pipelining", "persistent", "legacy"} /\ Modes # {}
  /\ Limits \subseteq Nat /\ Limits # {}
  /\ Faults \subseteq AllFaults
  /\ Careful \in BOOLEAN
  /\ {MaxStanzas, MaxRestarts} \subseteq Nat
  /\ MaxConns \in Nat \ {0} /\ RidCycle \in Nat \ 0..3

Conns == 1..MaxConns

VARIABLES
  bosh,    \* the members of ConnectionBOSH
  link,    \* the transport connections and what is under way on each
  buffer,  \* m_buffer: pieces of answers
  loop,    \* where recv() is, and the handler calls still to make
  client   \* what the client sent, what requests carried, what it was told

vars == <<bosh, link, buffer, loop, client>>

Down == [up |-> FALSE, eof |-> FALSE, requests |-> <<>>, pieces |-> <<>>]

World == [bosh |-> bosh, link |-> link, client |-> client]

\* The world becomes w.
Becomes(w) == bosh' = w.bosh /\ link' = w.link /\ client' = w.client

Init ==
  /\ \E mode \in Modes :
       bosh = [state |-> "disconnected", mode |-> mode, rid |-> 0,
               open |-> 0, limit |-> 2, restart |-> FALSE,
               sendBuffer |-> <<>>, active |-> <<>>, pool |-> <<1>>]
  /\ link = [c \in Conns |-> Down]
  /\ buffer = <<>>
  /\ loop = [at |-> "app", calls |-> 0, inHandler |-> FALSE, quit |-> TRUE]
  /\ client = [begun |-> FALSE, sent |-> 0, carried |-> <<>>, told |-> FALSE,
               asked |-> 0, restarted |-> 0]

-----------------------------------------------------------------------------
(* The end of the session: the client's handleDisconnect() closes what it   *)
(* was given, with ConnectionBOSH::cleanup().                               *)

Cleanup(w) ==
  [w EXCEPT !.bosh.state = "disconnected", !.link = [c \in Conns |-> Down]]

SlipSilent(w) == Cleanup(w)

Tell(w) == [Cleanup(w) EXCEPT !.client.told = TRUE]

\* ConnectionBOSH::handleDisconnect(): a transport connection was lost.
HandleDisconnect(w) ==
  IF w.bosh.state = "connecting" THEN Tell(w)
  ELSE [w EXCEPT !.bosh.mode = IF @ = "pipelining" THEN "legacy" ELSE @]

-----------------------------------------------------------------------------
(* sendRequest(), with getConnection() and activateConnection().            *)

SlipOneMore(b) == b.open > 0 /\ b.open > b.limit

Full(b) == b.open > 0 /\ b.open >= b.limit

Failed(w) == [w |-> w, sent |-> FALSE]

\* In legacy mode a request says "Connection: close".
Request(b, kind, rid, stanzas) ==
  [kind |-> kind, rid |-> rid, stanzas |-> stanzas, last |-> b.mode = "legacy"]

\* conn->send().  On a connection that the peer closed it may fail.
Transmit(w, c, request, lucky) ==
  LET to == w.link[c]
  IN IF to.up /\ (lucky \/ ~to.eof)
     THEN [sent |-> TRUE,
           w |-> [w EXCEPT
             !.bosh.open = @ + 1,
             !.client.carried = @ \o request.stanzas,
             !.client.restarted = IF request.kind = "restart" THEN @ + 1 ELSE @,
             !.link[c].requests = IF to.eof THEN @ ELSE Append(@, request)]]
     ELSE Failed(IF to.up THEN HandleDisconnect(w) ELSE w)

SlipCopies(w, c) == [w EXCEPT !.bosh.active = Append(@, c)]

SlipNewestFirst(w, c) ==
  [w EXCEPT !.bosh.pool = Tail(@), !.bosh.active = <<c>> \o @]

Activate(w, c) ==
  [w EXCEPT !.bosh.pool = Tail(@), !.bosh.active = Append(@, c)]

\* handleConnect() for connection c, the one at the front of the pool.
HandleConnect(w, c) ==
  LET new == [w EXCEPT !.bosh.rid = 0]
  IN IF w.bosh.state # "connecting" THEN w
     ELSE IF Full(new.bosh) THEN new
     ELSE Transmit(Activate(new, c), c,
                   Request(new.bosh, "session", 0, <<>>), TRUE).w

\* conn->connect(), with the handler it calls.
Open(w, c, lucky) ==
  IF lucky \/ "refuse" \notin Faults
  THEN HandleConnect([w EXCEPT !.link[c] = [Down EXCEPT !.up = TRUE]], c)
  ELSE HandleDisconnect(w)

\* newInstance(): every connection is active, and one is added to the pool.
OpenNew(w, lucky) ==
  LET c == Len(w.bosh.active) + 1
  IN IF c \notin Conns THEN w
     ELSE Open([w EXCEPT !.bosh.pool = <<c>>], c, lucky)

SendRequest(w, request, lucky) ==
  LET b == w.bosh
      front == b.pool[1]
  IN IF Full(b) THEN Failed(w)
     ELSE IF b.mode = "pipelining" /\ b.active # <<>>
     THEN Transmit(w, b.active[1], request, lucky)
     ELSE IF b.pool = <<>>
     THEN Failed(IF b.active = <<>> THEN w ELSE OpenNew(w, lucky))
     ELSE IF w.link[front].up
     THEN Transmit(Activate(w, front), front, request, lucky)
     ELSE Failed(Open([w EXCEPT !.bosh.pool = Append(Tail(@), front)],
                      front, lucky))

\* The request id is counted on when nothing was sent.
SlipKeepsRid(b, try) == try.w

SlipDropsRestart(b, try) ==
  [try.w EXCEPT !.bosh.rid = b.rid, !.bosh.restart = FALSE]

\* What is left when sendRequest() fails.
NotSent(b, try) == [try.w EXCEPT !.bosh.rid = b.rid]

NextRid(rid) == (rid + 1) % RidCycle

SlipKeepsBuffer(w) == [w EXCEPT !.bosh.restart = FALSE]

\* What was in the buffer is in the request.
Flushed(w) == [w EXCEPT !.bosh.sendBuffer = <<>>, !.bosh.restart = FALSE]

\* sendXML().  A restart is sent without the stanzas in the buffer.  An empty
\* request is not sent when the last one was too short a while ago.
SendXML(w, lucky) ==
  LET b == w.bosh
      rid == NextRid(b.rid)
      body == IF b.restart THEN Request(b, "restart", rid, <<>>)
              ELSE Request(b, "body", rid, b.sendBuffer)
      try == SendRequest([w EXCEPT !.bosh.rid = rid], body, lucky)
      waits == b.sendBuffer = <<>> /\ b.open > 0 /\ ~lucky
  IN IF b.state # "connected" \/ waits THEN w
     ELSE IF try.sent
     THEN Flushed(try.w)
     ELSE NotSent(b, try)

-----------------------------------------------------------------------------
(* What the client calls, between two calls of recv() or in a handler.      *)

CanCall == loop.at = "app" \/ loop.inHandler

Connect(lucky) ==
  /\ ~client.begun
  /\ LET w == [World EXCEPT !.bosh.state = "connecting", !.client.begun = TRUE]
     IN Becomes(Open(w, 1, lucky))
  /\ UNCHANGED <<buffer, loop>>

SendStanza(lucky) ==
  /\ CanCall /\ bosh.state # "disconnected" /\ client.sent < MaxStanzas
  /\ Careful => ~bosh.restart
  /\ LET w == [World EXCEPT !.client.sent = @ + 1,
                            !.bosh.sendBuffer = Append(@, client.sent + 1)]
     IN Becomes(SendXML(w, lucky))
  /\ UNCHANGED <<buffer, loop>>

\* ClientBase::header(): a careful client has nothing else under way.
Restart(lucky) ==
  /\ CanCall /\ bosh.state # "disconnected" /\ client.asked < MaxRestarts
  /\ Careful => bosh.state = "connected" /\ bosh.open = 0 /\ bosh.sendBuffer = <<>>
  /\ LET w == [World EXCEPT !.client.asked = @ + 1, !.bosh.restart = TRUE]
     IN Becomes(SendXML(w, lucky))
  /\ UNCHANGED <<buffer, loop>>

NoConnection(b) ==
  b.active = <<>> /\ (b.mode = "pipelining" \/ b.pool = <<>>)

\* ClientBase::disconnect() and ConnectionBOSH::disconnect().
Disconnect(lucky) ==
  /\ CanCall /\ bosh.state # "disconnected"
  /\ LET rid == NextRid(bosh.rid)
         request == Request(bosh, "end", rid, bosh.sendBuffer)
         w == [World EXCEPT !.bosh.rid = rid, !.bosh.sendBuffer = <<>>]
     IN Becomes(Tell(IF NoConnection(bosh) THEN World
                     ELSE SendRequest(w, request, lucky).w))
  /\ UNCHANGED <<buffer, loop>>

-----------------------------------------------------------------------------
(* handleReceivedData() and handleTag().                                    *)

Whole == Len(buffer) >= 2

\* Nothing is left to do with what was read.
Handled == loop.calls = 0 /\ (loop.quit \/ ~Whole)

SlipKeepsActive(w) ==
  LET c == w.bosh.active[1]
  IN IF w.bosh.mode = "legacy"
     THEN [w EXCEPT !.bosh.active = Tail(@), !.bosh.pool = Append(@, c),
                    !.link[c] = Down]
     ELSE w

\* putConnection(): the oldest active connection was answered.
PutConnection(w) ==
  LET b == w.bosh
      c == b.active[1]
      put == [w EXCEPT !.bosh.active = Tail(@), !.bosh.pool = Append(@, c)]
  IN CASE b.mode = "legacy" -> [put EXCEPT !.link[c] = Down]
       [] b.mode = "persistent" -> put
       [] OTHER -> w

\* disconnect() after an HTTP error, with m_state at StateDisconnected.
Broken(w) ==
  IF NoConnection(w.bosh) THEN [w EXCEPT !.bosh.state = "disconnected"]
  ELSE Tell(w)

HandleTag(w, a) ==
  LET go == [w EXCEPT !.bosh.restart = FALSE]
  IN CASE a.kind = "session" ->
            [go EXCEPT !.bosh.state = "connected",
                       !.bosh.limit = IF a.limit < @ THEN a.limit ELSE @]
       [] a.kind = "end" -> Tell(go)
       [] OTHER -> go

\* Stream headers it makes up for the client, then the stanzas.
HandlerCalls(b, a) ==
  a.stanzas + (IF b.restart THEN 1 ELSE 0) + (IF a.kind = "session" THEN 1 ELSE 0)

HandleAnswer ==
  /\ loop.at # "app" /\ loop.calls = 0 /\ ~loop.quit /\ Whole
  /\ LET a == buffer[1].answer
         w == IF a.ok THEN World ELSE Broken(World)
         last == [w EXCEPT !.bosh.mode = IF a.last THEN "legacy" ELSE @]
         put == [PutConnection(last) EXCEPT !.bosh.open = @ - 1]
     IN IF a.empty
        THEN /\ Becomes(w)
             /\ loop' = [loop EXCEPT !.inHandler = FALSE, !.quit = TRUE]
             /\ UNCHANGED buffer
        ELSE /\ Becomes(HandleTag(put, a))
             /\ loop' = [loop EXCEPT !.inHandler = FALSE,
                                     !.calls = HandlerCalls(put.bosh, a)]
             /\ buffer' = SubSeq(buffer, 3, Len(buffer))

\* Part of an answer, with the whole of its header: its status and whether it is
\* the last of its connection count at once.
HandleHeader ==
  /\ loop.at # "app" /\ loop.calls = 0 /\ ~loop.quit /\ Len(buffer) = 1
  /\ LET a == buffer[1].answer
         w == IF a.ok THEN World ELSE Broken(World)
     IN Becomes(IF a.empty THEN w
                ELSE [w EXCEPT !.bosh.mode = IF a.last THEN "legacy" ELSE @])
  /\ loop' = [loop EXCEPT !.inHandler = FALSE, !.quit = TRUE]
  /\ UNCHANGED buffer

\* The client's handleReceivedData().
Deliver ==
  /\ loop.calls > 0
  /\ loop' = [loop EXCEPT !.calls = @ - 1, !.inHandler = TRUE]
  /\ UNCHANGED <<bosh, link, buffer, client>>

-----------------------------------------------------------------------------
(* recv(): the first connection of the pool, then the first active one,     *)
(* then a request if none is open or there is something to send.            *)

\* ConnectionTCPClient::recv() on the first of the connections, if any.
Receive(conns, at) ==
  LET c == conns[1]
      n == IF conns = <<>> THEN 0 ELSE Len(link[c].pieces)
      lost == n = 0 /\ conns # <<>> /\ link[c].eof
  IN /\ loop' = [at |-> at, calls |-> 0, inHandler |-> FALSE, quit |-> n = 0]
     /\ IF n = 0
        THEN /\ Becomes(IF lost THEN HandleDisconnect(World) ELSE World)
             /\ UNCHANGED buffer
        ELSE /\ \E k \in 1..n :
                  /\ buffer' = buffer \o SubSeq(link[c].pieces, 1, k)
                  /\ link' = [link EXCEPT ![c].pieces = SubSeq(@, k + 1, n)]
             /\ UNCHANGED <<bosh, client>>

RecvPool ==
  /\ loop.at = "app" /\ bosh.state # "disconnected"
  /\ Receive(bosh.pool, "pool")

RecvActive ==
  /\ loop.at = "pool" /\ Handled
  /\ Receive(bosh.active, "active")

SlipOnlyData(b) == b.sendBuffer # <<>> /\ b.state = "connected"

ShouldSend(b) ==
  (b.open = 0 \/ b.sendBuffer # <<>>) /\ b.state = "connected"

Poll(lucky) ==
  /\ loop.at = "active" /\ Handled
  /\ Becomes(IF ShouldSend(bosh) THEN SendXML(World, lucky) ELSE World)
  /\ loop' = [loop EXCEPT !.at = "app", !.inHandler = FALSE]
  /\ UNCHANGED buffer

-----------------------------------------------------------------------------
(* The connection manager and the network.                                  *)

MaySee(fault) == IF fault \in Faults THEN BOOLEAN ELSE {FALSE}

Answers(request) ==
  [rid : {request.rid}, kind : {request.kind}, limit : Limits, stanzas : 0..1,
   ok : {TRUE}, empty : {FALSE},
   last : IF request.last THEN {TRUE}
          ELSE MaySee("close") \cup
               (IF request.kind = "session" THEN MaySee("http10") ELSE {})]

\* An error, which may have no body, or the end.
Refusals(request) ==
  {a \in [rid : {request.rid}, kind : {"body", "end"}, limit : {0}, stanzas : {0},
          ok : BOOLEAN, empty : BOOLEAN, last : {request.last}] :
     /\ IF a.ok THEN "terminate" \in Faults /\ a.kind = "end" /\ ~a.empty
        ELSE "status" \in Faults}

Pieces(c, a) == [half \in 1..2 |-> [on |-> c, half |-> half, answer |-> a]]

Answer(c) ==
  /\ link[c].requests # <<>>
  /\ LET request == link[c].requests[1]
     IN \E a \in Answers(request) \cup Refusals(request) :
          link' = [link EXCEPT
            ![c].pieces = @ \o Pieces(c, a), ![c].eof = a.last,
            ![c].requests = IF a.last THEN <<>> ELSE Tail(@)]
  /\ UNCHANGED <<bosh, buffer, loop, client>>

Lose(c) ==
  /\ \/ "loss" \in Faults
     \/ "early" \in Faults /\ bosh.state = "connecting" /\ link[c].requests # <<>>
  /\ link[c].up /\ ~link[c].eof
  /\ link' = [link EXCEPT ![c].eof = TRUE, ![c].requests = <<>>]
  /\ UNCHANGED <<bosh, buffer, loop, client>>

-----------------------------------------------------------------------------
Recv(lucky) == RecvPool \/ RecvActive \/ Poll(lucky) \/ HandleHeader
  \/ HandleAnswer \/ Deliver

Next ==
  \/ \E lucky \in BOOLEAN :
       Connect(lucky) \/ SendStanza(lucky) \/ Restart(lucky)
         \/ Disconnect(lucky) \/ Recv(lucky)
  \/ \E c \in Conns : Answer(c) \/ Lose(c)

Spec == Init /\ [][Next]_vars

\* The application calls recv() again and again, and the manager answers each
\* request in the end: it holds one for at most 'wait' seconds.  A connection
\* that recv() tries to open again and again opens at last.
Fairness ==
  /\ WF_vars(\E lucky \in BOOLEAN : Recv(lucky))
  /\ SF_vars(Poll(TRUE))
  /\ \A c \in Conns : WF_vars(Answer(c))

FairSpec == Spec /\ Fairness

-----------------------------------------------------------------------------
(* Properties. *)

TypeOK ==
  /\ bosh.state \in {"disconnected", "connecting", "connected"}
  /\ bosh.mode \in {"pipelining", "persistent", "legacy"}
  /\ bosh.rid \in 0..RidCycle - 1 /\ {bosh.open, bosh.limit} \subseteq Nat
  /\ bosh.restart \in BOOLEAN /\ bosh.sendBuffer \in Seq(1..MaxStanzas)
  /\ LET all == bosh.active \o bosh.pool
     IN /\ all \in Seq(Conns)
        /\ Cardinality({all[i] : i \in DOMAIN all}) = Len(all)
  /\ \A c \in Conns :
       /\ DOMAIN link[c] = DOMAIN Down
       /\ link[c] = Down \/ (link[c].up /\ link[c].eof \in BOOLEAN)
  /\ loop \in [at : {"app", "pool", "active"}, calls : 0..3,
               inHandler : BOOLEAN, quit : BOOLEAN]
  /\ client.carried \in Seq(1..MaxStanzas) /\ client.sent \in 0..MaxStanzas
  /\ {client.begun, client.told} \subseteq BOOLEAN

Live == bosh.state # "disconnected"

RidsIn(pieces) == {pieces[i].answer.rid : i \in DOMAIN pieces}

Asked(c) == {link[c].requests[i].rid : i \in DOMAIN link[c].requests}

\* The requests whose answer was not handled yet.
Outstanding ==
  RidsIn(buffer) \cup UNION {Asked(c) \cup RidsIn(link[c].pieces) : c \in Conns}

\* How many requests were sent after it.
Age(rid) == (bosh.rid + RidCycle - rid) % RidCycle

\* Request ids follow each other without a gap or a repetition, whatever
\* sendRequest() could not send: the requests under way are the last ones
\* (connectionbosh.cpp:240, 265).
RidsFollow ==
  Live => {Age(rid) : rid \in Outstanding} = 0..Cardinality(Outstanding) - 1

\* Every stanza given to send() is in one request, in order, or in m_sendBuffer
\* (connectionbosh.cpp:212, 254, 260).
StanzasOnce ==
  Live => client.carried \o bosh.sendBuffer = [i \in 1..client.sent |-> i]

\* No more requests are under way than the manager allows ('requests'), and
\* m_openRequests counts each (connectionbosh.cpp:300, 396, 553).
SlotsRespected ==
  LET n == Cardinality(Outstanding)
  IN Live => n <= bosh.open /\ (n <= bosh.limit \/ n = 1)

\* One buffer takes what all connections receive, and putConnection() retires
\* the first active one, whichever was read: what is in the buffer is answers of
\* that connection, the oldest request's first (connectionbosh.cpp:365, 623).
AnswersInOrder ==
  Live /\ buffer # <<>> =>
    /\ bosh.active # <<>>
    /\ \A i \in DOMAIN buffer :
         /\ buffer[i].on = bosh.active[1]
         /\ buffer[i].half = 2 => i > 1 /\ buffer[i - 1].answer = buffer[i].answer
    /\ \A rid \in Outstanding : Age(rid) <= Age(buffer[1].answer.rid)

\* A session that is over was announced to the client, which otherwise would
\* not know (connectionbosh.cpp:126-128, 159-161, 441-446, 540-541).
EndIsTold == client.begun /\ ~Live => client.told

\* The manager always has a request to answer, or it could not send anything
\* (connectionbosh.cpp:178-185).
AlwaysAsking ==
  bosh.state = "connected" ~> (Outstanding # {} \/ ~Live)

\* An answer that arrived is read: recv() polls no connection but the first of
\* each list (connectionbosh.cpp:171-174).
AnswersRead ==
  \A c \in Conns : link[c].pieces # <<>> ~> link[c].pieces = <<>>

Unsent == bosh.sendBuffer # <<>> \/ client.restarted < client.asked

\* Stanzas and a restart of the stream that had to wait reach the manager
\* (connectionbosh.cpp:178, 246, 263-269, 468).
SentAtLast == Unsent ~> (~Unsent \/ ~Live)

\* "Make sure that any data in the send buffer gets sent"
\* (connectionbosh.cpp:139): the end of a session loses no stanza of the client.
FlushedAtEnd ==
  [][(\E lucky \in BOOLEAN : Disconnect(lucky)) /\ bosh.state = "connected" =>
       Len(client'.carried) = client.sent]_vars

\* The exchange with the manager does not dry up: it has a request to answer
\* and its answers are read.
KeepsTalking == AlwaysAsking /\ AnswersRead
=============================================================================
