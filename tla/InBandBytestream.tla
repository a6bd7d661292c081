-------------------------- MODULE InBandBytestream --------------------------
(***************************************************************************)
(* An in-band bytestream (XEP-0047) between two gloox clients: the         *)
(* InBandBytestream object of the initiator and the one of the target, and *)
(* the stanzas between them, which a server passes on in order.            *)
(*                                                                         *)
(* The content of a block is its number; the block size is left out: a     *)
(* call of send() makes a burst of blocks.  An operator named Slip... is   *)
(* the operator after it with one plausible mistake.                       *)
(***************************************************************************)
EXTENDS Integers, Sequences, SequencesExt

CONSTANTS
  MaxSeq,      \* the largest sequence number: 65535 in the code
  MaxBlocks,   \* bound: blocks an end sends
  MaxBurst,    \* bound: blocks in one call of send()
  EmptySends,  \* does the application call send() without data?
  Closers,     \* the ends whose applications call close()
  ClosesEarly, \* also before the stream is open?
  Messages,    \* does the target, not a gloox client then, send messages, too?
  Faults       \* what the way there may do: see Bounce and Drop

ASSUME IbbAssumption ==
  /\ {MaxSeq, MaxBlocks, MaxBurst} \subseteq Nat
  /\ {EmptySends, ClosesEarly, Messages} \subseteq BOOLEAN
  /\ Closers \subseteq {"initiator", "target"}
  /\ Faults \subseteq {"bounce", "drop"}

VARIABLES
  end,  \* the two InBandBytestream objects
  net   \* the stanzas on their way to each end, oldest first

ibbVars == <<end, net>>

Ends == {"initiator", "target"}

Peer(e) == IF e = "initiator" THEN "target" ELSE "initiator"

IbbInit ==
  /\ end = [e \in Ends |->
             [asked |-> FALSE,    \* connect() was called
              open |-> FALSE,     \* m_open
              sequence |-> -1,    \* m_sequence
              last |-> -1,        \* m_lastChunkReceived
              pending |-> {},     \* the requests whose ids are tracked
              made |-> 0,         \* blocks sent
              got |-> <<>>,       \* blocks handed to handleBytestreamData()
              acked |-> 0,        \* handleBytestreamDataAck() called
              told |-> <<>>]]     \* the other callbacks, and m_open in them
  /\ net = [e \in Ends |-> <<>>]

-----------------------------------------------------------------------------
(* The application's calls. *)

Tell(c, what) == [c EXCEPT !.told = Append(@, <<what, c.open>>)]

Request(e, kind) == [kind |-> kind, from |-> e, id |-> <<kind, end[e].made>>,
                     seq |-> 0, block |-> 0, empty |-> FALSE]

SlipNeverWraps(n) == n

\* m_sequence after block n: 65535 is followed by 0.
WrapSent(n) == IF n % (MaxSeq + 1) = MaxSeq THEN -1 ELSE n % (MaxSeq + 1)

SlipSameData(e, n, empty) ==
  [i \in 1..n |-> [kind |-> "data", from |-> e, id |-> <<"data", end[e].made + i>>,
                   seq |-> WrapSent(end[e].sequence + i - 1) + 1,
                   block |-> end[e].made + 1, empty |-> empty]]

\* The blocks of one send(), numbered on from m_sequence.
Blocks(e, n, empty) ==
  [i \in 1..n |-> [kind |-> "data", from |-> e, id |-> <<"data", end[e].made + i>>,
                   seq |-> WrapSent(end[e].sequence + i - 1) + 1,
                   block |-> end[e].made + i, empty |-> empty]]

\* connect(), on the initiator's object.
ConnectStream ==
  /\ ~end["initiator"].asked
  /\ LET r == Request("initiator", "open")
     IN /\ end' = [end EXCEPT !["initiator"].asked = TRUE,
                              !["initiator"].pending = {r.id}]
        /\ net' = [net EXCEPT !["target"] = Append(@, r)]

\* send(): without data, the loop still makes one block.
Send(e) ==
  /\ end[e].open
  /\ \E n \in 0..MaxBurst :
       /\ EmptySends \/ n > 0
       /\ LET b == Blocks(e, IF n = 0 THEN 1 ELSE n, n = 0)
          IN /\ end[e].made + Len(b) <= MaxBlocks
             /\ end' = [end EXCEPT
                          ![e].made = @ + Len(b),
                          ![e].sequence = WrapSent(@ + Len(b)),
                          ![e].pending = @ \cup {b[i].id : i \in DOMAIN b}]
             /\ net' = [net EXCEPT ![Peer(e)] = @ \o b]

\* A target of another kind sends a block in a message.
SendMessage ==
  /\ Messages /\ end["target"].open /\ end["target"].made < MaxBlocks
  /\ LET b == [Blocks("target", 1, FALSE)[1] EXCEPT !.kind = "message"]
     IN net' = [net EXCEPT !["initiator"] = Append(@, b)]
  /\ end' = [end EXCEPT !["target"].made = @ + 1,
                        !["target"].sequence = WrapSent(@ + 1)]

\* close() sends its request to m_target, whoever calls.
Close(e) ==
  /\ e \in Closers
  /\ end[e].open \/ (ClosesEarly /\ end[e].asked /\ end[e].told = <<>>)
  /\ LET r == Request(e, "close")
         c == end[e]
     IN /\ end' = [end EXCEPT
                     ![e] = Tell([c EXCEPT !.open = FALSE,
                                           !.pending = @ \cup {r.id}], "close")]
        /\ net' = [net EXCEPT !["target"] = Append(@, r)]

-----------------------------------------------------------------------------
(* What arrives: handleIq(), and the error that notifyIqHandlers() sends     *)
(* when it returns false.                                                    *)

Arrives(e, kind) == net[e] # <<>> /\ Head(net[e]).kind = kind

\* The stanza is taken, and these answers go to where it came from.
AnswerWith(e, kinds) ==
  LET m == Head(net[e])
      answers == [i \in DOMAIN kinds |->
                    [kind |-> kinds[i], from |-> e, id |-> m.id,
                     seq |-> 0, block |-> 0, empty |-> FALSE]]
      taken == [net EXCEPT ![e] = Tail(@)]
  IN net' = [taken EXCEPT ![m.from] = @ \o answers]

SlipStaysOpen(c) == IF c.open THEN Tell(c, "close") ELSE c

SlipForgetsToTell(c) == [c EXCEPT !.open = FALSE]

\* closed()
Closed(c) == IF c.open THEN Tell([c EXCEPT !.open = FALSE], "close") ELSE c

SlipWrapsEarly(n) == IF n = MaxSeq - 1 THEN -1 ELSE n

\* m_lastChunkReceived after the number it expected.
WrapReceived(n) == IF n = MaxSeq THEN -1 ELSE n

RecvOpen(e) ==
  /\ Arrives(e, "open") /\ ~end[e].open
  /\ AnswerWith(e, <<"result">>)
  /\ end' = [end EXCEPT ![e] = Tell([@ EXCEPT !.open = TRUE], "open")]

\* Nothing but a request to open is taken by a stream that is not open.
RecvUnopened(e) ==
  /\ Arrives(e, "data") \/ Arrives(e, "close")
  /\ ~end[e].open
  /\ AnswerWith(e, <<"error">>)
  /\ UNCHANGED end

RecvCloseRequest(e) ==
  /\ Arrives(e, "close") /\ end[e].open
  /\ AnswerWith(e, <<"result">>)
  /\ end' = [end EXCEPT ![e] = Closed(@)]

SlipUnnumbered(e) == FALSE

\* Not the number that is expected.
OutOfSequence(e) == end[e].last + 1 # Head(net[e]).seq

\* returnError() and then "return false": two errors go back, and the handler
\* is not told.
RecvOutOfSequence(e) ==
  /\ Arrives(e, "data") /\ end[e].open /\ OutOfSequence(e)
  /\ AnswerWith(e, <<"error", "error">>)
  /\ end' = [end EXCEPT ![e].open = FALSE, ![e].last = @ + 1]

RecvEmpty(e) ==
  /\ Arrives(e, "data") /\ end[e].open /\ ~OutOfSequence(e)
  /\ Head(net[e]).empty
  /\ AnswerWith(e, <<"error", "error">>)
  /\ end' = [end EXCEPT ![e].open = FALSE, ![e].last = WrapReceived(@ + 1)]

SlipAnswersTwice == <<"result", "error">>

\* returnResult(), then "return true".
Accepted == <<"result">>

RecvData(e) ==
  /\ Arrives(e, "data") /\ end[e].open /\ ~OutOfSequence(e)
  /\ ~Head(net[e]).empty
  /\ AnswerWith(e, Accepted)
  /\ end' = [end EXCEPT ![e].last = WrapReceived(@ + 1),
                        ![e].got = Append(@, Head(net[e]).block)]

\* handleMessage(): only the initiator's object compares equal to the sender;
\* the number is compared with the block before.
RecvMessage ==
  /\ Arrives("initiator", "message")
  /\ LET m == Head(net["initiator"])
         c == end["initiator"]
     IN end' = [end EXCEPT !["initiator"] =
                  IF ~c.open THEN c
                  ELSE IF c.last # m.seq THEN [c EXCEPT !.open = FALSE]
                  ELSE [c EXCEPT !.last = @ + 1, !.got = Append(@, m.block)]]
  /\ AnswerWith("initiator", <<>>)

-----------------------------------------------------------------------------
(* Answers: handleIqID().  An id that is not tracked is ignored. *)

\* The handler is told before m_open is set.
Opened(c) == [Tell(c, "open") EXCEPT !.open = TRUE]

SlipAcksErrors(c, kind, id) ==
  IF id[1] = "data" THEN [c EXCEPT !.acked = @ + 1]
  ELSE IF kind = "error" THEN Closed(c)
  ELSE IF id[1] = "open" THEN Opened(c)
  ELSE c

Answered(c, kind, id) ==
  IF kind = "error" THEN Closed(c)
  ELSE IF id[1] = "open" THEN Opened(c)
  ELSE IF id[1] = "data" THEN [c EXCEPT !.acked = @ + 1]
  ELSE c

RecvAnswer(e) ==
  /\ Arrives(e, "result") \/ Arrives(e, "error")
  /\ LET m == Head(net[e])
         c == [end[e] EXCEPT !.pending = @ \ {m.id}]
     IN end' = [end EXCEPT ![e] = IF m.id \in end[e].pending
                                  THEN Answered(c, m.kind, m.id) ELSE c]
  /\ net' = [net EXCEPT ![e] = Tail(@)]

-----------------------------------------------------------------------------
(* The way between the ends. *)

\* The server returns what it cannot deliver.
Bounce(e) ==
  /\ "bounce" \in Faults
  /\ \E kind \in {"open", "data", "close"} : Arrives(e, kind)
  /\ AnswerWith(e, <<"error">>)
  /\ UNCHANGED end

\* A Client loses its connection and what was under way, and connects again;
\* the bytestream is no ConnectionListener.
Drop ==
  /\ "drop" \in Faults
  /\ \E e \in Ends : net[e] # <<>>
  /\ net' = [e \in Ends |-> <<>>]
  /\ UNCHANGED end

Receive(e) ==
  \/ RecvOpen(e) \/ RecvUnopened(e) \/ RecvCloseRequest(e) \/ RecvOutOfSequence(e)
  \/ RecvEmpty(e) \/ RecvData(e) \/ RecvAnswer(e)

IbbNext ==
  \/ ConnectStream \/ SendMessage \/ RecvMessage \/ Drop
  \/ \E e \in Ends : Send(e) \/ Close(e) \/ Receive(e) \/ Bounce(e)

IbbSpec == IbbInit /\ [][IbbNext]_ibbVars

\* A server delivers what it was given.
IbbFairness == WF_ibbVars(RecvMessage) /\ \A e \in Ends : WF_ibbVars(Receive(e))

IbbFairSpec == IbbSpec /\ IbbFairness

-----------------------------------------------------------------------------
(* Properties. *)

\* Types; the sequence numbers stay in their range.
IbbTypeOK ==
  \A e \in Ends :
    /\ end[e].open \in BOOLEAN
    /\ end[e].sequence \in -1..(MaxSeq - 1)
    /\ end[e].last \in -1..(IF end[e].open THEN MaxSeq - 1 ELSE MaxSeq)
    /\ end[e].made \in 0..MaxBlocks /\ end[e].acked \in 0..MaxBlocks
    /\ \A i \in DOMAIN net[e] : net[e][i].seq \in 0..MaxSeq

\* The handler is given the peer's blocks in order, none twice and none left
\* out in between (inbandbytestream.cpp:194-214), past the wrap of the numbers.
InOrder == \A e \in Ends : \A i \in DOMAIN end[e].got : end[e].got[i] = i

\* "notified when the remote end has received and acknowledged a single data
\* packet" (bytestreamdatahandler.h:59-60): never more than it was given.
AcksSound == \A e \in Ends : end[e].acked <= Len(end[Peer(e)].got)

\* Under lost and bounced blocks: nothing out of order reaches the handler, and
\* what was acknowledged had arrived.
BlocksSound == IbbTypeOK /\ InOrder /\ AcksSound

\* A request gets one answer: "This includes the obligatory 'result' answer.
\* If you return false, an 'error' will be sent back." (iqhandler.h:42-43)
AnsweredOnce ==
  \A e \in Ends : \A i \in DOMAIN net[e] :
    net[e][i].kind \in {"result", "error"} =>
      /\ net[e][i].id \in end[e].pending
      /\ \A j \in DOMAIN net[e] :
           net[e][j].kind \in {"result", "error"} /\ net[e][j].id = net[e][i].id
           => j = i

Quiet == \A e \in Ends : net[e] = <<>> /\ end[e].pending = {}

\* When all is answered both ends have the same idea of the stream (isOpen():
\* "accepted by both parties and ready to send/receive data", bytestream.h:70).
EndsAgree == Quiet => end["initiator"].open = end["target"].open

\* "Notifies the handler that the given bytestream has been closed."
\* (bytestreamdatahandler.h:85): the last word on a stream that is not open any
\* more.
ToldOfEnd ==
  \A e \in Ends : end[e].told # <<>> /\ ~end[e].open => Last(end[e].told)[1] = "close"

\* When told that it "has been acknowledged and is ready to send/receive data"
\* (bytestreamdatahandler.h:78-79), the application can send.
ReadyWhenTold ==
  \A e \in Ends : \A i \in DOMAIN end[e].told :
    end[e].told[i][1] = "open" => end[e].told[i][2]

\* A stream that cannot be opened has its handler told: "Notifies about an error
\* occuring while using a bytestream." (bytestreamdatahandler.h:70)
RefusalTold ==
  Quiet /\ end["initiator"].asked => end["initiator"].told # <<>>

\* A block received in a message reaches the handler: "This class can receive
\* data wrapped in Message stanzas." (inbandbytestream.h:38)
MessagesReceived ==
  [][RecvMessage /\ end["initiator"].open =>
       Len(end'["initiator"].got) > Len(end["initiator"].got)]_ibbVars

\* What the initiator sends before it closes arrives at the target.
WholeTransfer ==
  \A n \in 1..MaxBlocks :
    end["initiator"].made >= n ~> Len(end["target"].got) >= n

\* Both ends come to the same end of the stream, and each was told of it.
EndsMatch == EndsAgree /\ ToldOfEnd
=============================================================================
