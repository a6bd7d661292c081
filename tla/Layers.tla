------------------------------- MODULE Layers -------------------------------
(***************************************************************************)
(* A connection wrapped in another: through an HTTP proxy                  *)
(* (src/connectionhttpproxy.cpp), through a SOCKS5 proxy                   *)
(* (src/connectionsocks5proxy.cpp) or inside TLS (src/connectiontls.cpp).  *)
(* Below the wrapper is a TCP connection, above it a handler that, like    *)
(* ClientBase, cleans the stack up when it hears of the end                *)
(* (src/clientbase.cpp:411).  The far end is the proxy, or the TLS peer,   *)
(* and then the server behind it.  Bytes are abstracted to the pieces the  *)
(* handshakes tell apart; one read takes any number of them.               *)
(***************************************************************************)
EXTENDS Naturals, Sequences, SequencesExt

CONSTANTS Wrappers,    \* of "http", "socks5", "tls"
          Cuts,        \* the wrappers whose replies may come in two reads
          SendFails,   \* a send into the TCP connection may fail
          Reuses,      \* a connection object is used again after a handshake that failed
          MaxDials,    \* bound on the calls of connect()
          MaxPayload   \* bound on what the server sends

ASSUME LayersAssumption ==
    /\ Wrappers \subseteq {"http", "socks5", "tls"} /\ Wrappers # {}
    /\ Cuts \subseteq Wrappers
    /\ SendFails \in BOOLEAN /\ Reuses \in BOOLEAN
    /\ MaxDials \in Nat /\ MaxPayload \in Nat

VARIABLES wrapper, \* which wrapper this is
          tcp,     \* the connection below: "down" or "up"
          wrap,    \* m_state of the wrapper
          stage,   \* m_s5state, and the step of the other handshakes
          buf,     \* m_proxyHandshakeBuffer
          line,    \* pieces on their way from the far end
          far,     \* what the far end does next, and whether it refused
          heard,   \* what the handler was told in this session
          dials    \* calls of connect() so far

layersVars == <<wrapper, tcp, wrap, stage, buf, line, far, heard, dials>>

WrapStates == {"disconnected", "connecting", "connected"}
Stages == {"none", "greeting", "request", "open"}

LayersTypeOK ==
    /\ wrapper \in Wrappers
    /\ tcp \in {"down", "up"}
    /\ wrap \in WrapStates
    /\ stage \in Stages
    /\ far.owes \in {"nothing", "greeting", "request", "payload"}
    /\ far.refused \in BOOLEAN
    /\ far.sent \in 0..MaxPayload
    /\ dials \in 0..MaxDials

LayersInit ==
    /\ wrapper \in Wrappers
    /\ tcp = "down" /\ wrap = "disconnected" /\ stage = "none"
    /\ buf = <<>> /\ line = <<>> /\ heard = <<>>
    /\ far = [owes |-> "nothing", refused |-> FALSE, sent |-> 0]
    /\ dials = 0

-----------------------------------------------------------------------------
(* The first thing said on a fresh connection: the SOCKS5 greeting, the      *)
(* CONNECT request, the TLS handshake (handleConnect).                       *)
Opening == IF wrapper = "socks5" THEN "greeting" ELSE "request"

(* What the far end answers, in the pieces a read may tell apart: "reply" is *)
(* the six bytes the SOCKS5 wrapper waits for, "bound" the rest of the       *)
(* answer; "status" and "blank" begin and end the answer of an HTTP proxy.   *)
Granted(owed) ==
    CASE owed = "greeting" -> <<"method">>
      [] wrapper = "socks5" -> <<"reply", "bound">>
      [] wrapper = "http" -> <<"status", "blank">>
      [] OTHER -> <<"hello">>

Told(what) == heard' = Append(heard, what)

(* ClientBase::handleDisconnect cleans up the wrapper and what is below it.  *)
TellsEnd(what) ==
    /\ heard' = heard \o what
    /\ tcp' = "down" /\ wrap' = "disconnected" /\ stage' = "none"
    /\ line' = <<>>
    /\ far' = [far EXCEPT !.owes = "nothing"]

(* connect(): a session of its own for the handler.                          *)
Dial ==
    /\ wrap = "disconnected"
    /\ dials < MaxDials
    /\ Reuses \/ buf = <<>>
    /\ dials' = dials + 1
    /\ heard' = <<>>
    /\ tcp' = "up" /\ wrap' = "connecting"
    /\ stage' = Opening
    /\ far' = [owes |-> Opening, refused |-> FALSE, sent |-> 0]
    /\ UNCHANGED <<wrapper, buf, line>>

(* The TCP connection cannot be made, or the opening cannot be sent: the     *)
(* connection below reports its end through handleDisconnect, and after a    *)
(* failed send a proxy's wrapper reports it once more.                       *)
DialFails(sends) ==
    /\ wrap = "disconnected"
    /\ dials < MaxDials
    /\ Reuses \/ buf = <<>>
    /\ sends => SendFails
    /\ dials' = dials + 1
    /\ heard' = IF sends /\ wrapper # "tls" THEN <<"end", "end">> ELSE <<"end">>
    /\ UNCHANGED <<wrapper, tcp, wrap, stage, buf, line, far>>

(* The far end does its part.                                                *)
FarGrants ==
    /\ far.owes \in {"greeting", "request"}
    /\ line' = line \o Granted(far.owes)
    /\ far' = [far EXCEPT !.owes = "nothing"]
    /\ UNCHANGED <<wrapper, tcp, wrap, stage, buf, heard, dials>>

FarRefuses ==
    /\ far.owes \in {"greeting", "request"}
    /\ line' = Append(line, "refusal")
    /\ far' = [far EXCEPT !.owes = "nothing", !.refused = TRUE]
    /\ UNCHANGED <<wrapper, tcp, wrap, stage, buf, heard, dials>>

FarSends ==
    /\ far.owes = "payload"
    /\ far.sent < MaxPayload
    /\ line' = Append(line, "payload")
    /\ far' = [far EXCEPT !.sent = @ + 1]
    /\ UNCHANGED <<wrapper, tcp, wrap, stage, buf, heard, dials>>

-----------------------------------------------------------------------------
(* handleReceivedData of one read.  A wrapper that is connected passes it on.*)
PassesOn(data) ==
    /\ wrap = "connected"
    /\ heard' = heard \o data
    /\ UNCHANGED <<tcp, wrap, stage, buf, far>>

\* Slip: the status line alone opens the connection.
SlipStatusIsEnough(b) == b[1] = "status"

(* An HTTP answer is over when the buffer ends with the empty line.          *)
Whole(b) == b[1] = "status" /\ Last(b) = "blank"

Opens ==
    /\ wrap' = "connected" /\ stage' = "open"
    /\ buf' = <<>>
    /\ Told("up")
    /\ far' = [far EXCEPT !.owes = "payload"]
    /\ UNCHANGED tcp

Collects(b) ==
    /\ buf' = b
    /\ UNCHANGED <<tcp, wrap, stage, far, heard>>

(* The HTTP wrapper collects; a refusal is told, and stays in the buffer.    *)
HearsHttp(b) ==
    \/ Whole(b) /\ Opens
    \/ b[1] = "refusal" /\ buf' = b /\ TellsEnd(<<"refused">>)
    \/ ~Whole(b) /\ b[1] # "refusal" /\ Collects(b)

\* Slip: the method is taken and nothing asked for.
SlipAsksNothing == "nothing"

(* negotiate() asks the proxy for the connection.                            *)
Negotiated == "request"

(* The SOCKS5 wrapper goes from stage to stage and empties the buffer after  *)
(* each, whatever else was in it.                                            *)
HearsSocks5(b) ==
    \/ /\ stage = "greeting" /\ b = <<"method">>
       /\ stage' = "request"
       /\ far' = [far EXCEPT !.owes = Negotiated]
       /\ buf' = <<>>
       /\ UNCHANGED <<tcp, wrap, heard>>
    \/ stage = "request" /\ b[1] = "reply" /\ Opens
    \/ b[1] = "refusal" /\ buf' = <<>> /\ TellsEnd(<<"refused">>)

(* The TLS backend reports the outcome of its handshake.                     *)
HearsTls(b) ==
    \/ b[1] = "hello" /\ Opens
    \/ b[1] = "refusal" /\ buf' = <<>> /\ TellsEnd(<<"refused">>)

Reads(n) ==
    /\ n \in 1..Len(line)
    /\ n < Len(line) => wrapper \in Cuts \/ wrap = "connected"
    /\ LET data == SubSeq(line, 1, n)
           b == buf \o data
       IN  \/ PassesOn(data)
           \/ wrap = "connecting" /\ wrapper = "http" /\ HearsHttp(b)
           \/ wrap = "connecting" /\ wrapper = "socks5" /\ HearsSocks5(b)
           \/ wrap = "connecting" /\ wrapper = "tls" /\ HearsTls(b)
    /\ line' = IF tcp' = "up" THEN SubSeq(line, n + 1, Len(line)) ELSE <<>>
    /\ UNCHANGED <<wrapper, dials>>

(* The end of the TCP connection, passed on by handleDisconnect.             *)
Loses ==
    /\ tcp = "up"
    /\ TellsEnd(<<"end">>)
    /\ UNCHANGED <<wrapper, buf, dials>>

(* The handler disconnects: ClientBase::disconnect, with its own notice.     *)
HangsUp ==
    /\ wrap # "disconnected"
    /\ TellsEnd(<<"end">>)
    /\ UNCHANGED <<wrapper, buf, dials>>

LayersNext ==
    \/ Dial
    \/ \E sends \in BOOLEAN : DialFails(sends)
    \/ FarGrants \/ FarRefuses \/ FarSends
    \/ \E n \in 1..(MaxPayload + 3) : Reads(n)
    \/ Loses \/ HangsUp

(* The far end answers and the application keeps calling recv().             *)
LayersFairness ==
    /\ WF_layersVars(FarGrants \/ FarRefuses)
    /\ WF_layersVars(\E n \in 1..(MaxPayload + 3) : Reads(n))

LayersSpec == LayersInit /\ [][LayersNext]_layersVars /\ LayersFairness

-----------------------------------------------------------------------------
(* In a session the handler is told of the connection once, then gets what   *)
(* the server sent and nothing of the handshake, then is told of the end     *)
(* once: no piece of an answer leaks through, and nothing follows the end.   *)
HeardInTurn ==
    /\ \A n \in DOMAIN heard :
          CASE heard[n] = "up" -> n = 1
            [] heard[n] = "payload" -> heard[1] = "up"
            [] heard[n] \in {"end", "refused"} -> n = Len(heard)
            [] OTHER -> FALSE
    /\ Len(SelectSeq(heard, LAMBDA h : h = "payload")) <= far.sent
    /\ wrap = "connected" => heard # <<>> /\ heard[1] = "up"

(* A handler is told of a refusal only when the far end of this session has *)
(* refused, not for what an earlier one said.                               *)
RefusedAfresh == "refused" \in Range(heard) => far.refused

(* A handshake ends: with a connection or with the news that there is none.  *)
HandshakeConcluded == wrap = "connecting" ~> wrap # "connecting"
=============================================================================
