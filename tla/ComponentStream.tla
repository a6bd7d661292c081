-------------------------- MODULE ComponentStream --------------------------
(***************************************************************************)
(* The stream of a server component (src/component.cpp): the digest of the *)
(* stream's id and the password is all the negotiation there is, and the   *)
(* server answers it with a handshake element of its own.  Connecting and  *)
(* disconnecting are ClientBase's.                                         *)
(***************************************************************************)
EXTENDS Naturals

CONSTANTS MaxStreams \* bound on the streams opened

ASSUME ComponentAssumption == MaxStreams \in Nat

VARIABLES component, \* m_sid, m_authed and what was sent and told
          peer       \* the server's stream: its id, and whether it accepted

componentVars == <<component, peer>>

NoSid == 0

ComponentTypeOK ==
    /\ component.state \in {"disconnected", "connecting", "open", "told"}
    /\ {component.sid, component.digest, peer.sid} \subseteq 0..MaxStreams
    /\ component.authed \in BOOLEAN /\ peer.accepted \in BOOLEAN

ComponentInit ==
    /\ component = [state |-> "disconnected", sid |-> NoSid, digest |-> NoSid, authed |-> FALSE]
    /\ peer = [sid |-> NoSid, accepted |-> FALSE]

ComponentConnects ==
    /\ component.state = "disconnected"
    /\ peer.sid < MaxStreams
    /\ component' = [component EXCEPT !.state = "connecting"]
    /\ peer' = [sid |-> peer.sid + 1, accepted |-> FALSE]

\* Slip: the digest is the one of the stream before.
SlipOldDigest(sid, earlier) == earlier

(* The digest is made of the id of this stream.                             *)
DigestOf(sid, earlier) == sid

(* The server's stream header arrives (clientbase.cpp:268); without an id   *)
(* handleStartNode sends nothing.                                           *)
StreamStarts(named) ==
    /\ component.state = "connecting"
    /\ component' =
         [component EXCEPT !.state = "open",
                           !.sid = IF named THEN peer.sid ELSE NoSid,
                           !.digest = IF named THEN DigestOf(peer.sid, component.sid) ELSE NoSid]
    /\ UNCHANGED peer

(* The server accepts the digest of its own stream's id, and no other.      *)
PeerAccepts ==
    /\ component.state = "open" /\ ~peer.accepted
    /\ component.digest = peer.sid
    /\ peer' = [peer EXCEPT !.accepted = TRUE]
    /\ UNCHANGED component

(* handleNormalNode.                                                        *)
HandshakeArrives ==
    /\ component.state = "open" /\ peer.accepted
    /\ component' = [component EXCEPT !.state = "told", !.authed = TRUE]
    /\ UNCHANGED peer

(* The stream ends, by either side: m_authed is left as it is.              *)
StreamEnds ==
    /\ component.state # "disconnected"
    /\ component' = [component EXCEPT !.state = "disconnected"]
    /\ UNCHANGED peer

ComponentNext ==
    \/ ComponentConnects
    \/ \E named \in BOOLEAN : StreamStarts(named)
    \/ PeerAccepts \/ HandshakeArrives \/ StreamEnds

ComponentSpec ==
    /\ ComponentInit /\ [][ComponentNext]_componentVars
    /\ WF_componentVars(PeerAccepts) /\ WF_componentVars(HandshakeArrives)

-----------------------------------------------------------------------------
(* A component that sent its digest is accepted, or its stream ends: the    *)
(* digest sent is the one this stream's server is waiting for.              *)
Accepted == component.state = "open" /\ component.digest # NoSid
              ~> component.state # "open"

(* authed() is true of the stream in use.                                   *)
AuthedIsConnected == component.authed => component.state = "told"
=============================================================================
