------------------------------ MODULE Backends ------------------------------
(***************************************************************************)
(* What lies between the bytes of a connection and the stream when it is   *)
(* encrypted or compressed: the GnuTLS, OpenSSL and SChannel backends      *)
(* (src/tlsgnutlsbase.cpp, src/tlsopensslbase.cpp, src/tlsschannel.cpp)    *)
(* and zlib (src/compressionzlib.cpp), under a handler that, like          *)
(* ClientBase, cleans up when it ends the connection                       *)
(* (src/clientbase.cpp:342-427).  The libraries are external: a record is  *)
(* taken when both its units are there, whatever pieces they came in.      *)
(* Records 1 to 3 are the handshake (the client opens it and answers the   *)
(* second), the others are data.                                           *)
(***************************************************************************)
EXTENDS Naturals, Sequences, SequencesExt

CONSTANTS Coders,      \* of "gnutls", "openssl", "schannel", "zlib"
          Refused,     \* pairs of a backend and how its handshake may fail
          Early,       \* the backends given data before their handshake ended
          Quitting,    \* the backends whose handler may end the connection when it is handed data
          Eager,       \* the backends whose peer sends before it heard what was encrypted
          Reused,      \* OpenSSL serves a second connection
          MaxSessions, \* bound on the connections
          MaxRecords,  \* bound on the records the peer sends on one of them
          MaxItems     \* bound on what the application sends on one of them

Handshakes == {"gnutls", "openssl", "schannel"}
Failures == {"peer", "credentials", "sizes"}

ASSUME BackendsAssumption ==
    /\ Coders \subseteq Handshakes \cup {"zlib"} /\ Coders # {}
    /\ Refused \subseteq {<<"gnutls", "peer">>, <<"openssl", "peer">>} \cup ({"schannel"} \X Failures)
    /\ Early \subseteq {"gnutls", "openssl"}
    /\ Quitting \subseteq Coders
    /\ Eager \subseteq Coders
    /\ Reused \in BOOLEAN
    /\ MaxSessions \in Nat \ {0} /\ MaxRecords \in Nat /\ MaxItems \in Nat

VARIABLES coder,   \* the backend, and what its handler saw of this session
          pending, \* units on their way from the peer
          farSent  \* the records the peer sent on this connection

backendsVars == <<coder, pending, farSent>>

\* The units of the records, named by their connection and number.
Units == Seq((0..MaxSessions) \X Nat)

Coder ==
    [kind : Coders, session : 0..MaxSessions, up : BOOLEAN, live : BOOLEAN, secure : BOOLEAN,
     begun : BOOLEAN, steps : 0..3, recv : Units, inside : Units, send : Seq(Nat), slice : 1..2,
     fails : Failures \cup {"no"}, quits : 0..2, hands : Seq({"hello", "answer"}),
     told : Seq(BOOLEAN), got : Units, said : Seq(Nat), sent : Seq(Nat),
     late : BOOLEAN, twice : BOOLEAN, prompt : BOOLEAN]

BackendsTypeOK ==
    /\ coder \in Coder
    /\ pending \in Units /\ farSent \in 0..MaxRecords

-----------------------------------------------------------------------------
(* The handler. *)

Cleaned(c) ==
    CASE c.kind = "gnutls" ->
           [c EXCEPT !.twice = @ \/ ~c.live, !.live = TRUE, !.begun = FALSE, !.steps = 0,
                     !.inside = <<>>, !.secure = FALSE]
      [] c.kind = "openssl" -> [c EXCEPT !.secure = FALSE]
      [] c.kind = "schannel" ->
           [c EXCEPT !.recv = <<>>, !.live = FALSE,
                     !.secure = @ /\ ~c.live, !.steps = IF c.live THEN 0 ELSE @]
      [] OTHER -> [c EXCEPT !.inside = <<>>, !.secure = FALSE]

Ends(c) == [Cleaned(c) EXCEPT !.up = FALSE]

(* handleHandshakeResult: a failure ends the connection.                     *)
Tells(c, success) ==
    LET told == [c EXCEPT !.told = Append(@, success)]
    IN IF success THEN told ELSE Ends(told)

(* handleDecryptedData, handleDecompressedData: the handler may end the      *)
(* connection there and then.                                                *)
Delivers(c, data) ==
    LET given == [c EXCEPT !.got = @ \o data, !.late = @ \/ ~c.up]
    IN IF c.quits \in (Len(c.got) + 1)..Len(given.got) THEN Ends(given) ELSE given

-----------------------------------------------------------------------------
(* The libraries: the record at the front, and one step of the handshake.    *)
Record(c, n) == <<c.session, n>>

Fatal(c, record) ==
    \/ record # Record(c, c.steps + 1)
    \/ c.steps = 2 /\ c.fails = "peer"

Stepped(c) ==
    [c EXCEPT !.steps = @ + 1,
              !.hands = IF c.steps = 1 THEN Append(@, "answer") ELSE @]

Opened(c) == [c EXCEPT !.begun = TRUE, !.hands = IF c.begun THEN @ ELSE Append(@, "hello")]

\* Drop the first n of a sequence.
Behind(s, n) == SubSeq(s, n + 1, Len(s))

-----------------------------------------------------------------------------
(* GnuTLS pulls what it needs out of m_recvBuffer, and keeps an unfinished   *)
(* record to itself.                                                         *)
Pulled(c) ==
    LET held == c.inside \o c.recv
    IN IF Len(held) < 2
         THEN [c EXCEPT !.inside = held, !.recv = <<>>]
         ELSE [c EXCEPT !.inside = SubSeq(held, 1, 2), !.recv = Behind(held, 2)]

GnuHandshake[c \in Coder] ==
    LET p == Pulled(Opened(c))
    IN IF c.steps = 3 THEN Tells([c EXCEPT !.secure = TRUE], TRUE)
       ELSE IF Len(p.inside) < 2 THEN p
       ELSE IF Fatal(p, p.inside[1]) THEN Tells([p EXCEPT !.live = FALSE], FALSE)
       ELSE GnuHandshake[[Stepped(p) EXCEPT !.inside = <<>>]]

(* A session that is not open gives nothing.                                 *)
GnuReceive[c \in Coder] ==
    LET p == Pulled(c)
    IN IF c.steps < 3 THEN c
       ELSE IF Len(p.inside) < 2 THEN p
       ELSE GnuReceive[Delivers([p EXCEPT !.inside = <<>>], <<p.inside[1]>>)]

GnuDecrypt(c, data) ==
    LET r == [c EXCEPT !.recv = @ \o data]
    IN IF c.secure THEN GnuReceive[r] ELSE GnuHandshake[r]

(* gnutls_record_send takes up to a slice at a time.                         *)
GnuEncrypt(c, item) == IF c.secure THEN [c EXCEPT !.sent = @ \o item] ELSE GnuHandshake[c]

-----------------------------------------------------------------------------
(* OpenSSL reads from a pair of BIOs.  A call that wants data asks for one   *)
(* unit, and pushFunc() hands over no more than was asked for.               *)
PushFunc(c, asked) ==
    IF asked /\ c.recv # <<>>
      THEN [c EXCEPT !.inside = Append(@, Head(c.recv)), !.recv = Tail(@)]
      ELSE c

(* One call of SSL_connect, SSL_read or SSL_write: what it says, and how it  *)
(* leaves the backend.                                                       *)
Says(says, c) == [says |-> says, c |-> c]

Connect(c) ==
    LET o == Opened(c)
    IN IF c.steps = 3 THEN Says("none", c)
       ELSE IF Len(c.inside) < 2 THEN Says("want read", o)
       ELSE IF Fatal(o, o.inside[1]) THEN Says("error", o)
       ELSE LET s == [Stepped(o) EXCEPT !.inside = <<>>]
            IN Says(IF s.steps = 3 THEN "none" ELSE "want read", s)

Read(c) ==
    IF Len(c.inside) < 2 THEN Says("want read", c)
    ELSE Says("none", Delivers([c EXCEPT !.inside = <<>>], <<c.inside[1]>>))

Write(c) ==
    LET n == IF Len(c.send) < c.slice THEN Len(c.send) ELSE c.slice
    IN IF n = 0 THEN Says("error", c)
       ELSE Says("none", [c EXCEPT !.sent = @ \o SubSeq(c.send, 1, n), !.send = Behind(@, n)])

TLSOperation[c \in Coder, op \in {"handshake", "read", "write"}, onceAgain \in BOOLEAN] ==
    LET r == CASE op = "handshake" -> Connect(c) [] op = "read" -> Read(c) [] OTHER -> Write(c)
        n == IF r.says = "none" /\ op = "handshake" THEN [r.c EXCEPT !.secure = TRUE] ELSE r.c
        p == PushFunc(n, r.says = "want read")
        again == ~onceAgain /\ p.recv = <<>>
    IN IF r.says = "error" THEN IF n.secure THEN n ELSE Tells(n, FALSE)
       ELSE IF \/ (again \/ p.recv # <<>>) /\ (~p.secure \/ op = "read")
               \/ op = "write" /\ r.says = "none"
         THEN TLSOperation[p, op, again]
         ELSE p

OpenHandshake(c) ==
    LET o == TLSOperation[c, "handshake", FALSE] IN IF o.secure THEN Tells(o, TRUE) ELSE o

OpenDecrypt(c, data) ==
    LET r == [c EXCEPT !.recv = @ \o data]
    IN IF c.secure THEN TLSOperation[r, "read", FALSE] ELSE OpenHandshake(r)

OpenEncrypt(c, item) ==
    LET s == [c EXCEPT !.send = @ \o item]
    IN IF c.secure THEN TLSOperation[s, "write", FALSE] ELSE OpenHandshake(s)

-----------------------------------------------------------------------------
(* SChannel is handed the whole buffer, and says what it did not use.        *)
SHandshake(c) ==
    IF c.fails = "credentials" THEN Tells(Cleaned(c), FALSE)
    ELSE [Opened(c) EXCEPT !.live = TRUE]

SetSizes(c) == IF c.fails = "sizes" THEN Tells(Cleaned(c), FALSE) ELSE c

HandshakeStage[c \in Coder] ==
    LET s == [Stepped(c) EXCEPT !.recv = Behind(@, 2)]
    IN IF Len(c.recv) < 2 THEN c
       ELSE IF Fatal(c, c.recv[1]) THEN Tells(Cleaned(c), FALSE)
       ELSE IF s.steps = 3 THEN Tells([SetSizes(s) EXCEPT !.secure = TRUE], TRUE)
       ELSE IF s.hands = c.hands /\ s.recv # <<>> THEN HandshakeStage[s]
       ELSE s

SDecrypted[c \in Coder] ==
    LET d == Delivers(c, <<c.recv[1]>>)
        e == [d EXCEPT !.recv = Behind(@, 2)]
    IN IF Len(c.recv) < 2 THEN c
       ELSE IF e.recv = <<>> THEN e ELSE SDecrypted[e]

SDecrypt(c, data) ==
    LET r == [c EXCEPT !.recv = @ \o data]
    IN IF c.secure THEN SDecrypted[r] ELSE HandshakeStage[r]

(* A record holds up to cbMaximumMessage.                                    *)
SEncrypt(c, item) == [c EXCEPT !.sent = @ \o item]

-----------------------------------------------------------------------------
(* zlib: m_valid is the field "secure", set by the first use.  What is       *)
(* inflated is taken in chunks until one is not full, and handed over whole. *)
Chunk == 1

Inflated[data \in Units] ==
    IF Len(data) < Chunk THEN data ELSE SubSeq(data, 1, Chunk) \o Inflated[Behind(data, Chunk)]

Decompress(c, data) == Delivers([c EXCEPT !.secure = TRUE], Inflated[data])

Compress(c, item) == [c EXCEPT !.secure = TRUE, !.sent = @ \o item]

-----------------------------------------------------------------------------
(* The backend that was built in, or zlib (tlsdefault.cpp, compressiondefault.cpp). *)
Handshake(c) ==
    CASE c.kind = "gnutls" -> GnuHandshake[c]
      [] c.kind = "openssl" -> OpenHandshake(c)
      [] c.kind = "schannel" -> SHandshake(c)
      [] OTHER -> c

Decrypt(c, data) ==
    CASE c.kind = "gnutls" -> GnuDecrypt(c, data)
      [] c.kind = "openssl" -> OpenDecrypt(c, data)
      [] c.kind = "schannel" -> SDecrypt(c, data)
      [] OTHER -> Decompress(c, data)

Encrypt(c, item) ==
    CASE c.kind = "gnutls" -> GnuEncrypt(c, item)
      [] c.kind = "openssl" -> OpenEncrypt(c, item)
      [] c.kind = "schannel" -> SEncrypt(c, item)
      [] OTHER -> Compress(c, item)

\* The records that come before data.
FirstData(c) == IF c.kind \in Handshakes THEN 3 ELSE 0

BackendsInit ==
    /\ coder \in {[kind |-> k, session |-> 0, up |-> FALSE, live |-> k # "schannel", secure |-> FALSE,
                   begun |-> FALSE, steps |-> 0, recv |-> <<>>, inside |-> <<>>, send |-> <<>>,
                   slice |-> n, fails |-> "no", quits |-> 0, hands |-> <<>>, told |-> <<>>, got |-> <<>>,
                   said |-> <<>>, sent |-> <<>>, late |-> FALSE, twice |-> FALSE, prompt |-> FALSE] :
                   k \in Coders, n \in 1..2}
    /\ pending = <<>> /\ farSent = 0

(* A connection, and the call of handshake() when the server lets TLS begin. *)
Connects(fails, quits) ==
    /\ ~coder.up /\ coder.session < MaxSessions
    /\ coder.kind = "openssl" => coder.session = 0 \/ Reused
    /\ fails # "no" => <<coder.kind, fails>> \in Refused
    /\ quits # 0 => coder.kind \in Quitting
    /\ coder' = Handshake([coder EXCEPT !.session = @ + 1, !.up = TRUE, !.fails = fails, !.quits = quits,
                             !.hands = <<>>, !.told = <<>>, !.got = <<>>, !.said = <<>>, !.sent = <<>>,
                             !.prompt = coder.kind = "zlib"])
    /\ pending' = <<>> /\ farSent' = 0

PeerSends ==
    /\ coder.up /\ farSent < MaxRecords
    /\ farSent < 2 /\ coder.kind # "zlib" => coder.hands # <<>>
    /\ farSent = 2 /\ coder.kind # "zlib" => Len(coder.hands) = 2
    /\ farSent = 3 => coder.kind \in Eager \/ coder.sent # <<>>
    /\ farSent' = farSent + 1
    /\ pending' = pending \o <<Record(coder, farSent'), Record(coder, farSent')>>
    /\ UNCHANGED coder

Arrives(n) ==
    /\ coder.up /\ n <= Len(pending)
    /\ coder' = [Decrypt(coder, SubSeq(pending, 1, n)) EXCEPT !.prompt = coder.secure \/ coder.kind = "zlib"]
    /\ pending' = Behind(pending, n)
    /\ UNCHANGED farSent

(* send(): m_encryptionActive is set before the handshake begins.            *)
Sends ==
    /\ coder.up /\ Len(coder.said) < 2 * MaxItems
    /\ coder.secure \/ coder.kind \in Early \cup {"zlib"}
    /\ LET n == Len(coder.said)
           item == <<n + 1, n + 2>>
       IN coder' = Encrypt([coder EXCEPT !.said = @ \o item], item)
    /\ UNCHANGED <<pending, farSent>>

Lost ==
    /\ coder.up
    /\ coder' = Ends(coder)
    /\ pending' = <<>> /\ UNCHANGED farSent

BackendsNext ==
    \/ \E fails \in Failures \cup {"no"}, quits \in 0..2 : Connects(fails, quits)
    \/ PeerSends \/ Sends \/ Lost
    \/ \E n \in 1..(2 * MaxRecords) : Arrives(n)

BackendsSpec == BackendsInit /\ [][BackendsNext]_backendsVars

-----------------------------------------------------------------------------
Arrived == 2 * farSent - Len(pending)

\* What was handed on is what the peer sent, in its order, each record once, and
\* when a piece was taken by a session already open, every whole record of it.
DataInTurn ==
    LET units == IF coder.kind = "zlib" THEN Arrived ELSE Arrived \div 2
    IN /\ \A i \in DOMAIN coder.got :
            coder.got[i] = Record(coder, IF coder.kind = "zlib" THEN (i + 1) \div 2 ELSE i + 3)
       /\ coder.up /\ coder.prompt /\ coder.session > 0 => Len(coder.got) + FirstData(coder) = units

\* What the application said is sent in its order, once, but for what OpenSSL
\* keeps for its next write.
SaidInTurn ==
    /\ IsPrefix(coder.sent, coder.said)
    /\ coder.up => coder.said = coder.sent \o coder.send

\* A handshake has one result: success when it was done with this peer, failure
\* when something failed.
OneResult ==
    coder.kind # "zlib" =>
      /\ Len(coder.told) <= 1
      /\ coder.secure => coder.told = <<TRUE>>
      /\ coder.told = <<TRUE>> => Len(coder.hands) = 2
      /\ coder.told = <<FALSE>> => coder.fails # "no"
      /\ coder.up /\ Arrived >= 6 => coder.told = <<TRUE>>

\* Nothing is handed to a handler that ended the connection, and a library session
\* is given back once.
EndedWell == ~coder.late /\ ~coder.twice

\* A layer of TLS or compression is as good as the connection below it: whole
\* records in order, one result of a handshake, nothing after the end
\* (tlsopensslbase.cpp:162-215, tlsschannel.cpp:33-240, tlsgnutlsbase.cpp:46-142,
\* compressionzlib.cpp:54-120).
CodedSoundly == DataInTurn /\ SaidInTurn /\ OneResult /\ EndedWell
=============================================================================
