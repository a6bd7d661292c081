---------------------------- MODULE ClientStream ----------------------------
(***************************************************************************)
(* The life of one gloox::Client: connecting, TLS, compression, SASL or    *)
(* IQ authentication, resource binding, stream management, session and     *)
(* roster, up to onConnect(), and every way the connection ends.           *)
(*                                                                         *)
(* `c' is the state of the Client/ClientBase object with what it depends   *)
(* on of its connection and TLS objects.  A library function is an         *)
(* operator from such a record to the record after the call, composed as   *)
(* the code composes the calls, so that an action is a whole handler.      *)
(* The server conforms to the protocol: it answers what it was asked       *)
(* (c.owed), in its own time, and may also break the connection.           *)
(*                                                                         *)
(* An operator named Slip... is not part of the model: it is the operator  *)
(* after it with one plausible mistake, and shows that a property of the   *)
(* same run would notice that mistake.                                     *)
(***************************************************************************)
EXTENDS Naturals, Sequences

CONSTANTS
  Configs,      \* the client configurations to start from
  Offers,       \* the sets of stream features a server may announce
  Refusals,     \* the requests the server may refuse
  SMSwitch,     \* arguments the application passes to setStreamManagement()
  SMAnyTime,    \* may it call setStreamManagement() while connected?
  Losses,       \* where in the XML a connection may be cut: see Cuts
  ServerDeclares, \* does the server begin a stream with <?xml ...?>
  ServerEnds,   \* may the server close the stream?
  SilentDeath,  \* may the peer close without the client noticing at once?
  Reentrant     \* callbacks in which the application calls disconnect()

VARIABLES
  config,       \* how the application configured the client; never changes
  c             \* the client object

vars == <<config, c>>

-----------------------------------------------------------------------------
(* Values. *)

Passwords == {"SCRAM-SHA-1-PLUS", "SCRAM-SHA-1", "DIGEST-MD5", "PLAIN"}
Mechs     == Passwords \cup {"EXTERNAL", "ANONYMOUS"}

Feature == {"starttls", "zlib", "bind", "unbind", "session", "sm", "iqauth"}
           \cup Mechs

\* What the client asks of the server and waits for.
Requests == {"header", "starttls", "compress", "auth", "response", "bind",
             "enable", "resume", "session", "roster", "authFields", "authSet"}

Items == Requests \cup {"presence", "stream:error", "close"}

SMContext == {"Invalid", "Failed", "Enable", "Resume", "Enabled", "Resumed"}

\* CtxSM... are ordered in the enumeration; these are >= CtxSMEnabled.
Managed == {"Enabled", "Resumed"}

\* Where the parser stands when the bytes stop: between elements, in the
\* content of an element, or in the middle of a tag.
Cuts == {"between", "content", "markup"}

Config == [tls : {"TLSDisabled", "TLSOptional", "TLSRequired"},
           encryption : BOOLEAN, compression : BOOLEAN, sasl : BOOLEAN,
           mechs : SUBSET Mechs, channelBinding : BOOLEAN,
           forceNonSasl : BOOLEAN,
           credentials : {"password", "certificate", "none"},
           manageRoster : BOOLEAN]

ClientState ==
  [conn : {"Disconnected", "Connecting", "Connected"}, \* ConnectionState
   link : {"up", "down"},                      \* does the peer still listen?
   parser : Cuts,
   tls : {"none", "handshaking", "secure"},    \* of m_encryption
   encryptionActive : BOOLEAN, compressionActive : BOOLEAN,
   authed : BOOLEAN, resourceBound : BOOLEAN,
   streamFeatures : SUBSET Feature,
   saslMech : Mechs \cup {"none"},
   smContext : SMContext, smWanted : BOOLEAN,
   smId : BOOLEAN,                             \* is m_smId non-empty?
   owed : SUBSET Requests,                     \* answers still to come
   late : SUBSET Requests,  \* answers read in one piece with the tag whose
                            \* handler disconnected, still to be parsed
   out : SUBSET (Items \X BOOLEAN),            \* sent in this step, and
                                               \* whether inside TLS
   log : Seq({"onConnect", "onDisconnect"}),   \* since connect()
   errors : SUBSET {"onResourceBindError", "onSessionCreateError"}]

ASSUME ConstantsAssumption ==
  /\ Configs \subseteq Config
  /\ Offers \subseteq SUBSET Feature
  /\ Refusals \subseteq Requests
  /\ SMSwitch \subseteq BOOLEAN
  /\ Losses \subseteq Cuts
  /\ SMAnyTime \in BOOLEAN
  /\ ServerEnds \in BOOLEAN
  /\ SilentDeath \in BOOLEAN
  /\ ServerDeclares \in BOOLEAN
  /\ Reentrant \subseteq {"onResourceBind", "onMessage"}

-----------------------------------------------------------------------------
(* Ends of a connection and sending. *)

SlipKeepsResource(s) == [s EXCEPT !.authed = FALSE, !.streamFeatures = {}]

\* Client::cleanup(), reached from notifyOnDisconnect() through init().
Cleanup(s) ==
  [s EXCEPT !.authed = FALSE, !.resourceBound = FALSE, !.streamFeatures = {}]

Tell(s, notice) == [s EXCEPT !.log = Append(@, notice)]

SlipKeepsEncryption(s) ==
  Cleanup(Tell([s EXCEPT !.conn = "Disconnected", !.link = "up",
                         !.tls = "none", !.compressionActive = FALSE,
                         !.owed = {}],
               "onDisconnect"))

\* The connection and both layers are cleaned up, then the listeners told.
Teardown(s) ==
  Cleanup(Tell([s EXCEPT !.conn = "Disconnected", !.link = "up",
                         !.tls = "none", !.encryptionActive = FALSE,
                         !.compressionActive = FALSE, !.owed = {}],
               "onDisconnect"))

\* ClientBase::handleDisconnect(): the connection reports its own end.
HandleDisconnect(s) == Teardown(s)

\* TLSBase::encrypt() drops what it is given until the handshake is done.
Swallowed(s) == s.encryptionActive /\ s.tls # "secure"

\* ClientBase::send(xml).  When the socket fails, ConnectionTCPBase::send()
\* calls handleDisconnect() before it returns.
Send(s, item) ==
  IF s.conn # "Connected" \/ Swallowed(s) THEN s
  ELSE IF s.link = "down" THEN HandleDisconnect(s)
  ELSE [s EXCEPT !.out = @ \cup {<<item, s.tls = "secure">>},
                 !.owed = @ \cup ({item} \cap Requests)]

SlipUnguarded(s, reason) ==
  Teardown(IF reason = "ConnTlsFailed" THEN s ELSE Send(s, "close"))

\* ClientBase::disconnect(reason).
BaseDisconnect(s, reason) ==
  IF s.conn = "Disconnected" THEN s
  ELSE Teardown(IF reason = "ConnTlsFailed" THEN s ELSE Send(s, "close"))

\* Client::disconnect(reason): the flags go first, connected or not.
Disconnect(s, reason) == BaseDisconnect(Cleanup(s), reason)

\* Client::disconnect(), the application's.
UserDisconnect(s) ==
  Disconnect([s EXCEPT !.smContext = "Invalid", !.smId = FALSE,
                       !.smWanted = FALSE],
             "ConnUserDisconnected")

-----------------------------------------------------------------------------
(* After authentication. *)

SendPresence(s) == Send(s, "presence")

RosterFilled(s) == Tell(SendPresence(s), "onConnect")

\* Client::connected() with RosterManager::fill().
ConnectedOp(s) ==
  IF s.authed /\ s.smContext # "Resumed"
  THEN IF config.manageRoster THEN Send(s, "roster") ELSE RosterFilled(s)
  ELSE Tell(s, "onConnect")

SendStreamManagement(s) ==
  IF ~s.smWanted THEN s
  ELSE IF s.smContext = "Invalid"
       THEN [Send(s, "enable") EXCEPT !.smContext = "Enable"]
  ELSE IF s.smContext = "Enabled"
       THEN [Send(s, "resume") EXCEPT !.smContext = "Resume"]
  ELSE s

\* Client::bindOperation( resource, true ).
BindResource(s) ==
  IF "unbind" \notin s.streamFeatures /\ s.resourceBound
  THEN s
  ELSE Send(s, "bind")

CreateSession(s) == Send(s, "session")

SlipForgetsConnected(s) ==
  IF "session" \in s.streamFeatures THEN CreateSession(s) ELSE s

SessionOrConnected(s) ==
  IF "session" \in s.streamFeatures THEN CreateSession(s) ELSE ConnectedOp(s)

-----------------------------------------------------------------------------
(* Choosing what to negotiate next: the <features/> branch of              *)
(* Client::handleNormalNode().                                             *)

SlipDefaultFeature(F) == IF F = {} THEN {"register"} ELSE F

\* Client::getStreamFeatures(): nothing known means IQ authentication.
StreamFeatures(F) == IF F = {} THEN {"iqauth"} ELSE F

StartSASL(s, mech) == Send([s EXCEPT !.saslMech = mech], "auth")

\* The order in which Client::login() tries the mechanisms.
Rank == [m \in Passwords |->
           CASE m = "SCRAM-SHA-1-PLUS" -> 1 [] m = "SCRAM-SHA-1" -> 2
             [] m = "DIGEST-MD5" -> 3 [] OTHER -> 4]

Usable(s) ==
  {m \in s.streamFeatures \cap config.mechs \cap Passwords :
     /\ ~config.forceNonSasl
     /\ m = "SCRAM-SHA-1-PLUS" =>
          config.encryption /\ s.encryptionActive /\ config.channelBinding}

Preferred(s) == CHOOSE m \in Usable(s) : \A n \in Usable(s) : Rank[m] <= Rank[n]

SlipNoMechanism(s) ==
  IF Usable(s) # {} THEN StartSASL(s, Preferred(s))
  ELSE IF "iqauth" \in s.streamFeatures \/ config.forceNonSasl
       THEN Send(s, "authFields")
  ELSE ConnectedOp(s)

Login(s) ==
  IF Usable(s) # {} THEN StartSASL(s, Preferred(s))
  ELSE IF "iqauth" \in s.streamFeatures \/ config.forceNonSasl
       THEN Send(s, "authFields")
  ELSE Disconnect(s, "ConnNoSupportedAuth")

Authenticate(s) ==
  IF config.credentials = "password" THEN Login(s)
  ELSE IF /\ config.credentials = "certificate"
          /\ "EXTERNAL" \in s.streamFeatures \cap config.mechs
       THEN StartSASL(s, "EXTERNAL")
  ELSE IF "ANONYMOUS" \in s.streamFeatures \cap config.mechs
       THEN StartSASL(s, "ANONYMOUS")
  ELSE ConnectedOp(s)

SlipFeatureUnchecked(s) ==
  IF s.smWanted /\ s.smContext \in Managed
  THEN SendStreamManagement(s)
  ELSE IF "bind" \in s.streamFeatures /\ s.smContext \notin Managed
       THEN BindResource(s)
  ELSE s

ResumeOrBind(s) ==
  IF "sm" \in s.streamFeatures /\ s.smWanted /\ s.smContext \in Managed
  THEN SendStreamManagement(s)
  ELSE IF "bind" \in s.streamFeatures /\ s.smContext \notin Managed
       THEN BindResource(s)
  ELSE s

SlipOfferUnchecked(s) ==
  config.tls = "TLSRequired" /\ ~s.encryptionActive /\ ~config.encryption

TlsRefused(s) ==
  /\ config.tls = "TLSRequired" /\ ~s.encryptionActive
  /\ ~config.encryption \/ "starttls" \notin s.streamFeatures

CompressionPossible(s) ==
  config.compression /\ ~s.compressionActive /\ "zlib" \in s.streamFeatures

SlipTlsLast(s) ==
  /\ config.tls # "TLSDisabled" /\ config.encryption /\ ~s.encryptionActive
  /\ "starttls" \in s.streamFeatures /\ ~CompressionPossible(s)

TlsPossible(s) ==
  /\ config.tls # "TLSDisabled" /\ config.encryption /\ ~s.encryptionActive
  /\ "starttls" \in s.streamFeatures

HandleFeatures(s) ==
  IF TlsRefused(s) THEN Disconnect(s, "ConnTlsNotAvailable")
  ELSE IF TlsPossible(s) THEN Send(s, "starttls")
  ELSE IF CompressionPossible(s) THEN Send(s, "compress")
  ELSE IF config.sasl
       THEN IF s.authed THEN ResumeOrBind(s) ELSE Authenticate(s)
  ELSE IF "iqauth" \in s.streamFeatures THEN Send(s, "authFields")
  ELSE Disconnect(s, "ConnNoSupportedAuth")

-----------------------------------------------------------------------------
(* Connecting. *)

Begin(s) == [s EXCEPT !.out = {}]

Init ==
  /\ config \in Configs
  /\ c = [conn |-> "Disconnected", link |-> "up", parser |-> "between",
          tls |-> "none", encryptionActive |-> FALSE,
          compressionActive |-> FALSE, authed |-> FALSE,
          resourceBound |-> FALSE, streamFeatures |-> {}, saslMech |-> "none",
          smContext |-> "Invalid", smWanted |-> FALSE, smId |-> FALSE,
          owed |-> {}, late |-> {}, out |-> {}, log |-> <<>>, errors |-> {}]

Step(s) == c' = s /\ UNCHANGED config

\* ClientBase::connect() does nothing on a connection that is not
\* Disconnected.  The rest of a chunk being parsed comes first.
Connect ==
  /\ c.conn = "Disconnected" /\ c.late = {}
  /\ Step([Begin(c) EXCEPT !.conn = "Connecting", !.log = <<>>, !.errors = {}])

\* ClientBase::handleConnect() sends the stream header.
HandleConnect ==
  /\ c.conn = "Connecting"
  /\ Step(Send([Begin(c) EXCEPT !.conn = "Connected"], "header"))

ConnectFailed ==
  /\ c.conn = "Connecting"
  /\ Step(HandleDisconnect(Begin(c)))

-----------------------------------------------------------------------------
(* Answers of the server. *)

\* The next element to be handled is the answer to req: on the connection, or
\* left over in the chunk whose handling ended it.
Answered(req) ==
  \/ c.conn = "Connected" /\ c.parser = "between" /\ req \in c.owed
  \/ req \in c.late

\* The state in which the handler of that answer starts.
Taking(req) ==
  [Begin(c) EXCEPT !.owed = @ \ {req}, !.late = @ \ {req}]

\* What a conforming server announces at this stage of the stream.
MayOffer(F) ==
  /\ "starttls" \in F => c.tls = "none" /\ ~c.authed
  /\ F \cap Mechs # {} \/ "iqauth" \in F => ~c.authed
  /\ "zlib" \in F => ~c.compressionActive
  /\ F \cap {"bind", "unbind", "session", "sm"} # {} => c.authed
  /\ c.authed => "bind" \in F

\* <stream:stream> and its <features/>.
RecvFeatures ==
  /\ Answered("header")
  /\ \E F \in Offers :
       /\ MayOffer(F)
       /\ Step(HandleFeatures([Taking("header") EXCEPT
                                 !.streamFeatures = StreamFeatures(F)]))

\* ClientBase::handleTag() checks the version of <stream:stream>.
RecvBadStreamVersion ==
  /\ Answered("header") /\ "header" \in Refusals
  /\ Step(Disconnect(Taking("header"), "ConnStreamVersionError"))

RecvProceed ==
  /\ Answered("starttls")
  /\ Step([Taking("starttls") EXCEPT !.encryptionActive = TRUE,
                                     !.tls = "handshaking"])

\* ClientBase::handleHandshakeResult() with success and the certificate
\* accepted by the application: the stream starts over inside TLS.
HandshakeDone ==
  /\ c.conn = "Connected" /\ c.tls = "handshaking"
  /\ Step(Send([Begin(c) EXCEPT !.tls = "secure"], "header"))

\* The handshake failed, or onTLSConnect() rejected the certificate.
HandshakeFailed ==
  /\ c.conn = "Connected" /\ c.tls = "handshaking"
  /\ "starttls" \in Refusals
  /\ \E done \in {"handshaking", "secure"} :
       Step(Disconnect([Begin(c) EXCEPT !.tls = done], "ConnTlsFailed"))

\* The <failure/> elements of the TLS, compression and SASL namespaces.
RecvFailure ==
  \E req \in {"starttls", "compress", "auth", "response"} \cap Refusals :
    /\ Answered(req)
    /\ Step(Disconnect(Taking(req),
                       IF req = "starttls" THEN "ConnTlsFailed"
                       ELSE IF req = "compress" THEN "ConnCompressionFailed"
                       ELSE "ConnAuthenticationFailed"))

RecvCompressed ==
  /\ Answered("compress")
  /\ Step(Send([Taking("compress") EXCEPT !.compressionActive = TRUE],
               "header"))

\* ClientBase::processSASLChallenge() for the mechanisms that have one.
RecvChallenge ==
  /\ Answered("auth")
  /\ c.saslMech \in {"SCRAM-SHA-1-PLUS", "SCRAM-SHA-1", "DIGEST-MD5"}
  /\ Step(Send(Taking("auth"), "response"))

\* The request a <success/> answers.
LastOfSASL ==
  IF c.saslMech \in {"SCRAM-SHA-1-PLUS", "SCRAM-SHA-1", "DIGEST-MD5"}
  THEN "response" ELSE "auth"

\* <success/>: the stream starts over, authenticated.
RecvSuccess ==
  /\ Answered(LastOfSASL)
  /\ Step(Send([Taking(LastOfSASL) EXCEPT !.authed = TRUE], "header"))

\* processSASLSuccess() could not verify the server's signature (SCRAM only).
RecvBadSuccess ==
  /\ Answered("response") /\ "response" \in Refusals
  /\ c.saslMech \in {"SCRAM-SHA-1-PLUS", "SCRAM-SHA-1"}
  /\ Step(Disconnect(Taking("response"), "ConnAuthenticationFailed"))

\* Client::processResourceBind(), a result.  The application hears of it in
\* onResourceBind(), before the next request is chosen.
RecvBound ==
  /\ Answered("bind")
  /\ \E quits \in {FALSE, "onResourceBind" \in Reentrant} :
       LET bound == [Taking("bind") EXCEPT !.resourceBound = TRUE]
           s == IF quits THEN UserDisconnect(bound) ELSE bound
       IN Step(IF "sm" \in s.streamFeatures /\ s.smWanted
               THEN SendStreamManagement(s)
               ELSE SessionOrConnected(s))

RecvBindError ==
  /\ Answered("bind") /\ "bind" \in Refusals
  /\ Step([Taking("bind") EXCEPT !.errors = @ \cup {"onResourceBindError"}])

\* <enabled/>; the server names the session when it can be resumed.
RecvEnabled ==
  /\ Answered("enable")
  /\ \E resumable \in BOOLEAN :
       Step(SessionOrConnected([Taking("enable") EXCEPT
                                  !.smContext = "Enabled",
                                  !.smId = resumable]))

\* <resumed/> is handled in CtxSMResume only; the server resumes the session
\* it named, on a stream that has no other.
RecvResumed ==
  /\ Answered("resume") /\ c.smId /\ ~c.resourceBound
  /\ c.smContext = "Resume"
  /\ Step(ConnectedOp([Taking("resume") EXCEPT !.smContext = "Resumed"]))

\* <failed/>.  A session that has no name is never resumed, nor is any on a
\* stream that is bound already.
RecvSMFailed ==
  \E req \in {"enable", "resume"} :
    /\ Answered(req)
    /\ req \in Refusals \/ (req = "resume" /\ (~c.smId \/ c.resourceBound))
    /\ Step([Taking(req) EXCEPT !.smContext = "Failed"])

\* Client::processCreateSession().
RecvSession ==
  /\ Answered("session")
  /\ Step(ConnectedOp(Taking("session")))

RecvSessionError ==
  /\ Answered("session") /\ "session" \in Refusals
  /\ Step([Taking("session") EXCEPT !.errors = @ \cup {"onSessionCreateError"}])

\* RosterManager::handleIqID( RequestRoster ), result and error alike.
RecvRoster ==
  /\ Answered("roster")
  /\ Step(RosterFilled(Taking("roster")))

\* NonSaslAuth::handleIqID().
RecvAuthFields ==
  /\ Answered("authFields")
  /\ Step(Send(Taking("authFields"), "authSet"))

RecvAuthSet ==
  /\ Answered("authSet")
  /\ Step(ConnectedOp([Taking("authSet") EXCEPT !.authed = TRUE]))

RecvAuthError ==
  \E req \in {"authFields", "authSet"} \cap Refusals :
    /\ Answered(req)
    /\ Step(Disconnect(Taking(req), "ConnAuthenticationFailed"))

-----------------------------------------------------------------------------
(* The connection ends, and what the application does. *)

\* <stream:error/> and </stream:stream>: handleTag() disconnects.
ServerCloses ==
  /\ ServerEnds /\ c.conn = "Connected" /\ c.parser = "between"
  /\ \E reason \in {"ConnStreamError", "ConnStreamClosed"} :
       Step(Disconnect(Begin(c), reason))

\* The peer has closed the socket and the client has not read that far.
LinkBreaks ==
  /\ SilentDeath /\ c.conn = "Connected" /\ c.link = "up"
  /\ Step([Begin(c) EXCEPT !.link = "down"])

\* recv() finds the connection gone, after the last bytes of an element or in
\* the middle of one.  Nothing tells the parser.
ConnectionLost ==
  /\ c.conn = "Connected"
  /\ \E cut \in Losses :
       Step(HandleDisconnect([Begin(c) EXCEPT !.parser = cut]))

\* The parser was left in the content of an element: the XML declaration a
\* server may send first makes it start over (Parser::addTag()) ...
RecvDeclaration ==
  /\ c.conn = "Connected" /\ c.parser = "content" /\ "header" \in c.owed
  /\ ServerDeclares
  /\ Step([Begin(c) EXCEPT !.parser = "between"])

\* ... and without one the new stream becomes part of the old element.
StreamSwallowed ==
  /\ c.conn = "Connected" /\ c.parser = "content" /\ "header" \in c.owed
  /\ ~ServerDeclares
  /\ Step([Begin(c) EXCEPT !.owed = @ \ {"header"}])

\* The parser was left inside a tag: ClientBase::parse() fails.
ParseError ==
  /\ c.conn = "Connected" /\ c.parser = "markup" /\ "header" \in c.owed
  /\ Step(Disconnect(Send([Begin(c) EXCEPT !.parser = "between"],
                          "stream:error"),
                     "ConnParseError"))

\* Client::disconnect() from outside the library's callbacks.
AppDisconnects ==
  /\ c.late = {}
  /\ \E cut \in Losses :
       Step(UserDisconnect(IF c.conn = "Connected"
                           THEN [Begin(c) EXCEPT !.parser = cut]
                           ELSE Begin(c)))

\* Client::disconnect() from a stanza handler: the parser goes on with the
\* rest of the chunk, which may hold answers to what was asked before.
HandlerDisconnects ==
  /\ "onMessage" \in Reentrant
  /\ c.conn = "Connected" /\ c.parser = "between"
  /\ c.resourceBound \/ (c.smContext = "Resumed" /\ c.log # <<>>)
  /\ \E rest \in SUBSET c.owed :
       Step([UserDisconnect(Begin(c)) EXCEPT !.late = rest])

\* What remains of the chunk holds no more answers.
ChunkEnds ==
  /\ c.late # {}
  /\ Step([Begin(c) EXCEPT !.late = {}])

\* Client::setStreamManagement().
SetStreamManagement ==
  /\ c.late = {}
  /\ SMAnyTime \/ c.conn = "Disconnected"
  /\ \E enable \in SMSwitch :
       LET s == [Begin(c) EXCEPT !.smWanted = enable]
       IN Step(IF ~enable THEN [s EXCEPT !.smId = FALSE]
               ELSE IF s.resourceBound THEN SendStreamManagement(s)
               ELSE s)

\* The application tries another resource after onResourceBindError().
BindAgain ==
  /\ c.conn = "Connected" /\ "onResourceBindError" \in c.errors
  /\ Step(BindResource([Begin(c) EXCEPT !.errors = {}]))

-----------------------------------------------------------------------------
Answers ==
  \/ RecvFeatures \/ RecvBadStreamVersion
  \/ RecvProceed \/ HandshakeDone \/ HandshakeFailed
  \/ RecvFailure \/ RecvCompressed
  \/ RecvChallenge \/ RecvSuccess \/ RecvBadSuccess
  \/ RecvBound \/ RecvBindError
  \/ RecvEnabled \/ RecvResumed \/ RecvSMFailed
  \/ RecvSession \/ RecvSessionError \/ RecvRoster
  \/ RecvAuthFields \/ RecvAuthSet \/ RecvAuthError
  \/ RecvDeclaration \/ StreamSwallowed \/ ParseError

Application ==
  \/ Connect \/ AppDisconnects \/ HandlerDisconnects
  \/ SetStreamManagement \/ BindAgain

Transport ==
  \/ HandleConnect \/ ConnectFailed
  \/ ServerCloses \/ LinkBreaks \/ ConnectionLost \/ ChunkEnds

Next == Answers \/ Application \/ Transport

Spec == Init /\ [][Next]_vars

\* The server answers, a connection attempt has an outcome, and a link that is
\* down is noticed by recv().  The application owes nothing but to call recv().
Fairness ==
  /\ WF_vars(Answers)
  /\ WF_vars(HandleConnect \/ ConnectFailed)
  /\ WF_vars(c.link = "down" /\ ConnectionLost)

FairSpec == Spec /\ Fairness

-----------------------------------------------------------------------------
(* Properties. *)

\* Every field of the client object keeps its type.
TypeOK ==
  /\ config \in Config
  /\ c \in ClientState

\* TLSRequired is honoured: until the handshake is done nothing leaves the
\* client but what opens, secures and ends a stream (client.cpp:164-177).
RequiredTlsProtects ==
  config.tls = "TLSRequired" =>
    \A o \in c.out :
      o[1] \notin {"header", "starttls", "stream:error", "close"} => o[2]

\* The layers of a stream are stacked in order while it lasts: no resource
\* without authentication, no authentication and no compression but inside the
\* TLS that the configuration requires; the flag that routes the data through
\* TLS is set exactly while there is a TLS session; and after a restart no
\* layer that is up is asked for again.
LayersStacked ==
  c.conn = "Connected" =>
    /\ c.resourceBound => c.authed
    /\ config.tls = "TLSRequired" /\ (c.authed \/ c.compressionActive) => c.tls = "secure"
    /\ c.encryptionActive <=> c.tls # "none"
    /\ "starttls" \in c.owed => ~c.encryptionActive
    /\ "compress" \in c.owed => ~c.compressionActive

\* A negotiation never comes to a stop in which the client waits for nothing
\* and the application has been told nothing.
Announced == c.log # <<>> \/ c.errors # {}

NeverStalls ==
  c.conn = "Connected" /\ ~Announced => c.owed # {} \/ c.tls = "handshaking"

\* Whatever ended a connection, the next one starts from a clean object: no
\* flag of a layer survives (clientbase.cpp:411-449, client.cpp:777-790).
CleanWhenOffline ==
  c.conn # "Connected" /\ c.late = {} =>
    /\ ~c.authed /\ ~c.resourceBound /\ c.streamFeatures = {}
    /\ ~c.encryptionActive /\ ~c.compressionActive /\ c.tls = "none"

\* onConnect() is called "after all authentication is finished if
\* username/password were supplied" (connectionlistener.h:42-44).
ConnectMeansAuthenticated ==
  /\ c.conn = "Connected" /\ config.credentials = "password"
  /\ \E i \in DOMAIN c.log : c.log[i] = "onConnect"
  => c.authed

\* Stream management requests are sent "only when allowed by the
\* specification" (client.h:211-212): where the server announced the feature,
\* <enable/> after a resource is bound and <resume/> instead of binding one.
SMRequestsAllowed ==
  \A o \in c.out :
    /\ o[1] \in {"enable", "resume"} => c.authed /\ "sm" \in c.streamFeatures
    /\ o[1] = "enable" => c.resourceBound
    /\ o[1] = "resume" => ~c.resourceBound

\* "Upon re-connect after an unexpected disconnect, gloox will try to resume
\* the stream" (client.h:109-111): once authenticated, with a session the
\* server named and offers to resume.
ResumesAfterLoss ==
  [][RecvFeatures /\ c.authed /\ c.smWanted /\ c.smId
       /\ "sm" \in c'.streamFeatures /\ ~CompressionPossible(c')
       /\ c'.conn = "Connected"
     => \E o \in c'.out : o[1] = "resume"]_vars

\* A connection is announced once, and nothing is announced after its end.
ConnectsOnce ==
  \A i, j \in DOMAIN c.log : i < j => c.log[j] # "onConnect"

\* The end of a connection is announced once.
DisconnectsOnce ==
  \A i, j \in DOMAIN c.log :
    c.log[i] = "onDisconnect" /\ c.log[j] = "onDisconnect" => i = j

\* Stream management under losses and callbacks that disconnect: its requests
\* go out only where they may, and the end is told once, unless the closing tag
\* found the peer gone.
ManagedSoundly ==
  [][/\ SMRequestsAllowed'
     /\ DisconnectsOnce /\ c.link = "up" => DisconnectsOnce']_vars

\* The callbacks as a whole: the client implements what a ConnectionListener
\* may assume.
Listener == INSTANCE ConnectionListener WITH
  phase <- IF c.conn = "Disconnected" THEN "offline"
           ELSE IF c.log = <<>> THEN "opening" ELSE "online",
  log <- c.log

ListenerContract == Listener!Spec

\* Every connection attempt concludes: the application is told of the success,
\* of an error, or of the end of the connection.  Not so once stream management
\* was wanted, for its context outlives the stream (client.cpp:354, 621-646),
\* nor when the parser was left inside an element of the last connection and
\* takes the new stream for a part of it.
Concludes ==
  (c.conn # "Disconnected" /\ ~Announced)
    ~> (Announced \/ c.smWanted \/ c.smContext # "Invalid" \/ c.parser = "content")
=============================================================================
