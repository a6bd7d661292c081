------------------------- MODULE ClientStreamProofs -------------------------
(***************************************************************************)
(* What holds of ClientStream for every set of configurations, feature     *)
(* sets, refusals and losses.                                              *)
(*                                                                         *)
(* Provided the application does not call disconnect() inside a callback:  *)
(* the type invariant, the protection TLSRequired promises, the order of   *)
(* the layers, the clean restart, and onConnect() after authentication.    *)
(* The inductive invariant is IInv.                                        *)
(*                                                                         *)
(* Provided moreover that it never asks for stream management (Plain): no  *)
(* negotiation stalls, and the client implements ConnectionListener.  The  *)
(* invariant added is CalmNow: one request is under way at a time.         *)
(***************************************************************************)
EXTENDS ClientStream, TLAPS

\* What opens, secures and ends a stream may leave the client unprotected.
Preamble == {"header", "starttls", "stream:error", "close"}

\* Nothing else does, where TLS is required.
OutProtected(s) ==
  config.tls = "TLSRequired" => \A o \in s.out : o[1] \in Preamble \/ o[2]

\* A client without a connection has nothing of a stream left.
Blank(s) ==
  /\ ~s.authed /\ ~s.resourceBound /\ s.streamFeatures = {}
  /\ ~s.encryptionActive /\ ~s.compressionActive /\ s.tls = "none"
  /\ s.owed = {}

\* What every call of the library leaves intact, even between two steps of
\* an end of the connection.
Sound(s) ==
  /\ s \in ClientState /\ config \in Config
  /\ s.late = {}
  /\ OutProtected(s)
  /\ s.conn # "Connected" => Blank(s)

\* Until TLS is up where it is required, the client waits for nothing but the
\* stream and the permission to start TLS.
Waiting(s) ==
  config.tls = "TLSRequired" /\ s.tls # "secure" =>
    /\ s.owed \subseteq {"header", "starttls"}
    /\ ~s.authed /\ ~s.resourceBound /\ ~s.compressionActive

\* What is asked for once the client is authenticated.
AfterAuth == {"bind", "enable", "resume", "session", "roster"}

\* A resource is asked for, and had, on an authenticated stream only, and so is
\* what follows it.
BoundAuthed(s) ==
  (\/ s.owed \cap AfterAuth # {} \/ s.resourceBound
   \/ s.conn = "Connected" /\ "onResourceBindError" \in s.errors)
  => s.authed

\* A client with a password is announced on an authenticated stream only.
ToldAuthed(s) ==
  /\ s.conn = "Connected" /\ config.credentials = "password"
  /\ \E i \in DOMAIN s.log : s.log[i] = "onConnect"
  => s.authed

\* A layer is asked for only while it is not up.
AsksOnce(s) ==
  /\ "starttls" \in s.owed => ~s.encryptionActive
  /\ "compress" \in s.owed => ~s.compressionActive

\* The inductive invariant, of a client record.
Good(s) ==
  /\ Sound(s)
  /\ s.conn = "Connected" => (s.encryptionActive <=> s.tls # "none")
  /\ Waiting(s)
  /\ BoundAuthed(s)
  /\ AsksOnce(s)
  /\ ToldAuthed(s)
  /\ s.conn = "Connecting" => s.errors = {} /\ s.log = <<>>

\* What an item needs to be sent: the authentication it rests on, and TLS.
MaySend(s, item) ==
  /\ item \in Items
  /\ item \in AfterAuth => s.authed
  /\ item = "starttls" => ~s.encryptionActive
  /\ item = "compress" => ~s.compressionActive
  /\ item \in Preamble \/ (config.tls = "TLSRequired" =>
                             s.encryptionActive \/ s.tls = "secure")

IInv == Good(c)

-----------------------------------------------------------------------------
(* Ends of a connection. *)

\* What sending an item does to the record keeps its type ...
LEMMA SentType ==
  ASSUME NEW s \in ClientState, NEW item \in Items
  PROVE  [s EXCEPT !.out = @ \cup {<<item, s.tls = "secure">>},
                   !.owed = @ \cup ({item} \cap Requests)] \in ClientState
PROOF
  <1> DEFINE o == <<item, s.tls = "secure">>
  <1>1. o \in Items \X BOOLEAN
    OBVIOUS
  <1> HIDE DEF o
  <1>2. s.out \cup {o} \in SUBSET (Items \X BOOLEAN)
    BY <1>1 DEF ClientState
  <1>3. s.owed \cup ({item} \cap Requests) \in SUBSET Requests
    BY DEF ClientState
  <1>4. [s EXCEPT !.out = s.out \cup {o},
                  !.owed = s.owed \cup ({item} \cap Requests)] \in ClientState
    BY <1>2, <1>3 DEF ClientState
  <1> QED BY <1>4 DEF o

\* ... and what it sends is protected if the item needs it.
LEMMA SentProtected ==
  ASSUME NEW s, OutProtected(s), NEW item,
         config.tls = "TLSRequired" /\ item \notin Preamble => s.tls = "secure",
         NEW t, t.out = s.out \cup {<<item, s.tls = "secure">>}
  PROVE  OutProtected(t)
PROOF
  <1> SUFFICES ASSUME config.tls = "TLSRequired", NEW o \in t.out
               PROVE  o[1] \in Preamble \/ o[2]
    BY DEF OutProtected
  <1>1. CASE o \in s.out
    BY <1>1 DEF OutProtected
  <1>2. CASE o = <<item, s.tls = "secure">>
    BY <1>2
  <1> QED BY <1>1, <1>2

\* Telling the listeners keeps the type.
LEMMA ToldType ==
  ASSUME NEW s \in ClientState, NEW notice \in {"onConnect", "onDisconnect"}
  PROVE  Tell(s, notice) \in ClientState
PROOF
  <1>1. Append(s.log, notice) \in Seq({"onConnect", "onDisconnect"})
    BY DEF ClientState
  <1> QED BY <1>1 DEF Tell, ClientState

\* The end of a connection leaves a blank client.
LEMMA TeardownGood ==
  ASSUME NEW s, Sound(s)
  PROVE  /\ Good(Teardown(s)) /\ Teardown(s).conn = "Disconnected"
PROOF
  <1> DEFINE a == [s EXCEPT !.conn = "Disconnected", !.link = "up",
                            !.tls = "none", !.encryptionActive = FALSE,
                            !.compressionActive = FALSE, !.owed = {}]
             b == Tell(a, "onDisconnect")
             t == Cleanup(b)
  <1>1. Teardown(s) = t
    BY DEF Teardown
  <1>2. a \in ClientState
    BY DEF Sound, ClientState
  <1>3. /\ a.conn = "Disconnected" /\ a.tls = "none" /\ ~a.encryptionActive
        /\ ~a.compressionActive /\ a.owed = {}
        /\ a.late = {} /\ a.out = s.out
    BY DEF Sound, ClientState
  <1> HIDE DEF a
  <1>4. b \in ClientState
    BY <1>2, ToldType
  <1>5. /\ b.conn = "Disconnected" /\ b.tls = "none" /\ ~b.encryptionActive
        /\ ~b.compressionActive /\ b.owed = {}
        /\ b.late = {} /\ b.out = s.out
    BY <1>2, <1>3 DEF Tell, ClientState
  <1> HIDE DEF b
  <1>6. t \in ClientState
    BY <1>4 DEF Cleanup, ClientState
  <1>7. t.late = {} /\ t.out = s.out /\ t.conn = "Disconnected" /\ Blank(t)
    BY <1>4, <1>5 DEF Cleanup, ClientState, Blank
  <1>8. Sound(t)
    BY <1>6, <1>7 DEF Sound, OutProtected
  <1> QED BY <1>1, <1>7, <1>8
          DEF Good, Blank, Waiting, BoundAuthed, AsksOnce, ToldAuthed

\* A send leaves a sound client, whatever else holds of it.
LEMMA SendSound ==
  ASSUME NEW s, Sound(s), NEW item \in Preamble
  PROVE  Sound(Send(s, item))
PROOF
  <1>1. CASE s.conn # "Connected" \/ Swallowed(s)
    BY <1>1 DEF Send
  <1>2. CASE ~(s.conn # "Connected" \/ Swallowed(s)) /\ s.link = "down"
    BY <1>2, TeardownGood DEF Send, HandleDisconnect, Good
  <1>3. CASE ~(s.conn # "Connected" \/ Swallowed(s)) /\ s.link # "down"
    <2> DEFINE t == [s EXCEPT !.out = @ \cup {<<item, s.tls = "secure">>},
                              !.owed = @ \cup ({item} \cap Requests)]
    <2>1. Send(s, item) = t
      BY <1>3 DEF Send
    <2>2. t \in ClientState
      BY SentType DEF Sound, Preamble, Items, Requests
    <2>3. /\ t.out = s.out \cup {<<item, s.tls = "secure">>}
          /\ t.late = s.late /\ t.conn = s.conn
      BY DEF Sound, ClientState
    <2>4. OutProtected(t)
      BY <2>3, SentProtected DEF Sound
    <2> QED BY <1>3, <2>1, <2>2, <2>3, <2>4 DEF Sound
  <1> QED BY <1>1, <1>2, <1>3

\* disconnect() leaves a good client, connected or not before.
LEMMA DisconnectGood ==
  ASSUME NEW s, Sound(s), NEW reason,
         s.conn = "Connecting" => s.errors = {}
  PROVE  Good(Disconnect(s, reason))
PROOF
  <1> DEFINE t == Cleanup(s)
  <1>1. Sound(t) /\ t.conn = s.conn
    BY DEF Sound, Cleanup, ClientState, Blank, OutProtected
  <1>2. CASE s.conn = "Disconnected"
    BY <1>1, <1>2 DEF Disconnect, BaseDisconnect, Good, Sound, Blank, Waiting,
                      BoundAuthed, AsksOnce, ToldAuthed
  <1>3. CASE s.conn # "Disconnected"
    <2>1. Sound(Send(t, "close"))
      BY <1>1, SendSound DEF Preamble
    <2> QED BY <1>1, <1>3, <2>1, TeardownGood DEF Disconnect, BaseDisconnect
  <1> QED BY <1>2, <1>3

-----------------------------------------------------------------------------
(* Calls that go on with the negotiation. *)

\* A send of what may be sent leaves a good client.
LEMMA SendGood ==
  ASSUME NEW s, Good(s), NEW item, MaySend(s, item)
  PROVE  Good(Send(s, item))
PROOF
  <1>1. CASE s.conn # "Connected" \/ Swallowed(s)
    BY <1>1 DEF Send
  <1>2. CASE ~(s.conn # "Connected" \/ Swallowed(s)) /\ s.link = "down"
    BY <1>2, TeardownGood DEF Send, HandleDisconnect, Good
  <1>3. CASE ~(s.conn # "Connected" \/ Swallowed(s)) /\ s.link # "down"
    <2> DEFINE t == [s EXCEPT !.out = @ \cup {<<item, s.tls = "secure">>},
                              !.owed = @ \cup ({item} \cap Requests)]
    <2>1. Send(s, item) = t
      BY <1>3 DEF Send
    <2>2. t \in ClientState
      BY SentType DEF Good, Sound, MaySend
    <2>3. config.tls = "TLSRequired" /\ item \notin Preamble => s.tls = "secure"
      BY <1>3 DEF MaySend, Swallowed
    <2>4. /\ t.out = s.out \cup {<<item, s.tls = "secure">>}
          /\ t.owed = s.owed \cup ({item} \cap Requests)
          /\ t.late = s.late /\ t.conn = s.conn /\ t.tls = s.tls
          /\ t.encryptionActive = s.encryptionActive /\ t.errors = s.errors
          /\ t.compressionActive = s.compressionActive
          /\ t.authed = s.authed /\ t.resourceBound = s.resourceBound
          /\ t.log = s.log
      BY DEF Good, Sound, ClientState
    <2>5. OutProtected(t)
      BY ZenonT(60), <2>3, <2>4, SentProtected DEF Good, Sound
    <2>6. Waiting(t)
      BY <2>3, <2>4 DEF Waiting, Good, Preamble, Requests
    <2>7. BoundAuthed(t)
      BY <2>4 DEF BoundAuthed, Good, MaySend
    <2>8. AsksOnce(t)
      BY <2>4 DEF AsksOnce, Good, MaySend
    <2>9. ToldAuthed(t)
      BY <2>4 DEF ToldAuthed, Good
    <2> QED BY <1>3, <2>1, <2>2, <2>4, <2>5, <2>6, <2>7, <2>8, <2>9
            DEF Good, Sound
  <1> QED BY <1>1, <1>2, <1>3

\* A connection that is not torn down by what is sent stays as it was.
LEMMA SendLeaves ==
  ASSUME NEW s, Good(s), NEW item
  PROVE  \/ /\ Send(s, item).conn = s.conn
            /\ Send(s, item).authed = s.authed
         \/ Send(s, item).conn = "Disconnected"
PROOF
  <1>1. CASE s.conn # "Connected" \/ Swallowed(s)
    BY <1>1 DEF Send
  <1>2. CASE ~(s.conn # "Connected" \/ Swallowed(s)) /\ s.link = "down"
    BY <1>2, TeardownGood DEF Send, HandleDisconnect, Good
  <1>3. CASE ~(s.conn # "Connected" \/ Swallowed(s)) /\ s.link # "down"
    BY <1>3 DEF Send, Good, Sound, ClientState
  <1> QED BY <1>1, <1>2, <1>3

\* onConnect() is announced to whom it may be.
LEMMA TellGood ==
  ASSUME NEW s, Good(s), s.conn # "Connecting",
         s.conn = "Connected" /\ config.credentials = "password" => s.authed
  PROVE  Good(Tell(s, "onConnect"))
PROOF
  <1> DEFINE t == Tell(s, "onConnect")
  <1>2. t \in ClientState
    BY ToldType DEF Good, Sound
  <1>3. /\ t.late = s.late /\ t.out = s.out /\ t.conn = s.conn
        /\ t.tls = s.tls /\ t.encryptionActive = s.encryptionActive
        /\ t.errors = s.errors /\ t.authed = s.authed /\ t.owed = s.owed
        /\ t.resourceBound = s.resourceBound
        /\ t.streamFeatures = s.streamFeatures
        /\ t.compressionActive = s.compressionActive
    BY DEF Tell, Good, Sound, ClientState
  <1> QED BY <1>2, <1>3 DEF Good, Sound, Blank, OutProtected, Waiting,
                            BoundAuthed, AsksOnce, ToldAuthed

\* Once authenticated, or before anything is, connected() is safe.
LEMMA ConnectedGood ==
  ASSUME NEW s, Good(s), s.conn # "Connecting",
         s.conn = "Connected" /\ config.credentials = "password" => s.authed
  PROVE  Good(ConnectedOp(s))
PROOF
  <1>1. CASE s.authed /\ s.smContext # "Resumed"
    <2>1. MaySend(s, "roster") /\ MaySend(s, "presence")
      BY <1>1 DEF MaySend, AfterAuth, Items, Requests, Good, Waiting
    <2>2. Good(Send(s, "roster")) /\ Good(Send(s, "presence"))
      BY <2>1, SendGood
    <2>3. Good(Tell(Send(s, "presence"), "onConnect"))
      BY <1>1, <2>2, TellGood, SendLeaves
    <2> QED BY <1>1, <2>2, <2>3 DEF ConnectedOp, RosterFilled, SendPresence
  <1>2. CASE ~(s.authed /\ s.smContext # "Resumed")
    BY <1>2, TellGood DEF ConnectedOp
  <1> QED BY <1>1, <1>2

\* The invariant reads these fields only.
LEMMA SameGood ==
  ASSUME NEW s, Good(s), NEW t \in ClientState,
         t.conn = s.conn, t.late = s.late, t.out = s.out, t.authed = s.authed,
         t.log = s.log,
         t.resourceBound = s.resourceBound, t.errors = s.errors,
         t.streamFeatures = s.streamFeatures, t.tls = s.tls, t.owed = s.owed,
         t.encryptionActive = s.encryptionActive,
         t.compressionActive = s.compressionActive
  PROVE  Good(t)
PROOF
  <1>1. Sound(t)
    BY DEF Good, Sound, Blank, OutProtected
  <1>2. Waiting(t) /\ BoundAuthed(t) /\ AsksOnce(t) /\ ToldAuthed(t)
    BY DEF Good, Waiting, BoundAuthed, AsksOnce, ToldAuthed
  <1> QED BY <1>1, <1>2 DEF Good

\* Fields that neither the type of a record nor the invariant ties to others
\* can be set freely.
LEMMA FreeFields ==
  ASSUME NEW s, Good(s), NEW ctx \in SMContext, NEW id \in BOOLEAN,
         NEW wanted \in BOOLEAN, NEW mech \in Mechs \cup {"none"}
  PROVE  /\ Good([s EXCEPT !.smContext = ctx])
         /\ Good([s EXCEPT !.saslMech = mech])
         /\ Good([s EXCEPT !.smContext = ctx, !.smId = id])
         /\ Good([s EXCEPT !.smWanted = wanted])
         /\ Good([s EXCEPT !.smWanted = wanted, !.smId = id])
PROOF
  <1>0. s \in ClientState
    BY DEF Good, Sound
  <1>1. Good([s EXCEPT !.smContext = ctx])
    <2> DEFINE t == [s EXCEPT !.smContext = ctx]
    <2>1. t \in ClientState
      BY <1>0 DEF ClientState
    <2>2. /\ t.conn = s.conn /\ t.late = s.late /\ t.out = s.out
          /\ t.authed = s.authed /\ t.resourceBound = s.resourceBound
          /\ t.errors = s.errors /\ t.streamFeatures = s.streamFeatures
          /\ t.tls = s.tls /\ t.owed = s.owed
          /\ t.encryptionActive = s.encryptionActive
          /\ t.compressionActive = s.compressionActive /\ t.log = s.log
      BY <1>0 DEF ClientState
    <2> HIDE DEF t
    <2>3. Good(t)
      BY <2>1, <2>2, SameGood
    <2> QED BY <2>3 DEF t
  <1>2. Good([s EXCEPT !.saslMech = mech])
    <2> DEFINE t == [s EXCEPT !.saslMech = mech]
    <2>1. t \in ClientState
      BY <1>0 DEF ClientState
    <2>2. /\ t.conn = s.conn /\ t.late = s.late /\ t.out = s.out
          /\ t.authed = s.authed /\ t.resourceBound = s.resourceBound
          /\ t.errors = s.errors /\ t.streamFeatures = s.streamFeatures
          /\ t.tls = s.tls /\ t.owed = s.owed
          /\ t.encryptionActive = s.encryptionActive
          /\ t.compressionActive = s.compressionActive /\ t.log = s.log
      BY <1>0 DEF ClientState
    <2> HIDE DEF t
    <2>3. Good(t)
      BY <2>1, <2>2, SameGood
    <2> QED BY <2>3 DEF t
  <1>3. Good([s EXCEPT !.smContext = ctx, !.smId = id])
    <2> DEFINE t == [s EXCEPT !.smContext = ctx, !.smId = id]
    <2>1. t \in ClientState
      BY <1>0 DEF ClientState
    <2>2. /\ t.conn = s.conn /\ t.late = s.late /\ t.out = s.out
          /\ t.authed = s.authed /\ t.resourceBound = s.resourceBound
          /\ t.errors = s.errors /\ t.streamFeatures = s.streamFeatures
          /\ t.tls = s.tls /\ t.owed = s.owed
          /\ t.encryptionActive = s.encryptionActive
          /\ t.compressionActive = s.compressionActive /\ t.log = s.log
      BY <1>0 DEF ClientState
    <2> HIDE DEF t
    <2>3. Good(t)
      BY <2>1, <2>2, SameGood
    <2> QED BY <2>3 DEF t
  <1>4. Good([s EXCEPT !.smWanted = wanted])
    <2> DEFINE t == [s EXCEPT !.smWanted = wanted]
    <2>1. t \in ClientState
      BY <1>0 DEF ClientState
    <2>2. /\ t.conn = s.conn /\ t.late = s.late /\ t.out = s.out
          /\ t.authed = s.authed /\ t.resourceBound = s.resourceBound
          /\ t.errors = s.errors /\ t.streamFeatures = s.streamFeatures
          /\ t.tls = s.tls /\ t.owed = s.owed
          /\ t.encryptionActive = s.encryptionActive
          /\ t.compressionActive = s.compressionActive /\ t.log = s.log
      BY <1>0 DEF ClientState
    <2> HIDE DEF t
    <2>3. Good(t)
      BY <2>1, <2>2, SameGood
    <2> QED BY <2>3 DEF t
  <1>5. Good([s EXCEPT !.smWanted = wanted, !.smId = id])
    <2> DEFINE t == [s EXCEPT !.smWanted = wanted, !.smId = id]
    <2>1. t \in ClientState
      BY <1>0 DEF ClientState
    <2>2. /\ t.conn = s.conn /\ t.late = s.late /\ t.out = s.out
          /\ t.authed = s.authed /\ t.resourceBound = s.resourceBound
          /\ t.errors = s.errors /\ t.streamFeatures = s.streamFeatures
          /\ t.tls = s.tls /\ t.owed = s.owed
          /\ t.encryptionActive = s.encryptionActive
          /\ t.compressionActive = s.compressionActive /\ t.log = s.log
      BY <1>0 DEF ClientState
    <2> HIDE DEF t
    <2>3. Good(t)
      BY <2>1, <2>2, SameGood
    <2> QED BY <2>3 DEF t
  <1> QED BY <1>1, <1>2, <1>3, <1>4, <1>5

\* What enables or resumes stream management may be sent.
LEMMA ManagementGood ==
  ASSUME NEW s, Good(s), s.authed
  PROVE  Good(SendStreamManagement(s))
PROOF
  <1>1. ASSUME NEW t, Good(t), NEW ctx \in SMContext
        PROVE  Good([t EXCEPT !.smContext = ctx])
    BY <1>1, FreeFields
  <1>2. MaySend(s, "enable") /\ MaySend(s, "resume")
    BY DEF MaySend, AfterAuth, Items, Requests, Good, Waiting
  <1>3. Good(Send(s, "enable")) /\ Good(Send(s, "resume"))
    BY <1>2, SendGood
  <1> QED BY <1>1, <1>3 DEF SendStreamManagement, SMContext

\* What follows the resource may be sent once authenticated.
LEMMA SessionGood ==
  ASSUME NEW s, Good(s), s.authed, s.conn # "Connecting"
  PROVE  Good(SessionOrConnected(s))
PROOF
  <1>1. MaySend(s, "session")
    BY DEF MaySend, AfterAuth, Items, Requests, Good, Waiting
  <1> QED BY <1>1, SendGood, ConnectedGood DEF SessionOrConnected, CreateSession

\* A resource may be asked for once authenticated.
LEMMA BindGood ==
  ASSUME NEW s, Good(s), s.authed
  PROVE  Good(BindResource(s))
PROOF
  <1>1. MaySend(s, "bind")
    BY DEF MaySend, AfterAuth, Items, Requests, Good, Waiting
  <1> QED BY <1>1, SendGood DEF BindResource

\* The preference order always has a first usable mechanism.
LEMMA PreferredUsable ==
  ASSUME NEW s, Usable(s) # {}
  PROVE  Preferred(s) \in Mechs
PROOF
  <1> DEFINE U == Usable(s)
  <1>1. U \subseteq Passwords
    BY DEF Usable
  <1>2. \A m \in Passwords : Rank[m] \in 1..4
    BY DEF Rank, Passwords
  <1>3. /\ Rank["SCRAM-SHA-1-PLUS"] = 1 /\ Rank["SCRAM-SHA-1"] = 2
        /\ Rank["DIGEST-MD5"] = 3 /\ Rank["PLAIN"] = 4
    BY DEF Rank, Passwords
  <1>4. \E m \in U : \A n \in U : Rank[m] <= Rank[n]
    <2> HIDE DEF U
    <2>1. CASE "SCRAM-SHA-1-PLUS" \in U
      BY <2>1, <1>1, <1>2, <1>3
    <2>2. CASE "SCRAM-SHA-1-PLUS" \notin U /\ "SCRAM-SHA-1" \in U
      BY <2>2, <1>1, <1>3 DEF Passwords
    <2>3. CASE /\ "SCRAM-SHA-1-PLUS" \notin U /\ "SCRAM-SHA-1" \notin U
               /\ "DIGEST-MD5" \in U
      BY <2>3, <1>1, <1>3 DEF Passwords
    <2>4. CASE /\ "SCRAM-SHA-1-PLUS" \notin U /\ "SCRAM-SHA-1" \notin U
               /\ "DIGEST-MD5" \notin U
      <3>1. U = {"PLAIN"}
        BY <2>4, <1>1 DEF U, Passwords
      <3> QED BY <3>1, <1>3
    <2> QED BY <2>1, <2>2, <2>3, <2>4
  <1>5. Preferred(s) \in U
    BY <1>4 DEF Preferred
  <1> QED BY <1>5, <1>1 DEF Mechs

\* Whatever the server announces, the next step of the negotiation is sound.
LEMMA FeaturesGood ==
  ASSUME NEW s, Good(s), s.conn = "Connected"
  PROVE  Good(HandleFeatures(s))
PROOF
  <1>1. \A reason : Good(Disconnect(s, reason))
    BY DisconnectGood DEF Good
  <1>2. CASE TlsRefused(s)
    BY <1>1, <1>2 DEF HandleFeatures
  <1>3. CASE ~TlsRefused(s) /\ TlsPossible(s)
    <2>1. MaySend(s, "starttls")
      BY <1>3 DEF TlsPossible, MaySend, AfterAuth, Items, Requests, Preamble
    <2> QED BY <1>3, <2>1, SendGood DEF HandleFeatures
  <1>4. CASE ~TlsRefused(s) /\ ~TlsPossible(s)
    <2>1. config.tls = "TLSRequired" => s.encryptionActive
      BY <1>4 DEF TlsRefused, TlsPossible
    <2>2. /\ \A item \in {"auth", "authFields"} : MaySend(s, item)
          /\ CompressionPossible(s) => MaySend(s, "compress")
      BY <2>1 DEF MaySend, AfterAuth, Items, Requests, CompressionPossible
    <2>3. /\ \A item \in {"auth", "authFields"} : Good(Send(s, item))
          /\ CompressionPossible(s) => Good(Send(s, "compress"))
      BY <2>2, SendGood
    <2>4. \A mech \in Mechs : Good(StartSASL(s, mech))
      <3> SUFFICES ASSUME NEW mech \in Mechs PROVE Good(StartSASL(s, mech))
        OBVIOUS
      <3> DEFINE t == [s EXCEPT !.saslMech = mech]
      <3>0. "Invalid" \in SMContext /\ mech \in Mechs \cup {"none"}
        BY DEF SMContext
      <3>1. Good(t)
        BY <3>0, FreeFields
      <3>2. t.encryptionActive = s.encryptionActive
        BY DEF Good, Sound, ClientState
      <3>3. MaySend(t, "auth")
        BY <2>1, <3>2 DEF MaySend, AfterAuth, Items, Requests
      <3> HIDE DEF t
      <3>4. Good(Send(t, "auth"))
        BY <3>1, <3>3, SendGood
      <3> QED BY <3>4 DEF t, StartSASL
    <2>5. Good(Login(s))
      BY <1>1, <2>3, <2>4, PreferredUsable DEF Login
    <2>6. Good(Authenticate(s))
      BY <2>4, <2>5, ConnectedGood DEF Authenticate, Mechs
    <2>7. CASE s.authed
      <3>1. Good(ResumeOrBind(s))
        BY <2>7, ManagementGood, BindGood DEF ResumeOrBind
      <3> QED BY <1>1, <1>4, <2>3, <2>7, <3>1 DEF HandleFeatures
    <2>8. CASE ~s.authed
      BY <1>1, <1>4, <2>3, <2>6, <2>8 DEF HandleFeatures
    <2> QED BY <2>7, <2>8
  <1> QED BY <1>2, <1>3, <1>4

-----------------------------------------------------------------------------
(* The steps. *)

\* The record with which a handler starts.
LEMMA BeginGood ==
  ASSUME NEW s, Good(s)
  PROVE  /\ Good(Begin(s))
         /\ Begin(s).conn = s.conn /\ Begin(s).errors = s.errors
         /\ Begin(s).resourceBound = s.resourceBound
PROOF
  BY DEF Begin, Good, Sound, ClientState, Blank, OutProtected, Waiting,
         BoundAuthed, AsksOnce, ToldAuthed

\* The record with which the handler of an answer starts.
LEMMA TakingGood ==
  ASSUME Good(c), NEW req, req \in c.owed
  PROVE  /\ Good(Taking(req))
         /\ Taking(req).conn = c.conn /\ Taking(req).errors = c.errors
         /\ Taking(req).authed = c.authed /\ Taking(req).tls = c.tls
         /\ Taking(req).encryptionActive = c.encryptionActive
         /\ req \notin Taking(req).owed
PROOF
  <1> DEFINE t == Taking(req)
  <1>1. c \in ClientState
    BY DEF Good, Sound
  <1>2. /\ t \in ClientState /\ t.out = {} /\ t.late = c.late \ {req}
        /\ t.owed = c.owed \ {req} /\ t.conn = c.conn /\ t.errors = c.errors
        /\ t.authed = c.authed /\ t.tls = c.tls /\ t.log = c.log
        /\ t.encryptionActive = c.encryptionActive
        /\ t.compressionActive = c.compressionActive
        /\ t.resourceBound = c.resourceBound
        /\ t.streamFeatures = c.streamFeatures
    BY <1>1 DEF Taking, Begin, ClientState
  <1> HIDE DEF t
  <1>3. Sound(t)
    BY <1>2 DEF Good, Sound, Blank, OutProtected
  <1>4. Waiting(t) /\ BoundAuthed(t) /\ AsksOnce(t) /\ ToldAuthed(t)
    BY <1>2 DEF Good, Waiting, BoundAuthed, AsksOnce, ToldAuthed
  <1>5. Good(t)
    BY <1>2, <1>3, <1>4 DEF Good
  <1> QED BY <1>2, <1>5 DEF t

\* With no chunk left over, answers come on a connection.
LEMMA AnsweredOwed ==
  ASSUME Good(c), NEW req, Answered(req)
  PROVE  c.conn = "Connected" /\ req \in c.owed
PROOF
  BY DEF Answered, Good, Sound

\* A handler that ends in a good record preserves the invariant.
LEMMA StepGood ==
  ASSUME NEW s, Good(s), Step(s)
  PROVE  IInv'
PROOF
  BY DEF IInv, Step, Good, Sound, Blank, OutProtected, Waiting, BoundAuthed,
         AsksOnce, ToldAuthed

\* A new client is good.
LEMMA InitGood == Init => IInv
PROOF
  <1> SUFFICES ASSUME Init PROVE IInv
    OBVIOUS
  <1>1. c \in ClientState
    <2>1. <<>> \in Seq({"onConnect", "onDisconnect"})
      OBVIOUS
    <2> QED BY <2>1 DEF Init, ClientState, Cuts, SMContext
  <1>2. config \in Config
    BY ConstantsAssumption DEF Init
  <1> QED BY <1>1, <1>2 DEF Init, IInv, Good, Sound, Blank, OutProtected,
                            Waiting, BoundAuthed, AsksOnce, ToldAuthed

\* Before the connection, and the answers that carry the negotiation on.
LEMMA OpeningStep ==
  ASSUME IInv, Connect \/ HandleConnect \/ ConnectFailed
  PROVE  IInv'
PROOF
  <1> USE DEF IInv
  <1> DEFINE b == Begin(c)
  <1>1. Good(b) /\ b.conn = c.conn /\ b.errors = c.errors
    BY BeginGood
  <1>2. CASE Connect
    <2>1. Good([b EXCEPT !.conn = "Connecting", !.log = <<>>, !.errors = {}])
      <3>1. <<>> \in Seq({"onConnect", "onDisconnect"})
        OBVIOUS
      <3> QED BY ZenonT(60), <1>1, <1>2, <3>1
              DEF Connect, Good, Sound, ClientState, Blank, OutProtected,
                  Waiting, BoundAuthed, AsksOnce, ToldAuthed
    <2> QED BY <1>2, <2>1, StepGood DEF Connect
  <1>3. CASE HandleConnect
    <2> DEFINE s == [b EXCEPT !.conn = "Connected"]
    <2>1. Good(s)
      BY <1>1, <1>3 DEF HandleConnect, Good, Sound, ClientState, Blank,
                        OutProtected, Waiting, BoundAuthed, AsksOnce,
                        ToldAuthed
    <2> HIDE DEF s
    <2>2. MaySend(s, "header")
      BY DEF MaySend, AfterAuth, Items, Requests, Preamble
    <2>3. Good(Send(s, "header"))
      BY <2>1, <2>2, SendGood
    <2> QED BY <1>3, <2>3, StepGood DEF HandleConnect, s
  <1>4. CASE ConnectFailed
    BY <1>1, <1>4, TeardownGood, StepGood
       DEF ConnectFailed, HandleDisconnect, Good
  <1> QED BY <1>2, <1>3, <1>4

\* <features/> leaves a good client, whatever it announces.
LEMMA FeaturesStep ==
  ASSUME IInv, RecvFeatures
  PROVE  IInv'
PROOF
  <1>1. Good(c) /\ c.conn = "Connected" /\ "header" \in c.owed
    BY AnsweredOwed DEF IInv, RecvFeatures
  <1>2. PICK F \in Offers :
          Step(HandleFeatures([Taking("header") EXCEPT
                                 !.streamFeatures = StreamFeatures(F)]))
    BY DEF RecvFeatures
  <1> DEFINE b == Taking("header")
             s == [b EXCEPT !.streamFeatures = StreamFeatures(F)]
  <1>3. StreamFeatures(F) \subseteq Feature
    BY ConstantsAssumption DEF StreamFeatures, Feature
  <1>4. Good(b) /\ b.conn = "Connected"
    BY <1>1, TakingGood
  <1> HIDE DEF b
  <1>5. Good(s) /\ s.conn = "Connected"
    BY <1>3, <1>4 DEF Good, Sound, ClientState, Blank, OutProtected, Waiting,
                      BoundAuthed, AsksOnce, ToldAuthed
  <1> HIDE DEF s
  <1>6. Good(HandleFeatures(s))
    BY <1>5, FeaturesGood
  <1> QED BY <1>2, <1>6, StepGood DEF s, b

\* TLS is started, and the stream over again inside it.
LEMMA TlsStep ==
  ASSUME IInv, RecvProceed \/ HandshakeDone \/ HandshakeFailed
  PROVE  IInv'
PROOF
  <1>1. CASE RecvProceed
    <2>1. Good(c) /\ c.conn = "Connected" /\ "starttls" \in c.owed
      BY <1>1, AnsweredOwed DEF IInv, RecvProceed
    <2> DEFINE b == Taking("starttls")
               s == [b EXCEPT !.encryptionActive = TRUE, !.tls = "handshaking"]
    <2>2. Good(b) /\ b.conn = "Connected" /\ b.tls = "none"
          /\ "starttls" \notin b.owed
      <3>1. c.tls = "none"
        BY <2>1 DEF Good, AsksOnce
      <3>2. b.owed = c.owed \ {"starttls"}
        BY <2>1 DEF Taking, Begin, Good, Sound, ClientState
      <3> QED BY <2>1, <3>1, <3>2, TakingGood
    <2> HIDE DEF b
    <2>3. Good(s)
      BY ZenonT(60), <2>2 DEF Good, Sound, ClientState, Blank, OutProtected, Waiting,
                  BoundAuthed, AsksOnce, ToldAuthed
    <2> QED BY <1>1, <2>3, StepGood DEF RecvProceed, b
  <1>2. CASE HandshakeDone
    <2> DEFINE b == Begin(c)
               s == [b EXCEPT !.tls = "secure"]
    <2>1. Good(b) /\ b.conn = "Connected" /\ b.tls = "handshaking"
      BY ZenonT(60), <1>2, BeginGood
         DEF HandshakeDone, IInv, Begin, Good, Sound, ClientState
    <2> HIDE DEF b
    <2>2. Good(s)
      BY SMTT(30), <2>1 DEF Good, Sound, ClientState, Blank, OutProtected, Waiting,
                  BoundAuthed, AsksOnce, ToldAuthed
    <2> HIDE DEF s
    <2>3. Good(Send(s, "header"))
      BY <2>2, SendGood DEF MaySend, AfterAuth, Items, Requests, Preamble
    <2> QED BY <1>2, <2>3, StepGood DEF HandshakeDone, s, b
  <1>3. CASE HandshakeFailed
    <2>1. PICK done \in {"handshaking", "secure"} :
            Step(Disconnect([Begin(c) EXCEPT !.tls = done], "ConnTlsFailed"))
      BY <1>3 DEF HandshakeFailed
    <2> DEFINE b == Begin(c)
               s == [b EXCEPT !.tls = done]
    <2>2. Good(b) /\ b.conn = "Connected"
      BY <1>3, BeginGood DEF HandshakeFailed, IInv
    <2> HIDE DEF b
    <2>3. Sound(s) /\ s.conn = "Connected"
      BY <2>2 DEF Good, Sound, ClientState, Blank, OutProtected
    <2> HIDE DEF s
    <2>4. Good(Disconnect(s, "ConnTlsFailed"))
      BY <2>3, DisconnectGood
    <2> QED BY <2>1, <2>4, StepGood DEF s, b
  <1> QED BY <1>1, <1>2, <1>3

\* Every answer that ends the connection.
LEMMA RefusalStep ==
  ASSUME IInv,
         RecvBadStreamVersion \/ RecvFailure \/ RecvBadSuccess \/ RecvAuthError
  PROVE  IInv'
PROOF
  <1>1. ASSUME NEW req, Answered(req), NEW reason,
               Step(Disconnect(Taking(req), reason))
        PROVE  IInv'
    <2>1. Good(c) /\ c.conn = "Connected" /\ req \in c.owed
      BY <1>1, AnsweredOwed DEF IInv
    <2>2. Good(Taking(req)) /\ Taking(req).conn = "Connected"
      BY <2>1, TakingGood
    <2>3. Good(Disconnect(Taking(req), reason))
      BY <2>2, DisconnectGood DEF Good
    <2> QED BY <1>1, <2>3, StepGood
  <1>2. CASE RecvBadStreamVersion
    BY <1>1, <1>2 DEF RecvBadStreamVersion
  <1>3. CASE RecvFailure
    BY <1>1, <1>3 DEF RecvFailure
  <1>4. CASE RecvBadSuccess
    BY <1>1, <1>4 DEF RecvBadSuccess
  <1>5. CASE RecvAuthError
    BY <1>1, <1>5 DEF RecvAuthError
  <1> QED BY <1>2, <1>3, <1>4, <1>5

\* An answer to anything but the opening of the stream comes inside TLS where
\* TLS is required.
LEMMA AnsweredInside ==
  ASSUME IInv, NEW req \in Requests \ {"header", "starttls"}, Answered(req)
  PROVE  LET b == Taking(req)
         IN /\ Good(b) /\ b.conn = "Connected" /\ b.authed = c.authed
            /\ req \notin b.owed
            /\ config.tls = "TLSRequired" => b.tls = "secure"
            /\ req \in AfterAuth => b.authed
            /\ \A item \in {"header", "response", "authSet"} : MaySend(b, item)
PROOF
  <1>1. Good(c) /\ c.conn = "Connected" /\ req \in c.owed
    BY AnsweredOwed DEF IInv
  <1>2. config.tls = "TLSRequired" => c.tls = "secure"
    BY <1>1 DEF Good, Waiting
  <1>3. req \in AfterAuth => c.authed
    BY <1>1 DEF Good, BoundAuthed
  <1> QED BY <1>1, <1>2, <1>3, TakingGood
          DEF MaySend, AfterAuth, Items, Requests

\* Compression and authentication.
LEMMA LayerStep ==
  ASSUME IInv,
         RecvCompressed \/ RecvChallenge \/ RecvSuccess \/ RecvAuthFields
  PROVE  IInv'
PROOF
  <1>1. CASE RecvCompressed
    <2> DEFINE b == Taking("compress")
               s == [b EXCEPT !.compressionActive = TRUE]
    <2>1. /\ Good(b) /\ b.conn = "Connected" /\ "compress" \notin b.owed
          /\ config.tls = "TLSRequired" => b.tls = "secure"
      BY <1>1, AnsweredInside DEF RecvCompressed, Requests
    <2> HIDE DEF b
    <2>2. Good(s)
      BY ZenonT(60), <2>1 DEF Good, Sound, ClientState, Blank, OutProtected, Waiting,
                  BoundAuthed, AsksOnce, ToldAuthed
    <2> HIDE DEF s
    <2>3. Good(Send(s, "header"))
      BY <2>2, SendGood DEF MaySend, AfterAuth, Items, Requests, Preamble
    <2> QED BY <1>1, <2>3, StepGood DEF RecvCompressed, s, b
  <1>2. CASE RecvChallenge
    <2>1. Good(Send(Taking("auth"), "response"))
      BY <1>2, AnsweredInside, SendGood DEF RecvChallenge, Requests
    <2> QED BY <1>2, <2>1, StepGood DEF RecvChallenge
  <1>3. CASE RecvSuccess
    <2> DEFINE b == Taking(LastOfSASL)
               s == [b EXCEPT !.authed = TRUE]
    <2>1. LastOfSASL \in Requests \ {"header", "starttls"}
      BY DEF LastOfSASL, Requests
    <2>2. /\ Good(b) /\ b.conn = "Connected"
          /\ config.tls = "TLSRequired" => b.tls = "secure"
      BY <1>3, <2>1, AnsweredInside DEF RecvSuccess
    <2> HIDE DEF b
    <2>3. Good(s)
      BY <2>2 DEF Good, Sound, ClientState, Blank, OutProtected, Waiting,
                  BoundAuthed, AsksOnce, ToldAuthed
    <2> HIDE DEF s
    <2>4. Good(Send(s, "header"))
      BY <2>3, SendGood DEF MaySend, AfterAuth, Items, Requests, Preamble
    <2> QED BY <1>3, <2>4, StepGood DEF RecvSuccess, s, b
  <1>4. CASE RecvAuthFields
    <2>1. Good(Send(Taking("authFields"), "authSet"))
      BY <1>4, AnsweredInside, SendGood DEF RecvAuthFields, Requests
    <2> QED BY <1>4, <2>1, StepGood DEF RecvAuthFields
  <1> QED BY <1>1, <1>2, <1>3, <1>4

\* Resource, session and roster.  The application disconnects from none of
\* their callbacks.
LEMMA SessionStep ==
  ASSUME IInv, Reentrant = {},
         \/ RecvBound \/ RecvBindError \/ RecvSession \/ RecvSessionError
         \/ RecvRoster \/ RecvAuthSet
  PROVE  IInv'
PROOF
  <1>1. CASE RecvBound
    <2> DEFINE b == Taking("bind")
               s == [b EXCEPT !.resourceBound = TRUE]
    <2>1. /\ Good(b) /\ b.conn = "Connected" /\ b.authed
          /\ config.tls = "TLSRequired" => b.tls = "secure"
      BY <1>1, AnsweredInside DEF RecvBound, AfterAuth, Requests
    <2>2. Step(IF "sm" \in s.streamFeatures /\ s.smWanted
               THEN SendStreamManagement(s) ELSE SessionOrConnected(s))
      <3>1. PICK quits \in {FALSE, "onResourceBind" \in Reentrant} :
              LET t == IF quits THEN UserDisconnect(s) ELSE s
              IN Step(IF "sm" \in t.streamFeatures /\ t.smWanted
                      THEN SendStreamManagement(t) ELSE SessionOrConnected(t))
        BY <1>1 DEF RecvBound
      <3>2. ~quits
        OBVIOUS
      <3> HIDE DEF s
      <3> QED BY <3>1, <3>2
    <2> HIDE DEF b
    <2>3. Good(s) /\ s.authed /\ s.conn # "Connecting"
      BY <2>1 DEF Good, Sound, ClientState, Blank, OutProtected, Waiting,
                  BoundAuthed, AsksOnce, ToldAuthed
    <2> HIDE DEF s
    <2>4. Good(SendStreamManagement(s)) /\ Good(SessionOrConnected(s))
      BY <2>3, ManagementGood, SessionGood
    <2> QED BY <2>2, <2>4, StepGood
  <1>2. CASE RecvBindError
    <2> DEFINE b == Taking("bind")
    <2>1. Good(b) /\ b.conn = "Connected" /\ b.authed
      BY <1>2, AnsweredInside DEF RecvBindError, AfterAuth, Requests
    <2> HIDE DEF b
    <2>2. Good([b EXCEPT !.errors = @ \cup {"onResourceBindError"}])
      BY <2>1 DEF Good, Sound, ClientState, Blank, OutProtected, Waiting,
                  BoundAuthed, AsksOnce, ToldAuthed
    <2> QED BY <1>2, <2>2, StepGood DEF RecvBindError, b
  <1>3. CASE RecvSession
    <2>1. /\ Good(Taking("session")) /\ Taking("session").authed
          /\ Taking("session").conn = "Connected"
      BY <1>3, AnsweredInside DEF RecvSession, AfterAuth, Requests
    <2> QED BY <1>3, <2>1, ConnectedGood, StepGood DEF RecvSession
  <1>4. CASE RecvSessionError
    <2> DEFINE b == Taking("session")
    <2>1. Good(b) /\ b.conn = "Connected"
      BY <1>4, AnsweredInside DEF RecvSessionError, Requests
    <2> HIDE DEF b
    <2>2. Good([b EXCEPT !.errors = @ \cup {"onSessionCreateError"}])
      BY <2>1 DEF Good, Sound, ClientState, Blank, OutProtected, Waiting,
                  BoundAuthed, AsksOnce, ToldAuthed
    <2> QED BY <1>4, <2>2, StepGood DEF RecvSessionError, b
  <1>5. CASE RecvRoster
    <2> DEFINE b == Taking("roster")
    <2>1. /\ Good(b) /\ b.conn = "Connected" /\ b.authed
          /\ config.tls = "TLSRequired" => b.tls = "secure"
      BY <1>5, AnsweredInside DEF RecvRoster, AfterAuth, Requests
    <2> HIDE DEF b
    <2>2. Good(SendPresence(b))
      BY <2>1, SendGood DEF SendPresence, MaySend, AfterAuth, Items
    <2>3. Good(RosterFilled(b))
      BY <2>1, <2>2, SendLeaves, TellGood DEF SendPresence, RosterFilled
    <2> QED BY <1>5, <2>3, StepGood DEF RecvRoster, b
  <1>6. CASE RecvAuthSet
    <2> DEFINE b == Taking("authSet")
               s == [b EXCEPT !.authed = TRUE]
    <2>1. /\ Good(b) /\ b.conn = "Connected"
          /\ config.tls = "TLSRequired" => b.tls = "secure"
      BY <1>6, AnsweredInside DEF RecvAuthSet, Requests
    <2> HIDE DEF b
    <2>2. Good(s) /\ s.authed /\ s.conn = "Connected"
      BY <2>1 DEF Good, Sound, ClientState, Blank, OutProtected, Waiting,
                  BoundAuthed, AsksOnce, ToldAuthed
    <2> HIDE DEF s
    <2> QED BY <1>6, <2>2, ConnectedGood, StepGood DEF RecvAuthSet, s, b
  <1> QED BY <1>1, <1>2, <1>3, <1>4, <1>5, <1>6

\* Stream management, asked for on a bound or an authenticated stream.
LEMMA ManagementStep ==
  ASSUME IInv, RecvEnabled \/ RecvResumed \/ RecvSMFailed \/ SetStreamManagement
  PROVE  IInv'
PROOF
  <1>1. CASE RecvEnabled
    <2>1. PICK resumable \in BOOLEAN :
            Step(SessionOrConnected([Taking("enable") EXCEPT
                                       !.smContext = "Enabled",
                                       !.smId = resumable]))
      BY <1>1 DEF RecvEnabled
    <2> DEFINE b == Taking("enable")
               s == [b EXCEPT !.smContext = "Enabled", !.smId = resumable]
    <2>2. Good(b) /\ b.conn = "Connected" /\ b.authed
      BY <1>1, AnsweredInside DEF RecvEnabled, AfterAuth, Requests
    <2> HIDE DEF b
    <2>3. Good(s) /\ s.authed /\ s.conn # "Connecting"
      <3>1. "Enabled" \in SMContext
        BY DEF SMContext
      <3>2. s.authed = b.authed /\ s.conn = b.conn
        BY <2>2 DEF Good, Sound, ClientState
      <3> QED BY <2>2, <3>1, <3>2, FreeFields
    <2> HIDE DEF s
    <2>4. Good(SessionOrConnected(s))
      BY <2>3, SessionGood
    <2> QED BY <2>1, <2>4, StepGood DEF s, b
  <1>2. CASE RecvResumed
    <2> DEFINE b == Taking("resume")
               s == [b EXCEPT !.smContext = "Resumed"]
    <2>1. Good(b) /\ b.conn = "Connected" /\ b.authed
      BY <1>2, AnsweredInside DEF RecvResumed, AfterAuth, Requests
    <2> HIDE DEF b
    <2>2. Good(s) /\ s.authed /\ s.conn = "Connected"
      BY <2>1 DEF Good, Sound, ClientState, Blank, OutProtected, Waiting,
                  BoundAuthed, AsksOnce, ToldAuthed, SMContext
    <2> HIDE DEF s
    <2> QED BY <1>2, <2>2, ConnectedGood, StepGood DEF RecvResumed, s, b
  <1>3. CASE RecvSMFailed
    <2>1. PICK req \in {"enable", "resume"} :
            Answered(req) /\ Step([Taking(req) EXCEPT !.smContext = "Failed"])
      BY <1>3 DEF RecvSMFailed
    <2> DEFINE b == Taking(req)
    <2>2. Good(b)
      BY <2>1, AnsweredInside DEF Requests
    <2> HIDE DEF b
    <2>3. Good([b EXCEPT !.smContext = "Failed"])
      BY <2>2 DEF Good, Sound, ClientState, Blank, OutProtected, Waiting,
                  BoundAuthed, AsksOnce, ToldAuthed, SMContext
    <2> QED BY <2>1, <2>3, StepGood DEF b
  <1>4. CASE SetStreamManagement
    <2>1. PICK enable \in SMSwitch :
            LET s == [Begin(c) EXCEPT !.smWanted = enable]
            IN Step(IF ~enable THEN [s EXCEPT !.smId = FALSE]
                    ELSE IF s.resourceBound THEN SendStreamManagement(s)
                    ELSE s)
      BY <1>4 DEF SetStreamManagement
    <2> DEFINE b == Begin(c)
               s == [b EXCEPT !.smWanted = enable]
    <2>2. Good(b)
      BY BeginGood DEF IInv
    <2> HIDE DEF b
    <2>3. Good(s)
      BY <2>2, ConstantsAssumption
         DEF Good, Sound, ClientState, Blank, OutProtected, Waiting,
             BoundAuthed, AsksOnce, ToldAuthed
    <2> HIDE DEF s
    <2>4. Good([s EXCEPT !.smId = FALSE])
      BY ZenonT(60), <2>3 DEF Good, Sound, ClientState, Blank, OutProtected, Waiting,
                  BoundAuthed, AsksOnce, ToldAuthed
    <2>5. s.resourceBound => Good(SendStreamManagement(s))
      BY <2>3, ManagementGood DEF Good, BoundAuthed
    <2> QED BY <2>1, <2>3, <2>4, <2>5, StepGood DEF s, b
  <1> QED BY <1>1, <1>2, <1>3, <1>4

\* The ways a connection ends, and what the parser makes of the next one.
LEMMA EndStep ==
  ASSUME IInv, Reentrant = {},
         \/ ServerCloses \/ LinkBreaks \/ ConnectionLost \/ ChunkEnds
         \/ RecvDeclaration \/ StreamSwallowed \/ ParseError
         \/ AppDisconnects \/ HandlerDisconnects
  PROVE  IInv'
PROOF
  <1> DEFINE b == Begin(c)
  <1>1. Good(b) /\ b.conn = c.conn /\ b.errors = c.errors
    BY BeginGood DEF IInv
  <1>2. \A cut \in Cuts : LET s == [b EXCEPT !.parser = cut]
                          IN Good(s) /\ s.conn = b.conn /\ s.errors = b.errors
    <2> HIDE DEF b
    <2> SUFFICES ASSUME NEW cut \in Cuts
                 PROVE  LET s == [b EXCEPT !.parser = cut]
                        IN Good(s) /\ s.conn = b.conn /\ s.errors = b.errors
      OBVIOUS
    <2> DEFINE s == [b EXCEPT !.parser = cut]
    <2>1. b \in ClientState
      BY <1>1 DEF Good, Sound
    <2>2. /\ s \in ClientState /\ s.out = b.out /\ s.late = b.late
          /\ s.owed = b.owed /\ s.conn = b.conn /\ s.errors = b.errors
          /\ s.authed = b.authed /\ s.tls = b.tls /\ s.log = b.log
          /\ s.encryptionActive = b.encryptionActive
          /\ s.compressionActive = b.compressionActive
          /\ s.resourceBound = b.resourceBound
          /\ s.streamFeatures = b.streamFeatures
      BY <2>1 DEF ClientState
    <2> HIDE DEF s
    <2>3. Good(s)
      BY <1>1, <2>2, SameGood
    <2> QED BY <2>2, <2>3 DEF s
  <1>3. \A cut \in Losses : cut \in Cuts
    BY ConstantsAssumption
  <1>4. CASE ServerCloses
    BY <1>1, <1>4, DisconnectGood, StepGood DEF ServerCloses, Good
  <1>5. CASE LinkBreaks
    <2>1. Good([b EXCEPT !.link = "down"])
      BY <1>1 DEF Good, Sound, ClientState, Blank, OutProtected, Waiting,
                  BoundAuthed, AsksOnce, ToldAuthed
    <2> QED BY <1>5, <2>1, StepGood DEF LinkBreaks
  <1>6. CASE ConnectionLost
    BY <1>2, <1>3, <1>6, TeardownGood, StepGood
       DEF ConnectionLost, HandleDisconnect, Good
  <1>7. CASE RecvDeclaration
    BY <1>2, <1>7, StepGood DEF RecvDeclaration, Cuts
  <1>8. CASE StreamSwallowed
    <2>1. Good([b EXCEPT !.owed = @ \ {"header"}])
      BY <1>1 DEF Good, Sound, ClientState, Blank, OutProtected, Waiting,
                  BoundAuthed, AsksOnce, ToldAuthed
    <2> QED BY <1>8, <2>1, StepGood DEF StreamSwallowed
  <1>9. CASE ParseError
    <2> DEFINE s == [b EXCEPT !.parser = "between"]
    <2>1. Good(s)
      BY <1>2 DEF Cuts
    <2> HIDE DEF s
    <2>2. Good(Send(s, "stream:error"))
      BY <2>1, SendGood DEF MaySend, AfterAuth, Items, Requests, Preamble
    <2>3. Good(Disconnect(Send(s, "stream:error"), "ConnParseError"))
      BY <2>2, DisconnectGood DEF Good
    <2> QED BY <1>9, <2>3, StepGood DEF ParseError, s
  <1>10. CASE AppDisconnects
    <2>1. ASSUME NEW s, Good(s)
          PROVE  Good(UserDisconnect(s))
      <3> DEFINE t == [s EXCEPT !.smContext = "Invalid", !.smId = FALSE]
                 u == [t EXCEPT !.smWanted = FALSE]
      <3>1. u = [s EXCEPT !.smContext = "Invalid", !.smId = FALSE,
                          !.smWanted = FALSE]
        BY <2>1 DEF Good, Sound, ClientState
      <3>2. Good(t)
        BY <2>1, FreeFields DEF SMContext
      <3> HIDE DEF t
      <3>3. Good(u)
        <4>1. "Invalid" \in SMContext /\ "none" \in Mechs \cup {"none"}
          BY DEF SMContext
        <4> QED BY <3>2, <4>1, FreeFields
      <3> HIDE DEF u
      <3>4. Good(Disconnect(u, "ConnUserDisconnected"))
        BY <3>3, DisconnectGood DEF Good
      <3> QED BY <3>1, <3>4 DEF UserDisconnect
    <2>2. PICK cut \in Losses :
            Step(UserDisconnect(IF c.conn = "Connected"
                                THEN [b EXCEPT !.parser = cut] ELSE b))
      BY <1>10 DEF AppDisconnects
    <2>3. Good([b EXCEPT !.parser = cut]) /\ Good(b)
      BY <1>1, <1>2, <1>3
    <2> HIDE DEF b
    <2>4. /\ Good(UserDisconnect([b EXCEPT !.parser = cut]))
          /\ Good(UserDisconnect(b))
      BY <2>1, <2>3
    <2> QED BY <2>2, <2>4, StepGood
  <1>11. CASE ChunkEnds \/ HandlerDisconnects
    BY <1>11 DEF ChunkEnds, HandlerDisconnects, IInv, Good, Sound
  <1> QED BY <1>4, <1>5, <1>6, <1>7, <1>8, <1>9, <1>10, <1>11

\* A second resource is asked for only by an authenticated client.
LEMMA BindAgainStep ==
  ASSUME IInv, BindAgain
  PROVE  IInv'
PROOF
  <1> DEFINE b == Begin(c)
             s == [b EXCEPT !.errors = {}]
  <1>1. c.authed
    BY DEF BindAgain, IInv, Good, BoundAuthed
  <1>2. Good(b) /\ b.authed
    <2>1. Good(c)
      BY DEF IInv
    <2>2. c \in ClientState
      BY <2>1 DEF Good, Sound
    <2>3. b.authed = c.authed
      BY <2>2 DEF Begin, ClientState
    <2>4. Good(b)
      BY <2>1, BeginGood
    <2> QED BY <1>1, <2>3, <2>4
  <1> HIDE DEF b
  <1>3. Good(s) /\ s.authed
    BY <1>2 DEF Good, Sound, ClientState, Blank, OutProtected, Waiting,
                BoundAuthed, AsksOnce, ToldAuthed
  <1> HIDE DEF s
  <1>4. Good(BindResource(s))
    BY <1>3, BindGood
  <1> QED BY <1>4, StepGood DEF BindAgain, s, b

\* Every step preserves the inductive invariant.
LEMMA NextGood ==
  ASSUME Reentrant = {}, IInv, [Next]_vars
  PROVE  IInv'
PROOF
  <1>1. CASE Answers
    BY <1>1, FeaturesStep, TlsStep, RefusalStep, LayerStep, SessionStep,
       ManagementStep, EndStep
       DEF Answers
  <1>2. CASE Application
    BY <1>2, OpeningStep, EndStep, ManagementStep, BindAgainStep
       DEF Application
  <1>3. CASE Transport
    BY <1>3, OpeningStep, EndStep DEF Transport
  <1>4. CASE UNCHANGED vars
    BY <1>4 DEF vars, IInv, Good, Sound, Blank, OutProtected, Waiting,
                BoundAuthed, AsksOnce, ToldAuthed
  <1> QED BY <1>1, <1>2, <1>3, <1>4 DEF Next

-----------------------------------------------------------------------------
(* The theorems. *)

\* In every reachable state of a client whose application does not disconnect
\* inside a callback, the inductive invariant holds.
THEOREM InvTheorem ==
  ASSUME Reentrant = {}
  PROVE  Spec => []IInv
PROOF
  <1>1. Init => IInv
    BY InitGood
  <1>2. IInv /\ [Next]_vars => IInv'
    BY NextGood
  <1> QED BY <1>1, <1>2, PTL DEF Spec

\* Every field of the client object keeps its type.
THEOREM TypeSafe ==
  ASSUME Reentrant = {}
  PROVE  Spec => []TypeOK
PROOF
  <1>1. IInv => TypeOK
    BY DEF IInv, Good, Sound, TypeOK
  <1> QED BY <1>1, InvTheorem, PTL

\* A client that requires TLS sends nothing but what opens, secures and ends a
\* stream before the handshake is done, whatever the server announces, refuses
\* or breaks off (client.cpp:164-177).
THEOREM TlsTheorem ==
  ASSUME Reentrant = {}
  PROVE  Spec => []RequiredTlsProtects
PROOF
  <1>1. IInv => RequiredTlsProtects
    BY DEF IInv, Good, Sound, OutProtected, Preamble, RequiredTlsProtects
  <1> QED BY <1>1, InvTheorem, PTL

\* No resource without authentication, no authentication and no compression
\* outside a required TLS, m_encryptionActive set exactly while there is a TLS
\* session, and no layer asked for twice (client.cpp:164-187).
THEOREM LayersTheorem ==
  ASSUME Reentrant = {}
  PROVE  Spec => []LayersStacked
PROOF
  <1>1. IInv => LayersStacked
    BY DEF IInv, Good, Waiting, BoundAuthed, AsksOnce, LayersStacked
  <1> QED BY <1>1, InvTheorem, PTL

\* However a connection ended, no flag of a layer survives it.
THEOREM CleanTheorem ==
  ASSUME Reentrant = {}
  PROVE  Spec => []CleanWhenOffline
PROOF
  <1>1. IInv => CleanWhenOffline
    BY DEF IInv, Good, Sound, Blank, CleanWhenOffline
  <1> QED BY <1>1, InvTheorem, PTL

\* A client with a password hears onConnect() on an authenticated stream only
\* (connectionlistener.h:42-44), with stream management or without.
THEOREM AuthTheorem ==
  ASSUME Reentrant = {}
  PROVE  Spec => []ConnectMeansAuthenticated
PROOF
  <1>1. IInv => ConnectMeansAuthenticated
    BY DEF IInv, Good, ToldAuthed, ConnectMeansAuthenticated
  <1> QED BY <1>1, InvTheorem, PTL

-----------------------------------------------------------------------------
(* Without stream management: one thing is under way at a time.            *)

\* Stream management was never wanted.
Unmanaged(s) ==
  /\ ~s.smWanted /\ s.smContext = "Invalid"
  /\ s.owed \cap {"enable", "resume"} = {}

\* Nothing is under way.
Idle(s) ==
  s.owed = {} /\ s.tls # "handshaking" /\ "onResourceBindError" \notin s.errors

\* The client waits for one answer, for the handshake or for another resource
\* to be tried; for nothing once it was announced, and once it has a resource
\* for what follows the resource only.
OneThing(s) ==
  s.conn = "Connected" =>
    /\ \A p, q \in s.owed : p = q
    /\ s.tls = "handshaking" => s.owed = {}
    /\ "onResourceBindError" \in s.errors =>
         s.owed = {} /\ s.tls # "handshaking"
    /\ s.log # <<>> => Idle(s)
    /\ s.resourceBound =>
         /\ s.owed \subseteq {"session", "roster"} /\ s.tls # "handshaking"
         /\ "onResourceBindError" \notin s.errors

\* A new stream that is not swallowed by the rest of an old one goes on.
Awaits(s) ==
  /\ ServerDeclares /\ s.conn = "Connected" /\ s.log = <<>> /\ s.errors = {}
  => s.owed # {} \/ s.tls = "handshaking"

\* The inductive invariant, of a client record.
Calm(s) == OneThing(s) /\ Awaits(s) /\ Unmanaged(s)

\* What the application hears between two records, on a link that works:
\* nothing, that the negotiation succeeded, or that the connection ended.
Hears(s, t) ==
  s.link = "up" =>
    /\ t.link = "up"
    /\ \/ /\ (t.conn = "Disconnected") <=> (s.conn = "Disconnected")
          /\ t.log = s.log
       \/ /\ s.conn # "Disconnected" /\ s.log = <<>>
          /\ t.conn # "Disconnected" /\ t.log = Append(s.log, "onConnect")
       \/ /\ s.conn # "Disconnected"
          /\ t.conn = "Disconnected" /\ t.log = Append(s.log, "onDisconnect")

\* What a call does to a record: it stays calm, and is heard as it should be.
Proceeds(s, t) == Calm(t) /\ Hears(s, t)

\* The record of a handler that took what was under way.
Clear(s) ==
  /\ s \in ClientState /\ s.conn = "Connected" /\ s.log = <<>>
  /\ s.encryptionActive => s.tls = "secure"
  /\ Idle(s) /\ Unmanaged(s)

\* The end of the connection, from any record.
LEMMA TeardownProceeds ==
  ASSUME NEW s \in ClientState, Unmanaged(s)
  PROVE  /\ Calm(Teardown(s)) /\ Teardown(s) \in ClientState
         /\ Teardown(s).conn = "Disconnected" /\ Teardown(s).link = "up"
         /\ Teardown(s).log = Append(s.log, "onDisconnect")
PROOF
  <1> DEFINE a == [s EXCEPT !.conn = "Disconnected", !.link = "up",
                            !.tls = "none", !.encryptionActive = FALSE,
                            !.compressionActive = FALSE, !.owed = {}]
             b == Tell(a, "onDisconnect")
             t == Cleanup(b)
  <1>1. Teardown(s) = t
    BY DEF Teardown
  <1>2. /\ a \in ClientState /\ a.conn = "Disconnected" /\ a.link = "up"
        /\ a.log = s.log /\ a.owed = {} /\ ~a.smWanted
        /\ a.smContext = "Invalid"
    BY DEF ClientState, Unmanaged
  <1> HIDE DEF a
  <1>3. /\ b \in ClientState /\ b.conn = "Disconnected" /\ b.link = "up"
        /\ b.log = Append(s.log, "onDisconnect") /\ b.owed = {} /\ ~b.smWanted
        /\ b.smContext = "Invalid"
    <2>1. b \in ClientState
      BY <1>2, ToldType
    <2> QED BY <1>2, <2>1 DEF Tell, ClientState
  <1> HIDE DEF b
  <1>4. /\ t \in ClientState /\ t.conn = "Disconnected" /\ t.link = "up"
        /\ t.log = Append(s.log, "onDisconnect") /\ t.owed = {} /\ ~t.smWanted
        /\ t.smContext = "Invalid"
    BY <1>3 DEF Cleanup, ClientState
  <1> HIDE DEF t
  <1> QED BY <1>1, <1>4 DEF Calm, OneThing, Awaits, Unmanaged

\* What is sent, when nothing is asked, changes nothing but the end of a link
\* that is down.
LEMMA RemarkProceeds ==
  ASSUME NEW s \in ClientState, Unmanaged(s), NEW item \in Items \ Requests
  PROVE  LET t == Send(s, item)
         IN /\ t \in ClientState /\ Unmanaged(t)
            /\ \/ t.conn = "Disconnected" /\ s.link # "up" /\ Calm(t)
               \/ /\ t.conn = s.conn /\ t.log = s.log /\ t.link = s.link
                  /\ t.owed = s.owed /\ t.tls = s.tls /\ t.errors = s.errors
                  /\ t.resourceBound = s.resourceBound
                  /\ t.encryptionActive = s.encryptionActive
PROOF
  <1>1. CASE s.conn # "Connected" \/ Swallowed(s)
    BY <1>1 DEF Send
  <1>2. CASE ~(s.conn # "Connected" \/ Swallowed(s)) /\ s.link = "down"
    BY <1>2, TeardownProceeds DEF Send, HandleDisconnect, Calm
  <1>3. CASE ~(s.conn # "Connected" \/ Swallowed(s)) /\ s.link # "down"
    <2> DEFINE t == [s EXCEPT !.out = @ \cup {<<item, s.tls = "secure">>},
                              !.owed = @ \cup ({item} \cap Requests)]
    <2>1. Send(s, item) = t
      BY <1>3 DEF Send
    <2>2. t \in ClientState
      BY SentType
    <2>3. /\ t.conn = s.conn /\ t.log = s.log /\ t.link = s.link
          /\ t.owed = s.owed /\ t.tls = s.tls /\ t.errors = s.errors
          /\ t.resourceBound = s.resourceBound
          /\ t.encryptionActive = s.encryptionActive
          /\ t.smWanted = s.smWanted /\ t.smContext = s.smContext
      BY DEF ClientState
    <2> HIDE DEF t
    <2> QED BY <2>1, <2>2, <2>3 DEF Unmanaged
  <1> QED BY <1>1, <1>2, <1>3

\* disconnect(), connected or not.
LEMMA DisconnectProceeds ==
  ASSUME NEW s \in ClientState, Unmanaged(s), NEW reason
  PROVE  Proceeds(s, Disconnect(s, reason))
PROOF
  <1> DEFINE a == Cleanup(s)
             b == IF reason = "ConnTlsFailed" THEN a ELSE Send(a, "close")
  <1>1. /\ a \in ClientState /\ Unmanaged(a) /\ a.conn = s.conn
        /\ a.log = s.log /\ a.link = s.link
    BY DEF Cleanup, ClientState, Unmanaged
  <1>2. Disconnect(s, reason)
          = IF s.conn = "Disconnected" THEN a ELSE Teardown(b)
    BY <1>1 DEF Disconnect, BaseDisconnect
  <1> HIDE DEF a
  <1>3. CASE s.conn = "Disconnected"
    BY <1>1, <1>2, <1>3 DEF Proceeds, Calm, OneThing, Awaits, Hears
  <1>4. CASE s.conn # "Disconnected"
    <2>1. "close" \in Items \ Requests
      BY DEF Items, Requests
    <2>2. /\ b \in ClientState /\ Unmanaged(b)
          /\ s.link = "up" => b.log = s.log
      BY <1>1, <2>1, RemarkProceeds
    <2> HIDE DEF b
    <2>3. /\ Calm(Teardown(b)) /\ Teardown(b).conn = "Disconnected"
          /\ Teardown(b).link = "up"
          /\ Teardown(b).log = Append(b.log, "onDisconnect")
      BY <2>2, TeardownProceeds
    <2> QED BY <1>2, <1>4, <2>2, <2>3 DEF Proceeds, Hears
  <1> QED BY <1>3, <1>4

\* A request, when nothing is under way.
LEMMA RequestProceeds ==
  ASSUME NEW s, Clear(s), NEW item \in Requests \ {"enable", "resume"},
         s.resourceBound => item \in {"session", "roster"}
  PROVE  Proceeds(s, Send(s, item))
PROOF
  <1>1. s.conn = "Connected" /\ ~Swallowed(s) /\ s \in ClientState
    BY DEF Clear, Swallowed
  <1>2. CASE s.link = "down"
    BY <1>1, <1>2, TeardownProceeds
       DEF Clear, Send, HandleDisconnect, Proceeds, Hears
  <1>3. CASE s.link # "down"
    <2> DEFINE t == [s EXCEPT !.out = @ \cup {<<item, s.tls = "secure">>},
                              !.owed = @ \cup ({item} \cap Requests)]
    <2>1. Send(s, item) = t
      BY <1>1, <1>3 DEF Send
    <2>2. /\ t.conn = "Connected" /\ t.log = <<>> /\ t.link = s.link
          /\ t.owed = {item} /\ t.tls = s.tls /\ t.errors = s.errors
          /\ t.resourceBound = s.resourceBound
          /\ ~t.smWanted /\ t.smContext = "Invalid"
      BY <1>1 DEF Clear, ClientState, Idle, Unmanaged
    <2> HIDE DEF t
    <2>3. Calm(t)
      BY <2>2 DEF Clear, Calm, OneThing, Awaits, Unmanaged, Idle
    <2>4. Hears(s, t)
      BY <1>1, <2>2 DEF Hears, Clear
    <2> QED BY <2>1, <2>3, <2>4 DEF Proceeds
  <1> QED BY <1>2, <1>3

\* onConnect(), when nothing is under way.
LEMMA TellProceeds ==
  ASSUME NEW s, Clear(s)
  PROVE  Proceeds(s, Tell(s, "onConnect"))
PROOF
  <1> DEFINE t == Tell(s, "onConnect")
  <1>1. /\ t.conn = "Connected" /\ t.log = Append(s.log, "onConnect")
        /\ t.link = s.link /\ t.owed = s.owed /\ t.tls = s.tls
        /\ t.errors = s.errors /\ t.resourceBound = s.resourceBound
        /\ t.smWanted = s.smWanted /\ t.smContext = s.smContext
    BY DEF Tell, Clear, ClientState
  <1>2. s.log = <<>> /\ t.log # <<>> /\ s.conn = "Connected"
    BY <1>1 DEF Clear
  <1> HIDE DEF t
  <1>3. Calm(t)
    BY <1>1, <1>2 DEF Clear, Calm, OneThing, Awaits, Unmanaged, Idle
  <1>4. Proceeds(s, t)
    BY <1>1, <1>2, <1>3 DEF Proceeds, Hears
  <1> QED BY <1>4 DEF t

\* The presence follows the roster, and is announced.
LEMMA RosterProceeds ==
  ASSUME NEW s, Clear(s)
  PROVE  Proceeds(s, RosterFilled(s))
PROOF
  <1> DEFINE u == Send(s, "presence")
             t == Tell(u, "onConnect")
  <1>1. "presence" \in Items \ Requests /\ s \in ClientState /\ Unmanaged(s)
    BY DEF Items, Requests, Clear
  <1>2. /\ u \in ClientState /\ Unmanaged(u)
        /\ \/ u.conn = "Disconnected" /\ s.link # "up"
           \/ /\ u.conn = s.conn /\ u.log = s.log /\ u.link = s.link
              /\ u.owed = s.owed /\ u.tls = s.tls /\ u.errors = s.errors
              /\ u.resourceBound = s.resourceBound
              /\ u.encryptionActive = s.encryptionActive
    BY <1>1, RemarkProceeds
  <1>3. RosterFilled(s) = t
    BY DEF RosterFilled, SendPresence
  <1> HIDE DEF u
  <1>4. CASE u.conn = "Disconnected" /\ s.link # "up"
    <2>1. t.conn = "Disconnected" /\ Unmanaged(t)
      BY <1>2, <1>4 DEF Tell, ClientState, Unmanaged
    <2> QED BY <1>3, <1>4, <2>1 DEF Proceeds, Hears, Calm, OneThing, Awaits
  <1>5. CASE /\ u.conn = s.conn /\ u.log = s.log /\ u.link = s.link
             /\ u.owed = s.owed /\ u.tls = s.tls /\ u.errors = s.errors
             /\ u.resourceBound = s.resourceBound
             /\ u.encryptionActive = s.encryptionActive
    <2>1. Clear(u)
      BY <1>2, <1>5 DEF Clear, Idle
    <2>2. Proceeds(u, t)
      BY <2>1, TellProceeds
    <2> QED BY <1>3, <1>5, <2>2 DEF Proceeds, Hears
  <1> QED BY <1>2, <1>4, <1>5

\* connected(): the roster first, if it is managed.
LEMMA ConnectedProceeds ==
  ASSUME NEW s, Clear(s)
  PROVE  Proceeds(s, ConnectedOp(s))
PROOF
  <1>1. "roster" \in Requests \ {"enable", "resume"}
    BY DEF Requests
  <1> QED BY <1>1, RequestProceeds, RosterProceeds, TellProceeds DEF ConnectedOp

\* Whatever the server announces, the client asks for something, announces the
\* connection or ends it.
LEMMA FeaturesProceed ==
  ASSUME NEW s, Clear(s), ~s.resourceBound,
         s.authed => "bind" \in s.streamFeatures
  PROVE  Proceeds(s, HandleFeatures(s))
PROOF
  <1>1. s \in ClientState /\ Unmanaged(s) /\ s.smContext \notin Managed
    BY DEF Clear, Unmanaged, Managed
  <1>2. \A reason : Proceeds(s, Disconnect(s, reason))
    BY <1>1, DisconnectProceeds
  <1>3. \A item \in {"starttls", "compress", "auth", "authFields", "bind"} :
          Proceeds(s, Send(s, item))
    BY RequestProceeds DEF Requests
  <1>4. \A mech \in Mechs : Proceeds(s, StartSASL(s, mech))
    <2> SUFFICES ASSUME NEW mech \in Mechs
                 PROVE  Proceeds(s, StartSASL(s, mech))
      OBVIOUS
    <2> DEFINE t == [s EXCEPT !.saslMech = mech]
    <2>1. t \in ClientState
      BY <1>1 DEF ClientState
    <2>2. /\ t.conn = s.conn /\ t.log = s.log /\ t.link = s.link
          /\ t.owed = s.owed /\ t.tls = s.tls /\ t.errors = s.errors
          /\ t.resourceBound = s.resourceBound
          /\ t.encryptionActive = s.encryptionActive
          /\ t.smWanted = s.smWanted /\ t.smContext = s.smContext
      BY <1>1 DEF ClientState
    <2> HIDE DEF t
    <2>3. Clear(t) /\ ~t.resourceBound /\ "auth" \in Requests
      BY <2>1, <2>2 DEF Clear, Idle, Unmanaged, Requests
    <2>4. Proceeds(t, Send(t, "auth"))
      BY <2>3, RequestProceeds
    <2>5. Proceeds(s, Send(t, "auth"))
      BY <2>2, <2>4 DEF Proceeds, Hears
    <2> QED BY <2>5 DEF t, StartSASL
  <1>5. Proceeds(s, Login(s))
    BY <1>2, <1>3, <1>4, PreferredUsable DEF Login
  <1>6. Proceeds(s, Authenticate(s))
    BY <1>4, <1>5, ConnectedProceeds DEF Authenticate, Mechs
  <1>7. s.authed => Proceeds(s, ResumeOrBind(s))
    <2>1. ~s.smWanted
      BY <1>1 DEF Unmanaged
    <2> QED BY <1>1, <1>3, <2>1 DEF ResumeOrBind, BindResource
  <1> QED BY <1>2, <1>3, <1>6, <1>7 DEF HandleFeatures

-----------------------------------------------------------------------------
(* Its steps. *)

\* No stream management, and no disconnect() inside a callback.
Plain == Reentrant = {} /\ TRUE \notin SMSwitch

CalmNow == Calm(c)

\* What a step is for the application, unless it opens a connection or breaks
\* the link unnoticed.
Heard == Connect \/ LinkBreaks \/ Hears(c, c')

\* The record a handler starts with: what was under way is taken.
LEMMA TakingClear ==
  ASSUME IInv, CalmNow, NEW req, Answered(req)
  PROVE  LET t == Taking(req)
         IN /\ Clear(t) /\ t.conn = c.conn /\ t.log = c.log /\ t.link = c.link
            /\ t.authed = c.authed /\ t.resourceBound = c.resourceBound
            /\ t.encryptionActive = c.encryptionActive
            /\ req \notin {"enable", "resume"}
            /\ t.resourceBound => req \in {"session", "roster"}
PROOF
  <1> DEFINE t == Taking(req)
  <1>1. Good(c) /\ c.conn = "Connected" /\ req \in c.owed
    BY AnsweredOwed DEF IInv
  <1>2. c \in ClientState
    BY <1>1 DEF Good, Sound
  <1>3. /\ t \in ClientState /\ t.owed = c.owed \ {req} /\ t.conn = c.conn
        /\ t.log = c.log /\ t.link = c.link /\ t.tls = c.tls
        /\ t.errors = c.errors /\ t.authed = c.authed
        /\ t.resourceBound = c.resourceBound
        /\ t.encryptionActive = c.encryptionActive
        /\ t.smWanted = c.smWanted /\ t.smContext = c.smContext
    BY <1>2 DEF Taking, Begin, ClientState
  <1>4. /\ \A p \in c.owed : p = req
        /\ c.tls # "handshaking" /\ "onResourceBindError" \notin c.errors
        /\ c.log = <<>> /\ (c.resourceBound => req \in {"session", "roster"})
        /\ req \notin {"enable", "resume"}
    BY <1>1 DEF CalmNow, Calm, OneThing, Idle, Unmanaged
  <1>5. c.tls \in {"none", "handshaking", "secure"}
    BY <1>2 DEF ClientState
  <1>6. c.encryptionActive => c.tls = "secure"
    BY <1>1, <1>4, <1>5 DEF Good
  <1> HIDE DEF t
  <1>7. t.owed = {}
    BY <1>3, <1>4
  <1>8. Clear(t)
    BY <1>1, <1>3, <1>4, <1>6, <1>7 DEF Clear, Idle, Unmanaged, CalmNow, Calm
  <1> QED BY <1>3, <1>4, <1>8 DEF t

\* A handler that proceeds from a record the application knows as c.
LEMMA StepCalm ==
  ASSUME NEW s, s.conn = c.conn, s.log = c.log, s.link = c.link,
         NEW t, Proceeds(s, t), Step(t)
  PROVE  CalmNow' /\ Heard
PROOF
  <1>1. Hears(c, t)
    BY DEF Proceeds, Hears
  <1>2. c' = t
    BY DEF Step
  <1> QED BY <1>1, <1>2 DEF Proceeds, CalmNow, Heard, Calm, OneThing, Awaits,
                            Unmanaged, Idle

\* A request that answers an answer.
LEMMA AnswerStep ==
  ASSUME IInv, CalmNow,
         RecvChallenge \/ RecvAuthFields \/ RecvCompressed \/ RecvSuccess
  PROVE  CalmNow' /\ Heard
PROOF
  <1>1. ASSUME NEW req, Answered(req), req \notin {"session", "roster"},
               NEW s \in ClientState,
               LET b == Taking(req)
               IN /\ s.conn = b.conn /\ s.log = b.log /\ s.link = b.link
                  /\ s.owed = b.owed /\ s.tls = b.tls /\ s.errors = b.errors
                  /\ s.resourceBound = b.resourceBound
                  /\ s.encryptionActive = b.encryptionActive
                  /\ s.smWanted = b.smWanted /\ s.smContext = b.smContext,
               NEW item \in Requests \ {"enable", "resume"},
               Step(Send(s, item))
        PROVE  CalmNow' /\ Heard
    <2> DEFINE b == Taking(req)
    <2>1. /\ Clear(b) /\ b.conn = c.conn /\ b.log = c.log /\ b.link = c.link
          /\ ~b.resourceBound
      BY <1>1, TakingClear
    <2>2. /\ s.conn = b.conn /\ s.log = b.log /\ s.link = b.link
          /\ s.owed = b.owed /\ s.tls = b.tls /\ s.errors = b.errors
          /\ s.resourceBound = b.resourceBound
          /\ s.encryptionActive = b.encryptionActive
          /\ s.smWanted = b.smWanted /\ s.smContext = b.smContext
      BY <1>1
    <2> HIDE DEF b
    <2>3. Clear(s) /\ ~s.resourceBound
      BY <2>1, <2>2 DEF Clear, Idle, Unmanaged
    <2>4. Proceeds(s, Send(s, item))
      BY <1>1, <2>3, RequestProceeds
    <2> QED BY <1>1, <2>1, <2>2, <2>4, StepCalm
  <1>2. {"response", "authSet", "header"} \subseteq Requests
    BY DEF Requests
  <1>3. ASSUME NEW req, Answered(req) PROVE Taking(req) \in ClientState
    BY <1>3, TakingClear DEF Clear
  <1>4. CASE RecvChallenge
    BY <1>1, <1>2, <1>3, <1>4 DEF RecvChallenge
  <1>5. CASE RecvAuthFields
    BY <1>1, <1>2, <1>3, <1>5 DEF RecvAuthFields
  <1>6. CASE RecvCompressed
    <2> DEFINE b == Taking("compress")
               s == [b EXCEPT !.compressionActive = TRUE]
    <2>1. Answered("compress") /\ b \in ClientState /\ Step(Send(s, "header"))
      BY <1>3, <1>6 DEF RecvCompressed
    <2>2. /\ s \in ClientState
          /\ s.conn = b.conn /\ s.log = b.log /\ s.link = b.link
          /\ s.owed = b.owed /\ s.tls = b.tls /\ s.errors = b.errors
          /\ s.resourceBound = b.resourceBound
          /\ s.encryptionActive = b.encryptionActive
          /\ s.smWanted = b.smWanted /\ s.smContext = b.smContext
      <3> HIDE DEF b
      <3> QED BY <2>1 DEF ClientState
    <2> HIDE DEF s
    <2> QED BY <1>1, <1>2, <2>1, <2>2
  <1>7. CASE RecvSuccess
    <2> DEFINE b == Taking(LastOfSASL)
               s == [b EXCEPT !.authed = TRUE]
    <2>1. /\ Answered(LastOfSASL) /\ b \in ClientState
          /\ Step(Send(s, "header"))
          /\ LastOfSASL \notin {"session", "roster"}
      BY <1>3, <1>7 DEF RecvSuccess, LastOfSASL
    <2>2. /\ s \in ClientState
          /\ s.conn = b.conn /\ s.log = b.log /\ s.link = b.link
          /\ s.owed = b.owed /\ s.tls = b.tls /\ s.errors = b.errors
          /\ s.resourceBound = b.resourceBound
          /\ s.encryptionActive = b.encryptionActive
          /\ s.smWanted = b.smWanted /\ s.smContext = b.smContext
      <3> HIDE DEF b
      <3> QED BY <2>1 DEF ClientState
    <2> HIDE DEF s
    <2> QED BY <1>1, <1>2, <2>1, <2>2
  <1> QED BY <1>4, <1>5, <1>6, <1>7

\* <features/>
LEMMA OfferStep ==
  ASSUME IInv, CalmNow, RecvFeatures
  PROVE  CalmNow' /\ Heard
PROOF
  <1>1. Answered("header")
    BY DEF RecvFeatures
  <1>2. PICK F \in Offers :
          /\ MayOffer(F)
          /\ Step(HandleFeatures([Taking("header") EXCEPT
                                    !.streamFeatures = StreamFeatures(F)]))
    BY DEF RecvFeatures
  <1> DEFINE b == Taking("header")
             s == [b EXCEPT !.streamFeatures = StreamFeatures(F)]
  <1>3. StreamFeatures(F) \subseteq Feature
    BY ConstantsAssumption DEF StreamFeatures, Feature
  <1>4. /\ Clear(b) /\ b.conn = c.conn /\ b.log = c.log /\ b.link = c.link
        /\ b.authed = c.authed /\ ~b.resourceBound
    BY <1>1, TakingClear
  <1> HIDE DEF b
  <1>5. /\ Clear(s) /\ s.conn = c.conn /\ s.log = c.log /\ s.link = c.link
        /\ s.authed = c.authed /\ ~s.resourceBound
        /\ s.streamFeatures = StreamFeatures(F)
    BY <1>3, <1>4 DEF Clear, Idle, Unmanaged, ClientState
  <1> HIDE DEF s
  <1>6. s.authed => "bind" \in s.streamFeatures
    BY <1>2, <1>5 DEF MayOffer, StreamFeatures
  <1>7. Proceeds(s, HandleFeatures(s))
    BY <1>5, <1>6, FeaturesProceed
  <1>8. Step(HandleFeatures(s))
    BY <1>2 DEF s, b
  <1> QED BY <1>5, <1>7, <1>8, StepCalm

\* TLS is started, and the stream over again inside it.
LEMMA HandshakeStep ==
  ASSUME IInv, CalmNow, RecvProceed \/ HandshakeDone \/ HandshakeFailed
  PROVE  CalmNow' /\ Heard
PROOF
  <1> DEFINE d == Begin(c)
  <1>1. c \in ClientState /\ Good(c)
    BY DEF IInv, Good, Sound
  <1>2. /\ d \in ClientState /\ d.conn = c.conn /\ d.log = c.log
        /\ d.link = c.link /\ d.owed = c.owed /\ d.tls = c.tls
        /\ d.errors = c.errors /\ d.resourceBound = c.resourceBound
        /\ d.encryptionActive = c.encryptionActive
        /\ d.smWanted = c.smWanted /\ d.smContext = c.smContext
    BY <1>1 DEF Begin, ClientState
  <1>3. CASE RecvProceed
    <2> DEFINE b == Taking("starttls")
               s == [b EXCEPT !.encryptionActive = TRUE, !.tls = "handshaking"]
    <2>1. /\ Clear(b) /\ b.conn = c.conn /\ b.log = c.log /\ b.link = c.link
          /\ ~b.resourceBound
      BY <1>3, TakingClear DEF RecvProceed
    <2> HIDE DEF b
    <2>2. /\ s.conn = b.conn /\ s.log = b.log /\ s.link = b.link
          /\ s.owed = b.owed /\ s.tls = "handshaking" /\ s.errors = b.errors
          /\ s.resourceBound = b.resourceBound
          /\ s.smWanted = b.smWanted /\ s.smContext = b.smContext
      BY <2>1 DEF Clear, ClientState
    <2>3. Step(s)
      BY <1>3 DEF RecvProceed, b
    <2> HIDE DEF s
    <2>4. Calm(s)
      BY <2>1, <2>2 DEF Clear, Idle, Calm, OneThing, Awaits, Unmanaged
    <2>5. Proceeds(s, s)
      BY <2>4 DEF Proceeds, Hears
    <2> QED BY <2>1, <2>2, <2>3, <2>5, StepCalm
  <1>4. CASE HandshakeDone
    <2> DEFINE s == [d EXCEPT !.tls = "secure"]
    <2>1. /\ c.conn = "Connected" /\ c.tls = "handshaking"
          /\ Step(Send(s, "header"))
      BY <1>4 DEF HandshakeDone
    <2>2. /\ c.owed = {} /\ c.log = <<>> /\ ~c.resourceBound
          /\ "onResourceBindError" \notin c.errors
      BY <2>1 DEF CalmNow, Calm, OneThing, Idle
    <2> HIDE DEF d
    <2>3. /\ s \in ClientState
          /\ s.conn = d.conn /\ s.log = d.log /\ s.link = d.link
          /\ s.owed = d.owed /\ s.tls = "secure" /\ s.errors = d.errors
          /\ s.resourceBound = d.resourceBound
          /\ s.smWanted = d.smWanted /\ s.smContext = d.smContext
      BY <1>2 DEF ClientState
    <2> HIDE DEF s
    <2>4. Clear(s) /\ ~s.resourceBound
      BY <1>2, <2>1, <2>2, <2>3 DEF Clear, Idle, Unmanaged, CalmNow, Calm
    <2>5. Proceeds(s, Send(s, "header"))
      BY <2>4, RequestProceeds DEF Requests
    <2> QED BY <1>2, <2>1, <2>3, <2>5, StepCalm
  <1>5. CASE HandshakeFailed
    <2>1. PICK done \in {"handshaking", "secure"} :
            Step(Disconnect([d EXCEPT !.tls = done], "ConnTlsFailed"))
      BY <1>5 DEF HandshakeFailed
    <2> DEFINE s == [d EXCEPT !.tls = done]
    <2> HIDE DEF d
    <2>2. /\ s \in ClientState
          /\ s.conn = d.conn /\ s.log = d.log /\ s.link = d.link
          /\ s.owed = d.owed
          /\ s.smWanted = d.smWanted /\ s.smContext = d.smContext
      BY <1>2 DEF ClientState
    <2> HIDE DEF s
    <2>3. Unmanaged(s)
      BY <1>2, <2>2 DEF Unmanaged, CalmNow, Calm
    <2>4. Proceeds(s, Disconnect(s, "ConnTlsFailed"))
      BY <2>2, <2>3, DisconnectProceeds
    <2> QED BY <1>2, <2>1, <2>2, <2>4, StepCalm DEF s
  <1> QED BY <1>3, <1>4, <1>5

\* The answers that end the connection.
LEMMA RefusalCalm ==
  ASSUME IInv, CalmNow,
         RecvBadStreamVersion \/ RecvFailure \/ RecvBadSuccess \/ RecvAuthError
  PROVE  CalmNow' /\ Heard
PROOF
  <1>1. ASSUME NEW req, Answered(req), NEW reason,
               Step(Disconnect(Taking(req), reason))
        PROVE  CalmNow' /\ Heard
    <2> DEFINE b == Taking(req)
    <2>1. Clear(b) /\ b.conn = c.conn /\ b.log = c.log /\ b.link = c.link
      BY <1>1, TakingClear
    <2>2. Step(Disconnect(b, reason))
      BY <1>1
    <2> HIDE DEF b
    <2>3. Proceeds(b, Disconnect(b, reason))
      BY <2>1, DisconnectProceeds DEF Clear
    <2> QED BY <2>1, <2>2, <2>3, StepCalm
  <1>2. CASE RecvBadStreamVersion
    BY <1>1, <1>2 DEF RecvBadStreamVersion
  <1>3. CASE RecvFailure
    BY <1>1, <1>3 DEF RecvFailure
  <1>4. CASE RecvBadSuccess
    BY <1>1, <1>4 DEF RecvBadSuccess
  <1>5. CASE RecvAuthError
    BY <1>1, <1>5 DEF RecvAuthError
  <1> QED BY <1>2, <1>3, <1>4, <1>5

\* Resource, session and roster, up to onConnect().
LEMMA BoundStep ==
  ASSUME IInv, CalmNow, Plain,
         \/ RecvBound \/ RecvBindError \/ RecvSession \/ RecvSessionError
         \/ RecvRoster \/ RecvAuthSet \/ RecvEnabled \/ RecvResumed
         \/ RecvSMFailed
  PROVE  CalmNow' /\ Heard
PROOF
  <1>1. ASSUME NEW req, Answered(req)
        PROVE  LET b == Taking(req)
               IN /\ Clear(b) /\ b.conn = c.conn /\ b.log = c.log
                  /\ b.link = c.link /\ req \notin {"enable", "resume"}
                  /\ b.resourceBound => req \in {"session", "roster"}
    BY <1>1, TakingClear
  <1>2. ~RecvEnabled /\ ~RecvResumed /\ ~RecvSMFailed
    BY <1>1 DEF RecvEnabled, RecvResumed, RecvSMFailed
  <1>3. CASE RecvBound
    <2> DEFINE b == Taking("bind")
               s == [b EXCEPT !.resourceBound = TRUE]
    <2>1. Clear(b) /\ b.conn = c.conn /\ b.log = c.log /\ b.link = c.link
      BY <1>1, <1>3 DEF RecvBound
    <2>2. Step(IF "sm" \in s.streamFeatures /\ s.smWanted
               THEN SendStreamManagement(s) ELSE SessionOrConnected(s))
      <3>1. PICK quits \in {FALSE, "onResourceBind" \in Reentrant} :
              LET t == IF quits THEN UserDisconnect(s) ELSE s
              IN Step(IF "sm" \in t.streamFeatures /\ t.smWanted
                      THEN SendStreamManagement(t) ELSE SessionOrConnected(t))
        BY <1>3 DEF RecvBound
      <3>2. ~quits
        BY DEF Plain
      <3> HIDE DEF s
      <3> QED BY <3>1, <3>2
    <2> HIDE DEF b
    <2>3. Clear(s) /\ s.conn = b.conn /\ s.log = b.log /\ s.link = b.link
      BY <2>1 DEF Clear, ClientState, Idle, Unmanaged
    <2> HIDE DEF s
    <2>4. Step(SessionOrConnected(s))
      BY <2>2, <2>3 DEF Clear, Unmanaged
    <2>5. Proceeds(s, Send(s, "session"))
      BY <2>3, RequestProceeds DEF Requests
    <2>6. Proceeds(s, SessionOrConnected(s))
      BY <2>3, <2>5, ConnectedProceeds DEF SessionOrConnected, CreateSession
    <2> QED BY <2>1, <2>3, <2>4, <2>6, StepCalm
  <1>4. CASE RecvBindError
    <2> DEFINE b == Taking("bind")
               s == [b EXCEPT !.errors = @ \cup {"onResourceBindError"}]
    <2>1. /\ Clear(b) /\ b.conn = c.conn /\ b.log = c.log /\ b.link = c.link
          /\ ~b.resourceBound /\ Step(s)
      BY <1>1, <1>4 DEF RecvBindError
    <2> HIDE DEF b
    <2>2. /\ s.conn = b.conn /\ s.log = b.log /\ s.link = b.link
          /\ s.owed = b.owed /\ s.tls = b.tls /\ s.errors # {}
          /\ s.resourceBound = b.resourceBound
          /\ s.smWanted = b.smWanted /\ s.smContext = b.smContext
      BY <2>1 DEF Clear, ClientState
    <2> HIDE DEF s
    <2>3. Proceeds(s, s)
      BY <2>1, <2>2 DEF Clear, Idle, Calm, OneThing, Awaits, Unmanaged,
                        Proceeds, Hears
    <2> QED BY <2>1, <2>2, <2>3, StepCalm
  <1>5. CASE RecvSessionError
    <2> DEFINE b == Taking("session")
               s == [b EXCEPT !.errors = @ \cup {"onSessionCreateError"}]
    <2>1. /\ Clear(b) /\ b.conn = c.conn /\ b.log = c.log /\ b.link = c.link
          /\ Step(s)
      BY <1>1, <1>5 DEF RecvSessionError
    <2> HIDE DEF b
    <2>2. /\ s.conn = b.conn /\ s.log = b.log /\ s.link = b.link
          /\ s.owed = b.owed /\ s.tls = b.tls
          /\ s.errors = b.errors \cup {"onSessionCreateError"}
          /\ s.resourceBound = b.resourceBound
          /\ s.smWanted = b.smWanted /\ s.smContext = b.smContext
      BY <2>1 DEF Clear, ClientState
    <2> HIDE DEF s
    <2>3. Proceeds(s, s)
      BY <2>1, <2>2 DEF Clear, Idle, Calm, OneThing, Awaits, Unmanaged,
                        Proceeds, Hears
    <2> QED BY <2>1, <2>2, <2>3, StepCalm
  <1>6. CASE RecvSession
    <2> DEFINE b == Taking("session")
    <2>1. /\ Clear(b) /\ b.conn = c.conn /\ b.log = c.log /\ b.link = c.link
          /\ Step(ConnectedOp(b))
      BY <1>1, <1>6 DEF RecvSession
    <2> HIDE DEF b
    <2> QED BY <2>1, ConnectedProceeds, StepCalm
  <1>7. CASE RecvRoster
    <2> DEFINE b == Taking("roster")
    <2>1. /\ Clear(b) /\ b.conn = c.conn /\ b.log = c.log /\ b.link = c.link
          /\ Step(RosterFilled(b))
      BY <1>1, <1>7 DEF RecvRoster
    <2> HIDE DEF b
    <2> QED BY <2>1, RosterProceeds, StepCalm
  <1>8. CASE RecvAuthSet
    <2> DEFINE b == Taking("authSet")
               s == [b EXCEPT !.authed = TRUE]
    <2>1. /\ Clear(b) /\ b.conn = c.conn /\ b.log = c.log /\ b.link = c.link
          /\ Step(ConnectedOp(s))
      BY <1>1, <1>8 DEF RecvAuthSet
    <2> HIDE DEF b
    <2>2. Clear(s) /\ s.conn = b.conn /\ s.log = b.log /\ s.link = b.link
      BY <2>1 DEF Clear, ClientState, Idle, Unmanaged
    <2> HIDE DEF s
    <2> QED BY <2>1, <2>2, ConnectedProceeds, StepCalm
  <1> QED BY <1>2, <1>3, <1>4, <1>5, <1>6, <1>7, <1>8

\* The connection is opened, or cannot be.
LEMMA OpeningCalm ==
  ASSUME IInv, CalmNow, Connect \/ HandleConnect \/ ConnectFailed
  PROVE  CalmNow' /\ Heard
PROOF
  <1> DEFINE b == Begin(c)
  <1>1. Good(c) /\ c \in ClientState /\ Unmanaged(c)
    BY DEF IInv, Good, Sound, CalmNow, Calm
  <1>2. /\ b \in ClientState /\ b.conn = c.conn /\ b.log = c.log
        /\ b.link = c.link /\ b.owed = c.owed /\ b.tls = c.tls
        /\ b.errors = c.errors /\ b.resourceBound = c.resourceBound
        /\ b.encryptionActive = c.encryptionActive
        /\ b.smWanted = c.smWanted /\ b.smContext = c.smContext
    BY <1>1 DEF Begin, ClientState
  <1>3. CASE Connect
    <2> DEFINE s == [b EXCEPT !.conn = "Connecting", !.log = <<>>,
                              !.errors = {}]
    <2>1. c' = s
      BY <1>3 DEF Connect, Step
    <2> HIDE DEF b
    <2>2. /\ s.conn = "Connecting" /\ s.owed = c.owed
          /\ s.smWanted = c.smWanted /\ s.smContext = c.smContext
      BY <1>2 DEF ClientState
    <2> HIDE DEF s
    <2>3. Calm(s)
      BY <1>1, <2>2 DEF Calm, OneThing, Awaits, Unmanaged
    <2> QED BY <1>3, <2>1, <2>3 DEF CalmNow, Heard, Calm, OneThing, Awaits,
                                    Unmanaged, Idle
  <1>4. CASE HandleConnect
    <2> DEFINE s == [b EXCEPT !.conn = "Connected"]
    <2>1. c.conn = "Connecting" /\ Step(Send(s, "header"))
      BY <1>4 DEF HandleConnect
    <2>2. /\ c.log = <<>> /\ c.errors = {} /\ Blank(c)
      BY <1>1, <2>1 DEF Good, Sound
    <2> HIDE DEF b
    <2>3. /\ s \in ClientState /\ s.conn = "Connected" /\ s.log = c.log
          /\ s.link = c.link /\ s.owed = c.owed /\ s.tls = c.tls
          /\ s.errors = c.errors /\ s.resourceBound = c.resourceBound
          /\ s.encryptionActive = c.encryptionActive
          /\ s.smWanted = c.smWanted /\ s.smContext = c.smContext
      BY <1>2 DEF ClientState
    <2> HIDE DEF s
    <2>4. Clear(s) /\ ~s.resourceBound
      BY <1>1, <2>2, <2>3 DEF Clear, Idle, Unmanaged, Blank
    <2>5. Proceeds(s, Send(s, "header"))
      BY <2>4, RequestProceeds DEF Requests
    <2>6. c' = Send(s, "header")
      BY <2>1 DEF Step
    <2>7. Hears(c, c')
      BY <2>1, <2>3, <2>5, <2>6 DEF Proceeds, Hears
    <2> QED BY <2>5, <2>6, <2>7 DEF Proceeds, CalmNow, Heard, Calm, OneThing,
                                    Awaits, Unmanaged, Idle
  <1>5. CASE ConnectFailed
    <2>1. c.conn = "Connecting" /\ Step(Teardown(b))
      BY <1>5 DEF ConnectFailed, HandleDisconnect
    <2> HIDE DEF b
    <2>2. Unmanaged(b)
      BY <1>1, <1>2 DEF Unmanaged
    <2>3. Proceeds(b, Teardown(b))
      BY <1>2, <2>1, <2>2, TeardownProceeds DEF Proceeds, Hears
    <2> QED BY <1>2, <2>1, <2>3, StepCalm
  <1> QED BY <1>3, <1>4, <1>5

\* The connection ends, whoever ends it, or is about to.
LEMMA EndCalm ==
  ASSUME IInv, CalmNow, Plain,
         \/ ServerCloses \/ LinkBreaks \/ ConnectionLost \/ ChunkEnds
         \/ RecvDeclaration \/ StreamSwallowed \/ ParseError
         \/ AppDisconnects \/ HandlerDisconnects
  PROVE  CalmNow' /\ Heard
PROOF
  <1> DEFINE b == Begin(c)
  <1>1. Good(c) /\ c \in ClientState /\ Unmanaged(c) /\ Calm(c)
    BY DEF IInv, Good, Sound, CalmNow, Calm
  <1>2. /\ b \in ClientState /\ b.conn = c.conn /\ b.log = c.log
        /\ b.link = c.link /\ b.owed = c.owed /\ b.tls = c.tls
        /\ b.errors = c.errors /\ b.resourceBound = c.resourceBound
        /\ b.smWanted = c.smWanted /\ b.smContext = c.smContext
    BY <1>1 DEF Begin, ClientState
  <1>3. ASSUME NEW cut \in Cuts
        PROVE  LET s == [b EXCEPT !.parser = cut]
               IN /\ s \in ClientState /\ s.conn = c.conn /\ s.log = c.log
                  /\ s.link = c.link /\ Calm(s)
    <2> DEFINE s == [b EXCEPT !.parser = cut]
    <2> HIDE DEF b
    <2>1. /\ s \in ClientState /\ s.conn = c.conn /\ s.log = c.log
          /\ s.link = c.link /\ s.owed = c.owed /\ s.tls = c.tls
          /\ s.errors = c.errors /\ s.resourceBound = c.resourceBound
          /\ s.smWanted = c.smWanted /\ s.smContext = c.smContext
      BY <1>2, <1>3 DEF ClientState
    <2> HIDE DEF s
    <2>2. Calm(s)
      BY <1>1, <2>1 DEF Calm, OneThing, Idle, Awaits, Unmanaged
    <2> QED BY <2>1, <2>2 DEF s
  <1>4. Losses \subseteq Cuts /\ "between" \in Cuts
    BY ConstantsAssumption DEF Cuts
  <1>5. Unmanaged(b)
    BY <1>1, <1>2 DEF Unmanaged
  <1> HIDE DEF b
  <1>6. CASE ServerCloses
    <2>1. PICK reason : Step(Disconnect(b, reason))
      BY <1>6 DEF ServerCloses, b
    <2>2. Proceeds(b, Disconnect(b, reason))
      BY <1>2, <1>5, DisconnectProceeds
    <2> QED BY <1>2, <2>1, <2>2, StepCalm
  <1>7. CASE LinkBreaks
    <2> DEFINE s == [b EXCEPT !.link = "down"]
    <2>1. c' = s
      BY <1>7 DEF LinkBreaks, Step, b
    <2>2. /\ s.conn = c.conn /\ s.log = c.log /\ s.owed = c.owed
          /\ s.tls = c.tls
          /\ s.errors = c.errors /\ s.resourceBound = c.resourceBound
          /\ s.smWanted = c.smWanted /\ s.smContext = c.smContext
      BY <1>2 DEF ClientState
    <2> HIDE DEF s
    <2> QED BY <1>1, <1>7, <2>1, <2>2 DEF CalmNow, Heard, Calm, OneThing,
                                          Idle, Awaits, Unmanaged
  <1>8. CASE ConnectionLost
    <2>1. PICK cut \in Losses : Step(Teardown([b EXCEPT !.parser = cut]))
      BY <1>8 DEF ConnectionLost, HandleDisconnect, b
    <2> DEFINE s == [b EXCEPT !.parser = cut]
    <2>2. /\ s \in ClientState /\ s.conn = c.conn /\ s.log = c.log
          /\ s.link = c.link /\ Unmanaged(s) /\ c.conn = "Connected"
      BY <1>3, <1>4, <1>8 DEF Calm, ConnectionLost
    <2> HIDE DEF s
    <2>3. Proceeds(s, Teardown(s))
      BY <2>2, TeardownProceeds DEF Proceeds, Hears
    <2> QED BY <2>1, <2>2, <2>3, StepCalm DEF s
  <1>9. CASE RecvDeclaration
    <2> DEFINE s == [b EXCEPT !.parser = "between"]
    <2>1. /\ s \in ClientState /\ s.conn = c.conn /\ s.log = c.log
          /\ s.link = c.link /\ Calm(s)
      BY <1>3, <1>4
    <2>2. Step(s)
      BY <1>9 DEF RecvDeclaration, b
    <2> HIDE DEF s
    <2> QED BY <2>1, <2>2, StepCalm DEF Proceeds, Hears
  <1>10. CASE StreamSwallowed
    <2> DEFINE s == [b EXCEPT !.owed = @ \ {"header"}]
    <2>1. c' = s /\ ~ServerDeclares
      BY <1>10 DEF StreamSwallowed, Step, b
    <2>2. /\ s.conn = c.conn /\ s.log = c.log /\ s.owed = c.owed \ {"header"}
          /\ s.tls = c.tls /\ s.link = c.link
          /\ s.errors = c.errors /\ s.resourceBound = c.resourceBound
          /\ s.smWanted = c.smWanted /\ s.smContext = c.smContext
      BY <1>2 DEF ClientState
    <2> HIDE DEF s
    <2>3. Calm(s)
      BY <1>1, <2>1, <2>2 DEF Calm, OneThing, Idle, Awaits, Unmanaged
    <2>4. Hears(c, s)
      BY <2>2 DEF Hears
    <2> QED BY <2>1, <2>3, <2>4 DEF CalmNow, Heard, Calm, OneThing,
                                    Idle, Awaits, Unmanaged
  <1>11. CASE ParseError
    <2> DEFINE s == [b EXCEPT !.parser = "between"]
               u == Send(s, "stream:error")
    <2>1. /\ s \in ClientState /\ s.conn = c.conn /\ s.log = c.log
          /\ s.link = c.link /\ Unmanaged(s)
      BY <1>3, <1>4 DEF Calm
    <2>2. Step(Disconnect(u, "ConnParseError"))
      BY <1>11 DEF ParseError, b
    <2> HIDE DEF s
    <2>3. "stream:error" \in Items \ Requests
      BY DEF Items, Requests
    <2>4. /\ u \in ClientState /\ Unmanaged(u)
          /\ \/ u.conn = "Disconnected" /\ s.link # "up"
             \/ u.conn = s.conn /\ u.log = s.log /\ u.link = s.link
      BY <2>1, <2>3, RemarkProceeds
    <2> HIDE DEF u
    <2>5. Proceeds(u, Disconnect(u, "ConnParseError"))
      BY <2>4, DisconnectProceeds
    <2>6. Proceeds(s, Disconnect(u, "ConnParseError"))
      BY <2>4, <2>5 DEF Proceeds, Hears
    <2> QED BY <2>1, <2>2, <2>6, StepCalm
  <1>12. CASE AppDisconnects
    <2>1. ASSUME NEW s \in ClientState, Unmanaged(s), s.conn = c.conn,
                 s.log = c.log, s.link = c.link, Step(UserDisconnect(s))
          PROVE  CalmNow' /\ Heard
      <3> DEFINE t == [s EXCEPT !.smContext = "Invalid", !.smId = FALSE,
                                !.smWanted = FALSE]
      <3>1. /\ t \in ClientState /\ Unmanaged(t) /\ t.conn = c.conn
            /\ t.log = c.log /\ t.link = c.link
        BY <2>1 DEF ClientState, Unmanaged, SMContext
      <3>2. Step(Disconnect(t, "ConnUserDisconnected"))
        BY <2>1 DEF UserDisconnect
      <3> HIDE DEF t
      <3>3. Proceeds(t, Disconnect(t, "ConnUserDisconnected"))
        BY <3>1, DisconnectProceeds
      <3> QED BY <3>1, <3>2, <3>3, StepCalm
    <2>2. PICK cut \in Losses :
            Step(UserDisconnect(IF c.conn = "Connected"
                                THEN [b EXCEPT !.parser = cut] ELSE b))
      BY <1>12 DEF AppDisconnects, b
    <2> DEFINE s == [b EXCEPT !.parser = cut]
    <2>3. /\ s \in ClientState /\ s.conn = c.conn /\ s.log = c.log
          /\ s.link = c.link /\ Unmanaged(s)
      BY <1>3, <1>4 DEF Calm
    <2> HIDE DEF s
    <2>4. CASE c.conn = "Connected"
      BY <2>1, <2>2, <2>3, <2>4 DEF s
    <2>5. CASE c.conn # "Connected"
      BY <1>2, <1>5, <2>1, <2>2, <2>5
    <2> QED BY <2>4, <2>5
  <1>13. CASE ChunkEnds \/ HandlerDisconnects
    BY <1>1, <1>13 DEF ChunkEnds, HandlerDisconnects, Good, Sound, Plain
  <1> QED BY <1>6, <1>7, <1>8, <1>9, <1>10, <1>11, <1>12, <1>13

\* What the application may do meanwhile: give stream management up, or try
\* another resource.
LEMMA SwitchCalm ==
  ASSUME IInv, CalmNow, Plain, SetStreamManagement \/ BindAgain
  PROVE  CalmNow' /\ Heard
PROOF
  <1> DEFINE b == Begin(c)
  <1>1. Good(c) /\ c \in ClientState /\ Unmanaged(c) /\ Calm(c)
    BY DEF IInv, Good, Sound, CalmNow, Calm
  <1>2. /\ b \in ClientState /\ b.conn = c.conn /\ b.log = c.log
        /\ b.link = c.link /\ b.owed = c.owed /\ b.tls = c.tls
        /\ b.errors = c.errors /\ b.resourceBound = c.resourceBound
        /\ b.encryptionActive = c.encryptionActive
        /\ b.smWanted = c.smWanted /\ b.smContext = c.smContext
    BY <1>1 DEF Begin, ClientState
  <1>3. CASE SetStreamManagement
    <2> DEFINE a == [b EXCEPT !.smWanted = FALSE]
               s == [a EXCEPT !.smId = FALSE]
    <2>1. Step(s)
      <3>1. PICK enable \in SMSwitch :
              LET t == [b EXCEPT !.smWanted = enable]
              IN Step(IF ~enable THEN [t EXCEPT !.smId = FALSE]
                      ELSE IF t.resourceBound THEN SendStreamManagement(t)
                      ELSE t)
        BY <1>3 DEF SetStreamManagement
      <3>2. enable = FALSE
        BY ConstantsAssumption DEF Plain
      <3> HIDE DEF b
      <3> QED BY <3>1, <3>2
    <2> HIDE DEF b
    <2>2. /\ s.conn = c.conn /\ s.log = c.log /\ s.link = c.link
          /\ s.owed = c.owed /\ s.tls = c.tls
          /\ s.errors = c.errors /\ s.resourceBound = c.resourceBound
          /\ ~s.smWanted /\ s.smContext = c.smContext
      BY <1>2 DEF ClientState
    <2> HIDE DEF s
    <2>3. Calm(s)
      BY <1>1, <2>2 DEF Calm, OneThing, Idle, Awaits, Unmanaged
    <2>4. Proceeds(s, s)
      BY <2>3 DEF Proceeds, Hears
    <2> QED BY <2>1, <2>2, <2>4, StepCalm
  <1>4. CASE BindAgain
    <2> DEFINE s == [b EXCEPT !.errors = {}]
    <2>1. /\ c.conn = "Connected" /\ "onResourceBindError" \in c.errors
          /\ Step(BindResource(s))
      BY <1>4 DEF BindAgain
    <2>2. /\ c.owed = {} /\ c.tls # "handshaking" /\ c.log = <<>>
          /\ ~c.resourceBound
      BY <1>1, <2>1 DEF Calm, OneThing, Idle
    <2>3. c.encryptionActive => c.tls = "secure"
      <3>1. c.tls \in {"none", "handshaking", "secure"}
        BY <1>1 DEF ClientState
      <3> QED BY <1>1, <2>1, <2>2, <3>1 DEF Good
    <2> HIDE DEF b
    <2>4. /\ s \in ClientState /\ s.conn = c.conn /\ s.log = c.log
          /\ s.link = c.link /\ s.owed = c.owed /\ s.tls = c.tls
          /\ s.errors = {} /\ s.resourceBound = c.resourceBound
          /\ s.encryptionActive = c.encryptionActive
          /\ s.smWanted = c.smWanted /\ s.smContext = c.smContext
      BY <1>2 DEF ClientState
    <2> HIDE DEF s
    <2>5. Clear(s) /\ ~s.resourceBound
      BY <1>1, <2>1, <2>2, <2>3, <2>4 DEF Clear, Idle, Unmanaged
    <2>6. Proceeds(s, Send(s, "bind"))
      BY <2>5, RequestProceeds DEF Requests
    <2> QED BY <2>1, <2>4, <2>5, <2>6, StepCalm DEF BindResource
  <1> QED BY <1>3, <1>4

\* Every step preserves the second invariant, and is heard as it should be.
LEMMA NextCalm ==
  ASSUME Plain, IInv, CalmNow, Next
  PROVE  CalmNow' /\ Heard
PROOF
  <1>1. CASE Answers
    BY <1>1, AnswerStep, OfferStep, HandshakeStep, RefusalCalm, BoundStep,
       EndCalm
       DEF Answers
  <1>2. CASE Application
    BY <1>2, OpeningCalm, EndCalm, SwitchCalm DEF Application
  <1>3. CASE Transport
    BY <1>3, OpeningCalm, EndCalm DEF Transport
  <1> QED BY <1>1, <1>2, <1>3 DEF Next

\* The two invariants together.
LEMMA CalmTheorem ==
  ASSUME Plain
  PROVE  Spec => [](IInv /\ CalmNow)
PROOF
  <1>1. Init => IInv /\ CalmNow
    BY InitGood DEF Init, CalmNow, Calm, OneThing, Idle, Awaits, Unmanaged
  <1>2. IInv /\ CalmNow /\ [Next]_vars => (IInv /\ CalmNow)'
    <2> SUFFICES ASSUME IInv, CalmNow, [Next]_vars
                 PROVE  IInv' /\ CalmNow'
      OBVIOUS
    <2>1. IInv'
      BY NextGood DEF Plain
    <2>2. CASE Next
      BY <2>1, <2>2, NextCalm
    <2>3. CASE UNCHANGED vars
      BY <2>1, <2>3 DEF vars, CalmNow, Calm, OneThing, Idle, Awaits, Unmanaged
    <2> QED BY <2>1, <2>2, <2>3
  <1> QED BY <1>1, <1>2, PTL DEF Spec

\* A negotiation never comes to a stop in which the client waits for nothing
\* and the application has been told nothing, whatever the server announces:
\* every branch of Client::handleNormalNode() asks, announces or disconnects.
\* Stream management may stop it (see the run enable_refused), and so may the
\* rest of an old stream when the server sends no XML declaration.
THEOREM StallTheorem ==
  ASSUME Plain, ServerDeclares
  PROVE  Spec => []NeverStalls
PROOF
  <1>1. CalmNow => NeverStalls
    BY DEF CalmNow, Calm, Awaits, NeverStalls, Announced
  <1> QED BY <1>1, CalmTheorem, PTL

\* On links whose end is noticed, what the application hears is what it may
\* assume: onConnect() at most once for each connection it opens, then exactly
\* one onDisconnect(), and nothing after the end.  Every step of the client is
\* a step of ConnectionListener or none.
THEOREM ListenerTheorem ==
  ASSUME Plain, ~SilentDeath
  PROVE  Spec => ListenerContract
PROOF
  <1> DEFINE Up == c.link = "up"
  <1>1. Init => Up /\ Listener!Init
    BY DEF Init, Listener!Init
  <1>2. IInv /\ CalmNow /\ Up /\ [Next]_vars
          => Up' /\ [Listener!Next]_(Listener!vars)
    <2> SUFFICES ASSUME IInv, CalmNow, Up, [Next]_vars
                 PROVE  Up' /\ [Listener!Next]_(Listener!vars)
      OBVIOUS
    <2>1. CASE UNCHANGED vars
      BY <2>1 DEF vars, Listener!vars
    <2>2. CASE Connect
      <3>1. c \in ClientState
        BY DEF IInv, Good, Sound
      <3>2. /\ c.conn = "Disconnected" /\ c'.conn = "Connecting"
            /\ c'.log = <<>> /\ c'.link = c.link
        BY <2>2, <3>1 DEF Connect, Step, Begin, ClientState
      <3>3. Listener!Open
        BY <3>2 DEF Listener!Open
      <3> QED BY <3>2, <3>3 DEF Listener!Next
    <2>3. CASE Hears(c, c')
      <3>1. c.log \in Seq({"onConnect", "onDisconnect"})
        BY DEF IInv, Good, Sound, ClientState
      <3>2. /\ Append(c.log, "onConnect") # <<>>
            /\ Append(c.log, "onDisconnect") # <<>>
        BY <3>1
      <3>3. CASE /\ (c'.conn = "Disconnected") <=> (c.conn = "Disconnected")
                 /\ c'.log = c.log
        BY <2>3, <3>3 DEF Hears, Listener!vars
      <3>4. CASE /\ c.conn # "Disconnected" /\ c.log = <<>>
                 /\ c'.conn # "Disconnected"
                 /\ c'.log = Append(c.log, "onConnect")
        <4>1. Listener!Announce
          BY <3>2, <3>4 DEF Listener!Announce
        <4> QED BY <2>3, <4>1 DEF Hears, Listener!Next
      <3>5. CASE /\ c.conn # "Disconnected" /\ c'.conn = "Disconnected"
                 /\ c'.log = Append(c.log, "onDisconnect")
        <4>1. Listener!End
          BY <3>5 DEF Listener!End
        <4> QED BY <2>3, <4>1 DEF Hears, Listener!Next
      <3> QED BY <2>3, <3>3, <3>4, <3>5 DEF Hears
    <2>4. CASE Next /\ ~Connect
      <3>1. ~LinkBreaks
        BY DEF LinkBreaks
      <3> QED BY <2>3, <2>4, <3>1, NextCalm DEF Heard
    <2> QED BY <2>1, <2>2, <2>4
  <1>3. IInv /\ CalmNow /\ [Next]_vars => (IInv /\ CalmNow)'
    BY NextGood, NextCalm DEF Plain, vars, CalmNow, Calm, OneThing, Idle,
                              Awaits, Unmanaged
  <1> QED BY <1>1, <1>2, <1>3, CalmTheorem, PTL
          DEF Spec, ListenerContract, Listener!Spec

=============================================================================
