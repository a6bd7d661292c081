---------------------------- MODULE FileTransfer ----------------------------
(***************************************************************************)
(* A file offered, accepted and brought under way: Stream Initiation       *)
(* (src/simanager.cpp), its file transfer profile (src/siprofileft.cpp)    *)
(* and SOCKS5 bytestreams (src/socks5bytestreammanager.cpp,                *)
(* src/socks5bytestream.cpp, src/socks5bytestreamserver.cpp).  "sender"    *)
(* and "receiver" are two clients; the stream host is the sender's own     *)
(* SOCKS5BytestreamServer ("self") or a proxy service ("proxy").  IQs      *)
(* arrive in order; the in-band stream is module InBandBytestream's.       *)
(***************************************************************************)
EXTENDS Naturals, Sequences, FiniteSets, SequencesExt

CONSTANTS StreamHosts, \* the hosts the sender offers, in order
          Methods,     \* what the receiver may accept: "s5b", "ibb", "oob"
          Fails,       \* a host may be out of reach, or read a request in pieces
          MaxDrops     \* bound on the connections that break on their own

ASSUME FileTransferAssumption ==
    /\ StreamHosts \in {<<"self">>, <<"proxy">>, <<"self", "proxy">>}
    /\ Methods \subseteq {"s5b", "ibb", "oob"}
    /\ Fails \in BOOLEAN
    /\ MaxDrops \in Nat

VARIABLES offer,   \* the sender's m_track and the receiver's m_id2sid entry
          hosts,   \* the contexts of the sender's m_trackMap entries
          item,    \* each end's m_asyncTrackMap entry for the sid
          stream,  \* each end's SOCKS5Bytestream, with its link
          hosted,  \* what the hosts know: destination by link
          iqs,     \* the IQs under way to each party
          said,    \* what each application was told of its stream
          drops    \* links broken so far

ftVars == <<offer, hosts, item, stream, hosted, iqs, said, drops>>

Clients == {"sender", "receiver"}
Parties == Clients \cup {"proxy"}
Hosts == Range(StreamHosts)
Other(c) == CHOOSE d \in Clients : d # c

(* A destination is the hash of the sid with initiator and target; the sid  *)
(* is the one of this transfer, so the pair tells destinations apart.       *)
Destination(initiator, target) == <<initiator, target>>
NoDestination == <<>>

NoSiItem == [there |-> FALSE, incoming |-> FALSE]
NoStream == [made |-> FALSE, dest |-> NoDestination, host |-> "none",
             link |-> "none", open |-> FALSE]

FtTypeOK ==
    /\ offer \in [sender : {"none", "offered", "told"}, receiver : {"none", "asked", "answered"}]
    /\ hosts \subseteq {"open", "activate"}
    /\ \A c \in Clients : /\ stream[c].link \in {"none", "dialled", "failed", "up"}
                          /\ stream[c].host \in Hosts \cup {"none"}
                          /\ stream[c].open \in BOOLEAN
    /\ drops \in 0..MaxDrops

FtInit ==
    /\ offer = [sender |-> "none", receiver |-> "none"]
    /\ hosts = {}
    /\ item = [c \in Clients |-> NoSiItem]
    /\ stream = [c \in Clients |-> NoStream]
    /\ hosted = [h \in {"self", "proxy"} |-> [known |-> {}, links |-> {}]]
    /\ iqs = [p \in Parties |-> <<>>]
    /\ said = [c \in Clients |-> <<>>]
    /\ drops = 0

Post(queues, p, what) == [queues EXCEPT ![p] = Append(@, what)]
Take(queues, p) == [queues EXCEPT ![p] = Tail(@)]
Next1(p, what) == iqs[p] # <<>> /\ Head(iqs[p]) = what

-----------------------------------------------------------------------------
(* The offer.  SIProfileFT::requestFT, SIManager::requestSI.                *)
Offers ==
    /\ offer.sender = "none"
    /\ offer' = [offer EXCEPT !.sender = "offered"]
    /\ iqs' = Post(iqs, "receiver", "offer")
    /\ UNCHANGED <<hosts, item, stream, hosted, said, drops>>

(* SIManager::handleIq and SIProfileFT::handleSIRequest keep the id and ask *)
(* the application.                                                         *)
ReceivesOffer ==
    /\ Next1("receiver", "offer")
    /\ offer' = [offer EXCEPT !.receiver = "asked"]
    /\ iqs' = Take(iqs, "receiver")
    /\ UNCHANGED <<hosts, item, stream, hosted, said, drops>>

(* acceptFT, declineFT; an in-band stream is made on the spot.              *)
AnswersOffer(how) ==
    /\ offer.receiver = "asked"
    /\ offer' = [offer EXCEPT !.receiver = "answered"]
    /\ iqs' = Post(iqs, "sender", how)
    /\ said' = IF how = "ibb" THEN [said EXCEPT !["receiver"] = Append(@, "in-band")] ELSE said
    /\ UNCHANGED <<hosts, item, stream, hosted, drops>>

(* requestSOCKS5Bytestream: the destination is made known to the sender's   *)
(* own server before the hosts are offered.                                 *)
AsksToOpen(known) ==
    /\ hosts' = hosts \cup {"open"}
    /\ item' = [item EXCEPT !["sender"] = [there |-> TRUE, incoming |-> FALSE]]
    /\ hosted' = [hosted EXCEPT !["self"].known = @ \cup {known}]

(* handleIqID of SIManager, handleSIRequestResult and -Error of the profile.*)
HearsOffer(how) ==
    /\ Next1("sender", how)
    /\ offer.sender = "offered"
    /\ offer' = [offer EXCEPT !.sender = "told"]
    /\ CASE how = "s5b" -> /\ AsksToOpen(Destination("sender", "receiver"))
                           /\ iqs' = Post(Take(iqs, "sender"), "receiver", "hosts")
                           /\ UNCHANGED said
         [] how = "ibb" -> /\ iqs' = Take(iqs, "sender")
                           /\ said' = [said EXCEPT !["sender"] = Append(@, "in-band")]
                           /\ UNCHANGED <<hosts, item, hosted>>
         [] how = "oob" -> /\ iqs' = Post(Take(iqs, "sender"), "receiver", "url")
                           /\ UNCHANGED <<hosts, item, hosted, said>>
         [] how = "declined" -> /\ iqs' = Take(iqs, "sender")
                                /\ said' = [said EXCEPT !["sender"] = Append(@, "error")]
                                /\ UNCHANGED <<hosts, item, hosted>>
    /\ UNCHANGED <<stream, drops>>

(* An out-of-band URL is the receiver's OOB extension to handle.            *)
TakesUrl ==
    /\ Next1("receiver", "url")
    /\ iqs' = Take(iqs, "receiver")
    /\ UNCHANGED <<offer, hosts, item, stream, hosted, said, drops>>

-----------------------------------------------------------------------------
\* Slip: the receiver takes itself for the initiator.
SlipTakenFrom(c) == Destination(c, Other(c))

(* acceptSOCKS5Bytestream: initiator and target are who asked and who was   *)
(* asked.                                                                   *)
TakenFrom(c) == Destination(Other(c), c)

(* handleIq with the hosts; the profile accepts at once.                    *)
ReceivesHosts ==
    /\ Next1("receiver", "hosts")
    /\ item' = [item EXCEPT !["receiver"] = [there |-> TRUE, incoming |-> TRUE]]
    /\ stream' = [stream EXCEPT !["receiver"] =
                    [NoStream EXCEPT !.made = TRUE, !.dest = TakenFrom("receiver")]]
    /\ iqs' = Take(iqs, "receiver")
    /\ UNCHANGED <<offer, hosts, hosted, said, drops>>

(* SOCKS5Bytestream::connect, called once by each application: the first    *)
(* host that can be reached is dialled.                                     *)
Dials(c, host) ==
    /\ stream[c].made /\ stream[c].link = "none" /\ ~stream[c].open
    /\ "close" \notin Range(said[c])
    /\ c = "receiver" => host \in Hosts
    /\ c = "sender" => host = stream[c].host
    /\ stream' = [stream EXCEPT ![c].host = host, ![c].link = "dialled"]
    /\ UNCHANGED <<offer, hosts, item, hosted, iqs, said, drops>>

(* acknowledgeStreamHost: the receiver answers with the host it             *)
(* used, the sender asks the proxy to activate the stream.                  *)
Acknowledges(c) ==
    IF item[c].incoming
    THEN iqs' = Post(iqs, "sender", stream[c].host) /\ UNCHANGED hosts
    ELSE iqs' = Post(iqs, "proxy", "activate") /\ hosts' = hosts \cup {"activate"}

(* The host accepts the destination (the sender's server only a registered  *)
(* one), and handleConnect opens the stream.                                *)
Connects(c) ==
    LET h == stream[c].host
    IN  /\ stream[c].link = "dialled"
        /\ h = "self" => stream[c].dest \in hosted[h].known
        /\ hosted' = [hosted EXCEPT ![h].links = @ \cup {<<c, stream[c].dest>>}]
        /\ stream' = [stream EXCEPT ![c].link = "up", ![c].open = TRUE]
        /\ said' = [said EXCEPT ![c] = Append(@, "open")]
        /\ Acknowledges(c)
        /\ UNCHANGED <<offer, item, drops>>

(* No host is reached (acknowledgeStreamHost is then called without a sid   *)
(* and finds no item), or the host refuses the destination: the server      *)
(* knows only a request of 47 bytes in one piece.  handleDisconnect finds   *)
(* the stream not open; nobody is told and nothing is sent.                 *)
Refusable(c) == Fails \/ (stream[c].host = "self" /\ stream[c].dest \notin hosted["self"].known)

Refused(c) ==
    /\ stream[c].link = "dialled"
    /\ Refusable(c)
    /\ stream' = [stream EXCEPT ![c].link = "failed"]
    /\ UNCHANGED <<offer, hosts, item, hosted, iqs, said, drops>>

-----------------------------------------------------------------------------
(* The sender hears which host was used (handleIqID, S5BOpenStream): its own *)
(* server hands over the connection, through a proxy it makes one of its    *)
(* own.  A connection that is gone by then is handed over as none.          *)
HearsUsed(host) ==
    /\ Next1("sender", host)
    /\ "open" \in hosts
    /\ LET dest == Destination("sender", "receiver")
           linked == \E l \in hosted["self"].links : l[2] = dest
       IN  IF host = "self"
           THEN /\ stream' = [stream EXCEPT !["sender"] =
                     [made |-> TRUE, dest |-> dest, host |-> host,
                      link |-> IF linked THEN "up" ELSE "none", open |-> TRUE]]
                /\ said' = [said EXCEPT !["sender"] = Append(@, "open")]
           ELSE /\ stream' = [stream EXCEPT !["sender"] =
                     [NoStream EXCEPT !.made = TRUE, !.dest = dest, !.host = host]]
                /\ UNCHANGED said
    /\ hosts' = hosts \ {"open"}
    /\ iqs' = Take(iqs, "sender")
    /\ UNCHANGED <<offer, item, hosted, drops>>

(* The proxy service: it joins two links to one destination.                *)
ProxyActivates ==
    /\ Next1("proxy", "activate")
    /\ LET joined == \E l, k \in hosted["proxy"].links :
                        l[1] = "sender" /\ k[1] = "receiver" /\ l[2] = k[2]
       IN  iqs' = Post(Take(iqs, "proxy"), "sender", IF joined THEN "activated" ELSE "inactive")
    /\ UNCHANGED <<offer, hosts, item, stream, hosted, said, drops>>

(* handleIqID, S5BActivateStream: activate() tells the application that the *)
(* stream is open.                                                          *)
HearsActivated(how) ==
    /\ Next1("sender", how)
    /\ "activate" \in hosts
    /\ hosts' = hosts \ {"activate"}
    /\ iqs' = Take(iqs, "sender")
    /\ IF how = "activated" /\ stream["sender"].made
       THEN /\ stream' = [stream EXCEPT !["sender"].open = TRUE]
            /\ said' = [said EXCEPT !["sender"] = Append(@, "open")]
       ELSE /\ said' = IF how = "inactive" THEN [said EXCEPT !["sender"] = Append(@, "error")]
                       ELSE said
            /\ UNCHANGED stream
    /\ UNCHANGED <<offer, item, hosted, drops>>

-----------------------------------------------------------------------------
\* Slip: the end that loses its connection stays open.
SlipClosed(s) == [s EXCEPT !.link = "none"]

(* SOCKS5Bytestream::close, for its caller and for handleDisconnect.        *)
Closed(s) == [s EXCEPT !.link = "none", !.open = FALSE]

Told(c) == IF stream[c].open THEN [said EXCEPT ![c] = Append(@, "close")] ELSE said
Unlinked(c) == [h \in DOMAIN hosted |->
                  [hosted[h] EXCEPT !.links = {l \in @ : l[1] # c}]]

(* The application closes or disposes of a stream; dispose deletes it, and  *)
(* an open one closes as it goes.                                           *)
Closes(c, keeps) ==
    /\ stream[c].made /\ stream[c].open
    /\ stream' = [stream EXCEPT ![c] = IF keeps THEN Closed(@) ELSE [NoStream EXCEPT !.host = stream[c].host]]
    /\ said' = Told(c)
    /\ hosted' = Unlinked(c)
    /\ UNCHANGED <<offer, hosts, item, iqs, drops>>

(* The connection breaks.                                                   *)
Breaks(c) ==
    /\ drops < MaxDrops
    /\ stream[c].link = "up"
    /\ drops' = drops + 1
    /\ stream' = [stream EXCEPT ![c] = Closed(@)]
    /\ said' = Told(c)
    /\ hosted' = Unlinked(c)
    /\ UNCHANGED <<offer, hosts, item, iqs>>

(* What one end of a joined pair loses, the other notices: handleDisconnect.*)
Notices(c) ==
    /\ stream[c].open /\ stream[c].link = "up"
    /\ "close" \in Range(said[Other(c)]) /\ ~stream[Other(c)].open
    /\ stream' = [stream EXCEPT ![c] = Closed(@)]
    /\ said' = Told(c)
    /\ hosted' = Unlinked(c)
    /\ UNCHANGED <<offer, hosts, item, iqs, drops>>

FtNext ==
    \/ Offers \/ ReceivesOffer \/ TakesUrl \/ ReceivesHosts
    \/ ProxyActivates
    \/ \E host \in Hosts : HearsUsed(host)
    \/ \E how \in Methods \cup {"declined"} : AnswersOffer(how) \/ HearsOffer(how)
    \/ \E how \in {"activated", "inactive"} : HearsActivated(how)
    \/ \E c \in Clients : \/ \E h \in {"self", "proxy"} : Dials(c, h)
                          \/ Connects(c) \/ Refused(c)
                          \/ \E keeps \in BOOLEAN : Closes(c, keeps)
                          \/ Breaks(c) \/ Notices(c)

FtSpec == FtInit /\ [][FtNext]_ftVars

-----------------------------------------------------------------------------
(* Two open ends with a connection each talk to each other: they reached    *)
(* the same host and gave it the same destination.                          *)
StreamsMeet ==
    (\A c \in Clients : stream[c].link = "up") =>
        /\ stream["sender"].dest = stream["receiver"].dest
        /\ stream["sender"].host = stream["receiver"].host

(* An application is told of a stream's opening before its end, and of each *)
(* once; a sender that goes through a proxy is excepted.                    *)
AtMostOnce(c, what) == \A m, n \in DOMAIN said[c] : said[c][m] = what /\ said[c][n] = what => m = n
OpenBeforeClose(c) ==
    \A n \in DOMAIN said[c] : said[c][n] = "close" => \E m \in 1..n : said[c][m] = "open"
ToldInTurn ==
    \A c \in Clients : c = "receiver" \/ stream[c].host # "proxy" =>
        AtMostOnce(c, "open") /\ AtMostOnce(c, "close") /\ OpenBeforeClose(c)

(* The same of every stream.                                                *)
OpenedOnce ==
    \A c \in Clients : AtMostOnce(c, "open")

(* An open stream has a connection.                                         *)
OpenIsLinked == \A c \in Clients : stream[c].open => stream[c].link = "up"

(* A request to open a stream the receiver could not follow is answered.    *)
FailureAnswered == stream["receiver"].link = "failed" => "open" \notin hosts
=============================================================================
