----------------------------- MODULE LinkLocal -----------------------------
(***************************************************************************)
(* Serverless messaging: LinkLocal::Manager publishes a service, browses   *)
(* for others and accepts connections (src/linklocalmanager.cpp, with      *)
(* ConnectionTCPServer, src/connectiontcpserver.cpp); LinkLocal::Client    *)
(* resolves a service, asks for its address and connects                   *)
(* (src/linklocalclient.cpp).  The mDNS responder answers a reference for  *)
(* as long as it is not deallocated; its batches end with a reply that     *)
(* does not say "more coming".                                             *)
(***************************************************************************)
EXTENDS Naturals, Sequences, FiniteSets, SequencesExt

CONSTANTS Services,    \* the services other hosts publish
          BindFails,   \* bind() or listen() may fail
          StopsInside, \* browsing may be stopped inside a batch
          MaxRefs      \* bound on the references handed out

ASSUME LinkLocalAssumption ==
    /\ BindFails \in BOOLEAN /\ StopsInside \in BOOLEAN /\ MaxRefs \in Nat

VARIABLES server,   \* the listening socket, as it is and as it is believed
          publish,  \* m_publishRef
          browse,   \* m_browseRef, m_tmpServices and what was reported under it
          listTold, \* the last list the handler got, with what it should hold
          refs,     \* references handed out and not deallocated
          resolver, \* m_rRef, m_qRef and m_currentRef of the client
          link,     \* the client's connection, and whether its header was sent
          handed    \* references handed out so far

llVars == <<server, publish, browse, listTold, refs, resolver, link, handed>>

NoRef == 0

LinkLocalTypeOK ==
    /\ server.socket \in {"none", "open", "closed"} /\ server.listens \in BOOLEAN
    /\ refs \subseteq 1..MaxRefs
    /\ {publish, browse.ref, resolver.r, resolver.q, resolver.current} \subseteq 0..MaxRefs
    /\ link \in [up : BOOLEAN, header : BOOLEAN]
    /\ handed \in 0..MaxRefs

LinkLocalInit ==
    /\ server = [socket |-> "none", listens |-> FALSE, claims |-> FALSE]
    /\ publish = NoRef
    /\ browse = [ref |-> NoRef, found |-> {}, reported |-> {}]
    /\ listTold = [list |-> {}, due |-> {}]
    /\ refs = {}
    /\ resolver = [r |-> NoRef, q |-> NoRef, current |-> NoRef]
    /\ link = [up |-> FALSE, header |-> FALSE]
    /\ handed = 0

Hands == handed < MaxRefs /\ handed' = handed + 1
Fresh == handed + 1

-----------------------------------------------------------------------------
(* ConnectionTCPServer::connect: a socket that was opened once is not opened *)
(* again, whatever became of it; a failed bind() or listen() closes it.      *)
Listened(works) ==
    IF server.socket # "none" THEN [server EXCEPT !.claims = TRUE]
    ELSE IF works THEN [socket |-> "open", listens |-> TRUE, claims |-> TRUE]
    ELSE [socket |-> "closed", listens |-> FALSE, claims |-> FALSE]

(* registerService: an earlier registration goes first.                      *)
Registers(works) ==
    /\ works \/ BindFails
    /\ Hands
    /\ server' = Listened(works)
    /\ publish' = Fresh
    /\ refs' = (refs \ {publish}) \cup {Fresh}
    /\ UNCHANGED <<browse, listTold, resolver, link>>

Deregisters ==
    /\ publish # NoRef
    /\ refs' = refs \ {publish}
    /\ publish' = NoRef
    /\ UNCHANGED <<server, browse, listTold, resolver, link, handed>>

(* startBrowsing stops an earlier browsing; stopBrowsing leaves              *)
(* m_tmpServices as it is.                                                   *)
StartsBrowsing ==
    /\ Hands
    /\ StopsInside \/ browse.found = {}
    /\ refs' = (refs \ {browse.ref}) \cup {Fresh}
    /\ browse' = [browse EXCEPT !.ref = Fresh, !.reported = {}]
    /\ UNCHANGED <<server, publish, listTold, resolver, link>>

StopsBrowsing ==
    /\ browse.ref # NoRef
    /\ StopsInside \/ browse.found = {}
    /\ refs' = refs \ {browse.ref}
    /\ browse' = [browse EXCEPT !.ref = NoRef]
    /\ UNCHANGED <<server, publish, listTold, resolver, link, handed>>

\* Slip: the list is told as it is with every reply.
SlipTellsEach(more) == TRUE

(* handleBrowse: the list goes out when no more is coming.                   *)
TellsNow(more) == ~more

(* Manager::recv processes one reply of the responder.                       *)
Browsed(service, more) ==
    /\ browse.ref # NoRef
    /\ service \notin browse.reported
    /\ LET list == browse.found \cup {service}
           due == browse.reported \cup {service}
       IN  IF TellsNow(more)
           THEN /\ listTold' = [list |-> list, due |-> IF more THEN {} ELSE due]
                /\ browse' = [browse EXCEPT !.found = {}, !.reported = {}]
           ELSE /\ browse' = [browse EXCEPT !.found = list, !.reported = due]
                /\ UNCHANGED listTold
    /\ UNCHANGED <<server, publish, refs, resolver, link, handed>>

-----------------------------------------------------------------------------
(* Client::connect and resolve: the reference of an earlier attempt is       *)
(* forgotten, not deallocated.                                               *)
Resolves(works) ==
    /\ ~link.up
    /\ Hands
    /\ IF works
       THEN /\ refs' = refs \cup {Fresh}
            /\ resolver' = [resolver EXCEPT !.r = Fresh, !.current = Fresh]
       ELSE /\ resolver' = [resolver EXCEPT !.r = NoRef]
            /\ UNCHANGED refs
    /\ UNCHANGED <<server, publish, browse, listTold, link>>

(* handleResolveReply: the address is asked for.                             *)
Queries(works) ==
    /\ ~link.up
    /\ resolver.current # NoRef /\ resolver.current = resolver.r
    /\ Hands
    /\ IF works
       THEN /\ refs' = refs \cup {Fresh}
            /\ resolver' = [resolver EXCEPT !.q = Fresh, !.current = Fresh]
       ELSE /\ resolver' = [resolver EXCEPT !.q = NoRef]
            /\ UNCHANGED refs
    /\ UNCHANGED <<server, publish, browse, listTold, link>>

\* Slip: the reference is deallocated and still listened to.
SlipStillCurrent(s) == [s EXCEPT !.r = NoRef, !.q = NoRef]

(* handleConnect ends the query.                                             *)
Resolved(s) == [s EXCEPT !.r = NoRef, !.q = NoRef, !.current = NoRef]

(* handleQueryReply and handleQuery: with the address a connection is made;  *)
(* handleConnect hands it to the client and sends the header.  One that      *)
(* fails is deleted, and the query goes on.                                  *)
Reaches(works) ==
    /\ ~link.up
    /\ resolver.current # NoRef /\ resolver.current = resolver.q
    /\ refs' = refs \ ({resolver.r} \cup IF works THEN {resolver.q} ELSE {})
    /\ resolver' = IF works THEN Resolved(resolver) ELSE [resolver EXCEPT !.r = NoRef]
    /\ link' = IF works THEN [up |-> TRUE, header |-> TRUE] ELSE link
    /\ UNCHANGED <<server, publish, browse, listTold, handed>>

Disconnected ==
    /\ link.up
    /\ link' = [link EXCEPT !.up = FALSE]
    /\ UNCHANGED <<server, publish, browse, listTold, refs, resolver, handed>>

LinkLocalNext ==
    \/ \E works \in BOOLEAN : Registers(works) \/ Resolves(works) \/ Queries(works)
                              \/ Reaches(works)
    \/ Deregisters \/ StartsBrowsing \/ StopsBrowsing \/ Disconnected
    \/ \E service \in Services, more \in BOOLEAN : Browsed(service, more)

LinkLocalSpec == LinkLocalInit /\ [][LinkLocalNext]_llVars

-----------------------------------------------------------------------------
(* The reference recv() listens to, and those of the manager, have not been  *)
(* deallocated.                                                              *)
RefsHeld ==
    {publish, browse.ref, resolver.current} \ {NoRef} \subseteq refs

(* A list the handler gets is a whole batch of the browsing in progress.     *)
BatchesWhole == listTold.list = listTold.due

(* A server that says it listens does.                                       *)
ListeningIsTrue == server.claims => server.listens
=============================================================================
