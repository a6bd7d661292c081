----------------------------- MODULE MCDelivery -----------------------------
(* From the connection to the handler, for TLC: threads on a TCP            *)
(* connection, what gives it a descriptor, the layers around one, the backends of TLS and compression,  *)
(* link-local services, the stream of a component, and the maps of IQ       *)
(* handlers.  They do not meet here: a behaviour is one of them, chosen     *)
(* first, while the others rest.                                            *)
EXTENDS TcpConnection, Layers, LinkLocal, ComponentStream, IqDispatch, Backends, Resolver

VARIABLE part

RestTcp == UNCHANGED vars
RestLayers == UNCHANGED layersVars
RestLink == UNCHANGED llVars
RestComponent == UNCHANGED componentVars
RestIq == UNCHANGED iqVars
RestCoder == UNCHANGED backendsVars
RestDial == UNCHANGED resolverVars
RestWire == RestTcp /\ RestLayers /\ RestLink /\ RestComponent /\ RestDial

DeliveryInit ==
  /\ part \in {"tcp", "layers", "link", "component", "iq", "coder", "dial"}
  /\ Init /\ LayersInit /\ LinkLocalInit /\ ComponentInit
  /\ IqInit /\ BackendsInit /\ ResolverInit
  /\ part # "layers" => wrapper = "tls"
  /\ part # "coder" => coder.kind = "zlib" /\ coder.slice = 1
  /\ part # "dial" => dial.build = "plain"

DeliveryNext ==
  /\ \/ /\ part = "tcp" /\ Next
        /\ RestLayers /\ RestLink /\ RestComponent /\ RestIq /\ RestCoder /\ RestDial
     \/ /\ part = "layers" /\ LayersNext
        /\ RestTcp /\ RestLink /\ RestComponent /\ RestIq /\ RestCoder /\ RestDial
     \/ /\ part = "link" /\ LinkLocalNext
        /\ RestTcp /\ RestLayers /\ RestComponent /\ RestIq /\ RestCoder /\ RestDial
     \/ /\ part = "component" /\ ComponentNext
        /\ RestTcp /\ RestLayers /\ RestLink /\ RestIq /\ RestCoder /\ RestDial
     \/ part = "iq" /\ IqNext /\ RestWire /\ RestCoder
     \/ part = "coder" /\ BackendsNext /\ RestWire /\ RestIq
     \/ /\ part = "dial" /\ ResolverNext
        /\ RestTcp /\ RestLayers /\ RestLink /\ RestComponent /\ RestIq /\ RestCoder
  /\ UNCHANGED part

\* How the handshakes fail that the backends report as they should.
Failing == {<<"openssl", "peer">>, <<"schannel", "peer">>, <<"schannel", "credentials">>}

\* What a name server may answer, and the names in their order as strings.
Srv(name, port, readable) == [name |-> name, port |-> port, readable |-> readable]
ServerAnswers == {<<>>, <<Srv("b", 5222, TRUE), Srv("a", 5269, TRUE), Srv("b", 80, TRUE)>>, <<Srv("a", 5222, FALSE)>>}
ServerNames == <<"a", "b">>

In(p, A) == part = p /\ A

DeliverySpec ==
  /\ DeliveryInit
  /\ [][DeliveryNext]_<<part, vars, layersVars, llVars, componentVars, iqVars, backendsVars, resolverVars>>
  /\ \A t \in Threads :
       WF_vars(In("tcp", Runs(t))) /\ SF_vars(In("tcp", Waits(t)))
  /\ WF_layersVars(In("layers", FarGrants \/ FarRefuses))
  /\ WF_layersVars(In("layers", \E n \in 1..(MaxPayload + 3) : Reads(n)))
  /\ WF_componentVars(In("component", PeerAccepts))
  /\ WF_componentVars(In("component", HandshakeArrives))
  /\ WF_iqVars(In("iq", ~lost /\ Dispatcher))
  /\ SF_iqVars(In("iq", ~lost /\ Beside))

-----------------------------------------------------------------------------

\* A descriptor is opened, used and closed by one owner: the call that looks for a
\* server, then the connection, whichever thread calls (dns.cpp:232-505,
\* connectiontcpbase.cpp:122-187, connectiontcpclient.cpp:62-147).
DescriptorsSound == ResolverTypeOK /\ LocksHold /\ DialSound

\* A layer around a connection is as good as the connection: what is heard of it
\* comes in turn, and data whole, in order and once (connectionhttpproxy.cpp:92-205,
\* connectionsocks5proxy.cpp:117-399, connectiontls.cpp:88-170,
\* tlsopensslbase.cpp:162-215, tlsschannel.cpp:33-240).
LayersSound == LayersTypeOK /\ BackendsTypeOK /\ HeardInTurn /\ CodedSoundly

\* DNS-SD references are used while they are valid and given back once, and a
\* batch of browse replies is told whole (linklocalmanager.cpp:127-230,
\* linklocalclient.cpp:94-180).
LinkLocalSound == LinkLocalTypeOK /\ RefsHeld /\ BatchesWhole

\* A handshake with a proxy or for TLS, and the one of a component with its
\* server, ends: in a connection or in the news that there is none.
HandshakesEnd == HandshakeConcluded /\ Accepted

\* Every request has its answer, at home or from the asker, once, and no entry
\* of the IQ maps is used after it was erased (clientbase.cpp:1637-1699).
HandlersCalled == IqTypeOK /\ ComponentTypeOK /\ AskersTold /\ RequestsAnswered /\ EntriesHold
=============================================================================
