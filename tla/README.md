# A TLA+ verification of gloox

gloox is a C++ library for XMPP clients and components. The library itself is
`src/src/*.cpp`, 112 files and about 26 000 lines. This directory models it from
the descriptor of a connection to the objects an application holds: threads on a
TCP connection, proxies, TLS and compression, BOSH, the negotiation of a stream,
reliable delivery over lost connections, the dispatch of stanzas, the services on
top of it, and how elements and stanzas are written and read. The models are
checked with TLC on small instances. For the negotiation, stream management, in-band
bytestreams, BOSH, the TCP connection, the search for a server, link-local references,
the dispatch of IQs and what managers make of their answers, lists of handlers, message
sessions, Jingle sessions and file transfers the safety properties are also proved with TLAPS, for every value of the
constants.

File and line references are relative to `src/src/` unless they name another
directory.

## 1. The system

### 1.1 Parts, their state and their operations

| Part | State | Operations | What makes it correct |
|---|---|---|---|
| `Client`, `ClientBase` (client.cpp, clientbase.cpp, nonsaslauth.cpp) | `m_authed`, `m_resourceBound`, `m_streamFeatures`, `m_encryptionActive`, `m_compressionActive`, `m_smContext`, the state of the connection and the TLS object | `connect`, `disconnect`, one handler branch per negotiation element, `notifyOn...` callbacks | nothing sensitive outside required TLS; layers in order; every attempt concludes; callbacks keep the listener's contract; nothing survives into the next connection |
| Stream management in `Client`/`ClientBase` | `m_smSent`, `m_smHandled`, `m_smQueue`, `m_smId`, `m_smContext` | `send`, `checkQueue`, `ackStreamManagement`, `reqStreamManagement`, `setStreamManagement`, resumption | stanzas arrive once and in order through a loss; counters agree with the server's |
| Dispatch in `ClientBase`, `EventDispatcher` | handler lists, IQ tracking maps, session list | `register...`, `remove...`, `notify...Handlers` | one answer for one request; handlers may come and go while they are called |
| `MessageSession`, `MessageEventFilter`, `ChatStateFilter` | thread, target, events asked for, last state sent | `send`, `handleMessage`, `raiseMessageEvent`, `setChatState` | a contact is in one session; an event is told once |
| `Component` | `m_sid`, `m_authed` | `handleStartNode`, `handleNormalNode` | the digest is the one of this stream; the handshake ends |
| `ConnectionTCPBase`, `ConnectionTCPClient`, `util::Mutex` | `m_socket`, `m_state`, `m_cancel`, send and receive mutex | `connect`, `recv`, `receive`, `send`, `disconnect`, `cleanup` | no descriptor closed under a system call; mutexes given back; ends announced; no half-open rest |
| `DNS` | none between calls | `resolve`, `getSocket`, `connect`, `closeSocket` | every address tried; no descriptor lost |
| `ConnectionHTTPProxy`, `ConnectionSOCKS5Proxy`, `ConnectionTLS` | `m_state`, `m_s5state`, handshake buffer | `connect`, `handleConnect`, `handleReceivedData`, `handleDisconnect` | connection, data and end are heard in turn; the handshake ends |
| `GnuTLSBase`, `OpenSSLBase`, `SChannel`, `CompressionZlib` | buffers, `m_secure`, library handles | `init`, `handshake`, `encrypt`, `decrypt`, `compress`, `decompress`, `cleanup` | whole records in order, whatever the pieces; one result of the handshake |
| `ConnectionBOSH` | `m_rid`, `m_openRequests`, pool and active connections, `m_sendBuffer`, `m_connMode` | `send`, `recv`, `handleReceivedData`, `handleTag`, `handleDisconnect` | data in order and once; window respected and given back |
| `InBandBytestream` | `m_open`, `m_sequence`, `m_lastChunkReceived` | `connect`, `send`, `close`, `handleIq`, `handleIqID`, `handleMessage` | blocks in order through the wrap; one answer each; ends agree |
| `SIManager`, `SIProfileFT`, `SOCKS5Bytestream*` | tracking maps from ids and sids to streams | offer, accept, decline, activate, dispose | each offer ends in one stream or one refusal, the same at both ends |
| `RosterManager` | `m_roster`, `m_self` | `fill`, pushes, presences, subscriptions, `synchronize` | the roster follows the server's |
| `MUCRoom` | `m_joined`, `m_nick`, `m_newNick`, `m_role`, `m_creationInProgress` | `join`, `leave`, `setNick`, `handlePresence`, configuration | membership and nickname agree with the room's |
| `Jingle::Session`, `SessionManager` | `m_state`, `m_handler`, the list of sessions | initiate, accept, terminate, `handleIq` | both ends agree on the state |
| `Disco`, `Adhoc`, `PubSub::Manager`, `Registration`, `Search`, `VCardManager`, `PrivateXML`, `PrivacyManager`, `LastActivity`, `FlexibleOffline` | one tracking map each | request, answer, cancel, `handleIq` | the answer reaches who asked, once |
| `LinkLocal::Manager`, `Client`, `ConnectionTCPServer` | service references, browse batch, listening socket | browse, resolve, connect, `recv` | references used while valid and given back once |
| `Parser`, `Tag` | automaton state, back buffer, root tag; children twice | `feed`; `addChild`, `setCData`, `xml`, `findTagList` | splitting the input changes nothing; what is printed is read |
| Stanzas, extensions, forms, `StanzaExtensionFactory` | their fields | `tag`, constructor from a `Tag`, `filterString` | what is said arrives, at its own reader |
| MD5, SHA, base64, `JID`, util | buffers and counters | feed, finalize; encode, decode; setters | agree with their references |

`PROJECT.json` lists every part with its source files and status.

### 1.2 How they interact

Everything happens in the thread that calls `ClientBase::recv()` or
`connect( true )`. The connection reads bytes and calls
`ClientBase::handleReceivedData()`; decompression, decryption and the parser
call each other directly, and every complete element reaches
`ClientBase::handleTag()`. From there a negotiation element goes to
`Client::handleNormalNode()`; a stanza is built, the factory adds the extensions
it finds in it, and the registered handlers are called. The application runs
inside these callbacks and may call back into the library. What the library sends
travels the same way down, synchronously: a failing `send()` may tear down the
object from inside one of its own methods.

A service sends an IQ with itself as handler. `ClientBase` keeps id and handler in
`m_iqIDHandlers`, the service keeps in a map of its own whom to tell; both entries
end with the answer, or with a removal.

Other threads may call `send()` and `disconnect()`. The only synchronisation is
the two mutexes of the TCP connection, `m_queueMutex`, the mutexes around the
IQ tracking maps, and one in each TLS backend.

### 1.3 What is hard here

- The order of negotiation steps is decided anew on every `<features/>`, from
  flags that several handlers and both ends of the connection set.
- A connection may end at any byte and inside any callback; the teardown runs
  layer by layer and the object is used again for the next connection.
- Stream management counts on both sides must agree although whole directions of
  traffic are lost, and although the library numbers a stanza after writing it.
- The connection's state is read outside its locks, and `cleanup()` only tries
  its locks.
- Sequence numbers wrap, answers come late or not at all.
- BOSH spreads one stream over several HTTP connections, one buffer and a limited
  number of requests, and calls the client while it handles an answer.
- Handlers are found under a lock, called without it and erased afterwards; they
  remove themselves, and others, from the list that is being walked.
- Pushes, presences, refusals and results cross each other between a client and
  its server, its room or its peer, and the client keeps one flag or one name to
  tell them apart.
- Handshakes, records, markers and references arrive in pieces that end anywhere.

The hazards are listed in `PROJECT.json`, each at its line, with the property
that watches it or the reason why none does.

## 2. Modules

| Module | Models | Kind |
|---|---|---|
| `ConnectionListener` | what a `ConnectionListener` may assume of the callbacks | abstract |
| `ClientStream` | negotiation, callbacks and ends of a client's connections; implements `ConnectionListener` | detailed |
| `MCClientStream` | configurations and feature sets for TLC | instance |
| `ClientStreamProofs` | theorems about `ClientStream` | proofs |
| `ReliableStream` | what stream management promises upstream | abstract |
| `StreamManagement` | XEP-0198 between a client and its server; implements `ReliableStream` | detailed |
| `StreamManagementProofs` | theorems about `StreamManagement` | proofs |
| `InBandBytestream` | two ends of a XEP-0047 stream and the way between them | detailed |
| `InBandBytestreamProofs` | theorems about `InBandBytestream` | proofs |
| `ConnectionBosh` | a stream over HTTP requests, with its connections and manager | detailed |
| `BoshProofs` | theorems about `ConnectionBosh` | proofs |
| `TcpConnection` | one TCP connection called from several threads | detailed |
| `Resolver` | from a host to a connected descriptor | detailed |
| `Layers` | HTTP and SOCKS5 proxies and TLS around a connection | detailed |
| `Backends` | TLS libraries' and zlib's wrappers, bytes in pieces | detailed |
| `LinkLocal` | browsing, resolving, connecting and listening without a server | detailed |
| `ComponentStream` | the handshake of a component | detailed |
| `IqDispatch` | IQs and their handlers, with a second thread | detailed |
| `MCDelivery` | one of the seven above, from `TcpConnection` on | instance |
| `DeliveryProofs` | theorems about `TcpConnection`, `Resolver`, `LinkLocal`, `IqDispatch` and `MCDelivery` | proofs |
| `HandlerLists` | handler lists that change while they are walked | detailed |
| `Conversation` | message sessions and their filters | detailed |
| `Roster`, `MucRoom` | the client's copy of the server's or room's state | detailed |
| `Requests` | ten managers, their maps, and the services that answer | detailed |
| `Jingle`, `FileTransfer` | two ends of a session, or of a file on its way | detailed |
| `MCServices` | one of the seven above, or `ConnectionBosh` under losses | instance |
| `CallbackProofs` | theorems about `HandlerLists` and `Conversation` | proofs |
| `BooksProofs` | invariants of `Roster` and `MucRoom` | proofs |
| `ServicesProofs` | theorems about `MCServices` | proofs |
| `Tags` | elements as values, numbers as text | data |
| `Elements`, `TagTree` | class `Tag` with its two orders, edited, copied, printed and read | detailed |
| `TagPath` | `Tag::findTagList()` against what an expression means | detailed |
| `XmlParser`, `StreamPieces` | the automaton of `Parser`, fed in pieces | detailed |
| `MessageExtensions`, `QueryExtensions`, `MucStanzas`, `PubSubStanzas`, `SessionStanzas` | forms and extensions, vCards among the last: written, read, found | data |
| `StanzaWire` | stanzas, and one with extensions on its way from its sender to the peer's handlers | detailed |
| `Digests`, `Jid` | md5.cpp, sha.cpp and base64.cpp; jid.cpp | detailed |
| `MCTransfers` | one of the two: `StreamManagement`, `InBandBytestream`, each as its documentation has it used | instance |
| `MCCodecs` | one of the six: elements, pieces, paths, stanzas, digests, addresses; or `InBandBytestream` under faults, or `StreamManagement` with two threads | instance |

`ClientStream` and `StreamManagement` split one part of the code along its data.
`ClientStream` has every branch of the negotiation, including when a session is
enabled, resumed or refused, and no stanza. `StreamManagement` has the stanzas,
counters and queue, on a stream whose earlier negotiation succeeds.
`TcpConnection` is below both: they see of it that a connection may break
anywhere and that `send()` may fail. `ConnectionBosh` takes its place under
`ClientStream`; its own transports are `ConnectionTCPClient` as one thread sees
it. `Resolver` is what `TcpConnection` sees as "a descriptor or an error",
`Backends` what `ClientStream` sees as the state of its TLS object. The services
use `IqDispatch` as "an answer finds its manager" and `StanzaWire` as "what was
said is what is read"; section 6 lists where the second is not so.

`MCTransfers`, `MCDelivery`, `MCServices` and `MCCodecs` put independent models side
by side in one state space: a behaviour chooses one of them first and the others
rest. Most of their properties are conjunctions of properties of the parts, named
there.

An operator named `Slip...` is the operator after it with one plausible mistake.
It is used only to show that a property notices that mistake: put in place of the
operator, TLC finds a property of the run violated. `PROJECT.json` pairs one with
each property; the others have been tried the same way. In its map of definitions to
lines, a helper that has no lines of its own is covered by the operation that uses it.

### 2.1 ClientStream

The variable `c` is one record: the client object with what it depends on of its
connection and TLS object. Field names are those of the code without `m_`.
`conn` is `ConnectionState`; `tls` is the handshake state of `m_encryption`;
`parser` is where the parser stands when the bytes stop. `owed` holds the
requests the server has not answered. `late` holds answers that arrived in one
chunk of bytes with the element whose handler disconnected: `Parser::feed()`
goes on with the chunk. `out` records what this step sent and whether inside
TLS, `log` the callbacks since `connect()`.

A function of the library is an operator from such a record to the record after
the call: `Cleanup`, `Teardown`, `BaseDisconnect`, `Send`, `Login`,
`SessionOrConnected`, `SendStreamManagement`, `ProcessFeatures` and so on. They
are composed as the code composes the calls, so one action is one whole handler:
`RecvFeatures` is the `features` branch of `handleNormalNode()` with everything
it calls. The server conforms to XMPP: it answers what it was asked (any entry
of `owed`), may refuse what `Refusals` names, may close the stream, and the link
may break at any of the places in `Losses`. Callbacks in which the application
calls `disconnect()` are in `Reentrant`.

### 2.2 StreamManagement

`client` holds the counters and the queue as in the code: `smSent`, `smHandled`,
`smQueue` (a function from numbers to stanzas, as the `std::map` is), `smId`,
`smContext`. `up` is what was written and not yet read by the server, `down` the
other direction; losing the connection empties both. `accepted` and `seen` are
history: what the application sent and was given since the session was enabled.
`server` is a XEP-0198 server. `SendStanza` is `ClientBase::send( Tag*, true,
false )`: it writes first (`WriteStanza`) and numbers afterwards (`Keep`). A
second thread takes the two halves as two steps. `RecvResumed` calls
`Connected` before `CheckAndResend`, as the code does.

### 2.3 InBandBytestream

`end` has one record for each `InBandBytestream` object, `net` the stanzas on
their way to each end in order. A block's content is its number, so that the
receiver's `got` shows omissions, repetitions and reordering. `RecvOpen`,
`RecvCloseRequest`, `RecvData`, `RecvOutOfSequence`, `RecvEmpty` and `RecvUnopened`
are the branches of `handleIq()`, with the error `notifyIqHandlers()` adds when the
handler returns false; `RecvAnswer` is `handleIqID()`. `MaxSeq` stands for
65535, so that the wrap happens within a few blocks.

### 2.4 ConnectionBosh

`bosh` has the members of the object: `open` is `m_openRequests`, `limit`
`m_maxOpenRequests`, `active` and `pool` the two lists. `link` has, for each
transport, whether it has a socket and whether the peer closed it, the requests
not answered and the bytes to be read. A request carries stanzas, a restart of
the stream or the end; an answer is two pieces, so that `recv()` may find half of
one. `buffer` is `m_buffer`. `client` is history: what was sent, what requests
carried, whether the end was announced.

Methods are operators on the record of all three (`SendXML`, `SendRequest`,
`PutConnection`, ...), composed as the calls are: `SendRequest` contains
`getConnection()` and `activateConnection()`, and opening a connection contains
the `handleConnect()` that `connect()` calls before it returns. `recv()` is cut
wherever the client's handler runs: `RecvPool`, `RecvActive`, one `HandleAnswer`
for each turn of the loop in `handleReceivedData()` with a whole answer, one
`Deliver` for each call of the handler, in which the client may send, restart or
disconnect, and `Poll`. `HandleHeader` is the turn that finds the header alone: an
HTTP error ends the session, and "Connection: close" or HTTP/1.0 the other modes,
before the body is there; it is not taken when the header was cut too.
Ids count from 0 (the code starts at a random number) modulo `RidCycle`.

### 2.5 From the descriptor to the handler (MCDelivery)

`TcpConnection`: each thread has a program counter and a stack of return labels.
Programs are cut at each lock operation and wherever `m_state`, `m_cancel` or
`m_socket` is used without its lock. `fd` is the descriptor a thread has passed
to a system call that has not returned. `select()`, `recv()` and `send()` have
all their outcomes.

`Resolver`: `dial` is one call of `DNS::connect()`: what is left to try, the
socket in hand, and whether the list of addresses is held. `Resolve` turns the SRV
records into the map the code keeps, one port for each name. Lookups, sockets and
connections may fail one by one; `descriptors` are those open, `given` those the
connection has to close.

`Layers`: `tcp` is the connection below, `line` what is on its way from the far
end, `buf` the handshake buffer, `heard` what the handler was told. One read takes
any number of pieces. `Backends`: a record is two units, and a call gets any
number of them; `coder` has the library's and the wrapper's buffers, and what the
handler saw. A record is handed over, and the handler runs, where the code calls
it, so that `cleanup()` may run inside the loop.

`LinkLocal` has one field for each `DNSServiceRef`; `refs` are those the responder
knows. `ComponentStream` has the stream's id and the digest sent for it.

`IqDispatch`: the dispatching thread (`frame`) finds an entry, calls and erases it
in separate steps, as the code unlocks between them; `beside` is a call of a
second thread, in steps of its own. `lost` becomes true when an entry is used that
was erased.

### 2.6 The services (MCServices)

In all of them `up`/`down`, `toRoom`/`toUser`, `wire` or `iqs` hold what is on its
way, in order; a handler is one action, from its stanza to everything it sends and
tells. `Roster` and `MucRoom` have the server's or room's own state beside the
object's, which changes by itself, too. `Requests` has one action for each kind of
call of the managers, with the table of its operations (what map, which handler,
which answer), and the services that answer; requests are numbered, so that
`told` shows whose answer went where. `Jingle` and `FileTransfer` have both ends;
`FileTransfer` also the stream hosts. `Conversation` has the sessions, and what
the contact and the application say. `HandlerLists` has a loop over one list,
cut at each callback, in which handlers are added and removed.

### 2.7 Elements and stanzas (MCCodecs)

`Elements` keeps what class `Tag` keeps: children and texts in lists of their own
and again, in order, in `m_nodes`; `lists` says which of the lists were ever made, since
`operator==()` tells an empty list from none. `TagTree` edits, copies and prints one.
`XmlParser` is the automaton of `Parser` state by state, over symbols that stand for
classes of characters; `StreamPieces` feeds it a stream cut anywhere, whole or with
one character missing. References by name and by number, decimal and hexadecimal, are
decoded for the characters the symbols stand for. `TagPath` is the lexer's output turned into the code's tree
of tokens and evaluated; `Meant` says independently what the expression means, and
`MCCodecs` asks the expressions of its samples.

A stanza or an extension is a record of its fields, `NoForm` and the like stand for
a null pointer, `Unset` for a member no constructor assigns. `...Tag` writes one,
`...From` reads one, `...Paths` is its `filterString()`; `Kept...` says what of it
survives where the code keeps less than everything. `StanzaWire` sends a stanza
with one or two extensions: written, printed, parsed, dispatched, and handed to all
registered extensions.

`Digests` computes MD5 and SHA with words as sets of bits, feeds a message in
pieces, and writes and reads base64, a pure function. `Jid` sets an address from a
text or part by part, in a build with libidn and one without.

## 3. Runs

All runs are complete explorations: the bounds below end the state space, no
depth limit is used.

| Run | Question | Bounds |
|---|---|---|
| `negotiation` | Over every branch of the negotiation: TLS policy, order of layers, no stall, listener contract | 11 configurations, one for each branch; 15 feature sets; 9 requests may be refused; a loss at three kinds of places |
| `conclusion` | With stream management switched on and off while offline, an application that disconnects inside callbacks and a peer that may fall silent: are requests allowed by the protocol, is an end announced once with nothing of the stream left, and does every attempt conclude? | every configuration, 15 feature sets, 10 requests may be refused |
| `transfers` | A managed session: exact counting, nothing lost, in order, delivered through a loss, implements `ReliableStream`. A bytestream: each request answered once, closed at both ends, all arrives past the wrap | 4 stanzas up, 2 down, 3 connections; 4 blocks each way over 2 sequence numbers, bursts of 2 |
| `bosh_session` | Are request ids consecutive; does the manager always have a request; is everything sent and read in the end? | 2 stanzas, a restart, 2 connections, ids modulo 4, limits 1 and 2, three modes, failures up to the first answer, HTTP errors |
| `delivery` | Descriptors, mutexes and threads of a TCP connection; the search for a server; proxies, TLS and compression in pieces; service references; a component's handshake; IQs and their handlers | two threads, 1 call each, 2 connections; 2 addresses, 2 descriptors; 2 dials and 2 items behind a proxy; 2 sessions, 5 records and 2 items for each backend; 4 references; 4 streams; one id, 2 askers and 2 servants, 1 request of others |
| `services` | Roster, room, sessions, requests, Jingle, file transfer, handler lists, BOSH when connections close, fail or are lost at any time | 1 contact with 2 resources, 3 changes, 1 loss; 3 nicknames, 4 calls; 2 messages, 2 sessions; 7 operations, 2 requests, 1 incoming; 5 actions; 2 hosts, 1 drop; 2 handlers, 2 keys, 2 entries, 4 changes |
| `codecs` | Are elements, streams, stanzas, extensions, digests and addresses read as what was written, whatever the pieces? Do blocks of a bytestream arrive in order when stanzas bounce or get lost? What does `m_queueMutex` protect when two threads send? | 10 stanzas with a set of samples of 47 kinds of extensions, two together in three of them; elements of a few nodes and edits; streams of two stanzas, a character lost; messages about the block size of the digests; 2 blocks each way over 3 numbers; 5 stanzas, 1 connection |
| `enable_refused`, `tcp_half_open`, `asked_again`, `copy_equal` | Counterexamples to statements of the documentation: see section 6 | smallest that show them |

Why these bounds are enough. Negotiation has no counter: the state space is
finite for given configurations, and there is one configuration for each
condition the code tests. In `transfers`, three connections give a loss during
negotiation, one after enabling and one during resumption; four stanzas fill
the queue beyond what is acknowledged and beyond what is resent. In
`transfers` four blocks over the numbers 0 and 1 wrap twice at each end. In
`bosh_session` at most two requests are open (`m_maxOpenRequests` starts at 2 and
only falls), so two connections are all that can be active, a third is never made,
and four ids tell those under way apart.

In `delivery` the two connections let a thread that stopped in one meet the socket
of the next; two sessions of a backend show what its `cleanup()` leaves; a record
is two units and there are two after the handshake, so that a piece may end in a
record, on its border, or hold a record and a half. A second session through a
proxy shows what the first left in the buffer. With one id, `HandlersCalled` covers
an id that is used again, the only way in which two entries of the map meet.

In `services`, the maps and lists under test have at most two entries that can be
confused: two resources, two requests, two handlers with two keys, two sessions.
Three nicknames are the one had, the one asked for and one that is refused. Two
entries in a list make the iterator that is held the removed one, the one after it,
or the last one.

In `codecs` the samples reach each branch of each `tag()` and each reader, each
form of null pointer, and each combination of kinds that meets in one filter; 64
bytes and one more or less are the cases of both digests' padding.

Deadlock is checked in the runs of `ClientStream`: there the client can always
do something. The other models stop when their bounds are used up, which is the
end of a scenario and not a deadlock of the code; waiting for ever is covered by
the liveness properties instead (`ThreadsConclude`, `SecondThreadReturns`,
`HandshakesEnd`, `Delivered`, `WholeTransfer`, `KeepsTalking`).

Some properties are conjunctions, because what they join is one question to the
same states: `QueueSound` (`NothingLost`, `QueueNumbered`), `BlocksSound`
(`InOrder`, `AcksSound`), `ManagedSoundly` (`SMRequestsAllowed`,
`DisconnectsOnce`), `AskerTold` with the rest of `QuestionsAnswered`, `KeepsTalking`, `WholeTransfer`, `EndsMatch`,
`ThreadsConclude` (every call returns, an end is told), and those of the three sums.
Each begins with the type invariant of the module where it has one.

### 3.1 Fairness

- `ClientStream`: the server answers what it owes, a connection attempt has an
  outcome (`DNS::connect()` returns), and a dead link is noticed by `recv()`,
  which the application must call for the library to work at all. The
  application's own actions are not fair.
- `StreamManagement`: both sides read what they are sent, and the application
  connects again after a loss. The application never has to send anything.
- `InBandBytestream`: a server delivers what it was given.
- `TcpConnection`: threads run (weak fairness); a thread waiting for a mutex
  that is free again and again gets it (strong fairness on the four lock
  operations, as with any scheduler that does not starve a waiter for ever).
- `Layers` and `ComponentStream`: the far end answers, and the application goes on
  calling `recv()`.
- `IqDispatch`: the dispatching thread goes on; the second thread gets a mutex that
  is free again and again (strong fairness). Neither is claimed once an erased
  entry was used.
- `ConnectionBosh`: the application goes on calling `recv()`, also after it
  returned an error (in legacy mode it does so between two connections); the
  manager answers every request in the end, as the `wait` it is given says; and a
  connection that is tried again and again opens at last (strong fairness on the
  lucky `Poll`).

## 4. Proofs

Each module of proofs extends the module it is about and proves for every value of
the constants that satisfies the hypotheses below. A hypothesis is there because
the code does not have the property without it; the counterexample is in section 6.

| Module | Theorem | States | Under |
|---|---|---|---|
| `ClientStreamProofs` | `InvTheorem` | `Spec => []IInv` | `Reentrant = {}` |
| | `TypeSafe` | `Spec => []TypeOK` | `Reentrant = {}` |
| | `TlsTheorem` | `Spec => []RequiredTlsProtects` | `Reentrant = {}` |
| | `LayersTheorem` | `Spec => []LayersStacked` | `Reentrant = {}` |
| | `CleanTheorem` | `Spec => []CleanWhenOffline` | `Reentrant = {}` |
| | `AuthTheorem` | `Spec => []ConnectMeansAuthenticated` | `Reentrant = {}` |
| | `StallTheorem` | `Spec => []NeverStalls` | `Plain`, `ServerDeclares` |
| | `ListenerTheorem` | `Spec => ListenerContract` | `Plain`, `~SilentDeath` |
| `StreamManagementProofs` | `Invariant` | `Spec => []IInv` | `Careful` |
| | `QueueIsSound` | `Spec => []QueueSound` | `Careful` |
| | `DownstreamInOrder` | `Spec => []DownstreamExact` | `Careful` |
| | `Reliable` | `Spec => ReliableDelivery` | `Careful` |
| | `SendersTheorem` | `Spec => []SendersCounted` | `OneConnection` |
| `InBandBytestreamProofs` | `Invariant` | `IbbSpec => []IInv` | `Distinct` |
| | `BlocksTheorem` | `IbbSpec => []BlocksSound` | `Distinct` |
| | `TrackedTheorem` | `IbbSpec => []Tracked` | `Orderly` |
| | `AnswersTheorem` | `IbbSpec => []AnsweredOnce` | `Orderly` |
| | `EndsInvariant` | `IbbSpec => []Closing` | `Orderly`, the target does not close |
| | `EndsTheorem` | `IbbSpec => []EndsMatch` | `Orderly`, the target does not close |
| `BoshProofs` | `Invariant` | `Spec => []IInv` | |
| | `TypeTheorem` | `Spec => []TypeOK` | |
| | `SlotsTheorem` | `Spec => []SlotsRespected` | |
| | `OrderTheorem` | `Spec => []AnswersInOrder` | |
| | `EndTheorem` | `Spec => []EndIsTold` | |
| | `OnceTheorem` | `Spec => []StanzasOnce` | `Careful` |
| | `RidsTheorem` | `Spec => []RidsFollow` | `NoLoss` |
| `DeliveryProofs` | `TcpTheorem` | `Spec => []LocksHold` | |
| | `DialTheorem` | `ResolverSpec => [](ResolverTypeOK /\ DialSound)` | |
| | `DescriptorsTheorem` | `DeliverySpec => []DescriptorsSound` | |
| | `LinkLocalTheorem` | `DeliverySpec => []LinkLocalSound` | `~StopsInside` |
| | `HandlersTheorem` | `DeliverySpec => []HandlersCalled` | `~ForgetsInside`, `~ForgetsBeside` |
| `CallbackProofs` | `ListTheorem` | `ListSpec => [](ListTypeOK /\ IteratorsHold /\ EachToldOnce)` | `ListsRespected` |
| | `SessionTheorem` | `ConvSpec => []OneSession` | `OpeningsKnown` |
| | `EventsTheorem` | `ConvSpec => []EventsOnce` | `OpeningsKnown` |
| `ServicesProofs` | `BoshEndTheorem` | `ServicesSpec => []BoshEndTold` | |
| | `BoshOrderTheorem` | `ServicesSpec => []AnswersInOrder` | |
| | `BoshOnceTheorem` | `ServicesSpec => []EachSentOnce` | |
| | `HandlerTheorem` | `ServicesSpec => []NothingStale` | |
| | `ConversationTheorem` | `ServicesSpec => []ConversationKept` | |
| | `EndsTheorem` | `ServicesSpec => []EndsMeet` | `JingleInTurn` |
| | `AliveTheorem` | `ServicesSpec => []HandlersAlive` | `RequestsRespected` |
| | `QuestionsTheorem` | `ServicesSpec => []QuestionsAnswered` | `RequestsRespected`, `Telling`, `AskedInTurn` |
| | `RosterTheorem` | `ServicesSpec => [](RosterMirrors /\ PresenceMirrors)` | |
| | `BooksTheorem` | `ServicesSpec => []BooksMirror` | `RoomInTurn` |

### 4.1 Negotiation

`Reentrant = {}`: with an application that calls `disconnect()` inside a callback
the rest of the handler runs on the torn-down object, `late` is not empty and
`Sound` fails. `Plain` adds that stream management is not switched on: its answers
come between the others. `ServerDeclares`: the client restarts its parser at
`<?xml`, and without it waits for a header it has already swallowed.
`~SilentDeath`: a peer that closes unnoticed ends a connection whose end the
application is not told of until it writes. The run `negotiation` satisfies all
four. `conclusion` satisfies none of them: its application disconnects in
`onResourceBind()` and in the handler of messages, while the handler that called it
is still running. It checks `ManagedSoundly` and, because the teardown happens
there in the middle of other work, `CleanWhenOffline`.

None of the safety properties is inductive. `RequiredTlsProtects` speaks of
what was sent in the last step, so a step that answers a request must know what
may have been asked before. `IInv` therefore adds `Waiting` (until the required
TLS is up the client waits for a header or the permission to start TLS, and for
nothing else), `BoundAuthed` (a resource is asked for only when authenticated),
`AsksOnce` (TLS and compression are asked for only while they are not up), and that an object without a
connection has nothing of a stream left (`Blank`).

The argument follows the code's call structure. `Sound` is what holds even in
the middle of a teardown, `Good` what holds between handlers. One lemma per
library function shows that it takes a `Good` (or `Sound`) record to a `Good`
one; one lemma per group of actions applies them; `NextGood` collects them.

For `StallTheorem` and `ListenerTheorem` the same is done for `Calm`: one request at
most is under way, and one is under way (or a handshake) as long as the application
has been told nothing. `ListenerContract` is then a refinement: `Hears` lists what
the application hears in one step, and each case is a step of
`ConnectionListener` or none.

### 4.2 Stream management

`Careful` is an application and a server that stay off the rows of section 6.1:
one thread sends, by `send( Stanza& )`, not in `onConnect()`, while offline or on a
finished stream; it leaves when all is acknowledged; the server does not close the
stream itself. How many stanzas and connections, when either end acknowledges,
and whether the server forgets a session, are free. `transfers` is such a case.

What makes `QueueSound` inductive is where every stanza is. `IInv` says that
`server.got`, the stanzas of `up` and those only in the queue are consecutive
parts of `accepted` (`Flowing`, by `Carries`), what a request or an answer on its
way still means when it is read (`UpMeans`, `DownMeans`), that what the server says
of a session is about this one and comes before its stanzas (`Answering`,
`Behind`), and that the server has the session while the client has it
(`Attachment`). The lemmas about
`Carries` (appending, reading the first, cutting at a loss) are proved once.
`Reliable` shows of each action that it accepts a stanza, delivers the next one,
ends the session, or is none of them.

`SendersCounted` is about the opposite: two threads that send at any moment, `send( Tag* )`,
sending inside `onConnect()`, `disconnect()` and the end of the stream whenever they
come. Nothing is asked but that the connection is the only one (`OneConnection`): a
resumption that comes between the two halves of `send()` finds the stanza neither
numbered nor kept (section 6.1). `SendersInv` follows the one step of the negotiation
that is under way (`OneStep`), because the counter and the queue are untouched until it
is over (`Untold`), and what tells that the server opened the session, and ended it
(`Opened`). The books of an enabled session are then those of `Books`: the stanza between the two
halves is one of the session's and not kept, and a new stanza is in neither, so that a
number never meets a stanza that has one. They are kept until the server ends
the session, which the client may learn of later (`Booked`).

### 4.3 In-band bytestreams

`Distinct == Faults = {} \/ MaxBlocks <= MaxSeq + 1`: the receiver knows blocks only
by their number modulo 65536, so that exactly 65536 blocks lost in a row would go
unnoticed. Without faults any number of wraps is covered. `Orderly` excludes what
section 6.2 shows: stanzas that bounce, empty blocks, messages, and `close()` before
the stream is open; and a target that closes sends its request to itself. The
properties fail with any of them. `MaxBurst`, `MaxSeq` and `MaxBlocks` are free.

`IInv` counts: what the receiver has, the blocks on their way and what the sender
made are consecutive, the acknowledgements on their way are of blocks received and
come in order (`Coming`), and a stream is opened by one request (`Opening`).
`Tracked` says where the requests are: each is under way once, as itself or as its
answer, under an id in the `pending` of its sender. `Closing` is what the ends know
of each other: the initiator's stream is open no longer than the target's, the
target's after it only until it has the request to close. `EndsMatch`
speaks of states in which nothing is under way, and in those `Closing` leaves no
other case.

### 4.4 Threads, descriptors and addresses

`TcpTheorem` needs no hypothesis: any number of threads, calls and connections.
`LocksHold` says that mutexes are returned and that a descriptor given to `select()`,
`recv()` or `send()` stays open. `TcpInv` makes it inductive: a mutex is owned by a
thread exactly while its program counter is in the section the mutex covers
(`SendSection`, `RecvSection`), and a descriptor is in use only in such a section.
A program counter comes back from a stack, so the invariant is also about that:
no label to return to (`Backs`) is inside a section, and whatever is inside a
function has somewhere to return to (`CanReturn`). `Calls`, `Enters` and `Returns` are
the lemmas on it, `Moves` what a step of one thread leaves of the others. The
closing of a descriptor is safe because `cleanup()` has both mutexes when it closes.

`DialInv` counts what is left of one call of `DNS::connect()`: tried and left are
together what was offered, the list of what to try is not empty before the call is
over, and the open descriptors are those handed over and the one in hand, which is
another. `DefaultHostMap` is why the list is never empty at first
(`HostsKnown`).

### 4.5 Link-local references and IQs

`LinkInv`: references are handed out once (`handed` counts), those of the manager's
and the client's fields that are given back at different times differ (`LinkApart`),
and each is known to the responder while its field says so (`LinkHeld`). The client
polls whichever of two is `current`, which is why that one has a clause of its own.
`~StopsInside`: browsing stopped inside a batch leaves the rest of it to the next.

`IqInvariant` follows a request from its entry to the end of its answer's dispatch:
it has an entry as long as it waits, unless it was forgotten (`Tracks`); one answer
is on its way to it, or is being dispatched, and not both (`OneAnswer`); its handler
has been called as often as that says (`Counts`); the mutex of the extension handlers
is held exactly by the dispatch of a request (`Locked`), so that a second thread that
registers or removes meets no loop in the list. The number of ids, askers, servants
and requests is free. `~ForgetsInside` and `~ForgetsBeside`: a `removeIDHandler()` during
the call erases the entry that `notifyIqHandlers()` uses afterwards (section 6.2). The
run `delivery` satisfies all three.

In the composition one part runs and the others rest: a step of `DeliveryNext` is a
step of each part or leaves it alone (`PartsStep`), so that the invariants of the
parts hold together.

### 4.6 BOSH

`IInv` holds with any faults, modes, limits, stanzas, restarts and connections. It
says where each connection object is (`Placed`: in the pool or in use, never in
both, and in use only while it has requests or is being opened), and follows
the bytes: what `recv()` took into the one buffer and what its connection has not yet
been read of are together a `Line` of answers in the order of their requests, and
the connections in use are in that order, too (`Across`), which is why an answer is
never taken for another's. `Slots` ties `m_openRequests` to what is under way,
`Turns` says what the loops in `recv()` may still find after a handler was called
and the session ended under them. `Over` is what is left of all this then.

The operators on the world follow the methods' calls, and so do the lemmas: each
says what its method makes of a world, from `Onward` (more requests are under way,
nothing else) for those that send to `Ended` for those that close. `StanzasOnce`
adds `Kept`, where each stanza is; it needs `Careful`, because `m_sendBuffer` is
left out of a request that restarts the stream.

`NoLoss` excludes that a connection ends before its time once the session has begun:
a request lost with it keeps its place in `m_openRequests`, and its number is never
sent again (section 6.1). Without losses every number counted as open is under
way on some connection (`Gapless`), and a connection at its end has an answer that
ended it (`Lasting`). As the numbers also follow each other on and across
connections, the requests under way are in bijection with the ages below
`m_openRequests`. `bosh_session` satisfies `NoLoss`, `services` does not.

### 4.7 Lists of handlers and sessions

`ListsRespected` is an application that registers a handler once for a thing and
removes itself, while called, only from the list that is copied before it is walked
by JID. `ListInv` says where the iterator is: while a handler is called it is at
that handler's node, or past it where the loop increments first (`Calling`), and
of those entitled, the ones before it have had the stanza and the ones from it on
have not (`Served`). Erasing a node moves all behind it, whence `PartWithout`, the
lemma on a sequence without one of its places.

`ConvInv`: sessions made for a message are `Apart` by contact and type, and what a
session may still send is for the last message it got and was not sent for
it (`Numbered`), so that an event is sent once although every message overwrites what
the one before it asked for.

`MCServices` runs one of its parts at a time. `ServicesProofs` shows that an
initial state and a step of it are those of the part or leave the part alone, for the
instance that the part's proofs are about, and takes the theorems over. Its
constants satisfy all hypotheses named above except `NoLoss`, which none of the five
needs.

### 4.8 The two ends of a session and of a transfer

`JingleInTurn` is an application that waits for the answer to what it sent before it
acts again, keeps its session object, and a network that bounces at most the
`session-initiate`. Then at most one message is under way, and `JingleInv` says to whom:
either nothing is under way and both ends are in one state (`Quiet`), or a message comes
to an end that is where its sender was before it sent it (`ComesTo`). Without the
hypothesis two actions cross and the ends differ for good (section 6.2).

A file transfer has no hypothesis. `FtInv` names its stages: the offer is made and
answered (`Asking`), no stream will come of it (`Without`), the receiver has the hosts
and tries them (`Opening`), it used one and the sender will hear which (`Used`), and
the stream runs `Direct` or `Proxied`. Each stage says what is under way to whom, whether
the offered hosts still wait for a connection, and what each end was told (`Calm`,
`Unopened`, `WasOpened`, `Relayed`). That the host sent is the host used is the step
from `Used` to `Direct`. `TurnsKept` is what `ToldInTurn` says, stated of how often an
end was told a thing and in which order.

### 4.9 Questions and answers

`RequestsRespected` is an application that cancels nothing inside a callback, keeps the
managers whose entries elsewhere outlive them (`PubSub::Manager`, `Disco`, `Adhoc`,
`FlexibleOffline`) and does not ask Adhoc for support of commands, whose answers are
found by context or remote and so may be another's. `Telling` asks only what its manager
speaks of whatever the answer is; the operations that are left out are listed in
section 6.2. `AskedInTurn` asks Adhoc for the commands of a party only when it has told
of its last answer from that party: `asked_again` shows what happens otherwise.
`services` satisfies all three.

`ReqInv` follows a question through three maps: `m_iqIDHandlers` (`waiting`), Disco's map
if it is asked through Disco, and the manager's own. An entry is of a question under way
(`EntriesKnown`), and a question under way finds its entry unless it was cancelled
(`Awaited`). Adhoc is the exception: it takes the answer to `getCommands` for the first
question to the same service, so an entry may outlast its own answer. That none is left
in the end, and everybody was told, is a matter of numbers: `EnoughCome` says that Adhoc
never keeps more entries for a service than answers of that service are to come, which
a result keeps up because it takes one entry, and an error because it takes them all.
`ToldRight` and `Reached` are then what `AskerTold` says, of every moment, but for whose
answer it was. That is `OwnAnswers`: with `AskedInTurn` Adhoc keeps one question for
commands of a party at a time, the one the answer belongs to, so what it finds by the
party is what it would have found by the id. `Served` shows
that the requests received are in the replies or in one session of Adhoc, never in both.

### 4.10 The roster and a room

The properties speak of the moment when nothing is on its way; the invariants of
`BooksProofs` say of every moment what will be so then. `Latest(q, k, M, OK, s, F)` is
the form they share: of the first k messages of q that are in M the last is in OK, or
there is none and what is there already, s, is in F. A message added at the end or taken
from the front keeps it (`LatestQuiet`, `LatestTold`, `LatestTaken`), whatever M is.

The roster has no hypothesis. `AllBooked` says for each contact that what is under way
gives it the server's name (`Agrees`), that no presence comes before its item is there
(`HeardOf`), and that a resource is shown in the end exactly when it is present
(`Shows`). It holds once the server has the roster request (`Interested`); `RosterLink`
is what makes it so: nothing else is sent before the request, the answer to it comes
first, and no second one comes.

`RoomInTurn` is an application that awaits the answer to each presence, with a room
whose name is known. Without the first a second nickname is put into `m_newNick` before
the first is granted. A `UniqueMUCRoom` joins when any IQ of the room's name is
answered, also one that was sent before the user left. In `MucInv` one presence is under
way or its one answer (`AnsweredInTurn`), and it is the first thing sent; the room will hear
of a user who left, also when the presence that lets him in is still to come
(`LeftIsHeard`); and no answer under way would give the object another name than the room
has (`Placed`, `Misnaming`), while the last role told is the room's. `services`
satisfies the hypothesis. `Contacts` and `Resources` are finite, and the values for
"no name" and "no nickname" are none of the names: assumptions of the two modules.

### 4.11 What is only model-checked

- Liveness, which is out of the prover's reach: `Concludes`, `Delivered`,
  `WholeTransfer`, `ThreadsConclude`, `HandshakesEnd`, `SecondThreadReturns`,
  `KeepsTalking`, `SentAtLast`;
- `TagsSound`, `PiecesJoin` and `ExtensionsKept`: what the recursive operators of
  `Tags`, `XmlParser`, `TagPath`, the stanzas, `Digests` and `Jid` compute, which
  needs induction over data;
- `LayersSound` of `MCDelivery`: `CodedSoundly` is of that kind, and `HeardInTurn`
  filters a sequence, a definition by recursion of which the prover knows nothing;
- `ManagedSoundly` of `ClientStream`, which is about callbacks that disconnect, where
  the argument by functions that end `Good` does not apply.

## 5. Assumptions of the models

- The peer conforms to its protocol, except where an action says otherwise
  (refusals, a stream closed or cut, bounces and losses of `InBandBytestream`,
  initiations a server returns, hosts that cannot be reached).
- `InOrder` of `InBandBytestream` is checked with fewer blocks lost in a row
  than there are sequence numbers: a run of exactly 65536 lost blocks would not
  be noticed, by the code either.
- `transfers` describes an application that behaves as the documentation of
  stream management assumes: it sends with `send( Stanza& )`, not inside
  `onConnect()`, not while a session is being enabled or resumed, from one
  thread, and calls `disconnect()` only with an empty queue. What happens
  otherwise is in section 6.
- `Concludes` promises nothing of a client that wants stream management, or of which
  an earlier stream left the context of stream management or half an element behind:
  section 6 has the behaviours that stop there.
- The BOSH runs have a client that restarts the stream as `ClientBase` does: in
  answer to the last thing under way, with nothing buffered, and silent until the
  restart is sent (`Careful`). In `bosh_session` a connection that answered once
  is not lost.
- One BOSH session for each object. `connect()` resets neither `m_openRequests`
  nor the buffers nor the lists, so in pipelining mode a second `connect()` takes
  the closed connection out of `m_activeConnections` and stays in
  `StateConnecting` (connectionbosh.cpp:566).
- In `delivery`, proxies answer in one piece for SOCKS5 and in any pieces
  otherwise, sends succeed in the handshake, a connection object is not used again
  after a failed one, and OpenSSL serves one connection; handlers are not removed
  while they are called. In `services`, the application awaits what it asked of a
  room and of a Jingle session, does not ask Adhoc for commands again before it was
  told (`AsksAgain`), and cancels and deletes nothing inside callbacks.
  Each is a constant; section 6 says what happens with the other value.
- Where the code loses something of a stanza always, `Kept...` takes it out of what
  `codecs` compares; section 6 lists what that is. Samples hold no value a writer
  refuses only to write (those that are refused whole are there).
- `XmlParser` knows numeric references, decimal and hexadecimal, to the characters
  its symbols stand for. The signs and white space that `strtol()` accepts in one are
  left out.

## 6. Where code and documentation disagree, and what the models had to leave out

Four runs are counterexamples, described under "findings" in `PROJECT.json`:

- `enable_refused`: a refused `<enable/>` ends the negotiation without a
  callback (client.cpp:354).
- `tcp_half_open`: `cleanup()` that finds a mutex taken leaves the socket open
  and the state connected (connectiontcpbase.cpp:166).
- `asked_again`: an error to one request for the commands of a party is given to
  everybody who asked that party, and the answer to the next request then to nobody
  (adhoc.cpp:411), against "in case the respective request returned an error"
  (adhochandler.h:60).
- `copy_equal`: `==` asks whether two elements have a list of attributes or of
  children, not what is in it (tag.cpp:281). A list that was emptied stays, and
  `clone()` makes none, so a copy of an element that lost its last child is not equal
  to it (tag.h:529, 571).

The models show more of them. Each is reproduced by changing constants of a
configuration and checking the property named. A property of `HandlerLists`,
`Conversation`, `StreamPieces` or `Jid` is checked in that module alone, with the
constants that `MCServices` or `MCCodecs` gives it.

### 6.1 The stream and what is below it

| Behaviour of the code | Documentation | Start from, and change | Property |
|---|---|---|---|
| after a first resumption the context is `CtxSMResumed`, for which `sendStreamManagement()` does nothing: a second loss is not resumed (client.cpp:630) | "will try to resume", client.h:109 | `enable_refused`: `Refusals = {}`, `ServerEnds = FALSE` | `ResumesAfterLoss` |
| `setStreamManagement()` on a bound connection asks whether or not the server offers it (client.cpp:610) | "only when allowed", client.h:211 | `enable_refused`: `Refusals = {}`, `SMAnyTime = TRUE` | `SMRequestsAllowed` |
| a stream lost after `<enable/>` leaves `CtxSMEnable`: the next connection neither enables nor announces itself (client.cpp:621) | client.h:109 | `conclusion`: `Concludes` without `c.smWanted` and `c.smContext` | `Concludes` |
| a late `<enabled/>` after `disconnect()` leaves `CtxSMEnabled`: the next stream neither binds nor connects (client.cpp:646) | connectionlistener.h:42 | as above | `Concludes` |
| a connection cut inside an element leaves the parser in it; the new stream is read as its content when the server sends no XML declaration (parser.cpp:775) | parser.h:80 | `conclusion`: `Concludes` without `c.parser` | `Concludes` |
| `disconnect()` inside `onResourceBind()` is followed by the rest of the handler (client.cpp:583) | connectionlistener.h:42 | `negotiation`: `Reentrant = {"onResourceBind", "onMessage"}` | `ConnectsOnce` |
| the closing tag fails to be written: `onDisconnect()` comes from the connection and again from `disconnect()` (clientbase.cpp:434) | connectionlistener.h:50 | `negotiation`: `SilentDeath = TRUE` | `DisconnectsOnce` |
| `send( Tag* )` is counted by the server and not by the library (clientbase.cpp:1033) | client.h:110 | `transfers`: `SendsTags = TRUE` | `NothingLost` |
| stanzas sent between `<enable/>` and `<enabled/>`, or during a resumption, are counted by the server only (clientbase.cpp:1048) | client.h:110 | `transfers`: `SendWhen = {"online", "enabling", "resuming"}` | `NothingLost` |
| a stanza sent inside `onConnect()` after a resumption overtakes the queue (client.cpp:341) | client.h:110 | `transfers`: `OnConnectSends = TRUE` | `ReliableDelivery` |
| the queue survives `disconnect()` and a new session numbers over it (clientbase.cpp:447) | client.h:114 | `transfers`: `QuitWhen = {"unacked"}` | `NothingLost` |
| `disconnect()` while offline forgets the session but not `m_smSent` (client.cpp:627) | clientbase.h:867 | `transfers`: `QuitWhen = {"offline"}` | `QueueNumbered` |
| a session the server closed is resumed (client.cpp:189) | "neither user-triggered nor server-triggered", client.h:109 | `transfers`: `ServerCloses = TRUE` | `ResumesUnexpected` |
| acknowledgements are written while a resumed stream is still negotiating (client.cpp:644) | client.h:225 | `transfers`: `AcksAnyTime = TRUE` | `AcksWhenAllowed` |
| two threads: stanzas are numbered in another order than written (clientbase.cpp:1041) | "safe ... without additional synchronization", bytestreamhandler.h:65 | `codecs` | `NothingLost` |
| a connection lost and resumed between the two halves of `send()`: the stanza is neither numbered nor kept (clientbase.cpp:1048) | as above | `codecs`: `MaxConnects = 2` | `SendersCounted` |
| a failing `send()` and a failing `recv()` both announce the end (connectiontcpbase.cpp:152) | connectionlistener.h:50 | `delivery` | `ToldOnce` |
| `connect( host )` returns a connected descriptor without `freeaddrinfo()` (dns.cpp:259) | dns.cpp:265 does it | `delivery` | `ListsFreed` |
| a component that was connected once is `authed()` on its next stream before the handshake (component.cpp:57) | clientbase.h:293 | `delivery` | `AuthedIsConnected` |
| SOCKS5 answers are read as if each came in one piece (connectionsocks5proxy.cpp:231-250) | connectiondatahandler.h | `delivery`: `Cuts = {"socks5"}` | `HeardInTurn` |
| a send that fails inside the handshake tells the end, and the handshake goes on (connectionsocks5proxy.cpp:331, connectionhttpproxy.cpp:198) | connectiondatahandler.h | `delivery`: `SendFails = TRUE` | `HeardInTurn` |
| the HTTP proxy's buffer survives a refused handshake: the next one is refused for the old answer (connectionhttpproxy.cpp:136-157) | connectionbase.h | `delivery`: `Reuses = TRUE` | `RefusedAfresh` |
| GnuTLS drops what is encrypted before the handshake ended (tlsgnutlsbase.cpp:44-49), OpenSSL keeps it | tlsbase.h | `delivery`: `Early = {"gnutls"}` | `CodedSoundly` |
| OpenSSL's `cleanup()` keeps the session, and `init()` runs once: a second connection does no handshake (tlsopensslbase.cpp) | tlsbase.h | `delivery`: `Reused = TRUE` | `CodedSoundly` |
| GnuTLS's `cleanup()` keeps `m_recvBuffer` (tlsgnutlsbase.cpp:91) | tlsbase.h | `delivery`: `Quitting = {"gnutls"}`, or `Eager = {"gnutls"}` | `CodedSoundly` |
| OpenSSL's loop goes on handing over records after its handler cleaned up (tlsopensslbase.cpp:163) | tlsbase.h | `delivery`: `Quitting = {"openssl"}` | `CodedSoundly` |
| a refused GnuTLS handshake ends the session, `cleanup()` does it again (tlsgnutlsbase.cpp:98-102, 125) | tlsbase.h | `delivery`: `Refused` of GnuTLS and a peer | `CodedSoundly` |
| SChannel that cannot learn its sizes reports a failure and then a success (tlsschannel.cpp) | tlshandler.h | `delivery`: `Refused` of SChannel and sizes | `CodedSoundly` |
| browsing stopped in a batch: the rest of it is told with the next one (linklocalmanager.cpp) | linklocalhandler.h | `delivery`: `StopsInside = TRUE` | `BatchesWhole` |
| `ConnectionTCPServer` takes a socket whose `bind()` failed for one that listens (connectiontcpserver.cpp:85, 132) | connectiontcpserver.h | `delivery` | `ListeningIsTrue` |
| BOSH: `disconnect()` empties the send buffer whether or not the request left; it is not empty just when no request can leave (connectionbosh.cpp:144) | "Make sure that any data in the send buffer gets sent", connectionbosh.cpp:139 | `bosh_session` | `FlushedAtEnd` |
| BOSH: after a connection was lost the mode changes, but the lost one stays first in the list that `recv()` reads (connectionbosh.cpp:449) | "gloox will fall back to using HTTP/1.0 connections, which should work with any server", connectionbosh.h:140 | `bosh_session`: `Faults = {"loss"}` | `AnswersRead` |
| BOSH: a restart waiting to be sent is dropped by the answer to an earlier request (connectionbosh.cpp:470) | "Set to true if we are waiting for an acknowledgement of a stream restart", connectionbosh.h:208 | `bosh_session`: `Careful = FALSE` | `SentAtLast` |
| BOSH: a restart is sent without the buffer, which is then emptied (connectionbosh.cpp:260) | "so added to buffer", connectionbosh.cpp:268 | `bosh_session`: `Careful = FALSE`, `Faults = {"refuse", "close"}` | `StanzasOnce` |

Read while modelling, without a property: a handshake's last TLS record and the
data behind it in one piece leave the data waiting for the next piece, in all
backends; `gnutls_record_send()` that fails with `GNUTLS_E_AGAIN` is added to the
count of bytes sent (tlsgnutlsbase.cpp:57); compressionzlib.cpp:29-45 initialises
`m_zinflate` twice in part; the SRV records of a domain end in a map ordered by
name, so priority and weight are lost and each name has one port (dns.cpp:137-150),
and the `getaddrinfo()` build asks for no SRV record; `connect( host, port )`
compares with -1 what is -`ConnConnectionRefused` (dns.cpp:424) and goes on with
that as a descriptor; the HTTP proxy looks for the status at a place an answer
shorter than nine bytes has not; DIGEST-MD5 "is preferred over all other
mechanisms" (client.h:87), while `Client::login()` tries SCRAM first
(client.cpp:479).

### 6.2 Stanzas, services and transfers

| Behaviour of the code | Documentation | Start from, and change | Property |
|---|---|---|---|
| `removeIDHandler()` inside the callback, or from another thread meanwhile, erases the entry that is then used (clientbase.cpp:1643) | "necessary ... when closing a GUI element", clientbase.h:441 | `delivery`: `ForgetsInside = TRUE`, or `ForgetsBeside = TRUE` | `EntriesHold` |
| a handler registered twice, or removing itself from a list without a copy, invalidates the loop's iterator (clientbase.cpp:1559-1635) | clientbase.h | `HandlerLists`: `Twice = TRUE`, or more in `SelfRemoval` | `IteratorsHold` |
| a chat state set while no session exists, or equal to the last one sent before the contact asked, is not sent (chatstatefilter.cpp:51) | chatstatefilter.h:60 | `Conversation` | `StateShown` |
| `m_self` keeps the resources of an earlier connection: one that left meanwhile stays (rostermanager.cpp) | rostermanager.h | `services` | `SelfMirrors` |
| a push overwrites an item changed locally, and the mark that it waits for `synchronize()` (rostermanager.cpp) | rostermanager.h | `services` | `RenameKept` |
| being kicked, an unavailable presence for oneself, leaves `m_joined` set (mucroom.cpp) | mucroom.h | `services` | `JoinedMirrors` |
| `instantRoom()` resets `m_creationInProgress` when it asks: refused, the room stays locked and nothing opens it any more (mucroom.cpp) | "The room will stay locked until", mucroomhandler.h:139 | `services` | `LockedCanOpen` |
| a room opened by `setRoomConfig()` leaves `m_creationInProgress` set: `acknowledgeInstantRoom()` is still sent (mucroom.cpp) | "This is a NOOP at any other time", mucroom.h:664 | `services` | `CreatingIsLocked` |
| one `m_newNick` for two requests under way (mucroom.cpp:912) | mucroom.h | `services`: `Patient = FALSE` | `NickMirrors` |
| Adhoc finds an answer by context: two questions to one service meet (adhoc.cpp:363) | adhochandler.h | `services`: `Ops = {"checkSupport", "execute"}`, or `AsksAgain = TRUE` (`asked_again`) | `AskerTold` |
| PubSub: answers that no branch of `handleIqID()` has are dropped (pubsubmanager.cpp) | pubsubresulthandler.h | `services`: `Ops` one of `{"subscribe"}`, `{"deleteItem"}`, `{"setSubscriptionOptions"}`, `{"getSubscribers"}` | `AskerTold` |
| nobody is told of unsetting an active list, of the number of offline messages, or of stored bookmarks (privacymanager.cpp, flexoff.cpp, bookmarkstorage.cpp) | their handlers | `services`: `Ops` one of `{"unsetActive"}`, `{"getMsgCount"}`, `{"storeBookmarks"}` | `AskerTold` |
| `cancelVCardOperations()` inside the callback erases the entry that is then used (vcardmanager.cpp:125) | vcardmanager.h | `services`: `CancelsInside = TRUE`, `Ops = {"fetchVCard"}` | `NothingDangles` |
| destructors that leave their handlers with `ClientBase` and `Disco` (pubsubmanager.h:94, adhoc.cpp) | clientbase.h:441 | `services`: `Deletes = {"PubSub"}`, or `{"Adhoc"}` | `NothingDangles` |
| PubSub keeps the node of a question for ever (pubsubmanager.cpp) | pubsubmanager.h | `services`: `Ops = {"getNodeConfig"}` | `NodesForgotten` |
| a session is announced for an action that is none of its beginnings (jinglesessionmanager.cpp:90-96) | jinglesessionhandler.h | `services`: `Waits = FALSE`, `Lists = FALSE` | `OnlyInitiateAnnounced` |
| any action sets the state, in any state (jinglesession.cpp:429) | jinglesession.h | `services`: `Waits = FALSE`; or `Keeps = FALSE`, `Bounced = {"session-accept"}` | `SessionsAgree` |
| a stream is told as open twice (socks5bytestream.cpp:105, 146) | socks5bytestreamdatahandler.h | `services` | `OpenedOnce` |
| ... and as open when its activation came after its end (socks5bytestreammanager.cpp:414) | bytestream.h:88 | `services` | `OpenIsLinked` |
| a receiver that can connect to no host answers nothing (socks5bytestream.cpp:85) | socks5bytestreammanager.h | `services` | `FailureAnswered` |
| `close()` on the target's side sends its request to the target itself (inbandbytestream.cpp:300) | bytestream.h:88 | `transfers`: `Closers = {"target"}` | `EndsAgree` |
| `close()` before the stream is open: the late result reopens it (inbandbytestream.cpp:154) | bytestream.h:70 | `transfers`: `ClosesEarly = TRUE` | `EndsAgree` |
| the opening end is told before `m_open` is set: `send()` in that callback fails (inbandbytestream.cpp:153) | bytestreamdatahandler.h:78 | `transfers` | `ReadyWhenTold` |
| a block out of sequence closes the stream without a callback (inbandbytestream.cpp:196) | bytestreamdatahandler.h:85 | `transfers`: `Faults = {"bounce"}` | `ToldOfEnd` |
| an error is sent twice, by the handler and by the dispatcher (inbandbytestream.cpp:208) | iqhandler.h:42 | `transfers`: `EmptySends = TRUE` | `AnsweredOnce` |
| a refused request to open is not reported (inbandbytestream.cpp:162) | bytestreamdatahandler.h:70 | `transfers`: `Faults = {"bounce"}` | `RefusalTold` |
| messages are compared with the number of the block before (inbandbytestream.cpp:229) | inbandbytestream.h:38 | `transfers`: `Messages = TRUE` | `MessagesReceived` |
| "/@" in an address: '@' is looked for first, so a resource with '@' and no user is read as a server (jid.cpp:30-31) | jid.h:50 | `Jid` | `SlashFirst` |
| `setJID()` that fails half-way leaves new parts beside old strings, and a later setter makes them valid (jid.cpp:33-46) | jid.h:50 | `Jid`: `Reuses = TRUE` | `JidSound` |
| the parser's `cleanup()` keeps `m_quote` and `m_backBuffer`: a stream that broke in a reference spoils the next (parser.cpp:775) | parser.h:80 | `StreamPieces`: `Reconnects = TRUE` | `PiecesParse` |

Read while modelling, without a property: `honorTID` decides more than its
comment says and a session that was "upgraded" once may be again
(messagesession.h:165-168); chat states are never disabled again; a
stream initiation's result without `<si/>` tells nobody and keeps its entry
(simanager.cpp), and a peer's IQ with the id of a request of ours is refused;
`m_asyncTrackMap` and `m_id2sid` are never emptied, a second request with a sid in
use replaces the entry (socks5bytestreammanager.cpp:352), a stream is disposed of
by sid, and the server accepts a request only whole
(socks5bytestreamserver.cpp:207); `iq.error()` may be null at privacymanager.cpp:294
and flexoff.cpp:165; vCard requests are told apart by bare JID in a map of ids;
`UniqueMUCRoom::handleIqID()` takes results meant for `MUCRoom`; MUC's
`StoreOwnerList` has no result; `Jingle::SessionManager` does not take its IQ handler
back. `EventDispatcher` has no way to fill `m_typeHandlers`.

### 6.3 What is lost between the two ends of a stanza

The definitions `Kept...` say what survives, from what the writers and readers do.
`codecs` checks that all the rest does. Lost or changed are:

| Part | What | Where |
|---|---|---|
| texts with languages | `xml:lang` is looked for by that name, the parser keeps name and prefix apart: each language replaces the default | stanza.cpp:87, parser.cpp:717 |
| stanzas | `Presence` and `Subscription` write no id; a copied `Error` has no texts, and its filter for subscriptions matches nothing | presence.cpp, subscription.cpp, error.cpp |
| the parser | two white-space characters between stanzas enter the next text; `"` ends a value that began with `'`; references from U+10000 to U+FFFFF are refused; so is white space in a closing tag | parser.cpp:83, 576 |
| `Tag` | `==` is not symmetric, and tells a list that was emptied from none (`copy_equal`); `removeAttribute( "xmlns" )` keeps `m_xmlns`; `removeChild()` keeps the child's parent | tag.cpp |
| paths | a predicate tests the element itself, indices inside a path and `)` are misread | tag.cpp:811-1370 |
| forms | a copy loses its items; a form for options is made of a null pointer | dataform.cpp, pubsubmanager.cpp |
| embedded stanzas | "/command/note", "/amp/rule", "/query/destroy/..." are asked of the outer stanza | adhoc.cpp:142, amp.cpp:135, mucroom.cpp:238 |
| `Adhoc::Command` | the default action is written as an attribute that is not read; one constructor leaves `m_status` unset | adhoc.cpp:190 |
| rooms | reasons of `MUCAdmin` items, flags of a `MUCUser` without item, the decliner's address; `MUC` is read only under the namespace of `MUCUser`; a copied `MUCOwner` writes nothing | mucroom.cpp:404, 557, 863 of mucroom.h |
| PubSub | "sid" against "subid", publish-options read as an item, a configuration read as a request for one, the singular subscription; a copied `Event` loses its subscription | pubsubmanager.cpp:431, pubsubevent.cpp |
| vCards | sort string, product id and labels; an image set after a URI | vcard.cpp:168-181, 253-268 |
| transfers | modes and types of a SOCKS5 query, the default MIME type, Jingle's reasons, ranges; members left unset | socks5bytestreammanager.cpp, simanager.cpp, jinglesession.cpp, jinglefiletransfer.cpp |
| others | privacy's order, search's values, offline queries, a copied roster item's subscription; `MessageEvent` with an id becomes invalid; `RosterX` is read from every `<x/>` once a `RosterManager` exists; copies of `Carbons`, `RosterX` and `Content` are null pointers; `IOData` gives its children to the printed tag | privacymanager.cpp, search.cpp, flexoff.cpp, rosteritemdata.h, messageevent.cpp, rosterx.cpp |
| digests | MD5 can be fed after it was finalized, SHA then answers `binary()` but not `hex()`; `decode64()` does not skip line breaks | md5.cpp, sha.cpp, base64.cpp |

## 7. Plan and what is not modelled

A proof that could follow: `ManagedSoundly` of `ClientStream`.

Not modelled:

- the libraries below: TLS, zlib, libidn, the resolver, mDNS and sockets have the
  outcomes they may have, and nothing inside them. Keys and certificates, and the
  accepted connections of `ConnectionTCPServer` and `ConnectionTLSServer`, which
  are a loop over `accept()` and the same layer from its other end;
- callbacks without state: disco node handlers, PubSub events, MUC messages and
  invitations. They are in `StanzaWire` as far as the data goes;
- the digest of entity capabilities over a list of features, for which `Digests` is
  the part that can go wrong; `logsink.cpp`, `atomicrefcount.cpp`, `gloox.cpp` and
  the test for UTF-8 in `util.cpp`;
- a second BOSH session on one object, and more than one SOCKS5 stream with a
  sid;
- the services in one state space with the stream: a lost connection reaches them
  only in `Roster`. What an entry of `m_iqIDHandlers` does across connections is
  in `IqDispatch` (`Ids` used again).
