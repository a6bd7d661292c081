------------------------------ MODULE Resolver ------------------------------
(***************************************************************************)
(* How a host becomes a connected descriptor (src/dns.cpp): the SRV        *)
(* records of a domain, the addresses of a host, a socket and a connection *)
(* for each of them in turn until one is there, in a build with            *)
(* getaddrinfo() and in a plain one.  The connection that asked closes its *)
(* descriptor later (src/connectiontcpbase.cpp:166-187).  Lookups, sockets *)
(* and servers are external and may fail at any step.                      *)
(***************************************************************************)
EXTENDS Naturals, Sequences, FiniteSets, SequencesExt

CONSTANTS Lookups,      \* of "addrinfo", "plain"
          SrvAnswers,   \* what the name server may answer: sequences of records
          NameOrder,    \* the names of hosts, in the order of strings
          Domain,       \* one of them
          MaxAddresses, \* bound on the addresses of a host
          MaxOpen       \* bound on the descriptors

(* A record is a name, a port and whether its name can be read.              *)
ASSUME ResolverAssumption ==
    /\ Lookups \subseteq {"addrinfo", "plain"}
    /\ NameOrder \in Seq(STRING) /\ Domain \in ToSet(NameOrder)
    /\ \A s \in SrvAnswers : \A i \in DOMAIN s :
         s[i].name \in ToSet(NameOrder) /\ s[i].port \in Nat /\ s[i].readable \in BOOLEAN
    /\ MaxAddresses \in Nat \ {0} /\ MaxOpen \in Nat \ {0}

VARIABLES dial,        \* a call of connect(), and how it went
          descriptors, \* those open
          given        \* those returned and not closed by their connection

resolverVars == <<dial, descriptors, given>>

None == 0
XmppPort == 5222

ResolverTypeOK ==
    /\ dial.step \in {"idle", "socket", "lookup", "connect"}
    /\ dial.build \in Lookups /\ dial.result \in {"none", "dns", "refused", "connected"}
    /\ dial.fd \in 0..MaxOpen /\ dial.holds \in BOOLEAN
    /\ descriptors \subseteq 1..MaxOpen /\ given \subseteq descriptors

-----------------------------------------------------------------------------
(* SRV records.  The map has one port for a name, the first one inserted,    *)
(* and the order of its names.                                               *)

DefaultHostMap == <<<<Domain, XmppPort>>>>

Usable(records) == {i \in DOMAIN records : records[i].readable}

PortOf(records, name) ==
    LET usable == {i \in Usable(records) : records[i].name = name}
    IN records[CHOOSE i \in usable : \A j \in usable : i <= j].port

Names(records) == {k \in DOMAIN NameOrder : \E i \in Usable(records) : records[i].name = NameOrder[k]}

\* The k-th smallest element of a set of numbers.
Smallest(s, k) == CHOOSE n \in s : Cardinality({m \in s : m <= n}) = k

Resolve(records) ==
    LET names == Names(records)
        name(k) == NameOrder[Smallest(names, k)]
    IN IF Usable(records) = {} THEN DefaultHostMap
       ELSE [k \in 1..Cardinality(names) |-> <<name(k), PortOf(records, name(k))>>]

-----------------------------------------------------------------------------

ResolverInit ==
    /\ dial \in {[step |-> "idle", build |-> b, mode |-> "port", todo |-> <<>>, fd |-> None, holds |-> FALSE,
                  result |-> "none", tried |-> 0, offered |-> 0] : b \in Lookups}
    /\ descriptors = {} /\ given = {}

\* What is to be tried, the list of addresses held or not.
Begun(mode, todo, holds) ==
    [dial EXCEPT !.step = "socket", !.mode = mode, !.todo = todo, !.holds = holds, !.fd = None,
                 !.result = "none", !.tried = 0, !.offered = Len(todo)]

Ended(d, result) == [d EXCEPT !.step = "idle", !.result = result]

Addresses(n) == [i \in 1..n |-> <<Domain, i>>]

(* getaddrinfo(): the host's addresses, at the service's port or the given.  *)
LooksUp(mode, n) ==
    /\ dial.step = "idle" /\ dial.build = "addrinfo"
    /\ dial' = IF n = 0 THEN Ended(Begun(mode, <<>>, FALSE), "dns") ELSE Begun(mode, Addresses(n), TRUE)
    /\ UNCHANGED <<descriptors, given>>

(* connect( host ): the hosts of the domain.                                 *)
FollowsRecords(records) ==
    /\ dial.step = "idle" /\ dial.build = "plain"
    /\ dial' = Begun("host", Resolve(records), FALSE)
    /\ UNCHANGED <<descriptors, given>>

(* connect( host, port ).                                                    *)
GoesTo(port) ==
    /\ dial.step = "idle" /\ dial.build = "plain"
    /\ dial' = Begun("port", <<<<Domain, port>>>>, FALSE)
    /\ UNCHANGED <<descriptors, given>>

(* An address did not do: the next, or the end, where the list is given back.*)
NextOne(d, result) ==
    LET tried == [d EXCEPT !.todo = Tail(@), !.tried = @ + 1, !.fd = None]
    IN IF tried.todo # <<>> THEN [tried EXCEPT !.step = "socket"]
       ELSE Ended([tried EXCEPT !.holds = FALSE], IF d.mode = "host" THEN "refused" ELSE result)

(* getSocket(): a descriptor that is free.                                   *)
SocketOpens ==
    /\ dial.step = "socket"
    /\ \E fd \in (1..MaxOpen) \ descriptors :
         /\ dial' = [dial EXCEPT !.fd = fd, !.step = IF dial.build = "plain" THEN "lookup" ELSE "connect"]
         /\ descriptors' = descriptors \cup {fd}
    /\ UNCHANGED given

(* It returns -ConnConnectionRefused, which connect( host, port ) with       *)
(* getaddrinfo() takes for a socket: it tries to connect it, and closes it.  *)
SocketFails ==
    /\ dial.step = "socket"
    /\ dial' = IF dial.build = "addrinfo" /\ dial.mode = "port" THEN [dial EXCEPT !.step = "connect"]
               ELSE NextOne(dial, "refused")
    /\ UNCHANGED <<descriptors, given>>

(* gethostbyname(), once there is a socket.                                  *)
NameFound ==
    /\ dial.step = "lookup"
    /\ dial' = [dial EXCEPT !.step = "connect"]
    /\ UNCHANGED <<descriptors, given>>

NameUnknown ==
    /\ dial.step = "lookup"
    /\ dial' = NextOne(dial, "dns")
    /\ descriptors' = descriptors \ {dial.fd}
    /\ UNCHANGED given

(* connect( host ) returns without giving the list of addresses back.        *)
Accepts ==
    /\ dial.step = "connect" /\ dial.fd # None
    /\ dial' = [Ended(dial, "connected") EXCEPT !.holds = @ /\ dial.mode = "host"]
    /\ given' = given \cup {dial.fd}
    /\ UNCHANGED descriptors

SlipKeepsSocket ==
    /\ dial.step = "connect"
    /\ dial' = NextOne(dial, "refused")
    /\ UNCHANGED <<descriptors, given>>

Refuses ==
    /\ dial.step = "connect"
    /\ dial' = NextOne(dial, "refused")
    /\ descriptors' = descriptors \ {dial.fd}
    /\ UNCHANGED given

(* The connection that asked is cleaned up.                                  *)
CloseSocket(fd) ==
    /\ dial.step = "idle" /\ fd \in given
    /\ descriptors' = descriptors \ {fd}
    /\ given' = given \ {fd}
    /\ UNCHANGED dial

ResolverNext ==
    \/ \E mode \in {"host", "port"}, n \in 0..MaxAddresses : LooksUp(mode, n)
    \/ \E records \in SrvAnswers : FollowsRecords(records)
    \/ GoesTo(XmppPort)
    \/ SocketOpens \/ SocketFails \/ NameFound \/ NameUnknown \/ Accepts \/ Refuses
    \/ \E fd \in 1..MaxOpen : CloseSocket(fd)

ResolverSpec == ResolverInit /\ [][ResolverNext]_resolverVars

-----------------------------------------------------------------------------

\* The descriptors open are those of connections, and of the attempt under way.
DescriptorsKept == descriptors = given \cup (IF dial.step = "idle" THEN {} ELSE {dial.fd} \ {None})

\* A call fails only when everything there was to try failed.
AllTried == dial.result = "refused" => dial.tried = dial.offered

\* A list of addresses is given back (dns.cpp:255-267).
ListsFreed == dial.step = "idle" => ~dial.holds

\* An attempt costs no descriptor, whatever fails on the way, no address is passed
\* over, and the list of addresses is held no longer than needed, but for the call
\* that succeeds without a port (dns.cpp:244-330, 405-509).
DialSound ==
    /\ DescriptorsKept /\ AllTried
    /\ dial.mode = "port" \/ dial.result # "connected" => ListsFreed
=============================================================================
