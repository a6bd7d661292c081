----------------------- MODULE StreamManagementProofs -----------------------
(***************************************************************************)
(* What holds of StreamManagement for every number of stanzas and          *)
(* connections: the queue and the counters of both directions are right,   *)
(* and upstream the session is a reliable stream, for an application that  *)
(* uses stream management as its documentation assumes.                    *)
(* On one connection the queue and its counter are right for every         *)
(* application, two threads that send at once included.                    *)
(***************************************************************************)
EXTENDS StreamManagement, SequenceTheorems, FiniteSetTheorems, TLAPS

\* One thread sends, with send( Stanza& ), not inside onConnect(), not while a
\* session is enabled or resumed; disconnect() is called with an empty queue
\* only; the server does not end the stream.
Careful ==
  /\ ~SecondSender /\ ~SendsTags /\ ~OnConnectSends /\ ~ServerCloses
  /\ SendWhen \subseteq {"offline", "online"}
  /\ QuitWhen \subseteq {"acked"}

-----------------------------------------------------------------------------
(* Stanzas on their way. *)

\* A stanza of the session; the server numbers what precedes the session 0.
Numbered(e) == e[1] = "stanza" /\ e[2] > 0

\* The stanzas in q are a[from + 1] to a[to]: n[i] is the number of the last
\* one among the first i elements.
Carries(q, a, from, to) ==
  \E n \in [0..Len(q) -> from..to] :
    /\ n[0] = from /\ n[Len(q)] = to
    /\ \A i, j \in 0..Len(q) : i <= j => n[i] <= n[j]
    /\ \A i \in 1..Len(q) :
         IF Numbered(q[i]) THEN n[i] = n[i - 1] + 1 /\ q[i][2] = a[n[i]]
                           ELSE n[i] = n[i - 1]

\* No element of q is of these kinds.
Free(q, kinds) == \A i \in DOMAIN q : q[i][1] \notin kinds

\* At most one is.
Lone(q, kinds) ==
  \A i, j \in DOMAIN q : q[i][1] \in kinds /\ q[j][1] \in kinds => i = j

-----------------------------------------------------------------------------
(* The inductive invariant. *)

\* The values of m_smContext.
Contexts == {"Invalid", "Failed", "Enable", "Resume"} \cup Managed

\* What the client writes.
UpElements ==
  {<<"bind">>, <<"enable">>, <<"r">>, <<"close">>}
    \cup ({"stanza"} \X (1..MaxStanzas)) \cup ({"a"} \X Nat)
    \cup ({"resume"} \X Nat \X Nat)

\* What the server writes: nothing that ends the stream.
DownElements ==
  {<<"features">>, <<"bound">>, <<"failed">>, <<"r">>}
    \cup ({"stanza", "a", "resumed", "enabled"} \X Nat)

\* Maps of numbers; Queued says of which, and to what.
Queues == UNION {[N -> Nat] : N \in SUBSET Nat}

\* The types of both records.
ClientType ==
  [online : BOOLEAN, wanted : BOOLEAN, smContext : Contexts, bound : BOOLEAN,
   told : BOOLEAN, smId : Nat, smSent : Nat, smHandled : Nat,
   smQueue : Queues, up : Seq(UpElements), made : 0..MaxStanzas,
   written : {0}, accepted : Seq(1..MaxStanzas), seen : Seq(Nat),
   losses : Nat, ended : {"never", "lost", "user", "server"}]

ServerType ==
  [session : Nat, resumable : BOOLEAN, attached : BOOLEAN,
   got : Seq(1..MaxStanzas), out : 0..MaxDown, down : Seq(DownElements)]

Types == client \in ClientType /\ server \in ServerType

\* What negotiates a session; one step of it is under way at a time.
UpTokens   == {"bind", "enable", "resume"}
DownTokens == {"features", "bound", "enabled", "resumed", "failed"}

\* One step of the negotiation is under way, in one direction.
OneToken ==
  /\ Lone(client.up, UpTokens) /\ Lone(server.down, DownTokens)
  /\ Free(client.up, UpTokens) \/ Free(server.down, DownTokens)

\* The queue of the stanzas from low + 1 on.
From(q, low) == [n \in (low + 1)..Len(q) |-> q[n]]

\* The queue is what the server has not acknowledged, each under its number.
Queued ==
  \E low \in 0..Len(client.accepted) :
    /\ client.smQueue = From(client.accepted, low)
    /\ client.smContext \in Live => low <= Len(server.got)

\* The counters stay within the bounds, and start from nothing.
Counted ==
  /\ Len(client.accepted) <= client.made /\ client.smHandled <= MaxDown
  /\ client.smSent <= MaxStanzas /\ Len(client.seen) <= MaxDown
  /\ client.smId <= server.session
  /\ client.smContext \in {"Invalid", "Enable"} =>
       client.smSent = 0 /\ client.smQueue = <<>>
  /\ client.smContext = "Enable" => client.smHandled = 0
  /\ client.smContext \in Live =>
       client.smSent = Len(client.accepted)
  /\ ~client.wanted => client.smContext = "Invalid"

\* What the server has is a part of what the client sent, from the beginning.
Taken ==
  client.smContext \in Live =>
    /\ Len(server.got) <= Len(client.accepted)
    /\ \A i \in 1..Len(server.got) : server.got[i] = client.accepted[i]

\* The counter of handled stanzas is the number the application has seen.
Handed ==
  client.smContext \in Live =>
    /\ client.smHandled = Len(client.seen) /\ client.smHandled <= server.out
    /\ \A i \in 1..Len(client.seen) : client.seen[i] = i

\* Without a connection nothing is under way in a session, or before one.
Resting ==
  ~client.online =>
    /\ ~client.told
    /\ client.smContext # "Invalid" => client.up = <<>> /\ ~server.attached

\* Until the application was told, only what negotiates is written.
Tokens ==
  client.online =>
    /\ OneToken
    /\ Free(client.up, {"close"})
    /\ client.told => /\ Free(client.up, UpTokens)
                      /\ Free(server.down, DownTokens)
                      /\ client.smContext \in {"Invalid"} \cup Managed
    /\ ~client.told => Free(client.up, {"stanza"})

\* The server has the session while, or just before, the client has it.
Attachment ==
  client.online =>
    /\ ~client.told /\ server.attached =>
         \E i \in DOMAIN server.down :
           server.down[i][1] \in {"enabled", "resumed"}
    /\ client.told /\ client.smContext \in Managed => server.attached

\* A request on its way still means what it said when it was written.
UpMeans ==
  client.online =>
    \A i \in DOMAIN client.up :
      /\ client.up[i][1] = "enable" =>
           client.smContext = "Enable" /\ ~server.attached
      /\ client.up[i][1] = "resume" =>
           /\ client.smContext = "Resume" /\ ~server.attached
           /\ client.up[i][3] = client.smHandled

\* So does an answer: nothing has changed that would make it stale.
DownMeans ==
  client.online =>
    \A i \in DOMAIN server.down :
      /\ server.down[i][1] = "enabled" =>
           /\ client.smContext = "Enable" /\ server.attached
           /\ server.got = <<>> /\ server.down[i][2] <= server.session
      /\ server.down[i][1] = "resumed" =>
           /\ client.smContext = "Resume" /\ server.attached
           /\ server.down[i][2] = Len(server.got)
      /\ server.down[i][1] = "failed" => client.smContext = "Resume"

\* What the server says of a session belongs to this one.
Answering ==
  client.online =>
    /\ ~server.attached =>
         \A i \in DOMAIN server.down :
           server.down[i][1] # "a" /\ ~Numbered(server.down[i])
    /\ \A i \in DOMAIN server.down :
         server.down[i][1] = "a" => server.down[i][2] <= Len(server.got)
    /\ client.smContext \in Live =>
         \A i \in DOMAIN server.down : server.down[i] # <<"stanza", 0>>
    /\ \A i, j \in DOMAIN server.down :
         server.down[i] = <<"stanza", 0>> /\ server.down[j][1] = "enabled"
           => i < j

\* The stanzas of a session follow what tells the client of the session.
Behind ==
  client.online =>
    \A i, j \in DOMAIN server.down :
      Numbered(server.down[i]) /\ server.down[j][1] \in {"enabled", "resumed"}
        => j < i

\* What is on its way is what the other side has not got.
Flowing ==
  /\ client.online /\ client.told /\ client.smContext \in Managed =>
       Carries(client.up, client.accepted, Len(server.got),
               Len(client.accepted))
  /\ (client.online /\ server.attached
        /\ client.smContext \in Live \cup {"Enable"})
       => Carries(server.down, [k \in Nat |-> k], client.smHandled, server.out)

\* The inductive invariant: none of the conjuncts is inductive without those
\* that say what is on its way.
IInv ==
  /\ Types /\ Queued /\ Counted /\ Taken /\ Handed /\ Resting
  /\ Tokens /\ Attachment /\ UpMeans /\ DownMeans /\ Answering /\ Behind
  /\ Flowing
-----------------------------------------------------------------------------
(* Lemmas about what sequences carry. *)

\* Elements that are no stanzas of the session carry nothing.
LEMMA CarriesNothing ==
  ASSUME NEW S, NEW q \in Seq(S), NEW a, NEW k \in Nat,
         \A i \in 1..Len(q) : ~Numbered(q[i])
  PROVE  Carries(q, a, k, k)
PROOF
  <1> DEFINE n == [i \in 0..Len(q) |-> k]
  <1>1. n \in [0..Len(q) -> k..k]
    OBVIOUS
  <1>2. \A i \in 0..Len(q) : n[i] = k
    OBVIOUS
  <1> HIDE DEF n
  <1> QED BY <1>1, <1>2 DEF Carries

\* What follows something carries on where that ends.
LEMMA CarriesConcat ==
  ASSUME NEW S, NEW q \in Seq(S), NEW r \in Seq(S), NEW a,
         NEW from \in Nat, NEW mid \in Nat, NEW to \in Nat,
         Carries(q, a, from, mid), Carries(r, a, mid, to)
  PROVE  Carries(q \o r, a, from, to)
PROOF
  <1>1. PICK m \in [0..Len(q) -> from..mid] :
          /\ m[0] = from /\ m[Len(q)] = mid
          /\ \A i, j \in 0..Len(q) : i <= j => m[i] <= m[j]
          /\ \A i \in 1..Len(q) :
               IF Numbered(q[i]) THEN m[i] = m[i - 1] + 1 /\ q[i][2] = a[m[i]]
                                 ELSE m[i] = m[i - 1]
    BY DEF Carries
  <1>2. PICK k \in [0..Len(r) -> mid..to] :
          /\ k[0] = mid /\ k[Len(r)] = to
          /\ \A i, j \in 0..Len(r) : i <= j => k[i] <= k[j]
          /\ \A i \in 1..Len(r) :
               IF Numbered(r[i]) THEN k[i] = k[i - 1] + 1 /\ r[i][2] = a[k[i]]
                                 ELSE k[i] = k[i - 1]
    BY DEF Carries
  <1> DEFINE n == [i \in 0..(Len(q) + Len(r)) |->
                     IF i <= Len(q) THEN m[i] ELSE k[i - Len(q)]]
  <1>3. Len(q) \in Nat /\ Len(r) \in Nat /\ Len(q \o r) = Len(q) + Len(r)
    OBVIOUS
  <1>4. \A i \in 0..Len(q) : m[i] \in from..mid
    BY <1>1
  <1>5. \A i \in 0..Len(r) : k[i] \in mid..to
    BY <1>2
  <1>6. from <= mid /\ mid <= to
    BY <1>1, <1>2, <1>3, <1>4, <1>5
  <1>7. \A i \in 0..Len(q) : n[i] = m[i]
    BY <1>3
  <1>8. \A i \in 0..Len(r) : n[Len(q) + i] = k[i]
    BY SMTT(30), <1>1, <1>2, <1>3
  <1>9. n \in [0..Len(q \o r) -> from..to]
    BY <1>3, <1>4, <1>5, <1>6
  <1> HIDE DEF n
  <1>10. n[0] = from /\ n[Len(q \o r)] = to
    BY <1>1, <1>2, <1>3, <1>7, <1>8
  <1>11. ASSUME NEW i \in 0..Len(q \o r), NEW j \in 0..Len(q \o r), i <= j
         PROVE  n[i] <= n[j]
    <2>1. CASE j <= Len(q)
      BY <2>1, <1>1, <1>3, <1>7, <1>11
    <2>2. CASE i <= Len(q) /\ j > Len(q)
      <3>1. n[i] = m[i] /\ m[i] <= mid
        BY <2>2, <1>3, <1>4, <1>7, <1>6
      <3>2. j - Len(q) \in 0..Len(r) /\ j = Len(q) + (j - Len(q))
        BY <2>2, <1>3
      <3>3. n[j] = k[j - Len(q)]
        BY <3>2, <1>8
      <3>4. k[j - Len(q)] >= mid
        BY <3>2, <1>5, <1>6
      <3>5. m[i] \in Int /\ k[j - Len(q)] \in Int
        BY <3>2, <2>2, <1>3, <1>4, <1>5
      <3> QED BY <3>1, <3>3, <3>4, <3>5
    <2>3. CASE i > Len(q)
      <3>1. /\ i - Len(q) \in 0..Len(r) /\ i = Len(q) + (i - Len(q))
            /\ j - Len(q) \in 0..Len(r) /\ j = Len(q) + (j - Len(q))
        BY <2>3, <1>3, <1>11
      <3>2. n[i] = k[i - Len(q)] /\ n[j] = k[j - Len(q)]
        BY <3>1, <1>8
      <3>3. k[i - Len(q)] <= k[j - Len(q)]
        BY <3>1, <1>2, <1>11, <1>3
      <3> QED BY <3>2, <3>3
    <2> QED BY <2>1, <2>2, <2>3, <1>3
  <1>12. ASSUME NEW i \in 1..Len(q \o r)
         PROVE  IF Numbered((q \o r)[i])
                THEN n[i] = n[i - 1] + 1 /\ (q \o r)[i][2] = a[n[i]]
                ELSE n[i] = n[i - 1]
    <2>1. CASE i <= Len(q)
      <3>1. i \in 1..Len(q) /\ i - 1 \in 0..Len(q) /\ i \in 0..Len(q)
        BY <2>1, <1>3
      <3>2. (q \o r)[i] = q[i] /\ n[i] = m[i] /\ n[i - 1] = m[i - 1]
        BY <3>1, <1>7
      <3> QED BY <3>1, <3>2, <1>1
    <2>2. CASE i > Len(q)
      <3> DEFINE j == i - Len(q)
      <3>1. j \in 1..Len(r) /\ j - 1 \in 0..Len(r) /\ j \in 0..Len(r)
        BY <2>2, <1>3
      <3>2. i = Len(q) + j /\ i - 1 = Len(q) + (j - 1)
        BY <2>2, <1>3
      <3>3. (q \o r)[i] = r[j]
        BY <2>2, <1>3
      <3>4. n[i] = k[j] /\ n[i - 1] = k[j - 1]
        BY <3>1, <3>2, <1>8
      <3> HIDE DEF j
      <3> QED BY <3>1, <3>3, <3>4, <1>2
    <2> QED BY <2>1, <2>2, <1>3
  <1> QED BY <1>9, <1>10, <1>11, <1>12 DEF Carries

\* The first element of what carries stanzas.
LEMMA CarriesHead ==
  ASSUME NEW S, NEW q \in Seq(S), q # <<>>, NEW a,
         NEW from \in Nat, NEW to \in Nat, Carries(q, a, from, to)
  PROVE  IF Numbered(Head(q))
         THEN /\ from + 1 <= to /\ Head(q)[2] = a[from + 1]
              /\ Carries(Tail(q), a, from + 1, to)
         ELSE Carries(Tail(q), a, from, to)
PROOF
  <1>1. PICK m \in [0..Len(q) -> from..to] :
          /\ m[0] = from /\ m[Len(q)] = to
          /\ \A i, j \in 0..Len(q) : i <= j => m[i] <= m[j]
          /\ \A i \in 1..Len(q) :
               IF Numbered(q[i]) THEN m[i] = m[i - 1] + 1 /\ q[i][2] = a[m[i]]
                                 ELSE m[i] = m[i - 1]
    BY DEF Carries
  <1> DEFINE n == [i \in 0..(Len(q) - 1) |-> m[i + 1]]
             first == IF Numbered(Head(q)) THEN from + 1 ELSE from
  <1>2. /\ Len(q) \in Nat \ {0} /\ Len(Tail(q)) = Len(q) - 1
        /\ Head(q) = q[1] /\ Tail(q) \in Seq(S)
        /\ \A i \in 1..Len(Tail(q)) : Tail(q)[i] = q[i + 1]
    BY HeadTailProperties, EmptySeq
  <1>3. m[1] = first /\ (Numbered(Head(q)) => Head(q)[2] = a[from + 1])
    BY <1>1, <1>2
  <1>4. \A i \in 0..Len(q) : m[i] \in from..to
    BY <1>1
  <1>5. first \in from..to
    BY <1>2, <1>3, <1>4
  <1> HIDE DEF first
  <1>6. \A i \in 0..(Len(q) - 1) : n[i] = m[i + 1] /\ n[i] \in first..to
    <2> TAKE i \in 0..(Len(q) - 1)
    <2>1. 1 \in 0..Len(q) /\ i + 1 \in 0..Len(q) /\ 1 <= i + 1
      BY <1>2
    <2>2. m[1] <= m[i + 1] /\ m[i + 1] \in from..to
      BY <2>1, <1>1, <1>4
    <2> QED BY <2>2, <1>3, <1>5
  <1>7. n \in [0..Len(Tail(q)) -> first..to]
    BY <1>2, <1>6
  <1> HIDE DEF n
  <1>8. n[0] = first /\ n[Len(Tail(q))] = to
    BY <1>1, <1>2, <1>3, <1>6
  <1>9. \A i, j \in 0..Len(Tail(q)) : i <= j => n[i] <= n[j]
    BY <1>1, <1>2, <1>6
  <1>10. ASSUME NEW i \in 1..Len(Tail(q))
         PROVE  IF Numbered(Tail(q)[i])
                THEN n[i] = n[i - 1] + 1 /\ Tail(q)[i][2] = a[n[i]]
                ELSE n[i] = n[i - 1]
    <2>1. /\ i + 1 \in 1..Len(q) /\ (i + 1) - 1 = i
          /\ i \in 0..(Len(q) - 1) /\ i - 1 \in 0..(Len(q) - 1)
          /\ (i - 1) + 1 = i
      BY <1>2
    <2>2. n[i] = m[i + 1] /\ n[i - 1] = m[i]
      BY <2>1, <1>6
    <2>3. Tail(q)[i] = q[i + 1]
      BY <1>2
    <2> QED BY <1>1, <2>1, <2>2, <2>3
  <1>11. Carries(Tail(q), a, first, to)
    BY <1>7, <1>8, <1>9, <1>10 DEF Carries
  <1> QED BY <1>3, <1>5, <1>11 DEF first

\* Only the stanzas carried matter.
LEMMA CarriesSame ==
  ASSUME NEW S, NEW q \in Seq(S), NEW a, NEW b,
         NEW from \in Nat, NEW to \in Nat, Carries(q, a, from, to),
         \A k \in (from + 1)..to : b[k] = a[k]
  PROVE  Carries(q, b, from, to)
PROOF
  <1>1. PICK m \in [0..Len(q) -> from..to] :
          /\ m[0] = from /\ m[Len(q)] = to
          /\ \A i, j \in 0..Len(q) : i <= j => m[i] <= m[j]
          /\ \A i \in 1..Len(q) :
               IF Numbered(q[i]) THEN m[i] = m[i - 1] + 1 /\ q[i][2] = a[m[i]]
                                 ELSE m[i] = m[i - 1]
    BY DEF Carries
  <1>2. ASSUME NEW i \in 1..Len(q)
        PROVE  IF Numbered(q[i]) THEN m[i] = m[i - 1] + 1 /\ q[i][2] = b[m[i]]
                                 ELSE m[i] = m[i - 1]
    <2>1. i \in 0..Len(q) /\ i - 1 \in 0..Len(q)
      OBVIOUS
    <2>2. m[i] \in from..to /\ m[i - 1] \in from..to
      BY <2>1, <1>1
    <2>3. CASE Numbered(q[i])
      <3>1. m[i] = m[i - 1] + 1 /\ q[i][2] = a[m[i]]
        BY <1>1, <2>3
      <3>2. m[i] \in (from + 1)..to
        BY <2>2, <3>1
      <3> QED BY <2>3, <3>1, <3>2
    <2> QED BY <1>1, <2>3
  <1> QED BY <1>1, <1>2 DEF Carries

\* A run of consecutive stanzas.
LEMMA CarriesRun ==
  ASSUME NEW S, NEW q \in Seq(S), NEW a, NEW from \in Nat,
         \A i \in 1..Len(q) : Numbered(q[i]) /\ q[i][2] = a[from + i]
  PROVE  Carries(q, a, from, from + Len(q))
PROOF
  <1> DEFINE n == [i \in 0..Len(q) |-> from + i]
  <1>1. Len(q) \in Nat
    OBVIOUS
  <1>2. n \in [0..Len(q) -> from..(from + Len(q))]
    BY <1>1
  <1>3. \A i \in 0..Len(q) : n[i] = from + i
    OBVIOUS
  <1> HIDE DEF n
  <1>4. n[0] = from /\ n[Len(q)] = from + Len(q)
    BY <1>1, <1>3
  <1>5. \A i, j \in 0..Len(q) : i <= j => n[i] <= n[j]
    BY <1>1, <1>3
  <1>6. ASSUME NEW i \in 1..Len(q)
        PROVE  n[i] = n[i - 1] + 1 /\ Numbered(q[i]) /\ q[i][2] = a[n[i]]
    <2>1. i \in 0..Len(q) /\ i - 1 \in 0..Len(q) /\ i \in Nat
      BY <1>1
    <2> QED BY <1>3, <2>1
  <1>7. \A i \in 1..Len(q) :
          IF Numbered(q[i]) THEN n[i] = n[i - 1] + 1 /\ q[i][2] = a[n[i]]
                            ELSE n[i] = n[i - 1]
    BY <1>6
  <1> QED BY <1>2, <1>4, <1>5, <1>7 DEF Carries

\* Numbers only go up.
LEMMA CarriesUpwards ==
  ASSUME NEW S, NEW q \in Seq(S), NEW a, NEW from \in Nat, NEW to \in Nat,
         Carries(q, a, from, to)
  PROVE  from <= to
  BY DEF Carries

-----------------------------------------------------------------------------
(* Lemmas about sequences with tokens in them. *)

\* A sequence with one more element.
LEMMA Added ==
  ASSUME NEW S, NEW q \in Seq(S), NEW e \in S
  PROVE  /\ q \o <<e>> \in Seq(S) /\ Len(q \o <<e>>) = Len(q) + 1
         /\ \A i \in 1..Len(q) : (q \o <<e>>)[i] = q[i]
         /\ (q \o <<e>>)[Len(q) + 1] = e
  OBVIOUS

\* A sequence without its first element.
LEMMA Removed ==
  ASSUME NEW S, NEW q \in Seq(S), q # <<>>
  PROVE  /\ Len(q) \in Nat \ {0} /\ Len(Tail(q)) = Len(q) - 1
         /\ Tail(q) \in Seq(S) /\ Head(q) = q[1] /\ Head(q) \in S
         /\ \A i \in 1..Len(Tail(q)) : Tail(q)[i] = q[i + 1]
  BY HeadTailProperties, EmptySeq

\* Reading an element brings no token.
LEMMA FreeTail ==
  ASSUME NEW S, NEW q \in Seq(S), q # <<>>, NEW K
  PROVE  /\ Free(q, K) => Free(Tail(q), K)
         /\ Lone(q, K) => Lone(Tail(q), K)
         /\ Lone(q, K) /\ Head(q)[1] \in K => Free(Tail(q), K)
  BY Removed DEF Free, Lone

\* Nor do elements without tokens; one token is lone where there was none.
LEMMA FreeConcat ==
  ASSUME NEW S, NEW q \in Seq(S), NEW r \in Seq(S), NEW K
  PROVE  /\ Free(q, K) /\ Free(r, K) => Free(q \o r, K)
         /\ Lone(q, K) /\ Free(r, K) => Lone(q \o r, K)
         /\ Free(q, K) /\ Lone(r, K) => Lone(q \o r, K)
PROOF
  <1>1. /\ Len(q) \in Nat /\ Len(r) \in Nat /\ DOMAIN q = 1..Len(q)
        /\ DOMAIN r = 1..Len(r) /\ DOMAIN (q \o r) = 1..(Len(q) + Len(r))
    OBVIOUS
  <1>2. \A i \in DOMAIN (q \o r) :
          \/ i \in DOMAIN q /\ (q \o r)[i] = q[i]
          \/ i - Len(q) \in DOMAIN r /\ (q \o r)[i] = r[i - Len(q)]
    BY <1>1
  <1>3. \A i \in DOMAIN (q \o r) : i \in Int
    BY <1>1
  <1>4. Free(q, K) /\ Free(r, K) => Free(q \o r, K)
    BY <1>2 DEF Free
  <1>5. Lone(q, K) /\ Free(r, K) => Lone(q \o r, K)
    BY <1>2 DEF Free, Lone
  <1>6. Free(q, K) /\ Lone(r, K) => Lone(q \o r, K)
    BY <1>1, <1>2, <1>3 DEF Free, Lone
  <1> QED BY <1>4, <1>5, <1>6

\* One element more at the end.
LEMMA FreeAdded ==
  ASSUME NEW S, NEW q \in Seq(S), NEW e \in S, NEW K
  PROVE  /\ Free(q, K) /\ e[1] \notin K => Free(q \o <<e>>, K)
         /\ Lone(q, K) /\ e[1] \notin K => Lone(q \o <<e>>, K)
         /\ Free(q, K) => Lone(q \o <<e>>, K)
  BY FreeConcat DEF Free, Lone

-----------------------------------------------------------------------------
(* Lemmas about the queue. *)

\* The numbers h + 1 to l in the order of the map.
LEMMA WalkOfInterval ==
  ASSUME NEW h \in Nat, NEW l \in Nat, h <= l
  PROVE  Walk((h + 1)..l) = [i \in 1..(l - h) |-> h + i]
PROOF
  <1>0. ASSUME NEW n \in Int, h <= n
        PROVE  Cardinality((h + 1)..n) = n - h
    <2>1. h + 1 \in Int
      OBVIOUS
    <2>2. Cardinality((h + 1)..n) = IF h + 1 > n THEN 0 ELSE n - (h + 1) + 1
      BY <2>1, FS_Interval
    <2> QED BY <1>0, <2>2
  <1>1. Cardinality((h + 1)..l) = l - h
    BY <1>0
  <1>2. ASSUME NEW n \in (h + 1)..l
        PROVE  Cardinality({m \in (h + 1)..l : m <= n}) = n - h
    <2>1. {m \in (h + 1)..l : m <= n} = (h + 1)..n
      OBVIOUS
    <2>2. Cardinality((h + 1)..n) = n - h
      BY <1>0
    <2> QED BY <2>1, <2>2
  <1>3. ASSUME NEW i \in 1..(l - h)
        PROVE  (CHOOSE n \in (h + 1)..l :
                  Cardinality({m \in (h + 1)..l : m <= n}) = i) = h + i
    <2>1. h + i \in (h + 1)..l
      OBVIOUS
    <2>2. Cardinality({m \in (h + 1)..l : m <= h + i}) = i
      BY <1>2, <2>1
    <2>3. \A n \in (h + 1)..l :
            Cardinality({m \in (h + 1)..l : m <= n}) = i => n = h + i
      BY <1>2
    <2> QED BY <2>1, <2>2, <2>3
  <1> QED BY <1>1, <1>3 DEF Walk

\* The queue is a map of numbers to stanzas.
LEMMA FromType ==
  ASSUME NEW q \in Seq(1..MaxStanzas), NEW low \in 0..Len(q)
  PROVE  From(q, low) \in Queues /\ DOMAIN From(q, low) = (low + 1)..Len(q)
PROOF
  <1>1. From(q, low) \in [(low + 1)..Len(q) -> Nat]
    BY ConstantsAssumption DEF From
  <1>2. (low + 1)..Len(q) \in SUBSET Nat
    OBVIOUS
  <1> QED BY <1>1, <1>2 DEF Queues, From

\* What checkQueue() leaves of it.
LEMMA UnhandledFrom ==
  ASSUME NEW q \in Seq(1..MaxStanzas), NEW low \in 0..Len(q),
         NEW h \in 0..Len(q)
  PROVE  Unhandled(From(q, low), h) = From(q, IF h > low THEN h ELSE low)
PROOF
  <1>1. {n \in (low + 1)..Len(q) : n > h}
          = ((IF h > low THEN h ELSE low) + 1)..Len(q)
    OBVIOUS
  <1> QED BY <1>1, FromType DEF Unhandled, From

\* A stanza kept under the next number extends the queue by one.
LEMMA InsertedFrom ==
  ASSUME NEW q \in Seq(1..MaxStanzas), NEW low \in 0..Len(q),
         NEW st \in 1..MaxStanzas
  PROVE  Inserted(From(q, low), Len(q) + 1, st) = From(Append(q, st), low)
PROOF
  <1>1. /\ Len(q) \in Nat /\ Len(Append(q, st)) = Len(q) + 1
        /\ \A n \in 1..Len(q) : Append(q, st)[n] = q[n]
        /\ Append(q, st)[Len(q) + 1] = st
    OBVIOUS
  <1>2. (low + 1)..Len(q) \cup {Len(q) + 1} = (low + 1)..(Len(q) + 1)
    BY <1>1
  <1> QED BY <1>1, <1>2, FromType DEF Inserted, From

-----------------------------------------------------------------------------
(* Lemmas about what the client's functions do. *)

\* What sending and resending leave alone.
Beside(c, d) ==
  /\ d.online = c.online /\ d.wanted = c.wanted /\ d.smContext = c.smContext
  /\ d.bound = c.bound /\ d.told = c.told /\ d.smId = c.smId
  /\ d.smHandled = c.smHandled /\ d.written = c.written /\ d.seen = c.seen
  /\ d.losses = c.losses /\ d.ended = c.ended

\* Writing changes what is under way only, with a connection only.
LEMMA WriteEffect ==
  ASSUME NEW c \in ClientType, NEW es \in Seq(UpElements),
         NEW w, w = Write(c, es)
  PROVE  /\ w \in ClientType /\ Beside(c, w) /\ w.made = c.made
         /\ w.accepted = c.accepted /\ w.smQueue = c.smQueue
         /\ w.smSent = c.smSent
         /\ w.up = IF c.online THEN c.up \o es ELSE c.up
PROOF
  <1>1. CASE ~c.online
    BY <1>1 DEF Write, Beside
  <1>2. CASE c.online
    <2> DEFINE v == c.up \o es
    <2>1. v \in Seq(UpElements)
      BY DEF ClientType
    <2>2. w = [c EXCEPT !.up = v]
      BY <1>2 DEF Write
    <2> HIDE DEF v
    <2>3. w \in ClientType
      BY <2>1, <2>2 DEF ClientType
    <2>4. Beside(c, w) /\ w.made = c.made /\ w.accepted = c.accepted
          /\ w.smQueue = c.smQueue /\ w.smSent = c.smSent /\ w.up = v
      BY <2>2 DEF ClientType, Beside
    <2> QED BY <1>2, <2>3, <2>4 DEF v
  <1> QED BY <1>1, <1>2

\* What sending a stanza does, numbered if a session is enabled.
SendsTo(c, d, st, low) ==
  /\ d \in ClientType /\ Beside(c, d)
  /\ d.made = st /\ st \in 1..MaxStanzas
  /\ d.up = IF c.online THEN c.up \o << <<"stanza", st>> >> ELSE c.up
  /\ c.smContext \in Managed =>
       /\ d.accepted = Append(c.accepted, st)
       /\ d.smQueue = From(d.accepted, low)
       /\ d.smSent = Len(d.accepted)
  /\ c.smContext \notin Managed =>
       /\ d.accepted = c.accepted /\ d.smQueue = c.smQueue
       /\ d.smSent = c.smSent

\* A stanza is written, numbered and kept.
LEMMA SendEffect ==
  ASSUME NEW c \in ClientType, c.made + 1 <= MaxStanzas,
         NEW low \in 0..Len(c.accepted),
         c.smContext \in Managed =>
           c.smQueue = From(c.accepted, low) /\ c.smSent = Len(c.accepted),
         NEW d, d = SendStanza(c), NEW st, st = c.made + 1
  PROVE  SendsTo(c, d, st, low)
PROOF
  <1> USE DEF SendsTo
  <1> DEFINE m == [c EXCEPT !.made = st]
             es == << <<"stanza", st>> >>
             w == Write(m, es)
             x == WriteStanza(c)
  <1>1. /\ st \in 1..MaxStanzas /\ st \in 0..MaxStanzas /\ st \in Nat
        /\ 1..MaxStanzas \subseteq Nat
    BY SMTT(30), ConstantsAssumption DEF ClientType
  <1>2. m \in ClientType
    BY <1>1 DEF ClientType
  <1>3. m.made = st /\ m.accepted = c.accepted /\ m.smQueue = c.smQueue
        /\ m.smSent = c.smSent /\ m.up = c.up /\ Beside(c, m)
    BY DEF ClientType, Beside
  <1>4. es \in Seq(UpElements)
    <2>1. <<"stanza", st>> \in {"stanza"} \X (1..MaxStanzas)
      BY <1>1
    <2> QED BY <2>1 DEF UpElements
  <1>5. x = IF c.smContext \in Managed
            THEN [w EXCEPT !.accepted = Append(w.accepted, st)] ELSE w
    BY DEF WriteStanza
  <1>6. w = Write(m, es)
    OBVIOUS
  <1> HIDE DEF m, es, w
  <1>7. /\ w \in ClientType /\ Beside(m, w) /\ w.made = m.made
        /\ w.accepted = m.accepted /\ w.smQueue = m.smQueue
        /\ w.smSent = m.smSent
        /\ w.up = IF m.online THEN m.up \o es ELSE m.up
    BY <1>2, <1>4, <1>6, WriteEffect
  <1>8. /\ Beside(c, w) /\ w.made = st /\ w.accepted = c.accepted
        /\ w.smQueue = c.smQueue /\ w.smSent = c.smSent
        /\ w.up = IF c.online THEN c.up \o << <<"stanza", st>> >> ELSE c.up
    BY <1>3, <1>7 DEF Beside, es
  <1>9. CASE c.smContext \notin Managed
    <2>1. x = w /\ d = w
      BY <1>9, <1>5, <1>8 DEF SendStanza, Keep, Beside
    <2> QED BY <1>1, <1>7, <1>8, <1>9, <2>1
  <1>10. CASE c.smContext \in Managed
    <2> DEFINE acc == Append(c.accepted, st)
    <2>1. acc \in Seq(1..MaxStanzas) /\ Len(acc) = Len(c.accepted) + 1
          /\ Len(c.accepted) \in Nat /\ low \in 0..Len(acc)
      BY <1>1 DEF ClientType
    <2> HIDE DEF acc
    <2>2. x = [w EXCEPT !.accepted = acc]
      BY <1>10, <1>5, <1>8 DEF acc
    <2>3. x \in ClientType /\ x.made = st /\ x.accepted = acc
          /\ Beside(c, x) /\ x.smSent = Len(c.accepted)
          /\ x.smQueue = From(c.accepted, low) /\ x.up = w.up
      BY ZenonT(60), <1>7, <1>8, <1>10, <2>1, <2>2 DEF ClientType, Beside
    <2>4. d = [x EXCEPT !.smSent = x.smSent + 1,
                        !.smQueue = Inserted(x.smQueue, x.smSent + 1, st)]
      BY <1>10, <2>3 DEF SendStanza, Keep, Beside
    <2> HIDE DEF x
    <2>10. c.accepted \in Seq(1..MaxStanzas)
      BY DEF ClientType
    <2>5. Inserted(x.smQueue, x.smSent + 1, st) = From(acc, low)
      BY <1>1, <2>3, <2>10, InsertedFrom DEF acc
    <2>6. From(acc, low) \in Queues
      BY <2>1, FromType
    <2>7. d = [x EXCEPT !.smSent = Len(acc), !.smQueue = From(acc, low)]
      BY <2>1, <2>3, <2>4, <2>5
    <2>8. d \in ClientType
      <3> DEFINE n == Len(acc)
                 q == From(acc, low)
      <3>1. n \in Nat /\ q \in Queues /\ x \in ClientType
        BY <2>1, <2>3, <2>6
      <3>2. d = [x EXCEPT !.smSent = n, !.smQueue = q]
        BY <2>7
      <3> HIDE DEF n, q
      <3> QED BY <3>1, <3>2 DEF ClientType
    <2>9. d.made = st /\ d.up = w.up /\ d.accepted = acc /\ Beside(c, d)
          /\ d.smSent = Len(acc) /\ d.smQueue = From(acc, low)
      BY <2>3, <2>7 DEF ClientType, Beside
    <2> QED BY <1>1, <1>8, <1>10, <2>8, <2>9 DEF acc
  <1> QED BY <1>9, <1>10

\* checkQueue( h, true ) on a queue of what follows low.
ResendsTo(c, d, h) ==
  /\ d \in ClientType /\ Beside(c, d) /\ d.made = c.made
  /\ d.accepted = c.accepted /\ d.smSent = c.smSent
  /\ d.smQueue = From(c.accepted, h)
  /\ \E r \in Seq(UpElements) :
       /\ d.up = c.up \o r /\ Len(r) = Len(c.accepted) - h
       /\ \A i \in 1..Len(r) : r[i] = <<"stanza", c.accepted[h + i]>>

\* What h does not cover stays in the queue and is written once more.
LEMMA ResendEffect ==
  ASSUME NEW c \in ClientType, NEW low \in 0..Len(c.accepted),
         c.smQueue = From(c.accepted, low), c.online,
         NEW h \in low..Len(c.accepted),
         NEW d, d = CheckAndResend(c, h)
  PROVE  ResendsTo(c, d, h)
PROOF
  <1> USE DEF ResendsTo
  <1> DEFINE l == Len(c.accepted)
             rest == Unhandled(c.smQueue, h)
             numbers == Walk(DOMAIN rest)
             r == [i \in DOMAIN numbers |-> <<"stanza", rest[numbers[i]]>>]
             e == [c EXCEPT !.smQueue = rest]
  <1>1. l \in Nat /\ h \in Nat /\ h <= l /\ h \in 0..l
    BY DEF ClientType
  <1>2. rest = From(c.accepted, h)
    <2>1. c.accepted \in Seq(1..MaxStanzas) /\ low \in 0..l
      BY DEF ClientType
    <2>2. (IF h > low THEN h ELSE low) = h
      BY <1>1, <2>1
    <2> HIDE DEF l, rest
    <2>3. Unhandled(From(c.accepted, low), h)
            = From(c.accepted, IF h > low THEN h ELSE low)
      BY <1>1, <2>1, UnhandledFrom DEF l
    <2> QED BY <2>2, <2>3 DEF rest
  <1>3. DOMAIN rest = (h + 1)..l /\ rest \in Queues
    BY <1>1, <1>2, FromType DEF ClientType
  <1>4. d = Write(e, r)
    BY DEF CheckAndResend
  <1> HIDE DEF rest
  <1>5. numbers = [i \in 1..(l - h) |-> h + i]
    BY <1>1, <1>3, WalkOfInterval
  <1> HIDE DEF numbers
  <1>6. \A i \in 1..(l - h) :
          /\ rest[numbers[i]] = c.accepted[h + i]
          /\ c.accepted[h + i] \in 1..MaxStanzas
    <2> TAKE i \in 1..(l - h)
    <2>1. numbers[i] = h + i /\ h + i \in (h + 1)..l /\ h + i \in 1..l
      BY <1>1, <1>5
    <2>2. c.accepted \in Seq(1..MaxStanzas)
      BY DEF ClientType
    <2>3. c.accepted[h + i] \in 1..MaxStanzas
      BY <2>1, <2>2, ElementOfSeq
    <2> QED BY <1>2, <2>1, <2>3, ConstantsAssumption DEF From
  <1>7. r = [i \in 1..(l - h) |-> <<"stanza", c.accepted[h + i]>>]
    BY <1>5, <1>6
  <1>8. /\ r \in Seq(UpElements) /\ Len(r) = l - h
        /\ \A i \in 1..Len(r) : r[i] = <<"stanza", c.accepted[h + i]>>
    <2> DEFINE k == l - h
    <2>1. k \in Nat
      BY <1>1
    <2>2. \A i \in 1..k : <<"stanza", c.accepted[h + i]>> \in UpElements
      <3>1. \A i \in 1..k : <<"stanza", c.accepted[h + i]>>
                               \in {"stanza"} \X (1..MaxStanzas)
        BY <1>6
      <3> QED BY <3>1 DEF UpElements
    <2>3. r = [i \in 1..k |-> <<"stanza", c.accepted[h + i]>>]
      BY <1>7
    <2> HIDE DEF k, r
    <2>4. r \in [1..k -> UpElements]
      BY <2>2, <2>3
    <2>5. r \in Seq(UpElements) /\ Len(r) = k
      BY <2>1, <2>4
    <2> QED BY <2>3, <2>5 DEF k
  <1> HIDE DEF r
  <1>9. e \in ClientType /\ Beside(c, e) /\ e.made = c.made
        /\ e.accepted = c.accepted /\ e.smSent = c.smSent /\ e.smQueue = rest
        /\ e.up = c.up
    BY <1>3 DEF ClientType, Beside
  <1> HIDE DEF e
  <1>10. /\ d \in ClientType /\ Beside(e, d) /\ d.made = e.made
         /\ d.accepted = e.accepted /\ d.smQueue = e.smQueue
         /\ d.smSent = e.smSent
         /\ d.up = IF e.online THEN e.up \o r ELSE e.up
    BY <1>4, <1>8, <1>9, WriteEffect
  <1>11. Beside(c, d) /\ d.made = c.made /\ d.accepted = c.accepted
         /\ d.smSent = c.smSent /\ d.smQueue = rest /\ d.up = c.up \o r
    BY <1>9, <1>10 DEF Beside
  <1> QED BY <1>2, <1>8, <1>10, <1>11

-----------------------------------------------------------------------------
(* What reading does. *)

\* The records apart from what is on its way.
SameClient ==
  /\ Beside(client, client') /\ client'.made = client.made
  /\ client'.accepted = client.accepted /\ client'.smQueue = client.smQueue
  /\ client'.smSent = client.smSent

\* The server does nothing but read or write.
SameServer ==
  /\ server'.session = server.session /\ server'.attached = server.attached
  /\ server'.got = server.got /\ server'.out = server.out

\* The effect of the server reading.
LEMMA TookEffect ==
  ASSUME Types, NEW kind, Took(kind)
  PROVE  /\ client' \in ClientType /\ SameClient
         /\ client.up # <<>> /\ Head(client.up)[1] = kind
         /\ client'.up = Tail(client.up)
PROOF
  <1> DEFINE u == Tail(client.up)
  <1>1. client \in ClientType /\ client.up # <<>> /\ Head(client.up)[1] = kind
    BY DEF Types, Took
  <1>2. client.up \in Seq(UpElements)
    BY <1>1 DEF ClientType
  <1>3. u \in Seq(UpElements)
    BY <1>1, <1>2
  <1>4. client' = [client EXCEPT !.up = u]
    BY DEF Took
  <1> HIDE DEF u
  <1>5. client' \in ClientType
    BY <1>1, <1>3, <1>4 DEF ClientType
  <1>6. SameClient /\ client'.up = u
    BY <1>1, <1>4 DEF ClientType, SameClient, Beside
  <1> QED BY <1>1, <1>5, <1>6 DEF u

\* The effect of the client reading.
LEMMA ReadsEffect ==
  ASSUME Types, NEW kind, Reads(kind)
  PROVE  /\ server' \in ServerType /\ SameServer
         /\ server'.resumable = server.resumable /\ client.online
         /\ server.down # <<>> /\ Head(server.down)[1] = kind
         /\ server'.down = Tail(server.down)
PROOF
  <1> DEFINE d == Tail(server.down)
  <1>1. /\ server \in ServerType /\ server.down # <<>>
        /\ Head(server.down)[1] = kind /\ client.online
    BY DEF Types, Reads
  <1>2. server.down \in Seq(DownElements)
    BY <1>1 DEF ServerType
  <1>3. d \in Seq(DownElements)
    BY <1>1, <1>2
  <1>4. server' = [server EXCEPT !.down = d]
    BY DEF Reads
  <1> HIDE DEF d
  <1> QED BY <1>1, <1>3, <1>4 DEF d, ServerType, SameServer

\* The effect of the server writing.
LEMMA AnswerEffect ==
  ASSUME Types, NEW es \in Seq(DownElements), NEW s, s = Answer(es)
  PROVE  /\ s \in ServerType /\ s.session = server.session
         /\ s.resumable = server.resumable /\ s.attached = server.attached
         /\ s.got = server.got /\ s.out = server.out
         /\ s.down = server.down \o es
PROOF
  <1> DEFINE d == server.down \o es
  <1>1. server \in ServerType
    BY DEF Types
  <1>2. d \in Seq(DownElements)
    BY <1>1 DEF ServerType
  <1>3. s = [server EXCEPT !.down = d]
    BY DEF Answer
  <1> HIDE DEF d
  <1> QED BY <1>1, <1>2, <1>3 DEF d, ServerType

\* What a step does with the stanzas of a session: nothing, or it adds one that
\* is sent or taken; or it ends the session, or begins one with one stanza.
Moved ==
  \/ client'.smContext \notin Live
  \/ /\ client.smContext \in Live
     /\ \/ client'.accepted = client.accepted /\ server'.got = server.got
        \/ /\ \E st \in 1..MaxStanzas :
                client'.accepted = Append(client.accepted, st)
           /\ server'.got = server.got
        \/ /\ client'.accepted = client.accepted
           /\ \E st \in 1..MaxStanzas : server'.got = Append(server.got, st)
  \/ /\ client.smContext \notin Live /\ server'.got = <<>>
     /\ \E st \in 1..MaxStanzas : client'.accepted = <<st>>

\* Of a session, what does not travel.
LEMMA SameKeeps ==
  ASSUME IInv, SameClient, SameServer
  PROVE  Queued' /\ Counted' /\ Taken' /\ Handed' /\ Moved
  BY DEF IInv, SameClient, SameServer, Beside, Queued, Counted, Taken, Handed,
     Moved

\* Positions in a sequence with one more element.
LEMMA AddedDomain ==
  ASSUME NEW S, NEW q \in Seq(S), NEW e \in S, NEW r, r = q \o <<e>>
  PROVE  /\ r \in Seq(S) /\ Len(q) \in Nat
         /\ DOMAIN q = 1..Len(q) /\ DOMAIN r = 1..(Len(q) + 1)
         /\ \A i \in DOMAIN q : i \in DOMAIN r /\ r[i] = q[i]
         /\ Len(q) + 1 \in DOMAIN r /\ r[Len(q) + 1] = e
         /\ \A i \in DOMAIN r : i \in DOMAIN q \/ i = Len(q) + 1
  OBVIOUS

\* Positions in a sequence with more than one more.
LEMMA ConcatDomain ==
  ASSUME NEW S, NEW q \in Seq(S), NEW p \in Seq(S), NEW r, r = q \o p
  PROVE  /\ r \in Seq(S) /\ Len(q) \in Nat
         /\ DOMAIN q = 1..Len(q) /\ DOMAIN r = 1..(Len(q) + Len(p))
         /\ \A i \in DOMAIN q : i \in DOMAIN r /\ r[i] = q[i]
         /\ \A i \in DOMAIN p : Len(q) + i \in DOMAIN r /\ r[Len(q) + i] = p[i]
         /\ \A i \in DOMAIN r :
              \/ i \in DOMAIN q
              \/ i - Len(q) \in DOMAIN p /\ r[i] = p[i - Len(q)]
PROOF
  <1>1. /\ Len(q) \in Nat /\ Len(p) \in Nat
        /\ DOMAIN q = 1..Len(q) /\ DOMAIN p = 1..Len(p)
        /\ r \in Seq(S) /\ DOMAIN r = 1..(Len(q) + Len(p))
    OBVIOUS
  <1>2. \A i \in DOMAIN q : i \in DOMAIN r /\ r[i] = q[i]
    BY <1>1
  <1>3. \A i \in DOMAIN p : Len(q) + i \in DOMAIN r /\ r[Len(q) + i] = p[i]
    BY <1>1
  <1>4. \A i \in DOMAIN r :
          i \in DOMAIN q \/ (i - Len(q) \in DOMAIN p /\ r[i] = p[i - Len(q)])
    BY <1>1
  <1> QED BY <1>1, <1>2, <1>3, <1>4

\* What the server takes, and what is left on the way to it.
TakesUp(kind) ==
  /\ client' \in ClientType /\ client.up \in Seq(UpElements)
  /\ 1 \in DOMAIN client.up /\ client.up[1][1] = kind
  /\ Head(client.up) = client.up[1] /\ client'.up = Tail(client.up)
  /\ \A i \in DOMAIN client'.up :
       i + 1 \in DOMAIN client.up /\ client'.up[i] = client.up[i + 1]
  /\ client.smContext # "Invalid" => client.online

\* What the invariant gives of an element the server reads.
LEMMA UpTaken ==
  ASSUME IInv, NEW kind, Took(kind)
  PROVE  TakesUp(kind) /\ SameClient
PROOF
  <1>1. /\ client' \in ClientType /\ SameClient
        /\ client.up # <<>> /\ Head(client.up)[1] = kind
        /\ client'.up = Tail(client.up)
    BY TookEffect DEF IInv
  <1>2. client.up \in Seq(UpElements)
    BY DEF IInv, Types, ClientType
  <1>3. \A i \in DOMAIN client'.up :
          i + 1 \in DOMAIN client.up /\ client'.up[i] = client.up[i + 1]
    BY <1>1, <1>2, Removed
  <1>4. 1 \in DOMAIN client.up /\ Head(client.up) = client.up[1]
    BY <1>1, <1>2, Removed
  <1>5. client.smContext # "Invalid" => client.online
    BY <1>1 DEF IInv, Resting
  <1> QED BY <1>1, <1>2, <1>3, <1>4, <1>5 DEF TakesUp

\* If no negotiation was under way but for what the server takes, none is.
LEMMA TokenTaken ==
  ASSUME IInv, NEW kind, TakesUp(kind), SameClient, client.online
  PROVE  /\ Lone(client'.up, UpTokens) /\ Free(client'.up, {"close"})
         /\ Free(client.up, UpTokens) => Free(client'.up, UpTokens)
         /\ Free(client.up, {"stanza"}) => Free(client'.up, {"stanza"})
         /\ kind \in UpTokens =>
              /\ Free(client'.up, UpTokens) /\ Free(server.down, DownTokens)
              /\ ~client.told
PROOF
  <1>1. client.up \in Seq(UpElements) /\ client.up # <<>>
        /\ Head(client.up)[1] = kind /\ client'.up = Tail(client.up)
    BY DEF TakesUp
  <1>2. /\ Lone(client.up, UpTokens) /\ Free(client.up, {"close"})
        /\ Free(client.up, UpTokens) \/ Free(server.down, DownTokens)
        /\ client.told => Free(client.up, UpTokens)
    BY DEF IInv, Tokens, OneToken
  <1>3. kind \in UpTokens => ~Free(client.up, UpTokens)
    BY DEF Free, TakesUp
  <1> QED BY <1>1, <1>2, <1>3, FreeTail

\* Nothing of a session is lost with it unless it is a stanza.
LEMMA UpFlows ==
  ASSUME IInv, NEW kind, Took(kind), kind # "stanza"
  PROVE  client.online /\ client.told /\ client.smContext \in Managed =>
           Carries(client'.up, client.accepted, Len(server.got),
                   Len(client.accepted))
PROOF
  <1>1. /\ client.up \in Seq(UpElements) /\ client.up # <<>>
        /\ Head(client.up)[1] = kind /\ client'.up = Tail(client.up)
    BY TookEffect DEF IInv, Types, ClientType
  <1>2. ~Numbered(Head(client.up))
    BY <1>1 DEF Numbered
  <1>3. Len(server.got) \in Nat /\ Len(client.accepted) \in Nat
    BY DEF IInv, Types, ClientType, ServerType
  <1> QED BY <1>1, <1>2, <1>3, CarriesHead DEF IInv, Flowing

\* The server reads what changes nothing but what is on its way.
LEMMA HearsKeeps ==
  ASSUME IInv, NEW kind, Took(kind), kind # "stanza", UNCHANGED server
  PROVE  IInv' /\ Moved
PROOF
  <1>1. TakesUp(kind) /\ SameClient /\ SameServer
    BY UpTaken DEF SameServer
  <1>2. Types'
    BY <1>1 DEF IInv, Types, TakesUp
  <1>3. Queued' /\ Counted' /\ Taken' /\ Handed' /\ Moved
    BY <1>1, SameKeeps
  <1>4. Resting'
    BY <1>1 DEF IInv, Resting, SameClient, Beside, TakesUp
  <1>5. Tokens' /\ Attachment'
    BY <1>1, TokenTaken
       DEF IInv, Tokens, OneToken, Attachment, SameClient, Beside
  <1>6. UpMeans' /\ DownMeans' /\ Answering' /\ Behind'
    BY <1>1 DEF IInv, UpMeans, DownMeans, Answering, Behind, SameClient,
                Beside, TakesUp
  <1>7. Flowing'
    BY <1>1, UpFlows DEF IInv, Flowing, SameClient, Beside
  <1> QED BY <1>2, <1>3, <1>4, <1>5, <1>6, <1>7 DEF IInv

\* The server answers at once with an element that is no stanza.
LEMMA DownFlows ==
  ASSUME IInv, NEW e \in DownElements, e[1] # "stanza",
         client.online /\ server.attached
           /\ client.smContext \in Live \cup {"Enable"}
  PROVE  Carries(server.down \o <<e>>, [k \in Nat |-> k], client.smHandled,
                 server.out)
PROOF
  <1> DEFINE id == [k \in Nat |-> k]
  <1>1. /\ server.down \in Seq(DownElements) /\ <<e>> \in Seq(DownElements)
        /\ client.smHandled \in Nat /\ server.out \in Nat
    BY ConstantsAssumption DEF IInv, Types, ClientType, ServerType
  <1>2. Carries(server.down, id, client.smHandled, server.out)
    BY DEF IInv, Flowing
  <1>3. \A i \in 1..Len(<<e>>) : ~Numbered(<<e>>[i])
    BY DEF Numbered
  <1> HIDE DEF id
  <1>4. Carries(<<e>>, id, server.out, server.out)
    BY <1>1, <1>3, CarriesNothing
  <1>5. Carries(server.down \o <<e>>, id, client.smHandled, server.out)
    BY <1>1, <1>2, <1>4, CarriesConcat
  <1> QED BY <1>5 DEF id

\* What the server writes last.
AddsDown(e) ==
  /\ server'.down = server.down \o <<e>> /\ server'.down \in Seq(DownElements)
  /\ \A i \in DOMAIN server'.down :
       \/ i \in DOMAIN server.down /\ server'.down[i] = server.down[i]
       \/ i = Len(server.down) + 1 /\ server'.down[i] = e
  /\ \A i \in DOMAIN server.down :
       /\ i \in DOMAIN server'.down /\ server'.down[i] = server.down[i]
       /\ i < Len(server.down) + 1
  /\ Len(server.down) + 1 \in DOMAIN server'.down
  /\ server'.down[Len(server.down) + 1] = e

\* What an element the server writes may not disturb.
LEMMA DownAdded ==
  ASSUME IInv, NEW e \in DownElements, server'.down = server.down \o <<e>>
  PROVE  AddsDown(e)
PROOF
  <1>1. server.down \in Seq(DownElements)
    BY DEF IInv, Types, ServerType
  <1>2. /\ server'.down \in Seq(DownElements)
        /\ Len(server.down) \in Nat /\ DOMAIN server.down = 1..Len(server.down)
        /\ DOMAIN server'.down = 1..(Len(server.down) + 1)
        /\ \A i \in DOMAIN server.down :
             i \in DOMAIN server'.down /\ server'.down[i] = server.down[i]
        /\ Len(server.down) + 1 \in DOMAIN server'.down
        /\ server'.down[Len(server.down) + 1] = e
        /\ \A i \in DOMAIN server'.down :
             i \in DOMAIN server.down \/ i = Len(server.down) + 1
    BY <1>1, AddedDomain
  <1>3. \A i \in DOMAIN server.down : i < Len(server.down) + 1
    BY <1>2
  <1> QED BY <1>2, <1>3 DEF AddsDown

\* The server answers what it takes with an element that means nothing for the
\* session but what it says of the stanzas the server has.
LEMMA AnswersKeep ==
  ASSUME IInv, NEW kind, Took(kind), kind # "stanza",
         NEW e \in DownElements, server' \in ServerType, SameServer,
         server'.down = server.down \o <<e>>,
         e[1] \notin {"stanza", "enabled", "resumed"},
         e[1] \in DownTokens => kind \in UpTokens,
         e[1] = "a" => server.attached /\ e[2] <= Len(server.got),
         e[1] = "failed" /\ client.online => client.smContext = "Resume"
  PROVE  IInv' /\ Moved
PROOF
  <1>1. ~Numbered(e) /\ e # <<"stanza", 0>>
    BY DEF Numbered
  <1>2. /\ server' \in ServerType /\ SameServer
        /\ server'.down = server.down \o <<e>>
    OBVIOUS
  <1>3. AddsDown(e)
    BY <1>2, DownAdded
  <1>4. TakesUp(kind) /\ SameClient
    BY UpTaken
  <1>5. Types'
    BY <1>2, <1>4 DEF IInv, Types, TakesUp
  <1>6. Queued' /\ Counted' /\ Taken' /\ Handed' /\ Moved
    BY <1>2, <1>4, SameKeeps
  <1>7. Resting'
    BY <1>2, <1>4 DEF IInv, Resting, SameClient, SameServer, Beside, TakesUp
  <1>8. Tokens'
    <2> SUFFICES ASSUME client.online
                 PROVE  Tokens'
      BY <1>4 DEF Tokens, SameClient, Beside
    <2>1. server.down \in Seq(DownElements)
      BY DEF IInv, Types, ServerType
    <2>2. e[1] \in DownTokens =>
            Lone(server'.down, DownTokens) /\ Free(client'.up, UpTokens)
              /\ ~client.told
      <3> SUFFICES ASSUME e[1] \in DownTokens
                   PROVE  Lone(server'.down, DownTokens)
                            /\ Free(client'.up, UpTokens) /\ ~client.told
        OBVIOUS
      <3>1. Free(client'.up, UpTokens) /\ Free(server.down, DownTokens)
              /\ ~client.told
        BY <1>4, TokenTaken
      <3>2. Lone(server.down \o <<e>>, DownTokens)
        BY <2>1, <3>1, FreeAdded
      <3> QED BY <1>2, <3>1, <3>2
    <2>3. e[1] \notin DownTokens =>
            /\ Lone(server.down, DownTokens) => Lone(server'.down, DownTokens)
            /\ Free(server.down, DownTokens) => Free(server'.down, DownTokens)
      BY <1>2, <2>1, FreeAdded
    <2>4. /\ Lone(client'.up, UpTokens) /\ Free(client'.up, {"close"})
          /\ Free(client.up, UpTokens) => Free(client'.up, UpTokens)
          /\ Free(client.up, {"stanza"}) => Free(client'.up, {"stanza"})
      BY <1>4, TokenTaken
    <2>5. Tokens /\ client'.smContext = client.smContext
          /\ client'.told = client.told
      BY <1>4 DEF IInv, SameClient, Beside
    <2> QED BY <2>2, <2>3, <2>4, <2>5 DEF Tokens, OneToken
  <1>9. Attachment'
    BY <1>2, <1>3, <1>4
       DEF AddsDown, IInv, Attachment, SameClient, SameServer, Beside
  <1>10. UpMeans'
    BY <1>2, <1>4 DEF IInv, UpMeans, SameClient, SameServer, Beside, TakesUp
  <1>11. DownMeans'
    BY <1>2, <1>3, <1>4
       DEF AddsDown, IInv, DownMeans, SameClient, SameServer, Beside
  <1>12. Answering'
    <2>1. Answering
      BY DEF IInv
    <2>2. /\ client'.online = client.online /\ server'.got = server.got
          /\ server'.attached = server.attached
          /\ client'.smContext = client.smContext
      BY <1>2, <1>4 DEF SameClient, SameServer, Beside
    <2>3. \A i \in DOMAIN server'.down :
            \/ i \in DOMAIN server.down /\ server'.down[i] = server.down[i]
            \/ i = Len(server.down) + 1 /\ server'.down[i] = e
      BY <1>3 DEF AddsDown
    <2>4. \A i, j \in DOMAIN server'.down :
            server'.down[i] = <<"stanza", 0>> /\ server'.down[j][1] = "enabled"
              => i \in DOMAIN server.down /\ server'.down[i] = server.down[i]
                   /\ j \in DOMAIN server.down
                   /\ server'.down[j] = server.down[j]
      BY <1>1, <2>3
    <2>5. client.online /\ ~server.attached =>
            \A i \in DOMAIN server'.down :
              server'.down[i][1] # "a" /\ ~Numbered(server'.down[i])
      BY <1>1, <2>1, <2>3 DEF Answering
    <2>6. client.online => \A i \in DOMAIN server'.down :
            server'.down[i][1] = "a" => server'.down[i][2] <= Len(server.got)
      BY <2>1, <2>3 DEF Answering
    <2>7. client.online /\ client.smContext \in Live =>
            \A i \in DOMAIN server'.down : server'.down[i] # <<"stanza", 0>>
      BY <1>1, <2>1, <2>3 DEF Answering
    <2>8. client.online => \A i, j \in DOMAIN server'.down :
            server'.down[i] = <<"stanza", 0>> /\ server'.down[j][1] = "enabled"
              => i < j
      BY <2>1, <2>4 DEF Answering
    <2> QED BY <2>2, <2>5, <2>6, <2>7, <2>8 DEF Answering
  <1>13. Flowing'
    <2>1. client.online /\ server.attached
            /\ client.smContext \in Live \cup {"Enable"} =>
              Carries(server'.down, [k \in Nat |-> k], client.smHandled,
                      server.out)
      BY <1>2, DownFlows
    <2> QED BY <1>2, <1>4, <2>1, UpFlows
            DEF Flowing, SameClient, SameServer, Beside
  <1>14. Behind'
    <2>1. Behind /\ client'.online = client.online
      BY <1>4 DEF IInv, SameClient, Beside
    <2>2. \A i \in DOMAIN server'.down :
            \/ i \in DOMAIN server.down /\ server'.down[i] = server.down[i]
            \/ i = Len(server.down) + 1 /\ server'.down[i] = e
      BY <1>3 DEF AddsDown
    <2>3. \A i \in DOMAIN server'.down :
            Numbered(server'.down[i])
                \/ server'.down[i][1] \in {"enabled", "resumed"}
              => i \in DOMAIN server.down /\ server'.down[i] = server.down[i]
      BY <1>1, <2>2
    <2> QED BY <2>1, <2>3 DEF Behind
  <1> QED BY <1>5, <1>6, <1>7, <1>8, <1>9, <1>10, <1>11, <1>12, <1>13, <1>14
          DEF IInv

\* Answer() with one element.
LEMMA AnswersOne ==
  ASSUME IInv, NEW e \in DownElements, server' = Answer(<<e>>)
  PROVE  /\ server' \in ServerType /\ SameServer
         /\ server'.down = server.down \o <<e>>
PROOF
  <1>1. <<e>> \in Seq(DownElements)
    OBVIOUS
  <1> QED BY <1>1, AnswerEffect DEF IInv, SameServer

\* The server binds a resource.
LEMMA BindsKeeps ==
  ASSUME IInv, ServerBinds
  PROVE  IInv' /\ Moved
PROOF
  <1> DEFINE e == <<"bound">>
  <1>1. Took("bind") /\ server' = Answer(<<e>>)
    BY DEF ServerBinds
  <1>2. e \in DownElements /\ e[1] = "bound" /\ "bind" \in UpTokens
    BY DEF DownElements, UpTokens
  <1> HIDE DEF e
  <1> QED BY <1>1, <1>2, AnswersOne, AnswersKeep

\* It acknowledges what it has got.
LEMMA AcksKeeps ==
  ASSUME IInv, ServerAcks
  PROVE  IInv' /\ Moved
PROOF
  <1>1. CASE ~server.attached
    BY <1>1, HearsKeeps DEF ServerAcks
  <1>2. CASE server.attached
    <2> DEFINE e == <<"a", Len(server.got)>>
    <2>1. Took("r") /\ server' = Answer(<<e>>)
      BY <1>2 DEF ServerAcks
    <2>2. Len(server.got) \in Nat
      BY DEF IInv, Types, ServerType
    <2>3. /\ e \in DownElements /\ e[1] = "a" /\ e[2] = Len(server.got)
          /\ e[1] \notin DownTokens
      BY <2>2 DEF DownElements, DownTokens
    <2> HIDE DEF e
    <2> QED BY <1>2, <2>1, <2>2, <2>3, AnswersOne, AnswersKeep
  <1> QED BY <1>1, <1>2

\* It hears what the client has handled.
LEMMA HearsAckKeeps ==
  ASSUME IInv, ServerHears
  PROVE  IInv' /\ Moved
  BY HearsKeeps DEF ServerHears

\* It takes a stanza, the next of the session by what is on its way.
LEMMA TakesKeeps ==
  ASSUME IInv, ServerTakes
  PROVE  IInv' /\ Moved
PROOF
  <1> DEFINE st == Head(client.up)[2]
             g == IF server.attached THEN Append(server.got, st) ELSE server.got
  <1>1. TakesUp("stanza") /\ SameClient
    BY UpTaken DEF ServerTakes
  <1>2. /\ st \in 1..MaxStanzas /\ st > 0 /\ Numbered(Head(client.up))
        /\ client.up # <<>>
    <2>1. client.up[1] \in UpElements
      BY <1>1, ElementOfSeq DEF TakesUp
    <2>2. Head(client.up) \in {"stanza"} \X (1..MaxStanzas)
      BY <1>1, <2>1 DEF TakesUp, UpElements
    <2>3. Head(client.up)[1] = "stanza" /\ st \in 1..MaxStanzas
      BY <2>2
    <2>4. st > 0
      BY <2>3, ConstantsAssumption
    <2>5. client.up # <<>>
      BY <1>1 DEF TakesUp
    <2> QED BY <2>3, <2>4, <2>5 DEF Numbered
  <1> HIDE DEF st
  <1>3. /\ server \in ServerType /\ server.got \in Seq(1..MaxStanzas)
        /\ client \in ClientType /\ client.accepted \in Seq(1..MaxStanzas)
    BY DEF IInv, Types, ServerType, ClientType
  <1>4. g \in Seq(1..MaxStanzas) /\ Len(g) >= Len(server.got)
    <2>1. /\ Append(server.got, st) \in Seq(1..MaxStanzas)
          /\ Len(Append(server.got, st)) = Len(server.got) + 1
          /\ Len(server.got) \in Nat
      BY <1>2, <1>3
    <2>2. CASE server.attached
      BY <2>1, <2>2
    <2>3. CASE ~server.attached
      BY <1>3, <2>1, <2>3
    <2> QED BY <2>2, <2>3
  <1>5. server' = [server EXCEPT !.got = g]
    BY <1>3 DEF ServerTakes, ServerType, st
  <1> HIDE DEF g
  <1>6. /\ server' \in ServerType /\ server'.got = g
        /\ server'.session = server.session /\ server'.out = server.out
        /\ server'.attached = server.attached /\ server'.down = server.down
    BY <1>3, <1>4, <1>5 DEF ServerType
  <1>7. client.online =>
          /\ client.told /\ Free(server.down, DownTokens)
          /\ client.smContext \in {"Invalid"} \cup Managed
    BY <1>1 DEF IInv, Tokens, Free, TakesUp
  <1>8. /\ client.smContext \in {"Invalid"} \cup Managed
        /\ client.smContext \in Live => client.smContext \in Managed
        /\ client.smContext \in Managed =>
             client.online /\ client.told /\ server.attached
    BY <1>1, <1>7 DEF IInv, Attachment, TakesUp, Live, Managed
  <1>9. client.smContext \in Managed =>
          /\ g = Append(server.got, st) /\ Len(g) = Len(server.got) + 1
          /\ Len(server.got) + 1 <= Len(client.accepted)
          /\ st = client.accepted[Len(server.got) + 1]
          /\ Carries(client'.up, client.accepted, Len(server.got) + 1,
                     Len(client.accepted))
    <2> SUFFICES ASSUME client.smContext \in Managed
                 PROVE  /\ g = Append(server.got, st)
                        /\ Len(g) = Len(server.got) + 1
                        /\ Len(server.got) + 1 <= Len(client.accepted)
                        /\ st = client.accepted[Len(server.got) + 1]
                        /\ Carries(client'.up, client.accepted,
                                   Len(server.got) + 1, Len(client.accepted))
      OBVIOUS
    <2>1. Carries(client.up, client.accepted, Len(server.got),
                  Len(client.accepted))
      BY <1>8 DEF IInv, Flowing
    <2>2. client.up \in Seq(UpElements) /\ client'.up = Tail(client.up)
          /\ Len(server.got) \in Nat /\ Len(client.accepted) \in Nat
      BY <1>1, <1>3 DEF TakesUp
    <2>3. /\ Len(server.got) + 1 <= Len(client.accepted)
          /\ st = client.accepted[Len(server.got) + 1]
          /\ Carries(client'.up, client.accepted, Len(server.got) + 1,
                     Len(client.accepted))
      BY <1>2, <2>1, <2>2, CarriesHead DEF st
    <2>4. g = Append(server.got, st)
      BY <1>8 DEF g
    <2> QED BY <1>2, <1>3, <2>3, <2>4
  <1>10. Types'
    BY <1>1, <1>6 DEF Types, TakesUp
  <1>11. Queued' /\ Counted'
    BY <1>1, <1>4, <1>6, <1>3
       DEF IInv, Queued, Counted, SameClient, Beside
  <1>12. Taken'
    <2>1. client.smContext \in Managed =>
            \A i \in 1..Len(g) : g[i] = client.accepted[i]
      <3>1. client.smContext \in Managed =>
              \A i \in 1..Len(server.got) : server.got[i] = client.accepted[i]
        BY DEF IInv, Taken, Live
      <3> QED BY <1>2, <1>3, <1>9, <3>1
    <2> QED BY <1>1, <1>6, <1>8, <1>9, <2>1 DEF Taken, SameClient, Beside
  <1>13. Handed' /\ Resting'
    BY <1>1, <1>6 DEF IInv, Handed, Resting, SameClient, Beside, TakesUp
  <1>14. Tokens'
    BY <1>1, <1>6, <1>7, TokenTaken
       DEF IInv, Tokens, OneToken, SameClient, Beside
  <1>15. Attachment'
    BY <1>1, <1>6 DEF IInv, Attachment, SameClient, Beside
  <1>16. UpMeans'
    BY <1>1, <1>6 DEF IInv, UpMeans, SameClient, Beside, TakesUp
  <1>17. DownMeans'
    BY <1>1, <1>6, <1>7 DEF DownMeans, SameClient, Beside, Free, DownTokens
  <1>18. Answering'
    <2>1. server.down \in Seq(DownElements)
      BY <1>3 DEF ServerType
    <2>2. \A i \in DOMAIN server.down :
            server.down[i][1] = "a" => server.down[i][2] \in Nat
      BY <2>1, ElementOfSeq DEF DownElements
    <2>3. Len(g) \in Nat /\ Len(server.got) \in Nat
      BY <1>3, <1>4
    <2> QED BY <1>1, <1>4, <1>6, <2>2, <2>3
            DEF IInv, Answering, SameClient, Beside
  <1>19. Flowing'
    BY <1>1, <1>6, <1>9 DEF IInv, Flowing, SameClient, Beside
  <1>20. Behind'
    BY <1>1, <1>6 DEF IInv, Behind, SameClient, Beside
  <1>21. Moved
    BY <1>1, <1>2, <1>6, <1>8, <1>9 DEF Moved, SameClient, Beside
  <1> QED BY <1>10, <1>11, <1>12, <1>13, <1>14, <1>15, <1>16, <1>17, <1>18,
             <1>19, <1>20, <1>21 DEF IInv

\* It opens a session: the numbers of both sides start from nothing.
LEMMA EnablesKeeps ==
  ASSUME IInv, ServerEnables
  PROVE  IInv' /\ Moved
PROOF
  <1>1. TakesUp("enable") /\ SameClient
    BY UpTaken DEF ServerEnables
  <1>2. PICK resumable \in BOOLEAN :
          server' = [Answer(<< <<"enabled", IF resumable THEN server.session + 1
                                            ELSE 0>> >>)
                       EXCEPT !.session = server.session + 1,
                              !.resumable = resumable, !.attached = TRUE,
                              !.got = <<>>, !.out = 0]
    BY DEF ServerEnables
  <1> DEFINE id == IF resumable THEN server.session + 1 ELSE 0
             e == <<"enabled", id>>
             s == Answer(<<e>>)
  <1>3. server \in ServerType /\ server.session + 1 \in Nat /\ id \in Nat
        /\ id <= server.session + 1
    BY DEF IInv, Types, ServerType
  <1> HIDE DEF id
  <1>4. e \in DownElements /\ e[1] = "enabled" /\ e[2] <= server.session + 1
        /\ ~Numbered(e) /\ <<e>> \in Seq(DownElements) /\ e # <<"stanza", 0>>
    BY <1>3 DEF DownElements, Numbered
  <1>5. server' = [s EXCEPT !.session = server.session + 1,
                            !.resumable = resumable, !.attached = TRUE,
                            !.got = <<>>, !.out = 0]
    BY <1>2 DEF id
  <1>6. s = Answer(<<e>>)
    OBVIOUS
  <1> HIDE DEF e, s
  <1>7. s \in ServerType /\ s.down = server.down \o <<e>>
    BY <1>4, <1>6, AnswerEffect DEF IInv
  <1>8. /\ server' \in ServerType /\ server'.session = server.session + 1
        /\ server'.attached = TRUE /\ server'.got = <<>> /\ server'.out = 0
        /\ server'.down = server.down \o <<e>>
    <2>1. <<>> \in Seq(1..MaxStanzas) /\ 0 \in 0..MaxDown
      BY ConstantsAssumption
    <2> QED BY <1>3, <1>5, <1>7, <2>1 DEF ServerType
  <1>9. AddsDown(e)
    BY <1>4, <1>8, DownAdded
  <1>10. client.online => client.smContext = "Enable" /\ ~server.attached
    BY <1>1 DEF IInv, UpMeans, TakesUp
  <1>11. /\ client.smContext \in {"Invalid", "Enable"}
         /\ client.smContext \notin Live
         /\ client.smContext = "Invalid" => ~client.online
    BY <1>1, <1>10 DEF TakesUp, Live, Managed
  <1>12. client.online =>
           /\ Free(client'.up, UpTokens) /\ Free(server.down, DownTokens)
           /\ ~client.told
    <2>1. "enable" \in UpTokens
      BY DEF UpTokens
    <2> QED BY <1>1, <2>1, TokenTaken
  <1>13. Types'
    BY <1>1, <1>8 DEF Types, TakesUp
  <1>14. Queued' /\ Taken' /\ Handed' /\ Moved
    BY <1>1, <1>11 DEF IInv, Queued, Taken, Handed, Moved, SameClient, Beside
  <1>15. Counted'
    BY SMTT(30), <1>1, <1>3, <1>8
       DEF IInv, Types, ClientType, ServerType, Counted, SameClient, Beside
  <1>16. Resting'
    BY <1>1, <1>11 DEF IInv, Resting, SameClient, Beside, TakesUp
  <1>17. Tokens'
    <2>1. server.down \in Seq(DownElements)
      BY <1>3 DEF ServerType
    <2>2. client.online => Lone(server'.down, DownTokens)
      <3> SUFFICES ASSUME client.online
                   PROVE  Lone(server'.down, DownTokens)
        OBVIOUS
      <3>1. Lone(server.down \o <<e>>, DownTokens)
        BY <1>4, <1>12, <2>1, FreeAdded
      <3> QED BY <1>8, <3>1
    <2> QED BY <1>1, <1>12, <2>2, TokenTaken
            DEF IInv, Tokens, OneToken, SameClient, Beside
  <1>18. Attachment'
    BY <1>1, <1>4, <1>8, <1>9, <1>12
       DEF Attachment, AddsDown, SameClient, Beside
  <1>19. UpMeans'
    BY <1>1, <1>12 DEF UpMeans, Free, UpTokens, SameClient, Beside
  <1>20. DownMeans'
    <2>1. client.online => \A i \in DOMAIN server.down :
            server.down[i][1] \notin {"enabled", "resumed", "failed"}
      BY <1>12 DEF Free, DownTokens
    <2> QED BY SMTT(30), <1>1, <1>4, <1>8, <1>9, <1>10, <2>1
            DEF DownMeans, AddsDown, SameClient, Beside
  <1>21. client.online =>
           \A i \in DOMAIN server.down :
             /\ server.down[i][1] # "a" /\ ~Numbered(server.down[i])
             /\ server.down[i][1] # "enabled"
    BY <1>10, <1>12 DEF IInv, Answering, Free, DownTokens
  <1>22. Answering'
    BY SMTT(30), <1>1, <1>4, <1>8, <1>9, <1>11, <1>21
       DEF Answering, AddsDown, SameClient, Beside
  <1>23. Flowing'
    <2>1. client.online /\ client.smContext = "Enable" =>
            Carries(server'.down, [k \in Nat |-> k], 0, 0)
      <3> SUFFICES ASSUME client.online
                   PROVE  Carries(server'.down, [k \in Nat |-> k], 0, 0)
        OBVIOUS
      <3>1. \A i \in DOMAIN server'.down : ~Numbered(server'.down[i])
        BY <1>4, <1>9, <1>21 DEF AddsDown
      <3>2. server'.down \in Seq(DownElements)
        BY <1>9 DEF AddsDown
      <3> QED BY <3>1, <3>2, CarriesNothing
    <2>2. client.smContext = "Enable" => client.smHandled = 0
      BY DEF IInv, Counted
    <2>3. client.smContext \notin Managed
      BY <1>11 DEF Live
    <2> QED BY <1>1, <1>8, <1>11, <2>1, <2>2, <2>3
            DEF Flowing, SameClient, Beside
  <1>24. Behind'
    BY <1>1, <1>4, <1>9, <1>21 DEF Behind, AddsDown, SameClient, Beside
  <1> QED BY <1>13, <1>14, <1>15, <1>16, <1>17, <1>18, <1>19, <1>20, <1>22,
             <1>23, <1>24 DEF IInv

\* It resumes the session, and sends again from the h of the client.
LEMMA ResumesKeeps ==
  ASSUME IInv, ServerResumes
  PROVE  IInv' /\ Moved
PROOF
  <1> DEFINE id == Head(client.up)[2]
             h  == Head(client.up)[3]
  <1>1. Took("resume") /\ TakesUp("resume") /\ SameClient
    BY UpTaken DEF ServerResumes
  <1>2. server \in ServerType /\ client \in ClientType
    BY DEF IInv, Types
  <1>3. h \in Nat
    <2>1. client.up[1] \in UpElements
      BY <1>1, ElementOfSeq DEF TakesUp
    <2>2. client.up[1] \in {"resume"} \X Nat \X Nat
      BY <1>1, <2>1 DEF TakesUp, UpElements
    <2> QED BY <1>1, <2>2 DEF TakesUp
  <1>4. client.online =>
          client.smContext = "Resume" /\ ~server.attached
            /\ h = client.smHandled
    BY <1>1 DEF IInv, UpMeans, TakesUp
  <1>5. client.online => Free(client'.up, UpTokens)
                           /\ Free(server.down, DownTokens) /\ ~client.told
    <2>1. "resume" \in UpTokens
      BY DEF UpTokens
    <2> QED BY <1>1, <2>1, TokenTaken
  <1>6. CASE ~(server.resumable /\ id = server.session)
    <2> DEFINE e == <<"failed">>
    <2>1. server' = [Answer(<<e>>) EXCEPT !.resumable = FALSE]
      BY <1>6 DEF ServerResumes
    <2>2. /\ e \in DownElements /\ e[1] = "failed" /\ "resume" \in UpTokens
          /\ <<e>> \in Seq(DownElements)
      BY DEF DownElements, UpTokens
    <2> DEFINE s == Answer(<<e>>)
    <2>3. s = Answer(<<e>>) /\ server' = [s EXCEPT !.resumable = FALSE]
      BY <2>1
    <2> HIDE DEF e, s
    <2>4. /\ s \in ServerType /\ s.session = server.session
          /\ s.attached = server.attached /\ s.got = server.got
          /\ s.out = server.out /\ s.down = server.down \o <<e>>
      BY <2>2, <2>3, AnswerEffect DEF IInv
    <2>5. /\ server' \in ServerType /\ SameServer
          /\ server'.down = server.down \o <<e>>
      BY <2>3, <2>4 DEF ServerType, SameServer
    <2> QED BY <1>1, <1>4, <2>2, <2>5, AnswersKeep
  <1>7. CASE server.resumable /\ id = server.session
    <2> DEFINE e == <<"resumed", Len(server.got)>>
               r == [i \in 1..(server.out - h) |-> <<"stanza", h + i>>]
               s == Answer(<<e>> \o r)
               old == Len(server.down)
    <2>1. server' = [s EXCEPT !.attached = TRUE]
      BY <1>7 DEF ServerResumes
    <2>2. /\ e \in DownElements /\ e[1] = "resumed" /\ e[2] = Len(server.got)
          /\ ~Numbered(e) /\ e # <<"stanza", 0>> /\ <<e>> \in Seq(DownElements)
      BY <1>2 DEF DownElements, Numbered, ServerType
    <2>3. /\ r \in Seq(DownElements)
          /\ Len(r) = IF h <= server.out THEN server.out - h ELSE 0
          /\ \A i \in DOMAIN r : r[i] = <<"stanza", h + i>> /\ Numbered(r[i])
                                   /\ r[i][1] = "stanza"
                                   /\ r[i] # <<"stanza", 0>>
      <3> DEFINE k == IF h <= server.out THEN server.out - h ELSE 0
      <3>1. server.out \in Nat
        BY <1>2, ConstantsAssumption DEF ServerType
      <3>2. k \in Nat /\ 1..(server.out - h) = 1..k
        BY <1>3, <3>1
      <3>3. \A i \in 1..k : <<"stanza", h + i>> \in DownElements /\ h + i > 0
        BY <1>3 DEF DownElements
      <3>4. r = [i \in 1..k |-> <<"stanza", h + i>>]
        BY <3>2
      <3> HIDE DEF k, r
      <3>5. r \in [1..k -> DownElements]
        BY <3>3, <3>4
      <3>6. r \in Seq(DownElements) /\ Len(r) = k /\ DOMAIN r = 1..k
        BY <3>2, <3>5
      <3>7. \A i \in DOMAIN r : /\ r[i] = <<"stanza", h + i>> /\ Numbered(r[i])
                                /\ r[i][1] = "stanza" /\ r[i] # <<"stanza", 0>>
        BY <3>3, <3>4, <3>6 DEF Numbered
      <3> QED BY <3>6, <3>7 DEF k
    <2> DEFINE es == <<e>> \o r
    <2>4. s = Answer(es)
      OBVIOUS
    <2> HIDE DEF e, r, s, old
    <2>5. /\ es \in Seq(DownElements) /\ DOMAIN es = 1..(Len(r) + 1)
          /\ es[1] = e /\ \A i \in DOMAIN r : es[i + 1] = r[i]
          /\ DOMAIN r = 1..Len(r) /\ Len(r) \in Nat
          /\ \A i \in DOMAIN es : i = 1 \/ i - 1 \in DOMAIN r
      BY <2>2, <2>3
    <2>6. \A i \in DOMAIN es :
            \/ i = 1 /\ es[i] = e
            \/ i # 1 /\ es[i][1] = "stanza" /\ es[i] # <<"stanza", 0>>
      <3> TAKE i \in DOMAIN es
      <3>1. CASE i = 1
        BY <3>1, <2>5
      <3>2. CASE i # 1
        <4>1. i - 1 \in DOMAIN r /\ (i - 1) + 1 = i
          BY <3>2, <2>5
        <4>2. es[(i - 1) + 1] = r[i - 1]
          BY <4>1, <2>5
        <4> QED BY <3>2, <4>1, <4>2, <2>3
      <3> QED BY <3>1, <3>2
    <2> HIDE DEF es
    <2>7. /\ s \in ServerType /\ s.session = server.session
          /\ s.got = server.got /\ s.out = server.out
          /\ s.down = server.down \o es
      BY <2>4, <2>5, AnswerEffect DEF IInv
    <2>8. /\ server' \in ServerType /\ server'.session = server.session
          /\ server'.got = server.got /\ server'.out = server.out
          /\ server'.attached = TRUE /\ server'.down = server.down \o es
      BY <2>1, <2>7 DEF ServerType
    <2>9. /\ server.down \in Seq(DownElements) /\ old \in Nat
          /\ DOMAIN server.down = 1..old
          /\ \A i \in DOMAIN server'.down :
               \/ i \in DOMAIN server.down /\ server'.down[i] = server.down[i]
               \/ i - old \in DOMAIN es /\ server'.down[i] = es[i - old]
          /\ old + 1 \in DOMAIN server'.down /\ server'.down[old + 1] = e
      <3>1. server.down \in Seq(DownElements)
        BY <1>2 DEF ServerType
      <3> DEFINE q == server.down
                 d == server'.down
      <3>2. q \in Seq(DownElements) /\ d = q \o es
        BY <2>8, <3>1
      <3> HIDE DEF q, d
      <3>4. /\ Len(q) \in Nat /\ DOMAIN q = 1..Len(q)
            /\ \A i \in DOMAIN q : i \in DOMAIN d /\ d[i] = q[i]
            /\ \A i \in DOMAIN es :
                 Len(q) + i \in DOMAIN d /\ d[Len(q) + i] = es[i]
            /\ \A i \in DOMAIN d :
                 \/ i \in DOMAIN q
                 \/ i - Len(q) \in DOMAIN es /\ d[i] = es[i - Len(q)]
        BY <2>5, <3>2, ConcatDomain
      <3>3. 1 \in DOMAIN es
        BY <2>5
      <3> QED BY <2>5, <3>1, <3>3, <3>4 DEF old, q, d
    <2>10. /\ client.smContext \in {"Invalid", "Resume"}
           /\ client.smContext = "Invalid" => ~client.online
      BY <1>1, <1>4 DEF TakesUp
    <2>11. Types'
      BY <1>1, <2>8 DEF Types, TakesUp
    <2>12. Queued' /\ Counted' /\ Taken' /\ Handed' /\ Moved
      BY <1>1, <2>8
         DEF IInv, Queued, Counted, Taken, Handed, Moved, SameClient, Beside
    <2>13. Resting'
      BY <1>1, <2>10 DEF IInv, Resting, SameClient, Beside, TakesUp
    <2>14. Tokens'
      <3> SUFFICES ASSUME client.online
                   PROVE  Tokens'
        BY <1>1 DEF Tokens, SameClient, Beside
      <3>1. Lone(es, DownTokens)
        BY <2>6 DEF Lone, DownTokens
      <3>2. Lone(server.down \o es, DownTokens)
        BY <1>5, <2>5, <2>9, <3>1, FreeConcat
      <3> QED BY <1>1, <1>5, <2>8, <3>2, TokenTaken
              DEF IInv, Tokens, OneToken, SameClient, Beside
    <2>15. Attachment'
      BY <1>1, <1>5, <2>2, <2>8, <2>9 DEF Attachment, SameClient, Beside
    <2>16. UpMeans'
      BY <1>1, <1>5 DEF UpMeans, Free, UpTokens, SameClient, Beside
    <2>17. client.online =>
             \A i \in DOMAIN server'.down :
               \/ /\ server'.down[i][1] \notin DownTokens \cup {"a"}
                  /\ server'.down[i] # <<"stanza", 0>>
               \/ server'.down[i] = e
      <3> SUFFICES ASSUME client.online, NEW i \in DOMAIN server'.down
                   PROVE  \/ /\ server'.down[i][1] \notin DownTokens \cup {"a"}
                             /\ server'.down[i] # <<"stanza", 0>>
                          \/ server'.down[i] = e
        OBVIOUS
      <3>1. CASE i \in DOMAIN server.down /\ server'.down[i] = server.down[i]
        BY <1>4, <1>5, <3>1 DEF IInv, Answering, Free, Live
      <3>2. CASE i - old \in DOMAIN es /\ server'.down[i] = es[i - old]
        BY <2>6, <3>2 DEF DownTokens
      <3> QED BY <2>9, <3>1, <3>2
    <2>18. DownMeans'
      BY <1>1, <1>4, <2>2, <2>8, <2>17
         DEF DownMeans, DownTokens, SameClient, Beside
    <2>19. Answering'
      BY <1>1, <2>2, <2>8, <2>17
         DEF Answering, DownTokens, SameClient, Beside
    <2>20. Flowing'
      <3>1. client.online =>
              Carries(server'.down, [k \in Nat |-> k], client.smHandled,
                      server.out)
        <4> DEFINE ident == [k \in Nat |-> k]
        <4> SUFFICES ASSUME client.online
                     PROVE  Carries(server'.down, ident, h, server.out)
          BY <1>4
        <4>1. \A i \in 1..Len(server.down) : ~Numbered(server.down[i])
          BY <1>4, <2>9 DEF IInv, Answering, old
        <4>2. \A i \in 1..Len(r) : Numbered(r[i]) /\ r[i][2] = ident[h + i]
          BY SMTT(30), <1>3, <2>3, <2>5
        <4>3. h <= server.out
          BY <1>4 DEF IInv, Handed, Live
        <4>4. h + Len(r) = server.out
          BY <1>2, <1>3, <2>3, <4>3, ConstantsAssumption DEF ServerType
        <4> HIDE DEF ident
        <4>5. Carries(server.down, ident, h, h)
          BY <1>3, <2>9, <4>1, CarriesNothing
        <4>6. Carries(<<e>>, ident, h, h)
          <5>1. \A i \in 1..Len(<<e>>) : ~Numbered(<<e>>[i])
            BY <2>2
          <5> QED BY <1>3, <2>2, <5>1, CarriesNothing
        <4>7. Carries(r, ident, h, server.out)
          BY <1>3, <2>3, <4>2, <4>4, CarriesRun
        <4>8. server.out \in Nat
          BY <1>2, ConstantsAssumption DEF ServerType
        <4>9. Carries(es, ident, h, server.out)
          BY <1>3, <2>2, <2>3, <4>6, <4>7, <4>8, CarriesConcat DEF es
        <4> QED BY <1>3, <2>5, <2>8, <2>9, <4>5, <4>8, <4>9, CarriesConcat
      <3> QED BY <1>1, <1>4, <1>5, <2>8, <3>1 DEF Flowing, SameClient, Beside
    <2>21. Behind'
      <3> SUFFICES ASSUME client.online,
                          NEW i \in DOMAIN server'.down,
                          NEW j \in DOMAIN server'.down,
                          Numbered(server'.down[i]),
                          server'.down[j][1] \in {"enabled", "resumed"}
                   PROVE  j < i
        BY <1>1 DEF Behind, SameClient, Beside
      <3>1. i - old \in DOMAIN es /\ server'.down[i] = es[i - old]
        BY <1>4, <2>9 DEF IInv, Answering
      <3>2. j - old \in DOMAIN es /\ server'.down[j] = es[j - old]
        BY <1>5, <2>9 DEF Free, DownTokens
      <3>3. j - old = 1
        BY <2>6, <3>2
      <3>4. i - old # 1
        BY <2>2, <2>6, <3>1
      <3>5. i \in Nat /\ j \in Nat
        <4>1. server'.down \in Seq(DownElements)
          BY <2>8 DEF ServerType
        <4> QED BY <4>1
      <3>6. i - old > 1
        BY <2>5, <2>9, <3>1, <3>4, <3>5
      <3> QED BY <2>9, <3>3, <3>5, <3>6
    <2> QED BY <2>11, <2>12, <2>13, <2>14, <2>15, <2>16, <2>18, <2>19, <2>20,
               <2>21 DEF IInv
  <1> QED BY <1>6, <1>7

\* It hears the end of the stream: there is none to hear.
LEMMA HearsCloseKeeps ==
  ASSUME IInv, ServerHearsClose
  PROVE  IInv' /\ Moved
PROOF
  <1>1. TakesUp("close") /\ SameClient
    BY UpTaken DEF ServerHearsClose
  <1>2. ~client.online /\ client.smContext = "Invalid"
    BY <1>1 DEF IInv, Tokens, Free, TakesUp
  <1>3. /\ server' \in ServerType /\ server'.session = server.session
        /\ server'.got = server.got /\ server'.out = server.out
        /\ server'.attached = FALSE /\ server'.down = server.down
    BY DEF IInv, Types, ServerHearsClose, ServerType
  <1>4. Types'
    BY <1>1, <1>3 DEF Types, TakesUp
  <1>5. Queued' /\ Counted' /\ Taken' /\ Handed' /\ Moved
    BY <1>1, <1>3
       DEF IInv, Queued, Counted, Taken, Handed, Moved, SameClient, Beside
  <1>6. Resting'
    BY <1>1, <1>2 DEF IInv, Resting, SameClient, Beside
  <1>7. /\ Tokens' /\ Attachment' /\ UpMeans' /\ DownMeans' /\ Answering'
        /\ Behind' /\ Flowing'
    BY <1>1, <1>2 DEF Tokens, Attachment, UpMeans, DownMeans, Answering,
                      Behind, Flowing, SameClient, Beside
  <1> QED BY <1>4, <1>5, <1>6, <1>7 DEF IInv

-----------------------------------------------------------------------------
(* What the client reads. *)

\* What the client reads, and what is left on the way to it.
ReadsDown(kind) ==
  /\ client.online /\ server' \in ServerType
  /\ server.down \in Seq(DownElements) /\ 1 \in DOMAIN server.down
  /\ Head(server.down) = server.down[1] /\ server.down[1][1] = kind
  /\ Head(server.down) \in DownElements
  /\ server'.down = Tail(server.down)
  /\ \A i \in DOMAIN server'.down :
       /\ i + 1 \in DOMAIN server.down /\ server'.down[i] = server.down[i + 1]
       /\ i \in Nat

\* What the invariant gives of an element the client reads.
LEMMA DownRead ==
  ASSUME IInv, NEW kind, Reads(kind)
  PROVE  ReadsDown(kind) /\ SameServer
PROOF
  <1>1. /\ server' \in ServerType /\ SameServer /\ client.online
        /\ server.down # <<>> /\ Head(server.down)[1] = kind
        /\ server'.down = Tail(server.down)
    BY ReadsEffect DEF IInv
  <1>2. server.down \in Seq(DownElements)
    BY DEF IInv, Types, ServerType
  <1>3. \A i \in DOMAIN server'.down :
          /\ i + 1 \in DOMAIN server.down
          /\ server'.down[i] = server.down[i + 1]
          /\ i \in Nat
    BY <1>1, <1>2, Removed
  <1>4. /\ 1 \in DOMAIN server.down /\ Head(server.down) = server.down[1]
        /\ Head(server.down) \in DownElements
    BY <1>1, <1>2, Removed
  <1> QED BY <1>1, <1>2, <1>3, <1>4 DEF ReadsDown

\* Reading an element of the negotiation leaves none.
LEMMA TokenRead ==
  ASSUME IInv, NEW kind, ReadsDown(kind)
  PROVE  /\ Lone(server'.down, DownTokens)
         /\ Free(server.down, DownTokens) => Free(server'.down, DownTokens)
         /\ kind \in DownTokens =>
              /\ Free(server'.down, DownTokens) /\ Free(client.up, UpTokens)
              /\ Free(client.up, {"stanza", "close"}) /\ ~client.told
PROOF
  <1>1. server.down \in Seq(DownElements) /\ server.down # <<>>
        /\ Head(server.down)[1] = kind /\ server'.down = Tail(server.down)
    BY DEF ReadsDown
  <1>2. /\ Lone(server.down, DownTokens) /\ Free(client.up, {"close"})
        /\ Free(client.up, UpTokens) \/ Free(server.down, DownTokens)
        /\ client.told => Free(server.down, DownTokens)
        /\ ~client.told => Free(client.up, {"stanza"})
    BY DEF IInv, Tokens, OneToken, ReadsDown
  <1>3. kind \in DownTokens => ~Free(server.down, DownTokens)
    BY DEF Free, ReadsDown
  <1>4. Free(client.up, {"stanza"}) /\ Free(client.up, {"close"})
          => Free(client.up, {"stanza", "close"})
    BY DEF Free
  <1> QED BY <1>1, <1>2, <1>3, <1>4, FreeTail

\* What is on its way to the client, after it has read what is no stanza.
LEMMA DownLeft ==
  ASSUME IInv, NEW kind, ReadsDown(kind), ~Numbered(Head(server.down))
  PROVE  server.attached /\ client.smContext \in Live \cup {"Enable"} =>
           Carries(server'.down, [k \in Nat |-> k], client.smHandled,
                   server.out)
PROOF
  <1> DEFINE id == [k \in Nat |-> k]
  <1> SUFFICES ASSUME server.attached,
                      client.smContext \in Live \cup {"Enable"}
               PROVE  Carries(server'.down, id, client.smHandled, server.out)
    OBVIOUS
  <1>1. /\ server.down \in Seq(DownElements) /\ server.down # <<>>
        /\ Head(server.down)[1] = kind /\ server'.down = Tail(server.down)
        /\ client.online
    BY DEF ReadsDown
  <1>3. client.smHandled \in Nat /\ server.out \in Nat
    BY ConstantsAssumption DEF IInv, Types, ClientType, ServerType
  <1>4. Carries(server.down, id, client.smHandled, server.out)
    BY <1>1 DEF IInv, Flowing
  <1> HIDE DEF id
  <1> QED BY <1>1, <1>3, <1>4, CarriesHead

\* What is left on the way to the client still belongs to the session.
LEMMA AnsweringLeft ==
  ASSUME IInv, NEW kind, ReadsDown(kind), SameServer,
         client'.smContext \in Live =>
           client.smContext \in Live \/ kind = "enabled"
  PROVE  Answering'
PROOF
  <1>1. /\ client.online /\ server'.attached = server.attached
        /\ server'.got = server.got
    BY DEF ReadsDown, SameServer
  <1>2. \A i \in DOMAIN server'.down :
          /\ i + 1 \in DOMAIN server.down
          /\ server'.down[i] = server.down[i + 1]
          /\ i \in Nat
    BY DEF ReadsDown
  <1>3. Answering
    BY DEF IInv
  <1>4. ~server.attached =>
          \A i \in DOMAIN server'.down :
            server'.down[i][1] # "a" /\ ~Numbered(server'.down[i])
    BY <1>1, <1>2, <1>3 DEF Answering
  <1>5. \A i \in DOMAIN server'.down :
          server'.down[i][1] = "a" => server'.down[i][2] <= Len(server.got)
    BY <1>1, <1>2, <1>3 DEF Answering
  <1>6. client'.smContext \in Live =>
          \A i \in DOMAIN server'.down : server'.down[i] # <<"stanza", 0>>
    <2>1. CASE client.smContext \in Live
      BY <1>1, <1>2, <1>3, <2>1 DEF Answering
    <2>2. CASE kind = "enabled"
      <3>1. server.down[1][1] = "enabled" /\ 1 \in DOMAIN server.down
        BY <2>2 DEF ReadsDown
      <3>2. \A i \in DOMAIN server.down :
              server.down[i] = <<"stanza", 0>> => i < 1
        BY <1>1, <1>3, <3>1 DEF Answering
      <3> QED BY <1>2, <3>2
    <2> QED BY <2>1, <2>2
  <1>7. \A i, j \in DOMAIN server'.down :
          server'.down[i] = <<"stanza", 0>> /\ server'.down[j][1] = "enabled"
            => i < j
    <2> TAKE i, j \in DOMAIN server'.down
    <2> SUFFICES ASSUME server'.down[i] = <<"stanza", 0>>,
                        server'.down[j][1] = "enabled"
                 PROVE  i < j
      OBVIOUS
    <2>1. i + 1 < j + 1
      BY <1>1, <1>2, <1>3 DEF Answering
    <2> QED BY <1>2, <2>1
  <1> QED BY <1>1, <1>4, <1>5, <1>6, <1>7 DEF Answering

\* Reading does not change the order of what is left.
LEMMA BehindLeft ==
  ASSUME IInv, NEW kind, ReadsDown(kind)
  PROVE  Behind'
PROOF
  <1>1. \A i \in DOMAIN server'.down :
          /\ i + 1 \in DOMAIN server.down
          /\ server'.down[i] = server.down[i + 1]
          /\ i \in Nat
    BY DEF ReadsDown
  <1>2. Behind /\ client.online
    BY DEF IInv, ReadsDown
  <1> SUFFICES ASSUME NEW i \in DOMAIN server'.down,
                      NEW j \in DOMAIN server'.down,
                      Numbered(server'.down[i]),
                      server'.down[j][1] \in {"enabled", "resumed"}
               PROVE  j < i
    BY DEF Behind
  <1>3. j + 1 < i + 1
    BY <1>1, <1>2 DEF Behind
  <1> QED BY <1>1, <1>3

\* The client reads what changes nothing but what is on its way.
LEMMA NoticesKeep ==
  ASSUME IInv, NEW kind, Reads(kind), kind \notin {"enabled", "resumed"},
         server.attached /\ client.smContext \in Live \cup {"Enable"} =>
           ~Numbered(Head(server.down)),
         UNCHANGED client
  PROVE  IInv' /\ Moved
PROOF
  <1>1. ReadsDown(kind) /\ SameServer
    BY DownRead
  <1>2. SameClient
    BY DEF SameClient, Beside
  <1>3. Types'
    BY <1>1 DEF IInv, Types, ReadsDown
  <1>4. Queued' /\ Counted' /\ Taken' /\ Handed' /\ Moved
    BY <1>1, <1>2, SameKeeps
  <1>5. Resting' /\ UpMeans'
    BY <1>1 DEF IInv, Resting, UpMeans, SameServer
  <1>6. Tokens'
    BY <1>1, TokenRead DEF IInv, Tokens, OneToken
  <1>7. Attachment'
    <2>2. \A i \in DOMAIN server.down :
            server.down[i][1] \in {"enabled", "resumed"} =>
              i # 1 /\ i - 1 \in DOMAIN server'.down
                    /\ server'.down[i - 1] = server.down[i]
      <3>1. /\ Len(server.down) \in Nat
            /\ DOMAIN server.down = 1..Len(server.down)
            /\ DOMAIN server'.down = 1..(Len(server.down) - 1)
        BY <1>1, Removed DEF ReadsDown
      <3> QED BY <1>1, <3>1 DEF ReadsDown
    <2> QED BY <1>1, <2>2 DEF IInv, Attachment, SameServer
  <1>8. DownMeans'
    BY <1>1 DEF IInv, DownMeans, ReadsDown, SameServer
  <1>9. Answering'
    BY <1>1, AnsweringLeft
  <1>10. Flowing'
    BY <1>1, DownLeft DEF IInv, Flowing, SameServer
  <1>11. Behind'
    BY <1>1, BehindLeft
  <1> QED BY <1>3, <1>4, <1>5, <1>6, <1>7, <1>8, <1>9, <1>10, <1>11 DEF IInv

\* The server does not have the session while it is asked for one.
LEMMA NotYetAttached ==
  ASSUME IInv, NEW kind, ReadsDown(kind), SameServer,
         kind \in {"features", "bound", "failed"}
  PROVE  ~client.told /\ ~server.attached /\ ~server'.attached
PROOF
  <1>1. kind \in DownTokens
    BY DEF DownTokens
  <1>2. ~client.told
    BY <1>1, TokenRead
  <1>3. \A i \in DOMAIN server.down :
          server.down[i][1] \notin {"enabled", "resumed"}
    <2> SUFFICES ASSUME NEW i \in DOMAIN server.down,
                        server.down[i][1] \in {"enabled", "resumed"}
                 PROVE  FALSE
      OBVIOUS
    <2>1. server.down[i][1] \in DownTokens
      BY DEF DownTokens
    <2>2. Lone(server.down, DownTokens)
      BY DEF IInv, Tokens, OneToken, ReadsDown
    <2>3. i = 1
      BY <1>1, <2>1, <2>2 DEF Lone, ReadsDown
    <2> QED BY <2>3 DEF ReadsDown
  <1> QED BY <1>2, <1>3 DEF IInv, Attachment, ReadsDown, SameServer

\* The client takes one step of the negotiation and asks for the next, if any.
Asks(e) ==
  /\ client'.up = client.up \o <<e>> /\ e \in UpElements
  /\ e[1] \in UpTokens
  /\ e[1] = "enable" => client'.smContext = "Enable"
  /\ e[1] = "resume" => client'.smContext = "Resume"
                          /\ e[3] = client'.smHandled

\* The negotiation goes on: the application has not been told.
LEMMA NegotiatesKeep ==
  ASSUME IInv, NEW kind, Reads(kind), kind \in {"features", "bound", "failed"},
         client' \in ClientType, client'.online, ~client'.told,
         client'.up = client.up \/ \E e : Asks(e),
         client'.smContext \in Live => client.smContext \in Live,
         Queued', Counted', Taken', Handed'
  PROVE  IInv'
PROOF
  <1>1. ReadsDown(kind) /\ SameServer /\ kind \in DownTokens
    BY DownRead DEF DownTokens
  <1>2. ~client.told /\ ~server.attached /\ ~server'.attached
    BY <1>1, NotYetAttached
  <1>3. /\ Free(server'.down, DownTokens) /\ Free(client.up, UpTokens)
        /\ Free(client.up, {"stanza"}) /\ Free(client.up, {"close"})
    BY <1>1, TokenRead DEF Free
  <1>4. client.up \in Seq(UpElements)
    BY DEF IInv, Types, ClientType
  <1>5. /\ Lone(client'.up, UpTokens) /\ Free(client'.up, {"stanza"})
        /\ Free(client'.up, {"close"})
        /\ \A i \in DOMAIN client'.up :
             client'.up[i][1] \in UpTokens => Asks(client'.up[i])
    <2>1. CASE client'.up = client.up
      BY <1>3, <2>1 DEF Free, Lone
    <2>2. CASE \E e : Asks(e)
      <3>1. PICK e : Asks(e)
        BY <2>2
      <3>2. e \in UpElements /\ client'.up = client.up \o <<e>>
            /\ e[1] \notin {"stanza"} /\ e[1] \notin {"close"}
        BY <3>1 DEF Asks, UpTokens
      <3>3. /\ Lone(client.up \o <<e>>, UpTokens)
            /\ Free(client.up \o <<e>>, {"stanza"})
            /\ Free(client.up \o <<e>>, {"close"})
        BY <1>3, <1>4, <3>2, FreeAdded
      <3>4. \A i \in DOMAIN client'.up :
              \/ i \in DOMAIN client.up /\ client'.up[i] = client.up[i]
              \/ client'.up[i] = e
        BY <1>4, <3>2, AddedDomain
      <3> QED BY <1>3, <3>1, <3>2, <3>3, <3>4 DEF Free
    <2> QED BY <2>1, <2>2
  <1>6. Types' /\ Resting'
    BY <1>1 DEF Types, Resting, ReadsDown
  <1>7. Tokens'
    BY <1>1, <1>3, <1>5, TokenRead DEF Tokens, OneToken
  <1>8. Attachment'
    BY <1>2 DEF Attachment
  <1>9. UpMeans'
    <2> SUFFICES ASSUME NEW i \in DOMAIN client'.up
                 PROVE  /\ client'.up[i][1] = "enable" =>
                             client'.smContext = "Enable" /\ ~server'.attached
                        /\ client'.up[i][1] = "resume" =>
                             /\ client'.smContext = "Resume"
                             /\ ~server'.attached
                             /\ client'.up[i][3] = client'.smHandled
      BY DEF UpMeans
    <2> QED BY <1>2, <1>5 DEF Asks, UpTokens
  <1>10. DownMeans'
    BY <1>3 DEF DownMeans, Free, DownTokens
  <1>11. Answering' /\ Behind'
    BY <1>1, AnsweringLeft, BehindLeft
  <1>12. Flowing'
    BY <1>2 DEF Flowing
  <1> QED BY <1>6, <1>7, <1>8, <1>9, <1>10, <1>11, <1>12 DEF IInv

\* A counter that changes keeps its type.
LEMMA HandledType ==
  ASSUME NEW x \in ClientType, NEW n \in Nat,
         NEW d, d = [x EXCEPT !.smHandled = n]
  PROVE  d \in ClientType
  BY DEF ClientType

\* The three things Client::sendStreamManagement() may do.
ManagesTo(c, d) ==
  /\ d \in ClientType /\ d.online /\ d.told = c.told
  /\ d.wanted = c.wanted /\ d.accepted = c.accepted /\ d.made = c.made
  /\ d.smQueue = c.smQueue /\ d.smSent = c.smSent /\ d.seen = c.seen
  /\ d.smId = c.smId
  /\ \/ /\ d.up = c.up /\ d.smContext = c.smContext
        /\ d.smHandled = c.smHandled
     \/ /\ c.wanted /\ c.smContext = "Invalid" /\ d.smContext = "Enable"
        /\ d.smHandled = 0 /\ d.up = c.up \o << <<"enable">> >>
     \/ /\ c.wanted /\ c.smContext = "Enabled" /\ d.smContext = "Resume"
        /\ d.smHandled = c.smHandled
        /\ d.up = c.up \o << <<"resume", c.smId, c.smHandled>> >>

LEMMA ManagementEffect ==
  ASSUME NEW c \in ClientType, c.online, NEW d, d = SendStreamManagement(c)
  PROVE  ManagesTo(c, d)
PROOF
  <1>1. CASE c.wanted /\ c.smContext = "Invalid"
    <2> DEFINE es == << <<"enable">> >>
               w == Write(c, es)
    <2>1. es \in Seq(UpElements) /\ w = Write(c, es)
      BY DEF UpElements
    <2>2. d = [w EXCEPT !.smContext = "Enable", !.smHandled = 0]
      BY <1>1 DEF SendStreamManagement
    <2> HIDE DEF es, w
    <2>3. /\ w \in ClientType /\ Beside(c, w) /\ w.made = c.made
          /\ w.accepted = c.accepted /\ w.smQueue = c.smQueue
          /\ w.smSent = c.smSent /\ w.up = c.up \o es
      BY ZenonT(60), <2>1, WriteEffect
    <2>4. "Enable" \in Contexts
      BY DEF Contexts
    <2> DEFINE x == [w EXCEPT !.smContext = "Enable"]
    <2>5. x \in ClientType
      BY <2>3, <2>4 DEF ClientType
    <2>6. /\ Beside(c, [x EXCEPT !.smContext = c.smContext])
          /\ x.made = c.made /\ x.accepted = c.accepted
          /\ x.smQueue = c.smQueue /\ x.smSent = c.smSent
          /\ x.up = c.up \o es /\ x.smContext = "Enable"
      BY <2>3, <2>5 DEF ClientType, Beside
    <2>7. d = [x EXCEPT !.smHandled = 0]
      BY <2>2, <2>3 DEF ClientType
    <2> HIDE DEF x
    <2>8. d \in ClientType
      BY <2>5, <2>7, HandledType
    <2>9. /\ d.online /\ d.told = c.told
          /\ d.wanted = c.wanted /\ d.accepted = c.accepted /\ d.made = c.made
          /\ d.smQueue = c.smQueue /\ d.smSent = c.smSent /\ d.seen = c.seen
          /\ d.smId = c.smId /\ d.smContext = "Enable" /\ d.smHandled = 0
          /\ d.up = c.up \o es
      <3>1. /\ x.online = c.online /\ x.told = c.told /\ x.wanted = c.wanted
            /\ x.seen = c.seen /\ x.smId = c.smId
        BY <2>5, <2>6 DEF ClientType, Beside
      <3>2. /\ d.online = x.online /\ d.told = x.told /\ d.wanted = x.wanted
            /\ d.accepted = x.accepted /\ d.made = x.made
            /\ d.smQueue = x.smQueue /\ d.smSent = x.smSent
            /\ d.seen = x.seen /\ d.smId = x.smId
            /\ d.smContext = x.smContext /\ d.smHandled = 0 /\ d.up = x.up
        BY <2>5, <2>7 DEF ClientType
      <3> QED BY <2>6, <3>1, <3>2
    <2>10. d.up = c.up \o << <<"enable">> >>
      BY <2>9 DEF es
    <2> QED BY <1>1, <2>8, <2>9, <2>10 DEF ManagesTo
  <1>2. CASE c.wanted /\ c.smContext = "Enabled"
    <2> DEFINE e == <<"resume", c.smId, c.smHandled>>
               es == <<e>>
               w == Write(c, es)
    <2>1. e \in {"resume"} \X Nat \X Nat
      BY DEF ClientType
    <2>2. d = [w EXCEPT !.smContext = "Resume"]
      BY <1>2 DEF SendStreamManagement
    <2> HIDE DEF e
    <2>3. es \in Seq(UpElements) /\ w = Write(c, es)
      <3>1. e \in UpElements
        BY <2>1 DEF UpElements
      <3> QED BY <3>1
    <2> HIDE DEF es, w
    <2>4. /\ w \in ClientType /\ Beside(c, w) /\ w.made = c.made
          /\ w.accepted = c.accepted /\ w.smQueue = c.smQueue
          /\ w.smSent = c.smSent /\ w.up = c.up \o es
      BY ZenonT(60), <2>3, WriteEffect
    <2>5. "Resume" \in Contexts
      BY DEF Contexts
    <2>6. d \in ClientType
      BY <2>2, <2>4, <2>5 DEF ClientType
    <2>7. /\ d.online /\ d.told = c.told
          /\ d.wanted = c.wanted /\ d.accepted = c.accepted /\ d.made = c.made
          /\ d.smQueue = c.smQueue /\ d.smSent = c.smSent /\ d.seen = c.seen
          /\ d.smId = c.smId /\ d.smContext = "Resume"
          /\ d.smHandled = c.smHandled /\ d.up = c.up \o es
      BY ZenonT(60), <2>2, <2>4 DEF ClientType, Beside
    <2>8. d.up = c.up \o << <<"resume", c.smId, c.smHandled>> >>
      BY <2>7 DEF es, e
    <2> QED BY <1>2, <2>6, <2>7, <2>8 DEF ManagesTo
  <1>3. CASE ~(c.wanted /\ c.smContext \in {"Invalid", "Enabled"})
    BY <1>3 DEF SendStreamManagement, ManagesTo
  <1> QED BY <1>1, <1>2, <1>3

\* The session is asked for, or its resumption, on whichever element.
LEMMA ManagesKeep ==
  ASSUME IInv, NEW kind, Reads(kind), kind \in {"features", "bound"},
         NEW b \in BOOLEAN,
         client' = SendStreamManagement([client EXCEPT !.bound = b])
  PROVE  IInv' /\ Moved
PROOF
  <1> DEFINE c == [client EXCEPT !.bound = b]
  <1>1. ReadsDown(kind) /\ SameServer
    BY DownRead
  <1>2. client \in ClientType /\ client.online /\ ~client.told
    BY <1>1, NotYetAttached DEF IInv, Types, ReadsDown
  <1>3. /\ c \in ClientType /\ c.online /\ c.told = client.told
        /\ c.wanted = client.wanted /\ c.accepted = client.accepted
        /\ c.smQueue = client.smQueue /\ c.smSent = client.smSent
        /\ c.seen = client.seen /\ c.smContext = client.smContext
        /\ c.smHandled = client.smHandled /\ c.up = client.up
        /\ c.smId = client.smId /\ c.made = client.made
    BY <1>2 DEF ClientType
  <1>4. client' = SendStreamManagement(c)
    OBVIOUS
  <1> HIDE DEF c
  <1>5. /\ client' \in ClientType /\ client'.online /\ client'.told = c.told
        /\ client'.wanted = c.wanted /\ client'.accepted = c.accepted
        /\ client'.smQueue = c.smQueue /\ client'.smSent = c.smSent
        /\ client'.seen = c.seen /\ client'.made = c.made
        /\ client'.smId = c.smId
        /\ \/ /\ client'.up = c.up /\ client'.smContext = c.smContext
              /\ client'.smHandled = c.smHandled
           \/ /\ c.wanted /\ c.smContext = "Invalid"
              /\ client'.smContext = "Enable"
              /\ client'.smHandled = 0
              /\ client'.up = c.up \o << <<"enable">> >>
           \/ /\ c.wanted /\ c.smContext = "Enabled"
              /\ client'.smContext = "Resume"
              /\ client'.smHandled = c.smHandled
              /\ client'.up = c.up \o << <<"resume", c.smId, c.smHandled>> >>
    <2>1. ManagesTo(c, client')
      BY <1>3, <1>4, ManagementEffect
    <2> QED BY <2>1 DEF ManagesTo
  <1>6. client'.up = client.up \/ \E e : Asks(e)
    <2>1. CASE client'.up = c.up
      BY <1>3, <2>1
    <2>2. CASE /\ client'.smContext = "Enable"
               /\ client'.up = c.up \o << <<"enable">> >>
      <3> DEFINE e == <<"enable">>
      <3>1. e \in UpElements /\ e[1] = "enable" /\ "enable" \in UpTokens
        BY DEF UpElements, UpTokens
      <3>2. client'.up = client.up \o <<e>>
        BY <1>3, <2>2
      <3> HIDE DEF e
      <3>3. Asks(e)
        BY <2>2, <3>1, <3>2 DEF Asks
      <3> QED BY <3>3
    <2>3. CASE /\ client'.smContext = "Resume"
               /\ client'.smHandled = c.smHandled
               /\ client'.up = c.up \o << <<"resume", c.smId, c.smHandled>> >>
      <3> DEFINE e == <<"resume", c.smId, c.smHandled>>
      <3>1. e \in {"resume"} \X Nat \X Nat
        BY <1>3 DEF ClientType
      <3>2. e[1] = "resume" /\ e[3] = c.smHandled /\ "resume" \in UpTokens
        BY DEF UpTokens
      <3>3. client'.up = client.up \o <<e>>
        BY <1>3, <2>3
      <3> HIDE DEF e
      <3>4. Asks(e)
        BY <2>3, <3>1, <3>2, <3>3 DEF Asks, UpElements
      <3> QED BY <3>4
    <2> QED BY <1>5, <2>1, <2>2, <2>3
  <1>7. client'.smContext \in Live => client.smContext \in Live
    BY <1>3, <1>5 DEF Live, Managed
  <1>8. Queued' /\ Taken' /\ Handed'
    BY SMTT(30), <1>1, <1>3, <1>5, <1>7
       DEF IInv, Queued, Taken, Handed, SameServer, Live, Managed
  <1>9. Counted'
    <2>1. client'.smContext = "Enable" => client'.smHandled = 0
      BY <1>3, <1>5 DEF IInv, Counted
    <2>2. client'.smContext \in {"Invalid", "Enable"} =>
            client.smContext \in {"Invalid", "Enable"}
      BY <1>3, <1>5
    <2>3. client'.smHandled <= MaxDown
      <3>1. 0 <= MaxDown /\ c.smHandled <= MaxDown
        BY <1>3, ConstantsAssumption DEF IInv, Counted
      <3>2. client'.smHandled \in {0, c.smHandled}
        BY <1>5
      <3> QED BY <3>1, <3>2
    <2>4. ~client'.wanted => client'.smContext = "Invalid"
      BY <1>3, <1>5 DEF IInv, Counted
    <2> QED BY SMTT(30), <1>1, <1>3, <1>5, <1>7, <2>1, <2>2, <2>3, <2>4
            DEF IInv, Counted, SameServer
  <1>10. Moved
    BY <1>1, <1>3, <1>5, <1>7 DEF Moved, SameServer
  <1> QED BY <1>1, <1>2, <1>3, <1>5, <1>6, <1>7, <1>8, <1>9, <1>10,
             NegotiatesKeep

\* The client reads <features/>: it binds, or asks for its session back.
LEMMA FeaturesKeeps ==
  ASSUME IInv, RecvFeatures
  PROVE  IInv' /\ Moved
PROOF
  <1>1. Reads("features") /\ ReadsDown("features") /\ SameServer
    BY DownRead DEF RecvFeatures
  <1>2. client \in ClientType /\ client.online /\ ~client.told
    BY <1>1, NotYetAttached DEF IInv, Types, ReadsDown
  <1>3. CASE client.wanted /\ client.smContext \in Managed
    <2>1. client = [client EXCEPT !.bound = client.bound]
            /\ client.bound \in BOOLEAN
      BY <1>2 DEF ClientType
    <2>2. client' = SendStreamManagement(client)
      BY <1>3 DEF RecvFeatures
    <2> QED BY <1>1, <2>1, <2>2, ManagesKeep
  <1>4. CASE client.smContext \notin Managed
    <2> DEFINE e == <<"bind">>
    <2>1. e \in UpElements /\ e[1] = "bind" /\ "bind" \in UpTokens
          /\ <<e>> \in Seq(UpElements)
      BY DEF UpElements, UpTokens
    <2>2. client' = Write(client, <<e>>)
      BY <1>4 DEF RecvFeatures
    <2> HIDE DEF e
    <2>3. client' \in ClientType /\ SameClient
          /\ client'.up = client.up \o <<e>>
      <3>1. PICK es \in Seq(UpElements) : es = <<e>>
        BY <2>1
      <3>2. client' = Write(client, es)
        BY <2>2, <3>1
      <3>3. /\ client' \in ClientType /\ Beside(client, client')
            /\ client'.made = client.made
            /\ client'.accepted = client.accepted
            /\ client'.smQueue = client.smQueue
            /\ client'.smSent = client.smSent
            /\ client'.up = IF client.online THEN client.up \o es
                                            ELSE client.up
        BY ZenonT(60), <1>2, <3>2, WriteEffect
      <3>4. client'.up = client.up \o es
        BY <1>2, <3>3
      <3> QED BY <3>1, <3>3, <3>4 DEF SameClient
    <2>4. Asks(e)
      BY <2>1, <2>3 DEF Asks
    <2>5. Queued' /\ Counted' /\ Taken' /\ Handed' /\ Moved
      BY <1>1, <2>3, SameKeeps
    <2> QED BY <1>1, <1>2, <2>3, <2>4, <2>5, NegotiatesKeep
            DEF SameClient, Beside
  <1>5. CASE client.smContext \in Managed /\ ~client.wanted
    <2>1. UNCHANGED client
      BY <1>5 DEF RecvFeatures
    <2>2. ~Numbered(Head(server.down))
      BY <1>1 DEF ReadsDown, Numbered
    <2> QED BY <1>1, <2>1, <2>2, NoticesKeep
  <1> QED BY <1>3, <1>4, <1>5

\* Its session is not given back.
LEMMA FailedKeeps ==
  ASSUME IInv, RecvFailed
  PROVE  IInv' /\ Moved
PROOF
  <1>1. Reads("failed") /\ ReadsDown("failed") /\ SameServer
    BY DownRead DEF RecvFailed
  <1>2. client \in ClientType /\ client.online /\ ~client.told
    BY <1>1, NotYetAttached DEF IInv, Types, ReadsDown
  <1>3. client' = [client EXCEPT !.smContext = "Failed"]
    BY DEF RecvFailed
  <1>4. "Failed" \in Contexts
    BY DEF Contexts
  <1>5. client' \in ClientType /\ client'.online /\ ~client'.told
        /\ client'.up = client.up /\ client'.smContext = "Failed"
    BY <1>2, <1>3, <1>4 DEF ClientType
  <1>6. "Failed" \notin Live
    BY DEF Live, Managed
  <1>7. Queued' /\ Counted' /\ Taken' /\ Handed'
    <2>1. client.smContext = "Resume"
      BY <1>1 DEF IInv, DownMeans, ReadsDown
    <2>2. client.wanted
      BY <2>1 DEF IInv, Counted
    <2>3. Queued' /\ Taken' /\ Handed'
      BY <1>1, <1>2, <1>3, <1>6
         DEF IInv, Queued, Taken, Handed, SameServer, ClientType
    <2>4. Counted'
      BY <1>1, <1>2, <1>3, <1>6, <2>2
         DEF IInv, Counted, SameServer, ClientType
    <2> QED BY <2>3, <2>4
  <1>8. Moved
    BY <1>5, <1>6 DEF Moved
  <1> QED BY <1>1, <1>5, <1>6, <1>7, <1>8, NegotiatesKeep

\* onConnect() is called.
Tells(c, d) ==
  /\ d \in ClientType /\ d.told /\ d.online = c.online /\ d.wanted = c.wanted
  /\ d.smContext = c.smContext /\ d.smId = c.smId /\ d.smSent = c.smSent
  /\ d.smHandled = c.smHandled /\ d.smQueue = c.smQueue /\ d.up = c.up
  /\ d.made = c.made /\ d.accepted = c.accepted /\ d.seen = c.seen

\* Telling the application changes nothing in the session.
LEMMA TellsEffect ==
  ASSUME NEW c \in ClientType, NEW d, d = [c EXCEPT !.told = TRUE]
  PROVE  Tells(c, d)
  BY DEF Tells, ClientType

\* connected() sends the initial presence and tells the application.
LEMMA ConnectedEffect ==
  ASSUME Careful, NEW c \in ClientType, c.smContext # "Resumed",
         NEW d, d = Connected(c)
  PROVE  \E t : t = SendStanza(c) /\ (t \in ClientType => Tells(t, d))
PROOF
  <1> DEFINE t == SendStanza(c)
  <1>1. d = [t EXCEPT !.told = TRUE]
    BY DEF Careful, Connected, OnConnect
  <1>2. t = SendStanza(c)
    OBVIOUS
  <1> HIDE DEF t
  <1> QED BY <1>1, <1>2, TellsEffect

\* The resource is bound: a session is asked for, or the application told.
LEMMA BoundKeeps ==
  ASSUME IInv, Careful, RecvBound
  PROVE  IInv' /\ Moved
PROOF
  <1> DEFINE c == [client EXCEPT !.bound = TRUE]
  <1>1. Reads("bound") /\ ReadsDown("bound") /\ SameServer
    BY DownRead DEF RecvBound
  <1>2. client \in ClientType /\ client.online /\ ~client.told
    BY <1>1, NotYetAttached DEF IInv, Types, ReadsDown
  <1>3. /\ c \in ClientType /\ c.online /\ c.told = client.told
        /\ c.wanted = client.wanted /\ c.accepted = client.accepted
        /\ c.smQueue = client.smQueue /\ c.smSent = client.smSent
        /\ c.seen = client.seen /\ c.smContext = client.smContext
        /\ c.smHandled = client.smHandled /\ c.up = client.up
        /\ c.smId = client.smId /\ c.made = client.made
    BY <1>2 DEF ClientType
  <1>4. CASE client.wanted
    <2>1. client' = SendStreamManagement([client EXCEPT !.bound = TRUE])
      BY <1>3, <1>4 DEF RecvBound
    <2> QED BY <1>1, <2>1, ManagesKeep
  <1>5. CASE ~client.wanted
    <2>1. client.smContext = "Invalid"
      BY <1>5 DEF IInv, Counted
    <2>2. client' = Connected(c)
      BY <1>3, <1>5 DEF RecvBound
    <2>3. c.made + 1 <= MaxStanzas
      BY <1>2, <1>3, ConstantsAssumption
         DEF RecvBound, Room, Greetings, Careful, ClientType
    <2> HIDE DEF c
    <2>4. PICK t : t = SendStanza(c) /\ (t \in ClientType => Tells(t, client'))
      BY <1>3, <2>1, <2>2, ConnectedEffect
    <2> DEFINE st == c.made + 1
    <2>5. st = c.made + 1
      OBVIOUS
    <2> HIDE DEF st
    <2>6. "Invalid" \notin Managed /\ "Invalid" \notin Live
      BY DEF Managed, Live
    <2>7. SendsTo(c, t, st, 0)
      <3>1. 0 \in 0..Len(c.accepted)
        BY <1>3 DEF ClientType
      <3> QED BY <1>3, <2>1, <2>3, <2>4, <2>5, <2>6, <3>1, SendEffect
    <2>8. Tells(t, client')
      BY <2>4, <2>7 DEF SendsTo
    <2>9. /\ client' \in ClientType /\ client'.online /\ client'.told
          /\ client'.wanted = client.wanted /\ client'.smContext = "Invalid"
          /\ client'.smId = client.smId /\ client'.smSent = client.smSent
          /\ client'.smHandled = client.smHandled
          /\ client'.smQueue = client.smQueue
          /\ client'.accepted = client.accepted /\ client'.seen = client.seen
          /\ client'.made = client.made + 1
          /\ client'.up = client.up \o << <<"stanza", st>> >>
          /\ st \in 1..MaxStanzas
      BY <1>3, <2>1, <2>5, <2>6, <2>7, <2>8 DEF SendsTo, Tells, Beside
    <2>10. Types' /\ Resting'
      BY <1>1, <2>9 DEF Types, Resting, ReadsDown
    <2>11. Queued' /\ Taken' /\ Handed' /\ Moved
      BY <2>6, <2>9 DEF IInv, Queued, Taken, Handed, Moved
    <2>12. Counted'
      BY <1>1, <1>2, <2>1, <2>6, <2>9
         DEF IInv, Counted, SameServer, ClientType
    <2>13. /\ Free(server'.down, DownTokens) /\ Free(client.up, UpTokens)
           /\ Free(client.up, {"close"})
      <3>1. "bound" \in DownTokens
        BY DEF DownTokens
      <3> QED BY <1>1, <3>1, TokenRead DEF Free
    <2>14. Free(client'.up, UpTokens) /\ Free(client'.up, {"close"})
      <3> DEFINE e == <<"stanza", st>>
      <3>1. e \in {"stanza"} \X (1..MaxStanzas)
        BY <2>9
      <3>2. e \in UpElements /\ e[1] \notin UpTokens /\ e[1] \notin {"close"}
        BY <3>1 DEF UpElements, UpTokens
      <3>3. client'.up = client.up \o <<e>> /\ client.up \in Seq(UpElements)
        BY <1>2, <2>9 DEF ClientType
      <3> HIDE DEF e
      <3> QED BY <2>13, <3>2, <3>3, FreeAdded
    <2>15. Tokens'
      BY <2>9, <2>13, <2>14 DEF Tokens, OneToken, Free, Lone
    <2>16. Attachment'
      BY <2>6, <2>9 DEF Attachment
    <2>17. UpMeans' /\ DownMeans'
      BY <2>13, <2>14 DEF UpMeans, DownMeans, Free, UpTokens, DownTokens
    <2>18. Answering' /\ Behind'
      BY <1>1, <2>6, <2>9, AnsweringLeft, BehindLeft
    <2>19. Flowing'
      BY <2>6, <2>9 DEF Flowing
    <2> QED BY <2>10, <2>11, <2>12, <2>15, <2>16, <2>17, <2>18, <2>19 DEF IInv
  <1> QED BY <1>4, <1>5

\* What <enabled/> makes of the record before connected() is called.
Begins(c, d, id) ==
  /\ d \in ClientType /\ d.online = c.online /\ d.told = c.told
  /\ d.wanted = c.wanted /\ d.smContext = "Enabled" /\ d.smId = id
  /\ d.smSent = c.smSent /\ d.smHandled = c.smHandled
  /\ d.smQueue = c.smQueue /\ d.up = c.up /\ d.made = c.made
  /\ d.accepted = <<>> /\ d.seen = <<>>

\* A session begins with nothing sent and nothing seen.
LEMMA BeginsEffect ==
  ASSUME NEW c \in ClientType, NEW id \in Nat,
         NEW d, d = [c EXCEPT !.smContext = "Enabled", !.smId = id,
                              !.accepted = <<>>, !.seen = <<>>, !.losses = 0]
  PROVE  Begins(c, d, id)
PROOF
  <1>1. "Enabled" \in Contexts
    BY DEF Contexts, Managed
  <1>2. <<>> \in Seq(1..MaxStanzas) /\ <<>> \in Seq(Nat)
    OBVIOUS
  <1>3. d \in ClientType
    BY <1>1, <1>2 DEF ClientType
  <1>4. /\ d.online = c.online /\ d.told = c.told
        /\ d.wanted = c.wanted /\ d.smContext = "Enabled" /\ d.smId = id
        /\ d.smSent = c.smSent /\ d.smHandled = c.smHandled
        /\ d.smQueue = c.smQueue /\ d.up = c.up /\ d.made = c.made
        /\ d.accepted = <<>> /\ d.seen = <<>>
    BY DEF ClientType
  <1> QED BY <1>3, <1>4 DEF Begins

\* <enabled/>: the initial presence is the first stanza of the session.
LEMMA EnabledKeeps ==
  ASSUME IInv, Careful, RecvEnabled
  PROVE  IInv' /\ Moved
PROOF
  <1> DEFINE id == Head(server.down)[2]
             c == [client EXCEPT !.smContext = "Enabled", !.smId = id,
                                 !.accepted = <<>>, !.seen = <<>>, !.losses = 0]
  <1>1. Reads("enabled") /\ ReadsDown("enabled") /\ SameServer
    BY DownRead DEF RecvEnabled
  <1>2. client \in ClientType /\ client.online /\ server \in ServerType
    BY <1>1 DEF IInv, Types, ReadsDown
  <1>3. /\ client.smContext = "Enable" /\ server.attached /\ server.got = <<>>
        /\ id <= server.session
    BY <1>1 DEF IInv, DownMeans, ReadsDown
  <1>4. /\ client.smSent = 0 /\ client.smQueue = <<>> /\ client.smHandled = 0
        /\ client.wanted
    BY <1>3 DEF IInv, Counted
  <1>5. /\ Free(server'.down, DownTokens) /\ Free(client.up, UpTokens)
        /\ Free(client.up, {"stanza", "close"}) /\ ~client.told
    <2>1. "enabled" \in DownTokens
      BY DEF DownTokens
    <2> QED BY <1>1, <2>1, TokenRead
  <1>6. id \in Nat
    BY <1>1 DEF ReadsDown, DownElements
  <1>7. client' = Connected(c) /\ c.made + 1 <= MaxStanzas
    BY <1>2, ConstantsAssumption
       DEF RecvEnabled, Room, Greetings, Careful, ClientType
  <1>8. Begins(client, c, id)
    BY <1>2, <1>6, BeginsEffect
  <1> HIDE DEF id, c
  <1>9. "Enabled" \in Managed /\ "Enabled" \in Live /\ "Enabled" # "Resumed"
    BY DEF Managed, Live
  <1>10. PICK t : t = SendStanza(c) /\ (t \in ClientType => Tells(t, client'))
    BY <1>7, <1>8, <1>9, ConnectedEffect DEF Begins
  <1> DEFINE st == c.made + 1
  <1>11. st = c.made + 1
    OBVIOUS
  <1> HIDE DEF st
  <1>12. SendsTo(c, t, st, 0)
    <2>1. 0 \in 0..Len(c.accepted) /\ Len(c.accepted) = 0
      BY <1>8 DEF Begins
    <2>2. c.smQueue = From(c.accepted, 0)
      BY <1>4, <1>8 DEF Begins, From
    <2>3. c \in ClientType /\ c.smSent = Len(c.accepted)
      BY <1>4, <1>8, <2>1 DEF Begins
    <2> QED BY <1>7, <1>10, <1>11, <2>1, <2>2, <2>3, SendEffect
  <1>13. Tells(t, client')
    BY <1>10, <1>12 DEF SendsTo
  <1>14. /\ client' \in ClientType /\ client'.online /\ client'.told
         /\ client'.wanted /\ client'.smContext = "Enabled"
         /\ client'.smId = id /\ client'.smHandled = 0
         /\ client'.made = client.made + 1 /\ client'.seen = <<>>
         /\ client'.up = client.up \o << <<"stanza", st>> >>
         /\ st \in 1..MaxStanzas
         /\ client'.accepted = Append(<<>>, st)
         /\ client'.smQueue = From(client'.accepted, 0)
         /\ client'.smSent = Len(client'.accepted)
    BY <1>2, <1>4, <1>8, <1>9, <1>11, <1>12, <1>13
       DEF Begins, SendsTo, Tells, Beside
  <1>15. client'.accepted = <<st>> /\ Len(client'.accepted) = 1
    BY <1>14
  <1>16. Types' /\ Resting'
    BY <1>1, <1>14 DEF Types, Resting, ReadsDown
  <1>17. Queued'
    <2>1. 0 \in 0..Len(client'.accepted) /\ 0 <= Len(server'.got)
      BY <1>1, <1>3, <1>15 DEF SameServer
    <2> QED BY <1>14, <2>1 DEF Queued
  <1>18. Counted'
    <2>1. client.made \in 0..MaxStanzas /\ client'.made \in 0..MaxStanzas
      BY <1>2, <1>14 DEF ClientType
    <2>2. 1 <= client'.made /\ 1 <= MaxStanzas /\ MaxStanzas \in Nat
      BY <2>1, <1>14, ConstantsAssumption
    <2>3. client'.seen = <<>> /\ Len(<<>>) = 0
      BY <1>14
    <2> QED BY <1>1, <1>2, <1>3, <1>14, <1>15, <2>1, <2>2, <2>3,
               ConstantsAssumption
            DEF Counted, SameServer, ClientType
  <1>19. Taken' /\ Handed'
    BY <1>1, <1>2, <1>3, <1>14, <1>15, ConstantsAssumption
       DEF Taken, Handed, SameServer, ServerType
  <1>20. client.up \in Seq(UpElements)
    BY <1>2 DEF ClientType
  <1> DEFINE e == <<"stanza", st>>
  <1>21. /\ e \in UpElements /\ e[1] = "stanza" /\ e[2] = st /\ Numbered(e)
         /\ <<e>> \in Seq(UpElements)
    <2>1. e \in {"stanza"} \X (1..MaxStanzas) /\ st > 0
      BY <1>14, ConstantsAssumption
    <2> QED BY <2>1 DEF UpElements, Numbered
  <1>22. client'.up = client.up \o <<e>>
    BY <1>14
  <1> HIDE DEF e
  <1>23. Free(client'.up, UpTokens) /\ Free(client'.up, {"close"})
    <2>1. Free(client.up, {"close"}) /\ "stanza" \notin UpTokens
      BY <1>5 DEF Free, UpTokens
    <2> QED BY <1>5, <1>20, <1>21, <1>22, <2>1, FreeAdded
  <1>24. Tokens'
    BY <1>5, <1>9, <1>14, <1>23 DEF Tokens, OneToken, Free, Lone
  <1>25. Attachment'
    BY <1>1, <1>3, <1>14 DEF Attachment, SameServer
  <1>26. UpMeans' /\ DownMeans'
    BY <1>5, <1>23 DEF UpMeans, DownMeans, Free, UpTokens, DownTokens
  <1>27. Answering' /\ Behind'
    BY <1>1, AnsweringLeft, BehindLeft
  <1>28. Flowing'
    <2>1. Carries(client.up, client'.accepted, 0, 0)
      <3>1. \A i \in 1..Len(client.up) : ~Numbered(client.up[i])
        BY <1>5, <1>20 DEF Free, Numbered
      <3> QED BY <1>20, <3>1, CarriesNothing
    <2>2. Carries(<<e>>, client'.accepted, 0, 0 + Len(<<e>>))
      <3>1. \A i \in 1..Len(<<e>>) :
              Numbered(<<e>>[i]) /\ <<e>>[i][2] = client'.accepted[0 + i]
        BY <1>15, <1>21
      <3> QED BY <1>21, <3>1, CarriesRun
    <2>3. Carries(client'.up, client'.accepted, 0, 1)
      <3>1. 0 + Len(<<e>>) = 1
        OBVIOUS
      <3>2. Carries(<<e>>, client'.accepted, 0, 1)
        BY <2>2, <3>1
      <3> QED BY <1>20, <1>21, <1>22, <2>1, <3>2, CarriesConcat
    <2>4. Carries(server'.down, [k \in Nat |-> k], 0, server.out)
      <3>1. ~Numbered(Head(server.down))
        BY <1>1 DEF ReadsDown, Numbered
      <3> QED BY <1>1, <1>3, <1>4, <3>1, DownLeft
    <2>5. Len(server'.got) = 0 /\ server'.out = server.out
      BY <1>1, <1>3 DEF SameServer
    <2> QED BY <1>14, <1>15, <2>3, <2>4, <2>5 DEF Flowing
  <1>29. Moved
    <2>1. client.smContext \notin Live
      BY <1>3 DEF Live, Managed
    <2> QED BY <1>1, <1>3, <1>14, <1>15, <2>1 DEF Moved, SameServer
  <1> QED BY <1>16, <1>17, <1>18, <1>19, <1>24, <1>25, <1>26, <1>27, <1>28,
             <1>29 DEF IInv

\* What <resumed/> makes of the record before the queue is sent again.
Resumes(c, d) ==
  /\ d \in ClientType /\ d.told /\ d.online = c.online /\ d.wanted = c.wanted
  /\ d.smContext = "Resumed" /\ d.smId = c.smId /\ d.smSent = c.smSent
  /\ d.smHandled = c.smHandled /\ d.smQueue = c.smQueue /\ d.up = c.up
  /\ d.made = c.made /\ d.accepted = c.accepted /\ d.seen = c.seen

\* connected() of a resumed session sends no presence.
LEMMA ResumesEffect ==
  ASSUME Careful, NEW c \in ClientType,
         NEW d, d = Connected([c EXCEPT !.smContext = "Resumed"])
  PROVE  Resumes(c, d)
PROOF
  <1> DEFINE x == [c EXCEPT !.smContext = "Resumed"]
  <1>1. "Resumed" \in Contexts
    BY DEF Contexts, Managed
  <1>2. /\ x \in ClientType /\ x.online = c.online /\ x.wanted = c.wanted
        /\ x.smContext = "Resumed" /\ x.smId = c.smId /\ x.smSent = c.smSent
        /\ x.smHandled = c.smHandled /\ x.smQueue = c.smQueue /\ x.up = c.up
        /\ x.made = c.made /\ x.accepted = c.accepted /\ x.seen = c.seen
    BY <1>1 DEF ClientType
  <1>3. d = [x EXCEPT !.told = TRUE]
    BY <1>2 DEF Careful, Connected, OnConnect
  <1> HIDE DEF x
  <1> QED BY ZenonT(60), <1>2, <1>3 DEF Resumes, ClientType

\* <resumed/>: what is written again is what the server has not got.
LEMMA ResumedKeeps ==
  ASSUME IInv, Careful, RecvResumed
  PROVE  IInv' /\ Moved
PROOF
  <1> DEFINE c == Connected([client EXCEPT !.smContext = "Resumed"])
             h == Len(server.got)
             l == Len(client.accepted)
  <1>1. Reads("resumed") /\ ReadsDown("resumed") /\ SameServer
    BY DownRead DEF RecvResumed
  <1>2. client \in ClientType /\ client.online /\ server \in ServerType
    BY <1>1 DEF IInv, Types, ReadsDown
  <1>3. client.smContext = "Resume" /\ server.attached
        /\ Head(server.down)[2] = h
    BY <1>1 DEF IInv, DownMeans, ReadsDown
  <1>4. /\ Free(server'.down, DownTokens) /\ Free(client.up, UpTokens)
        /\ Free(client.up, {"stanza", "close"}) /\ ~client.told
    <2>1. "resumed" \in DownTokens
      BY DEF DownTokens
    <2> QED BY <1>1, <2>1, TokenRead
  <1>5. client' = CheckAndResend(c, h)
    BY <1>3 DEF RecvResumed
  <1>6. Resumes(client, c)
    BY <1>2, ResumesEffect
  <1>7. "Resume" \in Live /\ "Resumed" \in Live /\ "Resumed" \in Managed
    BY DEF Live, Managed
  <1>8. PICK low \in 0..l : client.smQueue = From(client.accepted, low)
                              /\ low <= h
    BY <1>3, <1>7 DEF IInv, Queued
  <1>9. l \in Nat /\ h \in Nat /\ h <= l /\ h \in low..l /\ h \in 0..l
    BY SMTT(30), <1>2, <1>3, <1>7, <1>8 DEF IInv, Taken, ClientType, ServerType
  <1> HIDE DEF c, h, l
  <1>10. ResendsTo(c, client', h)
    BY <1>2, <1>5, <1>6, <1>8, <1>9, ResendEffect DEF Resumes, l
  <1>11. PICK r \in Seq(UpElements) :
           /\ client'.up = client.up \o r /\ Len(r) = l - h
           /\ \A i \in 1..Len(r) : r[i] = <<"stanza", client.accepted[h + i]>>
    BY <1>6, <1>10 DEF ResendsTo, Resumes, l
  <1>12. /\ client' \in ClientType /\ client'.online /\ client'.told
         /\ client'.wanted = client.wanted /\ client'.smContext = "Resumed"
         /\ client'.smId = client.smId /\ client'.smSent = client.smSent
         /\ client'.smHandled = client.smHandled
         /\ client'.made = client.made /\ client'.accepted = client.accepted
         /\ client'.seen = client.seen
         /\ client'.smQueue = From(client.accepted, h)
    BY <1>2, <1>6, <1>10 DEF ResendsTo, Resumes, Beside
  <1>13. Types' /\ Resting'
    BY <1>1, <1>12 DEF Types, Resting, ReadsDown
  <1>14. Queued'
    BY <1>1, <1>9, <1>12 DEF Queued, SameServer, h, l
  <1>15. Counted' /\ Taken' /\ Handed' /\ Moved
    BY <1>1, <1>3, <1>7, <1>12 
       DEF IInv, Counted, Taken, Handed, Moved, SameServer
  <1>16. client.up \in Seq(UpElements)
    BY <1>2 DEF ClientType
  <1>17. Free(client'.up, UpTokens) /\ Free(client'.up, {"close"})
    <2>1. Free(client.up, {"close"})
      BY <1>4 DEF Free
    <2>2. Free(r, UpTokens) /\ Free(r, {"close"})
      BY <1>11 DEF Free, UpTokens
    <2> QED BY <1>4, <1>11, <1>16, <2>1, <2>2, FreeConcat
  <1>18. Tokens'
    BY <1>4, <1>7, <1>12, <1>17 DEF Tokens, OneToken, Free, Lone
  <1>19. Attachment'
    BY <1>1, <1>3, <1>12 DEF Attachment, SameServer
  <1>20. UpMeans' /\ DownMeans'
    BY <1>4, <1>17 DEF UpMeans, DownMeans, Free, UpTokens, DownTokens
  <1>21. Answering' /\ Behind'
    BY <1>1, <1>3, <1>7, AnsweringLeft, BehindLeft
  <1>22. Flowing'
    <2>1. Carries(client.up, client.accepted, h, h)
      <3>1. \A i \in 1..Len(client.up) : ~Numbered(client.up[i])
        BY <1>4, <1>16 DEF Free, Numbered
      <3> QED BY <1>9, <1>16, <3>1, CarriesNothing
    <2>2. Carries(r, client.accepted, h, l)
      <3>1. \A i \in 1..Len(r) :
              Numbered(r[i]) /\ r[i][2] = client.accepted[h + i]
        <4> TAKE i \in 1..Len(r)
        <4>1. r[i] = <<"stanza", client.accepted[h + i]>> /\ h + i \in 1..l
          BY <1>9, <1>11
        <4>2. client.accepted \in Seq(1..MaxStanzas)
          BY <1>2 DEF ClientType
        <4>3. client.accepted[h + i] \in 1..MaxStanzas
          BY <4>1, <4>2, ElementOfSeq DEF l
        <4>4. client.accepted[h + i] > 0
          BY <4>3, ConstantsAssumption
        <4> QED BY <4>1, <4>4 DEF Numbered
      <3>2. Carries(r, client.accepted, h, h + Len(r))
        BY <1>9, <3>1, CarriesRun
      <3>3. h + Len(r) = l
        BY <1>9, <1>11
      <3> QED BY <3>2, <3>3
    <2>3. Carries(client'.up, client.accepted, h, l)
      BY <1>9, <1>11, <1>16, <2>1, <2>2, CarriesConcat
    <2>4. Carries(server'.down, [k \in Nat |-> k], client.smHandled, server.out)
      <3>1. ~Numbered(Head(server.down))
        BY <1>1 DEF ReadsDown, Numbered
      <3> QED BY <1>1, <1>3, <1>7, <3>1, DownLeft
    <2>5. server'.got = server.got /\ server'.out = server.out
      BY <1>1 DEF SameServer
    <2> QED BY <1>12, <2>3, <2>4, <2>5 DEF Flowing, h, l
  <1> QED BY <1>13, <1>14, <1>15, <1>18, <1>19, <1>20, <1>21, <1>22 DEF IInv

\* <a/>: the queue begins later, and not after what the server has.
LEMMA AckKeeps ==
  ASSUME IInv, RecvAck
  PROVE  IInv' /\ Moved
PROOF
  <1> DEFINE h == Head(server.down)[2]
             q == Unhandled(client.smQueue, h)
  <1>1. Reads("a") /\ ReadsDown("a") /\ SameServer
    BY DownRead DEF RecvAck
  <1>2. client \in ClientType /\ client.online /\ server \in ServerType
    BY <1>1 DEF IInv, Types, ReadsDown
  <1>3. ~Numbered(Head(server.down))
    BY <1>1 DEF ReadsDown, Numbered
  <1>4. CASE client.smContext \notin Managed
    <2>1. UNCHANGED client
      BY <1>4 DEF RecvAck
    <2> QED BY <1>1, <1>3, <2>1, NoticesKeep
  <1>5. CASE client.smContext \in Managed
    <2>1. client.smContext \in Live
      BY <1>5 DEF Live
    <2>2. server.attached /\ h <= Len(server.got) /\ h \in Nat
      BY <1>1 DEF IInv, Answering, ReadsDown, DownElements
    <2>3. client' = [client EXCEPT !.smQueue = q]
      BY <1>2, <1>5 DEF RecvAck, ClientType
    <2>4. PICK low \in 0..Len(client.accepted) :
            client.smQueue = From(client.accepted, low)
              /\ low <= Len(server.got)
      BY <2>1 DEF IInv, Queued
    <2> HIDE DEF h
    <2>5. /\ h \in 0..Len(client.accepted)
          /\ client.accepted \in Seq(1..MaxStanzas)
      <3>1. Len(server.got) <= Len(client.accepted)
        BY <2>1 DEF IInv, Taken
      <3>2. Len(server.got) \in Nat /\ Len(client.accepted) \in Nat
        BY <1>2 DEF ClientType, ServerType
      <3>3. h \in 0..Len(client.accepted)
        BY <2>2, <3>1, <3>2
      <3> QED BY <1>2, <3>3 DEF ClientType
    <2> DEFINE new == IF h > low THEN h ELSE low
    <2>6. new \in 0..Len(client.accepted) /\ new <= Len(server.got)
      BY <2>2, <2>4, <2>5
    <2>7. q = From(client.accepted, new)
      BY <2>4, <2>5, UnhandledFrom
    <2> HIDE DEF new, q
    <2>8. q \in Queues
      BY <2>5, <2>6, <2>7, FromType
    <2>9. /\ client' \in ClientType /\ client'.online = client.online
          /\ client'.wanted = client.wanted /\ client'.told = client.told
          /\ client'.smContext = client.smContext
          /\ client'.smId = client.smId /\ client'.smSent = client.smSent
          /\ client'.smHandled = client.smHandled /\ client'.smQueue = q
          /\ client'.up = client.up /\ client'.made = client.made
          /\ client'.accepted = client.accepted /\ client'.seen = client.seen
      BY <1>2, <2>3, <2>8 DEF ClientType
    <2>10. Types' /\ Resting'
      BY <1>1, <1>2, <2>9 DEF Types, Resting, ReadsDown
    <2>11. Queued'
      BY <1>1, <2>6, <2>7, <2>9 DEF Queued, SameServer
    <2>12. Counted'
      <3>1. client.smContext \notin {"Invalid", "Enable"}
        BY <2>1 DEF Live, Managed
      <3> QED BY <1>1, <2>9, <3>1 DEF IInv, Counted, SameServer
    <2>13. Taken' /\ Handed' /\ Moved
      BY <1>1, <2>1, <2>9 DEF IInv, Taken, Handed, Moved, SameServer
    <2>14. Tokens'
      BY <1>1, <2>9, TokenRead DEF IInv, Tokens, OneToken
    <2>15. Attachment'
      <3>1. \A i \in DOMAIN server.down :
              server.down[i][1] \in {"enabled", "resumed"} =>
                i - 1 \in DOMAIN server'.down
                  /\ server'.down[i - 1] = server.down[i]
        <4>1. /\ Len(server.down) \in Nat
              /\ DOMAIN server.down = 1..Len(server.down)
              /\ DOMAIN server'.down = 1..(Len(server.down) - 1)
          BY <1>1, Removed DEF ReadsDown
        <4> QED BY <1>1, <4>1 DEF ReadsDown
      <3> QED BY <1>1, <2>9, <3>1 DEF IInv, Attachment, SameServer
    <2>16. UpMeans'
      BY <1>1, <2>9 DEF IInv, UpMeans, SameServer
    <2>17. DownMeans'
      BY <1>1, <2>9 DEF IInv, DownMeans, ReadsDown, SameServer
    <2>18. Answering' /\ Behind'
      BY <1>1, <2>1, AnsweringLeft, BehindLeft
    <2>19. Flowing'
      BY <1>1, <1>3, <2>9, DownLeft DEF IInv, Flowing, SameServer
    <2> QED BY <2>10, <2>11, <2>12, <2>13, <2>14, <2>15, <2>16, <2>17, <2>18,
               <2>19 DEF IInv
  <1> QED BY <1>4, <1>5

\* A stanza is handled and counted: it is the next of the session.
LEMMA StanzaKeeps ==
  ASSUME IInv, RecvStanza
  PROVE  IInv' /\ Moved
PROOF
  <1> DEFINE st == Head(server.down)[2]
  <1>1. Reads("stanza") /\ ReadsDown("stanza") /\ SameServer
    BY DownRead DEF RecvStanza
  <1>2. client \in ClientType /\ client.online /\ server \in ServerType
    BY <1>1 DEF IInv, Types, ReadsDown
  <1>3. st \in Nat /\ Head(server.down) = <<"stanza", st>>
    <2>1. Head(server.down) \in {"stanza"} \X Nat
      BY <1>1 DEF ReadsDown, DownElements
    <2> QED BY <2>1
  <1>4. CASE client.smContext \notin Managed
    <2>1. UNCHANGED client
      BY <1>4 DEF RecvStanza, Handled
    <2>2. ASSUME server.attached, client.smContext \in Live \cup {"Enable"}
          PROVE  ~Numbered(Head(server.down))
      <3>1. ~client.told
        BY <1>2, <1>4, <2>2 DEF IInv, Tokens, Live
      <3>2. PICK j \in DOMAIN server.down :
              server.down[j][1] \in {"enabled", "resumed"}
        BY <1>2, <2>2, <3>1 DEF IInv, Attachment
      <3>3. Numbered(Head(server.down)) => j < 1
        BY <1>1, <1>2, <3>2 DEF IInv, Behind, ReadsDown
      <3>4. j \in Nat /\ j >= 1
        <4>1. server.down \in Seq(DownElements)
          BY <1>1 DEF ReadsDown
        <4> QED BY <3>2, <4>1
      <3> QED BY <3>3, <3>4
    <2> QED BY <1>1, <2>1, <2>2, NoticesKeep
  <1>5. CASE client.smContext \in Managed
    <2>1. client.smContext \in Live
      BY <1>5 DEF Live
    <2>2. server.down[1] # <<"stanza", 0>>
      BY <1>1, <1>2, <2>1 DEF IInv, Answering, ReadsDown
    <2>3. st > 0 /\ Numbered(Head(server.down))
      BY <1>1, <1>3, <2>2 DEF Numbered, ReadsDown
    <2>4. server.attached
      BY <1>1, <1>2, <2>3 DEF IInv, Answering, ReadsDown
    <2>5. /\ client.smHandled \in Nat /\ server.out \in Nat
          /\ server.out <= MaxDown /\ Len(client.seen) = client.smHandled
          /\ client.seen \in Seq(Nat)
      BY <1>2, <2>1, ConstantsAssumption
         DEF IInv, Handed, ClientType, ServerType
    <2>6. /\ client.smHandled + 1 <= server.out /\ st = client.smHandled + 1
          /\ Carries(server'.down, [k \in Nat |-> k], client.smHandled + 1,
                     server.out)
      <3> DEFINE ident == [k \in Nat |-> k]
      <3>1. Carries(server.down, ident, client.smHandled, server.out)
        BY <1>2, <2>1, <2>4 DEF IInv, Flowing
      <3>2. ident[client.smHandled + 1] = client.smHandled + 1
        BY <2>5
      <3> HIDE DEF ident
      <3>3. server.down \in Seq(DownElements) /\ server.down # <<>>
              /\ server'.down = Tail(server.down)
        BY <1>1 DEF ReadsDown
      <3>4. /\ client.smHandled + 1 <= server.out
            /\ Head(server.down)[2] = ident[client.smHandled + 1]
            /\ Carries(Tail(server.down), ident, client.smHandled + 1,
                       server.out)
        BY <2>3, <2>5, <3>1, <3>3, CarriesHead
      <3> QED BY <3>2, <3>3, <3>4 DEF ident
    <2> DEFINE s == Append(client.seen, st)
               n == client.smHandled + 1
    <2>7. client' = [client EXCEPT !.smHandled = n, !.seen = s]
      BY <1>2, <1>5 DEF RecvStanza, Handled, ClientType
    <2>8. /\ s \in Seq(Nat) /\ Len(s) = Len(client.seen) + 1 /\ n \in Nat
          /\ \A i \in 1..Len(client.seen) : s[i] = client.seen[i]
          /\ s[Len(client.seen) + 1] = st
      BY <1>3, <2>5
    <2> HIDE DEF s, n, st
    <2>9. /\ client' \in ClientType /\ client'.online = client.online
          /\ client'.wanted = client.wanted /\ client'.told = client.told
          /\ client'.smContext = client.smContext
          /\ client'.smId = client.smId /\ client'.smSent = client.smSent
          /\ client'.smHandled = n /\ client'.smQueue = client.smQueue
          /\ client'.up = client.up /\ client'.made = client.made
          /\ client'.accepted = client.accepted /\ client'.seen = s
      BY <1>2, <2>7, <2>8 DEF ClientType
    <2>10. Types' /\ Resting'
      BY <1>1, <1>2, <2>9 DEF Types, Resting, ReadsDown
    <2>11. Queued' /\ Taken' /\ Moved
      BY <1>1, <2>1, <2>9 DEF IInv, Queued, Taken, Moved, SameServer
    <2>12. Counted'
      <3>1. client.smContext \notin {"Invalid", "Enable"}
        BY <2>1 DEF Live, Managed
      <3>2. n <= MaxDown /\ Len(s) <= MaxDown
        BY <2>5, <2>6, <2>8, ConstantsAssumption DEF n
      <3> QED BY <1>1, <2>9, <3>1, <3>2 DEF IInv, Counted, SameServer
    <2>13. Handed'
      <3>1. \A i \in 1..Len(client.seen) : client.seen[i] = i
        BY <2>1 DEF IInv, Handed
      <3>2. \A i \in 1..Len(s) : s[i] = i
        <4> TAKE i \in 1..Len(s)
        <4>1. CASE i \in 1..Len(client.seen)
          BY <2>8, <3>1, <4>1
        <4>2. CASE i = Len(client.seen) + 1
          BY <2>5, <2>6, <2>8, <4>2
        <4> QED BY <2>5, <2>8, <4>1, <4>2
      <3>3. n = Len(s) /\ n <= server.out
        BY <2>5, <2>6, <2>8 DEF n
      <3> QED BY <1>1, <2>9, <3>2, <3>3 DEF Handed, SameServer
    <2>14. Tokens'
      BY <1>1, <2>9, TokenRead DEF IInv, Tokens, OneToken
    <2>15. Attachment'
      <3>1. \A i \in DOMAIN server.down :
              server.down[i][1] \in {"enabled", "resumed"} =>
                i - 1 \in DOMAIN server'.down
                  /\ server'.down[i - 1] = server.down[i]
        <4>1. /\ Len(server.down) \in Nat
              /\ DOMAIN server.down = 1..Len(server.down)
              /\ DOMAIN server'.down = 1..(Len(server.down) - 1)
          BY <1>1, Removed DEF ReadsDown
        <4> QED BY SMTT(30), <1>1, <4>1 DEF ReadsDown
      <3> QED BY <1>1, <2>9, <3>1 DEF IInv, Attachment, SameServer
    <2>16. UpMeans'
      <3>1. \A i \in DOMAIN client.up : client.up[i][1] # "resume"
        BY <1>2, <2>4 DEF IInv, UpMeans
      <3> QED BY <1>1, <2>9, <3>1 DEF IInv, UpMeans, SameServer
    <2>17. DownMeans'
      BY <1>1, <2>9 DEF IInv, DownMeans, ReadsDown, SameServer
    <2>18. Answering' /\ Behind'
      BY <1>1, <2>1, AnsweringLeft, BehindLeft
    <2>19. Flowing'
      BY <1>1, <2>6, <2>9 DEF IInv, Flowing, SameServer, n
    <2> QED BY <2>10, <2>11, <2>12, <2>13, <2>14, <2>15, <2>16, <2>17, <2>18,
               <2>19 DEF IInv
  <1> QED BY <1>4, <1>5

\* An acknowledgement or a request for one, written by the client.
AddsUp(e) ==
  /\ client' \in ClientType /\ SameClient
  /\ \A i \in DOMAIN client'.up :
       \/ i \in DOMAIN client.up /\ client'.up[i] = client.up[i]
       \/ client'.up[i] = e
  /\ Lone(client'.up, UpTokens) /\ Free(client'.up, {"close"})
  /\ Free(client.up, UpTokens) => Free(client'.up, UpTokens)
  /\ Free(client.up, {"stanza"}) => Free(client'.up, {"stanza"})
  /\ client.told /\ client.smContext \in Managed =>
       Carries(client'.up, client.accepted, Len(server.got),
               Len(client.accepted))

\* What the client says of its session disturbs nothing on its way.
LEMMA UpAdded ==
  ASSUME IInv, client.online, NEW e \in UpElements, e[1] \in {"a", "r"},
         client' = Write(client, <<e>>)
  PROVE  AddsUp(e)
PROOF
  <1>1. client \in ClientType /\ <<e>> \in Seq(UpElements)
    BY DEF IInv, Types
  <1>2. client' \in ClientType /\ SameClient /\ client'.up = client.up \o <<e>>
    BY ZenonT(60), <1>1, WriteEffect DEF SameClient
  <1>3. client.up \in Seq(UpElements)
    BY <1>1 DEF ClientType
  <1>4. \A i \in DOMAIN client'.up :
          \/ i \in DOMAIN client.up /\ client'.up[i] = client.up[i]
          \/ client'.up[i] = e
    BY SMTT(30), <1>2, <1>3, AddedDomain
  <1>5. Lone(client.up, UpTokens) /\ Free(client.up, {"close"})
    BY DEF IInv, Tokens, OneToken
  <1>6. /\ e[1] \notin UpTokens /\ e[1] \notin {"close"}
        /\ e[1] \notin {"stanza"} /\ ~Numbered(e)
    BY DEF UpTokens, Numbered
  <1>7. /\ Lone(client'.up, UpTokens) /\ Free(client'.up, {"close"})
        /\ Free(client.up, UpTokens) => Free(client'.up, UpTokens)
        /\ Free(client.up, {"stanza"}) => Free(client'.up, {"stanza"})
    <2>1. Lone(client.up \o <<e>>, UpTokens)
      BY <1>3, <1>5, <1>6, FreeAdded
    <2>2. Free(client.up \o <<e>>, {"close"})
      BY <1>3, <1>5, <1>6, FreeAdded
    <2>3. Free(client.up, UpTokens) => Free(client.up \o <<e>>, UpTokens)
      BY <1>3, <1>6, FreeAdded
    <2>4. Free(client.up, {"stanza"}) => Free(client.up \o <<e>>, {"stanza"})
      BY <1>3, <1>6, FreeAdded
    <2> QED BY <1>2, <2>1, <2>2, <2>3, <2>4
  <1>8. ASSUME client.told, client.smContext \in Managed
        PROVE  Carries(client'.up, client.accepted, Len(server.got),
                       Len(client.accepted))
    <2>1. Carries(client.up, client.accepted, Len(server.got),
                  Len(client.accepted))
      BY <1>8 DEF IInv, Flowing
    <2>2. Len(server.got) \in Nat /\ Len(client.accepted) \in Nat
      BY DEF IInv, Types, ClientType, ServerType
    <2>3. Carries(<<e>>, client.accepted, Len(client.accepted),
                  Len(client.accepted))
      <3>1. \A i \in 1..Len(<<e>>) : ~Numbered(<<e>>[i])
        BY <1>6
      <3> QED BY <1>1, <2>2, <3>1, CarriesNothing
    <2> QED BY <1>1, <1>2, <1>3, <2>1, <2>2, <2>3, CarriesConcat
  <1> QED BY <1>2, <1>4, <1>7, <1>8 DEF AddsUp

\* ackStreamManagement() and reqStreamManagement() in a session.
LEMMA AckElements ==
  ASSUME IInv
  PROVE  /\ <<"a", client.smHandled>> \in UpElements /\ <<"r">> \in UpElements
PROOF
  <1>1. <<"a", client.smHandled>> \in {"a"} \X Nat
    BY DEF IInv, Types, ClientType
  <1> QED BY <1>1 DEF UpElements

\* <r/> is answered.
LEMMA RequestKeeps ==
  ASSUME IInv, RecvRequest
  PROVE  IInv' /\ Moved
PROOF
  <1> DEFINE e == <<"a", client.smHandled>>
  <1>1. Reads("r") /\ ReadsDown("r") /\ SameServer
    BY DownRead DEF RecvRequest
  <1>2. client.online /\ ~Numbered(Head(server.down))
    BY <1>1 DEF ReadsDown, Numbered
  <1>3. CASE client.smContext \notin Managed
    <2>1. UNCHANGED client
      BY <1>3 DEF RecvRequest, Ack
    <2> QED BY <1>1, <1>2, <2>1, NoticesKeep
  <1>4. CASE client.smContext \in Managed
    <2>1. client' = Write(client, <<e>>)
      BY <1>4 DEF RecvRequest, Ack
    <2>2. e[1] = "a" /\ e \in UpElements
      BY AckElements
    <2> HIDE DEF e
    <2>3. AddsUp(e)
      BY <1>2, <2>1, <2>2, UpAdded
    <2>4. Types' /\ Resting'
      BY <1>1, <1>2, <2>3
         DEF Types, Resting, AddsUp, ReadsDown, SameClient, Beside
    <2>5. Queued' /\ Counted' /\ Taken' /\ Handed' /\ Moved
      BY <1>1, <2>3, SameKeeps DEF AddsUp
    <2>6. Tokens'
      BY <1>1, <1>2, <2>3, TokenRead
         DEF IInv, Tokens, OneToken, AddsUp, SameClient, Beside
    <2>7. Attachment'
      <3>1. \A i \in DOMAIN server.down :
              server.down[i][1] \in {"enabled", "resumed"} =>
                i - 1 \in DOMAIN server'.down
                  /\ server'.down[i - 1] = server.down[i]
        <4>1. /\ Len(server.down) \in Nat
              /\ DOMAIN server.down = 1..Len(server.down)
              /\ DOMAIN server'.down = 1..(Len(server.down) - 1)
          BY <1>1, Removed DEF ReadsDown
        <4> QED BY SMTT(30), <1>1, <4>1 DEF ReadsDown
      <3>2. client'.online = client.online /\ client'.told = client.told
              /\ client'.smContext = client.smContext
        BY <2>3 DEF AddsUp, SameClient, Beside
      <3> QED BY <1>1, <3>1, <3>2 DEF IInv, Attachment, SameServer
    <2>8. UpMeans'
      BY <1>1, <2>2, <2>3
         DEF IInv, UpMeans, AddsUp, SameClient, SameServer, Beside
    <2>9. DownMeans'
      BY <1>1, <2>3
         DEF IInv, DownMeans, ReadsDown, AddsUp, SameClient, SameServer, Beside
    <2>10. Answering' /\ Behind'
      BY <1>1, <2>3, AnsweringLeft, BehindLeft DEF AddsUp, SameClient, Beside
    <2>11. Flowing'
      BY <1>1, <1>2, <2>3, DownLeft
         DEF IInv, Flowing, AddsUp, SameClient, SameServer, Beside
    <2> QED BY <2>4, <2>5, <2>6, <2>7, <2>8, <2>9, <2>10, <2>11 DEF IInv
  <1> QED BY <1>3, <1>4

\* The application acknowledges or asks.
LEMMA AppAcksKeeps ==
  ASSUME IInv, AppAcks
  PROVE  IInv' /\ Moved
PROOF
  <1>1. client.online /\ UNCHANGED server /\ SameServer
    BY DEF AppAcks, SameServer
  <1>2. CASE client.smContext \notin Managed
    <2>1. UNCHANGED client
      BY <1>2 DEF AppAcks, Ack, Req
    <2> QED BY <1>1, <2>1
            DEF IInv, Types, Queued, Counted, Taken, Handed, Resting, Tokens,
                OneToken, Attachment, UpMeans, DownMeans, Answering, Behind,
                Flowing, Moved
  <1>3. CASE client.smContext \in Managed
    <2>1. PICK e \in {<<"a", client.smHandled>>, <<"r">>} :
            client' = Write(client, <<e>>)
      BY <1>3 DEF AppAcks, Ack, Req
    <2>2. e \in UpElements /\ e[1] \in {"a", "r"}
      BY AckElements
    <2>3. AddsUp(e)
      BY <1>1, <2>1, <2>2, UpAdded
    <2>4. Types' /\ Resting'
      BY <1>1, <2>3 DEF IInv, Types, Resting, AddsUp, SameClient, Beside
    <2>5. Queued' /\ Counted' /\ Taken' /\ Handed' /\ Moved
      BY <1>1, <2>3, SameKeeps DEF AddsUp
    <2>6. Tokens' /\ Attachment'
      BY <1>1, <2>3
         DEF IInv, Tokens, OneToken, Attachment, AddsUp, SameClient, Beside
    <2>7. UpMeans'
      BY <1>1, <2>2, <2>3 DEF IInv, UpMeans, AddsUp, SameClient, Beside
    <2>8. DownMeans' /\ Answering' /\ Behind'
      BY <1>1, <2>3
         DEF IInv, DownMeans, Answering, Behind, AddsUp, SameClient, Beside
    <2>9. Flowing'
      BY <1>1, <2>3 DEF IInv, Flowing, AddsUp, SameClient, Beside
    <2> QED BY <2>4, <2>5, <2>6, <2>7, <2>8, <2>9 DEF IInv
  <1> QED BY <1>2, <1>3

\* The server does not end the stream.
LEMMA CloseNeverComes ==
  ASSUME IInv
  PROVE  ~Reads("close")
PROOF
  <1> SUFFICES ASSUME Reads("close")
               PROVE  FALSE
    OBVIOUS
  <1>1. ReadsDown("close")
    BY DownRead
  <1> QED BY <1>1 DEF ReadsDown, DownElements

-----------------------------------------------------------------------------
(* Connections and the application. *)

\* A new connection carries nothing yet.
LEMMA ConnectKeeps ==
  ASSUME IInv, Connect
  PROVE  IInv' /\ Moved
PROOF
  <1> DEFINE d == << <<"features">> >>
  <1>1. client \in ClientType /\ server \in ServerType /\ ~client.online
        /\ ~client.told
    BY DEF IInv, Types, Connect, Resting
  <1>2. d \in Seq(DownElements) /\ Len(d) = 1 /\ d[1] = <<"features">>
        /\ DOMAIN d = 1..1
    BY DEF DownElements
  <1>3. client' = [client EXCEPT !.online = TRUE, !.up = <<>>]
        /\ server' = [server EXCEPT !.attached = FALSE, !.down = d]
    BY DEF Connect
  <1> HIDE DEF d
  <1>4. <<>> \in Seq(UpElements)
    OBVIOUS
  <1>5. /\ client' \in ClientType /\ client'.online
        /\ client'.wanted = client.wanted /\ ~client'.told
        /\ client'.smContext = client.smContext
        /\ client'.smId = client.smId /\ client'.smSent = client.smSent
        /\ client'.smHandled = client.smHandled
        /\ client'.smQueue = client.smQueue
        /\ client'.up = <<>> /\ client'.made = client.made
        /\ client'.accepted = client.accepted /\ client'.seen = client.seen
    BY <1>1, <1>3, <1>4 DEF ClientType
  <1>6. /\ server' \in ServerType /\ server'.session = server.session
        /\ ~server'.attached /\ server'.got = server.got
        /\ server'.out = server.out /\ server'.down = d
    BY <1>1, <1>2, <1>3 DEF ServerType
  <1>7. Types' /\ Resting'
    BY <1>5, <1>6 DEF Types, Resting
  <1>8. Queued' /\ Counted' /\ Taken' /\ Handed' /\ Moved
    BY <1>5, <1>6 DEF IInv, Queued, Counted, Taken, Handed, Moved
  <1>9. Free(<<>>, UpTokens) /\ Free(<<>>, {"close"}) /\ Free(<<>>, {"stanza"})
    BY DEF Free
  <1>10. Lone(<<>>, UpTokens) /\ Lone(d, DownTokens)
    BY <1>2 DEF Lone
  <1>11. Tokens'
    BY <1>5, <1>6, <1>9, <1>10 DEF Tokens, OneToken
  <1>12. Attachment' /\ UpMeans' /\ Flowing'
    BY <1>5, <1>6 DEF Attachment, UpMeans, Flowing
  <1>13. \A i \in DOMAIN d : /\ d[i][1] = "features" /\ ~Numbered(d[i])
                             /\ d[i] # <<"stanza", 0>>
    BY <1>2 DEF Numbered
  <1>14. DownMeans' /\ Answering' /\ Behind'
    BY <1>6, <1>13 DEF DownMeans, Answering, Behind
  <1> QED BY <1>7, <1>8, <1>11, <1>12, <1>14 DEF IInv

\* A loss takes what is under way; the queue still has what was not taken.
LEMMA LoseKeeps ==
  ASSUME IInv, Lose
  PROVE  IInv' /\ Moved
PROOF
  <1>1. client \in ClientType /\ server \in ServerType
    BY DEF IInv, Types
  <1>2. <<>> \in Seq(UpElements) /\ <<>> \in Seq(DownElements)
    OBVIOUS
  <1>3. client.losses + 1 \in Nat
    BY <1>1 DEF ClientType
  <1>4. client' = [client EXCEPT !.online = FALSE, !.bound = FALSE,
                                 !.told = FALSE, !.up = <<>>, !.ended = "lost",
                                 !.losses = client.losses + 1]
    BY <1>1 DEF Lose, HandleDisconnect, Cleanup, ClientType
  <1>5. client' \in ClientType
    BY <1>1, <1>2, <1>3, <1>4 DEF ClientType
  <1>6. /\ ~client'.online /\ client'.wanted = client.wanted /\ ~client'.told
        /\ client'.smContext = client.smContext
        /\ client'.smId = client.smId /\ client'.smSent = client.smSent
        /\ client'.smHandled = client.smHandled
        /\ client'.smQueue = client.smQueue
        /\ client'.up = <<>> /\ client'.made = client.made
        /\ client'.accepted = client.accepted /\ client'.seen = client.seen
    BY <1>1, <1>4 DEF ClientType
  <1>7. /\ server' \in ServerType /\ server'.session = server.session
        /\ ~server'.attached /\ server'.got = server.got
        /\ server'.out = server.out
    BY <1>1, <1>2 DEF Lose, ServerType
  <1>8. Types' /\ Resting'
    BY <1>5, <1>6, <1>7 DEF Types, Resting
  <1>9. Queued' /\ Counted' /\ Taken' /\ Handed' /\ Moved
    BY <1>6, <1>7 DEF IInv, Queued, Counted, Taken, Handed, Moved
  <1>10. /\ Tokens' /\ Attachment' /\ UpMeans' /\ DownMeans' /\ Answering'
         /\ Behind' /\ Flowing'
    BY <1>6 DEF Tokens, Attachment, UpMeans, DownMeans, Answering, Behind,
                Flowing
  <1> QED BY <1>8, <1>9, <1>10 DEF IInv

\* disconnect() gives the session up, with nothing left in the queue.
LEMMA DisconnectsKeeps ==
  ASSUME IInv, Careful, AppDisconnects
  PROVE  IInv' /\ Moved
PROOF
  <1>1. client \in ClientType /\ server \in ServerType /\ UNCHANGED server
    BY DEF IInv, Types, AppDisconnects
  <1>2. client.online /\ client.smQueue = <<>>
    BY DEF Careful, AppDisconnects
  <1> DEFINE c == [client EXCEPT !.smContext = "Invalid", !.smHandled = 0,
                                 !.smId = 0, !.wanted = FALSE]
             es == << <<"close">> >>
             w == Write(c, es)
  <1>3. "Invalid" \in Contexts /\ es \in Seq(UpElements)
    BY DEF Contexts, UpElements
  <1>4. c \in ClientType
    BY <1>1, <1>3 DEF ClientType
  <1>5. /\ c.online /\ ~c.wanted /\ c.smContext = "Invalid" /\ c.smId = 0
        /\ c.smHandled = 0 /\ c.smQueue = client.smQueue
        /\ c.made = client.made /\ c.accepted = client.accepted
        /\ c.seen = client.seen
    BY <1>1, <1>2 DEF ClientType
  <1>6. w = Write(c, es)
    OBVIOUS
  <1>7. client' = [w EXCEPT !.online = FALSE, !.bound = FALSE, !.told = FALSE,
                            !.smSent = 0, !.ended = "user"]
    BY <1>5 DEF AppDisconnects, BaseDisconnect, Cleanup
  <1> HIDE DEF c, w, es
  <1>8. /\ w \in ClientType /\ Beside(c, w) /\ w.made = c.made
        /\ w.accepted = c.accepted /\ w.smQueue = c.smQueue
    BY <1>3, <1>4, <1>6, WriteEffect
  <1>9. client' \in ClientType
    BY <1>7, <1>8 DEF ClientType
  <1>10. /\ ~client'.online /\ ~client'.wanted /\ ~client'.told
         /\ client'.smContext = "Invalid" /\ client'.smId = 0
         /\ client'.smSent = 0 /\ client'.smHandled = 0
         /\ client'.smQueue = <<>> /\ client'.made = client.made
         /\ client'.accepted = client.accepted /\ client'.seen = client.seen
    BY <1>2, <1>5, <1>7, <1>8 DEF ClientType, Beside
  <1>11. "Invalid" \notin Live
    BY DEF Live, Managed
  <1>12. Types' /\ Resting'
    BY <1>1, <1>9, <1>10 DEF Types, Resting
  <1>13. Queued' /\ Taken' /\ Handed' /\ Moved
    BY <1>2, <1>10, <1>11 DEF IInv, Queued, Taken, Handed, Moved
  <1>14. Counted'
    <2>1. 0 <= MaxStanzas /\ 0 <= MaxDown /\ 0 <= server.session
      BY <1>1, ConstantsAssumption DEF ServerType
    <2> QED BY <1>1, <1>10, <1>11, <2>1 DEF IInv, Counted
  <1>15. /\ Tokens' /\ Attachment' /\ UpMeans' /\ DownMeans' /\ Answering'
         /\ Behind' /\ Flowing'
    BY <1>10 DEF Tokens, Attachment, UpMeans, DownMeans, Answering, Behind,
                 Flowing
  <1> QED BY <1>12, <1>13, <1>14, <1>15 DEF IInv

\* Stream management is wanted again.
LEMMA SetKeeps ==
  ASSUME IInv, SetStreamManagement
  PROVE  IInv' /\ Moved
PROOF
  <1>1. client \in ClientType /\ UNCHANGED server /\ ~client.online
    BY DEF IInv, Types, SetStreamManagement
  <1>2. client' = [client EXCEPT !.wanted = TRUE]
    BY DEF SetStreamManagement
  <1>3. /\ client' \in ClientType /\ ~client'.online /\ client'.wanted
        /\ client'.told = client.told
        /\ client'.smContext = client.smContext
        /\ client'.smId = client.smId /\ client'.smSent = client.smSent
        /\ client'.smHandled = client.smHandled
        /\ client'.smQueue = client.smQueue
        /\ client'.up = client.up /\ client'.made = client.made
        /\ client'.accepted = client.accepted /\ client'.seen = client.seen
    BY <1>1, <1>2 DEF ClientType
  <1>4. Types' /\ Resting'
    BY <1>1, <1>3 DEF IInv, Types, Resting
  <1>5. Queued' /\ Counted' /\ Taken' /\ Handed' /\ Moved
    BY <1>1, <1>3 DEF IInv, Queued, Counted, Taken, Handed, Moved
  <1>6. /\ Tokens' /\ Attachment' /\ UpMeans' /\ DownMeans' /\ Answering'
        /\ Behind' /\ Flowing'
    BY <1>3 DEF Tokens, Attachment, UpMeans, DownMeans, Answering, Behind,
                Flowing
  <1> QED BY <1>4, <1>5, <1>6 DEF IInv

\* A stanza of the application, before a connection or in its session.
LEMMA SendsKeeps ==
  ASSUME IInv, Careful, AppSends
  PROVE  IInv' /\ Moved
PROOF
  <1>1. client \in ClientType /\ server \in ServerType /\ UNCHANGED server
          /\ client' = SendStanza(client)
    BY DEF IInv, Types, AppSends
  <1>2. client.online => client.told
    <2>1. Phase \in {"offline", "online"}
      BY DEF AppSends, Careful
    <2> QED BY <1>1, <2>1 DEF Phase, ClientType
  <1>3. client.made + 1 <= MaxStanzas
    BY DEF AppSends, Room
  <1>4. PICK low \in 0..Len(client.accepted) :
          /\ client.smQueue = From(client.accepted, low)
          /\ client.smContext \in Live => low <= Len(server.got)
    BY DEF IInv, Queued
  <1>5. client.smContext \in Managed => client.smContext \in Live
    BY DEF Live
  <1> DEFINE st == client.made + 1
  <1>6. st = client.made + 1
    OBVIOUS
  <1> HIDE DEF st
  <1>7. SendsTo(client, client', st, low)
    <2>1. client.smContext \in Managed =>
            client.smSent = Len(client.accepted)
      BY <1>5 DEF IInv, Counted
    <2> QED BY <1>1, <1>3, <1>4, <1>6, <2>1, SendEffect
  <1>8. /\ client' \in ClientType /\ client'.online = client.online
        /\ client'.wanted = client.wanted /\ client'.told = client.told
        /\ client'.smContext = client.smContext
        /\ client'.smId = client.smId /\ client'.smHandled = client.smHandled
        /\ client'.made = st /\ client'.seen = client.seen
        /\ client'.up = IF client.online
                        THEN client.up \o << <<"stanza", st>> >> ELSE client.up
        /\ st \in 1..MaxStanzas
    BY <1>7 DEF SendsTo, Beside
  <1>9. /\ client.accepted \in Seq(1..MaxStanzas)
        /\ client.up \in Seq(UpElements)
        /\ Len(client.accepted) \in Nat /\ Len(server.got) \in Nat
        /\ client.made \in Nat
    BY <1>1, ConstantsAssumption DEF ClientType, ServerType
  <1>10. ASSUME client.smContext \in Managed
         PROVE  Queued' /\ Counted' /\ Taken' /\ Flowing' /\ Moved
    <2>1. /\ client'.accepted = Append(client.accepted, st)
          /\ client'.smQueue = From(client'.accepted, low)
          /\ client'.smSent = Len(client'.accepted)
      BY <1>7, <1>10 DEF SendsTo
    <2>2. /\ Len(client'.accepted) = Len(client.accepted) + 1
          /\ \A i \in 1..Len(client.accepted) :
               client'.accepted[i] = client.accepted[i]
          /\ client'.accepted[Len(client.accepted) + 1] = st
      BY <1>8, <1>9, <2>1
    <2>3. Queued'
      <3>1. low \in 0..Len(client'.accepted)
        BY <1>9, <2>2
      <3> QED BY <1>1, <1>4, <1>8, <2>1, <3>1 DEF Queued
    <2>4. Counted'
      <3>1. client.smContext \notin {"Invalid", "Enable"}
        BY <1>10 DEF Managed
      <3>2. Len(client'.accepted) <= client'.made
        BY <1>6, <1>8, <1>9, <2>2 DEF IInv, Counted
      <3>3. client'.smSent <= MaxStanzas
        <4>1. Len(client'.accepted) \in Nat /\ client'.made <= MaxStanzas
          BY <1>8, <1>9, <2>2, ConstantsAssumption
        <4> QED BY <1>8, <2>1, <3>2, <4>1, ConstantsAssumption
      <3> QED BY <1>1, <1>8, <2>1, <3>1, <3>2, <3>3 DEF IInv, Counted
    <2>5. Taken'
      <3>1. /\ Len(server.got) <= Len(client.accepted)
            /\ \A i \in 1..Len(server.got) : server.got[i] = client.accepted[i]
        BY <1>5, <1>10 DEF IInv, Taken
      <3>2. Len(server.got) <= Len(client'.accepted)
        BY <1>9, <2>2, <3>1
      <3>3. \A i \in 1..Len(server.got) : server.got[i] = client'.accepted[i]
        BY <1>9, <2>2, <3>1
      <3> QED BY <1>1, <3>2, <3>3 DEF Taken
    <2>6. Flowing'
      <3> DEFINE e == <<"stanza", st>>
      <3>1. /\ e \in UpElements /\ e[1] = "stanza" /\ e[2] = st
            /\ Numbered(e) /\ <<e>> \in Seq(UpElements)
        <4>1. e \in {"stanza"} \X (1..MaxStanzas) /\ st > 0
          BY <1>8, ConstantsAssumption
        <4> QED BY <4>1 DEF UpElements, Numbered
      <3>2. client.online => client'.up = client.up \o <<e>>
        BY <1>8
      <3> HIDE DEF e
      <3>3. ASSUME client.online
            PROVE  Carries(client'.up, client'.accepted, Len(server.got),
                           Len(client'.accepted))
        <4> DEFINE l == Len(client.accepted)
        <4>1. Carries(client.up, client.accepted, Len(server.got), l)
          BY <1>2, <1>10, <3>3 DEF IInv, Flowing
        <4>2. \A k \in (Len(server.got) + 1)..l :
                client'.accepted[k] = client.accepted[k]
          BY <1>9, <2>2
        <4>3. l \in Nat
          BY <1>9
        <4>4. Carries(client.up, client'.accepted, Len(server.got), l)
          BY <1>9, <4>1, <4>2, <4>3, CarriesSame
        <4>5. \A i \in 1..Len(<<e>>) :
                Numbered(<<e>>[i]) /\ <<e>>[i][2] = client'.accepted[l + i]
          BY <2>2, <3>1
        <4> HIDE DEF l
        <4>6. Carries(<<e>>, client'.accepted, l, l + Len(<<e>>))
          BY <3>1, <4>3, <4>5, CarriesRun
        <4>7. l + Len(<<e>>) = l + 1 /\ l + 1 \in Nat
          BY <4>3
        <4>8. Carries(<<e>>, client'.accepted, l, l + 1)
          BY <4>6, <4>7
        <4>9. Carries(client.up \o <<e>>, client'.accepted, Len(server.got),
                      l + 1)
          BY <1>9, <3>1, <4>3, <4>4, <4>7, <4>8, CarriesConcat
        <4> QED BY <2>2, <3>2, <3>3, <4>9 DEF l
      <3> QED BY <1>1, <1>8, <3>3 DEF IInv, Flowing
    <2>7. Moved
      BY <1>1, <1>5, <1>8, <1>10, <2>1 DEF Moved
    <2> QED BY <2>3, <2>4, <2>5, <2>6, <2>7
  <1>11. ASSUME client.smContext \notin Managed
         PROVE  Queued' /\ Counted' /\ Taken' /\ Flowing' /\ Moved
    <2>1. /\ client'.accepted = client.accepted
          /\ client'.smQueue = client.smQueue
          /\ client'.smSent = client.smSent
      BY <1>7, <1>11 DEF SendsTo
    <2>2. Queued' /\ Taken' /\ Flowing' /\ Moved
      BY <1>1, <1>8, <1>11, <2>1 DEF IInv, Queued, Taken, Flowing, Moved
    <2>3. Counted'
      <3>1. Len(client.accepted) <= client'.made
        BY <1>6, <1>8, <1>9 DEF IInv, Counted
      <3> QED BY <1>1, <1>8, <2>1, <3>1 DEF IInv, Counted
    <2> QED BY <2>2, <2>3
  <1>12. Types' /\ Handed' /\ Resting'
    BY <1>1, <1>8 DEF IInv, Types, Handed, Resting
  <1>13. client.online =>
           /\ Free(client.up, UpTokens) /\ Free(client.up, {"close"})
           /\ Free(client'.up, UpTokens) /\ Free(client'.up, {"close"})
    <2> SUFFICES ASSUME client.online
                 PROVE  /\ Free(client.up, UpTokens)
                        /\ Free(client.up, {"close"})
                        /\ Free(client'.up, UpTokens)
                        /\ Free(client'.up, {"close"})
      OBVIOUS
    <2> DEFINE e == <<"stanza", st>>
    <2>1. Free(client.up, UpTokens) /\ Free(client.up, {"close"})
      BY <1>2 DEF IInv, Tokens
    <2>2. e \in {"stanza"} \X (1..MaxStanzas)
      BY <1>8
    <2>3. e \in UpElements /\ e[1] \notin UpTokens /\ e[1] \notin {"close"}
      BY <2>2 DEF UpElements, UpTokens
    <2>4. client'.up = client.up \o <<e>>
      BY <1>8
    <2> HIDE DEF e
    <2> QED BY <1>9, <2>1, <2>3, <2>4, FreeAdded
  <1>14. Tokens' /\ Attachment'
    BY <1>1, <1>2, <1>8, <1>13
       DEF IInv, Tokens, OneToken, Attachment, Free, Lone
  <1>15. UpMeans'
    BY <1>8, <1>13 DEF UpMeans, Free, UpTokens
  <1>16. DownMeans' /\ Answering' /\ Behind'
    BY <1>1, <1>8 DEF IInv, DownMeans, Answering, Behind
  <1> QED BY <1>10, <1>11, <1>12, <1>14, <1>15, <1>16 DEF IInv

-----------------------------------------------------------------------------
(* What the server does of its own accord. *)

\* The server sends the next stanza of the session.
LEMMA ServerSendsKeeps ==
  ASSUME IInv, ServerSends
  PROVE  IInv' /\ Moved
PROOF
  <1> DEFINE n == server.out + 1
             e == <<"stanza", n>>
             s == Answer(<<e>>)
  <1>1. client \in ClientType /\ server \in ServerType /\ UNCHANGED client
          /\ server.attached /\ client.online
    BY DEF IInv, Types, ServerSends
  <1>2. n \in Nat /\ n > 0 /\ n \in 0..MaxDown /\ server.out \in Nat
    BY <1>1, ConstantsAssumption DEF ServerSends, ServerType
  <1>3. server' = [s EXCEPT !.out = n]
    <2>1. <<e>> \in Seq(DownElements)
      BY <1>2 DEF DownElements
    <2>2. s.out = server.out
      BY <2>1, AnswerEffect DEF IInv
    <2> QED BY <2>2 DEF ServerSends
  <1> HIDE DEF n
  <1>4. /\ e \in DownElements /\ e[1] = "stanza" /\ e[2] = n /\ Numbered(e)
        /\ <<e>> \in Seq(DownElements) /\ e # <<"stanza", 0>>
    BY <1>2 DEF DownElements, Numbered
  <1>5. s = Answer(<<e>>)
    OBVIOUS
  <1> HIDE DEF e, s
  <1>6. /\ s \in ServerType /\ s.session = server.session
        /\ s.attached = server.attached /\ s.got = server.got
        /\ s.down = server.down \o <<e>>
    BY <1>4, <1>5, AnswerEffect DEF IInv
  <1>7. /\ server' \in ServerType /\ server'.session = server.session
        /\ server'.attached /\ server'.got = server.got /\ server'.out = n
        /\ server'.down = server.down \o <<e>>
    BY <1>1, <1>2, <1>3, <1>6 DEF ServerType
  <1>8. AddsDown(e)
    BY <1>4, <1>7, DownAdded
  <1>9. \A i \in DOMAIN server'.down :
          \/ i \in DOMAIN server.down /\ server'.down[i] = server.down[i]
          \/ i = Len(server.down) + 1 /\ server'.down[i] = e
    BY <1>8 DEF AddsDown
  <1>10. server.down \in Seq(DownElements)
    BY <1>1 DEF ServerType
  <1>11. Types' /\ Resting'
    BY <1>1, <1>7 DEF Types, Resting
  <1>12. Queued' /\ Counted' /\ Taken' /\ UpMeans' /\ Moved
    BY <1>1, <1>7 DEF IInv, Queued, Counted, Taken, UpMeans, Moved
  <1>13. Handed'
    BY <1>1, <1>2, <1>7 DEF IInv, Handed, ClientType, n
  <1>14. Tokens'
    <2>1. "stanza" \notin DownTokens
      BY DEF DownTokens
    <2>2. Free(server.down, DownTokens) =>
            Free(server.down \o <<e>>, DownTokens)
      BY <1>4, <1>10, <2>1, FreeAdded
    <2>3. Lone(server.down, DownTokens) =>
            Lone(server.down \o <<e>>, DownTokens)
      BY <1>4, <1>10, <2>1, FreeAdded
    <2> QED BY <1>1, <1>7, <2>2, <2>3 DEF IInv, Tokens, OneToken
  <1>15. Attachment'
    BY <1>1, <1>7, <1>8 DEF IInv, Attachment, AddsDown
  <1>16. DownMeans'
    BY <1>1, <1>4, <1>7, <1>9 DEF IInv, DownMeans
  <1>17. Answering'
    <2>1. Answering
      BY DEF IInv
    <2>2. \A i \in DOMAIN server'.down :
            server'.down[i][1] \in {"a", "enabled"}
                \/ server'.down[i] = <<"stanza", 0>>
              => i \in DOMAIN server.down /\ server'.down[i] = server.down[i]
      BY <1>4, <1>9
    <2> QED BY <1>1, <1>7, <2>1, <2>2 DEF Answering
  <1>18. Behind'
    <2> SUFFICES ASSUME NEW i \in DOMAIN server'.down,
                        NEW j \in DOMAIN server'.down,
                        Numbered(server'.down[i]),
                        server'.down[j][1] \in {"enabled", "resumed"}
                 PROVE  j < i
      BY DEF Behind
    <2>1. j \in DOMAIN server.down /\ server'.down[j] = server.down[j]
            /\ j < Len(server.down) + 1
      BY <1>4, <1>8, <1>9 DEF AddsDown
    <2>2. CASE i \in DOMAIN server.down /\ server'.down[i] = server.down[i]
      BY <1>1, <2>1, <2>2 DEF IInv, Behind
    <2>3. CASE i = Len(server.down) + 1
      BY <2>1, <2>3
    <2> QED BY <1>9, <2>2, <2>3
  <1>19. Flowing'
    <2> DEFINE ident == [k \in Nat |-> k]
    <2>1. ASSUME client.smContext \in Live \cup {"Enable"}
          PROVE  Carries(server'.down, ident, client.smHandled, n)
      <3>1. Carries(server.down, ident, client.smHandled, server.out)
        BY <1>1, <2>1 DEF IInv, Flowing
      <3>2. \A i \in 1..Len(<<e>>) :
              Numbered(<<e>>[i]) /\ <<e>>[i][2] = ident[server.out + i]
        BY <1>2, <1>4 DEF n
      <3>3. client.smHandled \in Nat
        BY <1>1 DEF ClientType
      <3> HIDE DEF ident
      <3>4. Carries(<<e>>, ident, server.out, server.out + Len(<<e>>))
        BY <1>2, <1>4, <3>2, CarriesRun
      <3>5. server.out + Len(<<e>>) = n
        BY <1>2 DEF n
      <3>6. Carries(<<e>>, ident, server.out, n)
        BY <3>4, <3>5
      <3>7. Carries(server.down \o <<e>>, ident, client.smHandled, n)
        BY <1>2, <1>4, <1>10, <3>1, <3>3, <3>6, CarriesConcat
      <3> QED BY <1>7, <3>7
    <2> QED BY <1>1, <1>7, <2>1 DEF IInv, Flowing
  <1> QED BY <1>11, <1>12, <1>13, <1>14, <1>15, <1>16, <1>17, <1>18, <1>19
          DEF IInv

\* The server writes, of its own accord, what says nothing of the session.
LEMMA WritesKeep ==
  ASSUME IInv, UNCHANGED client, NEW e \in DownElements,
         server' = Answer(<<e>>),
         e = <<"r">> \/ (e = <<"stanza", 0>> /\ client.smContext = "Enable"
                           /\ server.down = <<>> /\ ~server.attached)
  PROVE  IInv' /\ Moved
PROOF
  <1>1. /\ server' \in ServerType /\ SameServer
        /\ server'.down = server.down \o <<e>>
    BY AnswersOne
  <1>2. AddsDown(e)
    BY <1>1, DownAdded
  <1>3. \A i \in DOMAIN server'.down :
          \/ i \in DOMAIN server.down /\ server'.down[i] = server.down[i]
          \/ i = Len(server.down) + 1 /\ server'.down[i] = e
    BY <1>2 DEF AddsDown
  <1>4. ~Numbered(e) /\ e[1] \in {"r", "stanza"} /\ e[1] \notin DownTokens
    BY DEF Numbered, DownTokens
  <1>5. server.down \in Seq(DownElements) /\ SameClient
    BY DEF IInv, Types, ServerType, SameClient, Beside
  <1>6. Types' /\ Resting' /\ UpMeans'
    BY <1>1 DEF IInv, Types, Resting, UpMeans, SameServer
  <1>7. Queued' /\ Counted' /\ Taken' /\ Handed' /\ Moved
    BY <1>1, <1>5, SameKeeps
  <1>8. Tokens'
    <2>1. Free(server.down, DownTokens) =>
            Free(server.down \o <<e>>, DownTokens)
      BY <1>4, <1>5, FreeAdded
    <2>2. Lone(server.down, DownTokens) =>
            Lone(server.down \o <<e>>, DownTokens)
      BY <1>4, <1>5, FreeAdded
    <2> QED BY <1>1, <2>1, <2>2 DEF IInv, Tokens, OneToken
  <1>9. Attachment'
    BY <1>1, <1>2 DEF IInv, Attachment, AddsDown, SameServer
  <1>10. DownMeans'
    BY <1>1, <1>3, <1>4 DEF IInv, DownMeans, SameServer
  <1>11. Behind'
    <2>1. \A i \in DOMAIN server'.down :
            Numbered(server'.down[i])
                \/ server'.down[i][1] \in {"enabled", "resumed"}
              => i \in DOMAIN server.down /\ server'.down[i] = server.down[i]
      BY <1>3, <1>4
    <2> QED BY <2>1 DEF IInv, Behind
  <1>12. Answering'
    <2>1. Answering
      BY DEF IInv
    <2>2. \A i \in DOMAIN server'.down :
            server'.down[i][1] \in {"a", "enabled"} \/ Numbered(server'.down[i])
              => i \in DOMAIN server.down /\ server'.down[i] = server.down[i]
      BY <1>3, <1>4
    <2>3. client.smContext \in Live => e # <<"stanza", 0>>
      BY DEF Live, Managed
    <2>4. CASE e = <<"r">>
      <3>1. e # <<"stanza", 0>>
        BY <2>4
      <3>2. \A i \in DOMAIN server'.down :
              server'.down[i] = <<"stanza", 0>> =>
                i \in DOMAIN server.down /\ server'.down[i] = server.down[i]
        BY <1>3, <3>1
      <3>3. ASSUME client.online
            PROVE  /\ ~server.attached =>
                        \A i \in DOMAIN server'.down :
                          server'.down[i][1] # "a" /\ ~Numbered(server'.down[i])
                   /\ \A i \in DOMAIN server'.down :
                        server'.down[i][1] = "a" =>
                          server'.down[i][2] <= Len(server.got)
        BY <2>1, <2>2, <3>3 DEF Answering
      <3>4. ASSUME client.online, client.smContext \in Live
            PROVE  \A i \in DOMAIN server'.down :
                     server'.down[i] # <<"stanza", 0>>
        BY <2>1, <3>2, <3>4 DEF Answering
      <3>5. ASSUME client.online, NEW i \in DOMAIN server'.down,
                   NEW j \in DOMAIN server'.down,
                   server'.down[i] = <<"stanza", 0>>,
                   server'.down[j][1] = "enabled"
            PROVE  i < j
        BY <2>1, <2>2, <3>2, <3>5 DEF Answering
      <3>6. server'.attached = server.attached /\ server'.got = server.got
        BY <1>1 DEF SameServer
      <3> QED BY <3>3, <3>4, <3>5, <3>6 DEF Answering
    <2>5. CASE e = <<"stanza", 0>> /\ server.down = <<>>
      <3>1. \A i \in DOMAIN server'.down :
              server'.down[i] = e /\ server'.down[i][1] = "stanza"
        BY <1>3, <2>5
      <3>2. \A i \in DOMAIN server'.down :
              /\ server'.down[i][1] \notin {"a", "enabled"}
              /\ ~Numbered(server'.down[i])
        BY <1>4, <3>1
      <3>3. client'.smContext \in Live =>
              \A i \in DOMAIN server'.down : server'.down[i] # <<"stanza", 0>>
        BY <2>3, <3>1
      <3> QED BY <3>2, <3>3 DEF Answering
    <2> QED BY <2>4, <2>5
  <1>13. Flowing'
    <2>1. CASE ~server.attached
      BY <1>1, <2>1 DEF IInv, Flowing, SameServer
    <2>2. CASE e = <<"r">>
      <3>1. e[1] # "stanza"
        BY <2>2
      <3>2. client.online /\ server.attached
              /\ client.smContext \in Live \cup {"Enable"} =>
                Carries(server'.down, [k \in Nat |-> k], client.smHandled,
                        server.out)
        BY <1>1, <3>1, DownFlows
      <3> QED BY <1>1, <3>2 DEF IInv, Flowing, SameServer
    <2> QED BY <2>1, <2>2
  <1> QED BY <1>6, <1>7, <1>8, <1>9, <1>10, <1>11, <1>12, <1>13 DEF IInv

\* It sends before the session is there.
LEMMA EarlyKeeps ==
  ASSUME IInv, ServerSendsEarly
  PROVE  IInv' /\ Moved
PROOF
  <1> DEFINE e == <<"stanza", 0>>
  <1>1. e \in DownElements /\ e = <<"stanza", 0>>
    BY DEF DownElements
  <1>2. /\ UNCHANGED client /\ server' = Answer(<<e>>)
        /\ client.smContext = "Enable" /\ server.down = <<>> /\ ~server.attached
    BY DEF ServerSendsEarly
  <1> HIDE DEF e
  <1> QED BY <1>1, <1>2, WritesKeep

\* It asks for an acknowledgement.
LEMMA RequestsKeeps ==
  ASSUME IInv, ServerRequests
  PROVE  IInv' /\ Moved
PROOF
  <1> DEFINE e == <<"r">>
  <1>1. e \in DownElements /\ e = <<"r">>
    BY DEF DownElements
  <1>2. UNCHANGED client /\ server' = Answer(<<e>>)
    BY DEF ServerRequests
  <1> HIDE DEF e
  <1> QED BY <1>1, <1>2, WritesKeep

\* It gives up a session that lost its connection.
LEMMA GivesUpKeeps ==
  ASSUME IInv, ServerGivesUp
  PROVE  IInv' /\ Moved
PROOF
  <1>1. /\ UNCHANGED client /\ server' \in ServerType /\ SameServer
        /\ server'.down = server.down
    BY DEF IInv, Types, ServerGivesUp, ServerType, SameServer
  <1>2. SameClient
    BY <1>1 DEF SameClient, Beside
  <1>3. Queued' /\ Counted' /\ Taken' /\ Handed' /\ Moved
    BY <1>1, <1>2, SameKeeps
  <1>4. Types' /\ Resting' /\ Tokens' /\ Attachment' /\ UpMeans'
    BY <1>1 DEF IInv, Types, Resting, Tokens, OneToken, Attachment, UpMeans,
                SameServer
  <1>5. DownMeans' /\ Answering' /\ Behind' /\ Flowing'
    BY <1>1 DEF IInv, DownMeans, Answering, Behind, Flowing, SameServer
  <1> QED BY <1>3, <1>4, <1>5 DEF IInv

-----------------------------------------------------------------------------
(* The invariant holds. *)

\* Before the first connection.
LEMMA InitInv ==
  ASSUME Init
  PROVE  IInv
PROOF
  <1>1. /\ <<>> \in Seq(UpElements) /\ <<>> \in Seq(DownElements)
        /\ <<>> \in Seq(1..MaxStanzas) /\ <<>> \in Seq(Nat)
    OBVIOUS
  <1>2. <<>> \in Queues
    <2>1. <<>> \in [{} -> Nat]
      OBVIOUS
    <2> QED BY <2>1 DEF Queues
  <1>3. "Invalid" \in Contexts /\ "Invalid" \notin Live
    BY DEF Contexts, Live, Managed
  <1>4. 0 \in 0..MaxStanzas /\ 0 \in 0..MaxDown
        /\ 0 <= MaxStanzas /\ 0 <= MaxDown /\ Len(<<>>) = 0
    BY ConstantsAssumption
  <1>5. Types
    BY <1>1, <1>2, <1>3, <1>4 DEF Init, Types, ClientType, ServerType
  <1>6. /\ ~client.online /\ client.smContext = "Invalid" /\ ~client.told
        /\ client.wanted /\ client.smSent = 0 /\ client.smHandled = 0
        /\ client.smId = 0 /\ client.smQueue = <<>> /\ client.accepted = <<>>
        /\ client.made = 0 /\ client.seen = <<>> /\ server.session = 0
    BY DEF Init
  <1>7. Queued
    <2>1. 0 \in 0..Len(client.accepted) /\ From(client.accepted, 0) = <<>>
      BY <1>6 DEF From
    <2> QED BY <1>3, <1>6, <2>1 DEF Queued
  <1>8. Counted /\ Taken /\ Handed /\ Resting
    BY <1>3, <1>4, <1>6 DEF Counted, Taken, Handed, Resting
  <1>9. /\ Tokens /\ Attachment /\ UpMeans /\ DownMeans /\ Answering /\ Behind
        /\ Flowing
    BY <1>6 DEF Tokens, Attachment, UpMeans, DownMeans, Answering, Behind,
                Flowing
  <1> QED BY <1>5, <1>7, <1>8, <1>9 DEF IInv

\* A step of nobody.
LEMMA StutterKeeps ==
  ASSUME IInv, UNCHANGED vars
  PROVE  IInv'
  BY DEF vars, IInv, Types, Queued, Counted, Taken, Handed, Resting, Tokens,
         OneToken, Attachment, UpMeans, DownMeans, Answering, Behind, Flowing

\* The step of the induction.
LEMMA NextKeeps ==
  ASSUME IInv, Careful, Next
  PROVE  IInv' /\ Moved
PROOF
  <1>1. CASE ClientReads
    <2>1. ~RecvClose
      BY CloseNeverComes DEF RecvClose
    <2> QED BY <1>1, <2>1, FeaturesKeeps, BoundKeeps, EnabledKeeps,
               ResumedKeeps, FailedKeeps, AckKeeps, RequestKeeps, StanzaKeeps
            DEF ClientReads
  <1>2. CASE ServerReads
    BY <1>2, BindsKeeps, EnablesKeeps, ResumesKeeps, TakesKeeps, AcksKeeps,
       HearsAckKeeps, HearsCloseKeeps DEF ServerReads
  <1>3. CASE Connect \/ Lose
    BY <1>3, ConnectKeeps, LoseKeeps
  <1>4. CASE AppSends \/ AppAcks \/ AppDisconnects \/ SetStreamManagement
    BY <1>4, SendsKeeps, AppAcksKeeps, DisconnectsKeeps, SetKeeps
  <1>5. ~AppSendsTag /\ ~ThreadWrites /\ ~ServerEnds
    BY DEF Careful, AppSendsTag, ThreadWrites, ServerEnds
  <1>6. ~ThreadKeeps
    BY DEF ThreadKeeps, IInv, Types, ClientType
  <1>7. CASE ServerSends \/ ServerSendsEarly \/ ServerRequests \/ ServerGivesUp
    BY <1>7, ServerSendsKeeps, EarlyKeeps, RequestsKeeps, GivesUpKeeps
  <1> QED BY <1>1, <1>2, <1>3, <1>4, <1>5, <1>6, <1>7 DEF Next

\* The inductive invariant, for an application that is careful.
THEOREM Invariant == Careful => (Spec => []IInv)
PROOF
  <1> SUFFICES ASSUME Careful
               PROVE  Spec => []IInv
    OBVIOUS
  <1>1. Init => IInv
    BY InitInv
  <1>2. IInv /\ [Next]_vars => IInv'
    BY NextKeeps, StutterKeeps
  <1> QED BY <1>1, <1>2, PTL DEF Spec


-----------------------------------------------------------------------------
(* What follows from the invariant. *)

\* The counters, the queue and the histories keep their bounds.
LEMMA TypesHold ==
  ASSUME IInv
  PROVE  TypeOK
PROOF
  <1>1. client \in ClientType /\ server \in ServerType /\ Counted
    BY DEF IInv, Types
  <1>2. PICK low \in 0..Len(client.accepted) :
          client.smQueue = From(client.accepted, low)
    BY DEF IInv, Queued
  <1>3. /\ client.accepted \in Seq(1..MaxStanzas) /\ client.seen \in Seq(Nat)
        /\ client.made \in 0..MaxStanzas /\ client.smSent \in Nat
        /\ client.smHandled \in Nat /\ client.smContext \in Contexts
        /\ client.smId \in Nat /\ server.session \in Nat
    BY <1>1 DEF ClientType, ServerType
  <1>4. /\ Len(client.accepted) <= client.made /\ client.smHandled <= MaxDown
        /\ client.smSent <= MaxStanzas /\ Len(client.seen) <= MaxDown
        /\ client.smId <= server.session
    BY <1>1 DEF Counted
  <1>5. Len(client.accepted) \in Nat /\ Len(client.accepted) <= MaxStanzas
    BY <1>3, <1>4, ConstantsAssumption
  <1>6. DOMAIN client.smQueue \subseteq 1..MaxStanzas
    <2>1. DOMAIN client.smQueue = (low + 1)..Len(client.accepted)
      BY <1>2 DEF From
    <2> QED BY <2>1, <1>2, <1>5, ConstantsAssumption
  <1>7. client.smSent \in 0..MaxStanzas /\ client.smHandled \in 0..MaxDown
    BY <1>3, <1>4, ConstantsAssumption
  <1>8. client.smId \in 0..server.session
    BY <1>3, <1>4
  <1>9. client.smContext \in {"Invalid", "Failed", "Enable", "Resume"}
                               \cup Managed
    BY <1>3 DEF Contexts
  <1> QED BY <1>4, <1>5, <1>6, <1>7, <1>8, <1>9 DEF TypeOK

\* What the server has not got is in the queue, which begins where the
\* acknowledged part ends.
LEMMA NothingIsLost ==
  ASSUME IInv
  PROVE  NothingLost
PROOF
  <1>1. SUFFICES ASSUME client.smContext \in Live,
                        NEW i \in DOMAIN client.accepted
                 PROVE  \/ \E j \in DOMAIN server.got :
                             server.got[j] = client.accepted[i]
                        \/ \E n \in DOMAIN client.smQueue :
                             client.smQueue[n] = client.accepted[i]
    BY DEF NothingLost
  <1>2. PICK low \in 0..Len(client.accepted) :
          /\ client.smQueue = From(client.accepted, low)
          /\ low <= Len(server.got)
    BY <1>1 DEF IInv, Queued
  <1>3. /\ client.accepted \in Seq(1..MaxStanzas)
        /\ server.got \in Seq(1..MaxStanzas)
    BY DEF IInv, Types, ClientType, ServerType
  <1>4. i \in 1..Len(client.accepted) /\ DOMAIN server.got = 1..Len(server.got)
    BY <1>3
  <1>5. \A j \in 1..Len(server.got) : server.got[j] = client.accepted[j]
    BY <1>1 DEF IInv, Taken
  <1>6. CASE i <= low
    <2>1. i \in DOMAIN server.got
      BY <1>2, <1>3, <1>4, <1>6
    <2> QED BY <2>1, <1>4, <1>5
  <1>7. CASE i > low
    <2>1. i \in (low + 1)..Len(client.accepted)
      BY <1>2, <1>3, <1>4, <1>7
    <2> QED BY <2>1, <1>2 DEF From
  <1> QED BY <1>2, <1>3, <1>4, <1>6, <1>7

\* What is kept under n is the session's n-th stanza.
LEMMA QueueIsNumbered ==
  ASSUME IInv
  PROVE  QueueNumbered
PROOF
  <1>1. SUFFICES ASSUME client.smContext \in Live
                 PROVE  /\ client.smSent = Len(client.accepted)
                        /\ \A n \in DOMAIN client.smQueue :
                             /\ n \in DOMAIN client.accepted
                             /\ client.smQueue[n] = client.accepted[n]
    BY DEF QueueNumbered
  <1>2. PICK low \in 0..Len(client.accepted) :
          client.smQueue = From(client.accepted, low)
    BY DEF IInv, Queued
  <1>3. client.accepted \in Seq(1..MaxStanzas)
    BY DEF IInv, Types, ClientType
  <1>4. client.smSent = Len(client.accepted)
    BY <1>1 DEF IInv, Counted
  <1>5. \A n \in DOMAIN client.smQueue : n \in DOMAIN client.accepted
    <2>1. DOMAIN client.smQueue = (low + 1)..Len(client.accepted)
      BY <1>2 DEF From
    <2> QED BY <2>1, <1>2, <1>3
  <1>6. \A n \in DOMAIN client.smQueue :
          client.smQueue[n] = client.accepted[n]
    BY <1>2 DEF From
  <1> QED BY <1>4, <1>5, <1>6

\* What is counted as handled was seen in order.
LEMMA DownstreamIsExact ==
  ASSUME IInv
  PROVE  DownstreamExact
PROOF
  <1>1. client.seen \in Seq(Nat)
    BY DEF IInv, Types, ClientType
  <1> QED BY <1>1 DEF IInv, Handed, DownstreamExact

\* The queue a resumption sends again from misses nothing, keeps nothing else
\* and has each stanza under the number the server's h counts
\* (clientbase.cpp:1048-1053, client.cpp:572-603).
THEOREM QueueIsSound == Careful => (Spec => []QueueSound)
PROOF
  <1>1. IInv => QueueSound
    BY TypesHold, NothingIsLost, QueueIsNumbered DEF QueueSound
  <1> QED BY <1>1, Invariant, PTL

\* The application handles each stanza of a session once and in order, through
\* every loss and resumption.
THEOREM DownstreamInOrder == Careful => (Spec => []DownstreamExact)
PROOF
  <1> QED BY DownstreamIsExact, Invariant, PTL

-----------------------------------------------------------------------------
(* The session implements ReliableStream. *)

\* A sequence is a strict prefix of what it becomes with one more element.
LEMMA StrictPrefix ==
  ASSUME NEW S, NEW s \in Seq(S), NEW e \in S
  PROVE  Stream!IsStrictPrefix(s, Append(s, e))
PROOF
  <1>1. Len(s) \in Nat /\ Len(Append(s, e)) = Len(s) + 1
    OBVIOUS
  <1>2. SubSeq(s, 1, Len(s)) = SubSeq(Append(s, e), 1, Len(s))
    OBVIOUS
  <1>3. s # Append(s, e)
    BY <1>1
  <1> QED BY <1>1, <1>2, <1>3 DEF Stream!IsStrictPrefix, Stream!IsPrefix

\* No session, nothing sent.
LEMMA StreamBegins ==
  ASSUME Init
  PROVE  Stream!Init
  BY DEF Init, Stream!Init, Live, Managed

\* Each step sends, takes, ends the session, or does none of these.
LEMMA StreamMoves ==
  ASSUME IInv, IInv', Moved
  PROVE  [Stream!Next]_(Stream!vars)
PROOF
  <1> DEFINE acc == IF client.smContext \in Live THEN client.accepted ELSE <<>>
             del == IF client.smContext \in Live THEN server.got ELSE <<>>
  <1>1. CASE client'.smContext \notin Live
    <2>1. acc' = <<>> /\ del' = <<>>
      BY <1>1
    <2> QED BY <2>1 DEF Stream!Next, Stream!End
  <1>2. CASE client'.smContext \in Live
    <2>1. acc' = client'.accepted /\ del' = server'.got
      BY <1>2
    <2>2. /\ client.accepted \in Seq(1..MaxStanzas)
          /\ client'.accepted \in Seq(1..MaxStanzas)
          /\ server.got \in Seq(1..MaxStanzas)
      BY DEF IInv, Types, ClientType, ServerType
    <2>3. CASE /\ client.smContext \in Live
               /\ client'.accepted = client.accepted /\ server'.got = server.got
      <3>1. acc' = acc /\ del' = del
        BY <2>1, <2>3
      <3> QED BY <3>1 DEF Stream!vars
    <2>4. CASE /\ client.smContext \in Live
               /\ \E st \in 1..MaxStanzas :
                    client'.accepted = Append(client.accepted, st)
               /\ server'.got = server.got
      <3>1. acc = client.accepted /\ del = server.got
        BY <2>4
      <3>2. Stream!IsStrictPrefix(acc, acc')
        BY <2>1, <2>2, <2>4, <3>1, StrictPrefix
      <3>3. acc' \in Seq(1..MaxStanzas) /\ del' = del
        BY <2>1, <2>2, <2>4, <3>1
      <3> QED BY <3>2, <3>3 DEF Stream!Next, Stream!Accept
    <2>5. CASE /\ client.smContext \in Live
               /\ client'.accepted = client.accepted
               /\ \E st \in 1..MaxStanzas : server'.got = Append(server.got, st)
      <3>1. acc = client.accepted /\ del = server.got
        BY <2>5
      <3>2. PICK st \in 1..MaxStanzas : server'.got = Append(server.got, st)
        BY <2>5
      <3>3. /\ Len(server'.got) <= Len(client'.accepted)
            /\ \A i \in 1..Len(server'.got) :
                 server'.got[i] = client'.accepted[i]
        BY <1>2 DEF IInv, Taken
      <3>4. /\ Len(server.got) \in Nat /\ Len(client.accepted) \in Nat
            /\ Len(server'.got) = Len(server.got) + 1
            /\ server'.got[Len(server.got) + 1] = st
        BY <2>2, <3>2
      <3>5. Len(server.got) < Len(client.accepted)
        BY <2>5, <3>3, <3>4
      <3>6. st = client.accepted[Len(server.got) + 1]
        <4>1. Len(server.got) + 1 \in 1..Len(server'.got)
          BY <3>4
        <4> QED BY <2>5, <3>3, <3>4, <4>1
      <3>7. /\ Len(del) < Len(acc) /\ del' = Append(del, acc[Len(del) + 1])
            /\ acc' = acc
        BY <2>1, <2>5, <3>1, <3>2, <3>5, <3>6
      <3> QED BY <3>7 DEF Stream!Next, Stream!Deliver
    <2>6. CASE /\ client.smContext \notin Live /\ server'.got = <<>>
               /\ \E st \in 1..MaxStanzas : client'.accepted = <<st>>
      <3>1. acc = <<>> /\ del = <<>>
        BY <2>6
      <3>2. PICK st \in 1..MaxStanzas : client'.accepted = <<st>>
        BY <2>6
      <3>3. <<>> \in Seq(1..MaxStanzas) /\ <<st>> = Append(<<>>, st)
        OBVIOUS
      <3>4. Stream!IsStrictPrefix(acc, acc')
        BY <2>1, <3>1, <3>2, <3>3, StrictPrefix
      <3>5. acc' \in Seq(1..MaxStanzas) /\ del' = del
        BY <2>1, <2>2, <2>6, <3>1
      <3> QED BY <3>4, <3>5 DEF Stream!Next, Stream!Accept
    <2> QED BY <1>2, <2>3, <2>4, <2>5, <2>6 DEF Moved
  <1> QED BY <1>1, <1>2

\* A step of nobody is one of the stream's.
LEMMA StreamStutters ==
  ASSUME UNCHANGED vars
  PROVE  UNCHANGED Stream!vars
  BY DEF vars, Stream!vars

\* Upstream, the session is a reliable stream (client.h:101-115): what is sent
\* in it arrives in order, nothing twice and nothing left out, through every
\* loss and resumption.
THEOREM Reliable == Careful => (Spec => ReliableDelivery)
PROOF
  <1> SUFFICES ASSUME Careful
               PROVE  Spec => ReliableDelivery
    OBVIOUS
  <1>1. Init => Stream!Init
    BY StreamBegins
  <1>2. IInv /\ IInv' /\ [Next]_vars => [Stream!Next]_(Stream!vars)
    BY NextKeeps, StreamMoves, StreamStutters
  <1>3. Spec => []IInv
    BY Invariant
  <1> QED BY <1>1, <1>2, <1>3, PTL DEF Spec, ReliableDelivery, Stream!Spec

-----------------------------------------------------------------------------
(* Two senders on one connection, whatever else the application does. *)

\* There is no second connection to resume a session on.
OneConnection == MaxConnects <= 1

\* What travels, without what a resumption needs.
SendersUp ==
  {<<"bind">>, <<"enable">>, <<"r">>, <<"close">>}
    \cup ({"stanza"} \X (1..MaxStanzas)) \cup ({"a"} \X Nat)

SendersDown ==
  {<<"features">>, <<"bound">>, <<"r">>, <<"close">>}
    \cup ({"stanza", "a", "enabled"} \X Nat)

SendersClient ==
  [online : BOOLEAN, wanted : BOOLEAN,
   smContext : {"Invalid", "Enable", "Enabled"}, bound : BOOLEAN,
   told : BOOLEAN, smId : Nat, smSent : Nat, smHandled : Nat,
   smQueue : Queues, up : Seq(SendersUp), made : 0..MaxStanzas,
   written : 0..MaxStanzas, accepted : Seq(1..MaxStanzas), seen : Seq(Nat),
   losses : Nat, ended : {"never", "lost", "user", "server"}]

SendersServer ==
  [session : Nat, resumable : BOOLEAN, attached : BOOLEAN,
   got : Seq(1..MaxStanzas), out : Nat, down : Seq(SendersDown)]

SendersTypes ==
  /\ client \in SendersClient /\ server \in SendersServer
  /\ connects \in 0..1 /\ connects <= MaxConnects

\* What negotiates the session.
Requested == {"bind", "enable"}
Offered   == {"features", "bound"}
Granted   == Offered \cup {"enabled"}

\* Nothing is counted, kept or between the halves of send().
Fresh(c) ==
  /\ c.smSent = 0 /\ c.smQueue = <<>> /\ c.written = 0
  /\ c.smContext # "Enabled"

\* SendersCounted and why it stays: the stanza the other thread has written is
\* one of the session's and not kept yet, and a new stanza is a new one.
Books(c) ==
  /\ c.smSent + (IF c.written = 0 THEN 0 ELSE 1) = Len(c.accepted)
  /\ DOMAIN c.smQueue \subseteq 1..c.smSent
  /\ IsInjective(c.smQueue)
  /\ \A n \in DOMAIN c.smQueue :
       /\ c.smQueue[n] # c.written
       /\ \E i \in DOMAIN c.accepted : c.accepted[i] = c.smQueue[n]
  /\ \A i \in DOMAIN c.accepted : c.accepted[i] <= c.made
  /\ c.written # 0 =>
       \E i \in DOMAIN c.accepted : c.accepted[i] = c.written

\* Before the connection, and until onConnect() on it.
Untold ==
  /\ connects = 0 => /\ ~client.online /\ client.smContext = "Invalid"
                     /\ client.up = <<>> /\ server.down = <<>>
                     /\ ~server.attached /\ ~server.resumable
  /\ client.told => client.online
  /\ (connects = 0 \/ client.online) /\ ~client.told => Fresh(client)

\* One step of the negotiation is under way, and none when it is over.
OneStep ==
  /\ Lone(client.up, Requested) /\ Lone(server.down, Granted)
  /\ Free(client.up, Requested) \/ Free(server.down, Granted)
  /\ client.told \/ client.smContext = "Enabled" =>
       Free(client.up, Requested) /\ Free(server.down, Granted)

\* The server has opened the session, and maybe ended it.
Opened ==
  /\ server.attached \/ server.resumable \/ ~Free(server.down, {"close"}) =>
       Free(client.up, Requested) /\ Free(server.down, Offered)
  /\ ~Free(server.down, {"close"}) => ~server.attached /\ ~server.resumable

\* The books of an enabled session are right until the server has ended it.
Booked ==
  client.smContext = "Enabled" =>
    IF client.online THEN Books(client)
                     ELSE ~server.attached /\ ~server.resumable

SendersInv == SendersTypes /\ Untold /\ OneStep /\ Opened /\ Booked

-----------------------------------------------------------------------------
(* What the client's functions do to the books. *)

\* Fields that sending does not touch.
Aside(c, d) ==
  /\ d.online = c.online /\ d.wanted = c.wanted /\ d.smContext = c.smContext
  /\ d.told = c.told

\* The books.
Account(c, d) ==
  /\ d.smSent = c.smSent /\ d.smQueue = c.smQueue /\ d.written = c.written
  /\ d.accepted = c.accepted /\ d.made = c.made

\* What is written last, and changes no negotiation.
Appends(c, d, kinds) ==
  \/ d.up = c.up
  \/ c.online /\ \E e \in SendersUp : e[1] \in kinds /\ d.up = c.up \o <<e>>

\* Writing one element.
LEMMA WritesOne ==
  ASSUME NEW c \in SendersClient, NEW e \in SendersUp,
         NEW w, w = Write(c, <<e>>)
  PROVE  /\ w \in SendersClient /\ Aside(c, w) /\ Account(c, w)
         /\ w.up = IF c.online THEN c.up \o <<e>> ELSE c.up
PROOF
  <1>1. CASE ~c.online
    BY <1>1 DEF Write, Aside, Account
  <1>2. CASE c.online
    <2>0. c.up \in Seq(SendersUp)
      BY DEF SendersClient
    <2>1. PICK v \in Seq(SendersUp) : v = c.up \o <<e>>
      BY <2>0, Added
    <2>2. w = [c EXCEPT !.up = v]
      BY <1>2, <2>1 DEF Write
    <2>3. w \in SendersClient
      BY <2>2 DEF SendersClient
    <2>4. Aside(c, w) /\ Account(c, w) /\ w.up = v
      BY <2>2 DEF SendersClient, Aside, Account
    <2> QED BY <1>2, <2>1, <2>3, <2>4
  <1> QED BY <1>1, <1>2

\* A stanza more among the accepted, and those that were.
LEMMA OneAccepted ==
  ASSUME NEW a \in Seq(1..MaxStanzas), NEW st \in 1..MaxStanzas,
         NEW b, b = Append(a, st)
  PROVE  /\ b \in Seq(1..MaxStanzas) /\ Len(b) = Len(a) + 1 /\ Len(a) \in Nat
         /\ DOMAIN a = 1..Len(a)
         /\ \A i \in DOMAIN a : i \in DOMAIN b /\ b[i] = a[i]
         /\ Len(a) + 1 \in DOMAIN b /\ b[Len(a) + 1] = st
         /\ \A i \in DOMAIN b : i \in DOMAIN a \/ i = Len(a) + 1
  OBVIOUS

\* The stanzas of a session are named by numbers.
LEMMA NamesAreNumbers ==
  ASSUME NEW a \in Seq(1..MaxStanzas)
  PROVE  \A i \in DOMAIN a : a[i] \in Nat \ {0}
PROOF
  <1>1. \A i \in 1..Len(a) : a[i] \in 1..MaxStanzas
    BY ElementOfSeq
  <1>2. DOMAIN a = 1..Len(a)
    OBVIOUS
  <1> QED BY <1>1, <1>2, ConstantsAssumption

\* One number more in the queue.
KeptIn(q, k, st, r) ==
  /\ r \in Queues /\ DOMAIN r = DOMAIN q \cup {k}
  /\ \A m \in DOMAIN q : r[m] = q[m]
  /\ k \notin DOMAIN q => r[k] = st

\* insert() adds it, if it is new.
LEMMA OneKept ==
  ASSUME NEW q \in Queues, NEW k \in Nat, NEW st \in Nat,
         NEW r, r = Inserted(q, k, st)
  PROVE  KeptIn(q, k, st, r)
PROOF
  <1>1. PICK N \in SUBSET Nat : q \in [N -> Nat]
    BY DEF Queues
  <1>2. r = [m \in N \cup {k} |-> IF m \in N THEN q[m] ELSE st]
    BY <1>1 DEF Inserted
  <1>3. r \in [N \cup {k} -> Nat]
    BY <1>1, <1>2
  <1>4. N \cup {k} \in SUBSET Nat
    BY <1>1
  <1>5. r \in Queues
    BY <1>3, <1>4 DEF Queues
  <1> QED BY <1>1, <1>2, <1>5 DEF KeptIn

\* The first half of send(): the stanza is the session's, and out of the queue
\* until the second half.
LEMMA WritesStanza ==
  ASSUME NEW c \in SendersClient, c.made + 1 <= MaxStanzas,
         NEW x, x = WriteStanza(c)
  PROVE  /\ x \in SendersClient /\ Aside(c, x)
         /\ Appends(c, x, {"stanza"}) /\ x.made = c.made + 1
         /\ x.smSent = c.smSent /\ x.smQueue = c.smQueue
         /\ x.written = c.written
         /\ x.accepted = IF c.smContext \in Managed
                         THEN Append(c.accepted, x.made) ELSE c.accepted
PROOF
  <1>1. PICK st : st = c.made + 1
    OBVIOUS
  <1>2. st \in 1..MaxStanzas /\ st \in 0..MaxStanzas
    BY <1>1, ConstantsAssumption DEF SendersClient
  <1>3. PICK m : m = [c EXCEPT !.made = st]
    OBVIOUS
  <1>4. m \in SendersClient /\ Aside(c, m) /\ m.made = st /\ m.up = c.up
        /\ m.smSent = c.smSent /\ m.smQueue = c.smQueue
        /\ m.written = c.written /\ m.accepted = c.accepted
    BY <1>2, <1>3 DEF SendersClient, Aside
  <1>5. <<"stanza", st>> \in SendersUp
    BY <1>2 DEF SendersUp
  <1>6. PICK w : w = Write(m, << <<"stanza", st>> >>)
    OBVIOUS
  <1>7. /\ w \in SendersClient /\ Aside(m, w) /\ Account(m, w)
        /\ w.up = IF m.online THEN m.up \o << <<"stanza", st>> >> ELSE m.up
    BY <1>4, <1>5, <1>6, WritesOne
  <1>8. x = IF c.smContext \in Managed
            THEN [w EXCEPT !.accepted = Append(w.accepted, st)] ELSE w
    BY <1>1, <1>3, <1>6 DEF WriteStanza
  <1>9. Appends(c, w, {"stanza"})
    BY <1>4, <1>5, <1>7 DEF Appends, Aside
  <1>10. CASE c.smContext \notin Managed
    BY <1>1, <1>4, <1>7, <1>8, <1>9, <1>10 DEF Aside, Account
  <1>11. CASE c.smContext \in Managed
    <2>1. PICK b : b = Append(w.accepted, st)
      OBVIOUS
    <2>2. b \in Seq(1..MaxStanzas)
      BY <1>2, <1>7, <2>1 DEF SendersClient
    <2>3. x = [w EXCEPT !.accepted = b]
      BY <1>8, <1>11, <2>1
    <2>4. x \in SendersClient
      BY <1>7, <2>2, <2>3 DEF SendersClient
    <2>5. Aside(w, x) /\ x.up = w.up /\ x.made = w.made /\ x.accepted = b
          /\ x.smSent = w.smSent /\ x.smQueue = w.smQueue
          /\ x.written = w.written
      BY <1>7, <2>3 DEF SendersClient, Aside
    <2> QED BY ZenonT(60), <1>1, <1>4, <1>7, <1>9, <1>11, <2>1, <2>4, <2>5
            DEF Aside, Account, Appends
  <1> QED BY <1>10, <1>11

\* The second half.
LEMMA Keeps ==
  ASSUME NEW c \in SendersClient, NEW st \in 1..MaxStanzas, NEW d, d = Keep(c, st)
  PROVE  /\ d \in SendersClient /\ Aside(c, d) /\ d.up = c.up
         /\ d.made = c.made /\ d.accepted = c.accepted
         /\ d.written = c.written
         /\ c.smContext \notin Managed => d = c
         /\ c.smContext \in Managed =>
              /\ d.smSent = c.smSent + 1
              /\ DOMAIN d.smQueue = DOMAIN c.smQueue \cup {c.smSent + 1}
              /\ \A n \in DOMAIN c.smQueue : d.smQueue[n] = c.smQueue[n]
              /\ c.smSent + 1 \notin DOMAIN c.smQueue =>
                   d.smQueue[c.smSent + 1] = st
PROOF
  <1>1. CASE c.smContext \notin Managed
    BY <1>1 DEF Keep, Aside
  <1>2. CASE c.smContext \in Managed
    <2>1. PICK n \in Nat : n = c.smSent + 1
      BY DEF SendersClient
    <2>2. c.smQueue \in Queues /\ st \in Nat
      BY ConstantsAssumption DEF SendersClient
    <2>3. PICK q, r : q = c.smQueue /\ r = Inserted(q, n, st)
      OBVIOUS
    <2>4. /\ r \in Queues /\ DOMAIN r = DOMAIN c.smQueue \cup {n}
          /\ \A m \in DOMAIN c.smQueue : r[m] = c.smQueue[m]
          /\ n \notin DOMAIN c.smQueue => r[n] = st
      <3>1. q \in Queues /\ st \in Nat
        BY <2>2, <2>3
      <3>2. KeptIn(q, n, st, r)
        BY <2>3, <3>1, OneKept
      <3> QED BY <2>3, <3>2 DEF KeptIn
    <2>5. d = [c EXCEPT !.smSent = n, !.smQueue = r]
      BY <1>2, <2>1, <2>3 DEF Keep
    <2>6. d \in SendersClient
      BY <2>4, <2>5 DEF SendersClient
    <2>7. Aside(c, d) /\ d.up = c.up /\ d.made = c.made
          /\ d.accepted = c.accepted /\ d.written = c.written
          /\ d.smSent = n /\ d.smQueue = r
      BY <2>5 DEF SendersClient, Aside
    <2> QED BY <1>2, <2>1, <2>4, <2>6, <2>7
  <1> QED BY <1>1, <1>2

\* Both halves at once, by the client's own thread, while the other thread may
\* be between them.
LEMMA SendsOne ==
  ASSUME NEW c \in SendersClient, c.made + 1 <= MaxStanzas,
         NEW d, d = SendStanza(c)
  PROVE  /\ d \in SendersClient /\ Aside(c, d)
         /\ Appends(c, d, {"stanza"}) /\ d.made = c.made + 1
         /\ d.written = c.written
         /\ c.smContext = "Enabled" /\ Books(c) => Books(d)
         /\ c.smContext # "Enabled" =>
              d.smSent = c.smSent /\ d.smQueue = c.smQueue
PROOF
  <1>1. PICK x : x = WriteStanza(c)
    OBVIOUS
  <1>2. /\ x \in SendersClient /\ Aside(c, x)
        /\ Appends(c, x, {"stanza"}) /\ x.made = c.made + 1
        /\ x.smSent = c.smSent /\ x.smQueue = c.smQueue
        /\ x.written = c.written
        /\ x.accepted = IF c.smContext \in Managed
                        THEN Append(c.accepted, x.made) ELSE c.accepted
    BY <1>1, WritesStanza
  <1>3. x.made \in 1..MaxStanzas
    BY SMTT(30), <1>2, ConstantsAssumption DEF SendersClient
  <1>4. c.smContext \in Managed <=> c.smContext = "Enabled"
    BY DEF SendersClient, Managed
  <1>5. d = Keep(x, x.made)
    BY <1>1 DEF SendStanza
  <1>7. /\ d \in SendersClient /\ Aside(x, d) /\ d.up = x.up
        /\ d.made = x.made /\ d.accepted = x.accepted
        /\ d.written = x.written
        /\ x.smContext \notin Managed => d = x
        /\ x.smContext \in Managed =>
             /\ d.smSent = x.smSent + 1
             /\ DOMAIN d.smQueue = DOMAIN x.smQueue \cup {x.smSent + 1}
             /\ \A n \in DOMAIN x.smQueue : d.smQueue[n] = x.smQueue[n]
             /\ x.smSent + 1 \notin DOMAIN x.smQueue =>
                  d.smQueue[x.smSent + 1] = x.made
    BY <1>2, <1>3, <1>5, Keeps
  <1>8. /\ d \in SendersClient /\ Aside(c, d) /\ Appends(c, d, {"stanza"})
        /\ d.made = c.made + 1 /\ d.written = c.written
    BY <1>2, <1>7 DEF Aside, Appends
  <1>9. ASSUME c.smContext = "Enabled", Books(c) PROVE Books(d)
    <2>1. /\ c.accepted \in Seq(1..MaxStanzas) /\ c.smSent \in Nat
          /\ c.written \in Nat /\ c.made \in Nat
      BY ConstantsAssumption DEF SendersClient
    <2>2. /\ Len(d.accepted) = Len(c.accepted) + 1 /\ Len(c.accepted) \in Nat
          /\ DOMAIN c.accepted = 1..Len(c.accepted)
          /\ \A i \in DOMAIN c.accepted :
               i \in DOMAIN d.accepted /\ d.accepted[i] = c.accepted[i]
          /\ Len(c.accepted) + 1 \in DOMAIN d.accepted
          /\ d.accepted[Len(c.accepted) + 1] = d.made
          /\ \A i \in DOMAIN d.accepted :
               i \in DOMAIN c.accepted \/ i = Len(c.accepted) + 1
      BY <1>2, <1>3, <1>4, <1>7, <1>9, <2>1, OneAccepted
    <2>3. /\ d.smSent = c.smSent + 1
          /\ DOMAIN d.smQueue = DOMAIN c.smQueue \cup {c.smSent + 1}
          /\ \A n \in DOMAIN c.smQueue : d.smQueue[n] = c.smQueue[n]
          /\ d.smQueue[c.smSent + 1] = d.made
      <3>1. c.smSent + 1 \notin DOMAIN c.smQueue
        BY <1>9, <2>1 DEF Books
      <3> QED BY <1>2, <1>4, <1>7, <1>9, <3>1 DEF Aside
    <2>4. Books(c)
      BY <1>9
    <2>5. \A n \in DOMAIN c.smQueue : c.smQueue[n] <= c.made
      BY <2>4 DEF Books
    <2>6. c.written <= c.made
      BY <2>1, <2>4 DEF Books
    <2>7. DOMAIN d.smQueue \subseteq 1..d.smSent
      BY <2>1, <2>3, <2>4 DEF Books
    <2>8. IsInjective(d.smQueue)
      <3>1. \A n \in DOMAIN c.smQueue :
              d.smQueue[n] # d.smQueue[c.smSent + 1]
        BY <1>8, <2>1, <2>3, <2>5
      <3>2. \A n, m \in DOMAIN c.smQueue :
              c.smQueue[n] = c.smQueue[m] => n = m
        BY <2>4 DEF Books, IsInjective
      <3> QED BY <2>3, <3>1, <3>2 DEF IsInjective
    <2>9. \A n \in DOMAIN d.smQueue :
            /\ d.smQueue[n] # d.written
            /\ \E i \in DOMAIN d.accepted : d.accepted[i] = d.smQueue[n]
      <3> SUFFICES ASSUME NEW n \in DOMAIN d.smQueue
                   PROVE  /\ d.smQueue[n] # d.written
                          /\ \E i \in DOMAIN d.accepted :
                               d.accepted[i] = d.smQueue[n]
        OBVIOUS
      <3>1. CASE n \in DOMAIN c.smQueue
        BY <1>8, <2>2, <2>3, <2>4, <3>1 DEF Books
      <3>2. CASE n = c.smSent + 1
        BY <1>8, <2>1, <2>2, <2>3, <2>6, <3>2
      <3> QED BY <2>3, <3>1, <3>2
    <2>10. \A i \in DOMAIN d.accepted : d.accepted[i] <= d.made
      <3>1. \A i \in DOMAIN c.accepted :
              c.accepted[i] \in Nat /\ c.accepted[i] <= c.made
        BY <2>1, <2>4, NamesAreNumbers DEF Books
      <3>2. \A i \in DOMAIN c.accepted : c.accepted[i] <= d.made
        BY <1>8, <2>1, <3>1
      <3>3. \A i \in DOMAIN d.accepted :
              d.accepted[i] = d.made \/ (i \in DOMAIN c.accepted
                                          /\ d.accepted[i] = c.accepted[i])
        BY <2>2
      <3> QED BY <1>8, <2>1, <3>2, <3>3
    <2>11. d.written # 0 =>
             \E i \in DOMAIN d.accepted : d.accepted[i] = d.written
      BY <1>8, <2>2, <2>4 DEF Books
    <2>12. d.smSent + (IF d.written = 0 THEN 0 ELSE 1) = Len(d.accepted)
      BY <1>8, <2>1, <2>2, <2>3, <2>4 DEF Books
    <2> QED BY <2>7, <2>8, <2>9, <2>10, <2>11, <2>12 DEF Books
  <1>10. c.smContext # "Enabled" =>
           d.smSent = c.smSent /\ d.smQueue = c.smQueue
    BY <1>2, <1>4, <1>7 DEF Aside
  <1> QED BY <1>8, <1>9, <1>10

-----------------------------------------------------------------------------
(* What is on its way. *)

\* The kinds of what travels.
LEMMA SendersKinds ==
  /\ \A e \in SendersUp :
       e[1] \in {"bind", "enable", "r", "close", "stanza", "a"}
  /\ \A e \in SendersDown :
       e[1] \in {"features", "bound", "r", "close", "stanza", "a", "enabled"}
  BY DEF SendersUp, SendersDown

\* No token is put in one direction, where none is taken or one may be.
UpQuiet ==
  /\ Free(client.up, Requested) => Free(client'.up, Requested)
  /\ Lone(client.up, Requested) => Lone(client'.up, Requested)

DownQuiet ==
  /\ Free(server.down, Granted) => Free(server'.down, Granted)
  /\ Lone(server.down, Granted) => Lone(server'.down, Granted)
  /\ Free(server.down, Offered) => Free(server'.down, Offered)
  /\ Free(server.down, {"close"}) => Free(server'.down, {"close"})

\* The server takes an element.
LEMMA SendersTook ==
  ASSUME SendersTypes, NEW kind, Took(kind)
  PROVE  /\ client' \in SendersClient /\ Aside(client, client')
         /\ Account(client, client') /\ UpQuiet /\ connects' = connects
         /\ kind \in Requested =>
              /\ ~Free(client.up, Requested)
              /\ Lone(client.up, Requested) => Free(client'.up, Requested)
         /\ kind \in {"bind", "enable", "r", "close", "stanza", "a"}
         /\ Head(client.up) \in SendersUp /\ Head(client.up)[1] = kind
         /\ client.up # <<>>
PROOF
  <1>1. client \in SendersClient /\ client.up \in Seq(SendersUp)
        /\ client.up # <<>> /\ Head(client.up)[1] = kind /\ connects' = connects
    BY DEF SendersTypes, SendersClient, Took
  <1>2. PICK u \in Seq(SendersUp) : u = Tail(client.up)
    BY <1>1, Removed
  <1>3. client' = [client EXCEPT !.up = u]
    BY <1>2 DEF Took
  <1>4. client' \in SendersClient /\ client'.up = u
        /\ Aside(client, client') /\ Account(client, client')
    BY <1>1, <1>3 DEF SendersClient, Aside, Account
  <1>5. UpQuiet /\ (kind \in Requested /\ Lone(client.up, Requested) =>
                      Free(client'.up, Requested))
    BY <1>1, <1>2, <1>4, FreeTail DEF UpQuiet
  <1>6. 1 \in DOMAIN client.up /\ Head(client.up) = client.up[1]
        /\ Head(client.up) \in SendersUp
    BY <1>1, Removed
  <1>7. kind \in Requested => ~Free(client.up, Requested)
    BY <1>1, <1>6 DEF Free
  <1> QED BY <1>1, <1>4, <1>5, <1>6, <1>7, SendersKinds

\* The server does nothing but write an element or read one.
ServerAside ==
  server'.attached = server.attached /\ server'.resumable = server.resumable

\* The client reads an element.
LEMMA SendersRead ==
  ASSUME SendersTypes, NEW kind, Reads(kind)
  PROVE  /\ server' \in SendersServer /\ ServerAside /\ DownQuiet
         /\ connects' = connects /\ client.online
         /\ kind \in Granted =>
              /\ ~Free(server.down, Granted)
              /\ Lone(server.down, Granted) => Free(server'.down, Granted)
         /\ kind \in Offered => ~Free(server.down, Offered)
         /\ kind = "close" => ~Free(server.down, {"close"})
         /\ kind \in {"features", "bound", "r", "close", "stanza", "a", "enabled"}
         /\ Head(server.down) \in SendersDown /\ Head(server.down)[1] = kind
PROOF
  <1>1. server \in SendersServer /\ server.down \in Seq(SendersDown)
        /\ server.down # <<>> /\ Head(server.down)[1] = kind
        /\ connects' = connects /\ client.online
    BY DEF SendersTypes, SendersServer, Reads
  <1>2. PICK u \in Seq(SendersDown) : u = Tail(server.down)
    BY <1>1, Removed
  <1>3. server' = [server EXCEPT !.down = u]
    BY <1>2 DEF Reads
  <1>4. server' \in SendersServer /\ server'.down = u /\ ServerAside
    BY <1>1, <1>3 DEF SendersServer, ServerAside
  <1>5. DownQuiet /\ (kind \in Granted /\ Lone(server.down, Granted) =>
                        Free(server'.down, Granted))
    BY <1>1, <1>2, <1>4, FreeTail DEF DownQuiet
  <1>6. 1 \in DOMAIN server.down /\ Head(server.down) = server.down[1]
        /\ Head(server.down) \in SendersDown
    BY <1>1, Removed
  <1>7. /\ kind \in Granted => ~Free(server.down, Granted)
        /\ kind \in Offered => ~Free(server.down, Offered)
        /\ kind = "close" => ~Free(server.down, {"close"})
    BY <1>1, <1>6 DEF Free
  <1> QED BY <1>1, <1>4, <1>5, <1>6, <1>7, SendersKinds

\* What the server writes.
Answers(s, e, r) == r = [s EXCEPT !.down = @ \o <<e>>]

\* The server writes an element.
LEMMA SendersAnswer ==
  ASSUME NEW s \in SendersServer, NEW e \in SendersDown, NEW r, Answers(s, e, r)
  PROVE  /\ r \in SendersServer /\ r.down = s.down \o <<e>>
         /\ r.attached = s.attached /\ r.resumable = s.resumable
         /\ r.session = s.session /\ r.got = s.got /\ r.out = s.out
         /\ e[1] \notin Granted =>
              /\ Free(s.down, Granted) => Free(r.down, Granted)
              /\ Lone(s.down, Granted) => Lone(r.down, Granted)
         /\ e[1] \notin Offered =>
              (Free(s.down, Offered) => Free(r.down, Offered))
         /\ e[1] # "close" =>
              (Free(s.down, {"close"}) => Free(r.down, {"close"}))
         /\ Free(s.down, Granted) => Lone(r.down, Granted)
PROOF
  <1>1. s.down \in Seq(SendersDown)
    BY DEF SendersServer
  <1>2. PICK u \in Seq(SendersDown) : u = s.down \o <<e>>
    BY <1>1, Added
  <1>3. r = [s EXCEPT !.down = u]
    BY <1>2 DEF Answers
  <1>4. r \in SendersServer /\ r.down = u /\ r.attached = s.attached
        /\ r.resumable = s.resumable /\ r.session = s.session
        /\ r.got = s.got /\ r.out = s.out
    BY <1>3 DEF SendersServer
  <1>5. /\ e[1] \notin Granted =>
              /\ Free(s.down, Granted) => Free(u, Granted)
              /\ Lone(s.down, Granted) => Lone(u, Granted)
        /\ e[1] \notin Offered =>
              (Free(s.down, Offered) => Free(u, Offered))
        /\ e[1] # "close" =>
              (Free(s.down, {"close"}) => Free(u, {"close"}))
        /\ Free(s.down, Granted) => Lone(u, Granted)
    BY <1>1, <1>2, FreeAdded
  <1>6. /\ e[1] \notin Granted =>
              /\ Free(s.down, Granted) => Free(r.down, Granted)
              /\ Lone(s.down, Granted) => Lone(r.down, Granted)
        /\ e[1] \notin Offered =>
              (Free(s.down, Offered) => Free(r.down, Offered))
        /\ e[1] # "close" =>
              (Free(s.down, {"close"}) => Free(r.down, {"close"}))
        /\ Free(s.down, Granted) => Lone(r.down, Granted)
    BY <1>4, <1>5
  <1>7. r.down = s.down \o <<e>>
    BY <1>2, <1>4
  <1> QED BY <1>4, <1>6, <1>7

\* What the client writes last.
LEMMA AppendsQuiet ==
  ASSUME NEW c \in SendersClient, NEW d, NEW kinds, Appends(c, d, kinds),
         kinds \cap Requested = {}
  PROVE  /\ Free(c.up, Requested) => Free(d.up, Requested)
         /\ Lone(c.up, Requested) => Lone(d.up, Requested)
PROOF
  <1>1. c.up \in Seq(SendersUp)
    BY DEF SendersClient
  <1>2. CASE d.up = c.up
    BY <1>2
  <1>3. CASE d.up # c.up
    <2>1. PICK e \in SendersUp : e[1] \in kinds /\ d.up = c.up \o <<e>>
      BY <1>3 DEF Appends
    <2> QED BY <1>1, <2>1, FreeAdded
  <1> QED BY <1>2, <1>3

-----------------------------------------------------------------------------
(* The steps that open no session and send no stanza. *)

\* Nothing happens to the session or to its books.
LEMMA QuietKeeps ==
  ASSUME SendersInv, client' \in SendersClient, server' \in SendersServer,
         connects' = connects, client'.online = client.online,
         client'.told = client.told, client'.smContext = client.smContext,
         Account(client, client'), ServerAside, UpQuiet, DownQuiet,
         connects # 0
  PROVE  SendersInv'
PROOF
  <1>1. SendersTypes' /\ Untold'
    BY DEF SendersInv, SendersTypes, Untold, Fresh, Account
  <1>2. OneStep' /\ Opened'
    BY DEF SendersInv, OneStep, Opened, UpQuiet, DownQuiet, ServerAside
  <1>3. Booked'
    BY DEF SendersInv, Booked, Books, Account, ServerAside
  <1> QED BY <1>1, <1>2, <1>3 DEF SendersInv

\* Without a connection yet, nothing travels and no session is open.
LEMMA NothingYet ==
  ASSUME SendersInv
  PROVE  connects = 0 => /\ ~client.online /\ client.up = <<>>
                         /\ server.down = <<>> /\ ~server.attached
                         /\ ~server.resumable /\ ~client.told
                         /\ client.smContext = "Invalid" /\ Fresh(client)
  BY DEF SendersInv, Untold

\* The server takes what negotiates nothing.
LEMMA TakesOther ==
  ASSUME SendersInv, NEW kind, Took(kind), server' \in SendersServer,
         ServerAside, DownQuiet
  PROVE  SendersInv'
PROOF
  <1>1. SendersTypes /\ connects # 0
    BY SendersTook, NothingYet DEF SendersInv
  <1> QED BY <1>1, SendersTook, QuietKeeps DEF Aside

\* Taking what needs no answer.
LEMMA SendersHears ==
  ASSUME SendersInv, ServerHears
  PROVE  SendersInv'
PROOF
  <1>1. server \in SendersServer /\ ServerAside /\ DownQuiet
    BY DEF SendersInv, SendersTypes, ServerHears, ServerAside, DownQuiet
  <1>2. server' = server /\ Took("a")
    BY DEF ServerHears
  <1> QED BY <1>1, <1>2, TakesOther

\* A stanza is the server's if it has the session.
LEMMA SendersTakes ==
  ASSUME SendersInv, ServerTakes
  PROVE  SendersInv'
PROOF
  <1>1. Took("stanza") /\ server \in SendersServer /\ SendersTypes
    BY DEF SendersInv, SendersTypes, ServerTakes
  <1>2. Head(client.up) \in SendersUp /\ Head(client.up)[1] = "stanza"
    BY <1>1, SendersTook
  <1>3. Head(client.up)[2] \in 1..MaxStanzas
    BY <1>2 DEF SendersUp
  <1>4. server.got \in Seq(1..MaxStanzas)
    BY <1>1 DEF SendersServer
  <1>5. PICK st \in 1..MaxStanzas : st = Head(client.up)[2]
    BY <1>3
  <1>6. PICK g : g = Append(server.got, st)
    OBVIOUS
  <1>7. server' = [server EXCEPT !.got = g] \/ server' = server
    BY <1>6, <1>5 DEF ServerTakes
  <1>8. g \in Seq(1..MaxStanzas)
    BY <1>4, <1>6, OneAccepted
  <1>9. server' \in SendersServer /\ ServerAside /\ DownQuiet
    BY <1>1, <1>7, <1>8 DEF SendersServer, ServerAside, DownQuiet
  <1> QED BY <1>1, <1>9, TakesOther

\* A request is answered with the number of stanzas taken.
LEMMA SendersAcks ==
  ASSUME SendersInv, ServerAcks
  PROVE  SendersInv'
PROOF
  <1>1. Took("r") /\ server \in SendersServer
    BY DEF SendersInv, SendersTypes, ServerAcks
  <1>2. CASE server' = server
    <2>1. server' \in SendersServer /\ ServerAside /\ DownQuiet
      BY <1>1, <1>2 DEF ServerAside, DownQuiet
    <2> QED BY <1>1, <2>1, TakesOther
  <1>3. CASE server' # server
    <2>1. PICK e : e = <<"a", Len(server.got)>>
      OBVIOUS
    <2>2. Len(server.got) \in Nat
      BY <1>1 DEF SendersServer
    <2>3. e \in SendersDown /\ e[1] = "a"
      BY <2>1, <2>2 DEF SendersDown
    <2>4. Answers(server, e, server')
      BY <1>3, <2>1 DEF ServerAcks, Answer, Answers
    <2>5. /\ server' \in SendersServer /\ ServerAside /\ DownQuiet
      BY <1>1, <2>3, <2>4, SendersAnswer
         DEF ServerAside, DownQuiet, Granted, Offered
    <2> QED BY <1>1, <2>5, TakesOther
  <1> QED BY <1>2, <1>3

\* A session that is gone leaves the books as they are.
LEMMA EndedKeeps ==
  ASSUME SendersInv, client' \in SendersClient, server' \in SendersServer,
         connects' = connects, client'.online = client.online,
         client'.told = client.told, client'.smContext = client.smContext,
         Account(client, client'), UpQuiet,
         server'.attached => server.attached,
         server'.resumable => server.resumable,
         DownQuiet, connects # 0
  PROVE  SendersInv'
PROOF
  <1>1. SendersTypes' /\ Untold'
    BY DEF SendersInv, SendersTypes, Untold, Fresh, Account
  <1>2. OneStep' /\ Opened'
    BY DEF SendersInv, OneStep, Opened, UpQuiet, DownQuiet
  <1>3. Booked'
    BY DEF SendersInv, Booked, Books, Account
  <1> QED BY <1>1, <1>2, <1>3 DEF SendersInv

\* The client has ended the stream.
LEMMA SendersHearsClose ==
  ASSUME SendersInv, ServerHearsClose
  PROVE  SendersInv'
PROOF
  <1>1. Took("close") /\ server \in SendersServer /\ SendersTypes
    BY DEF SendersInv, SendersTypes, ServerHearsClose
  <1>2. connects # 0
    BY <1>1, SendersTook, NothingYet
  <1>3. server' = [server EXCEPT !.resumable = FALSE, !.attached = FALSE]
    BY DEF ServerHearsClose
  <1>4. server' \in SendersServer /\ DownQuiet /\ ~server'.attached
        /\ ~server'.resumable
    BY <1>1, <1>3 DEF SendersServer, DownQuiet
  <1> QED BY <1>1, <1>2, <1>4, SendersTook, EndedKeeps DEF Aside

\* The server forgets a session that lost its connection.
LEMMA SendersGivesUp ==
  ASSUME SendersInv, ServerGivesUp
  PROVE  SendersInv'
PROOF
  <1>1. /\ server \in SendersServer /\ client \in SendersClient
        /\ server.resumable /\ UNCHANGED <<client, connects>>
        /\ server' = [server EXCEPT !.resumable = FALSE]
    BY DEF SendersInv, SendersTypes, ServerGivesUp
  <1>2. connects # 0
    BY <1>1, NothingYet
  <1>3. server' \in SendersServer /\ DownQuiet /\ ~server'.resumable
        /\ server'.attached = server.attached
    BY <1>1 DEF SendersServer, DownQuiet
  <1>4. Account(client, client') /\ UpQuiet
    BY <1>1 DEF Account, UpQuiet
  <1> QED BY <1>1, <1>2, <1>3, <1>4, EndedKeeps

\* What the server writes on its own.
LEMMA ServerWrites ==
  ASSUME SendersInv, UNCHANGED <<client, connects>>,
         NEW s \in SendersServer, NEW e \in SendersDown,
         e[1] \notin Granted \cup {"close"},
         s.attached = server.attached, s.resumable = server.resumable,
         s.down = server.down, connects # 0,
         Answers(s, e, server')
  PROVE  SendersInv'
PROOF
  <1>1. server' \in SendersServer /\ ServerAside /\ DownQuiet
    BY ZenonT(60), SendersAnswer DEF ServerAside, DownQuiet, Granted
  <1>2. Account(client, client') /\ UpQuiet /\ client' \in SendersClient
    BY DEF Account, UpQuiet, SendersInv, SendersTypes
  <1> QED BY <1>1, <1>2, QuietKeeps

\* The server sends a stanza of the session.
LEMMA SendersServerSends ==
  ASSUME SendersInv, ServerSends
  PROVE  SendersInv'
PROOF
  <1>1. /\ server \in SendersServer /\ server.attached /\ server.out \in Nat
        /\ UNCHANGED <<client, connects>> /\ connects # 0
    BY NothingYet DEF SendersInv, SendersTypes, ServerSends, SendersServer
  <1>2. PICK n \in Nat : n = server.out + 1
    BY <1>1
  <1>3. PICK s : s = [server EXCEPT !.out = n]
    OBVIOUS
  <1>4. PICK e : e = <<"stanza", n>>
    OBVIOUS
  <1>5. e \in SendersDown /\ e[1] = "stanza"
    BY <1>4 DEF SendersDown
  <1>6. s \in SendersServer /\ s.attached = server.attached
        /\ s.resumable = server.resumable /\ s.down = server.down
    BY <1>1, <1>3 DEF SendersServer
  <1>7. Answers(s, e, server')
    <2>1. PICK u : u = server.down \o <<e>>
      OBVIOUS
    <2>2. server' = [[server EXCEPT !.down = u] EXCEPT !.out = n]
      BY <1>1, <1>2, <1>4, <2>1 DEF ServerSends, Answer, SendersServer
    <2>3. server' = [s EXCEPT !.down = u]
      BY <1>1, <1>3, <2>2 DEF SendersServer
    <2> QED BY <1>6, <2>1, <2>3 DEF Answers
  <1> QED BY <1>1, <1>5, <1>6, <1>7, ServerWrites DEF Granted, Offered

\* The server sends one before it has opened the session.
LEMMA SendersEarly ==
  ASSUME SendersInv, ServerSendsEarly
  PROVE  SendersInv'
PROOF
  <1>1. /\ server \in SendersServer /\ client.smContext = "Enable"
        /\ UNCHANGED <<client, connects>> /\ connects # 0
    BY NothingYet DEF SendersInv, SendersTypes, ServerSendsEarly
  <1>2. PICK e : e = <<"stanza", 0>>
    OBVIOUS
  <1>3. e \in SendersDown /\ e[1] = "stanza"
    BY <1>2 DEF SendersDown
  <1>4. Answers(server, e, server')
    BY <1>2 DEF ServerSendsEarly, Answer, Answers
  <1> QED BY <1>1, <1>3, <1>4, ServerWrites DEF Granted, Offered

\* The server asks for an acknowledgement.
LEMMA SendersRequests ==
  ASSUME SendersInv, ServerRequests
  PROVE  SendersInv'
PROOF
  <1>1. /\ server \in SendersServer /\ server.attached
        /\ UNCHANGED <<client, connects>> /\ connects # 0
    BY NothingYet DEF SendersInv, SendersTypes, ServerRequests
  <1>2. PICK e : e = <<"r">>
    OBVIOUS
  <1>3. e \in SendersDown /\ e[1] = "r"
    BY <1>2 DEF SendersDown
  <1>4. Answers(server, e, server')
    BY <1>2 DEF ServerRequests, Answer, Answers
  <1> QED BY <1>1, <1>3, <1>4, ServerWrites DEF Granted, Offered

\* The server ends the stream of a session it has.
LEMMA SendersEnds ==
  ASSUME SendersInv, ServerEnds
  PROVE  SendersInv'
PROOF
  <1>1. /\ server \in SendersServer /\ server.attached
        /\ UNCHANGED <<client, connects>> /\ connects # 0
    BY NothingYet DEF SendersInv, SendersTypes, ServerEnds
  <1>2. PICK e : e = <<"close">>
    OBVIOUS
  <1>3. e \in SendersDown /\ e[1] = "close"
    BY <1>2 DEF SendersDown
  <1>4. PICK r : Answers(server, e, r)
    BY DEF Answers
  <1>5. server' = [r EXCEPT !.resumable = FALSE, !.attached = FALSE]
    BY <1>2, <1>4 DEF ServerEnds, Answer, Answers
  <1>6. /\ r \in SendersServer
        /\ Lone(server.down, Granted) => Lone(r.down, Granted)
        /\ Free(server.down, Granted) => Free(r.down, Granted)
        /\ Free(server.down, Offered) => Free(r.down, Offered)
    BY <1>1, <1>3, <1>4, SendersAnswer DEF Granted, Offered
  <1>7. server' \in SendersServer /\ server'.down = r.down
        /\ ~server'.attached /\ ~server'.resumable
    BY <1>5, <1>6 DEF SendersServer
  <1>8. SendersTypes' /\ Untold'
    BY <1>1, <1>7 DEF SendersInv, SendersTypes, Untold, Fresh
  <1>9. OneStep' /\ Opened'
    BY <1>1, <1>6, <1>7 DEF SendersInv, OneStep, Opened
  <1>10. Booked'
    BY <1>1, <1>7 DEF SendersInv, Booked
  <1> QED BY <1>8, <1>9, <1>10 DEF SendersInv

-----------------------------------------------------------------------------
(* The negotiation. *)

\* A token that is taken was the only one: the session is not open yet.
LEMMA RequestTaken ==
  ASSUME SendersInv, NEW kind, Took(kind), kind \in Requested
  PROVE  /\ ~client.told /\ client.smContext # "Enabled" /\ ~server.attached
         /\ ~server.resumable /\ Free(server.down, {"close"})
         /\ Free(server.down, Granted) /\ Free(client'.up, Requested)
         /\ connects # 0
         /\ client' \in SendersClient /\ Aside(client, client')
         /\ Account(client, client') /\ connects' = connects
PROOF
  <1>1. /\ client' \in SendersClient /\ Aside(client, client')
        /\ Account(client, client') /\ connects' = connects
        /\ ~Free(client.up, Requested)
        /\ Lone(client.up, Requested) => Free(client'.up, Requested)
        /\ client.up # <<>>
    BY SendersTook DEF SendersInv
  <1>2. connects # 0
    BY <1>1, NothingYet
  <1> QED BY <1>1, <1>2 DEF SendersInv, OneStep, Opened

\* The resource is bound.
LEMMA SendersBinds ==
  ASSUME SendersInv, ServerBinds
  PROVE  SendersInv'
PROOF
  <1>1. Took("bind") /\ "bind" \in Requested /\ server \in SendersServer
    BY DEF SendersInv, SendersTypes, ServerBinds, Requested
  <1>2. /\ ~client.told /\ client.smContext # "Enabled" /\ ~server.attached
        /\ ~server.resumable /\ Free(server.down, {"close"})
        /\ Free(server.down, Granted) /\ Free(client'.up, Requested)
        /\ connects # 0
        /\ client' \in SendersClient /\ Aside(client, client')
        /\ Account(client, client') /\ connects' = connects
    BY <1>1, RequestTaken
  <1>3. PICK e : e = <<"bound">>
    OBVIOUS
  <1>4. e \in SendersDown /\ e[1] = "bound"
    BY <1>3 DEF SendersDown
  <1>5. Answers(server, e, server')
    BY <1>3 DEF ServerBinds, Answer, Answers
  <1>6. /\ server' \in SendersServer /\ Lone(server'.down, Granted)
        /\ Free(server'.down, {"close"})
        /\ ~server'.attached /\ ~server'.resumable
    BY ZenonT(60), <1>1, <1>2, <1>4, <1>5, SendersAnswer
  <1>7. SendersTypes' /\ Untold'
    BY <1>2, <1>6 DEF SendersInv, SendersTypes, Untold, Fresh, Aside, Account
  <1>8. OneStep' /\ Opened' /\ Booked'
    BY <1>2, <1>6 DEF SendersInv, OneStep, Opened, Booked, Aside, Free, Lone
  <1> QED BY <1>7, <1>8 DEF SendersInv

\* Only here a session opens.
LEMMA SendersEnables ==
  ASSUME SendersInv, ServerEnables
  PROVE  SendersInv'
PROOF
  <1>1. Took("enable") /\ "enable" \in Requested /\ server \in SendersServer
    BY DEF SendersInv, SendersTypes, ServerEnables, Requested
  <1>2. /\ ~client.told /\ client.smContext # "Enabled" /\ ~server.attached
        /\ ~server.resumable /\ Free(server.down, {"close"})
        /\ Free(server.down, Granted) /\ Free(client'.up, Requested)
        /\ connects # 0
        /\ client' \in SendersClient /\ Aside(client, client')
        /\ Account(client, client') /\ connects' = connects
    BY <1>1, RequestTaken
  <1>3. PICK id \in Nat : id = server.session + 1
    BY <1>1 DEF SendersServer
  <1>4. PICK resumable \in BOOLEAN :
          server' = [Answer(<< <<"enabled", IF resumable THEN id ELSE 0>> >>)
                       EXCEPT !.session = id, !.resumable = resumable,
                              !.attached = TRUE, !.got = <<>>, !.out = 0]
    BY <1>3 DEF ServerEnables
  <1>5. PICK e : e = <<"enabled", IF resumable THEN id ELSE 0>>
    OBVIOUS
  <1>6. e \in SendersDown /\ e[1] = "enabled"
    BY <1>5 DEF SendersDown
  <1>7. PICK r : Answers(server, e, r)
    BY DEF Answers
  <1>8. r \in SendersServer /\ Lone(r.down, Granted) /\ Free(r.down, {"close"})
        /\ Free(r.down, Offered)
    <2>1. Free(server.down, Offered)
      BY <1>2 DEF Free, Granted
    <2> QED BY <1>1, <1>2, <1>6, <1>7, <2>1, SendersAnswer DEF Offered
  <1>9. server' = [r EXCEPT !.session = id, !.resumable = resumable,
                            !.attached = TRUE, !.got = <<>>, !.out = 0]
    BY <1>4, <1>5, <1>7 DEF Answer, Answers
  <1>10. server' \in SendersServer /\ server'.down = r.down
    <2>1. PICK g \in Seq(1..MaxStanzas) : g = <<>>
      BY EmptySeq
    <2>2. server' = [r EXCEPT !.session = id, !.resumable = resumable,
                              !.attached = TRUE, !.got = g, !.out = 0]
      BY <1>9, <2>1
    <2>3. r \in SendersServer
      BY <1>8
    <2> QED BY <2>2, <2>3 DEF SendersServer
  <1>11. SendersTypes' /\ Untold'
    BY <1>2, <1>10 DEF SendersInv, SendersTypes, Untold, Fresh, Aside, Account
  <1>12. OneStep' /\ Opened' /\ Booked'
    BY <1>2, <1>8, <1>10
       DEF SendersInv, OneStep, Opened, Booked, Aside, Free, Lone
  <1> QED BY <1>11, <1>12 DEF SendersInv

\* Nothing asks for a resumption, so nothing answers it.
LEMMA NoResumption ==
  ASSUME SendersInv
  PROVE  ~ServerResumes /\ ~RecvResumed /\ ~RecvFailed
  BY SMTT(30), SendersTook, SendersRead DEF SendersInv, ServerResumes, RecvResumed, RecvFailed

\* The server's step of the negotiation is read: nothing else is under way.
LEMMA GrantRead ==
  ASSUME SendersInv, NEW kind, Reads(kind), kind \in Granted
  PROVE  /\ client.online /\ ~client.told /\ client.smContext # "Enabled"
         /\ Fresh(client) /\ Free(client.up, Requested)
         /\ Free(server'.down, Granted) /\ Free(server'.down, Offered)
         /\ connects # 0 /\ connects' = connects
         /\ server' \in SendersServer /\ ServerAside /\ DownQuiet
         /\ kind \in Offered => /\ ~server.attached /\ ~server.resumable
                                /\ Free(server'.down, {"close"})
PROOF
  <1>1. /\ server' \in SendersServer /\ ServerAside /\ DownQuiet
        /\ connects' = connects /\ client.online
        /\ ~Free(server.down, Granted)
        /\ Lone(server.down, Granted) => Free(server'.down, Granted)
        /\ kind \in Offered => ~Free(server.down, Offered)
    BY SendersRead DEF SendersInv
  <1>2. Free(server'.down, Granted) /\ Free(client.up, Requested)
        /\ ~client.told /\ client.smContext # "Enabled"
    BY <1>1 DEF SendersInv, OneStep
  <1>3. Free(server'.down, Offered)
    BY <1>2 DEF Free, Granted
  <1>4. connects # 0 /\ Fresh(client)
    BY <1>1, <1>2 DEF SendersInv, Untold
  <1>5. kind \in Offered => /\ ~server.attached /\ ~server.resumable
                            /\ Free(server.down, {"close"})
    BY <1>1 DEF SendersInv, Opened
  <1> QED BY <1>1, <1>2, <1>3, <1>4, <1>5 DEF DownQuiet

\* The client answers it and is not told yet.
LEMMA AskingKeeps ==
  ASSUME SendersInv, NEW kind, Reads(kind), kind \in Offered,
         client' \in SendersClient, client'.online, ~client'.told,
         Fresh(client'), Lone(client'.up, Requested)
  PROVE  SendersInv'
PROOF
  <1>1. kind \in Granted
    BY DEF Granted
  <1>2. /\ Free(server'.down, Granted) /\ connects # 0 /\ connects' = connects
        /\ server' \in SendersServer /\ ~server'.attached /\ ~server'.resumable
        /\ Free(server'.down, {"close"})
    BY <1>1, GrantRead DEF ServerAside
  <1>3. SendersTypes' /\ Untold'
    BY <1>2 DEF SendersInv, SendersTypes, Untold
  <1>4. OneStep' /\ Opened' /\ Booked'
    BY <1>2 DEF OneStep, Opened, Booked, Free, Lone, Fresh
  <1> QED BY <1>3, <1>4 DEF SendersInv

\* The client tells the application.
LEMMA TellingKeeps ==
  ASSUME SendersInv, NEW kind, Reads(kind), kind \in Granted,
         client' \in SendersClient, client'.online, client'.told,
         client'.smContext = "Enabled" => Books(client'),
         Free(client'.up, Requested)
  PROVE  SendersInv'
PROOF
  <1>1. /\ Free(server'.down, Granted) /\ connects # 0 /\ connects' = connects
        /\ server' \in SendersServer /\ ServerAside /\ DownQuiet
        /\ Free(server'.down, Offered)
    BY GrantRead
  <1>2. SendersTypes' /\ Untold'
    BY <1>1 DEF SendersInv, SendersTypes, Untold
  <1>3. OneStep'
    BY <1>1 DEF OneStep, Free, Lone
  <1>4. Opened'
    BY <1>1 DEF SendersInv, Opened, ServerAside, DownQuiet
  <1>5. Booked'
    BY DEF Booked
  <1> QED BY <1>2, <1>3, <1>4, <1>5 DEF SendersInv

\* One token more where there was none.
LEMMA TokenWritten ==
  ASSUME NEW c \in SendersClient, Free(c.up, Requested), NEW e \in SendersUp,
         Fresh(c), NEW w, w = Write(c, <<e>>)
  PROVE  w \in SendersClient /\ Aside(c, w) /\ Fresh(w) /\ Lone(w.up, Requested)
PROOF
  <1>1. /\ w \in SendersClient /\ Aside(c, w) /\ Account(c, w)
        /\ w.up = IF c.online THEN c.up \o <<e>> ELSE c.up
    BY WritesOne
  <1>2. c.up \in Seq(SendersUp)
    BY DEF SendersClient
  <1>3. Lone(c.up, Requested)
    BY DEF Free, Lone
  <1>4. Lone(w.up, Requested)
    BY <1>1, <1>2, <1>3, FreeAdded
  <1> QED BY <1>1, <1>4 DEF Fresh, Aside, Account

\* The client asks for a resource.
LEMMA SendersFeatures ==
  ASSUME SendersInv, RecvFeatures
  PROVE  SendersInv'
PROOF
  <1>1. Reads("features") /\ "features" \in Offered /\ "features" \in Granted
        /\ client \in SendersClient
    BY DEF RecvFeatures, Offered, Granted, SendersInv, SendersTypes
  <1>2. /\ client.online /\ ~client.told /\ client.smContext \notin Managed
        /\ Fresh(client) /\ Free(client.up, Requested)
    BY <1>1, GrantRead DEF SendersClient, Managed
  <1>3. PICK e : e = <<"bind">>
    OBVIOUS
  <1>4. e \in SendersUp
    BY <1>3 DEF SendersUp
  <1>5. client' = Write(client, <<e>>)
    BY <1>2, <1>3 DEF RecvFeatures
  <1>6. client' \in SendersClient /\ Aside(client, client') /\ Fresh(client')
        /\ Lone(client'.up, Requested)
    BY <1>1, <1>2, <1>4, <1>5, TokenWritten
  <1> QED BY <1>1, <1>2, <1>6, AskingKeeps DEF Aside

\* connected(): the initial presence, and what the application sends.
LEMMA SendersConnected ==
  ASSUME NEW c \in SendersClient, c.made + Greetings(1) <= MaxStanzas,
         c.smContext = "Enabled" => Books(c),
         Free(c.up, Requested), NEW d, d = Connected(c)
  PROVE  /\ d \in SendersClient /\ d.online = c.online /\ d.told
         /\ d.smContext = c.smContext /\ Free(d.up, Requested)
         /\ c.smContext = "Enabled" => Books(d)
PROOF
  <1>1. /\ c.made \in Nat /\ MaxStanzas \in Nat /\ c.smContext # "Resumed"
        /\ OnConnectSends \in BOOLEAN
    BY ConstantsAssumption DEF SendersClient
  <1>2. c.made + 1 <= MaxStanzas
        /\ (OnConnectSends => c.made + 2 <= MaxStanzas)
    BY <1>1 DEF Greetings
  <1>3. {"stanza"} \cap Requested = {}
    BY DEF Requested
  <1>4. PICK x : x = SendStanza(c)
    OBVIOUS
  <1>5. /\ x \in SendersClient /\ Aside(c, x)
        /\ Appends(c, x, {"stanza"}) /\ x.made = c.made + 1
        /\ c.smContext = "Enabled" => Books(x)
    BY <1>2, <1>4, SendsOne
  <1>6. Free(x.up, Requested)
    BY <1>3, <1>5, AppendsQuiet
  <1>7. PICK t : t = [x EXCEPT !.told = TRUE]
    OBVIOUS
  <1>8. /\ t \in SendersClient /\ t.told /\ t.online = x.online
        /\ t.smContext = x.smContext /\ Account(x, t) /\ t.up = x.up
    BY <1>5, <1>7 DEF SendersClient, Account
  <1>9. c.smContext = "Enabled" => Books(t)
    BY <1>5, <1>8 DEF Books, Account
  <1>10. d = IF OnConnectSends THEN SendStanza(t) ELSE t
    BY <1>1, <1>4, <1>7 DEF Connected, OnConnect
  <1>11. CASE ~OnConnectSends
    BY <1>5, <1>6, <1>8, <1>9, <1>10, <1>11 DEF Aside
  <1>12. CASE OnConnectSends
    <2>1. t.made + 1 <= MaxStanzas
      BY <1>1, <1>2, <1>5, <1>8, <1>12 DEF Account
    <2>2. d = SendStanza(t)
      BY <1>10, <1>12
    <2>3. t.smContext = "Enabled" => Books(t)
      BY <1>5, <1>8, <1>9 DEF Aside
    <2>4. /\ d \in SendersClient /\ Aside(t, d) /\ Appends(t, d, {"stanza"})
          /\ t.smContext = "Enabled" => Books(d)
      BY <1>8, <2>1, <2>2, <2>3, SendsOne
    <2>5. Free(d.up, Requested)
      BY <1>3, <1>6, <1>8, <2>4, AppendsQuiet
    <2> QED BY <1>5, <1>8, <2>4, <2>5 DEF Aside
  <1> QED BY <1>11, <1>12

\* It asks for a session then, or does without.
LEMMA SendersBound ==
  ASSUME SendersInv, RecvBound
  PROVE  SendersInv'
PROOF
  <1>1. Reads("bound") /\ "bound" \in Offered /\ "bound" \in Granted
        /\ client \in SendersClient
    BY DEF RecvBound, Offered, Granted, SendersInv, SendersTypes
  <1>2. /\ client.online /\ ~client.told /\ client.smContext \notin Managed
        /\ Fresh(client) /\ Free(client.up, Requested)
    BY <1>1, GrantRead DEF SendersClient, Managed
  <1>3. PICK c : c = [client EXCEPT !.bound = TRUE]
    OBVIOUS
  <1>4. /\ c \in SendersClient /\ Aside(client, c) /\ Account(client, c)
        /\ c.up = client.up
    BY <1>1, <1>3 DEF SendersClient, Aside, Account
  <1>5. /\ Fresh(c) /\ c.online /\ ~c.told /\ Free(c.up, Requested)
        /\ c.smContext \in {"Invalid", "Enable"}
    BY <1>2, <1>4 DEF Fresh, Aside, Account, SendersClient
  <1>6. /\ c.made + Greetings(1) <= MaxStanzas
        /\ client' = IF c.wanted THEN SendStreamManagement(c) ELSE Connected(c)
    BY <1>3, <1>4 DEF RecvBound, Room, Aside, Account
  <1>7. CASE ~c.wanted
    <2>1. client' = Connected(c) /\ c.smContext # "Enabled"
      BY <1>5, <1>6, <1>7
    <2>2. /\ client' \in SendersClient /\ client'.online /\ client'.told
          /\ client'.smContext # "Enabled" /\ Free(client'.up, Requested)
      BY <1>4, <1>5, <1>6, <2>1, SendersConnected
    <2> QED BY <1>1, <2>2, TellingKeeps
  <1>8. CASE c.wanted /\ c.smContext = "Enable"
    <2>1. client' = c
      BY <1>6, <1>8 DEF SendStreamManagement
    <2>2. Lone(client'.up, Requested)
      BY <1>5, <2>1 DEF Free, Lone
    <2> QED BY <1>1, <1>4, <1>5, <2>1, <2>2, AskingKeeps
  <1>9. CASE c.wanted /\ c.smContext = "Invalid"
    <2>1. PICK e : e = <<"enable">>
      OBVIOUS
    <2>2. e \in SendersUp
      BY <2>1 DEF SendersUp
    <2>3. PICK w : w = Write(c, <<e>>)
      OBVIOUS
    <2>4. w \in SendersClient /\ Aside(c, w) /\ Fresh(w) /\ Lone(w.up, Requested)
      BY <1>4, <1>5, <2>2, <2>3, TokenWritten
    <2>5. client' = [w EXCEPT !.smContext = "Enable", !.smHandled = 0]
      BY <1>6, <1>9, <2>1, <2>3 DEF SendStreamManagement
    <2>6. /\ client' \in SendersClient /\ client'.smContext = "Enable"
          /\ client'.online = w.online /\ client'.told = w.told
          /\ client'.up = w.up /\ Account(w, client')
      BY <2>4, <2>5 DEF SendersClient, Account
    <2>7. Fresh(client') /\ client'.online /\ ~client'.told
      BY <1>5, <2>4, <2>6 DEF Fresh, Account, Aside
    <2> QED BY <1>1, <2>4, <2>6, <2>7, AskingKeeps
  <1> QED BY <1>5, <1>7, <1>8, <1>9

\* The books open: nothing is counted yet, nothing is between two halves.
LEMMA SendersEnabled ==
  ASSUME SendersInv, RecvEnabled
  PROVE  SendersInv'
PROOF
  <1>1. Reads("enabled") /\ "enabled" \in Granted /\ client \in SendersClient
        /\ server \in SendersServer
    BY DEF RecvEnabled, Granted, SendersInv, SendersTypes
  <1>2. client.online /\ Fresh(client) /\ Free(client.up, Requested)
    BY <1>1, GrantRead
  <1>3. Head(server.down) \in SendersDown /\ Head(server.down)[1] = "enabled"
    BY <1>1, SendersRead DEF SendersInv
  <1>4. PICK id \in Nat : id = Head(server.down)[2]
    BY <1>3 DEF SendersDown
  <1>5. PICK a \in Seq(1..MaxStanzas), s \in Seq(Nat) : a = <<>> /\ s = <<>>
    BY EmptySeq
  <1>6. PICK c : c = [client EXCEPT !.smContext = "Enabled", !.smId = id,
                                    !.accepted = a, !.seen = s, !.losses = 0]
    OBVIOUS
  <1>7. client' = Connected(c) /\ client.made + Greetings(1) <= MaxStanzas
    BY <1>4, <1>5, <1>6 DEF RecvEnabled, Room
  <1>8. /\ c \in SendersClient /\ c.online = client.online /\ c.up = client.up
        /\ c.smContext = "Enabled" /\ c.made = client.made /\ c.accepted = a
        /\ c.smSent = client.smSent /\ c.smQueue = client.smQueue
        /\ c.written = client.written
    BY <1>1, <1>6 DEF SendersClient
  <1>9. Books(c)
    <2>1. c.smSent = 0 /\ c.smQueue = <<>> /\ c.written = 0 /\ c.accepted = <<>>
      BY <1>2, <1>5, <1>8 DEF Fresh
    <2>2. DOMAIN c.smQueue = {} /\ DOMAIN c.accepted = {} /\ Len(c.accepted) = 0
      BY <2>1
    <2> QED BY <2>1, <2>2 DEF Books, IsInjective
  <1>10. /\ client' \in SendersClient /\ client'.online /\ client'.told
         /\ Books(client') /\ Free(client'.up, Requested)
    BY <1>2, <1>7, <1>8, <1>9, SendersConnected
  <1> QED BY <1>1, <1>10, TellingKeeps

-----------------------------------------------------------------------------
(* The connection begins and ends. *)

\* The one connection.
LEMMA SendersConnect ==
  ASSUME SendersInv, Connect, OneConnection
  PROVE  SendersInv'
PROOF
  <1>1. /\ client \in SendersClient /\ server \in SendersServer /\ connects = 0
        /\ connects' = 1 /\ connects' <= MaxConnects
    BY ConstantsAssumption
       DEF Connect, OneConnection, SendersInv, SendersTypes
  <1>2. PICK e \in SendersDown : e = <<"features">>
    BY DEF SendersDown
  <1>3. PICK d \in Seq(SendersDown), u \in Seq(SendersUp) : d = <<e>> /\ u = <<>>
    <2>1. <<e>> \in Seq(SendersDown)
      OBVIOUS
    <2>2. <<>> \in Seq(SendersUp)
      BY EmptySeq
    <2> QED BY <2>1, <2>2
  <1>4. /\ client' = [client EXCEPT !.online = TRUE, !.up = u]
        /\ server' = [server EXCEPT !.attached = FALSE, !.down = d]
    BY <1>2, <1>3 DEF Connect
  <1>5. /\ client' \in SendersClient /\ client'.up = u /\ client'.online
        /\ client'.told = client.told /\ client'.smContext = client.smContext
        /\ Account(client, client')
    BY <1>1, <1>4 DEF SendersClient, Account
  <1>6. /\ server' \in SendersServer /\ server'.down = d /\ ~server'.attached
        /\ server'.resumable = server.resumable
    BY <1>1, <1>4 DEF SendersServer
  <1>7. /\ ~client.told /\ client.smContext = "Invalid" /\ Fresh(client)
        /\ ~server.resumable
    BY <1>1, NothingYet
  <1>8. SendersTypes' /\ Untold'
    BY <1>1, <1>5, <1>6, <1>7 DEF SendersTypes, Untold, Fresh, Account
  <1>9. Free(u, Requested) /\ Lone(u, Requested) /\ Lone(d, Granted)
        /\ Free(d, {"close"})
    BY <1>2, <1>3 DEF Free, Lone
  <1>10. OneStep' /\ Opened' /\ Booked'
    BY <1>5, <1>6, <1>7, <1>9 DEF OneStep, Opened, Booked
  <1> QED BY <1>8, <1>10 DEF SendersInv

\* A connection that is the last is not lost.
LEMMA NoLosses ==
  ASSUME SendersInv, OneConnection
  PROVE  ~Lose
  BY ConstantsAssumption DEF SendersInv, SendersTypes, Untold, Lose, OneConnection

\* What disconnect() does to a connection.
LEMMA Ends ==
  ASSUME NEW c \in SendersClient, c.online, NEW end \in {"user", "server"},
         NEW d, d = BaseDisconnect(c, end)
  PROVE  /\ d \in SendersClient /\ ~d.online /\ ~d.told
         /\ d.smContext = c.smContext
         /\ Free(c.up, Requested) => Free(d.up, Requested)
         /\ Lone(c.up, Requested) => Lone(d.up, Requested)
PROOF
  <1>1. PICK e : e = <<"close">>
    OBVIOUS
  <1>2. e \in SendersUp /\ e[1] = "close"
    BY <1>1 DEF SendersUp
  <1>3. PICK w : w = Write(c, <<e>>)
    OBVIOUS
  <1>4. w \in SendersClient /\ Aside(c, w) /\ Appends(c, w, {"close"})
    BY <1>2, <1>3, WritesOne DEF Appends
  <1>5. d = [[w EXCEPT !.online = FALSE, !.bound = FALSE, !.told = FALSE]
               EXCEPT !.smSent = 0, !.ended = end]
    BY <1>1, <1>3 DEF BaseDisconnect, Cleanup
  <1>6. PICK v : v = [w EXCEPT !.online = FALSE, !.bound = FALSE, !.told = FALSE]
    OBVIOUS
  <1>7. v \in SendersClient /\ ~v.online /\ ~v.told /\ v.up = w.up
        /\ v.smContext = w.smContext
    BY <1>4, <1>6 DEF SendersClient
  <1>8. d = [v EXCEPT !.smSent = 0, !.ended = end]
    BY <1>5, <1>6
  <1>9. d \in SendersClient /\ ~d.online /\ ~d.told /\ d.up = w.up
        /\ d.smContext = w.smContext
    <2>1. end \in {"never", "lost", "user", "server"}
      OBVIOUS
    <2>2. PICK x : x = [v EXCEPT !.smSent = 0, !.ended = end]
      OBVIOUS
    <2>3. /\ x \in SendersClient /\ x.online = v.online /\ x.told = v.told
          /\ x.up = v.up /\ x.smContext = v.smContext
      BY <1>7, <2>1, <2>2 DEF SendersClient
    <2> QED BY <1>7, <1>8, <2>2, <2>3
  <1>10. /\ Free(c.up, Requested) => Free(w.up, Requested)
         /\ Lone(c.up, Requested) => Lone(w.up, Requested)
    <2>1. {"close"} \cap Requested = {}
      BY DEF Requested
    <2> QED BY <1>4, <2>1, AppendsQuiet
  <1> QED BY <1>4, <1>9, <1>10 DEF Aside

\* The server has ended the stream: it has no session any more.
LEMMA SendersClose ==
  ASSUME SendersInv, RecvClose
  PROVE  SendersInv'
PROOF
  <1>1. Reads("close") /\ client \in SendersClient
        /\ client' = BaseDisconnect(client, "server")
    BY DEF RecvClose, SendersInv, SendersTypes
  <1>2. /\ server' \in SendersServer /\ ServerAside /\ DownQuiet
        /\ connects' = connects /\ client.online
        /\ ~Free(server.down, {"close"})
    BY <1>1, SendersRead DEF SendersInv
  <1>3. /\ client' \in SendersClient /\ ~client'.online /\ ~client'.told
        /\ client'.smContext = client.smContext /\ UpQuiet
    BY <1>1, <1>2, Ends DEF UpQuiet
  <1>4. connects # 0
    BY <1>2, NothingYet
  <1>5. ~server'.attached /\ ~server'.resumable
    BY <1>2 DEF SendersInv, Opened, ServerAside
  <1>6. SendersTypes' /\ Untold'
    BY <1>2, <1>3, <1>4 DEF SendersInv, SendersTypes, Untold
  <1>7. OneStep' /\ Opened' /\ Booked'
    BY <1>2, <1>3, <1>5
       DEF SendersInv, OneStep, Opened, Booked, UpQuiet, DownQuiet
  <1> QED BY <1>6, <1>7 DEF SendersInv

\* The application ends it: the client has no session any more.
LEMMA SendersDisconnects ==
  ASSUME SendersInv, AppDisconnects
  PROVE  SendersInv'
PROOF
  <1>1. client \in SendersClient /\ server \in SendersServer
        /\ UNCHANGED <<server, connects>>
    BY DEF SendersInv, SendersTypes, AppDisconnects
  <1>2. PICK c : c = [client EXCEPT !.smContext = "Invalid", !.smHandled = 0,
                                    !.smId = 0, !.wanted = FALSE]
    OBVIOUS
  <1>3. client' = BaseDisconnect(c, "user")
    BY <1>2 DEF AppDisconnects
  <1>4. /\ c \in SendersClient /\ c.online = client.online
        /\ c.told = client.told /\ c.smContext = "Invalid" /\ c.up = client.up
        /\ Account(client, c)
    BY <1>1, <1>2 DEF SendersClient, Account
  <1>5. CASE ~client.online
    <2>1. client' = c
      BY <1>3, <1>4, <1>5 DEF BaseDisconnect
    <2>2. SendersTypes' /\ Untold'
      BY <1>1, <1>4, <1>5, <2>1
         DEF SendersInv, SendersTypes, Untold, Fresh, Account
    <2>3. OneStep' /\ Opened' /\ Booked'
      BY <1>1, <1>4, <2>1 DEF SendersInv, OneStep, Opened, Booked
    <2> QED BY <2>2, <2>3 DEF SendersInv
  <1>6. CASE client.online
    <2>1. /\ client' \in SendersClient /\ ~client'.online /\ ~client'.told
          /\ client'.smContext = "Invalid" /\ UpQuiet
      BY <1>3, <1>4, <1>6, Ends DEF UpQuiet
    <2>2. connects # 0
      BY <1>6, NothingYet
    <2>3. SendersTypes' /\ Untold'
      BY <1>1, <2>1, <2>2 DEF SendersInv, SendersTypes, Untold
    <2>4. OneStep' /\ Opened' /\ Booked'
      BY <1>1, <2>1 DEF SendersInv, OneStep, Opened, Booked, UpQuiet
    <2> QED BY <2>3, <2>4 DEF SendersInv
  <1> QED BY <1>5, <1>6

\* The application wants a session on its next connection.
LEMMA SendersSet ==
  ASSUME SendersInv, SetStreamManagement
  PROVE  SendersInv'
PROOF
  <1>1. client \in SendersClient /\ client' = [client EXCEPT !.wanted = TRUE]
        /\ UNCHANGED <<server, connects>>
    BY DEF SendersInv, SendersTypes, SetStreamManagement
  <1>2. /\ client' \in SendersClient /\ client'.online = client.online
        /\ client'.told = client.told /\ client'.smContext = client.smContext
        /\ Account(client, client') /\ client'.up = client.up
    BY <1>1 DEF SendersClient, Account
  <1>3. SendersTypes' /\ Untold'
    BY <1>1, <1>2 DEF SendersInv, SendersTypes, Untold, Fresh, Account
  <1>4. OneStep' /\ Opened' /\ Booked'
    BY <1>1, <1>2 DEF SendersInv, OneStep, Opened, Booked, Books, Account
  <1> QED BY <1>3, <1>4 DEF SendersInv

-----------------------------------------------------------------------------
(* Two senders. *)

\* One element more that negotiates nothing, the books as they were or right.
LEMMA WritingKeeps ==
  ASSUME SendersInv, UNCHANGED <<connects, server>>, client' \in SendersClient,
         Aside(client, client'), NEW kinds, Appends(client, client', kinds),
         kinds \cap Requested = {},
         client.smContext = "Enabled" /\ client.online => Books(client'),
         client.smContext # "Enabled" /\ ~client.told /\ Fresh(client) =>
           Fresh(client')
  PROVE  SendersInv'
PROOF
  <1>1. UpQuiet
    BY AppendsQuiet DEF UpQuiet, SendersInv, SendersTypes
  <1>2. connects = 0 => client'.up = <<>>
    BY NothingYet DEF Appends
  <1>3. SendersTypes' /\ Untold'
    BY <1>2 DEF SendersInv, SendersTypes, Untold, Aside, Fresh
  <1>4. OneStep' /\ Opened' /\ Booked'
    BY <1>1 DEF SendersInv, OneStep, Opened, Booked, Aside, UpQuiet
  <1> QED BY <1>3, <1>4 DEF SendersInv

\* The books of an enabled session on a connection.
LEMMA BooksOpen ==
  ASSUME SendersInv
  PROVE  /\ client \in SendersClient
         /\ client.smContext \in Managed <=> client.smContext = "Enabled"
         /\ client.smContext = "Enabled" /\ client.online => Books(client)
         /\ client.smContext = "Enabled" /\ client.online => client.told
         /\ client.told => client.online
  BY DEF SendersInv, SendersTypes, SendersClient, Untold, Booked, Managed, Fresh

\* The client's own thread sends.
LEMMA SendersAppSends ==
  ASSUME SendersInv, AppSends
  PROVE  SendersInv'
PROOF
  <1>1. client \in SendersClient /\ client' = SendStanza(client)
        /\ UNCHANGED <<connects, server>> /\ client.made + 1 <= MaxStanzas
    BY BooksOpen DEF AppSends, Room
  <1>2. /\ client' \in SendersClient /\ Aside(client, client')
        /\ Appends(client, client', {"stanza"})
        /\ client'.written = client.written
        /\ client.smContext = "Enabled" /\ Books(client) => Books(client')
        /\ client.smContext # "Enabled" =>
             client'.smSent = client.smSent /\ client'.smQueue = client.smQueue
    BY <1>1, SendsOne
  <1>3. client.smContext # "Enabled" /\ Fresh(client) => Fresh(client')
    BY <1>2 DEF Fresh, Aside
  <1>4. {"stanza"} \cap Requested = {}
    BY DEF Requested
  <1> QED BY <1>1, <1>2, <1>3, <1>4, BooksOpen, WritingKeeps

\* Only a connection whose application was told is used by the other thread, or
\* by send( Tag* ).
LEMMA SendersSendTags ==
  ASSUME SendersInv, AppSendsTag
  PROVE  SendersInv'
PROOF
  <1>1. client \in SendersClient /\ UNCHANGED <<connects, server>>
        /\ client.made + 1 <= MaxStanzas
    BY BooksOpen DEF AppSendsTag, Room
  <1>2. PICK st : st = client.made + 1
    OBVIOUS
  <1>3. st \in 1..MaxStanzas /\ st \in 0..MaxStanzas
    BY <1>1, <1>2, ConstantsAssumption DEF SendersClient
  <1>4. PICK m : m = [client EXCEPT !.made = st]
    OBVIOUS
  <1>5. /\ m \in SendersClient /\ Aside(client, m) /\ m.up = client.up
        /\ m.smSent = client.smSent /\ m.smQueue = client.smQueue
        /\ m.written = client.written /\ m.accepted = client.accepted
        /\ m.made = st
    BY <1>1, <1>3, <1>4 DEF SendersClient, Aside
  <1>6. PICK e : e = <<"stanza", st>>
    OBVIOUS
  <1>7. e \in SendersUp /\ e[1] = "stanza"
    BY <1>3, <1>6 DEF SendersUp
  <1>8. client' = Write(m, <<e>>)
    BY <1>2, <1>4, <1>6 DEF AppSendsTag
  <1>9. /\ client' \in SendersClient /\ Aside(m, client') /\ Account(m, client')
        /\ client'.up = IF m.online THEN m.up \o <<e>> ELSE m.up
    BY <1>5, <1>7, <1>8, WritesOne
  <1>10. Aside(client, client') /\ Appends(client, client', {"stanza"})
    BY <1>5, <1>7, <1>9 DEF Aside, Appends
  <1>11. client.smContext = "Enabled" /\ client.online => Books(client')
    <2>1. SUFFICES ASSUME client.smContext = "Enabled", client.online
                   PROVE  Books(client')
      OBVIOUS
    <2>2. Books(client)
      BY <2>1, BooksOpen
    <2>3. \A i \in DOMAIN client.accepted : client.accepted[i] <= client'.made
      <3>1. client.accepted \in Seq(1..MaxStanzas)
        BY <1>1 DEF SendersClient
      <3>3. \A i \in DOMAIN client.accepted : client.accepted[i] \in Nat
        BY <3>1, NamesAreNumbers
      <3>4. client.made \in Nat /\ client'.made = client.made + 1
        BY <1>1, <1>2, <1>5, <1>9, ConstantsAssumption DEF SendersClient, Account
      <3> QED BY <2>2, <3>3, <3>4 DEF Books
    <2> QED BY <1>5, <1>9, <2>2, <2>3 DEF Books, Account
  <1>12. Fresh(client) => Fresh(client')
    BY <1>5, <1>9 DEF Fresh, Aside, Account
  <1>13. {"stanza"} \cap Requested = {}
    BY DEF Requested
  <1> QED BY <1>1, <1>9, <1>10, <1>11, <1>12, <1>13, WritingKeeps

\* The first half: the stanza is the session's one more, and the other thread's.
LEMMA SendersWrites ==
  ASSUME SendersInv, ThreadWrites
  PROVE  SendersInv'
PROOF
  <1>1. /\ client \in SendersClient /\ UNCHANGED <<connects, server>>
        /\ client.made + 1 <= MaxStanzas /\ client.written = 0 /\ client.told
    BY BooksOpen DEF ThreadWrites, Room, Phase
  <1>2. PICK x : x = WriteStanza(client)
    OBVIOUS
  <1>3. /\ x \in SendersClient /\ Aside(client, x)
        /\ Appends(client, x, {"stanza"}) /\ x.made = client.made + 1
        /\ x.smSent = client.smSent /\ x.smQueue = client.smQueue
        /\ x.written = client.written
        /\ x.accepted = IF client.smContext \in Managed
                        THEN Append(client.accepted, x.made) ELSE client.accepted
    BY <1>1, <1>2, WritesStanza
  <1>4. client' = [x EXCEPT !.written = x.made]
    BY <1>2 DEF ThreadWrites
  <1>5. /\ client' \in SendersClient /\ client'.written = x.made
        /\ Aside(x, client') /\ client'.up = x.up /\ client'.made = x.made
        /\ client'.smSent = x.smSent /\ client'.smQueue = x.smQueue
        /\ client'.accepted = x.accepted
    BY <1>3, <1>4 DEF SendersClient, Aside
  <1>6. Aside(client, client') /\ Appends(client, client', {"stanza"})
    BY <1>3, <1>5 DEF Aside, Appends
  <1>7. ASSUME client.smContext = "Enabled", client.online
        PROVE  Books(client')
    <2>1. Books(client) /\ client.smContext \in Managed
      BY <1>7, BooksOpen
    <2>2. /\ client.accepted \in Seq(1..MaxStanzas) /\ client.made \in Nat
          /\ client.smSent \in Nat /\ x.made \in 1..MaxStanzas
      BY SMTT(30), <1>1, <1>3, ConstantsAssumption DEF SendersClient
    <2>3. /\ Len(x.accepted) = Len(client.accepted) + 1
          /\ Len(client.accepted) \in Nat
          /\ DOMAIN client.accepted = 1..Len(client.accepted)
          /\ \A i \in DOMAIN client.accepted :
               i \in DOMAIN x.accepted /\ x.accepted[i] = client.accepted[i]
          /\ Len(client.accepted) + 1 \in DOMAIN x.accepted
          /\ x.accepted[Len(client.accepted) + 1] = x.made
          /\ \A i \in DOMAIN x.accepted :
               i \in DOMAIN client.accepted \/ i = Len(client.accepted) + 1
      BY <1>3, <2>1, <2>2, OneAccepted
    <2>4. \A i \in DOMAIN client.accepted : client.accepted[i] \in Nat
      BY <2>2, NamesAreNumbers
    <2>5. \A i \in DOMAIN client.accepted : client.accepted[i] < x.made
      BY <1>3, <2>1, <2>2, <2>4 DEF Books
    <2>6. \A n \in DOMAIN client.smQueue : client.smQueue[n] # x.made
      BY <2>1, <2>4, <2>5 DEF Books
    <2>7. client'.smSent + (IF client'.written = 0 THEN 0 ELSE 1)
            = Len(client'.accepted)
      BY <1>1, <1>3, <1>5, <2>1, <2>2, <2>3 DEF Books
    <2>8. \A n \in DOMAIN client'.smQueue :
            /\ client'.smQueue[n] # client'.written
            /\ \E i \in DOMAIN client'.accepted :
                 client'.accepted[i] = client'.smQueue[n]
      BY <1>3, <1>5, <2>1, <2>3, <2>6 DEF Books
    <2>9. \A i \in DOMAIN client'.accepted : client'.accepted[i] <= client'.made
      BY SMTT(30), <1>5, <2>2, <2>3, <2>4, <2>5
    <2>10. \E i \in DOMAIN client'.accepted :
             client'.accepted[i] = client'.written
      BY <1>5, <2>3
    <2> QED BY <1>3, <1>5, <2>1, <2>7, <2>8, <2>9, <2>10 DEF Books
  <1>8. {"stanza"} \cap Requested = {}
    BY DEF Requested
  <1> QED BY <1>1, <1>5, <1>6, <1>7, <1>8, WritingKeeps

\* The second half: the stanza is kept under the number that is next now.
LEMMA SendersKeeps ==
  ASSUME SendersInv, ThreadKeeps
  PROVE  SendersInv'
PROOF
  <1>1. /\ client \in SendersClient /\ UNCHANGED <<connects, server>>
        /\ client.written # 0
    BY BooksOpen DEF ThreadKeeps
  <1>2. PICK st \in 1..MaxStanzas : st = client.written
    BY <1>1, ConstantsAssumption DEF SendersClient
  <1>3. PICK d : d = Keep(client, st)
    OBVIOUS
  <1>4. /\ d \in SendersClient /\ Aside(client, d) /\ d.up = client.up
        /\ d.made = client.made /\ d.accepted = client.accepted
        /\ d.written = client.written
        /\ client.smContext \notin Managed => d = client
        /\ client.smContext \in Managed =>
             /\ d.smSent = client.smSent + 1
             /\ DOMAIN d.smQueue = DOMAIN client.smQueue \cup {client.smSent + 1}
             /\ \A n \in DOMAIN client.smQueue : d.smQueue[n] = client.smQueue[n]
             /\ client.smSent + 1 \notin DOMAIN client.smQueue =>
                  d.smQueue[client.smSent + 1] = st
    BY <1>1, <1>3, Keeps
  <1>5. client' = [d EXCEPT !.written = 0]
    BY <1>2, <1>3 DEF ThreadKeeps
  <1>6. /\ client' \in SendersClient /\ client'.written = 0
        /\ Aside(d, client') /\ client'.up = d.up /\ client'.made = d.made
        /\ client'.smSent = d.smSent /\ client'.smQueue = d.smQueue
        /\ client'.accepted = d.accepted
    <2>1. 0 \in 0..MaxStanzas
      BY ConstantsAssumption
    <2> QED BY <1>4, <1>5, <2>1 DEF SendersClient, Aside
  <1>7. Aside(client, client') /\ Appends(client, client', {})
    BY <1>4, <1>6 DEF Aside, Appends
  <1>8. ASSUME client.smContext = "Enabled", client.online
        PROVE  Books(client')
    <2>1. Books(client) /\ client.smContext \in Managed
      BY <1>8, BooksOpen
    <2>2. /\ client.accepted \in Seq(1..MaxStanzas) /\ client.smSent \in Nat
          /\ Len(client.accepted) \in Nat
      BY <1>1 DEF SendersClient
    <2>3. client.smSent + 1 \notin DOMAIN client.smQueue
      BY <2>1, <2>2 DEF Books
    <2>4. /\ client'.smSent = client.smSent + 1
          /\ DOMAIN client'.smQueue
               = DOMAIN client.smQueue \cup {client.smSent + 1}
          /\ \A n \in DOMAIN client.smQueue :
               client'.smQueue[n] = client.smQueue[n]
          /\ client'.smQueue[client.smSent + 1] = client.written
      BY <1>2, <1>4, <1>6, <2>1, <2>3
    <2>5. client'.smSent = Len(client'.accepted)
      BY <1>1, <1>4, <1>6, <2>1, <2>2, <2>4 DEF Books
    <2>6. DOMAIN client'.smQueue \subseteq 1..client'.smSent
      BY <2>1, <2>2, <2>4 DEF Books
    <2>7. IsInjective(client'.smQueue)
      <3>1. \A n \in DOMAIN client.smQueue :
              client'.smQueue[n] # client'.smQueue[client.smSent + 1]
        BY <2>1, <2>4 DEF Books
      <3>2. \A n, m \in DOMAIN client.smQueue :
              client.smQueue[n] = client.smQueue[m] => n = m
        BY <2>1 DEF Books, IsInjective
      <3> QED BY <2>4, <3>1, <3>2 DEF IsInjective
    <2>8. \A n \in DOMAIN client'.smQueue :
            \E i \in DOMAIN client'.accepted :
              client'.accepted[i] = client'.smQueue[n]
      BY <1>1, <1>4, <1>6, <2>1, <2>4 DEF Books
    <2>9. \A i \in DOMAIN client'.accepted :
            client'.accepted[i] \in Nat \ {0} /\ client'.accepted[i] <= client'.made
      <3>2. \A i \in DOMAIN client.accepted : client.accepted[i] \in Nat \ {0}
        BY <2>2, NamesAreNumbers
      <3> QED BY <1>4, <1>6, <2>1, <3>2 DEF Books
    <2> QED BY <1>6, <2>2, <2>4, <2>5, <2>6, <2>7, <2>8, <2>9 DEF Books
  <1>9. Fresh(client) => Fresh(client')
    BY <1>1 DEF Fresh
  <1>10. {} \cap Requested = {}
    OBVIOUS
  <1> QED BY <1>1, <1>6, <1>7, <1>8, <1>9, <1>10, WritingKeeps

-----------------------------------------------------------------------------
(* Acknowledgements, and what the client is handed. *)

\* What acknowledges or asks is no part of the negotiation.
LEMMA AckWrites ==
  ASSUME NEW c \in SendersClient, NEW d, d \in {Ack(c), Req(c)}
  PROVE  /\ d \in SendersClient /\ Aside(c, d) /\ Account(c, d)
         /\ Appends(c, d, {"a", "r"})
PROOF
  <1>1. PICK e : e \in {<<"a", c.smHandled>>, <<"r">>}
                 /\ d \in {c, Write(c, <<e>>)}
    BY DEF Ack, Req
  <1>2. e \in SendersUp /\ e[1] \in {"a", "r"}
    BY <1>1 DEF SendersUp, SendersClient
  <1>3. CASE d = c
    BY <1>3 DEF Aside, Account, Appends
  <1>4. CASE d = Write(c, <<e>>)
    BY <1>2, <1>4, WritesOne DEF Appends
  <1> QED BY <1>1, <1>3, <1>4

\* Nor does it touch the books.
LEMMA AcksQuiet ==
  ASSUME SendersInv, client' \in {Ack(client), Req(client)}
  PROVE  /\ client' \in SendersClient /\ Aside(client, client')
         /\ Account(client, client') /\ Appends(client, client', {"a", "r"})
         /\ UpQuiet
PROOF
  <1>1. client \in SendersClient
    BY BooksOpen
  <1>2. /\ client' \in SendersClient /\ Aside(client, client')
        /\ Account(client, client') /\ Appends(client, client', {"a", "r"})
    BY <1>1, AckWrites
  <1>3. {"a", "r"} \cap Requested = {}
    BY DEF Requested
  <1> QED BY <1>1, <1>2, <1>3, AppendsQuiet DEF UpQuiet

\* The server's request is answered.
LEMMA SendersRequest ==
  ASSUME SendersInv, RecvRequest
  PROVE  SendersInv'
PROOF
  <1>1. Reads("r") /\ client' \in {Ack(client), Req(client)}
    BY DEF RecvRequest
  <1>2. /\ server' \in SendersServer /\ ServerAside /\ DownQuiet
        /\ connects' = connects /\ client.online
    BY <1>1, SendersRead DEF SendersInv
  <1> QED BY <1>1, <1>2, AcksQuiet, NothingYet, QuietKeeps DEF Aside

\* The application acknowledges or asks.
LEMMA SendersAppAcks ==
  ASSUME SendersInv, AppAcks
  PROVE  SendersInv'
PROOF
  <1>1. client' \in {Ack(client), Req(client)} /\ client.online
        /\ UNCHANGED <<connects, server>>
    BY DEF AppAcks
  <1>2. server' \in SendersServer /\ ServerAside /\ DownQuiet
    BY <1>1 DEF SendersInv, SendersTypes, ServerAside, DownQuiet
  <1> QED BY <1>1, <1>2, AcksQuiet, NothingYet, QuietKeeps DEF Aside

\* A stanza is handed to the application.
LEMMA SendersStanza ==
  ASSUME SendersInv, RecvStanza
  PROVE  SendersInv'
PROOF
  <1>1. Reads("stanza") /\ client \in SendersClient
    BY BooksOpen DEF RecvStanza
  <1>2. /\ server' \in SendersServer /\ ServerAside /\ DownQuiet
        /\ connects' = connects /\ client.online
        /\ Head(server.down) \in SendersDown
        /\ Head(server.down)[1] = "stanza"
    BY <1>1, SendersRead DEF SendersInv
  <1>3. PICK st \in Nat : st = Head(server.down)[2]
    BY <1>2 DEF SendersDown
  <1>4. PICK n \in Nat : n = client.smHandled + 1
    BY <1>1 DEF SendersClient
  <1>5. PICK s \in Seq(Nat) : s = Append(client.seen, st)
    <2>1. client.seen \in Seq(Nat)
      BY <1>1 DEF SendersClient
    <2>2. Append(client.seen, st) \in Seq(Nat)
      BY <2>1, AppendProperties
    <2> QED BY <2>2
  <1>6. \/ client' = client
        \/ client' = [client EXCEPT !.smHandled = n, !.seen = s]
    BY <1>3, <1>4, <1>5 DEF RecvStanza, Handled
  <1>7. /\ client' \in SendersClient /\ Aside(client, client')
        /\ Account(client, client') /\ client'.up = client.up
    BY <1>1, <1>6 DEF SendersClient, Aside, Account
  <1>8. UpQuiet
    BY <1>7 DEF UpQuiet
  <1> QED BY <1>2, <1>7, <1>8, NothingYet, QuietKeeps DEF Aside

\* An acknowledgement takes from the queue.
LEMMA SendersAck ==
  ASSUME SendersInv, RecvAck
  PROVE  SendersInv'
PROOF
  <1>1. Reads("a") /\ client \in SendersClient
    BY BooksOpen DEF RecvAck
  <1>2. /\ server' \in SendersServer /\ ServerAside /\ DownQuiet
        /\ connects' = connects /\ client.online
    BY <1>1, SendersRead DEF SendersInv
  <1>3. connects # 0
    BY <1>2, NothingYet
  <1>4. CASE client' = client
    <2>1. Account(client, client') /\ UpQuiet
      BY <1>4 DEF Account, UpQuiet
    <2> QED BY <1>1, <1>2, <1>3, <1>4, <2>1, QuietKeeps
  <1>5. CASE client' # client
    <2>1. PICK q : q = Unhandled(client.smQueue, Head(server.down)[2])
      OBVIOUS
    <2>2. client' = [client EXCEPT !.smQueue = q]
          /\ client.smContext \in Managed
      BY <1>5, <2>1 DEF RecvAck
    <2>3. q \in Queues /\ DOMAIN q \subseteq DOMAIN client.smQueue
          /\ \A n \in DOMAIN q : q[n] = client.smQueue[n]
      <3>1. PICK N \in SUBSET Nat : client.smQueue \in [N -> Nat]
        BY <1>1 DEF SendersClient, Queues
      <3>2. PICK h : h = Head(server.down)[2]
        OBVIOUS
      <3>3. PICK M \in SUBSET Nat : M = {n \in N : n > h}
        BY <3>1
      <3>4. q = [n \in M |-> client.smQueue[n]] /\ M \subseteq N
        BY <2>1, <3>1, <3>2, <3>3 DEF Unhandled
      <3>5. q \in [M -> Nat]
        BY <3>1, <3>4
      <3> QED BY <3>1, <3>4, <3>5 DEF Queues
    <2>4. /\ client' \in SendersClient /\ Aside(client, client')
          /\ client'.up = client.up /\ client'.smQueue = q
          /\ client'.smSent = client.smSent
          /\ client'.written = client.written
          /\ client'.accepted = client.accepted /\ client'.made = client.made
      BY <1>1, <2>2, <2>3 DEF SendersClient, Aside
    <2>5. client.smContext = "Enabled" /\ Books(client) /\ client.told
      BY <1>2, <2>2, BooksOpen
    <2>6. Books(client')
      <3>1. IsInjective(client'.smQueue)
        BY <2>3, <2>4, <2>5 DEF Books, IsInjective
      <3>2. DOMAIN client'.smQueue \subseteq 1..client'.smSent
        BY <2>3, <2>4, <2>5 DEF Books
      <3>3. \A n \in DOMAIN client'.smQueue :
              /\ client'.smQueue[n] # client'.written
              /\ \E i \in DOMAIN client'.accepted :
                   client'.accepted[i] = client'.smQueue[n]
        BY <2>3, <2>4, <2>5 DEF Books
      <3> QED BY <2>4, <2>5, <3>1, <3>2, <3>3 DEF Books
    <2>7. SendersTypes' /\ Untold'
      BY <1>2, <1>3, <2>4, <2>5 DEF SendersInv, SendersTypes, Untold, Aside
    <2>8. OneStep' /\ Opened'
      BY <1>2, <2>4
         DEF SendersInv, OneStep, Opened, Aside, DownQuiet, ServerAside
    <2>9. Booked'
      BY <1>2, <2>4, <2>6 DEF Booked, Aside
    <2> QED BY <2>7, <2>8, <2>9 DEF SendersInv
  <1> QED BY <1>4, <1>5

-----------------------------------------------------------------------------
(* The theorem. *)

\* The initial states.
LEMMA SendersInit ==
  ASSUME Init, OneConnection
  PROVE  SendersInv
PROOF
  <1>1. <<>> \in Seq(SendersUp) /\ <<>> \in Seq(SendersDown)
        /\ <<>> \in Seq(1..MaxStanzas) /\ <<>> \in Seq(Nat)
    BY EmptySeq
  <1>2. <<>> \in Queues
    <2>1. {} \in SUBSET Nat /\ <<>> \in [{} -> Nat]
      OBVIOUS
    <2> QED BY <2>1 DEF Queues
  <1>3. MaxStanzas \in Nat /\ MaxConnects \in Nat
    BY ConstantsAssumption
  <1>4. 0 \in 0..MaxStanzas
    BY <1>3
  <1>5. client \in SendersClient
    BY <1>1, <1>2, <1>4 DEF Init, SendersClient
  <1>6. server \in SendersServer
    BY <1>1 DEF Init, SendersServer
  <1>7. SendersTypes
    BY <1>3, <1>5, <1>6 DEF Init, SendersTypes
  <1>8. Untold /\ Booked
    BY DEF Init, Untold, Fresh, Booked
  <1>9. client.up = <<>> /\ server.down = <<>> /\ ~server.attached
        /\ ~server.resumable
    BY DEF Init
  <1>10. OneStep /\ Opened
    BY <1>9 DEF OneStep, Opened, Free, Lone
  <1> QED BY <1>7, <1>8, <1>10 DEF SendersInv

\* Every step.
LEMMA SendersNext ==
  ASSUME SendersInv, [Next]_vars, OneConnection
  PROVE  SendersInv'
PROOF
  <1>1. CASE UNCHANGED vars
    BY <1>1 DEF vars, SendersInv, SendersTypes, Untold, OneStep, Opened, Booked
  <1>2. CASE ClientReads
    BY <1>2, SendersFeatures, SendersBound, SendersEnabled, NoResumption,
       SendersAck, SendersRequest, SendersStanza, SendersClose DEF ClientReads
  <1>3. CASE ServerReads
    BY <1>3, SendersBinds, SendersEnables, NoResumption, SendersTakes,
       SendersAcks, SendersHears, SendersHearsClose DEF ServerReads
  <1>4. CASE Connect \/ AppSends \/ AppSendsTag \/ ThreadWrites \/ ThreadKeeps
    BY <1>4, SendersConnect, SendersAppSends, SendersSendTags, SendersWrites,
       SendersKeeps
  <1>5. CASE AppAcks \/ AppDisconnects \/ SetStreamManagement \/ Lose
    BY <1>5, SendersAppAcks, SendersDisconnects, SendersSet, NoLosses
  <1>6. CASE \/ ServerSends \/ ServerSendsEarly \/ ServerRequests \/ ServerEnds
             \/ ServerGivesUp
    BY <1>6, SendersServerSends, SendersEarly, SendersRequests, SendersEnds,
       SendersGivesUp
  <1> QED BY <1>1, <1>2, <1>3, <1>4, <1>5, <1>6 DEF Next

\* The invariant says what is wanted.
LEMMA SendersMeaning ==
  ASSUME SendersInv
  PROVE  SendersCounted
PROOF
  <1>1. client.smContext \in Live <=> client.smContext = "Enabled"
    BY DEF SendersInv, SendersTypes, SendersClient, Live, Managed
  <1> QED BY <1>1 DEF SendersInv, Booked, Books, SendersCounted

\* With two senders on the one connection, the counter is right at any moment
\* but for the stanza between the two halves of send(), no number is given twice
\* and only the session's stanzas are kept: for every number of stanzas, every
\* application and whatever the server ends.
THEOREM SendersTheorem == OneConnection => (Spec => []SendersCounted)
PROOF
  <1> SUFFICES ASSUME OneConnection PROVE Spec => []SendersCounted
    OBVIOUS
  <1>1. Init => SendersInv
    BY SendersInit
  <1>2. SendersInv /\ [Next]_vars => SendersInv'
    BY SendersNext
  <1>3. SendersInv => SendersCounted
    BY SendersMeaning
  <1> QED BY <1>1, <1>2, <1>3, PTL DEF Spec
=============================================================================
