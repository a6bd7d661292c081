----------------------------- MODULE BooksProofs -----------------------------
(***************************************************************************)
(* Proofs about the books a client keeps of others: the roster and its     *)
(* presences, for every number of contacts, resources and changes, and a   *)
(* room, for every number of nicknames, roles and calls.                   *)
(***************************************************************************)
EXTENDS Roster, MucRoom, FiniteSetTheorems, TLAPS

-----------------------------------------------------------------------------
(* Sequences. *)

\* A set in a sequence.
LEMMA ListedOnce ==
  ASSUME NEW S, IsFiniteSet(S)
  PROVE  /\ SetToSeq(S) \in Seq(S)
         /\ \A k, l \in DOMAIN SetToSeq(S) : SetToSeq(S)[k] = SetToSeq(S)[l] => k = l
         /\ \A x \in S : \E k \in DOMAIN SetToSeq(S) : SetToSeq(S)[k] = x
PROOF
  <1> DEFINE n == Cardinality(S)
  <1>1. n \in Nat /\ ExistsBijection(1..n, S)
    BY FS_CardinalityType
  <1>2. \E f \in [1..n -> S] : IsInjective(f)
    BY <1>1 DEF ExistsBijection, Bijection, Injection, IsInjective
  <1>3. PICK f : f = SetToSeq(S)
    OBVIOUS
  <1>4. f \in [1..n -> S] /\ IsInjective(f)
    BY <1>2, <1>3 DEF SetToSeq
  <1>5. f \in Injection(1..n, S)
    BY <1>4 DEF Injection
  <1>6. Cardinality(1..n) = n
    BY <1>1, FS_Interval
  <1>7. f \in Surjection(1..n, S)
    BY <1>5, <1>6, FS_Injection
  <1>8. f \in Seq(S) /\ DOMAIN f = 1..n
    BY <1>1, <1>4
  <1> QED BY <1>3, <1>4, <1>7, <1>8 DEF IsInjective, Surjection

\* A sequence of one.
LEMMA Alone ==
  ASSUME NEW T, NEW e \in T
  PROVE  /\ <<e>> \in Seq(T) /\ Len(<<e>>) = 1 /\ <<e>>[1] = e /\ <<e>> # <<>>
         /\ \A i \in 1..Len(<<e>>) : <<e>>[i] = e
PROOF
  OBVIOUS

\* Two sequences, one after the other.
LEMMA Together ==
  ASSUME NEW T, NEW a \in Seq(T), NEW b \in Seq(T)
  PROVE  /\ a \o b \in Seq(T) /\ Len(a \o b) = Len(a) + Len(b)
         /\ Len(a) \in Nat /\ Len(b) \in Nat
         /\ \A i \in 1..Len(a) : (a \o b)[i] = a[i]
         /\ \A i \in 1..Len(a \o b) :
              i > Len(a) => i - Len(a) \in 1..Len(b) /\ (a \o b)[i] = b[i - Len(a)]
PROOF
  OBVIOUS

\* What the first k messages of q leave: the last of those in M is one of OK, or
\* there is none and s, which is there already, is one of F.
Latest(q, k, M, OK, s, F) ==
  \/ \E i \in 1..k : q[i] \in M \cap OK /\ \A j \in 1..k : q[j] \in M => j <= i
  \/ s \in F /\ \A j \in 1..k : q[j] \notin M

\* What comes later does not matter to the first k.
LEMMA LatestGrows ==
  ASSUME NEW T, NEW q \in Seq(T), NEW t \in Seq(T), NEW k \in 0..Len(q),
         NEW M, NEW OK, NEW s, NEW F
  PROVE  Latest(q \o t, k, M, OK, s, F) <=> Latest(q, k, M, OK, s, F)
PROOF
  <1>1. \A i \in 1..k : (q \o t)[i] = q[i]
    OBVIOUS
  <1> QED BY <1>1 DEF Latest

\* What says nothing of it changes nothing.
LEMMA LatestQuiet ==
  ASSUME NEW T, NEW q \in Seq(T), NEW t \in Seq(T), NEW k \in 0..Len(t),
         NEW M, NEW OK, NEW s, NEW F, Latest(q, Len(q), M, OK, s, F),
         \A i \in 1..k : t[i] \notin M
  PROVE  Latest(q \o t, Len(q) + k, M, OK, s, F)
PROOF
  <1>1. /\ \A i \in 1..Len(q) : (q \o t)[i] = q[i]
        /\ \A i \in 1..(Len(q) + k) : i \in 1..Len(q) \/ (i - Len(q) \in 1..k /\
              (q \o t)[i] = t[i - Len(q)])
    OBVIOUS
  <1>2. \A i \in 1..(Len(q) + k) : (q \o t)[i] \in M => i \in 1..Len(q)
    BY <1>1
  <1>3. \A i \in 1..Len(q) : i \in 1..(Len(q) + k)
    OBVIOUS
  <1> QED BY <1>1, <1>2, <1>3 DEF Latest

\* What comes last counts.
LEMMA LatestTold ==
  ASSUME NEW T, NEW q \in Seq(T), NEW t \in Seq(T), NEW k \in 0..Len(t), NEW i \in 1..k,
         NEW M, NEW OK, NEW s, NEW F, t[i] \in M \cap OK,
         \A j \in 1..k : t[j] \in M => j <= i
  PROVE  Latest(q \o t, Len(q) + k, M, OK, s, F)
PROOF
  <1> DEFINE n == Len(q) + i
  <1>1. n \in 1..(Len(q) + k) /\ (q \o t)[n] = t[i]
    OBVIOUS
  <1>2. ASSUME NEW j \in 1..(Len(q) + k), (q \o t)[j] \in M
        PROVE  j <= n
    <2>1. CASE j <= Len(q)
      BY <2>1
    <2>2. CASE j > Len(q)
      <3>1. j - Len(q) \in 1..k /\ (q \o t)[j] = t[j - Len(q)]
        BY <2>2
      <3>2. j - Len(q) <= i
        BY <3>1, <1>2
      <3> QED BY <3>2
    <2> QED BY <2>1, <2>2
  <1> HIDE DEF n
  <1> QED BY <1>1, <1>2 DEF Latest

\* The first message takes effect.
LEMMA LatestTaken ==
  ASSUME NEW T, NEW q \in Seq(T), q # <<>>, NEW k \in 1..Len(q),
         NEW M, NEW OK, NEW s, NEW z, NEW F, Latest(q, k, M, OK, s, F),
         Head(q) \in M \cap OK => z \in F,
         Head(q) \notin M /\ s \in F => z \in F
  PROVE  Latest(Tail(q), k - 1, M, OK, z, F)
PROOF
  <1>1. /\ \A i \in 1..(k - 1) : i + 1 \in 1..k /\ Tail(q)[i] = q[i + 1]
        /\ Head(q) = q[1] /\ 1 \in 1..k
    OBVIOUS
  <1>2. CASE \E i \in 1..k : q[i] \in M \cap OK /\ \A j \in 1..k : q[j] \in M => j <= i
    <2>1. PICK i \in 1..k : q[i] \in M \cap OK /\ \A j \in 1..k : q[j] \in M => j <= i
      BY <1>2
    <2>2. CASE i = 1
      <3>1. \A j \in 1..(k - 1) : Tail(q)[j] \notin M
        BY <1>1, <2>1, <2>2
      <3> QED BY <1>1, <2>1, <2>2, <3>1 DEF Latest
    <2>3. CASE i # 1
      <3>1. i - 1 \in 1..(k - 1) /\ (i - 1) + 1 = i
        BY <2>3
      <3>2. Tail(q)[i - 1] \in M \cap OK
        BY <1>1, <2>1, <3>1
      <3>3. \A j \in 1..(k - 1) : Tail(q)[j] \in M => j <= i - 1
        BY <1>1, <2>1
      <3> QED BY <3>1, <3>2, <3>3 DEF Latest
    <2> QED BY <2>2, <2>3
  <1>3. CASE s \in F /\ \A j \in 1..k : q[j] \notin M
    BY <1>1, <1>3 DEF Latest
  <1> QED BY <1>2, <1>3 DEF Latest

-----------------------------------------------------------------------------
(* The roster. *)

RosterItems == {NoItem} \cup [name : Names, changed : BOOLEAN, res : SUBSET Resources]
NameOrNone == Names \cup {NoName}

RosterSent == [kind : {"roster"}, items : [Contacts -> NameOrNone]]
PushSent == [kind : {"push"}, jid : Contacts, name : NameOrNone]
PresenceSent ==
  [kind : {"presence"}, jid : Contacts \cup {Me}, res : Resources, up : BOOLEAN]
OtherSent ==
  [kind : {"result"}] \cup [kind : {"subscription"}, jid : Contacts, wants : BOOLEAN]
SentDown == RosterSent \cup PushSent \cup PresenceSent \cup OtherSent
SentUp ==
  [kind : {"get"}] \cup [kind : {"set", "remove"}, jid : Contacts, name : NameOrNone]
    \cup [kind : {"subscribed", "unsubscribed"}, jid : Contacts]

\* What tells of contact c, and what says that its name is n, or that it is listed.
OfContact(c) == RosterSent \cup {m \in PushSent : m.jid = c}
Saying(c, n) == {m \in RosterSent : m.items[c] = n} \cup {m \in PushSent : m.name = n}
Listing(c) == {m \in RosterSent : m.items[c] # NoName} \cup {m \in PushSent : m.name # NoName}

\* What tells of resource r of contact c: a roster and a removal forget it.
PresencesOf(c) == {m \in PresenceSent : m.jid = c}
OfResource(c, r) ==
  RosterSent \cup {m \in PushSent : m.jid = c /\ m.name = NoName}
    \cup {m \in PresenceSent : m.jid = c /\ m.res = r}
Showing(b) == IF b THEN {m \in PresenceSent : m.up} ELSE SentDown \ {m \in PresenceSent : m.up}

\* Items as the server has them, items with or without a resource.
Fitting(n) ==
  IF n = NoName THEN {NoItem}
  ELSE {item \in RosterItems \ {NoItem} : item.changed \/ item.name = n}
Having(r, b) == {item \in RosterItems : r \in item.res <=> b}
OnList == RosterItems \ {NoItem}

\* The item of contact c, whom the server calls n and knows with resources P, will
\* be right once q has come; until then no presence is lost on it.
Agrees(c, q, item, n) ==
  Latest(q, Len(q), OfContact(c), Saying(c, n), item, Fitting(n))
HeardOf(c, q, item) ==
  \A i \in 1..Len(q) :
    q[i] \in PresencesOf(c) => Latest(q, i - 1, OfContact(c), Listing(c), item, OnList)
Shows(c, q, item, r, b) ==
  Latest(q, Len(q), OfResource(c, r), Showing(b), item, Having(r, b))
Booked(c, q, item, n, P) ==
  /\ Agrees(c, q, item, n) /\ HeardOf(c, q, item)
  /\ \A r \in Resources : Shows(c, q, item, r, n # NoName /\ r \in P)

\* Messages by their kinds.
LEMMA Sorts ==
  /\ \A m \in RosterSent : m.kind = "roster"
  /\ \A m \in PushSent : m.kind = "push"
  /\ \A m \in PresenceSent : m.kind = "presence"
  /\ \A m \in OtherSent : m.kind \in {"result", "subscription"}
PROOF
  BY DEF RosterSent, PushSent, PresenceSent, OtherSent

\* What is of a resource.
LEMMA OfResourceIs ==
  ASSUME NEW c, NEW r, NEW m, m \in OfResource(c, r)
  PROVE  m \in OfContact(c) \/ m \in PresencesOf(c)
PROOF
  BY DEF OfResource, OfContact, PresencesOf

\* Messages that are no matter of contact c.
LEMMA BookedQuiet ==
  ASSUME NEW c, NEW q \in Seq(SentDown), NEW t \in Seq(SentDown), NEW item, NEW n, NEW P,
         Booked(c, q, item, n, P),
         \A i \in 1..Len(t) : t[i] \notin OfContact(c) /\ t[i] \notin PresencesOf(c)
  PROVE  Booked(c, q \o t, item, n, P)
PROOF
  <1>1. Len(q \o t) = Len(q) + Len(t) /\ Len(t) \in 0..Len(t) /\ Len(q) \in Nat /\ Len(t) \in Nat
    OBVIOUS
  <1>2. Agrees(c, q \o t, item, n)
    <2>1. Latest(q, Len(q), OfContact(c), Saying(c, n), item, Fitting(n))
      BY DEF Booked, Agrees
    <2>2. Latest(q \o t, Len(q) + Len(t), OfContact(c), Saying(c, n), item, Fitting(n))
      BY <1>1, <2>1, LatestQuiet
    <2> QED BY <1>1, <2>2 DEF Agrees
  <1>3. HeardOf(c, q \o t, item)
    <2> SUFFICES ASSUME NEW i \in 1..Len(q \o t), (q \o t)[i] \in PresencesOf(c)
                 PROVE  Latest(q \o t, i - 1, OfContact(c), Listing(c), item, OnList)
      BY DEF HeardOf
    <2>1. i \in 1..Len(q) /\ (q \o t)[i] = q[i]
      <3>1. i \in 1..Len(q) \/ (i - Len(q) \in 1..Len(t) /\ (q \o t)[i] = t[i - Len(q)])
        BY <1>1
      <3>2. i \in 1..Len(q)
        BY <3>1
      <3> QED BY <3>2
    <2>2. Latest(q, i - 1, OfContact(c), Listing(c), item, OnList)
      BY <2>1 DEF Booked, HeardOf
    <2>3. i - 1 \in 0..Len(q)
      BY <2>1
    <2> QED BY <2>2, <2>3, LatestGrows
  <1>4. ASSUME NEW r \in Resources
        PROVE  Shows(c, q \o t, item, r, n # NoName /\ r \in P)
    <2> DEFINE S == Showing(n # NoName /\ r \in P)
               H == Having(r, n # NoName /\ r \in P)
    <2>1. Latest(q, Len(q), OfResource(c, r), S, item, H)
      BY DEF Booked, Shows
    <2>2. \A i \in 1..Len(t) : t[i] \notin OfResource(c, r)
      BY OfResourceIs
    <2> HIDE DEF S, H
    <2>3. Latest(q \o t, Len(q) + Len(t), OfResource(c, r), S, item, H)
      BY <1>1, <2>1, <2>2, LatestQuiet
    <2> QED BY <1>1, <2>3 DEF Shows, S, H
  <1> QED BY <1>2, <1>3, <1>4 DEF Booked

\* What tells that contact c, called n so far, is called m now, and of its
\* resources P if it was not on the list.
Tidings(c, t, n, m, P) ==
  /\ t \in Seq(SentDown) /\ t # <<>> /\ t[1] \in OfContact(c) \cap Saying(c, m)
  /\ n # NoName => t[1] \in PushSent
  /\ \A i \in 2..Len(t) :
       t[i] \notin OfContact(c)
       /\ (t[i] \in PresencesOf(c) => t[i].up /\ t[i].res \in P /\ n = NoName /\ m # NoName)
  /\ \A i, j \in 2..Len(t) :
       t[i] \in PresencesOf(c) /\ t[j] \in PresencesOf(c) /\ t[i].res = t[j].res => i = j
  /\ n = NoName /\ m # NoName
       => \A r \in P : \E i \in 2..Len(t) : t[i] \in PresencesOf(c) /\ t[i].res = r

\* What such a message m is besides.
TellsOf(c, n, m) ==
  /\ n # NoName => m \in Listing(c)
  /\ m \notin PresencesOf(c) /\ m \in Showing(FALSE)
  /\ \A r : m \in OfResource(c, r) <=> (m \in RosterSent \/ n = NoName)

\* What says a name.
LEMMA SayingIs ==
  ASSUME NEW c \in Contacts, NEW n, NEW m \in OfContact(c) \cap Saying(c, n)
  PROVE  TellsOf(c, n, m)
PROOF
  <1>1. m \notin PresenceSent /\ m \in SentDown
    BY Sorts DEF OfContact, SentDown
  <1>2. n # NoName => m \in Listing(c)
    BY DEF Saying, Listing
  <1>3. \A r : m \in OfResource(c, r) <=> m \in RosterSent \/ (m \in PushSent /\ m.name = NoName)
    BY <1>1 DEF OfResource, OfContact
  <1>4. m \in PushSent => m.name = n
    BY Sorts DEF Saying
  <1>5. m \in RosterSent \/ m \in PushSent
    BY DEF OfContact
  <1> QED BY <1>1, <1>2, <1>3, <1>4, <1>5 DEF TellsOf, PresencesOf, Showing

\* A message that tells what is so.
LEMMA BookedTold ==
  ASSUME NEW c \in Contacts, NEW q \in Seq(SentDown), NEW t, NEW item, NEW n, NEW m, NEW P,
         Booked(c, q, item, n, P), Tidings(c, t, n, m, P)
  PROVE  Booked(c, q \o t, item, m, P)
PROOF
  <1>1. /\ t \in Seq(SentDown) /\ Len(q \o t) = Len(q) + Len(t) /\ Len(q) \in Nat
        /\ Len(t) \in Nat /\ Len(t) >= 1
    BY DEF Tidings
  <1>2. t[1] \in OfContact(c) \cap Saying(c, m) /\ (n # NoName => t[1] \in PushSent)
    BY DEF Tidings
  <1>3. \A i \in 2..Len(t) :
          t[i] \notin OfContact(c)
          /\ (t[i] \in PresencesOf(c) => t[i].up /\ t[i].res \in P /\ n = NoName /\ m # NoName)
    BY DEF Tidings
  <1>4. /\ m # NoName => t[1] \in Listing(c)
        /\ t[1] \notin PresencesOf(c) /\ t[1] \in Showing(FALSE)
        /\ \A r : t[1] \in OfResource(c, r) <=> (t[1] \in RosterSent \/ m = NoName)
    <2>1. PICK x \in OfContact(c) \cap Saying(c, m) : x = t[1]
      BY <1>2
    <2>2. TellsOf(c, m, x)
      BY SayingIs
    <2> QED BY <2>1, <2>2 DEF TellsOf
  <1>5. \A i \in 1..Len(t) : i = 1 \/ i \in 2..Len(t)
    BY <1>1
  <1>6. ASSUME NEW k \in 1..Len(t)
        PROVE  \A j \in 1..k : t[j] \in OfContact(c) => j <= 1
    <2> SUFFICES ASSUME NEW j \in 1..k, t[j] \in OfContact(c), j # 1 PROVE FALSE
      BY <1>1
    <2>1. j \in 2..Len(t)
      BY <1>1
    <2> QED BY <1>3, <2>1
  <1>7. Agrees(c, q \o t, item, m)
    <2>1. 1 \in 1..Len(t) /\ Len(t) \in 0..Len(t) /\ Len(t) \in 1..Len(t)
      BY <1>1
    <2>2. \A j \in 1..Len(t) : t[j] \in OfContact(c) => j <= 1
      BY <1>6, <2>1
    <2>3. Latest(q \o t, Len(q) + Len(t), OfContact(c), Saying(c, m), item, Fitting(m))
      BY <1>1, <1>2, <2>1, <2>2, LatestTold
    <2> QED BY <1>1, <2>3 DEF Agrees
  <1>8. HeardOf(c, q \o t, item)
    <2> SUFFICES ASSUME NEW i \in 1..Len(q \o t), (q \o t)[i] \in PresencesOf(c)
                 PROVE  Latest(q \o t, i - 1, OfContact(c), Listing(c), item, OnList)
      BY DEF HeardOf
    <2>1. CASE i <= Len(q)
      <3>1. i \in 1..Len(q) /\ (q \o t)[i] = q[i] /\ i - 1 \in 0..Len(q)
        BY <1>1, <2>1
      <3>2. Latest(q, i - 1, OfContact(c), Listing(c), item, OnList)
        BY <3>1 DEF Booked, HeardOf
      <3> QED BY <1>1, <3>1, <3>2, LatestGrows
    <2>2. CASE i > Len(q)
      <3> DEFINE k == i - 1 - Len(q)
      <3>1. k + 1 \in 1..Len(t) /\ (q \o t)[i] = t[k + 1] /\ k + 1 = i - Len(q)
        BY <1>1, <2>2
      <3>2. k + 1 \in 2..Len(t)
        BY <1>4, <1>5, <3>1
      <3>3. m # NoName
        BY <1>3, <3>1, <3>2
      <3>4. k \in 1..Len(t) /\ k \in 0..Len(t) /\ 1 \in 1..k /\ i - 1 = Len(q) + k
        BY <1>1, <3>2
      <3> HIDE DEF k
      <3>5. \A j \in 1..k : t[j] \in OfContact(c) => j <= 1
        BY <1>6, <3>4
      <3>6. t[1] \in OfContact(c) \cap Listing(c)
        BY <1>2, <1>4, <3>3
      <3>7. Latest(q \o t, Len(q) + k, OfContact(c), Listing(c), item, OnList)
        BY <1>1, <3>4, <3>5, <3>6, LatestTold
      <3> QED BY <3>4, <3>7
    <2> QED BY <1>1, <2>1, <2>2
  <1>9. ASSUME NEW r \in Resources
        PROVE  Shows(c, q \o t, item, r, m # NoName /\ r \in P)
    <2> DEFINE b == m # NoName /\ r \in P
    <2>1. Len(t) \in 0..Len(t) /\ 1 \in 1..Len(t)
      BY <1>1
    <2>2. \A i \in 2..Len(t) : t[i] \in OfResource(c, r) => t[i] \in PresencesOf(c)
      BY <1>3, OfResourceIs
    <2>3. \A i \in 2..Len(t) : t[i] \in OfResource(c, r) => t[i].res = r
      BY <2>2, Sorts DEF OfResource, PresencesOf
    <2>4. CASE b /\ n = NoName
      <3>1. PICK i \in 2..Len(t) : t[i] \in PresencesOf(c) /\ t[i].res = r
        BY <2>4 DEF Tidings
      <3>2. t[i] \in OfResource(c, r) /\ t[i] \in Showing(TRUE)
        BY <1>3, <3>1 DEF OfResource, PresencesOf, Showing
      <3>3. \A j \in 2..Len(t) : t[j] \in OfResource(c, r) => j = i
        <4> SUFFICES ASSUME NEW j \in 2..Len(t), t[j] \in OfResource(c, r) PROVE j = i
          OBVIOUS
        <4>1. t[j] \in PresencesOf(c) /\ t[j].res = t[i].res
          BY <2>2, <2>3, <3>1
        <4> QED BY <3>1, <4>1 DEF Tidings
      <3>4. i \in 1..Len(t) /\ \A j \in 1..Len(t) : t[j] \in OfResource(c, r) => j <= i
        BY <1>1, <1>5, <3>3
      <3>5. t[i] \in OfResource(c, r) \cap Showing(TRUE)
        BY <3>2
      <3>6. Latest(q \o t, Len(q) + Len(t), OfResource(c, r), Showing(TRUE), item, Having(r, TRUE))
        BY <1>1, <2>1, <3>4, <3>5, LatestTold
      <3>7. b = TRUE
        BY <2>4
      <3> QED BY <1>1, <3>6, <3>7 DEF Shows
    <2>5. CASE ~(b /\ n = NoName)
      <3>1. \A i \in 2..Len(t) : t[i] \notin OfResource(c, r)
        <4> SUFFICES ASSUME NEW i \in 2..Len(t), t[i] \in OfResource(c, r) PROVE FALSE
          OBVIOUS
        <4>1. t[i] \in PresencesOf(c) /\ t[i].res = r
          BY <2>2, <2>3
        <4> QED BY <1>3, <2>5, <4>1
      <3>2. CASE t[1] \in OfResource(c, r)
        <4>1. b = FALSE
          <5>1. t[1] \in PushSent => m = NoName
            BY <1>4, <3>2, Sorts
          <5> QED BY <1>2, <2>5, <5>1
        <4>2. \A j \in 1..Len(t) : t[j] \in OfResource(c, r) => j <= 1
          BY <1>5, <3>1
        <4>3. t[1] \in OfResource(c, r) \cap Showing(FALSE)
          BY <1>4, <3>2
        <4>4. Latest(q \o t, Len(q) + Len(t), OfResource(c, r), Showing(FALSE), item,
                     Having(r, FALSE))
          BY <1>1, <2>1, <4>2, <4>3, LatestTold
        <4> QED BY <1>1, <4>1, <4>4 DEF Shows
      <3>3. CASE t[1] \notin OfResource(c, r)
        <4>1. \A i \in 1..Len(t) : t[i] \notin OfResource(c, r)
          BY <1>5, <3>1, <3>3
        <4>2. b = (n # NoName /\ r \in P)
          BY <1>4, <2>5, <3>3
        <4>3. Latest(q, Len(q), OfResource(c, r), Showing(b), item, Having(r, b))
          BY <4>2 DEF Booked, Shows
        <4> HIDE DEF b
        <4>4. Latest(q \o t, Len(q) + Len(t), OfResource(c, r), Showing(b), item, Having(r, b))
          BY <1>1, <2>1, <4>1, <4>3, LatestQuiet
        <4> QED BY <1>1, <4>4 DEF Shows, b
      <3> QED BY <3>2, <3>3
    <2> QED BY <2>4, <2>5
  <1> QED BY <1>7, <1>8, <1>9 DEF Booked

\* The server passes on that a resource of a listed contact comes or goes.
LEMMA BookedPresence ==
  ASSUME NEW c \in Contacts, NEW q \in Seq(SentDown), NEW item, NEW n, NEW P, NEW Q,
         Booked(c, q, item, n, P), n # NoName,
         NEW m \in PresencesOf(c), m.up <=> m.res \in Q,
         \A r \in Resources : r # m.res => (r \in P <=> r \in Q)
  PROVE  Booked(c, Append(q, m), item, n, Q)
PROOF
  <1> DEFINE t == <<m>>
  <1>1. /\ t \in Seq(SentDown) /\ Append(q, m) = q \o t /\ Len(t) = 1 /\ t[1] = m
        /\ Len(q \o t) = Len(q) + 1 /\ Len(q) \in Nat
    BY DEF PresencesOf, SentDown
  <1>2. m \in PresenceSent /\ m.jid = c /\ m.res \in Resources /\ m.up \in BOOLEAN
    BY DEF PresencesOf, PresenceSent
  <1>3. m \notin OfContact(c)
    BY <1>2, Sorts DEF OfContact
  <1>4. \A r : m \in OfResource(c, r) <=> r = m.res
    BY <1>2, Sorts DEF OfResource
  <1> HIDE DEF t
  <1>5. 1 \in 0..Len(t) /\ 0 \in 0..Len(t) /\ 1 \in 1..1 /\ (\A i \in 1..1 : i = 1)
    BY <1>1
  <1>6. Agrees(c, q \o t, item, n)
    <2>1. Latest(q, Len(q), OfContact(c), Saying(c, n), item, Fitting(n))
      BY DEF Booked, Agrees
    <2>2. \A i \in 1..1 : t[i] \notin OfContact(c)
      BY <1>1, <1>3, <1>5
    <2>3. Latest(q \o t, Len(q) + 1, OfContact(c), Saying(c, n), item, Fitting(n))
      BY <1>1, <1>5, <2>1, <2>2, LatestQuiet
    <2> QED BY <1>1, <2>3 DEF Agrees
  <1>7. Latest(q, Len(q), OfContact(c), Listing(c), item, OnList)
    <2>1. Latest(q, Len(q), OfContact(c), Saying(c, n), item, Fitting(n))
      BY DEF Booked, Agrees
    <2>2. OfContact(c) \cap Saying(c, n) \subseteq Listing(c)
      BY DEF Saying, Listing
    <2>3. Fitting(n) \subseteq OnList
      BY DEF Fitting, OnList
    <2> QED BY <2>1, <2>2, <2>3 DEF Latest
  <1>8. HeardOf(c, q \o t, item)
    <2> SUFFICES ASSUME NEW i \in 1..Len(q \o t), (q \o t)[i] \in PresencesOf(c)
                 PROVE  Latest(q \o t, i - 1, OfContact(c), Listing(c), item, OnList)
      BY DEF HeardOf
    <2>1. CASE i <= Len(q)
      <3>1. i \in 1..Len(q) /\ (q \o t)[i] = q[i] /\ i - 1 \in 0..Len(q)
        BY <1>1, <2>1
      <3>2. Latest(q, i - 1, OfContact(c), Listing(c), item, OnList)
        BY <3>1 DEF Booked, HeardOf
      <3> QED BY <1>1, <3>1, <3>2, LatestGrows
    <2>2. CASE i > Len(q)
      <3>1. i - 1 = Len(q) /\ Len(q) \in 0..Len(q)
        BY <1>1, <2>2
      <3>2. Latest(q \o t, Len(q), OfContact(c), Listing(c), item, OnList)
        BY <1>1, <1>7, <3>1, LatestGrows
      <3> QED BY <3>1, <3>2
    <2> QED BY <1>1, <2>1, <2>2
  <1>9. ASSUME NEW r \in Resources
        PROVE  Shows(c, q \o t, item, r, n # NoName /\ r \in Q)
    <2> DEFINE b == n # NoName /\ r \in Q
    <2>1. CASE r = m.res
      <3>1. b = m.up
        BY <2>1, <1>2
      <3>2. m \in Showing(b)
        BY <1>2, <3>1 DEF Showing, SentDown
      <3> HIDE DEF b
      <3>3. t[1] \in OfResource(c, r) \cap Showing(b)
        BY <1>1, <1>4, <2>1, <3>2
      <3>4. \A j \in 1..1 : t[j] \in OfResource(c, r) => j <= 1
        BY <1>5
      <3>5. Latest(q \o t, Len(q) + 1, OfResource(c, r), Showing(b), item, Having(r, b))
        BY <1>1, <1>5, <3>3, <3>4, LatestTold
      <3> QED BY <1>1, <3>5 DEF Shows, b
    <2>2. CASE r # m.res
      <3>1. \A i \in 1..1 : t[i] \notin OfResource(c, r)
        BY <1>1, <1>4, <1>5, <2>2
      <3>2. b = (n # NoName /\ r \in P)
        BY <2>2
      <3>3. Latest(q, Len(q), OfResource(c, r), Showing(b), item, Having(r, b))
        BY <3>2 DEF Booked, Shows
      <3> HIDE DEF b
      <3>4. Latest(q \o t, Len(q) + 1, OfResource(c, r), Showing(b), item, Having(r, b))
        BY <1>1, <1>5, <3>1, <3>3, LatestQuiet
      <3> QED BY <1>1, <3>4 DEF Shows, b
    <2> QED BY <2>1, <2>2
  <1> QED BY <1>1, <1>6, <1>8, <1>9 DEF Booked

\* What the client makes of the item of contact c at message m: z.
Taking(c, m, item, z) ==
  /\ \A n \in NameOrNone :
       /\ m \in OfContact(c) \cap Saying(c, n) => z \in Fitting(n)
       /\ m \notin OfContact(c) /\ item \in Fitting(n) => z \in Fitting(n)
  /\ \A r \in Resources, b \in BOOLEAN :
       /\ m \in OfResource(c, r) \cap Showing(b) => z \in Having(r, b)
       /\ m \notin OfResource(c, r) /\ item \in Having(r, b) => z \in Having(r, b)
  /\ m \in OfContact(c) \cap Listing(c) => z \in OnList
  /\ m \notin OfContact(c) /\ item \in OnList => z \in OnList

\* A presence finds the item it is for.
LEMMA HeardFirst ==
  ASSUME NEW c \in Contacts, NEW q \in Seq(SentDown), q # <<>>, NEW item,
         HeardOf(c, q, item), Head(q) \in PresencesOf(c)
  PROVE  item \in OnList
PROOF
  <1>1. 1 \in 1..Len(q) /\ q[1] = Head(q) /\ 1 - 1 = 0
    OBVIOUS
  <1>2. Latest(q, 0, OfContact(c), Listing(c), item, OnList)
    BY <1>1 DEF HeardOf
  <1> QED BY <1>2 DEF Latest

\* The item after the first message.
LEMMA BookedTaken ==
  ASSUME NEW c \in Contacts, NEW q \in Seq(SentDown), q # <<>>, NEW item, NEW z,
         NEW n \in NameOrNone, NEW P, Booked(c, q, item, n, P), Taking(c, Head(q), item, z)
  PROVE  Booked(c, Tail(q), z, n, P)
PROOF
  <1>1. Len(q) \in 1..Len(q) /\ Len(Tail(q)) = Len(q) - 1 /\ Tail(q) \in Seq(SentDown)
        /\ Len(q) \in Nat
    OBVIOUS
  <1>2. Agrees(c, Tail(q), z, n)
    <2>1. Latest(q, Len(q), OfContact(c), Saying(c, n), item, Fitting(n))
      BY DEF Booked, Agrees
    <2>2. /\ Head(q) \in OfContact(c) \cap Saying(c, n) => z \in Fitting(n)
          /\ Head(q) \notin OfContact(c) /\ item \in Fitting(n) => z \in Fitting(n)
      BY DEF Taking
    <2>3. Latest(Tail(q), Len(q) - 1, OfContact(c), Saying(c, n), z, Fitting(n))
      BY <1>1, <2>1, <2>2, LatestTaken
    <2> QED BY <1>1, <2>3 DEF Agrees
  <1>3. HeardOf(c, Tail(q), z)
    <2> SUFFICES ASSUME NEW i \in 1..Len(Tail(q)), Tail(q)[i] \in PresencesOf(c)
                 PROVE  Latest(Tail(q), i - 1, OfContact(c), Listing(c), z, OnList)
      BY DEF HeardOf
    <2>1. i + 1 \in 1..Len(q) /\ Tail(q)[i] = q[i + 1] /\ i \in 1..Len(q) /\ (i + 1) - 1 = i
      BY <1>1
    <2>2. Latest(q, i, OfContact(c), Listing(c), item, OnList)
      BY <2>1 DEF Booked, HeardOf
    <2>3. /\ Head(q) \in OfContact(c) \cap Listing(c) => z \in OnList
          /\ Head(q) \notin OfContact(c) /\ item \in OnList => z \in OnList
      BY DEF Taking
    <2> QED BY <2>1, <2>2, <2>3, LatestTaken
  <1>4. ASSUME NEW r \in Resources
        PROVE  Shows(c, Tail(q), z, r, n # NoName /\ r \in P)
    <2>1. PICK b \in BOOLEAN : b = (n # NoName /\ r \in P)
      OBVIOUS
    <2>2. Latest(q, Len(q), OfResource(c, r), Showing(b), item, Having(r, b))
      BY <2>1 DEF Booked, Shows
    <2>3. /\ Head(q) \in OfResource(c, r) \cap Showing(b) => z \in Having(r, b)
          /\ Head(q) \notin OfResource(c, r) /\ item \in Having(r, b) => z \in Having(r, b)
      BY DEF Taking
    <2>4. Latest(Tail(q), Len(q) - 1, OfResource(c, r), Showing(b), z, Having(r, b))
      BY <1>1, <2>2, <2>3, LatestTaken
    <2> QED BY <1>1, <2>1, <2>4 DEF Shows
  <1> QED BY <1>2, <1>3, <1>4 DEF Booked

\* The application gives an item another name.
LEMMA BookedRenamed ==
  ASSUME NEW c \in Contacts, NEW q \in Seq(SentDown), NEW item \in OnList, NEW z \in OnList,
         z.changed, z.res = item.res, NEW n, NEW P, Booked(c, q, item, n, P)
  PROVE  Booked(c, q, z, n, P)
PROOF
  <1>1. item \in Fitting(n) => z \in Fitting(n)
    BY DEF Fitting, OnList
  <1>2. \A r, b : item \in Having(r, b) => z \in Having(r, b)
    BY DEF Having, OnList
  <1>3. Agrees(c, q, z, n)
    BY <1>1 DEF Booked, Agrees, Latest
  <1>4. HeardOf(c, q, z)
    BY DEF Booked, HeardOf, Latest
  <1>5. \A r \in Resources : Shows(c, q, z, r, n # NoName /\ r \in P)
    <2> TAKE r \in Resources
    <2>1. PICK b : b = (n # NoName /\ r \in P)
      OBVIOUS
    <2>2. Shows(c, q, item, r, b)
      BY <2>1 DEF Booked
    <2>3. Shows(c, q, z, r, b)
      BY <1>2, <2>2 DEF Shows, Latest
    <2> QED BY <2>1, <2>3
  <1> QED BY <1>3, <1>4, <1>5 DEF Booked

\* Items.
LEMMA ItemKinds ==
  /\ NoItem \in RosterItems /\ NoItem.name = NoName /\ NoItem.res = {}
  /\ \A item \in OnList : /\ item.name \in Names /\ item.changed \in BOOLEAN
                         /\ item.res \in SUBSET Resources
                         /\ item \in [name : Names, changed : BOOLEAN, res : SUBSET Resources]
  /\ \A item \in [name : Names, changed : BOOLEAN, res : SUBSET Resources] :
       item \in RosterItems /\ item # NoItem /\ item \in OnList
PROOF
  BY RosterAssumption DEF RosterItems, OnList, NoItem

\* An item of the roster.
LEMMA ItemIs ==
  ASSUME NEW n \in Names
  PROVE  /\ Item(n) \in [name : Names, changed : BOOLEAN, res : SUBSET Resources]
         /\ Item(n).name = n /\ Item(n).res = {}
PROOF
  BY DEF Item

\* The whole roster.
LEMMA TakesRoster ==
  ASSUME NEW c \in Contacts, NEW m \in RosterSent, NEW z,
         z = IF m.items[c] = NoName THEN NoItem ELSE Item(m.items[c])
  PROVE  z \in RosterItems /\ Taking(c, m, NoItem, z)
PROOF
  <1>1. /\ m \in OfContact(c) /\ m \notin PushSent /\ m \notin PresenceSent
        /\ m.items[c] \in NameOrNone
    BY Sorts DEF OfContact, RosterSent
  <1>2. m.items[c] # NoName =>
          z \in [name : Names, changed : BOOLEAN, res : SUBSET Resources]
          /\ z.name = m.items[c] /\ z.res = {}
    BY <1>1 DEF Item, NameOrNone
  <1>3. z \in RosterItems /\ z.res = {}
    BY <1>2, ItemKinds
  <1>4. \A n : m \in Saying(c, n) => n = m.items[c]
    BY <1>1 DEF Saying
  <1>5. \A n : m \in Saying(c, n) => z \in Fitting(n)
    BY <1>2, <1>4, ItemKinds DEF Fitting, OnList
  <1>6. m \in Listing(c) => z \in OnList
    BY <1>1, <1>2, ItemKinds DEF Listing
  <1>7. \A r : m \in OfResource(c, r) /\ m \notin Showing(TRUE)
    BY <1>1 DEF OfResource, Showing
  <1>8. \A r : z \in Having(r, FALSE)
    BY <1>3 DEF Having
  <1> QED BY <1>1, <1>3, <1>5, <1>6, <1>7, <1>8 DEF Taking

\* What mergePush() makes of an item.
Merged(item, n) ==
  IF item # NoItem THEN IF n = NoName THEN Removed1(item) ELSE Updated(item, n)
  ELSE IF n = NoName THEN item ELSE Item(n)

\* A push.
LEMMA TakesPush ==
  ASSUME NEW c \in Contacts, NEW m \in PushSent, NEW item \in RosterItems, NEW z,
         z = IF c = m.jid THEN Merged(item, m.name) ELSE item
  PROVE  z \in RosterItems /\ Taking(c, m, item, z)
PROOF
  <1>1. m \notin RosterSent /\ m \notin PresenceSent /\ m.name \in NameOrNone
    BY Sorts DEF PushSent
  <1>2. CASE c # m.jid
    <2>1. m \notin OfContact(c) /\ \A r : m \notin OfResource(c, r)
      BY <1>1, <1>2 DEF OfContact, OfResource
    <2> QED BY <1>2, <2>1 DEF Taking
  <1>3. CASE c = m.jid /\ m.name = NoName
    <2>1. z = NoItem
      BY <1>3 DEF Merged, Removed1
    <2>2. m \in OfContact(c) /\ m \notin Listing(c)
      BY <1>1, <1>3 DEF OfContact, Listing
    <2>3. \A n : m \in Saying(c, n) => z \in Fitting(n)
      BY <1>1, <1>3, <2>1 DEF Saying, Fitting
    <2>4. \A r : m \in OfResource(c, r) /\ m \notin Showing(TRUE) /\ z \in Having(r, FALSE)
      BY <1>1, <1>3, <2>1, ItemKinds DEF OfResource, Showing, Having
    <2> QED BY <2>1, <2>2, <2>3, <2>4, ItemKinds DEF Taking
  <1>4. CASE c = m.jid /\ m.name # NoName
    <2>1. m \in OfContact(c) /\ \A r : m \notin OfResource(c, r)
      BY <1>1, <1>4 DEF OfContact, OfResource
    <2>2. z \in [name : Names, changed : BOOLEAN, res : SUBSET Resources]
          /\ z.name = m.name /\ z.res = item.res
      <3>1. m.name \in Names
        BY <1>1, <1>4 DEF NameOrNone
      <3>2. CASE item = NoItem
        <4>1. z = Item(m.name)
          BY <1>4, <3>2 DEF Merged
        <4>2. item.res = {}
          BY <3>2, ItemKinds
        <4> QED BY <3>1, <4>1, <4>2, ItemIs
      <3>3. CASE item # NoItem
        <4>1. z = [item EXCEPT !.name = m.name, !.changed = FALSE]
          BY <1>4, <3>3 DEF Merged, Updated
        <4>2. item \in [name : Names, changed : BOOLEAN, res : SUBSET Resources]
          BY <3>3, ItemKinds DEF OnList
        <4> QED BY <3>1, <4>1, <4>2
      <3> QED BY <3>2, <3>3
    <2>3. z \in OnList /\ z \in RosterItems
      BY <2>2, ItemKinds
    <2>4. \A n : m \in Saying(c, n) => z \in Fitting(n)
      BY <1>1, <1>4, <2>2, <2>3 DEF Saying, Fitting, OnList
    <2>5. \A r, b : item \in Having(r, b) => z \in Having(r, b)
      BY <2>2, <2>3 DEF Having
    <2> QED BY <2>1, <2>3, <2>4, <2>5 DEF Taking
  <1> QED BY <1>2, <1>3, <1>4

\* A presence.
LEMMA TakesPresence ==
  ASSUME NEW c \in Contacts, NEW m \in PresenceSent, NEW item \in RosterItems, NEW z,
         m.jid = c => item \in OnList,
         z = IF c = m.jid THEN [item EXCEPT !.res = WithResource(@, m)] ELSE item
  PROVE  z \in RosterItems /\ Taking(c, m, item, z)
PROOF
  <1>1. /\ m \notin RosterSent /\ m \notin PushSent /\ m \notin OfContact(c)
        /\ m.res \in Resources /\ m.up \in BOOLEAN
    BY Sorts DEF PresenceSent, OfContact
  <1>2. CASE c # m.jid
    <2>1. \A r : m \notin OfResource(c, r)
      BY <1>1, <1>2 DEF OfResource
    <2> QED BY <1>1, <1>2, <2>1 DEF Taking
  <1>3. CASE c = m.jid
    <2>1. PICK R : R = WithResource(item.res, m)
      OBVIOUS
    <2>2. z = [item EXCEPT !.res = R]
      BY <1>3, <2>1
    <2>3. item \in [name : Names, changed : BOOLEAN, res : SUBSET Resources]
      BY <1>3, ItemKinds
    <2>4. R \subseteq Resources
      BY <1>1, <2>1, <2>3 DEF WithResource
    <2>5. /\ z \in [name : Names, changed : BOOLEAN, res : SUBSET Resources]
          /\ z.res = R /\ z.name = item.name /\ z.changed = item.changed
      BY <2>2, <2>3, <2>4
    <2>6. z \in OnList /\ z \in RosterItems /\ item \in OnList /\ item # NoItem /\ z # NoItem
      BY <2>3, <2>5, ItemKinds
    <2>7. \A n : item \in Fitting(n) => z \in Fitting(n)
      BY <2>5, <2>6 DEF Fitting, OnList
    <2>8. \A r : m \in OfResource(c, r) <=> r = m.res
      BY <1>1, <1>3 DEF OfResource
    <2>9. /\ m.res \in R <=> m.up
          /\ \A r : r # m.res => (r \in R <=> r \in item.res)
      BY <2>1 DEF WithResource
    <2>10. \A b \in BOOLEAN : m \in Showing(b) => (b <=> m.up)
      BY <1>1 DEF Showing
    <2>11. \A b \in BOOLEAN : m \in Showing(b) => z \in Having(m.res, b)
      BY <2>5, <2>6, <2>9, <2>10 DEF Having
    <2>12. \A r, b : r # m.res /\ item \in Having(r, b) => z \in Having(r, b)
      BY <2>5, <2>6, <2>9 DEF Having
    <2> QED BY <1>1, <2>6, <2>7, <2>8, <2>11, <2>12 DEF Taking
  <1> QED BY <1>2, <1>3

\* Anything else.
LEMMA TakesOther ==
  ASSUME NEW c \in Contacts, NEW m \in OtherSent, NEW item \in RosterItems
  PROVE  Taking(c, m, item, item)
PROOF
  <1>1. m \notin RosterSent /\ m \notin PushSent /\ m \notin PresenceSent
    BY Sorts
  <1>2. m \notin OfContact(c) /\ \A r : m \notin OfResource(c, r)
    BY <1>1 DEF OfContact, OfResource
  <1> QED BY <1>2 DEF Taking

-----------------------------------------------------------------------------

RosterTypes ==
  /\ roster \in [Contacts -> RosterItems] /\ server \in [Contacts -> NameOrNone]
  /\ present \in [Contacts \cup {Me} -> SUBSET Resources]
  /\ up \in Seq(SentUp) /\ down \in Seq(SentDown)
  /\ online \in BOOLEAN /\ filled \in BOOLEAN

\* The roster is asked for once, answered first, and taken before anything else.
RosterLink ==
  /\ ~online => up = <<>> /\ down = <<>>
  /\ online /\ ~Interested => up = <<[kind |-> "get"]>> /\ down = <<>> /\ ~filled
  /\ online /\ ~filled => \A c \in Contacts : roster[c] = NoItem
  /\ Interested /\ ~filled => down # <<>> /\ Head(down) \in RosterSent
  /\ \A i \in 1..Len(down) : down[i] \in RosterSent => i = 1 /\ ~filled

AllBooked ==
  \A c \in Contacts : Booked(c, down, roster[c], server[c], present[c])

RosterInv == RosterTypes /\ RosterLink /\ (Interested => AllBooked)

\* A new roster.
LEMMA RosterStart == RosterInit => RosterInv
PROOF
  <1> SUFFICES ASSUME RosterInit PROVE RosterInv
    OBVIOUS
  <1>1. /\ up = <<>> /\ down = <<>> /\ ~online /\ online \in BOOLEAN /\ filled \in BOOLEAN
        /\ ~Interested
    BY DEF RosterInit, Interested
  <1>2. roster \in [Contacts -> RosterItems] /\ server \in [Contacts -> NameOrNone]
        /\ present \in [Contacts \cup {Me} -> SUBSET Resources]
    BY ItemKinds DEF RosterInit, NameOrNone
  <1>3. up \in Seq(SentUp) /\ down \in Seq(SentDown)
    BY <1>1
  <1> QED BY <1>1, <1>2, <1>3 DEF RosterInv, RosterTypes, RosterLink

\* Nothing on its way: as the invariant, so the mirror.
LEMMA RosterBooks == RosterInv => RosterMirrors /\ PresenceMirrors
PROOF
  <1> SUFFICES ASSUME RosterInv, AtRest, NEW c \in Contacts
               PROVE  /\ (roster[c] = NoItem) = (server[c] = NoName)
                      /\ roster[c] # NoItem /\ ~roster[c].changed => roster[c].name = server[c]
                      /\ roster[c] # NoItem => roster[c].res = present[c]
    BY DEF RosterMirrors, PresenceMirrors
  <1>1. Interested /\ down = <<>>
    BY DEF AtRest, Interested
  <1>2. Booked(c, <<>>, roster[c], server[c], present[c])
    BY <1>1 DEF RosterInv, AllBooked
  <1>3. \A M, OK, s, F : Latest(<<>>, Len(<<>>), M, OK, s, F) => s \in F
    BY DEF Latest
  <1>4. roster[c] \in Fitting(server[c])
    BY <1>2, <1>3 DEF Booked, Agrees
  <1>5. roster[c] \in RosterItems /\ server[c] \in NameOrNone /\ present[c] \subseteq Resources
    BY DEF RosterInv, RosterTypes
  <1>6. /\ (roster[c] = NoItem) = (server[c] = NoName)
        /\ roster[c] # NoItem /\ ~roster[c].changed => roster[c].name = server[c]
    BY <1>4 DEF Fitting
  <1>7. ASSUME roster[c] # NoItem
        PROVE  roster[c].res = present[c]
    <2>1. roster[c].res \subseteq Resources
      BY <1>5, <1>7, ItemKinds DEF OnList
    <2>2. server[c] # NoName
      BY <1>6, <1>7
    <2>3. ASSUME NEW r \in Resources PROVE r \in roster[c].res <=> r \in present[c]
      <3>1. PICK b : b = (server[c] # NoName /\ r \in present[c])
        OBVIOUS
      <3>2. roster[c] \in Having(r, b)
        BY <1>2, <1>3, <3>1 DEF Booked, Shows
      <3> QED BY <2>2, <3>1, <3>2 DEF Having
    <2> QED BY <1>5, <2>1, <2>3
  <1> QED BY <1>6, <1>7

\* The client takes a message.
LEMMA RosterTaken ==
  ASSUME RosterInv, down # <<>>, down' = Tail(down), filled', filled' \in BOOLEAN,
         roster' \in [Contacts -> RosterItems],
         \A c \in Contacts : Taking(c, Head(down), roster[c], roster'[c]),
         NEW t \in Seq(SentUp), up' = up \o t, \A i \in 1..Len(t) : t[i].kind # "get",
         UNCHANGED <<online, server, present>>
  PROVE  RosterInv'
PROOF
  <1>1. online /\ Interested
    BY DEF RosterInv, RosterLink
  <1>2. RosterTypes'
    BY DEF RosterInv, RosterTypes
  <1>3. Interested'
    <2>1. \A i \in 1..Len(up') : up'[i].kind # "get"
      BY <1>1 DEF RosterInv, RosterTypes, Interested
    <2> QED BY <1>1, <1>2, <2>1 DEF Interested, RosterTypes
  <1>4. \A i \in 1..Len(down') : down'[i] \notin RosterSent
    <2> SUFFICES ASSUME NEW i \in 1..Len(down') PROVE down'[i] \notin RosterSent
      OBVIOUS
    <2>1. i + 1 \in 1..Len(down) /\ down'[i] = down[i + 1] /\ i + 1 # 1
      BY DEF RosterInv, RosterTypes
    <2> QED BY <2>1 DEF RosterInv, RosterLink
  <1>5. RosterLink'
    BY <1>1, <1>3, <1>4 DEF RosterLink
  <1>6. ASSUME NEW c \in Contacts
        PROVE  Booked(c, down', roster'[c], server'[c], present'[c])
    <2>1. Booked(c, down, roster[c], server[c], present[c]) /\ server[c] \in NameOrNone
      BY <1>1 DEF RosterInv, AllBooked, RosterTypes
    <2>2. down \in Seq(SentDown)
      BY DEF RosterInv, RosterTypes
    <2> QED BY <2>1, <2>2, BookedTaken
  <1> QED BY <1>2, <1>5, <1>6 DEF RosterInv, AllBooked

\* The server sends something.
LEMMA RosterTold ==
  ASSUME RosterInv, Interested, NEW t \in Seq(SentDown), down' = down \o t,
         \A i \in 1..Len(t) : t[i] \notin RosterSent, up' \in Seq(SentUp), Interested',
         server' \in [Contacts -> NameOrNone],
         present' \in [Contacts \cup {Me} -> SUBSET Resources],
         \A c \in Contacts : Booked(c, down', roster[c], server'[c], present'[c]),
         UNCHANGED <<roster, filled, online>>
  PROVE  RosterInv'
PROOF
  <1>1. online /\ down \in Seq(SentDown)
    BY DEF Interested, RosterInv, RosterTypes
  <1>2. RosterTypes'
    BY DEF RosterInv, RosterTypes
  <1>3. ASSUME NEW i \in 1..Len(down'), down'[i] \in RosterSent
        PROVE  i = 1 /\ ~filled
    <2>1. i \in 1..Len(down) \/ (i - Len(down) \in 1..Len(t) /\ down'[i] = t[i - Len(down)])
      BY <1>1
    <2>2. i \in 1..Len(down)
      BY <1>3, <2>1
    <2>3. down'[i] = down[i]
      BY <1>1, <2>2
    <2> QED BY <1>3, <2>2, <2>3 DEF RosterInv, RosterLink
  <1>4. ~filled => down' # <<>> /\ Head(down') = Head(down)
    BY <1>1 DEF RosterInv, RosterLink
  <1>5. RosterLink'
    BY <1>1, <1>3, <1>4 DEF RosterInv, RosterLink
  <1> QED BY <1>2, <1>5 DEF RosterInv, AllBooked

\* The roster is asked for once.
LEMMA RosterAsked ==
  ASSUME RosterInv, filled /\ online PROVE Interested /\ Interested = TRUE
PROOF
  BY DEF RosterInv, RosterLink, Interested

\* The application asks the server for something.
LEMMA RosterAsks ==
  ASSUME RosterInv, filled /\ online, NEW t \in Seq(SentUp), up' = up \o t,
         \A i \in 1..Len(t) : t[i].kind # "get",
         UNCHANGED <<roster, filled, online, down, server, present>>
  PROVE  RosterInv'
PROOF
  <1>1. Interested
    BY RosterAsked
  <1>2. RosterTypes'
    BY DEF RosterInv, RosterTypes
  <1>3. Interested'
    <2>1. \A i \in 1..Len(up') : up'[i].kind # "get"
      BY <1>1 DEF RosterInv, RosterTypes, Interested
    <2> QED BY <1>2, <2>1 DEF Interested, RosterTypes
  <1>4. RosterLink'
    BY <1>3 DEF RosterInv, RosterLink
  <1> QED BY <1>1, <1>2, <1>4 DEF RosterInv, AllBooked

\* What is on its way up.
LEMMA UpIs ==
  /\ \A k \in {"set", "remove"}, c \in Contacts, n \in NameOrNone :
       [kind |-> k, jid |-> c, name |-> n] \in SentUp
  /\ \A k \in {"subscribed", "unsubscribed"}, c \in Contacts :
       [kind |-> k, jid |-> c] \in SentUp
  /\ [kind |-> "get"] \in SentUp
PROOF
  BY DEF SentUp

\* The roster is asked for.
LEMMA FillKeeps ==
  ASSUME RosterInv, Fill PROVE RosterInv'
PROOF
  <1>1. up' = <<[kind |-> "get"]>> /\ down = <<>> /\ down' = <<>> /\ ~filled' /\ online'
        /\ online' \in BOOLEAN /\ filled' \in BOOLEAN
    BY DEF Fill, RosterInv, RosterLink
  <1>2. ~Interested'
    BY <1>1 DEF Interested
  <1>3. roster' = [c \in Contacts |-> NoItem] /\ server' = server /\ present' = present
    BY DEF Fill
  <1>4. up' \in Seq(SentUp) /\ down' \in Seq(SentDown)
    BY <1>1, UpIs
  <1>5. RosterTypes'
    BY <1>1, <1>3, <1>4, ItemKinds DEF RosterInv, RosterTypes
  <1>6. RosterLink'
    BY <1>1, <1>2, <1>3 DEF RosterLink
  <1> QED BY <1>2, <1>5, <1>6 DEF RosterInv

\* The stream is lost.
LEMMA LoseKeeps ==
  ASSUME RosterInv, LoseRosterLink PROVE RosterInv'
PROOF
  <1>1. up' = <<>> /\ down' = <<>> /\ ~online' /\ online' \in BOOLEAN
        /\ UNCHANGED <<roster, filled, server, present>>
    BY DEF LoseRosterLink
  <1>2. ~Interested'
    BY <1>1 DEF Interested
  <1>3. up' \in Seq(SentUp) /\ down' \in Seq(SentDown)
    BY <1>1
  <1> QED BY <1>1, <1>2, <1>3 DEF RosterInv, RosterTypes, RosterLink

\* add() and remove().
LEMMA PutKeeps ==
  ASSUME RosterInv, NEW k \in {"set", "remove"}, NEW c \in Contacts, NEW n \in NameOrNone,
         filled /\ online, Put(k, c, n), UNCHANGED <<roster, filled, online, down, server, present>>
  PROVE  RosterInv'
PROOF
  <1>1. PICK e \in SentUp : e = [kind |-> k, jid |-> c, name |-> n]
    BY UpIs
  <1>2. PICK t \in Seq(SentUp) : t = <<e>>
    BY Alone
  <1>3. up' = up \o t /\ \A i \in 1..Len(t) : t[i].kind # "get"
    BY <1>1, <1>2 DEF Put, RosterInv, RosterTypes
  <1> QED BY <1>3, RosterAsks

\* synchronize() sends what was changed.
LEMMA SynchronizeKeeps ==
  ASSUME RosterInv, Synchronize PROVE RosterInv'
PROOF
  <1> DEFINE s == SetToSeq(ChangedItems)
             t == [i \in DOMAIN s |-> [kind |-> "set", jid |-> s[i], name |-> roster[s[i]].name]]
  <1>1. filled /\ online /\ UNCHANGED <<roster, filled, online, down, server, present>>
        /\ up' = up \o t
    BY DEF Synchronize
  <1>2. IsFiniteSet(ChangedItems) /\ ChangedItems \subseteq Contacts
    BY RosterAssumption, FS_Subset DEF ChangedItems
  <1>3. s \in Seq(ChangedItems)
    BY <1>2, ListedOnce
  <1>4. \A c \in ChangedItems : c \in Contacts /\ roster[c].name \in NameOrNone
    BY ItemKinds DEF ChangedItems, RosterInv, RosterTypes, OnList, NameOrNone
  <1> HIDE DEF s
  <1>5. DOMAIN s = 1..Len(s) /\ Len(s) \in Nat /\ \A i \in 1..Len(s) : s[i] \in ChangedItems
    BY <1>3
  <1>6. \A i \in 1..Len(s) :
          [kind |-> "set", jid |-> s[i], name |-> roster[s[i]].name] \in SentUp
    BY <1>4, <1>5, UpIs
  <1>7. t \in Seq(SentUp) /\ Len(t) = Len(s)
    BY <1>5, <1>6
  <1>8. \A i \in 1..Len(t) : t[i].kind # "get"
    BY <1>5, <1>7
  <1> HIDE DEF t
  <1> QED BY <1>1, <1>7, <1>8, RosterAsks

\* The application renames an item.
LEMMA RenameKeeps ==
  ASSUME RosterInv, NEW c \in Contacts, NEW n \in Names, Rename(c, n)
  PROVE  RosterInv'
PROOF
  <1>1. /\ roster[c] # NoItem /\ UNCHANGED <<filled, online, up, down, server, present>>
        /\ roster' = [roster EXCEPT ![c].name = n, ![c].changed = TRUE]
    BY DEF Rename
  <1>2. roster \in [Contacts -> RosterItems]
    BY DEF RosterInv, RosterTypes
  <1>3. roster[c] \in OnList
        /\ roster[c] \in [name : Names, changed : BOOLEAN, res : SUBSET Resources]
    BY <1>1, <1>2, ItemKinds DEF OnList
  <1>4. PICK z : z = [roster[c] EXCEPT !.name = n, !.changed = TRUE]
    OBVIOUS
  <1>5. z \in [name : Names, changed : BOOLEAN, res : SUBSET Resources] /\ z.changed
        /\ z.res = roster[c].res
    BY <1>3, <1>4
  <1>6. z \in OnList /\ z \in RosterItems
    BY <1>5, ItemKinds
  <1>7. roster'[c] = z /\ \A d \in Contacts : d # c => roster'[d] = roster[d]
    BY <1>1, <1>2, <1>4
  <1>8. roster' \in [Contacts -> RosterItems]
    BY <1>1, <1>2, <1>6, <1>7
  <1>9. RosterTypes' /\ (Interested' <=> Interested)
    BY <1>1, <1>8 DEF RosterInv, RosterTypes, Interested
  <1>10. ~(online /\ ~filled)
    BY <1>1 DEF RosterInv, RosterLink
  <1>11. RosterLink'
    BY <1>1, <1>9, <1>10 DEF RosterInv, RosterLink
  <1>12. ASSUME Interested, NEW d \in Contacts
         PROVE  Booked(d, down, roster'[d], server[d], present[d])
    <2>1. Booked(d, down, roster[d], server[d], present[d])
      BY <1>12 DEF RosterInv, AllBooked
    <2>2. CASE d # c
      BY <1>7, <2>1, <2>2
    <2>3. CASE d = c
      <3>1. Booked(c, down, roster[c], server[c], present[c]) /\ down \in Seq(SentDown)
        BY <2>1, <2>3 DEF RosterInv, RosterTypes
      <3>2. Booked(c, down, z, server[c], present[c])
        BY <1>3, <1>5, <1>6, <3>1, BookedRenamed
      <3> QED BY <1>7, <2>3, <3>2
    <2> QED BY <2>2, <2>3
  <1> QED BY <1>1, <1>9, <1>11, <1>12 DEF RosterInv, AllBooked

\* A message that is taken came when the roster was known, or is the roster.
LEMMA RosterReads ==
  ASSUME RosterInv, down # <<>>
  PROVE  /\ Interested /\ AllBooked /\ Head(down) \in SentDown /\ down \in Seq(SentDown)
         /\ filled <=> Head(down) \notin RosterSent
         /\ roster \in [Contacts -> RosterItems]
         /\ ~filled => \A c \in Contacts : roster[c] = NoItem
PROOF
  <1>1. online /\ Interested
    BY DEF RosterInv, RosterLink
  <1>2. Head(down) = down[1] /\ 1 \in 1..Len(down) /\ Head(down) \in SentDown
        /\ down \in Seq(SentDown)
    BY DEF RosterInv, RosterTypes
  <1>3. filled <=> Head(down) \notin RosterSent
    BY <1>1, <1>2 DEF RosterInv, RosterLink
  <1> QED BY <1>1, <1>2, <1>3 DEF RosterInv, RosterLink, RosterTypes

\* Messages down by their kinds.
LEMMA SentOfKind ==
  ASSUME NEW m \in SentDown
  PROVE  /\ m.kind = "roster" => m \in RosterSent
         /\ m.kind = "push" => m \in PushSent
         /\ m.kind = "presence" => m \in PresenceSent
         /\ m.kind \in {"result", "subscription"} => m \in OtherSent
PROOF
  BY Sorts DEF SentDown

\* The roster was not asked for.
LEMMA NothingAsked ==
  ASSUME RosterInv, up' = up
  PROVE  <<>> \in Seq(SentUp) /\ up' = up \o <<>> /\ \A i \in 1..Len(<<>>) : <<>>[i].kind # "get"
PROOF
  BY DEF RosterInv, RosterTypes

\* The roster comes.
LEMMA HandleRosterKeeps ==
  ASSUME RosterInv, HandleRoster PROVE RosterInv'
PROOF
  <1>1. /\ down # <<>> /\ Head(down).kind = "roster" /\ down' = Tail(down) /\ filled' = TRUE
        /\ UNCHANGED <<online, up, server, present>>
    BY DEF HandleRoster, Arrived
  <1>2. Head(down) \in RosterSent /\ \A c \in Contacts : roster[c] = NoItem
    BY <1>1, RosterReads, SentOfKind
  <1>3. PICK m \in RosterSent : m = Head(down)
    BY <1>2
  <1>4. roster' = [c \in Contacts |-> IF m.items[c] = NoName THEN NoItem ELSE Item(m.items[c])]
    <2>1. roster' = [c \in Contacts |->
                      IF roster[c] # NoItem \/ m.items[c] = NoName
                      THEN roster[c] ELSE Item(m.items[c])]
      BY <1>3 DEF HandleRoster
    <2> QED BY <1>2, <2>1
  <1>5. \A c \in Contacts : roster'[c] \in RosterItems /\ Taking(c, m, NoItem, roster'[c])
    BY <1>4, TakesRoster
  <1>6. roster' \in [Contacts -> RosterItems]
    BY <1>4, <1>5
  <1>7. \A c \in Contacts : Taking(c, Head(down), roster[c], roster'[c])
    BY <1>2, <1>3, <1>5
  <1> QED BY <1>1, <1>6, <1>7, NothingAsked, RosterTaken

\* A push comes.
LEMMA HandlePushKeeps ==
  ASSUME RosterInv, HandlePush PROVE RosterInv'
PROOF
  <1>1. /\ down # <<>> /\ Head(down).kind = "push" /\ down' = Tail(down)
        /\ UNCHANGED <<filled, online, up, server, present>>
    BY DEF HandlePush, Arrived
  <1>2. /\ Head(down) \in PushSent /\ filled /\ filled \in BOOLEAN
        /\ roster \in [Contacts -> RosterItems]
    BY <1>1, RosterReads, SentOfKind, Sorts DEF RosterInv, RosterTypes
  <1>3. PICK m \in PushSent : m = Head(down)
    BY <1>2
  <1>4. PICK z : z = Merged(roster[m.jid], m.name)
    OBVIOUS
  <1>5. roster' = [roster EXCEPT ![m.jid] = z]
    BY <1>3, <1>4 DEF HandlePush, MergePush, Merged
  <1>6. \A c \in Contacts :
          roster'[c] = IF c = m.jid THEN Merged(roster[c], m.name) ELSE roster[c]
    BY <1>2, <1>4, <1>5
  <1>7. \A c \in Contacts : roster'[c] \in RosterItems /\ Taking(c, m, roster[c], roster'[c])
    BY <1>2, <1>6, TakesPush
  <1>8. roster' \in [Contacts -> RosterItems]
    BY <1>2, <1>5, <1>7
  <1>9. \A c \in Contacts : Taking(c, Head(down), roster[c], roster'[c])
    BY <1>3, <1>7
  <1> QED BY <1>1, <1>2, <1>8, <1>9, NothingAsked, RosterTaken

\* A result comes.
LEMMA HandleResultKeeps ==
  ASSUME RosterInv, HandleResult PROVE RosterInv'
PROOF
  <1>1. /\ down # <<>> /\ Head(down).kind = "result" /\ down' = Tail(down)
        /\ UNCHANGED <<roster, filled, online, up, server, present>>
    BY DEF HandleResult, Arrived
  <1>2. /\ Head(down) \in OtherSent /\ filled /\ filled \in BOOLEAN
        /\ roster \in [Contacts -> RosterItems]
    BY <1>1, RosterReads, SentOfKind, Sorts DEF RosterInv, RosterTypes
  <1>3. \A c \in Contacts : Taking(c, Head(down), roster[c], roster'[c])
    BY <1>1, <1>2, TakesOther
  <1> QED BY <1>1, <1>2, <1>3, NothingAsked, RosterTaken

\* A presence comes.
LEMMA HandlePresenceKeeps ==
  ASSUME RosterInv, HandlePresence PROVE RosterInv'
PROOF
  <1>1. /\ down # <<>> /\ Head(down).kind = "presence" /\ down' = Tail(down)
        /\ UNCHANGED <<filled, online, up, server, present>>
    BY DEF HandlePresence, Arrived
  <1>2. /\ Head(down) \in PresenceSent /\ filled /\ filled \in BOOLEAN
        /\ roster \in [Contacts -> RosterItems] /\ AllBooked /\ down \in Seq(SentDown)
    BY <1>1, RosterReads, SentOfKind, Sorts DEF RosterInv, RosterTypes
  <1>3. PICK m \in PresenceSent : m = Head(down)
    BY <1>2
  <1>4. roster' = IF m.jid \in Contacts /\ roster[m.jid] # NoItem
                  THEN [roster EXCEPT ![m.jid].res = WithResource(@, m)] ELSE roster
    BY <1>3 DEF HandlePresence
  <1>5. \A c \in Contacts : m.jid = c => roster[c] \in OnList
    <2> SUFFICES ASSUME NEW c \in Contacts, m.jid = c PROVE roster[c] \in OnList
      OBVIOUS
    <2>1. HeardOf(c, down, roster[c])
      BY <1>2 DEF AllBooked, Booked
    <2>2. Head(down) \in PresencesOf(c)
      BY <1>3 DEF PresencesOf
    <2> QED BY <1>1, <1>2, <2>1, <2>2, HeardFirst
  <1>6. \A c \in Contacts :
          roster'[c] = IF c = m.jid THEN [roster[c] EXCEPT !.res = WithResource(@, m)]
                       ELSE roster[c]
    <2>1. CASE m.jid \in Contacts
      <3>1. roster[m.jid] # NoItem
        BY <1>5, <2>1 DEF OnList
      <3>2. PICK z : z = [roster[m.jid] EXCEPT !.res = WithResource(@, m)]
        OBVIOUS
      <3>3. roster' = [roster EXCEPT ![m.jid] = z]
        BY <1>4, <2>1, <3>1, <3>2
      <3> QED BY <1>2, <3>2, <3>3
    <2>2. CASE m.jid \notin Contacts
      BY <1>4, <2>2
    <2> QED BY <2>1, <2>2
  <1>7. \A c \in Contacts : roster'[c] \in RosterItems /\ Taking(c, m, roster[c], roster'[c])
    <2> SUFFICES ASSUME NEW c \in Contacts
                 PROVE  roster'[c] \in RosterItems /\ Taking(c, m, roster[c], roster'[c])
      OBVIOUS
    <2>1. roster[c] \in RosterItems /\ (m.jid = c => roster[c] \in OnList)
      BY <1>2, <1>5
    <2>2. PICK z : z = roster'[c]
      OBVIOUS
    <2>3. z = IF c = m.jid THEN [roster[c] EXCEPT !.res = WithResource(@, m)] ELSE roster[c]
      BY <1>6, <2>2
    <2>4. z \in RosterItems /\ Taking(c, m, roster[c], z)
      BY <2>1, <2>3, TakesPresence
    <2> QED BY <2>2, <2>4
  <1>8. roster' \in [Contacts -> RosterItems]
    BY <1>2, <1>4, <1>7
  <1>9. \A c \in Contacts : Taking(c, Head(down), roster[c], roster'[c])
    BY <1>3, <1>7
  <1> QED BY <1>1, <1>2, <1>8, <1>9, NothingAsked, RosterTaken

\* A subscription request comes.
LEMMA HandleSubscriptionKeeps ==
  ASSUME RosterInv, NEW accepts \in BOOLEAN, HandleSubscription(accepts) PROVE RosterInv'
PROOF
  <1>1. /\ down # <<>> /\ Head(down).kind = "subscription" /\ down' = Tail(down)
        /\ UNCHANGED <<roster, filled, online, server, present>>
    BY DEF HandleSubscription, Arrived
  <1>2. /\ Head(down) \in OtherSent /\ filled /\ filled \in BOOLEAN
        /\ roster \in [Contacts -> RosterItems]
    BY <1>1, RosterReads, SentOfKind, Sorts DEF RosterInv, RosterTypes
  <1>3. \A c \in Contacts : Taking(c, Head(down), roster[c], roster'[c])
    BY <1>1, <1>2, TakesOther
  <1>4. PICK c \in Contacts : c = Head(down).jid
    BY <1>1, <1>2 DEF OtherSent
  <1>5. PICK a : a = [kind |-> "subscribed", jid |-> c]
    OBVIOUS
  <1>6. PICK b : b = [kind |-> "unsubscribed", jid |-> c]
    OBVIOUS
  <1>7. PICK d : d = [kind |-> "remove", jid |-> c, name |-> NoName]
    OBVIOUS
  <1>8. /\ a \in SentUp /\ a.kind # "get" /\ b \in SentUp /\ b.kind # "get"
        /\ d \in SentUp /\ d.kind # "get"
    BY <1>5, <1>6, <1>7, UpIs DEF NameOrNone
  <1>9. up' = up \o <<a>> \/ up' = up \o <<b>> \/ up' = up \o <<>>
        \/ up' = up \o (<<b>> \o <<d>>) \/ up' = up \o (<<b>> \o <<>>)
    BY <1>4, <1>5, <1>6, <1>7 DEF HandleSubscription
  <1>10. ASSUME NEW e \in {a, b}, NEW f \in {<<>>, <<d>>}
         PROVE  /\ <<e>> \o f \in Seq(SentUp)
                /\ \A i \in 1..Len(<<e>> \o f) : (<<e>> \o f)[i].kind # "get"
    <2>1. <<e>> \in Seq(SentUp) /\ Len(<<e>>) = 1 /\ <<e>>[1] = e /\ e.kind # "get"
      BY <1>8
    <2>2. f \in Seq(SentUp) /\ \A i \in 1..Len(f) : f[i].kind # "get"
      <3>1. CASE f = <<>>
        BY <3>1
      <3>2. CASE f = <<d>>
        BY <1>8, <3>2
      <3> QED BY <3>1, <3>2
    <2>3. PICK g \in Seq(SentUp) : g = <<e>>
      BY <2>1
    <2>4. ASSUME NEW i \in 1..Len(g \o f) PROVE (g \o f)[i].kind # "get"
      <3>1. CASE i = 1
        BY <2>1, <2>2, <2>3, <3>1
      <3>2. CASE i # 1
        <4>1. i - 1 \in 1..Len(f) /\ (g \o f)[i] = f[i - 1]
          BY <2>1, <2>2, <2>3, <3>2
        <4> QED BY <2>2, <4>1
      <3> QED BY <3>1, <3>2
    <2>5. g \o f \in Seq(SentUp)
      BY <2>2
    <2> QED BY <2>3, <2>4, <2>5
  <1>11. <<>> \in Seq(SentUp) /\ <<a>> \o <<>> = <<a>> /\ <<b>> \o <<>> = <<b>>
         /\ \A i \in 1..Len(<<>>) : <<>>[i].kind # "get"
    OBVIOUS
  <1>12. PICK t \in Seq(SentUp) : up' = up \o t /\ \A i \in 1..Len(t) : t[i].kind # "get"
    BY <1>9, <1>10, <1>11
  <1> QED BY <1>1, <1>2, <1>3, <1>12, RosterTaken

-----------------------------------------------------------------------------

\* Nothing is known of a contact.
LEMMA NothingBooked ==
  ASSUME NEW c \in Contacts, NEW P PROVE Booked(c, <<>>, NoItem, NoName, P)
PROOF
  <1>1. \A M, OK, s, F : s \in F => Latest(<<>>, Len(<<>>), M, OK, s, F)
    BY DEF Latest
  <1>2. NoItem \in Fitting(NoName) /\ \A r : NoItem \in Having(r, FALSE)
    BY ItemKinds DEF Fitting, Having
  <1>3. HeardOf(c, <<>>, NoItem)
    BY DEF HeardOf
  <1>4. Agrees(c, <<>>, NoItem, NoName)
    BY <1>1, <1>2 DEF Agrees
  <1>5. \A r \in Resources : Shows(c, <<>>, NoItem, r, FALSE)
    BY <1>1, <1>2 DEF Shows
  <1> QED BY <1>3, <1>4, <1>5 DEF Booked

\* What the server tells.
LEMMA TidingsMade ==
  ASSUME NEW c \in Contacts, NEW n, NEW m, NEW P, NEW h \in Seq(SentDown), h # <<>>,
         h[1] \in OfContact(c) \cap Saying(c, m), n # NoName => h[1] \in PushSent,
         \A i \in 2..Len(h) : h[i] \in OtherSent,
         NEW p \in Seq(PresenceSent),
         \A i \in 1..Len(p) :
           p[i].jid = c => p[i].up /\ p[i].res \in P /\ n = NoName /\ m # NoName,
         \A i, j \in 1..Len(p) :
           p[i].jid = c /\ p[j].jid = c /\ p[i].res = p[j].res => i = j,
         n = NoName /\ m # NoName =>
           \A r \in P : \E i \in 1..Len(p) : p[i].jid = c /\ p[i].res = r
  PROVE  Tidings(c, h \o p, n, m, P)
PROOF
  <1> DEFINE t == h \o p
  <1>1. p \in Seq(SentDown)
    BY DEF SentDown
  <1>2. /\ t \in Seq(SentDown) /\ t # <<>> /\ t[1] = h[1] /\ Len(t) = Len(h) + Len(p)
        /\ Len(h) \in Nat /\ Len(p) \in Nat /\ Len(h) >= 1
    BY <1>1
  <1>3. ASSUME NEW i \in 2..Len(t)
        PROVE  \/ t[i] \in OtherSent
               \/ i - Len(h) \in 1..Len(p) /\ t[i] = p[i - Len(h)] /\ t[i] \in PresenceSent
    <2>1. CASE i <= Len(h)
      <3>1. i \in 2..Len(h) /\ t[i] = h[i]
        BY <1>2, <2>1
      <3> QED BY <3>1
    <2>2. CASE i > Len(h)
      <3>1. i - Len(h) \in 1..Len(p)
        BY <1>2, <2>2
      <3>2. t[i] = p[i - Len(h)]
        BY <1>1, <1>2, <2>2
      <3> QED BY <3>1, <3>2
    <2> QED BY <1>2, <2>1, <2>2
  <1>4. \A i \in 1..Len(p) : Len(h) + i \in 2..Len(t) /\ t[Len(h) + i] = p[i]
    BY <1>1, <1>2
  <1> HIDE DEF t
  <1>5. ASSUME NEW i \in 2..Len(t)
        PROVE  /\ t[i] \notin OfContact(c)
               /\ t[i] \in PresencesOf(c) =>
                    /\ i - Len(h) \in 1..Len(p) /\ t[i] = p[i - Len(h)]
                    /\ p[i - Len(h)].jid = c
    BY <1>3, Sorts DEF OfContact, PresencesOf
  <1>6. \A i \in 2..Len(t) :
          t[i] \in PresencesOf(c) => t[i].up /\ t[i].res \in P /\ n = NoName /\ m # NoName
    BY <1>5
  <1>7. \A i, j \in 2..Len(t) :
          t[i] \in PresencesOf(c) /\ t[j] \in PresencesOf(c) /\ t[i].res = t[j].res => i = j
    <2> SUFFICES ASSUME NEW i \in 2..Len(t), NEW j \in 2..Len(t), t[i] \in PresencesOf(c),
                        t[j] \in PresencesOf(c), t[i].res = t[j].res
                 PROVE  i = j
      OBVIOUS
    <2>1. PICK k \in 1..Len(p) : k = i - Len(h) /\ t[i] = p[k] /\ p[k].jid = c
      BY <1>5
    <2>2. PICK l \in 1..Len(p) : l = j - Len(h) /\ t[j] = p[l] /\ p[l].jid = c
      BY <1>5
    <2>3. k = l
      BY <2>1, <2>2
    <2> QED BY <1>2, <2>1, <2>2, <2>3
  <1>8. ASSUME n = NoName /\ m # NoName, NEW r \in P
        PROVE  \E i \in 2..Len(t) : t[i] \in PresencesOf(c) /\ t[i].res = r
    <2>1. PICK i \in 1..Len(p) : p[i].jid = c /\ p[i].res = r
      BY <1>8
    <2>2. p[i] \in PresencesOf(c)
      BY <2>1 DEF PresencesOf
    <2> QED BY <1>4, <2>1, <2>2
  <1>9. Tidings(c, t, n, m, P)
    BY <1>2, <1>5, <1>6, <1>7, <1>8 DEF Tidings
  <1> QED BY <1>9 DEF t

\* The resources of a contact that comes on the list.
LEMMA PresencesAre ==
  ASSUME NEW c \in Contacts, present[c] \subseteq Resources, NEW p, p = Presences(c)
  PROVE  /\ p \in Seq(PresenceSent)
         /\ \A i \in 1..Len(p) : p[i].jid = c /\ p[i].up /\ p[i].res \in present[c]
         /\ \A i, j \in 1..Len(p) : p[i].res = p[j].res => i = j
         /\ \A r \in present[c] : \E i \in 1..Len(p) : p[i].res = r
PROOF
  <1>1. PICK s : s = SetToSeq(present[c])
    OBVIOUS
  <1>2. IsFiniteSet(present[c])
    BY RosterAssumption, FS_Subset
  <1>3. /\ s \in Seq(present[c])
        /\ \A k, l \in DOMAIN s : s[k] = s[l] => k = l
        /\ \A x \in present[c] : \E k \in DOMAIN s : s[k] = x
    BY <1>1, <1>2, ListedOnce
  <1>4. p = [i \in DOMAIN s |-> [kind |-> "presence", jid |-> c, res |-> s[i], up |-> TRUE]]
    BY <1>1 DEF Presences
  <1>5. DOMAIN s = 1..Len(s) /\ Len(s) \in Nat /\ \A i \in 1..Len(s) : s[i] \in Resources
    BY <1>3
  <1>6. \A i \in 1..Len(s) :
          [kind |-> "presence", jid |-> c, res |-> s[i], up |-> TRUE] \in PresenceSent
    BY <1>5 DEF PresenceSent
  <1>7. p \in Seq(PresenceSent) /\ Len(p) = Len(s)
    BY <1>4, <1>5, <1>6
  <1>8. \A i \in 1..Len(p) : p[i].jid = c /\ p[i].up /\ p[i].res = s[i]
    BY <1>4, <1>5, <1>7
  <1> QED BY <1>3, <1>5, <1>7, <1>8

\* The resources that are online when the roster is asked for.
LEMMA AllPresencesAre ==
  ASSUME RosterInv, NEW p, p = AllPresences
  PROVE  /\ p \in Seq(PresenceSent)
         /\ \A i \in 1..Len(p) : p[i].up /\ \A c \in Contacts :
              p[i].jid = c => p[i].res \in present[c] /\ server[c] # NoName
         /\ \A i, j \in 1..Len(p) : p[i].jid = p[j].jid /\ p[i].res = p[j].res => i = j
         /\ \A c \in Contacts : server[c] # NoName =>
              \A r \in present[c] : \E i \in 1..Len(p) : p[i].jid = c /\ p[i].res = r
PROOF
  <1> DEFINE S == {x \in (Contacts \cup {Me}) \X Resources :
                     x[2] \in present[x[1]] /\ (x[1] = Me \/ server[x[1]] # NoName)}
  <1>1. PICK s : s = SetToSeq(S)
    OBVIOUS
  <1>2. IsFiniteSet(S)
    <2>1. IsFiniteSet(Contacts \cup {Me})
      BY RosterAssumption, FS_Singleton, FS_Union
    <2>2. IsFiniteSet((Contacts \cup {Me}) \X Resources)
      BY RosterAssumption, <2>1, FS_Product
    <2> QED BY <2>2, FS_Subset
  <1>3. p = [i \in DOMAIN s |->
               [kind |-> "presence", jid |-> s[i][1], res |-> s[i][2], up |-> TRUE]]
    BY <1>1 DEF AllPresences
  <1>4. \A x \in S : /\ x[1] \in Contacts \cup {Me} /\ x[2] \in Resources
                     /\ x[2] \in present[x[1]] /\ (x[1] = Me \/ server[x[1]] # NoName)
                     /\ x = <<x[1], x[2]>>
    OBVIOUS
  <1>5. \A c \in Contacts : server[c] # NoName => \A r \in present[c] : <<c, r>> \in S
    BY DEF RosterInv, RosterTypes
  <1> HIDE DEF S
  <1>6. /\ s \in Seq(S)
        /\ \A k, l \in DOMAIN s : s[k] = s[l] => k = l
        /\ \A x \in S : \E k \in DOMAIN s : s[k] = x
    BY <1>1, <1>2, ListedOnce
  <1>7. DOMAIN s = 1..Len(s) /\ Len(s) \in Nat /\ \A i \in 1..Len(s) : s[i] \in S
    BY <1>6
  <1>8. \A i \in 1..Len(s) :
          [kind |-> "presence", jid |-> s[i][1], res |-> s[i][2], up |-> TRUE] \in PresenceSent
    BY <1>4, <1>7 DEF PresenceSent
  <1>9. p \in Seq(PresenceSent) /\ Len(p) = Len(s)
    BY <1>3, <1>7, <1>8
  <1>10. \A i \in 1..Len(p) : p[i].jid = s[i][1] /\ p[i].up /\ p[i].res = s[i][2] /\ s[i] \in S
    BY <1>3, <1>7, <1>9
  <1>11. \A i \in 1..Len(p) : p[i].up /\ \A c \in Contacts :
           p[i].jid = c => p[i].res \in present[c] /\ server[c] # NoName
    BY <1>4, <1>10, RosterAssumption
  <1>12. \A i, j \in 1..Len(p) : p[i].jid = p[j].jid /\ p[i].res = p[j].res => i = j
    BY <1>4, <1>6, <1>7, <1>9, <1>10
  <1>13. ASSUME NEW c \in Contacts, server[c] # NoName, NEW r \in present[c]
         PROVE  \E i \in 1..Len(p) : p[i].jid = c /\ p[i].res = r
    <2>1. PICK i \in 1..Len(p) : s[i] = <<c, r>>
      BY <1>5, <1>6, <1>7, <1>9, <1>13
    <2> QED BY <1>10, <2>1
  <1> QED BY <1>9, <1>11, <1>12, <1>13

\* Concatenation is associative.
LEMMA Regrouped ==
  ASSUME NEW T, NEW a \in Seq(T), NEW b \in Seq(T), NEW d \in Seq(T)
  PROVE  (a \o b) \o d = a \o (b \o d)
PROOF
  OBVIOUS

\* The server has a contact stored, and tells.
LEMMA StoredKeeps ==
  ASSUME RosterInv, Interested, Interested', up' \in Seq(SentUp), NEW c \in Contacts,
         NEW n \in NameOrNone, NEW done \in {<<>>, <<[kind |-> "result"]>>}, Stored(c, n, done),
         UNCHANGED <<roster, filled, online, present>>
  PROVE  RosterInv'
PROOF
  <1>1. down \in Seq(SentDown) /\ server \in [Contacts -> NameOrNone]
        /\ present \in [Contacts \cup {Me} -> SUBSET Resources] /\ present[c] \subseteq Resources
    BY DEF RosterInv, RosterTypes
  <1>2. PICK e : e = [kind |-> "push", jid |-> c, name |-> n]
    OBVIOUS
  <1>3. e \in PushSent /\ e.jid = c /\ e.name = n /\ e \in SentDown
    BY <1>2 DEF PushSent, SentDown
  <1>4. PICK p : p = IF server[c] = NoName /\ n # NoName THEN Presences(c) ELSE <<>>
    OBVIOUS
  <1>5. /\ p \in Seq(PresenceSent)
        /\ \A i \in 1..Len(p) : p[i].jid = c /\ p[i].up /\ p[i].res \in present[c]
                                /\ server[c] = NoName /\ n # NoName
        /\ \A i, j \in 1..Len(p) : p[i].res = p[j].res => i = j
        /\ server[c] = NoName /\ n # NoName =>
             \A r \in present[c] : \E i \in 1..Len(p) : p[i].jid = c /\ p[i].res = r
    <2>1. CASE server[c] = NoName /\ n # NoName
      <3>1. p = Presences(c)
        BY <1>4, <2>1
      <3>2. /\ p \in Seq(PresenceSent)
            /\ \A i \in 1..Len(p) : p[i].jid = c /\ p[i].up /\ p[i].res \in present[c]
            /\ \A i, j \in 1..Len(p) : p[i].res = p[j].res => i = j
            /\ \A r \in present[c] : \E i \in 1..Len(p) : p[i].res = r
        BY <1>1, <3>1, PresencesAre
      <3> QED BY <2>1, <3>2
    <2>2. CASE ~(server[c] = NoName /\ n # NoName)
      <3>1. p = <<>>
        BY <1>4, <2>2
      <3> QED BY <2>2, <3>1
    <2> QED BY <2>1, <2>2
  <1>6. PICK o : o = [kind |-> "result"]
    OBVIOUS
  <1>7. o \in OtherSent /\ o \in SentDown
    BY <1>6 DEF OtherSent, SentDown
  <1>d. done \in Seq(SentDown) /\ \A i \in 1..Len(done) : done[i] \in OtherSent
    <2>1. CASE done = <<>>
      BY <2>1
    <2>2. CASE done = <<o>>
      BY <1>7, <2>2
    <2> QED BY <1>6, <2>1, <2>2
  <1>u. PICK u \in Seq(SentDown) : u = <<e>>
    BY <1>3, Alone
  <1>v. Len(u) = 1 /\ u[1] = e
    BY <1>u
  <1>8. PICK h \in Seq(SentDown) : h = u \o done
    BY <1>d, Together
  <1>9. h # <<>> /\ h[1] = e /\ \A i \in 2..Len(h) : h[i] \in OtherSent
    <2>1. Len(h) = 1 + Len(done) /\ h[1] = e /\ Len(done) \in Nat
      <3>1. Len(h) = Len(u) + Len(done) /\ Len(done) \in Nat /\ \A i \in 1..Len(u) : h[i] = u[i]
        BY <1>d, <1>8, Together
      <3> QED BY <1>v, <3>1
    <2>2. ASSUME NEW i \in 2..Len(h) PROVE h[i] \in OtherSent
      <3>1. i - 1 \in 1..Len(done) /\ h[i] = done[i - 1]
        <4>1. i \in 1..Len(u \o done) /\ i > Len(u) /\ Len(u) = 1
          BY <1>v, <1>8, <2>1
        <4>2. i - Len(u) \in 1..Len(done) /\ (u \o done)[i] = done[i - Len(u)]
          BY <1>d, <4>1, Together
        <4> QED BY <1>8, <4>1, <4>2
      <3> QED BY <1>d, <3>1
    <2> QED BY <1>d, <2>1, <2>2
  <1>10. /\ down' = down \o (h \o p) /\ server' = [server EXCEPT ![c] = n]
         /\ p \in Seq(SentDown) /\ h \o p \in Seq(SentDown)
    <2>1. down' = ((down \o u) \o done) \o p /\ server' = [server EXCEPT ![c] = n]
      BY <1>2, <1>4, <1>u DEF Stored, Push
    <2>2. p \in Seq(SentDown)
      BY <1>5 DEF SentDown
    <2>3. (down \o u) \o done = down \o h
      BY SMTT(30), <1>1, <1>d, <1>8, Regrouped
    <2>4. (down \o h) \o p = down \o (h \o p)
      BY <1>1, <2>2, Regrouped
    <2>5. h \o p \in Seq(SentDown)
      BY <2>2
    <2> QED BY <2>1, <2>2, <2>3, <2>4, <2>5
  <1>11. h[1] \in OfContact(c) \cap Saying(c, n) /\ h[1] \in PushSent
    BY <1>3, <1>9 DEF OfContact, Saying
  <1>12. Tidings(c, h \o p, server[c], n, present[c])
    <2>1. \A i \in 1..Len(p) :
            p[i].jid = c => p[i].up /\ p[i].res \in present[c] /\ server[c] = NoName /\ n # NoName
      BY <1>5
    <2>2. \A i, j \in 1..Len(p) : p[i].jid = c /\ p[j].jid = c /\ p[i].res = p[j].res => i = j
      BY <1>5
    <2> QED BY <1>5, <1>9, <1>11, <2>1, <2>2, TidingsMade
  <1>13. \A i \in 1..Len(h \o p) :
           (h \o p)[i] = e \/ (h \o p)[i] \in OtherSent
             \/ ((h \o p)[i] \in PresenceSent /\ (h \o p)[i].jid = c)
    <2> SUFFICES ASSUME NEW i \in 1..Len(h \o p)
                 PROVE  (h \o p)[i] = e \/ (h \o p)[i] \in OtherSent
                          \/ ((h \o p)[i] \in PresenceSent /\ (h \o p)[i].jid = c)
      OBVIOUS
    <2>1. CASE i <= Len(h)
      <3>1. (h \o p)[i] = h[i] /\ (i = 1 \/ i \in 2..Len(h))
        BY <1>10, <2>1
      <3> QED BY <1>9, <3>1
    <2>2. CASE i > Len(h)
      <3>1. i - Len(h) \in 1..Len(p) /\ (h \o p)[i] = p[i - Len(h)]
        BY <1>10, <2>2
      <3> QED BY <1>5, <3>1
    <2> QED BY <1>10, <2>1, <2>2
  <1>14. ASSUME NEW d \in Contacts
         PROVE  Booked(d, down', roster[d], server'[d], present'[d])
    <2>1. Booked(d, down, roster[d], server[d], present[d])
      BY DEF RosterInv, AllBooked
    <2>2. CASE d = c
      <3>1. Booked(c, down \o (h \o p), roster[c], n, present[c])
        BY <1>1, <1>12, <2>1, <2>2, BookedTold
      <3>2. server'[c] = n
        BY <1>1, <1>10
      <3> QED BY <1>10, <2>2, <3>1, <3>2
    <2>3. CASE d # c
      <3>1. \A i \in 1..Len(h \o p) :
              (h \o p)[i] \notin OfContact(d) /\ (h \o p)[i] \notin PresencesOf(d)
        BY <1>3, <1>13, <2>3, Sorts DEF OfContact, PresencesOf
      <3>2. Booked(d, down \o (h \o p), roster[d], server[d], present[d])
        BY <1>1, <1>10, <2>1, <3>1, BookedQuiet
      <3>3. server'[d] = server[d]
        BY <1>1, <1>10, <2>3
      <3> QED BY <1>10, <3>2, <3>3
    <2> QED BY <2>2, <2>3
  <1>15. \A i \in 1..Len(h \o p) : (h \o p)[i] \notin RosterSent
    BY <1>3, <1>13, Sorts
  <1>16. server' \in [Contacts -> NameOrNone]
    BY <1>1, <1>10
  <1>17. present' \in [Contacts \cup {Me} -> SUBSET Resources]
    BY <1>1
  <1> QED BY <1>10, <1>14, <1>15, <1>16, <1>17, RosterTold

\* The roster is asked for.
LEMMA RosterComes ==
  ASSUME RosterInv, up # <<>>, Head(up).kind = "get", ServerTakes
  PROVE  RosterInv'
PROOF
  <1>1. online /\ up \in Seq(SentUp) /\ online \in BOOLEAN /\ filled \in BOOLEAN
        /\ server \in [Contacts -> NameOrNone] /\ roster \in [Contacts -> RosterItems]
        /\ present \in [Contacts \cup {Me} -> SUBSET Resources]
    BY DEF RosterInv, RosterTypes, RosterLink
  <1>2. ~Interested
    <2>1. Head(up) = up[1] /\ 1 \in DOMAIN up
      BY <1>1
    <2> QED BY <2>1 DEF Interested
  <1>3. /\ up = <<[kind |-> "get"]>> /\ down = <<>> /\ ~filled
        /\ \A c \in Contacts : roster[c] = NoItem
    BY <1>1, <1>2 DEF RosterInv, RosterLink
  <1>4. PICK e : e = [kind |-> "roster", items |-> server]
    OBVIOUS
  <1>5. e \in RosterSent /\ e.items = server /\ e \in SentDown
    BY <1>1, <1>4 DEF RosterSent, SentDown
  <1>6. PICK p : p = AllPresences
    OBVIOUS
  <1>7. /\ p \in Seq(PresenceSent)
        /\ \A i \in 1..Len(p) : p[i].up /\ \A c \in Contacts :
             p[i].jid = c => p[i].res \in present[c] /\ server[c] # NoName
        /\ \A i, j \in 1..Len(p) : p[i].jid = p[j].jid /\ p[i].res = p[j].res => i = j
        /\ \A c \in Contacts : server[c] # NoName =>
             \A r \in present[c] : \E i \in 1..Len(p) : p[i].jid = c /\ p[i].res = r
    BY <1>6, AllPresencesAre
  <1>8. PICK h \in Seq(SentDown) : h = <<e>>
    BY <1>5, Alone
  <1>9. /\ Len(h) = 1 /\ h[1] = e /\ h # <<>> /\ p \in Seq(SentDown)
        /\ h \o p \in Seq(SentDown) /\ \A i \in 2..Len(h) : h[i] \in OtherSent
    <2>1. Len(h) = 1 /\ h[1] = e /\ h # <<>>
      BY <1>5, <1>8, Alone
    <2>2. p \in Seq(SentDown)
      BY <1>7 DEF SentDown
    <2>3. h \o p \in Seq(SentDown)
      BY <2>2, Together
    <2>4. \A i \in 2..Len(h) : FALSE
      BY <2>1
    <2> QED BY <2>1, <2>2, <2>3, <2>4
  <1>10. down' = h \o p /\ up' = Tail(up) /\ UNCHANGED <<server, roster, filled, online, present>>
    <2>1. /\ down' = (down \o <<e>>) \o p /\ up' = Tail(up)
          /\ UNCHANGED <<server, roster, filled, online, present>>
      BY <1>4, <1>6 DEF ServerTakes
    <2>2. (down \o h) \o p = down \o (h \o p) /\ down \o (h \o p) = h \o p
      BY <1>3, <1>9, Regrouped
    <2> QED BY <1>8, <2>1, <2>2
  <1>11. up' = <<>> /\ up' \in Seq(SentUp)
    BY <1>3, <1>10
  <1>12. Interested'
    BY <1>1, <1>10, <1>11 DEF Interested
  <1>13. RosterTypes'
    BY <1>1, <1>9, <1>10, <1>11 DEF RosterTypes
  <1>14. RosterLink'
    <2>1. Head(down') = e /\ down' # <<>>
      BY <1>9, <1>10
    <2>2. ASSUME NEW i \in 1..Len(down'), i # 1 PROVE down'[i] \notin RosterSent
      <3>1. i - 1 \in 1..Len(p) /\ down'[i] = p[i - 1]
        <4>1. i \in 1..Len(h \o p) /\ i > Len(h) /\ Len(h) = 1
          BY <1>9, <1>10, <2>2
        <4>2. i - Len(h) \in 1..Len(p) /\ (h \o p)[i] = p[i - Len(h)]
          BY <1>9, <4>1, Together
        <4> QED BY <1>10, <4>1, <4>2
      <3> QED BY <1>7, <3>1, Sorts
    <2> QED BY <1>1, <1>3, <1>5, <1>10, <1>12, <2>1, <2>2 DEF RosterLink
  <1>15. ASSUME NEW c \in Contacts
         PROVE  Booked(c, down', roster'[c], server'[c], present'[c])
    <2>1. Booked(c, <<>>, NoItem, NoName, present[c]) /\ <<>> \in Seq(SentDown)
      BY NothingBooked
    <2>2. h[1] \in OfContact(c) \cap Saying(c, server[c])
      BY <1>5, <1>9 DEF OfContact, Saying
    <2>3. \A i \in 1..Len(p) :
            p[i].jid = c => p[i].up /\ p[i].res \in present[c] /\ NoName = NoName
                              /\ server[c] # NoName
      BY <1>7
    <2>4. \A i, j \in 1..Len(p) : p[i].jid = c /\ p[j].jid = c /\ p[i].res = p[j].res => i = j
      BY <1>7
    <2>5. NoName = NoName /\ server[c] # NoName =>
            \A r \in present[c] : \E i \in 1..Len(p) : p[i].jid = c /\ p[i].res = r
      BY <1>7
    <2>6. NoName # NoName => h[1] \in PushSent
      OBVIOUS
    <2>7. Tidings(c, h \o p, NoName, server[c], present[c])
      BY <1>7, <1>9, <2>2, <2>3, <2>4, <2>5, <2>6, TidingsMade
    <2>8. Booked(c, <<>> \o (h \o p), NoItem, server[c], present[c])
      BY <2>1, <2>7, BookedTold
    <2>9. <<>> \o (h \o p) = down'
      BY <1>9, <1>10
    <2> QED BY <1>3, <1>10, <2>8, <2>9
  <1> QED BY <1>13, <1>14, <1>15 DEF RosterInv, AllBooked

\* The server takes a stanza.
LEMMA ServerTakesKeeps ==
  ASSUME RosterInv, ServerTakes PROVE RosterInv'
PROOF
  <1>1. CASE Head(up).kind = "get"
    BY <1>1, RosterComes DEF ServerTakes
  <1>2. CASE Head(up).kind # "get"
    <2>1. /\ up # <<>> /\ up' = Tail(up) /\ UNCHANGED <<roster, filled, online, present>>
          /\ up \in Seq(SentUp) /\ server \in [Contacts -> NameOrNone]
          /\ present \in [Contacts \cup {Me} -> SUBSET Resources] /\ down \in Seq(SentDown)
      BY DEF ServerTakes, RosterInv, RosterTypes
    <2>2. Interested /\ up' \in Seq(SentUp) /\ Head(up) \in SentUp
      <3>1. Head(up) = up[1] /\ Head(up) \in SentUp /\ up' \in Seq(SentUp)
        BY <2>1
      <3>2. online /\ (up = <<[kind |-> "get"]>> => Head(up).kind = "get")
        BY <2>1, <3>1 DEF RosterInv, RosterLink
      <3> QED BY <1>2, <3>1, <3>2 DEF RosterInv, RosterLink
    <2>3. Interested'
      <3>1. \A i \in 1..Len(up') : i + 1 \in 1..Len(up) /\ up'[i] = up[i + 1]
        BY <2>1
      <3> QED BY <2>1, <2>2, <3>1 DEF Interested
    <2>4. CASE UNCHANGED <<down, server>>
      <3>1. <<>> \in Seq(SentDown) /\ down' = down \o <<>>
            /\ \A i \in 1..Len(<<>>) : <<>>[i] \notin RosterSent
        BY <2>1, <2>4
      <3>2. \A c \in Contacts : Booked(c, down', roster[c], server'[c], present'[c])
        BY <2>1, <2>2, <2>4 DEF RosterInv, AllBooked
      <3> QED BY <2>1, <2>2, <2>3, <2>4, <3>1, <3>2, RosterTold
    <2>5. CASE /\ Head(up).kind \in {"set", "remove"}
               /\ Stored(Head(up).jid, Head(up).name, <<[kind |-> "result"]>>)
      <3>1. Head(up).jid \in Contacts /\ Head(up).name \in NameOrNone
        BY <2>2, <2>5 DEF SentUp
      <3> QED BY <2>1, <2>2, <2>3, <2>5, <3>1, StoredKeeps
    <2> QED BY <1>2, <2>4, <2>5 DEF ServerTakes
  <1> QED BY <1>1, <1>2

\* Another client changes the roster.
LEMMA ChangedElsewhereKeeps ==
  ASSUME RosterInv, NEW c \in Contacts, NEW n \in NameOrNone, ChangedElsewhere(c, n)
  PROVE  RosterInv'
PROOF
  <1>1. UNCHANGED <<roster, filled, online, up, present>> /\ up \in Seq(SentUp)
        /\ server \in [Contacts -> NameOrNone]
    BY DEF ChangedElsewhere, RosterInv, RosterTypes
  <1>2. Interested' <=> Interested
    BY <1>1 DEF Interested
  <1>3. CASE Interested
    <2>1. Stored(c, n, <<>>)
      BY <1>3 DEF ChangedElsewhere
    <2> QED BY <1>1, <1>2, <1>3, <2>1, StoredKeeps
  <1>4. CASE ~Interested
    <2>1. server' = [server EXCEPT ![c] = n] /\ down' = down
      BY <1>4 DEF ChangedElsewhere
    <2>2. server' \in [Contacts -> NameOrNone]
      BY <1>1, <2>1
    <2>3. RosterTypes'
      BY <1>1, <2>1, <2>2 DEF RosterInv, RosterTypes
    <2>4. RosterLink'
      BY <1>1, <1>2, <1>4, <2>1 DEF RosterInv, RosterLink
    <2> QED BY <1>2, <1>4, <2>3, <2>4 DEF RosterInv
  <1> QED BY <1>3, <1>4

\* A presence changes.
LEMMA PresenceChangesKeeps ==
  ASSUME RosterInv, NEW c \in Contacts \cup {Me}, NEW r \in Resources, PresenceChanges(c, r)
  PROVE  RosterInv'
PROOF
  <1>1. /\ UNCHANGED <<roster, filled, online, up, server>>
        /\ up \in Seq(SentUp) /\ down \in Seq(SentDown) /\ server \in [Contacts -> NameOrNone]
        /\ present \in [Contacts \cup {Me} -> SUBSET Resources]
    BY DEF PresenceChanges, RosterInv, RosterTypes
  <1>2. Interested' <=> Interested
    BY <1>1 DEF Interested
  <1>3. PICK R : R = IF r \in present[c] THEN present[c] \ {r} ELSE present[c] \cup {r}
    OBVIOUS
  <1>4. present' = [present EXCEPT ![c] = R]
    BY <1>3 DEF PresenceChanges
  <1>5. R \subseteq Resources /\ (r \in R <=> r \notin present[c])
        /\ \A x \in Resources : x # r => (x \in present[c] <=> x \in R)
    BY <1>1, <1>3
  <1>6. /\ present'[c] = R /\ \A d \in Contacts : d # c => present'[d] = present[d]
        /\ present' \in [Contacts \cup {Me} -> SUBSET Resources]
    BY <1>1, <1>4, <1>5
  <1>7. PICK m : m = [kind |-> "presence", jid |-> c, res |-> r, up |-> r \notin present[c]]
    OBVIOUS
  <1>8. m \in PresenceSent /\ m.jid = c /\ m.res = r /\ (m.up <=> r \notin present[c])
        /\ m \in SentDown
    BY <1>7 DEF PresenceSent, SentDown
  <1>9. CASE Interested /\ (c = Me \/ server[c] # NoName)
    <2>1. down' = Append(down, m)
      BY <1>7, <1>9 DEF PresenceChanges
    <2>2. PICK t \in Seq(SentDown) : t = <<m>>
      BY <1>8, Alone
    <2>3. Len(t) = 1 /\ t[1] = m /\ down' = down \o t /\ \A i \in 1..Len(t) : t[i] = m
      BY <1>1, <1>8, <2>1, <2>2
    <2>4. ASSUME NEW d \in Contacts
          PROVE  Booked(d, down', roster[d], server'[d], present'[d])
      <3>1. Booked(d, down, roster[d], server[d], present[d])
        BY <1>9 DEF RosterInv, AllBooked
      <3>2. CASE d # c
        <4>1. \A i \in 1..Len(t) : t[i] \notin OfContact(d) /\ t[i] \notin PresencesOf(d)
          BY <1>8, <2>3, <3>2, Sorts DEF OfContact, PresencesOf
        <4>2. Booked(d, down \o t, roster[d], server[d], present[d])
          BY <1>1, <3>1, <4>1, BookedQuiet
        <4> QED BY <1>1, <1>6, <2>3, <3>2, <4>2
      <3>3. CASE d = c
        <4>1. server[c] # NoName /\ c \in Contacts
          BY <1>9, <3>3, RosterAssumption
        <4>2. m \in PresencesOf(c) /\ (m.up <=> m.res \in R)
          BY <1>5, <1>8 DEF PresencesOf
        <4>3. \A x \in Resources : x # m.res => (x \in present[c] <=> x \in R)
          BY <1>5, <1>8
        <4>4. Booked(c, Append(down, m), roster[c], server[c], R)
          BY <1>1, <3>1, <3>3, <4>1, <4>2, <4>3, BookedPresence
        <4> QED BY <1>1, <1>6, <2>1, <3>3, <4>4
      <3> QED BY <3>2, <3>3
    <2>5. \A i \in 1..Len(t) : t[i] \notin RosterSent
      BY <1>8, <2>3, Sorts
    <2>6. up' \in Seq(SentUp) /\ server' \in [Contacts -> NameOrNone]
      BY <1>1
    <2> QED BY <1>1, <1>2, <1>6, <1>9, <2>3, <2>4, <2>5, <2>6, RosterTold
  <1>10. CASE ~(Interested /\ (c = Me \/ server[c] # NoName))
    <2>1. down' = down
      BY <1>10 DEF PresenceChanges
    <2>2. RosterTypes'
      BY <1>1, <1>6, <2>1 DEF RosterInv, RosterTypes
    <2>3. RosterLink'
      BY <1>1, <1>2, <2>1 DEF RosterInv, RosterLink
    <2>4. ASSUME Interested, NEW d \in Contacts
          PROVE  Booked(d, down, roster[d], server[d], present'[d])
      <3>1. Booked(d, down, roster[d], server[d], present[d])
        BY <2>4 DEF RosterInv, AllBooked
      <3>2. d = c => server[d] = NoName
        BY <1>10, <2>4
      <3>3. server[d] = NoName => Booked(d, down, roster[d], server[d], present'[d])
        BY <3>1 DEF Booked
      <3> QED BY <1>6, <3>1, <3>2, <3>3
    <2> QED BY <1>1, <1>2, <2>1, <2>2, <2>3, <2>4 DEF RosterInv, AllBooked
  <1> QED BY <1>9, <1>10

\* A contact asks to subscribe.
LEMMA SubscriptionRequestKeeps ==
  ASSUME RosterInv, NEW c \in Contacts, NEW wants \in BOOLEAN, SubscriptionRequest(c, wants)
  PROVE  RosterInv'
PROOF
  <1>1. /\ Interested /\ UNCHANGED <<roster, filled, online, up, server, present>>
        /\ up \in Seq(SentUp) /\ down \in Seq(SentDown) /\ server \in [Contacts -> NameOrNone]
        /\ present \in [Contacts \cup {Me} -> SUBSET Resources]
    BY DEF SubscriptionRequest, RosterInv, RosterTypes
  <1>2. Interested'
    BY <1>1 DEF Interested
  <1>3. PICK m : m = [kind |-> "subscription", jid |-> c, wants |-> wants]
    OBVIOUS
  <1>4. m \in OtherSent /\ m \in SentDown
    BY <1>3 DEF OtherSent, SentDown
  <1>5. PICK t \in Seq(SentDown) : t = <<m>>
    BY <1>4, Alone
  <1>6. Len(t) = 1 /\ down' = down \o t /\ \A i \in 1..Len(t) : t[i] = m
    <2>1. down' = Append(down, m)
      BY <1>3 DEF SubscriptionRequest
    <2>2. Len(t) = 1 /\ \A i \in 1..Len(t) : t[i] = m
      BY <1>4, <1>5, Alone
    <2> QED BY <1>1, <1>4, <1>5, <2>1, <2>2
  <1>7. ASSUME NEW d \in Contacts
        PROVE  Booked(d, down', roster[d], server'[d], present'[d])
    <2>1. Booked(d, down, roster[d], server[d], present[d])
      BY <1>1 DEF RosterInv, AllBooked
    <2>2. \A i \in 1..Len(t) : t[i] \notin OfContact(d) /\ t[i] \notin PresencesOf(d)
      BY <1>4, <1>6, Sorts DEF OfContact, PresencesOf
    <2>3. Booked(d, down \o t, roster[d], server[d], present[d])
      BY <1>1, <2>1, <2>2, BookedQuiet
    <2> QED BY <1>1, <1>6, <2>3
  <1>8. \A i \in 1..Len(t) : t[i] \notin RosterSent
    BY <1>4, <1>6, Sorts
  <1>9. up' \in Seq(SentUp) /\ server' \in [Contacts -> NameOrNone]
        /\ present' \in [Contacts \cup {Me} -> SUBSET Resources]
    BY <1>1
  <1> QED BY <1>1, <1>2, <1>6, <1>7, <1>8, <1>9, RosterTold

\* Every step of a roster keeps the invariant.
LEMMA RosterSteps == RosterInv /\ [RosterNext]_rosterVars => RosterInv'
PROOF
  <1> SUFFICES ASSUME RosterInv, [RosterNext]_rosterVars PROVE RosterInv'
    OBVIOUS
  <1>1. CASE UNCHANGED rosterVars
    BY <1>1 DEF rosterVars, RosterInv, RosterTypes, RosterLink, Interested, AllBooked
  <1>2. ASSUME NEW c \in Contacts, NEW n \in Names, Add(c, n) PROVE RosterInv'
    BY <1>2, PutKeeps DEF Add, NameOrNone
  <1>3. ASSUME NEW c \in Contacts, Remove1(c) PROVE RosterInv'
    BY <1>3, PutKeeps DEF Remove1, NameOrNone
  <1>4. ASSUME NEW c \in Contacts, NEW n \in NameOrNone, ChangedElsewhere(c, n) PROVE RosterInv'
    BY <1>4, ChangedElsewhereKeeps
  <1> QED
    BY <1>1, <1>2, <1>3, <1>4, FillKeeps, LoseKeeps, SynchronizeKeeps, RenameKeeps,
       HandleRosterKeeps, HandlePushKeeps, HandleResultKeeps, HandlePresenceKeeps,
       HandleSubscriptionKeeps, ServerTakesKeeps, PresenceChangesKeeps,
       SubscriptionRequestKeeps
       DEF RosterNext, NameOrNone

-----------------------------------------------------------------------------
(* A room. *)

\* Each presence awaits its answer, and the room's name is known.
RoomInTurn == Patient /\ ~Unique

NoneOf(q, M) == \A i \in 1..Len(q) : q[i] \notin M
OneOf(q, M) == \A i, j \in 1..Len(q) : q[i] \in M /\ q[j] \in M => i = j
FirstOf(q, M) == \A i \in 1..Len(q) : q[i] \in M => i = 1

RoomOps == Operations \cup {"RequestRoomConfig", "CreateInstantRoom", "CancelRoomCreation"}
PresencesIn == [kind : {"presence"}, nick : Nicks, muc : BOOLEAN]
Leavings == [kind : {"unavailable"}]
ToRoom == PresencesIn \cup Leavings \cup [kind : {"iq"}, op : RoomOps]

NickOrNone == Nicks \cup {NoNick}
RoleOrNone == Roles \cup {NoRole}
ParticipantFlags ==
  {"Self", "NewRoom", "NonAnonymous", "NickAssigned", "NickChanged", "Kicked"}
Participants ==
  [kind : {"participant"}, nick : Nicks, newNick : NickOrNone, role : RoleOrNone,
   flags : SUBSET ParticipantFlags]
Refusals == [kind : {"refusal"}]
ToUser ==
  Participants \cup Refusals \cup [kind : {"message"}, status : Anonymity]
    \cup [kind : {"iq"}, op : RoomOps, ok : BOOLEAN]

MucObjects ==
  [joined : BOOLEAN, nick : Nicks, newNick : NickOrNone, role : RoleOrNone,
   creating : BOOLEAN, flags : SUBSET Anonymity]
Rooms ==
  [nick : NickOrNone, role : RoleOrNone, state : {"none", "locked", "open"}, anonymity : Anonymity]

\* What answers a presence and gives or leaves a name.
Naming ==
  Refusals \cup {m \in Participants : "NickAssigned" \in m.flags \/ "NickChanged" \in m.flags}

\* An answer that would leave the object with another name than the room's.
Misnaming(nick, new, known) ==
  {m \in Refusals : nick # known \/ new = NoNick}
    \cup {m \in Participants : "NickAssigned" \in m.flags
           /\ (m.nick # known \/ "NickChanged" \in m.flags)}
    \cup {m \in Participants : "NickChanged" \in m.flags
           /\ (m.nick # nick \/ m.newNick # new \/ new # known)}

\* A presence that is not the object's last.
Misplaced(nick, new, known) ==
  {m \in PresencesIn : IF m.muc THEN m.nick # nick \/ known # NoNick ELSE m.nick # new}

OwnRoles == {m \in Participants : "Self" \in m.flags}
InRole(r) == {m \in Participants : m.role = r}

\* One presence is answered at a time, and sent before anything else.
AnsweredInTurn ==
  /\ FirstOf(toRoom, PresencesIn) /\ OneOf(toUser, Naming)
  /\ NoneOf(toRoom, PresencesIn) \/ NoneOf(toUser, Naming)

\* The room hears that the user has left.
LeftIsHeard ==
  /\ muc.joined => NoneOf(toRoom, Leavings)
  /\ ~muc.joined /\ (room.nick # NoNick \/ ~NoneOf(toRoom, PresencesIn))
       => ~NoneOf(toRoom, Leavings)

\* With what is on its way the object has the room's name and role.
Placed ==
  muc.joined /\ room.nick # NoNick =>
    /\ NoneOf(toUser, Naming) => muc.nick = room.nick
    /\ NoneOf(toUser, Misnaming(muc.nick, muc.newNick, room.nick))
    /\ Latest(toUser, Len(toUser), OwnRoles, InRole(room.role), muc.role, {room.role})

MucTypes ==
  muc \in MucObjects /\ room \in Rooms /\ toRoom \in Seq(ToRoom) /\ toUser \in Seq(ToUser)

MucInv ==
  /\ MucTypes /\ AnsweredInTurn /\ LeftIsHeard /\ Placed
  /\ NoneOf(toRoom, Misplaced(muc.nick, muc.newNick, room.nick))

\* What a queue has after a message more.
LEMMA Appended ==
  ASSUME NEW T, NEW q \in Seq(T), NEW e \in T
  PROVE  /\ Append(q, e) \in Seq(T)
         /\ \A M : e \notin M =>
              (NoneOf(Append(q, e), M) <=> NoneOf(q, M)) /\ (OneOf(q, M) => OneOf(Append(q, e), M))
         /\ \A M : e \in M => (NoneOf(q, M) => OneOf(Append(q, e), M)) /\ ~NoneOf(Append(q, e), M)
         /\ \A M : FirstOf(q, M) /\ (e \notin M \/ q = <<>>) => FirstOf(Append(q, e), M)
PROOF
  <1> DEFINE a == Append(q, e)
  <1>1. a \in Seq(T) /\ Len(a) = Len(q) + 1 /\ Len(q) \in Nat /\ a[Len(q) + 1] = e
        /\ \A i \in 1..Len(q) : a[i] = q[i]
    OBVIOUS
  <1>2. \A i \in 1..Len(a) : i \in 1..Len(q) \/ i = Len(q) + 1
    BY <1>1
  <1>3. Len(q) + 1 \in 1..Len(a) /\ \A i \in 1..Len(q) : i \in 1..Len(a)
    BY <1>1
  <1> HIDE DEF a
  <1>4. \A M : e \notin M => (NoneOf(a, M) <=> NoneOf(q, M)) /\ (OneOf(q, M) => OneOf(a, M))
    BY <1>1, <1>2, <1>3 DEF NoneOf, OneOf
  <1>5. \A M : e \in M => (NoneOf(q, M) => OneOf(a, M)) /\ ~NoneOf(a, M)
    BY <1>1, <1>2, <1>3 DEF NoneOf, OneOf
  <1>6. \A M : FirstOf(q, M) /\ (e \notin M \/ q = <<>>) => FirstOf(a, M)
    <2> SUFFICES ASSUME NEW M, FirstOf(q, M), e \notin M \/ q = <<>>,
                        NEW i \in 1..Len(a), a[i] \in M
                 PROVE  i = 1
      BY DEF FirstOf
    <2>1. CASE i \in 1..Len(q)
      BY <1>1, <2>1 DEF FirstOf
    <2>2. CASE i = Len(q) + 1
      <3>1. q = <<>>
        BY <1>1, <2>2
      <3> QED BY <2>2, <3>1
    <2> QED BY <1>2, <2>1, <2>2
  <1> QED BY <1>1, <1>4, <1>5, <1>6 DEF a

\* What a queue has after its first message.
LEMMA Shortened ==
  ASSUME NEW T, NEW q \in Seq(T), q # <<>>
  PROVE  /\ Tail(q) \in Seq(T) /\ Head(q) \in T
         /\ \A M : NoneOf(q, M) <=> Head(q) \notin M /\ NoneOf(Tail(q), M)
         /\ \A M : OneOf(q, M) => OneOf(Tail(q), M) /\ (Head(q) \in M => NoneOf(Tail(q), M))
         /\ \A M : FirstOf(q, M) => NoneOf(Tail(q), M) /\ FirstOf(Tail(q), M)
PROOF
  <1> DEFINE a == Tail(q)
  <1>1. /\ a \in Seq(T) /\ Len(a) = Len(q) - 1 /\ Len(q) \in Nat /\ Head(q) = q[1] /\ Len(q) >= 1
        /\ Head(q) \in T
        /\ \A i \in 1..Len(a) : a[i] = q[i + 1]
    OBVIOUS
  <1>2. \A i \in 1..Len(a) : i + 1 \in 1..Len(q)
    BY <1>1
  <1>3. 1 \in 1..Len(q) /\ \A i \in 1..Len(q) : i = 1 \/ (i - 1 \in 1..Len(a) /\ (i - 1) + 1 = i)
    BY <1>1
  <1>4. \A i, j \in 1..Len(a) : i + 1 = j + 1 => i = j
    OBVIOUS
  <1>5. \A i \in 1..Len(a) : i + 1 # 1
    OBVIOUS
  <1> HIDE DEF a
  <1>6. \A M : NoneOf(q, M) <=> Head(q) \notin M /\ NoneOf(a, M)
    BY <1>1, <1>2, <1>3 DEF NoneOf
  <1>7. \A M : OneOf(q, M) => OneOf(a, M) /\ (Head(q) \in M => NoneOf(a, M))
    <2> SUFFICES ASSUME NEW M, OneOf(q, M)
                 PROVE  OneOf(a, M) /\ (Head(q) \in M => NoneOf(a, M))
      OBVIOUS
    <2>1. ASSUME NEW i \in 1..Len(a), NEW j \in 1..Len(a), a[i] \in M, a[j] \in M
          PROVE  i = j
      <3>1. i + 1 = j + 1
        BY <1>1, <1>2, <2>1 DEF OneOf
      <3> QED BY <1>4, <3>1
    <2>2. ASSUME Head(q) \in M, NEW i \in 1..Len(a) PROVE a[i] \notin M
      BY <1>1, <1>2, <1>3, <1>5, <2>2 DEF OneOf
    <2> QED BY <2>1, <2>2 DEF NoneOf, OneOf
  <1>8. \A M : FirstOf(q, M) => NoneOf(a, M) /\ FirstOf(a, M)
    BY <1>1, <1>2, <1>5 DEF FirstOf, NoneOf
  <1> QED BY <1>1, <1>6, <1>7, <1>8 DEF a

\* One message more.
LEMMA LatestAppended ==
  ASSUME NEW T, NEW q \in Seq(T), NEW e \in T, NEW M, NEW OK, NEW s, NEW F,
         e \in M => e \in OK, e \notin M => Latest(q, Len(q), M, OK, s, F)
  PROVE  Latest(Append(q, e), Len(Append(q, e)), M, OK, s, F)
PROOF
  <1>1. PICK t \in Seq(T) : t = <<e>>
    BY Alone
  <1>2. Len(t) = 1 /\ t[1] = e /\ Append(q, e) = q \o t /\ Len(q \o t) = Len(q) + 1
    BY <1>1
  <1>3. 1 \in 0..Len(t) /\ 1 \in 1..1 /\ \A i \in 1..1 : i = 1
    BY <1>2
  <1>4. CASE e \in M
    <2>1. t[1] \in M \cap OK /\ \A j \in 1..1 : t[j] \in M => j <= 1
      BY <1>2, <1>4
    <2>2. Latest(q \o t, Len(q) + 1, M, OK, s, F)
      BY <1>3, <2>1, LatestTold
    <2> QED BY <1>2, <2>2
  <1>5. CASE e \notin M
    <2>1. \A i \in 1..1 : t[i] \notin M
      BY <1>2, <1>3, <1>5
    <2>2. Latest(q \o t, Len(q) + 1, M, OK, s, F)
      BY <1>3, <1>5, <2>1, LatestQuiet
    <2> QED BY <1>2, <2>2
  <1> QED BY <1>4, <1>5

\* One message fewer.
LEMMA LatestShortened ==
  ASSUME NEW T, NEW q \in Seq(T), q # <<>>, NEW M, NEW OK, NEW s, NEW z, NEW F,
         Latest(q, Len(q), M, OK, s, F),
         Head(q) \in M \cap OK => z \in F, Head(q) \notin M /\ s \in F => z \in F
  PROVE  Latest(Tail(q), Len(Tail(q)), M, OK, z, F)
PROOF
  <1>1. Len(q) \in 1..Len(q) /\ Len(Tail(q)) = Len(q) - 1
    OBVIOUS
  <1> QED BY <1>1, LatestTaken

\* Stanzas by their kinds.
LEMMA RoomSorts ==
  /\ \A m \in PresencesIn : m.kind = "presence" /\ m \in ToRoom
  /\ \A m \in Leavings : m.kind = "unavailable" /\ m \in ToRoom
  /\ \A m \in Participants : m.kind = "participant" /\ m \in ToUser
  /\ \A m \in Refusals : m.kind = "refusal" /\ m \in ToUser
  /\ \A m \in ToRoom :
       /\ m.kind = "presence" => m \in PresencesIn
       /\ m.kind = "unavailable" => m \in Leavings
       /\ m.kind = "iq" => m.op \in RoomOps
  /\ \A m \in ToUser :
       /\ m.kind = "participant" => m \in Participants
       /\ m.kind = "refusal" => m \in Refusals
       /\ m.kind = "message" => m.status \in Anonymity
       /\ m.kind = "iq" => m.op \in RoomOps
PROOF
  BY DEF ToRoom, ToUser, PresencesIn, Leavings, Participants, Refusals

\* A stanza of a kind.
LEMMA UserSorts ==
  ASSUME NEW m \in ToUser
  PROVE  /\ m.kind = "participant" => m \in Participants
         /\ m.kind = "refusal" => m \in Refusals
PROOF
  <1>1. m.kind = "participant" => m \in Participants
    BY DEF ToUser, Participants, Refusals
  <1>2. m.kind = "refusal" => m \in Refusals
    BY DEF ToUser, Participants, Refusals
  <1> QED BY <1>1, <1>2

\* What the object sends.
LEMMA RoomSent ==
  /\ \A n \in Nicks, b \in BOOLEAN : Presence(n, b) \in PresencesIn
  /\ Unavailable \in Leavings
  /\ \A op \in RoomOps : Iq(op) \in ToRoom /\ Iq(op) \notin PresencesIn /\ Iq(op) \notin Leavings
PROOF
  BY DEF Presence, Unavailable, Iq, PresencesIn, Leavings, ToRoom

\* A presence with the name it should have.
LEMMA RightlyPlaced ==
  ASSUME NEW n \in Nicks, NEW x, NEW y
  PROVE  /\ Presence(n, TRUE) \notin Misplaced(n, x, NoNick)
         /\ Presence(n, FALSE) \notin Misplaced(x, n, y)
PROOF
  <1>1. ASSUME NEW m \in Misplaced(n, x, NoNick) PROVE m # Presence(n, TRUE)
    <2>1. SUFFICES ASSUME m = Presence(n, TRUE) PROVE FALSE
      OBVIOUS
    <2>2. m.muc = TRUE /\ m.nick = n
      BY <2>1 DEF Presence
    <2>3. IF m.muc THEN m.nick # n \/ NoNick # NoNick ELSE m.nick # x
      BY DEF Misplaced
    <2> QED BY <2>2, <2>3
  <1>2. ASSUME NEW m \in Misplaced(x, n, y) PROVE m # Presence(n, FALSE)
    <2>1. SUFFICES ASSUME m = Presence(n, FALSE) PROVE FALSE
      OBVIOUS
    <2>2. m.muc = FALSE /\ m.nick = n
      BY <2>1 DEF Presence
    <2>3. IF m.muc THEN m.nick # x \/ y # NoNick ELSE m.nick # n
      BY DEF Misplaced
    <2> QED BY <2>2, <2>3
  <1> QED BY <1>1, <1>2

\* What is neither a presence nor a refusal nor a participant is in none of these.
LEMMA RoomSets ==
  /\ \A x, y, z : Misplaced(x, y, z) \subseteq PresencesIn
  /\ \A x, y, z : Misnaming(x, y, z) \subseteq Naming
  /\ Naming \subseteq Participants \cup Refusals /\ OwnRoles \subseteq Participants
  /\ \A m \in PresencesIn : m \notin Leavings
  /\ \A m \in Refusals : m \notin Participants /\ m \notin OwnRoles /\ m \in Naming
PROOF
  BY RoomSorts DEF Misplaced, Misnaming, Naming, OwnRoles

\* A room nobody has joined.
LEMMA MucStart == MucInit => MucInv
PROOF
  <1> SUFFICES ASSUME MucInit PROVE MucInv
    OBVIOUS
  <1>1. (CHOOSE n \in Nicks : n \notin Taken) \in Nicks
    BY MucAssumption
  <1>2. muc \in MucObjects /\ ~muc.joined
    BY <1>1 DEF MucInit, MucObjects, NickOrNone, RoleOrNone
  <1>3. room \in Rooms /\ room.nick = NoNick
    BY DEF MucInit, Rooms, NickOrNone, RoleOrNone, Anonymity
  <1>4. toRoom = <<>> /\ toUser = <<>>
    BY DEF MucInit
  <1>5. \A M : NoneOf(<<>>, M) /\ OneOf(<<>>, M) /\ FirstOf(<<>>, M)
    BY DEF NoneOf, OneOf, FirstOf
  <1> QED BY <1>2, <1>3, <1>4, <1>5 DEF MucInv, MucTypes, AnsweredInTurn, LeftIsHeard, Placed

\* What the properties of the object are about.
Same(u, v) == u.joined = v.joined /\ u.nick = v.nick /\ u.newNick = v.newNick /\ u.role = v.role

\* The application sends an IQ.
LEMMA IqKeeps ==
  ASSUME MucInv, NEW op \in RoomOps, toRoom' = Append(toRoom, Iq(op)), UNCHANGED <<room, toUser>>,
         muc' \in MucObjects, Same(muc', muc)
  PROVE  MucInv'
PROOF
  <1>1. toRoom \in Seq(ToRoom)
    BY DEF MucInv, MucTypes
  <1>2. PICK e \in ToRoom : e = Iq(op) /\ e \notin PresencesIn /\ e \notin Leavings
    BY RoomSent
  <1>3. /\ toRoom' \in Seq(ToRoom)
        /\ \A M : e \notin M => (NoneOf(toRoom', M) <=> NoneOf(toRoom, M))
                               /\ (FirstOf(toRoom, M) => FirstOf(toRoom', M))
    BY <1>1, <1>2, Appended
  <1>4. AnsweredInTurn'
    BY <1>2, <1>3 DEF MucInv, AnsweredInTurn
  <1>5. LeftIsHeard'
    BY <1>2, <1>3 DEF MucInv, LeftIsHeard, Same
  <1>6. Placed'
    BY DEF MucInv, Placed, Same
  <1>7. NoneOf(toRoom, Misplaced(muc'.nick, muc'.newNick, room'.nick))
    BY DEF MucInv, Same
  <1>8. NoneOf(toRoom', Misplaced(muc'.nick, muc'.newNick, room'.nick))
    BY <1>2, <1>3, <1>7, RoomSets
  <1> QED BY <1>3, <1>4, <1>5, <1>6, <1>8 DEF MucInv, MucTypes

\* The user hears of something else.
LEMMA HearsOther ==
  ASSUME MucInv, toUser # <<>>, toUser' = Tail(toUser), Head(toUser) \notin Naming,
         Head(toUser) \notin OwnRoles, UNCHANGED <<room, toRoom>>,
         muc' \in MucObjects, Same(muc', muc)
  PROVE  MucInv'
PROOF
  <1>1. toUser \in Seq(ToUser)
    BY DEF MucInv, MucTypes
  <1>2. /\ toUser' \in Seq(ToUser)
        /\ \A M : NoneOf(toUser, M) <=> Head(toUser) \notin M /\ NoneOf(toUser', M)
        /\ \A M : OneOf(toUser, M) => OneOf(toUser', M)
    BY <1>1, Shortened
  <1>3. AnsweredInTurn'
    BY <1>2 DEF MucInv, AnsweredInTurn
  <1>4. LeftIsHeard'
    BY DEF MucInv, LeftIsHeard, Same
  <1>5. Placed'
    <2> SUFFICES ASSUME muc.joined /\ room.nick # NoNick
                 PROVE  /\ NoneOf(toUser', Naming) => muc.nick = room.nick
                        /\ NoneOf(toUser', Misnaming(muc.nick, muc.newNick, room.nick))
                        /\ Latest(toUser', Len(toUser'), OwnRoles, InRole(room.role), muc.role,
                                  {room.role})
      BY DEF Placed, Same
    <2>1. /\ NoneOf(toUser, Naming) => muc.nick = room.nick
          /\ NoneOf(toUser, Misnaming(muc.nick, muc.newNick, room.nick))
          /\ Latest(toUser, Len(toUser), OwnRoles, InRole(room.role), muc.role, {room.role})
      BY DEF MucInv, Placed
    <2>2. Latest(toUser', Len(toUser'), OwnRoles, InRole(room.role), muc.role, {room.role})
      BY <1>1, <2>1, LatestShortened
    <2> QED BY <1>2, <2>1, <2>2
  <1>6. NoneOf(toRoom', Misplaced(muc'.nick, muc'.newNick, room'.nick))
    BY DEF MucInv, Same
  <1> QED BY <1>2, <1>3, <1>4, <1>5, <1>6 DEF MucInv, MucTypes

\* The room takes what changes nothing.
LEMMA RoomTakesKeeps ==
  ASSUME MucInv, toRoom # <<>>, toRoom' = Tail(toRoom), UNCHANGED <<muc, room, toUser>>,
         Head(toRoom) \in Leavings => room.nick = NoNick
  PROVE  MucInv'
PROOF
  <1>1. toRoom \in Seq(ToRoom)
    BY DEF MucInv, MucTypes
  <1>2. /\ toRoom' \in Seq(ToRoom)
        /\ \A M : NoneOf(toRoom, M) <=> Head(toRoom) \notin M /\ NoneOf(toRoom', M)
        /\ \A M : FirstOf(toRoom, M) => NoneOf(toRoom', M) /\ FirstOf(toRoom', M)
    BY <1>1, Shortened
  <1>3. AnsweredInTurn'
    BY <1>2 DEF MucInv, AnsweredInTurn
  <1>4. LeftIsHeard'
    BY <1>2 DEF MucInv, LeftIsHeard, AnsweredInTurn
  <1>5. Placed'
    BY DEF MucInv, Placed
  <1>6. NoneOf(toRoom', Misplaced(muc'.nick, muc'.newNick, room'.nick))
    BY <1>2 DEF MucInv
  <1> QED BY <1>2, <1>3, <1>4, <1>5, <1>6 DEF MucInv, MucTypes

\* The room sends something that gives no name, having taken something or not.
LEMMA RoomTells ==
  ASSUME MucInv, NEW e \in ToUser, e \notin Naming, toUser' = Append(toUser, e), UNCHANGED muc,
         room' \in Rooms, room'.nick \in {room.nick, NoNick},
         room'.nick # NoNick =>
           IF e \in OwnRoles THEN e \in InRole(room'.role) ELSE room'.role = room.role,
         \/ toRoom' = toRoom
         \/ /\ toRoom # <<>> /\ toRoom' = Tail(toRoom)
            /\ Head(toRoom) \in Leavings => room'.nick = NoNick
  PROVE  MucInv'
PROOF
  <1>1. toRoom \in Seq(ToRoom) /\ toUser \in Seq(ToUser)
    BY DEF MucInv, MucTypes
  <1>2. /\ toUser' \in Seq(ToUser)
        /\ \A M : e \notin M => (NoneOf(toUser', M) <=> NoneOf(toUser, M))
                               /\ (OneOf(toUser, M) => OneOf(toUser', M))
    BY <1>1, Appended
  <1>3. /\ toRoom' \in Seq(ToRoom)
        /\ \A M : NoneOf(toRoom, M) => NoneOf(toRoom', M)
        /\ \A M : FirstOf(toRoom, M) => FirstOf(toRoom', M)
        /\ room'.nick # NoNick => (NoneOf(toRoom', Leavings) => NoneOf(toRoom, Leavings))
        /\ NoneOf(toRoom', PresencesIn)
             \/ (NoneOf(toRoom', Leavings) => NoneOf(toRoom, Leavings))
    <2>1. CASE toRoom' = toRoom
      BY <1>1, <2>1
    <2>2. CASE toRoom # <<>> /\ toRoom' = Tail(toRoom)
               /\ (Head(toRoom) \in Leavings => room'.nick = NoNick)
      BY <1>1, <2>2, Shortened DEF MucInv, AnsweredInTurn
    <2> QED BY <2>1, <2>2
  <1>4. AnsweredInTurn'
    BY <1>2, <1>3 DEF MucInv, AnsweredInTurn
  <1>5. LeftIsHeard'
    BY <1>3 DEF MucInv, LeftIsHeard
  <1>6. Placed'
    <2> SUFFICES ASSUME muc.joined /\ room'.nick # NoNick
                 PROVE  /\ NoneOf(toUser', Naming) => muc.nick = room'.nick
                        /\ NoneOf(toUser', Misnaming(muc.nick, muc.newNick, room'.nick))
                        /\ Latest(toUser', Len(toUser'), OwnRoles, InRole(room'.role), muc.role,
                                  {room'.role})
      BY DEF Placed
    <2>1. /\ room'.nick = room.nick
          /\ NoneOf(toUser, Naming) => muc.nick = room.nick
          /\ NoneOf(toUser, Misnaming(muc.nick, muc.newNick, room.nick))
          /\ Latest(toUser, Len(toUser), OwnRoles, InRole(room.role), muc.role, {room.role})
      BY DEF MucInv, Placed
    <2>2. Latest(toUser', Len(toUser'), OwnRoles, InRole(room'.role), muc.role, {room'.role})
      <3>1. /\ e \in OwnRoles => e \in InRole(room'.role)
            /\ e \notin OwnRoles => Latest(toUser, Len(toUser), OwnRoles, InRole(room'.role),
                                            muc.role, {room'.role})
        BY <2>1
      <3> QED BY <1>1, <3>1, LatestAppended
    <2> QED BY <1>2, <2>1, <2>2, RoomSets
  <1>7. NoneOf(toRoom', Misplaced(muc'.nick, muc'.newNick, room'.nick))
    <2>1. Misplaced(muc.nick, muc.newNick, room'.nick)
            \subseteq Misplaced(muc.nick, muc.newNick, room.nick)
      BY DEF Misplaced
    <2>2. NoneOf(toRoom', Misplaced(muc.nick, muc.newNick, room.nick))
      BY <1>3 DEF MucInv
    <2> QED BY <2>1, <2>2 DEF NoneOf
  <1> QED BY <1>2, <1>3, <1>4, <1>5, <1>6, <1>7 DEF MucInv, MucTypes

\* Nothing is on its way.
LEMMA IdleMeans ==
  ASSUME MucInv, Idle
  PROVE  /\ toRoom = <<>> /\ toUser = <<>> /\ \A M : NoneOf(toRoom, M) /\ NoneOf(toUser, M)
         /\ \A M : FirstOf(toRoom, M) /\ OneOf(toUser, M)
         /\ ~muc.joined => room.nick = NoNick
         /\ muc.joined /\ room.nick # NoNick => muc.nick = room.nick
PROOF
  <1>1. toRoom = <<>> /\ toUser = <<>>
    BY DEF Idle
  <1>2. /\ \A M : NoneOf(toRoom, M) /\ NoneOf(toUser, M)
        /\ \A M : FirstOf(toRoom, M) /\ OneOf(toUser, M)
    BY <1>1 DEF NoneOf, OneOf, FirstOf
  <1> QED BY <1>1, <1>2 DEF MucInv, LeftIsHeard, Placed

\* A presence of a user that has none under way.
LEMMA PresenceKeeps ==
  ASSUME MucInv, Idle, NEW e \in PresencesIn, toRoom' = Append(toRoom, e),
         UNCHANGED <<room, toUser>>,
         muc' \in MucObjects, muc'.joined, muc'.nick = muc.nick, muc'.role = muc.role,
         ~muc.joined => room.nick = NoNick,
         e \notin Misplaced(muc'.nick, muc'.newNick, room.nick)
  PROVE  MucInv'
PROOF
  <1>1. toRoom \in Seq(ToRoom) /\ e \in ToRoom /\ e \notin Leavings
    BY RoomSorts, RoomSets DEF MucInv, MucTypes
  <1>2. /\ toRoom' \in Seq(ToRoom)
        /\ \A M : e \notin M => (NoneOf(toRoom', M) <=> NoneOf(toRoom, M))
        /\ FirstOf(toRoom', PresencesIn)
    <2>1. FirstOf(toRoom, PresencesIn) /\ toRoom = <<>>
      BY IdleMeans
    <2> QED BY <1>1, <2>1, Appended
  <1>3. \A M : NoneOf(toUser', M) /\ OneOf(toUser', M)
    BY IdleMeans
  <1>4. AnsweredInTurn'
    BY <1>2, <1>3 DEF AnsweredInTurn
  <1>5. NoneOf(toRoom', Leavings)
    BY <1>1, <1>2, IdleMeans
  <1>6. LeftIsHeard'
    BY <1>5 DEF LeftIsHeard
  <1>7. Placed'
    BY <1>3, IdleMeans DEF MucInv, Placed
  <1>8. NoneOf(toRoom', Misplaced(muc'.nick, muc'.newNick, room'.nick))
    BY <1>2, IdleMeans
  <1> QED BY <1>2, <1>4, <1>6, <1>7, <1>8 DEF MucInv, MucTypes

\* join() waits for the answer to what was sent before.
LEMMA JoinKeeps ==
  ASSUME RoomInTurn, MucInv, Join PROVE MucInv'
PROOF
  <1>1. /\ Idle /\ ~muc.joined /\ toRoom' = Append(toRoom, Presence(muc.nick, TRUE))
        /\ muc' = [muc EXCEPT !.joined = TRUE] /\ UNCHANGED <<room, toUser>>
    BY DEF RoomInTurn, Join, Asks, Joined
  <1>2. muc \in MucObjects /\ room.nick = NoNick
    BY <1>1, IdleMeans DEF MucInv, MucTypes
  <1>3. muc' \in MucObjects /\ muc'.joined /\ muc'.nick = muc.nick /\ muc'.role = muc.role
    BY <1>1, <1>2 DEF MucObjects
  <1>4. muc.nick \in Nicks
    BY <1>2 DEF MucObjects
  <1>5. PICK e \in PresencesIn : e = Presence(muc.nick, TRUE)
    BY <1>4, RoomSent
  <1>6. e \notin Misplaced(muc'.nick, muc'.newNick, room.nick)
    BY <1>2, <1>3, <1>4, <1>5, RightlyPlaced
  <1> QED BY <1>1, <1>2, <1>3, <1>5, <1>6, PresenceKeeps

\* leave() is told to the room.
LEMMA LeaveKeeps ==
  ASSUME MucInv, Leave PROVE MucInv'
PROOF
  <1>1. /\ muc' = [muc EXCEPT !.joined = FALSE] /\ toRoom' = Append(toRoom, Unavailable)
        /\ UNCHANGED <<room, toUser>>
    BY DEF Leave, Asks
  <1>2. PICK e \in Leavings : e = Unavailable
    BY RoomSent
  <1>3. /\ muc \in MucObjects /\ toRoom \in Seq(ToRoom) /\ toUser \in Seq(ToUser) /\ e \in ToRoom
        /\ e \notin PresencesIn
    BY RoomSorts, RoomSets DEF MucInv, MucTypes
  <1>4. muc' \in MucObjects /\ ~muc'.joined /\ muc'.nick = muc.nick /\ muc'.newNick = muc.newNick
    BY <1>1, <1>3 DEF MucObjects
  <1>5. /\ toRoom' \in Seq(ToRoom)
        /\ \A M : e \notin M => (NoneOf(toRoom', M) <=> NoneOf(toRoom, M))
                               /\ (FirstOf(toRoom, M) => FirstOf(toRoom', M))
        /\ ~NoneOf(toRoom', Leavings)
    BY <1>1, <1>2, <1>3, Appended
  <1>6. AnsweredInTurn'
    BY <1>1, <1>3, <1>5 DEF MucInv, AnsweredInTurn
  <1>7. LeftIsHeard' /\ Placed'
    BY <1>4, <1>5 DEF LeftIsHeard, Placed
  <1>8. NoneOf(toRoom', Misplaced(muc'.nick, muc'.newNick, room'.nick))
    BY <1>1, <1>3, <1>4, <1>5, RoomSets DEF MucInv
  <1> QED BY <1>1, <1>3, <1>4, <1>5, <1>6, <1>7, <1>8 DEF MucInv, MucTypes

\* setNick() waits too.
LEMMA SetNickKeeps ==
  ASSUME RoomInTurn, MucInv, NEW n \in Nicks, SetNick(n) PROVE MucInv'
PROOF
  <1>1. Idle /\ UNCHANGED <<room, toUser>> /\ muc \in MucObjects
    BY DEF RoomInTurn, SetNick, MucInv, MucTypes
  <1>2. CASE muc.joined
    <2>1. muc' = [muc EXCEPT !.newNick = n] /\ toRoom' = Append(toRoom, Presence(n, FALSE))
      BY <1>2 DEF SetNick, Asks
    <2>2. muc' \in MucObjects /\ muc'.joined /\ muc'.nick = muc.nick /\ muc'.role = muc.role
          /\ muc'.newNick = n
      BY <1>1, <1>2, <2>1 DEF MucObjects, NickOrNone
    <2>3. PICK e \in PresencesIn : e = Presence(n, FALSE)
      BY RoomSent
    <2>4. e \notin Misplaced(muc'.nick, muc'.newNick, room.nick)
      BY <2>2, <2>3, RightlyPlaced
    <2> QED BY <1>1, <1>2, <2>1, <2>2, <2>3, <2>4, PresenceKeeps
  <1>3. CASE ~muc.joined
    <2>1. muc' = [muc EXCEPT !.nick = n] /\ UNCHANGED toRoom
      BY <1>3 DEF SetNick
    <2>2. muc' \in MucObjects /\ ~muc'.joined
      BY <1>1, <1>3, <2>1 DEF MucObjects
    <2>3. room.nick = NoNick /\ \A M : NoneOf(toRoom, M)
      BY <1>1, <1>3, IdleMeans
    <2>4. AnsweredInTurn'
      BY <1>1, <2>1 DEF MucInv, AnsweredInTurn
    <2>5. LeftIsHeard' /\ Placed'
      BY <1>1, <2>1, <2>2, <2>3 DEF LeftIsHeard, Placed
    <2> QED BY <1>1, <2>1, <2>2, <2>3, <2>4, <2>5 DEF MucInv, MucTypes
  <1> QED BY <1>2, <1>3

\* A refusal leaves the room or the name as it is.
LEMMA HandleRefusalKeeps ==
  ASSUME MucInv, HandleRefusal PROVE MucInv'
PROOF
  <1>1. /\ toUser # <<>> /\ Head(toUser).kind = "refusal" /\ toUser' = Tail(toUser)
        /\ muc' = (IF muc.joined THEN RefusedRoom(muc) ELSE muc) /\ UNCHANGED <<room, toRoom>>
    BY DEF HandleRefusal, Arrives
  <1>2. muc \in MucObjects /\ toUser \in Seq(ToUser) /\ room \in Rooms /\ toRoom \in Seq(ToRoom)
    BY DEF MucInv, MucTypes
  <1>3. /\ toUser' \in Seq(ToUser) /\ Head(toUser) \in ToUser
        /\ \A M : NoneOf(toUser, M) <=> Head(toUser) \notin M /\ NoneOf(toUser', M)
        /\ \A M : OneOf(toUser, M) =>
              OneOf(toUser', M) /\ (Head(toUser) \in M => NoneOf(toUser', M))
    BY <1>1, <1>2, Shortened
  <1>4. Head(toUser) \in Refusals /\ Head(toUser) \in Naming /\ Head(toUser) \notin OwnRoles
    <2>1. PICK m \in ToUser : m = Head(toUser)
      BY <1>3
    <2>2. m.kind = "refusal"
      BY <1>1, <2>1
    <2>3. m \in Refusals
      BY <2>2, UserSorts
    <2>4. m \in Naming /\ m \notin OwnRoles
      BY <2>3, RoomSets
    <2> QED BY <2>1, <2>3, <2>4
  <1>5. NoneOf(toUser', Naming) /\ NoneOf(toRoom, PresencesIn) /\ OneOf(toUser', Naming)
    BY <1>3, <1>4 DEF MucInv, AnsweredInTurn
  <1>6. /\ muc' \in MucObjects /\ muc'.nick = muc.nick /\ muc'.role = muc.role
        /\ muc'.joined => muc.joined
        /\ muc.joined /\ muc.newNick # NoNick => muc'.joined
    BY <1>1, <1>2 DEF RefusedRoom, MucObjects, NickOrNone
  <1>7. muc.joined /\ room.nick # NoNick =>
          /\ muc.nick = room.nick /\ muc.newNick # NoNick
          /\ Latest(toUser, Len(toUser), OwnRoles, InRole(room.role), muc.role, {room.role})
    <2> SUFFICES ASSUME muc.joined /\ room.nick # NoNick
                 PROVE  /\ muc.nick = room.nick /\ muc.newNick # NoNick
                        /\ Latest(toUser, Len(toUser), OwnRoles, InRole(room.role), muc.role,
                                  {room.role})
      OBVIOUS
    <2>1. NoneOf(toUser, Misnaming(muc.nick, muc.newNick, room.nick))
          /\ Latest(toUser, Len(toUser), OwnRoles, InRole(room.role), muc.role, {room.role})
      BY DEF MucInv, Placed
    <2>2. Head(toUser) \notin Misnaming(muc.nick, muc.newNick, room.nick)
      BY <1>3, <2>1
    <2> QED BY <1>4, <2>1, <2>2 DEF Misnaming
  <1>8. AnsweredInTurn'
    BY <1>1, <1>5 DEF MucInv, AnsweredInTurn
  <1>9. LeftIsHeard'
    BY <1>1, <1>5, <1>6, <1>7 DEF MucInv, LeftIsHeard
  <1>10. Placed'
    <2> SUFFICES ASSUME muc'.joined /\ room.nick # NoNick
                 PROVE  /\ muc.nick = room.nick
                        /\ NoneOf(toUser', Misnaming(muc'.nick, muc'.newNick, room.nick))
                        /\ Latest(toUser', Len(toUser'), OwnRoles, InRole(room.role), muc.role,
                                  {room.role})
      BY <1>1, <1>6 DEF Placed
    <2>1. muc.nick = room.nick
          /\ Latest(toUser, Len(toUser), OwnRoles, InRole(room.role), muc.role, {room.role})
      BY <1>6, <1>7
    <2>2. NoneOf(toUser', Misnaming(muc'.nick, muc'.newNick, room.nick))
      BY <1>5, RoomSets DEF NoneOf
    <2>3. Latest(toUser', Len(toUser'), OwnRoles, InRole(room.role), muc.role, {room.role})
      BY <1>1, <1>2, <1>4, <2>1, LatestShortened
    <2> QED BY <2>1, <2>2, <2>3
  <1>11. NoneOf(toRoom', Misplaced(muc'.nick, muc'.newNick, room'.nick))
    BY <1>1, <1>5, RoomSets DEF NoneOf
  <1> QED BY <1>1, <1>2, <1>3, <1>6, <1>8, <1>9, <1>10, <1>11 DEF MucInv, MucTypes

\* What the object notes of a participant, whose role is its own or not.
LEMMA NotedIs ==
  ASSUME NEW u \in MucObjects, NEW p \in Participants, NEW v \in {Noted(u, p), Opened(Noted(u, p))}
  PROVE  /\ v \in MucObjects /\ v.joined = u.joined /\ v.nick = u.nick /\ v.newNick = u.newNick
         /\ v.role = IF p \in OwnRoles THEN p.role ELSE u.role
PROOF
  <1>1. PICK a : a = IF "NonAnonymous" \in p.flags
                       THEN [u EXCEPT !.flags = SetAnonymity(@, "non")] ELSE u
    OBVIOUS
  <1>2. a \in MucObjects /\ a.joined = u.joined /\ a.nick = u.nick /\ a.newNick = u.newNick
        /\ a.role = u.role
    BY <1>1 DEF MucObjects, SetAnonymity, Anonymity
  <1>3. PICK b : b = IF "Self" \in p.flags THEN [a EXCEPT !.role = p.role] ELSE a
    OBVIOUS
  <1>4. p.role \in RoleOrNone /\ ("Self" \in p.flags <=> p \in OwnRoles)
    BY DEF Participants, OwnRoles
  <1>5. b \in MucObjects /\ b.joined = u.joined /\ b.nick = u.nick /\ b.newNick = u.newNick
        /\ b.role = IF p \in OwnRoles THEN p.role ELSE u.role
    BY <1>2, <1>3, <1>4 DEF MucObjects
  <1>6. Noted(u, p) = IF "NewRoom" \in p.flags THEN [b EXCEPT !.creating = TRUE] ELSE b
    BY <1>1, <1>3 DEF Noted
  <1>7. PICK d : d = Noted(u, p)
    OBVIOUS
  <1>8. d \in MucObjects /\ d.joined = u.joined /\ d.nick = u.nick /\ d.newNick = u.newNick
        /\ d.role = IF p \in OwnRoles THEN p.role ELSE u.role
    BY <1>5, <1>6, <1>7 DEF MucObjects
  <1>9. v = d \/ v = [d EXCEPT !.creating = FALSE]
    BY <1>7 DEF Opened
  <1> QED BY <1>8, <1>9 DEF MucObjects

\* The name it has afterwards.
LEMMA NamedIs ==
  ASSUME NEW u \in MucObjects, NEW p \in Participants, NEW w, w = Renamed(Assigned(u, p), p)
  PROVE  /\ w \in MucObjects /\ w.joined = u.joined /\ w.newNick = u.newNick /\ w.role = u.role
         /\ p \notin Naming => w.nick = u.nick
         /\ \A known \in Nicks :
              p \in Naming /\ p \notin Misnaming(u.nick, u.newNick, known) => w.nick = known
PROOF
  <1>1. PICK a : a = Assigned(u, p)
    OBVIOUS
  <1>2. p.nick \in Nicks /\ p.newNick \in NickOrNone
    BY DEF Participants
  <1>3. a \in MucObjects /\ a.joined = u.joined /\ a.newNick = u.newNick /\ a.role = u.role
        /\ a.nick = IF "NickAssigned" \in p.flags THEN p.nick ELSE u.nick
    BY <1>1, <1>2 DEF Assigned, MucObjects
  <1>4. p.newNick # NoNick => p.newNick \in Nicks
    BY <1>2 DEF NickOrNone
  <1>5. w \in MucObjects /\ w.joined = u.joined /\ w.newNick = u.newNick /\ w.role = u.role
        /\ w.nick = IF "NickChanged" \in p.flags /\ p.newNick # NoNick
                         /\ ("Self" \in p.flags \/ (a.nick = p.nick /\ p.newNick = a.newNick))
                    THEN p.newNick ELSE a.nick
    BY <1>1, <1>3, <1>4 DEF Renamed, OwnChange, MucObjects
  <1>6. p \in Naming <=> "NickAssigned" \in p.flags \/ "NickChanged" \in p.flags
    BY RoomSorts DEF Naming
  <1>7. p \notin Naming => w.nick = u.nick
    BY <1>3, <1>5, <1>6
  <1>8. ASSUME NEW known \in Nicks, p \in Naming, p \notin Misnaming(u.nick, u.newNick, known)
        PROVE  w.nick = known
    <2>1. CASE "NickAssigned" \in p.flags
      <3>1. p.nick = known /\ "NickChanged" \notin p.flags
        BY <1>8, <2>1 DEF Misnaming
      <3> QED BY <1>3, <1>5, <2>1, <3>1
    <2>2. CASE "NickAssigned" \notin p.flags
      <3>1. "NickChanged" \in p.flags
        BY <1>6, <1>8, <2>2
      <3>2. p.nick = u.nick /\ p.newNick = u.newNick /\ u.newNick = known
        BY <1>8, <3>1 DEF Misnaming
      <3>3. known # NoNick
        BY <1>8, MucAssumption
      <3> QED BY <1>3, <1>5, <2>2, <3>1, <3>2, <3>3
    <2> QED BY <2>1, <2>2
  <1> QED BY <1>5, <1>7, <1>8

\* What is not refused or a participant names nobody.
LEMMA OtherIs ==
  ASSUME NEW m \in ToUser, m.kind \in {"message", "iq"}
  PROVE  m \notin Naming /\ m \notin OwnRoles
PROOF
  <1>1. m \notin Participants /\ m \notin Refusals
    BY RoomSorts
  <1> QED BY <1>1, RoomSets

\* A participant gives the object its role or its name.
LEMMA HandleParticipantKeeps ==
  ASSUME RoomInTurn, MucInv, NEW accepts \in BOOLEAN, HandleParticipant(accepts) PROVE MucInv'
PROOF
  <1>1. /\ toUser # <<>> /\ Head(toUser).kind = "participant" /\ toUser' = Tail(toUser)
        /\ UNCHANGED room
    BY DEF HandleParticipant, Arrives
  <1>2. muc \in MucObjects /\ toUser \in Seq(ToUser) /\ room \in Rooms /\ toRoom \in Seq(ToRoom)
    BY DEF MucInv, MucTypes
  <1>3. /\ toUser' \in Seq(ToUser) /\ Head(toUser) \in ToUser
        /\ \A M : NoneOf(toUser, M) <=> Head(toUser) \notin M /\ NoneOf(toUser', M)
        /\ \A M : OneOf(toUser, M) =>
              OneOf(toUser', M) /\ (Head(toUser) \in M => NoneOf(toUser', M))
    BY <1>1, <1>2, Shortened
  <1>4. PICK p \in Participants : p = Head(toUser)
    <2>1. PICK m \in ToUser : m = Head(toUser)
      BY <1>3
    <2>2. m.kind = "participant"
      BY <1>1, <2>1
    <2>3. m \in Participants
      BY <2>2, UserSorts
    <2> QED BY <2>1, <2>3
  <1>5. CASE ~muc.joined
    <2>1. UNCHANGED <<muc, toRoom>>
      BY <1>5 DEF HandleParticipant
    <2>2. AnsweredInTurn'
      BY <1>3, <2>1 DEF MucInv, AnsweredInTurn
    <2>3. LeftIsHeard' /\ Placed'
      BY <1>1, <1>5, <2>1 DEF MucInv, LeftIsHeard, Placed
    <2>4. NoneOf(toRoom', Misplaced(muc'.nick, muc'.newNick, room'.nick))
      BY <1>1, <2>1 DEF MucInv
    <2> QED BY <1>1, <1>2, <1>3, <2>1, <2>2, <2>3, <2>4 DEF MucInv, MucTypes
  <1>6. CASE muc.joined
    <2>1. PICK u : u = IF accepts /\ "NewRoom" \in p.flags THEN Opened(Noted(muc, p))
                                                          ELSE Noted(muc, p)
      OBVIOUS
    <2>2. u \in {Noted(muc, p), Opened(Noted(muc, p))}
      BY <2>1
    <2>3. /\ u \in MucObjects /\ u.joined = muc.joined /\ u.nick = muc.nick
          /\ u.newNick = muc.newNick /\ u.role = IF p \in OwnRoles THEN p.role ELSE muc.role
      BY <1>2, <2>2, NotedIs
    <2>4. muc' = Renamed(Assigned(u, p), p)
      BY <1>4, <1>6, <2>1 DEF HandleParticipant
    <2>5. \/ toRoom' = toRoom
          \/ toRoom' = Append(toRoom, Iq("CreateInstantRoom"))
      BY <1>6 DEF HandleParticipant
    <2>6. /\ muc' \in MucObjects /\ muc'.joined /\ muc'.newNick = muc.newNick
          /\ muc'.role = IF p \in OwnRoles THEN p.role ELSE muc.role
          /\ p \notin Naming => muc'.nick = muc.nick
          /\ \A known \in Nicks :
               p \in Naming /\ p \notin Misnaming(muc.nick, muc.newNick, known)
                 => muc'.nick = known
      <3>1. PICK w : w = muc'
        OBVIOUS
      <3>2. w = Renamed(Assigned(u, p), p)
        BY <2>4, <3>1
      <3>3. /\ w \in MucObjects /\ w.joined = u.joined /\ w.newNick = u.newNick /\ w.role = u.role
            /\ p \notin Naming => w.nick = u.nick
            /\ \A known \in Nicks :
                 p \in Naming /\ p \notin Misnaming(u.nick, u.newNick, known) => w.nick = known
        BY <2>3, <3>2, NamedIs
      <3> QED BY <1>6, <2>3, <3>1, <3>3
    <2>7. /\ toRoom' \in Seq(ToRoom)
          /\ \A x, y, z : \A M \in {PresencesIn, Leavings, Misplaced(x, y, z)} :
               /\ NoneOf(toRoom', M) <=> NoneOf(toRoom, M)
               /\ FirstOf(toRoom, M) => FirstOf(toRoom', M)
      <3>1. CASE toRoom' = toRoom
        BY <1>2, <3>1
      <3>2. CASE toRoom' = Append(toRoom, Iq("CreateInstantRoom"))
        <4>1. "CreateInstantRoom" \in RoomOps
          BY DEF RoomOps
        <4>2. PICK e \in ToRoom : e = Iq("CreateInstantRoom") /\ e \notin PresencesIn
                                  /\ e \notin Leavings
          BY <4>1, RoomSent
        <4>3. \A x, y, z : e \notin Misplaced(x, y, z)
          BY <4>2, RoomSets
        <4>4. /\ toRoom' \in Seq(ToRoom)
              /\ \A M : e \notin M => (NoneOf(toRoom', M) <=> NoneOf(toRoom, M))
                                     /\ (FirstOf(toRoom, M) => FirstOf(toRoom', M))
          BY <1>2, <3>2, <4>2, Appended
        <4> QED BY <4>2, <4>3, <4>4
      <3> QED BY <2>5, <3>1, <3>2
    <2>8. AnsweredInTurn'
      <3>1. /\ NoneOf(toRoom', PresencesIn) <=> NoneOf(toRoom, PresencesIn)
            /\ FirstOf(toRoom, PresencesIn) => FirstOf(toRoom', PresencesIn)
        BY <2>7
      <3> QED BY <1>3, <3>1 DEF MucInv, AnsweredInTurn
    <2>9. LeftIsHeard'
      <3>1. NoneOf(toRoom', Leavings) <=> NoneOf(toRoom, Leavings)
        BY <2>7
      <3> QED BY <1>6, <2>6, <3>1 DEF MucInv, LeftIsHeard
    <2>10. CASE p \in Naming
      <3>1. NoneOf(toUser', Naming) /\ NoneOf(toRoom, PresencesIn)
        BY <1>3, <1>4, <2>10 DEF MucInv, AnsweredInTurn
      <3>2. NoneOf(toUser', Misnaming(muc'.nick, muc'.newNick, room'.nick))
        BY <3>1, RoomSets DEF NoneOf
      <3>3. NoneOf(toRoom', Misplaced(muc'.nick, muc'.newNick, room'.nick))
        <4>1. NoneOf(toRoom', PresencesIn)
          BY <2>7, <3>1
        <4> QED BY <4>1, RoomSets DEF NoneOf
      <3>4. Placed'
        <4> SUFFICES ASSUME room.nick # NoNick
                     PROVE  /\ muc'.nick = room.nick
                            /\ NoneOf(toUser', Misnaming(muc'.nick, muc'.newNick, room.nick))
                            /\ Latest(toUser', Len(toUser'), OwnRoles, InRole(room.role),
                                      muc'.role, {room.role})
          BY <1>1 DEF Placed
        <4>1. /\ NoneOf(toUser, Misnaming(muc.nick, muc.newNick, room.nick))
              /\ Latest(toUser, Len(toUser), OwnRoles, InRole(room.role), muc.role, {room.role})
          BY <1>6 DEF MucInv, Placed
        <4>2. room.nick \in Nicks
          BY <1>2 DEF Rooms, NickOrNone
        <4>3. p \notin Misnaming(muc.nick, muc.newNick, room.nick)
          BY <1>3, <1>4, <4>1
        <4>4. muc'.nick = room.nick
          BY <2>6, <2>10, <4>2, <4>3
        <4>5. Latest(toUser', Len(toUser'), OwnRoles, InRole(room.role), muc'.role, {room.role})
          <5>1. p \in OwnRoles \cap InRole(room.role) => muc'.role \in {room.role}
            BY <2>6 DEF InRole
          <5>2. p \notin OwnRoles /\ muc.role \in {room.role} => muc'.role \in {room.role}
            BY <2>6
          <5> QED BY <1>1, <1>2, <1>4, <4>1, <5>1, <5>2, LatestShortened
        <4> QED BY <1>1, <3>2, <4>4, <4>5
      <3> QED BY <1>1, <1>2, <1>3, <2>6, <2>7, <2>8, <2>9, <3>3, <3>4 DEF MucInv, MucTypes
    <2>11. CASE p \notin Naming
      <3>1. muc'.nick = muc.nick /\ muc'.newNick = muc.newNick
        BY <2>6, <2>11
      <3>2. NoneOf(toRoom', Misplaced(muc'.nick, muc'.newNick, room'.nick))
        <4>1. NoneOf(toRoom, Misplaced(muc.nick, muc.newNick, room.nick))
          BY DEF MucInv
        <4>2. NoneOf(toRoom', Misplaced(muc.nick, muc.newNick, room.nick))
          BY <2>7, <4>1
        <4> QED BY <1>1, <3>1, <4>2
      <3>3. Placed'
        <4> SUFFICES ASSUME room.nick # NoNick
                     PROVE  /\ NoneOf(toUser', Naming) => muc.nick = room.nick
                            /\ NoneOf(toUser', Misnaming(muc.nick, muc.newNick, room.nick))
                            /\ Latest(toUser', Len(toUser'), OwnRoles, InRole(room.role),
                                      muc'.role, {room.role})
          BY <1>1, <3>1 DEF Placed
        <4>1. /\ NoneOf(toUser, Naming) => muc.nick = room.nick
              /\ NoneOf(toUser, Misnaming(muc.nick, muc.newNick, room.nick))
              /\ Latest(toUser, Len(toUser), OwnRoles, InRole(room.role), muc.role, {room.role})
          BY <1>6 DEF MucInv, Placed
        <4>2. NoneOf(toUser', Naming) => NoneOf(toUser, Naming)
          BY <1>3, <1>4, <2>11
        <4>3. NoneOf(toUser', Misnaming(muc.nick, muc.newNick, room.nick))
          BY <1>3, <4>1
        <4>4. Latest(toUser', Len(toUser'), OwnRoles, InRole(room.role), muc'.role, {room.role})
          <5>1. p \in OwnRoles \cap InRole(room.role) => muc'.role \in {room.role}
            BY <2>6 DEF InRole
          <5>2. p \notin OwnRoles /\ muc.role \in {room.role} => muc'.role \in {room.role}
            BY <2>6
          <5> QED BY <1>1, <1>2, <1>4, <4>1, <5>1, <5>2, LatestShortened
        <4> QED BY <4>1, <4>2, <4>3, <4>4
      <3> QED BY <1>1, <1>2, <1>3, <2>6, <2>7, <2>8, <2>9, <3>2, <3>3 DEF MucInv, MucTypes
    <2> QED BY <2>10, <2>11
  <1> QED BY <1>5, <1>6

\* A participant the room tells of.
LEMMA ToldOfOccupant ==
  ASSUME NEW n \in Nicks, NEW new \in NickOrNone, NEW r \in RoleOrNone,
         NEW flags \in SUBSET ParticipantFlags, NEW p, p = Participant(n, new, r, flags)
  PROVE  /\ p \in Participants /\ p \in ToUser
         /\ p.nick = n /\ p.newNick = new /\ p.role = r /\ p.flags = flags
         /\ p \in OwnRoles <=> "Self" \in flags
         /\ p \in Naming <=> "NickAssigned" \in flags \/ "NickChanged" \in flags
         /\ p \in InRole(r)
PROOF
  <1>1. p.nick = n /\ p.newNick = new /\ p.role = r /\ p.flags = flags
    BY DEF Participant
  <1>2. p \in Participants
    BY DEF Participant, Participants
  <1>3. p \in ToUser /\ p \notin Refusals
    BY <1>2, RoomSorts
  <1> QED BY <1>1, <1>2, <1>3 DEF OwnRoles, Naming, InRole

\* The room answers a presence.
LEMMA RoomTakesAnswering ==
  ASSUME MucInv, toRoom # <<>>, Head(toRoom) \in PresencesIn, toRoom' = Tail(toRoom),
         UNCHANGED muc, room' \in Rooms, toUser' \in Seq(ToUser), OneOf(toUser', Naming), Placed'
  PROVE  MucInv'
PROOF
  <1>1. toRoom \in Seq(ToRoom) /\ Head(toRoom) \notin Leavings
    BY RoomSets DEF MucInv, MucTypes
  <1>2. /\ toRoom' \in Seq(ToRoom)
        /\ \A M : NoneOf(toRoom, M) <=> Head(toRoom) \notin M /\ NoneOf(toRoom', M)
        /\ \A M : FirstOf(toRoom, M) => NoneOf(toRoom', M) /\ FirstOf(toRoom', M)
    BY <1>1, Shortened
  <1>3. FirstOf(toRoom', PresencesIn) /\ NoneOf(toRoom', PresencesIn)
    BY <1>2 DEF MucInv, AnsweredInTurn
  <1>4. AnsweredInTurn'
    BY <1>3 DEF AnsweredInTurn
  <1>5. LeftIsHeard'
    BY <1>1, <1>2 DEF MucInv, LeftIsHeard
  <1>6. NoneOf(toRoom', Misplaced(muc'.nick, muc'.newNick, room'.nick))
    BY <1>3, RoomSets DEF NoneOf
  <1> QED BY <1>2, <1>4, <1>5, <1>6 DEF MucInv, MucTypes

\* Nothing that answers the user is under way when the room takes a presence.
LEMMA PresenceTaken ==
  ASSUME MucInv, RoomTakesPresence
  PROVE  /\ toRoom # <<>> /\ Head(toRoom) \in PresencesIn /\ toRoom' = Tail(toRoom) /\ muc' = muc
         /\ muc \in MucObjects /\ room \in Rooms /\ toUser \in Seq(ToUser) /\ NoneOf(toUser, Naming)
         /\ muc.joined /\ room.nick # NoNick =>
              /\ muc.nick = room.nick
              /\ Latest(toUser, Len(toUser), OwnRoles, InRole(room.role), muc.role, {room.role})
         /\ Head(toRoom).nick \in Nicks
         /\ room.nick # NoNick => Head(toRoom).nick = muc.newNick
         /\ room.nick = NoNick /\ Head(toRoom).muc => Head(toRoom).nick = muc.nick
PROOF
  <1>1. toRoom # <<>> /\ Head(toRoom).kind = "presence" /\ toRoom' = Tail(toRoom) /\ muc' = muc
    BY DEF RoomTakesPresence, Takes
  <1>2. muc \in MucObjects /\ room \in Rooms /\ toUser \in Seq(ToUser) /\ toRoom \in Seq(ToRoom)
    BY DEF MucInv, MucTypes
  <1>3. /\ Head(toRoom) \in ToRoom
        /\ \A M : NoneOf(toRoom, M) => Head(toRoom) \notin M
    BY <1>1, <1>2, Shortened
  <1>4. PICK p \in ToRoom : p = Head(toRoom)
    BY <1>3
  <1>5. p.kind = "presence"
    BY <1>1, <1>4
  <1>6. p \in PresencesIn
    BY <1>5 DEF ToRoom, Leavings, PresencesIn
  <1>7. NoneOf(toUser, Naming)
    BY <1>3, <1>4, <1>6 DEF MucInv, AnsweredInTurn
  <1>8. p \notin Misplaced(muc.nick, muc.newNick, room.nick)
    BY <1>3, <1>4 DEF MucInv
  <1>9. p.nick \in Nicks /\ p.muc \in BOOLEAN
    BY <1>6 DEF PresencesIn
  <1>10. ~(IF p.muc THEN p.nick # muc.nick \/ room.nick # NoNick ELSE p.nick # muc.newNick)
    BY <1>6, <1>8 DEF Misplaced
  <1>11. room.nick # NoNick => p.nick = muc.newNick
    BY <1>9, <1>10
  <1>12. room.nick = NoNick /\ p.muc => p.nick = muc.nick
    BY <1>10
  <1>13. muc.joined /\ room.nick # NoNick =>
              /\ muc.nick = room.nick
              /\ Latest(toUser, Len(toUser), OwnRoles, InRole(room.role), muc.role, {room.role})
    BY <1>7 DEF MucInv, Placed
  <1> QED BY <1>1, <1>2, <1>4, <1>6, <1>7, <1>9, <1>11, <1>12, <1>13

\* The room lets the user in.
LEMMA EnteredKeeps ==
  ASSUME MucInv, RoomTakesPresence, room.nick = NoNick, Head(toRoom).muc,
         NEW n \in Nicks \ Taken, NEW r \in Roles, Entered(Head(toRoom).nick, n, r)
  PROVE  MucInv'
PROOF
  <1>1. PICK nick : nick = Head(toRoom).nick
    OBVIOUS
  <1>2. nick = muc.nick
    BY <1>1, PresenceTaken
  <1>3. PICK flags : flags = {"Self"} \cup (IF room.state = "none" THEN {"NewRoom"} ELSE {})
                \cup (IF room.anonymity = "non" THEN {"NonAnonymous"} ELSE {})
                \cup (IF nick # n THEN {"NickAssigned"} ELSE {})
    OBVIOUS
  <1>4. PICK e : e = Participant(n, NoNick, r, flags)
    OBVIOUS
  <1>5. /\ toUser' = Append(toUser, e)
        /\ room' = [room EXCEPT !.nick = n, !.role = r,
                                !.state = IF @ = "none" THEN "locked" ELSE @]
    BY <1>1, <1>3, <1>4 DEF Entered
  <1>6. /\ flags \in SUBSET ParticipantFlags /\ "Self" \in flags /\ "NickChanged" \notin flags
        /\ "NickAssigned" \in flags <=> nick # n
    BY <1>3 DEF ParticipantFlags
  <1>7. n \in Nicks /\ NoNick \in NickOrNone /\ r \in RoleOrNone
    BY DEF NickOrNone, RoleOrNone
  <1>8. /\ e \in Participants /\ e \in ToUser /\ e \in OwnRoles /\ e.nick = n /\ e \in InRole(r)
        /\ e.flags = flags
        /\ e \in Naming <=> nick # n
    BY <1>4, <1>6, <1>7, ToldOfOccupant
  <1>9. room \in Rooms /\ toUser \in Seq(ToUser) /\ NoneOf(toUser, Naming) /\ muc' = muc
    BY PresenceTaken
  <1>10. room' \in Rooms /\ room'.nick = n /\ room'.role = r
    BY <1>5, <1>7, <1>9 DEF Rooms, NickOrNone, RoleOrNone
  <1>11. /\ toUser' \in Seq(ToUser)
         /\ \A M : e \notin M => (NoneOf(toUser', M) <=> NoneOf(toUser, M))
                                /\ (OneOf(toUser, M) => OneOf(toUser', M))
         /\ \A M : e \in M => (NoneOf(toUser, M) => OneOf(toUser', M)) /\ ~NoneOf(toUser', M)
    BY <1>5, <1>8, <1>9, Appended
  <1>12. OneOf(toUser', Naming)
    <2>1. OneOf(toUser, Naming)
      BY DEF MucInv, AnsweredInTurn
    <2> QED BY <1>9, <1>11, <2>1
  <1>13. Placed'
    <2>1. NoneOf(toUser', Naming) => muc'.nick = room'.nick
      BY <1>2, <1>8, <1>9, <1>10, <1>11
    <2>2. e \notin Misnaming(muc'.nick, muc'.newNick, room'.nick)
      <3>1. e \notin Refusals
        BY <1>8, RoomSets
      <3> QED BY <1>6, <1>8, <1>10, <3>1 DEF Misnaming
    <2>3. NoneOf(toUser', Misnaming(muc'.nick, muc'.newNick, room'.nick))
      <3>1. NoneOf(toUser, Misnaming(muc'.nick, muc'.newNick, room'.nick))
        BY <1>9, RoomSets DEF NoneOf
      <3> QED BY <1>11, <2>2, <3>1
    <2>4. Latest(toUser', Len(toUser'), OwnRoles, InRole(room'.role), muc'.role, {room'.role})
      BY <1>5, <1>8, <1>9, <1>10, LatestAppended
    <2> QED BY <2>1, <2>3, <2>4 DEF Placed
  <1> QED BY <1>9, <1>10, <1>11, <1>12, <1>13, PresenceTaken, RoomTakesAnswering

\* The room refuses a presence.
LEMMA RefusedKeeps ==
  ASSUME MucInv, RoomTakesPresence, RefusePresence PROVE MucInv'
PROOF
  <1>1. PICK e : e = [kind |-> "refusal"]
    OBVIOUS
  <1>2. e \in Refusals
    BY <1>1 DEF Refusals
  <1>3. e \in ToUser /\ e \in Naming /\ e \notin OwnRoles /\ e \notin Participants
    BY <1>2, RoomSorts, RoomSets
  <1>4. toUser' = Append(toUser, e) /\ room' = room
    BY <1>1 DEF RefusePresence
  <1>5. room \in Rooms /\ toUser \in Seq(ToUser) /\ NoneOf(toUser, Naming) /\ muc' = muc
    BY PresenceTaken
  <1>6. /\ toUser' \in Seq(ToUser) /\ OneOf(toUser', Naming) /\ ~NoneOf(toUser', Naming)
        /\ \A M : e \notin M => (NoneOf(toUser', M) <=> NoneOf(toUser, M))
    BY <1>3, <1>4, <1>5, Appended
  <1>7. Placed'
    <2> SUFFICES ASSUME muc.joined /\ room.nick # NoNick
                 PROVE  /\ NoneOf(toUser', Misnaming(muc.nick, muc.newNick, room.nick))
                        /\ Latest(toUser', Len(toUser'), OwnRoles, InRole(room.role), muc.role,
                                  {room.role})
      BY <1>4, <1>5, <1>6 DEF Placed
    <2>1. /\ muc.nick = room.nick /\ muc.newNick \in Nicks
          /\ Latest(toUser, Len(toUser), OwnRoles, InRole(room.role), muc.role, {room.role})
      BY PresenceTaken
    <2>2. muc.newNick # NoNick
      BY <2>1, MucAssumption
    <2>3. e \notin Misnaming(muc.nick, muc.newNick, room.nick)
      BY <1>3, <2>1, <2>2 DEF Misnaming
    <2>4. NoneOf(toUser, Misnaming(muc.nick, muc.newNick, room.nick))
      BY <1>5, RoomSets DEF NoneOf
    <2>5. Latest(toUser', Len(toUser'), OwnRoles, InRole(room.role), muc.role, {room.role})
      BY <1>3, <1>4, <1>5, <2>1, LatestAppended
    <2> QED BY <1>6, <2>3, <2>4, <2>5
  <1> QED BY <1>4, <1>5, <1>6, <1>7, PresenceTaken, RoomTakesAnswering

\* The room gives the user a new name.
LEMMA ChangedKeeps ==
  ASSUME MucInv, RoomTakesPresence, room.nick # NoNick, Changed(Head(toRoom).nick)
  PROVE  MucInv'
PROOF
  <1>1. PICK n : n = Head(toRoom).nick
    OBVIOUS
  <1>2. /\ n \in Nicks /\ n = muc.newNick /\ muc' = muc /\ room \in Rooms /\ toUser \in Seq(ToUser)
        /\ NoneOf(toUser, Naming)
    BY <1>1, PresenceTaken
  <1>3. PICK flags : flags = {"NickChanged"} \cup (IF Marks THEN {"Self"} ELSE {})
    OBVIOUS
  <1>4. PICK a : a = Participant(room.nick, n, room.role, flags)
    OBVIOUS
  <1>5. PICK b : b = Participant(n, NoNick, room.role, {"Self"})
    OBVIOUS
  <1>6. room' = [room EXCEPT !.nick = n] /\ toUser' = toUser \o <<a, b>>
    BY <1>1, <1>3, <1>4, <1>5 DEF Changed
  <1>7. /\ flags \in SUBSET ParticipantFlags /\ {"Self"} \in SUBSET ParticipantFlags
        /\ "NickChanged" \in flags /\ "NickAssigned" \notin flags
    BY <1>3 DEF ParticipantFlags
  <1>8. room.nick \in Nicks /\ room.role \in RoleOrNone /\ n \in NickOrNone /\ NoNick \in NickOrNone
    BY <1>2 DEF Rooms, NickOrNone
  <1>9. /\ a \in Participants /\ a \in ToUser /\ a \in Naming /\ a \in InRole(room.role)
        /\ a.nick = room.nick /\ a.newNick = n /\ a.flags = flags
    BY <1>4, <1>7, <1>8, ToldOfOccupant
  <1>10. /\ b \in Participants /\ b \in ToUser /\ b \notin Naming /\ b \in OwnRoles
         /\ b \in InRole(room.role)
    BY <1>2, <1>5, <1>7, <1>8, ToldOfOccupant
  <1>11. room' \in Rooms /\ room'.nick = n /\ room'.role = room.role
    BY <1>2, <1>6, <1>8 DEF Rooms
  <1>12. PICK q : q = Append(toUser, a)
    OBVIOUS
  <1>13. /\ q \in Seq(ToUser) /\ OneOf(q, Naming) /\ ~NoneOf(q, Naming)
         /\ \A M : a \notin M => (NoneOf(q, M) <=> NoneOf(toUser, M))
    BY <1>2, <1>9, <1>12, Appended
  <1>14. toUser' = Append(q, b)
    BY <1>2, <1>6, <1>9, <1>10, <1>12
  <1>15. /\ toUser' \in Seq(ToUser)
         /\ \A M : b \notin M => (NoneOf(toUser', M) <=> NoneOf(q, M))
                                /\ (OneOf(q, M) => OneOf(toUser', M))
    BY <1>10, <1>13, <1>14, Appended
  <1>16. OneOf(toUser', Naming) /\ ~NoneOf(toUser', Naming)
    BY <1>10, <1>13, <1>15
  <1>17. Placed'
    <2> SUFFICES ASSUME muc.joined
                 PROVE  /\ NoneOf(toUser', Misnaming(muc.nick, muc.newNick, n))
                        /\ Latest(toUser', Len(toUser'), OwnRoles, InRole(room.role), muc.role,
                                  {room.role})
      BY <1>2, <1>11, <1>16 DEF Placed
    <2>1. muc.nick = room.nick
      BY PresenceTaken
    <2>2. a \notin Misnaming(muc.nick, muc.newNick, n)
      <3>1. a \notin Refusals
        BY <1>9, RoomSets
      <3> QED BY <1>2, <1>7, <1>9, <2>1, <3>1 DEF Misnaming
    <2>3. b \notin Misnaming(muc.nick, muc.newNick, n)
      BY <1>10, RoomSets
    <2>4. NoneOf(toUser, Misnaming(muc.nick, muc.newNick, n))
      BY <1>2, RoomSets DEF NoneOf
    <2>5. Latest(toUser', Len(toUser'), OwnRoles, InRole(room.role), muc.role, {room.role})
      BY <1>10, <1>13, <1>14, LatestAppended
    <2> QED BY <1>13, <1>15, <2>2, <2>3, <2>4, <2>5
  <1> QED BY <1>2, <1>11, <1>15, <1>16, <1>17, PresenceTaken, RoomTakesAnswering

\* The room takes a presence.
LEMMA RoomTakesPresenceKeeps ==
  ASSUME MucInv, RoomTakesPresence PROVE MucInv'
PROOF
  <1>1. CASE RefusePresence
    BY <1>1, RefusedKeeps
  <1>2. CASE room.nick = NoNick /\ ~RefusePresence
    <2>1. PICK n \in Nicks \ Taken, r \in Roles : Entered(Head(toRoom).nick, n, r)
      BY <1>2 DEF RoomTakesPresence
    <2>2. Head(toRoom).muc
      BY <1>2 DEF RoomTakesPresence
    <2> QED BY <1>2, <2>1, <2>2, EnteredKeeps
  <1>3. CASE room.nick # NoNick /\ Changed(Head(toRoom).nick)
    BY <1>3, ChangedKeeps
  <1>4. CASE UNCHANGED <<room, toUser>>
    <2>1. Head(toRoom) \notin Leavings
      BY PresenceTaken, RoomSets
    <2> QED BY <1>4, <2>1, PresenceTaken, RoomTakesKeeps
  <1> QED BY <1>1, <1>2, <1>3, <1>4 DEF RoomTakesPresence

\* The room sends one thing of its own accord, or puts the user out.
LEMMA OutIs ==
  ASSUME MucInv, room.nick # NoNick, NEW flags \in SUBSET {"Self", "Kicked"}, Out(flags)
  PROVE  \E e \in ToUser : /\ e \notin Naming /\ toUser' = Append(toUser, e)
                          /\ room' \in Rooms /\ room'.nick = NoNick
PROOF
  <1>1. room \in Rooms
    BY DEF MucInv, MucTypes
  <1>2. PICK e : e = Participant(room.nick, NoNick, NoRole, flags)
    OBVIOUS
  <1>3. /\ room.nick \in Nicks /\ NoNick \in NickOrNone /\ NoRole \in RoleOrNone
        /\ flags \in SUBSET ParticipantFlags
    BY <1>1 DEF Rooms, NickOrNone, RoleOrNone, ParticipantFlags
  <1>4. e \in ToUser /\ e \notin Naming
    BY <1>2, <1>3, ToldOfOccupant
  <1>5. toUser' = Append(toUser, e)
    BY <1>2 DEF Out
  <1>6. room' \in Rooms /\ room'.nick = NoNick
    BY <1>1, <1>3 DEF Out, Rooms
  <1> QED BY <1>4, <1>5, <1>6

\* The room hears that the user leaves.
LEMMA LeavingTakenKeeps ==
  ASSUME MucInv, RoomTakesUnavailable PROVE MucInv'
PROOF
  <1>1. toRoom # <<>> /\ toRoom' = Tail(toRoom) /\ UNCHANGED muc
    BY DEF RoomTakesUnavailable, Takes
  <1>2. CASE room.nick = NoNick
    BY <1>1, <1>2, RoomTakesKeeps DEF RoomTakesUnavailable
  <1>3. CASE room.nick # NoNick
    <2>1. Out({"Self"}) /\ {"Self"} \in SUBSET {"Self", "Kicked"}
      BY <1>3 DEF RoomTakesUnavailable
    <2>2. PICK e \in ToUser : /\ e \notin Naming /\ toUser' = Append(toUser, e)
                             /\ room' \in Rooms /\ room'.nick = NoNick
      BY <1>3, <2>1, OutIs
    <2> QED BY <1>1, <2>2, RoomTells
  <1> QED BY <1>2, <1>3

\* The room answers an IQ.
LEMMA IqTakenKeeps ==
  ASSUME MucInv, NEW ok \in BOOLEAN, RoomTakesIq(ok) PROVE MucInv'
PROOF
  <1>1. toRoom # <<>> /\ toRoom' = Tail(toRoom) /\ UNCHANGED muc /\ Head(toRoom).kind = "iq"
    BY DEF RoomTakesIq, Takes
  <1>2. room \in Rooms /\ toRoom \in Seq(ToRoom)
    BY DEF MucInv, MucTypes
  <1>3. Head(toRoom) \in ToRoom
    BY <1>1, <1>2, Shortened
  <1>4. PICK m \in ToRoom : m = Head(toRoom)
    BY <1>3
  <1>5. m.kind = "iq"
    BY <1>1, <1>4
  <1>6. m.op \in RoomOps /\ m \notin Leavings
    <2>1. m \notin Leavings
      BY <1>5, RoomSorts
    <2> QED BY <1>5, <2>1 DEF ToRoom, PresencesIn
  <1>7. PICK e : e = [kind |-> "iq", op |-> m.op, ok |-> ok]
    OBVIOUS
  <1>8. e \in ToUser /\ e.kind = "iq"
    BY <1>6, <1>7 DEF ToUser
  <1>9. e \notin Naming /\ e \notin OwnRoles
    BY <1>8, OtherIs
  <1>10. toUser' = Append(toUser, e)
    BY <1>4, <1>7 DEF RoomTakesIq, RoomAnswers
  <1>11. \/ room' = [room EXCEPT !.state = "open"]
         \/ room' = [room EXCEPT !.state = "none", !.nick = NoNick, !.role = NoRole]
         \/ room' = room
    BY DEF RoomTakesIq
  <1>12. /\ room' \in Rooms /\ room'.nick \in {room.nick, NoNick}
         /\ room'.nick # NoNick => room'.role = room.role
    <2>1. NoNick \in NickOrNone /\ NoRole \in RoleOrNone
      BY DEF NickOrNone, RoleOrNone
    <2> QED BY <1>2, <1>11, <2>1 DEF Rooms
  <1> QED BY <1>1, <1>4, <1>6, <1>8, <1>9, <1>10, <1>12, RoomTells

\* The room puts the user out.
LEMMA KickKeeps ==
  ASSUME MucInv, Kick PROVE MucInv'
PROOF
  <1>1. /\ room.nick # NoNick /\ Out({"Self", "Kicked"}) /\ UNCHANGED <<muc, toRoom>>
        /\ {"Self", "Kicked"} \in SUBSET {"Self", "Kicked"}
    BY DEF Kick
  <1>2. PICK e \in ToUser : /\ e \notin Naming /\ toUser' = Append(toUser, e)
                           /\ room' \in Rooms /\ room'.nick = NoNick
    BY <1>1, OutIs
  <1> QED BY <1>1, <1>2, RoomTells

\* The room gives the user another role.
LEMMA RoleChangesKeeps ==
  ASSUME MucInv, NEW r \in Roles, RoleChanges(r) PROVE MucInv'
PROOF
  <1>1. /\ room.nick # NoNick /\ UNCHANGED <<muc, toRoom>> /\ room' = [room EXCEPT !.role = r]
        /\ room \in Rooms
    BY DEF RoleChanges, MucInv, MucTypes
  <1>2. PICK e : e = Participant(room.nick, NoNick, r, {"Self"})
    OBVIOUS
  <1>3. /\ room.nick \in Nicks /\ NoNick \in NickOrNone /\ r \in RoleOrNone
        /\ {"Self"} \in SUBSET ParticipantFlags
    BY <1>1 DEF Rooms, NickOrNone, RoleOrNone, ParticipantFlags
  <1>4. e \in ToUser /\ e \notin Naming /\ e \in OwnRoles /\ e \in InRole(r)
    BY <1>2, <1>3, ToldOfOccupant
  <1>5. toUser' = Append(toUser, e)
    BY <1>2 DEF RoleChanges
  <1>6. room' \in Rooms /\ room'.nick = room.nick /\ room'.role = r
    BY <1>1, <1>3 DEF Rooms
  <1> QED BY <1>1, <1>4, <1>5, <1>6, RoomTells

\* Somebody else enters.
LEMMA OthersEnterKeeps ==
  ASSUME MucInv, NEW n \in Taken, NEW r \in Roles, OthersEnter(n, r) PROVE MucInv'
PROOF
  <1>1. UNCHANGED <<muc, room, toRoom>> /\ room \in Rooms
    BY DEF OthersEnter, MucInv, MucTypes
  <1>2. PICK e : e = Participant(n, NoNick, r, {})
    OBVIOUS
  <1>3. n \in Nicks /\ NoNick \in NickOrNone /\ r \in RoleOrNone /\ {} \in SUBSET ParticipantFlags
    BY MucAssumption DEF NickOrNone, RoleOrNone
  <1>4. e \in ToUser /\ e \notin Naming /\ e \notin OwnRoles
    BY <1>2, <1>3, ToldOfOccupant
  <1>5. toUser' = Append(toUser, e)
    BY <1>2 DEF OthersEnter
  <1> QED BY <1>1, <1>4, <1>5, RoomTells

\* The room changes its anonymity.
LEMMA AnonymityChangesKeeps ==
  ASSUME MucInv, NEW a \in Anonymity, AnonymityChanges(a) PROVE MucInv'
PROOF
  <1>1. UNCHANGED <<muc, toRoom>> /\ room \in Rooms /\ room' = [room EXCEPT !.anonymity = a]
    BY DEF AnonymityChanges, MucInv, MucTypes
  <1>2. PICK e : e = [kind |-> "message", status |-> a]
    OBVIOUS
  <1>3. e \in ToUser /\ e.kind = "message"
    BY <1>2 DEF ToUser
  <1>4. e \notin Naming /\ e \notin OwnRoles
    BY <1>3, OtherIs
  <1>5. toUser' = Append(toUser, e)
    BY <1>2 DEF AnonymityChanges
  <1>6. room' \in Rooms /\ room'.nick = room.nick /\ room'.role = room.role
    BY <1>1 DEF Rooms
  <1> QED BY <1>1, <1>3, <1>4, <1>5, <1>6, RoomTells

\* IQs the object sends.
LEMMA AsksKeeps ==
  ASSUME MucInv,
         \/ \E op \in Operations : AskRoom(op)
         \/ RequestRoomConfig
         \/ \E op \in {"CreateInstantRoom", "CancelRoomCreation"} : InstantRoom(op)
  PROVE  MucInv'
PROOF
  <1>1. muc \in MucObjects
    BY DEF MucInv, MucTypes
  <1>2. PICK op \in RoomOps : /\ toRoom' = Append(toRoom, Iq(op)) /\ UNCHANGED <<room, toUser>>
                             /\ muc' \in {muc, [muc EXCEPT !.creating = FALSE]}
    BY DEF AskRoom, RequestRoomConfig, InstantRoom, Asks, Opened, RoomOps
  <1>3. muc' \in MucObjects /\ Same(muc', muc)
    BY <1>1, <1>2 DEF MucObjects, Same
  <1> QED BY <1>2, <1>3, IqKeeps

\* Messages and IQs of the room.
LEMMA HandleOtherKeeps ==
  ASSUME RoomInTurn, MucInv, HandleRoomMessage \/ HandleRoomIq PROVE MucInv'
PROOF
  <1>1. /\ toUser # <<>> /\ toUser' = Tail(toUser) /\ Head(toUser).kind \in {"message", "iq"}
        /\ UNCHANGED <<room, toRoom>>
    BY DEF HandleRoomMessage, HandleRoomIq, Arrives, RoomInTurn
  <1>2. muc \in MucObjects /\ toUser \in Seq(ToUser)
    BY DEF MucInv, MucTypes
  <1>3. Head(toUser) \in ToUser
    BY <1>1, <1>2, Shortened
  <1>4. PICK m \in ToUser : m = Head(toUser)
    BY <1>3
  <1>5. m.kind \in {"message", "iq"}
    BY <1>1, <1>4
  <1>6. m \notin Naming /\ m \notin OwnRoles
    BY <1>5, OtherIs
  <1>7. muc' \in MucObjects /\ Same(muc', muc)
    <2>1. CASE HandleRoomMessage
      <3>1. m.kind = "message"
        BY <1>4, <2>1 DEF HandleRoomMessage, Arrives
      <3>2. m.status \in Anonymity
        BY <3>1, RoomSorts
      <3>3. muc' = IF muc.joined THEN [muc EXCEPT !.flags = SetAnonymity(@, m.status)] ELSE muc
        BY <1>4, <2>1 DEF HandleRoomMessage
      <3> QED BY <1>2, <3>2, <3>3 DEF MucObjects, SetAnonymity, Same
    <2>2. CASE HandleRoomIq
      <3>1. muc' = muc
        BY <2>2 DEF HandleRoomIq, RoomInTurn
      <3> QED BY <1>2, <3>1 DEF Same
    <2> QED BY <2>1, <2>2
  <1> QED BY <1>1, <1>4, <1>6, <1>7, HearsOther

\* Every step of a room keeps the invariant.
LEMMA MucSteps ==
  ASSUME RoomInTurn, MucInv, [MucNext]_mucVars PROVE MucInv'
PROOF
  <1>1. CASE UNCHANGED mucVars
    BY <1>1 DEF mucVars, MucInv, MucTypes, AnsweredInTurn, LeftIsHeard, Placed
  <1>2. CASE MucNext
    BY <1>2, JoinKeeps, LeaveKeeps, SetNickKeeps, AsksKeeps, HandleRefusalKeeps,
       HandleParticipantKeeps, HandleOtherKeeps, RoomTakesPresenceKeeps, LeavingTakenKeeps,
       IqTakenKeeps, KickKeeps, RoleChangesKeeps, OthersEnterKeeps, AnonymityChangesKeeps
    DEF MucNext
  <1> QED BY <1>1, <1>2

\* The invariant gives the object the room's name and role.
LEMMA MucBooks == MucInv => NickMirrors
PROOF
  <1> SUFFICES ASSUME MucInv, Idle, room.nick # NoNick
               PROVE  muc.joined /\ muc.nick = room.nick /\ muc.role = room.role
    BY DEF NickMirrors
  <1>1. muc.joined /\ muc.nick = room.nick /\ toUser = <<>>
    BY IdleMeans
  <1>2. Latest(toUser, Len(toUser), OwnRoles, InRole(room.role), muc.role, {room.role})
    BY <1>1 DEF MucInv, Placed
  <1> QED BY <1>1, <1>2 DEF Latest
=============================================================================
