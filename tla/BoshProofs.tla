----------------------------- MODULE BoshProofs -----------------------------
(***************************************************************************)
(* Proofs about ConnectionBosh: request ids, the order of answers, the     *)
(* limit on requests, and what becomes of stanzas and of the end of a      *)
(* session, for every number of connections, stanzas and restarts.         *)
(***************************************************************************)
EXTENDS ConnectionBosh, SequenceTheorems, FunctionTheorems, FiniteSetTheorems, TLAPS

-----------------------------------------------------------------------------
(* The parts of a world, and what they may be. *)

Rids == 0..RidCycle - 1

Kinds == {"session", "restart", "body", "end"}

Requested == [kind : Kinds, rid : Rids, stanzas : Seq(1..MaxStanzas), last : BOOLEAN]

\* A session does not begin with an error, and only an error has no body.
Answered ==
  {a \in [rid : Rids, kind : Kinds, limit : Nat, stanzas : 0..1,
          ok : BOOLEAN, empty : BOOLEAN, last : BOOLEAN] :
     (a.kind = "session" => a.ok) /\ (a.empty => ~a.ok)}

Piece == [on : Conns, half : 1..2, answer : Answered]

Members == [state : {"disconnected", "connecting", "connected"},
            mode : {"pipelining", "persistent", "legacy"}, rid : Rids,
            open : 0..2, limit : 0..2, restart : BOOLEAN,
            sendBuffer : Seq(1..MaxStanzas), active : Seq(Conns), pool : Seq(Conns)]

Links == [Conns -> [up : BOOLEAN, eof : BOOLEAN,
                    requests : Seq(Requested), pieces : Seq(Piece)]]

Clients == [begun : BOOLEAN, sent : 0..MaxStanzas, carried : Seq(1..MaxStanzas),
            told : BOOLEAN, asked : 0..MaxRestarts, restarted : Nat]

Worlds == [bosh : Members, link : Links, client : Clients]

\* c is one of the active connections of b.
Active(b, c) == \E i \in DOMAIN b.active : b.active[i] = c

\* Each connection that was made is in one of the two lists, once.
Apart(a, p) ==
  /\ \A i, j \in DOMAIN a : a[i] = a[j] => i = j
  /\ \A i, j \in DOMAIN p : p[i] = p[j] => i = j
  /\ \A i \in DOMAIN a, j \in DOMAIN p : a[i] # p[j]
  /\ \A i \in DOMAIN a : a[i] <= Len(a) + Len(p)
  /\ \A i \in DOMAIN p : p[i] <= Len(a) + Len(p)

Placed(b) == Apart(b.active, b.pool)

-----------------------------------------------------------------------------
(* How long ago a request was sent. *)

AgeAt(now, rid) == IF now >= rid THEN now - rid ELSE now + RidCycle - rid

Older(b, r, s) == AgeAt(b.rid, r) > AgeAt(b.rid, s)

\* A remainder.
LEMMA Remainder ==
  ASSUME NEW n \in Nat, NEW k \in Nat, n > 0, k < 2 * n
  PROVE  k % n = IF k < n THEN k ELSE k - n
PROOF
  OBVIOUS

\* The age of a request is what the model calls so, and tells requests apart.
LEMMA Ages ==
  ASSUME NEW now \in Rids, NEW rid \in Rids
  PROVE  /\ AgeAt(now, rid) \in 0..RidCycle - 1
         /\ (now + RidCycle - rid) % RidCycle = AgeAt(now, rid)
         /\ \A other \in Rids : AgeAt(now, rid) = AgeAt(now, other) => rid = other
PROOF
  <1>1. RidCycle \in Nat /\ RidCycle >= 4
    BY ConstantsAssumption
  <1>2. now + RidCycle - rid \in Nat /\ now + RidCycle - rid < 2 * RidCycle
    BY <1>1 DEF Rids
  <1>3. (now + RidCycle - rid) % RidCycle = AgeAt(now, rid)
    BY <1>1, <1>2, Remainder DEF AgeAt, Rids
  <1> QED BY <1>1, <1>3 DEF AgeAt, Rids

\* One more request makes all of them older by one.
LEMMA NextAges ==
  ASSUME NEW now \in Rids
  PROVE  /\ NextRid(now) \in Rids /\ AgeAt(NextRid(now), NextRid(now)) = 0
         /\ \A rid \in Rids : AgeAt(now, rid) < 2 =>
              AgeAt(NextRid(now), rid) = AgeAt(now, rid) + 1
PROOF
  <1>1. RidCycle \in Nat /\ RidCycle >= 4
    BY ConstantsAssumption
  <1>2. NextRid(now) = IF now + 1 < RidCycle THEN now + 1 ELSE 0
    BY <1>1, Remainder DEF NextRid, Rids
  <1> QED BY <1>1, <1>2 DEF AgeAt, Rids

-----------------------------------------------------------------------------
(* What is under way on one connection c: s are the pieces of answers that *)
(* it brought or will bring, l is its link.                                *)

Link == [up : BOOLEAN, eof : BOOLEAN, requests : Seq(Requested), pieces : Seq(Piece)]

\* Answers come whole, one after the other.
Paired(s) ==
  \A i \in DOMAIN s :
    /\ i = 1 => s[i].half = 1
    /\ s[i].half = 1 =>
         i + 1 \in DOMAIN s /\ s[i + 1].half = 2 /\ s[i + 1].answer = s[i].answer
    /\ s[i].half = 2 =>
         i > 1 /\ s[i - 1].half = 1 /\ s[i - 1].answer = s[i].answer
    /\ s[i].half = 2 /\ i + 1 \in DOMAIN s => s[i + 1].half = 1

\* They are in the order of the requests.
Ordered(b, s, q) ==
  /\ \A i, j \in DOMAIN s :
       i < j /\ s[i].half = 2 => Older(b, s[i].answer.rid, s[j].answer.rid)
  /\ \A i, j \in DOMAIN q : i < j => Older(b, q[i].rid, q[j].rid)
  /\ \A i \in DOMAIN s, j \in DOMAIN q : Older(b, s[i].answer.rid, q[j].rid)

\* Each is among those that m_openRequests counts.
Counted(b, s, q) ==
  /\ \A i \in DOMAIN s : AgeAt(b.rid, s[i].answer.rid) < b.open
  /\ \A i \in DOMAIN q : AgeAt(b.rid, q[i].rid) < b.open

\* What an answer to the request for a session may be.
Opening(a) == a.kind \in {"session", "end"} \/ ~a.ok

\* The session is asked for first.
Begins(b, s, q) ==
  /\ \A i \in DOMAIN s :
       /\ s[i].answer.kind = "session" => b.state = "connecting"
       /\ b.state = "connecting" => Opening(s[i].answer)
  /\ \A i \in DOMAIN q : q[i].kind = "session" <=> b.state = "connecting"

\* Nothing is asked of a connection that ended, and its last answer is the last.
Ends(s, l) ==
  /\ l.eof => l.requests = <<>>
  /\ \A i \in DOMAIN s : s[i].answer.last => l.eof /\ (s[i].half = 2 => i = Len(s))

\* One request, or its answer, or neither.
Solo(s, q) == Len(s) <= 2 /\ Len(q) <= 1 /\ (q = <<>> \/ s = <<>>)

Line(b, c, s, l) ==
  /\ \A i \in DOMAIN s : s[i].on = c
  /\ Paired(s) /\ Ordered(b, s, l.requests) /\ Counted(b, s, l.requests)
  /\ Begins(b, s, l.requests) /\ Ends(s, l)
  /\ b.mode # "pipelining" => Solo(s, l.requests)
  /\ ~Active(b, c) => l.requests = <<>> /\ l.pieces = <<>>
  /\ l = Down \/ l.up

\* The requests it has, or the answers of.
Ours(s, q) == {s[i].answer.rid : i \in DOMAIN s} \cup {q[i].rid : i \in DOMAIN q}

-----------------------------------------------------------------------------
\* What is read from typed sequences is typed.
LEMMA LineTypes ==
  ASSUME NEW s \in Seq(Piece), NEW q \in Seq(Requested)
  PROVE  /\ \A i \in DOMAIN s : /\ s[i] \in Piece /\ s[i].answer \in Answered
                                /\ s[i].answer.rid \in Rids /\ s[i].half \in 1..2
         /\ \A i \in DOMAIN q : q[i] \in Requested /\ q[i].rid \in Rids
         /\ DOMAIN s = 1..Len(s) /\ DOMAIN q = 1..Len(q)
         /\ Len(s) \in Nat /\ Len(q) \in Nat
         /\ Ours(s, q) \subseteq Rids
PROOF
  <1>1. /\ \A i \in DOMAIN s : s[i] \in Piece
        /\ \A i \in DOMAIN q : q[i] \in Requested
        /\ DOMAIN s = 1..Len(s) /\ DOMAIN q = 1..Len(q)
        /\ Len(s) \in Nat /\ Len(q) \in Nat
    OBVIOUS
  <1>2. \A p \in Piece : p.answer \in Answered /\ p.answer.rid \in Rids /\ p.half \in 1..2
    BY DEF Piece, Answered
  <1>3. \A r \in Requested : r.rid \in Rids
    BY DEF Requested
  <1> QED BY <1>1, <1>2, <1>3 DEF Ours

\* When no more than one request is open there is one at most on a connection.
LEMMA LineAlone ==
  ASSUME NEW b \in Members, NEW c, NEW s \in Seq(Piece), NEW l \in Link,
         Line(b, c, s, l), b.open <= 1
  PROVE  /\ Solo(s, l.requests)
         /\ \A r \in Ours(s, l.requests) : AgeAt(b.rid, r) = 0
PROOF
  <1> DEFINE q == l.requests
  <1>0. q \in Seq(Requested) /\ b.rid \in Rids /\ b.open \in 0..2
    BY DEF Link, Members
  <1> HIDE DEF q
  <1>1. /\ \A i \in DOMAIN s : AgeAt(b.rid, s[i].answer.rid) = 0 /\ s[i].half \in 1..2
        /\ \A i \in DOMAIN q : AgeAt(b.rid, q[i].rid) = 0
        /\ DOMAIN s = 1..Len(s) /\ DOMAIN q = 1..Len(q) /\ Len(s) \in Nat /\ Len(q) \in Nat
    BY <1>0, LineTypes, Ages DEF Line, Counted, q
  <1>2. /\ Paired(s)
        /\ \A i, j \in DOMAIN s :
             i < j /\ s[i].half = 2 => Older(b, s[i].answer.rid, s[j].answer.rid)
        /\ \A i, j \in DOMAIN q : i < j => Older(b, q[i].rid, q[j].rid)
        /\ \A i \in DOMAIN s, j \in DOMAIN q : Older(b, s[i].answer.rid, q[j].rid)
    BY DEF Line, Ordered, q
  <1>3. Len(s) <= 2
    <2> SUFFICES ASSUME Len(s) > 2 PROVE FALSE
      BY <1>1
    <2>1. 1 \in DOMAIN s /\ 2 \in DOMAIN s /\ 3 \in DOMAIN s
      BY <1>1
    <2>2. s[2].half = 2
      BY <1>2, <2>1 DEF Paired
    <2>3. Older(b, s[2].answer.rid, s[3].answer.rid)
      BY <1>2, <2>1, <2>2
    <2> QED BY <1>1, <2>1, <2>3 DEF Older
  <1>4. Len(q) <= 1
    <2> SUFFICES ASSUME Len(q) > 1 PROVE FALSE
      BY <1>1
    <2>1. 1 \in DOMAIN q /\ 2 \in DOMAIN q
      BY <1>1
    <2>2. Older(b, q[1].rid, q[2].rid)
      BY <1>2, <2>1
    <2> QED BY <1>1, <2>1, <2>2 DEF Older
  <1>5. q = <<>> \/ s = <<>>
    <2> SUFFICES ASSUME q # <<>>, s # <<>> PROVE FALSE
      OBVIOUS
    <2>1. 1 \in DOMAIN q /\ 1 \in DOMAIN s
      BY <1>0
    <2>2. Older(b, s[1].answer.rid, q[1].rid)
      BY <1>2, <2>1
    <2> QED BY <1>1, <2>1, <2>2 DEF Older
  <1> QED BY <1>1, <1>3, <1>4, <1>5 DEF Solo, Ours, q

\* A request is sent, here or elsewhere: what is under way is older by one.
LEMMA LineSent ==
  ASSUME NEW b \in Members, NEW d \in Members, NEW c, NEW s \in Seq(Piece), NEW l \in Link,
         Line(b, c, s, l), b.open <= 1,
         d.rid = NextRid(b.rid), d.open = b.open + 1,
         d.state = b.state, d.mode = b.mode, Active(b, c) => Active(d, c)
  PROVE  /\ Line(d, c, s, l)
         /\ \A r \in Ours(s, l.requests) : AgeAt(d.rid, r) = AgeAt(b.rid, r) + 1
PROOF
  <1> DEFINE q == l.requests
  <1>0. q \in Seq(Requested) /\ b.rid \in Rids /\ b.open \in 0..2
    BY DEF Link, Members
  <1>1. \A i \in DOMAIN s : AgeAt(b.rid, s[i].answer.rid) < 2 /\ s[i].answer.rid \in Rids
    BY <1>0, LineTypes, Ages DEF Line, Counted
  <1>2. \A i \in DOMAIN q : AgeAt(b.rid, q[i].rid) < 2 /\ q[i].rid \in Rids
    BY <1>0, LineTypes, Ages DEF Line, Counted
  <1>3. \A i \in DOMAIN s : AgeAt(d.rid, s[i].answer.rid) = AgeAt(b.rid, s[i].answer.rid) + 1
    BY <1>0, <1>1, NextAges
  <1>4. \A i \in DOMAIN q : AgeAt(d.rid, q[i].rid) = AgeAt(b.rid, q[i].rid) + 1
    BY <1>0, <1>2, NextAges
  <1>5. /\ \A i \in DOMAIN s : AgeAt(b.rid, s[i].answer.rid) \in Int
        /\ \A i \in DOMAIN q : AgeAt(b.rid, q[i].rid) \in Int
    BY <1>0, <1>1, <1>2, Ages
  <1>6. Ordered(d, s, q)
    BY <1>3, <1>4, <1>5 DEF Line, Ordered, Older
  <1>7. Counted(d, s, q)
    BY <1>0, <1>3, <1>4, <1>5 DEF Line, Counted
  <1> QED BY <1>3, <1>4, <1>6, <1>7 DEF Line, Begins, Ours

\* What the last request finds on its connection.
LEMMA LineMore ==
  ASSUME NEW b \in Members, NEW c, NEW s \in Seq(Piece), NEW l \in Link,
         Line(b, c, s, l), NEW r \in Requested, r.rid = b.rid, 0 < b.open,
         r.kind = "session" <=> b.state = "connecting",
         \A x \in Ours(s, l.requests) : AgeAt(b.rid, x) >= 1,
         b.mode # "pipelining" => s = <<>> /\ l.requests = <<>>,
         Active(b, c), l.up, ~l.eof
  PROVE  LET m == [l EXCEPT !.requests = Append(l.requests, r)]
         IN m \in Link /\ Line(b, c, s, m)
PROOF
  <1> DEFINE q == l.requests
             p == Append(q, r)
             m == [l EXCEPT !.requests = p]
  <1>0. q \in Seq(Requested) /\ p \in Seq(Requested) /\ b.rid \in Rids /\ b.open \in 0..2
    BY DEF Link, Members
  <1>1. /\ m \in Link /\ m.requests = p /\ m.eof = l.eof /\ m.up = l.up /\ m.pieces = l.pieces
    BY <1>0 DEF Link
  <1>2. /\ DOMAIN p = 1..(Len(q) + 1) /\ DOMAIN q = 1..Len(q) /\ Len(q) \in Nat
        /\ p[Len(q) + 1] = r /\ \A i \in DOMAIN q : p[i] = q[i]
        /\ Len(p) = Len(q) + 1
    BY <1>0
  <1>3. AgeAt(b.rid, b.rid) = 0
    BY <1>0 DEF AgeAt, Rids
  <1>4. /\ \A i \in DOMAIN s : AgeAt(b.rid, s[i].answer.rid) >= 1
        /\ \A i \in DOMAIN q : AgeAt(b.rid, q[i].rid) >= 1
    BY DEF Ours
  <1> HIDE DEF p, q
  <1>5. Ordered(b, s, q) /\ Counted(b, s, q) /\ Begins(b, s, q)
    BY DEF Line, q
  <1>6. Ordered(b, s, p)
    <2>1. ASSUME NEW i \in DOMAIN p, NEW j \in DOMAIN p, i < j PROVE Older(b, p[i].rid, p[j].rid)
      <3>1. i \in DOMAIN q
        BY <1>2, <2>1
      <3>2. CASE j \in DOMAIN q
        BY <1>2, <1>5, <2>1, <3>1, <3>2 DEF Ordered
      <3>3. CASE j \notin DOMAIN q
        <4>1. p[j] = r
          BY <1>2, <3>3
        <4>2. AgeAt(b.rid, q[i].rid) \in Int
          BY <1>0, <3>1, LineTypes, Ages
        <4> QED BY <1>2, <1>3, <1>4, <3>1, <4>1, <4>2 DEF Older
      <3> QED BY <3>2, <3>3
    <2>2. ASSUME NEW i \in DOMAIN s, NEW j \in DOMAIN p PROVE Older(b, s[i].answer.rid, p[j].rid)
      <3>1. CASE j \in DOMAIN q
        BY <1>2, <1>5, <3>1 DEF Ordered
      <3>2. CASE j \notin DOMAIN q
        <4>1. p[j] = r
          BY <1>2, <3>2
        <4>2. AgeAt(b.rid, s[i].answer.rid) \in Int
          BY <1>0, LineTypes, Ages
        <4> QED BY <1>3, <1>4, <4>1, <4>2 DEF Older
      <3> QED BY <3>1, <3>2
    <2> QED BY <1>5, <2>1, <2>2 DEF Ordered
  <1>7. Counted(b, s, p)
    <2>1. ASSUME NEW j \in DOMAIN p PROVE AgeAt(b.rid, p[j].rid) < b.open
      <3>1. CASE j \in DOMAIN q
        BY <1>2, <1>5, <3>1 DEF Counted
      <3>2. CASE j \notin DOMAIN q
        BY <1>0, <1>2, <1>3, <3>2
      <3> QED BY <3>1, <3>2
    <2> QED BY <1>5, <2>1 DEF Counted
  <1>8. Begins(b, s, p)
    <2>1. ASSUME NEW j \in DOMAIN p PROVE p[j].kind = "session" <=> b.state = "connecting"
      <3>1. CASE j \in DOMAIN q
        BY <1>2, <1>5, <3>1 DEF Begins
      <3>2. CASE j \notin DOMAIN q
        BY <1>2, <3>2
      <3> QED BY <3>1, <3>2
    <2> QED BY <1>5, <2>1 DEF Begins
  <1>9. b.mode # "pipelining" => Solo(s, p)
    <2> SUFFICES ASSUME b.mode # "pipelining" PROVE Solo(s, p)
      OBVIOUS
    <2>1. s = <<>> /\ q = <<>>
      BY DEF q
    <2>2. Len(s) = 0 /\ Len(q) = 0
      BY <2>1
    <2> QED BY <1>2, <2>1, <2>2 DEF Solo
  <1>10. Ends(s, m)
    BY <1>1 DEF Line, Ends
  <1> HIDE DEF m
  <1>11. Line(b, c, s, m)
    BY <1>1, <1>6, <1>7, <1>8, <1>9, <1>10 DEF Line
  <1> QED BY <1>1, <1>11 DEF p, q, m

\* One sequence after another.
LEMMA Joined ==
  ASSUME NEW S, NEW s \in Seq(S), NEW t \in Seq(S)
  PROVE  /\ s \o t \in Seq(S) /\ Len(s \o t) = Len(s) + Len(t)
         /\ Len(s) \in Nat /\ Len(t) \in Nat
         /\ DOMAIN s = 1..Len(s) /\ DOMAIN t = 1..Len(t)
         /\ DOMAIN (s \o t) = 1..(Len(s) + Len(t))
         /\ \A i \in DOMAIN s : (s \o t)[i] = s[i]
         /\ \A i \in DOMAIN t : (s \o t)[Len(s) + i] = t[i]
PROOF
  OBVIOUS

\* Three sequences in a row.
LEMMA Three ==
  ASSUME NEW S, NEW s \in Seq(S), NEW t \in Seq(S), NEW u \in Seq(S)
  PROVE  (s \o t) \o u = s \o (t \o u)
PROOF
  BY ConcatAssociative

\* A sequence in two.
LEMMA Split ==
  ASSUME NEW S, NEW s \in Seq(S), NEW k \in 1..Len(s)
  PROVE  /\ SubSeq(s, 1, k) \in Seq(S) /\ SubSeq(s, k + 1, Len(s)) \in Seq(S)
         /\ SubSeq(s, 1, k) \o SubSeq(s, k + 1, Len(s)) = s
         /\ Len(SubSeq(s, 1, k)) = k /\ Len(SubSeq(s, k + 1, Len(s))) = Len(s) - k
PROOF
  <1>0. Len(s) \in Nat /\ k \in Nat /\ k <= Len(s) /\ 1 - 1 = 0
    OBVIOUS
  <1>1. k \in 0..Len(s) /\ 1 \in 1..Len(s) + 1 /\ Len(s) \in k..Len(s)
    BY <1>0
  <1>2. SubSeq(s, 1, k) \o SubSeq(s, k + 1, Len(s)) = SubSeq(s, 1, Len(s))
    BY <1>0, <1>1, ConcatAdjacentSubSeq, Zenon
  <1>3. SubSeq(s, 1, Len(s)) = s
    BY SubSeqFull
  <1>4. SubSeq(s, 1, k) \in Seq(S) /\ Len(SubSeq(s, 1, k)) = k
    BY <1>0
  <1>5. SubSeq(s, k + 1, Len(s)) \in Seq(S) /\ Len(SubSeq(s, k + 1, Len(s))) = Len(s) - k
    BY <1>0
  <1> QED BY <1>2, <1>3, <1>4, <1>5

\* A sequence without its first two elements.
LEMMA Dropped ==
  ASSUME NEW S, NEW s \in Seq(S), Len(s) >= 2
  PROVE  SubSeq(s, 3, Len(s)) \in Seq(S) /\ Len(SubSeq(s, 3, Len(s))) = Len(s) - 2
PROOF
  <1>1. Len(s) \in Nat /\ 3 \in Nat /\ DOMAIN s = 1..Len(s)
    OBVIOUS
  <1>2. SubSeq(s, 3, Len(s)) \in Seq(S)
    BY <1>1
  <1>3. Len(SubSeq(s, 3, Len(s))) = Len(s) - 2
    BY <1>1
  <1> QED BY <1>2, <1>3

\* Two elements after a sequence.
LEMMA JoinedTwo ==
  ASSUME NEW S, NEW s \in Seq(S), NEW t \in Seq(S)
  PROVE  Len(t) = 2 =>
         /\ s \o t \in Seq(S) /\ Len(s \o t) = Len(s) + 2 /\ Len(s) \in Nat
         /\ DOMAIN (s \o t) = 1..(Len(s) + 2) /\ DOMAIN s = 1..Len(s)
         /\ \A i \in DOMAIN s : (s \o t)[i] = s[i]
         /\ (s \o t)[Len(s) + 1] = t[1] /\ (s \o t)[Len(s) + 2] = t[2]
PROOF
  <1> DEFINE z == s \o t
  <1>1. /\ z \in Seq(S) /\ Len(z) = Len(s) + Len(t)
        /\ Len(s) \in Nat /\ Len(t) \in Nat
        /\ DOMAIN s = 1..Len(s) /\ DOMAIN t = 1..Len(t)
        /\ DOMAIN z = 1..(Len(s) + Len(t))
        /\ \A i \in DOMAIN s : z[i] = s[i]
        /\ \A i \in DOMAIN t : z[Len(s) + i] = t[i]
    OBVIOUS
  <1> HIDE DEF z
  <1>0. SUFFICES ASSUME Len(t) = 2
        PROVE  /\ z \in Seq(S) /\ Len(z) = Len(s) + 2 /\ Len(s) \in Nat
               /\ DOMAIN z = 1..(Len(s) + 2) /\ DOMAIN s = 1..Len(s)
               /\ \A i \in DOMAIN s : z[i] = s[i]
               /\ z[Len(s) + 1] = t[1] /\ z[Len(s) + 2] = t[2]
    BY DEF z
  <1>2. 1 \in DOMAIN t /\ 2 \in DOMAIN t
    BY <1>0, <1>1
  <1>3. z[Len(s) + 1] = t[1] /\ z[Len(s) + 2] = t[2]
    BY <1>0, <1>1, <1>2
  <1>4. /\ z \in Seq(S) /\ Len(z) = Len(s) + 2 /\ Len(s) \in Nat
        /\ DOMAIN z = 1..(Len(s) + 2) /\ DOMAIN s = 1..Len(s)
    BY <1>0, <1>1
  <1> QED BY <1>1, <1>3, <1>4

\* A sequence without its first element.
LEMMA Rest ==
  ASSUME NEW S, NEW q \in Seq(S), q # <<>>
  PROVE  /\ Tail(q) \in Seq(S) /\ Len(q) \in Nat /\ Len(q) >= 1 /\ Len(Tail(q)) = Len(q) - 1
         /\ DOMAIN q = 1..Len(q) /\ DOMAIN Tail(q) = 1..(Len(q) - 1) /\ 1 \in DOMAIN q
         /\ \A i \in DOMAIN Tail(q) : i + 1 \in DOMAIN q /\ Tail(q)[i] = q[i + 1] /\ 1 < i + 1
         /\ \A i \in DOMAIN q : i = 1 \/ (i - 1 \in DOMAIN Tail(q) /\ Tail(q)[i - 1] = q[i])
PROOF
  OBVIOUS

\* The two halves of an answer.
LEMMA Halves ==
  ASSUME NEW c \in Conns, NEW a \in Answered
  PROVE  LET z == Pieces(c, a)
         IN /\ z \in Seq(Piece) /\ Len(z) = 2 /\ DOMAIN z = {1, 2}
            /\ \A i \in {1, 2} : z[i].on = c /\ z[i].half = i /\ z[i].answer = a
PROOF
  BY DEF Pieces, Piece

\* The manager may answer r with a.
MayAnswer(r, a) ==
  /\ a.rid = r.rid /\ (a.kind = "session" => r.kind = "session")
  /\ r.kind = "session" => Opening(a)

\* z is s with the halves of a after it.
WithAnswer(c, s, a, z) ==
  /\ z \in Seq(Piece) /\ Len(z) = Len(s) + 2
  /\ \A i \in DOMAIN s : z[i] = s[i]
  /\ \A i \in {1, 2} : /\ z[Len(s) + i].on = c /\ z[Len(s) + i].half = i
                        /\ z[Len(s) + i].answer = a

\* m is the link l when the answer a is under way on it.
AnswerOn(l, a, m) ==
  /\ m \in Link /\ m.eof = a.last /\ m.up = l.up
  /\ m.requests = IF a.last THEN <<>> ELSE Tail(l.requests)

\* A request and its answer have the same id.
SameRids(s, q, a, z, p) ==
  /\ Ours(z, p) \subseteq Ours(s, q)
  /\ ~a.last \/ Len(q) = 1 => Ours(z, p) = Ours(s, q)

\* The oldest request of a connection is answered: z are the pieces then, m its link.
LEMMA LineAnswers ==
  ASSUME NEW b \in Members, NEW c \in Conns, NEW s \in Seq(Piece), NEW l \in Link,
         Line(b, c, s, l), l.requests # <<>>, NEW a \in Answered, MayAnswer(l.requests[1], a),
         NEW z, WithAnswer(c, s, a, z), NEW m, AnswerOn(l, a, m)
  PROVE  Line(b, c, z, m) /\ SameRids(s, l.requests, a, z, m.requests)
PROOF
  <1> DEFINE q == l.requests
             p == m.requests
  <1>0. /\ q \in Seq(Requested) /\ q # <<>>
        /\ b.rid \in Rids /\ b.open \in 0..2 /\ a.last \in BOOLEAN
    BY DEF Link, Members, Answered
  <1>2. /\ Len(z) = Len(s) + 2 /\ Len(s) \in Nat
        /\ DOMAIN z = 1..(Len(s) + 2) /\ DOMAIN s = 1..Len(s)
        /\ \A i \in DOMAIN s : z[i] = s[i]
    BY DEF WithAnswer
  <1>1. /\ z[Len(s) + 1].half = 1 /\ z[Len(s) + 1].on = c /\ z[Len(s) + 1].answer = a
        /\ z[Len(s) + 2].half = 2 /\ z[Len(s) + 2].on = c /\ z[Len(s) + 2].answer = a
    BY DEF WithAnswer
  <1>4. m \in Link /\ m.requests = p /\ m.eof = a.last /\ m.up = l.up
        /\ p = IF a.last THEN <<>> ELSE Tail(q)
    BY DEF AnswerOn
  <1>3. p \in Seq(Requested)
    BY <1>4 DEF Link
  <1>20. MayAnswer(q[1], a)
    OBVIOUS
  <1> HIDE DEF p
  <1>5. /\ DOMAIN q = 1..Len(q) /\ Len(q) \in Nat /\ Len(q) >= 1 /\ 1 \in DOMAIN q
        /\ DOMAIN p = 1..Len(p) /\ Len(p) \in Nat /\ Len(p) < Len(q)
        /\ \A i \in DOMAIN p : i + 1 \in DOMAIN q /\ p[i] = q[i + 1] /\ 1 < i + 1
        /\ ~a.last => \A i \in DOMAIN q : i = 1 \/ (i - 1 \in DOMAIN p /\ p[i - 1] = q[i])
    <2>1. CASE a.last
      <3>1. p = <<>>
        BY <1>4, <2>1
      <3>2. /\ DOMAIN q = 1..Len(q) /\ Len(q) \in Nat /\ Len(q) >= 1 /\ 1 \in DOMAIN q
        BY <1>0, Rest
      <3>3. DOMAIN p = 1..Len(p) /\ Len(p) = 0 /\ DOMAIN p = {}
        BY <3>1
      <3> QED BY <2>1, <3>2, <3>3
    <2>2. CASE ~a.last
      <3>1. p = Tail(q)
        BY <1>4, <2>2
      <3> HIDE DEF q
      <3> QED BY <1>0, <3>1, Rest
    <2> QED BY <2>1, <2>2
  <1>6. /\ Paired(s) /\ Ordered(b, s, q) /\ Counted(b, s, q) /\ Begins(b, s, q) /\ Ends(s, l)
        /\ (b.mode # "pipelining" => Solo(s, q)) /\ Active(b, c) /\ l.up
        /\ \A i \in DOMAIN s : s[i].on = c
    BY <1>0 DEF Line, q, Down
  <1>7. \A i \in DOMAIN s : z[i] = s[i] /\ i < Len(s) + 1 /\ i \in Nat
    BY <1>2
  <1>8. \A i \in DOMAIN z : \/ i \in DOMAIN s
                            \/ i = Len(s) + 1 /\ z[i].half = 1
                            \/ i = Len(s) + 2 /\ z[i].half = 2
    BY <1>1, <1>2
  <1>9. /\ \A i \in DOMAIN z : i \notin DOMAIN s => z[i].answer = a /\ z[i].on = c
        /\ z[Len(s) + 1].half = 1 /\ z[Len(s) + 2].half = 2
    BY <1>1, <1>2
  <1>10. Paired(z)
    <2> SUFFICES ASSUME NEW i \in DOMAIN z
                 PROVE  /\ i = 1 => z[i].half = 1
                        /\ z[i].half = 1 => /\ i + 1 \in DOMAIN z /\ z[i + 1].half = 2
                                            /\ z[i + 1].answer = z[i].answer
                        /\ z[i].half = 2 =>
                             i > 1 /\ z[i - 1].half = 1 /\ z[i - 1].answer = z[i].answer
                        /\ z[i].half = 2 /\ i + 1 \in DOMAIN z => z[i + 1].half = 1
      BY DEF Paired
    <2>1. CASE i \in DOMAIN s
      <3>1. CASE i + 1 \in DOMAIN s
        BY <1>2, <1>6, <1>7, <2>1, <3>1 DEF Paired
      <3>2. CASE i + 1 \notin DOMAIN s
        <4>1. i = Len(s) /\ s[i].half # 1
          BY <1>2, <1>6, <2>1, <3>2 DEF Paired
        <4>2. z[i] = s[i] /\ (i = 1 => s[i].half = 1)
          BY <1>6, <1>7, <2>1 DEF Paired
        <4>3. s[i].half = 2 => i > 1 /\ s[i - 1].half = 1 /\ s[i - 1].answer = s[i].answer
          BY <1>6, <2>1 DEF Paired
        <4>4. i > 1 => z[i - 1] = s[i - 1]
          BY <1>2, <2>1
        <4> QED BY <1>9, <4>1, <4>2, <4>3, <4>4
      <3> QED BY <3>1, <3>2
    <2>2. CASE i = Len(s) + 1
      BY <1>2, <1>9, <2>2
    <2>3. CASE i = Len(s) + 2
      BY <1>2, <1>9, <2>3
    <2> QED BY <1>8, <2>1, <2>2, <2>3
  <1>11. a.rid = q[1].rid
    BY <1>20 DEF MayAnswer
  <1>12. Ordered(b, z, p)
    <2>1. ASSUME NEW i \in DOMAIN z, NEW j \in DOMAIN z, i < j, z[i].half = 2
          PROVE  Older(b, z[i].answer.rid, z[j].answer.rid)
      <3>1. i \in DOMAIN s
        BY <1>2, <1>8, <2>1
      <3>2. CASE j \in DOMAIN s
        BY <1>6, <1>7, <2>1, <3>1, <3>2 DEF Ordered
      <3>3. CASE j \notin DOMAIN s
        BY <1>5, <1>6, <1>7, <1>9, <1>11, <3>1, <3>3 DEF Ordered
      <3> QED BY <3>2, <3>3
    <2>2. ASSUME NEW i \in DOMAIN p, NEW j \in DOMAIN p, i < j PROVE Older(b, p[i].rid, p[j].rid)
      <3>1. i + 1 < j + 1 /\ i + 1 \in DOMAIN q /\ j + 1 \in DOMAIN q
        BY <1>5, <2>2
      <3> QED BY <1>5, <1>6, <3>1 DEF Ordered
    <2>3. ASSUME NEW i \in DOMAIN z, NEW j \in DOMAIN p PROVE Older(b, z[i].answer.rid, p[j].rid)
      <3>0. j + 1 \in DOMAIN q /\ p[j] = q[j + 1] /\ 1 < j + 1 /\ 1 \in DOMAIN q
        BY <1>5, <2>3
      <3>1. CASE i \in DOMAIN s
        BY <1>6, <1>7, <3>0, <3>1 DEF Ordered
      <3>2. CASE i \notin DOMAIN s
        <4>1. Older(b, q[1].rid, q[j + 1].rid)
          BY <1>6, <3>0 DEF Ordered
        <4>2. z[i].answer.rid = q[1].rid
          BY <1>9, <1>11, <2>3, <3>2
        <4> QED BY <3>0, <4>1, <4>2
      <3> QED BY <3>1, <3>2
    <2> QED BY <2>1, <2>2, <2>3 DEF Ordered
  <1>13. Counted(b, z, p)
    <2>1. ASSUME NEW i \in DOMAIN z PROVE AgeAt(b.rid, z[i].answer.rid) < b.open
      BY <1>5, <1>6, <1>7, <1>9, <1>11 DEF Counted
    <2>2. ASSUME NEW i \in DOMAIN p PROVE AgeAt(b.rid, p[i].rid) < b.open
      BY <1>5, <1>6 DEF Counted
    <2> QED BY <2>1, <2>2 DEF Counted
  <1>14. Begins(b, z, p)
    <2>1. ASSUME NEW i \in DOMAIN z
          PROVE  /\ z[i].answer.kind = "session" => b.state = "connecting"
                 /\ b.state = "connecting" => Opening(z[i].answer)
      <3>1. CASE i \in DOMAIN s
        BY <1>6, <1>7, <3>1 DEF Begins
      <3>2. CASE i \notin DOMAIN s
        <4>1. q[1].kind = "session" <=> b.state = "connecting"
          BY <1>5, <1>6 DEF Begins
        <4> QED BY <1>9, <1>20, <3>2, <4>1 DEF MayAnswer
      <3> QED BY <3>1, <3>2
    <2>2. ASSUME NEW i \in DOMAIN p PROVE p[i].kind = "session" <=> b.state = "connecting"
      BY <1>5, <1>6 DEF Begins
    <2> QED BY <2>1, <2>2 DEF Begins
  <1>15. Ends(z, m)
    <2>1. ~l.eof
      BY <1>0, <1>6 DEF Ends, q
    <2>2. ASSUME NEW i \in DOMAIN z, z[i].answer.last
          PROVE  m.eof /\ (z[i].half = 2 => i = Len(z))
      <3>1. i \notin DOMAIN s
        BY <1>6, <1>7, <2>1, <2>2 DEF Ends
      <3>2. a.last /\ (z[i].half = 2 => i = Len(s) + 2)
        BY <1>8, <1>9, <2>2, <3>1
      <3> QED BY <1>2, <1>4, <3>2
    <2>3. m.eof => m.requests = <<>>
      BY <1>4 DEF p
    <2> QED BY <2>2, <2>3 DEF Ends
  <1>16. b.mode # "pipelining" => Solo(z, p)
    <2> SUFFICES ASSUME b.mode # "pipelining" PROVE Solo(z, p)
      OBVIOUS
    <2>1. s = <<>> /\ Len(q) <= 1
      BY <1>0, <1>6 DEF Solo
    <2>2. Len(s) = 0 /\ Len(p) = 0
      BY <1>5, <2>1
    <2>3. p = <<>>
      BY <1>3, <2>2
    <2> QED BY <1>2, <2>2, <2>3 DEF Solo
  <1>17. Line(b, c, z, m)
    BY <1>4, <1>6, <1>7, <1>9, <1>10, <1>12, <1>13, <1>14, <1>15, <1>16 DEF Line
  <1>18. Ours(z, p) \subseteq Ours(s, q)
    <2>1. ASSUME NEW i \in DOMAIN z PROVE z[i].answer.rid \in Ours(s, q)
      BY <1>5, <1>7, <1>9, <1>11 DEF Ours
    <2>2. ASSUME NEW i \in DOMAIN p PROVE p[i].rid \in Ours(s, q)
      BY <1>5 DEF Ours
    <2> QED BY <2>1, <2>2 DEF Ours
  <1>19. ASSUME ~a.last \/ Len(q) = 1 PROVE Ours(s, q) \subseteq Ours(z, p)
    <2> HIDE DEF q
    <2>1. ASSUME NEW i \in DOMAIN s PROVE s[i].answer.rid \in Ours(z, p)
      <3>1. i \in DOMAIN z /\ z[i] = s[i]
        BY <1>2
      <3> QED BY <3>1 DEF Ours
    <2>2. q[1].rid \in Ours(z, p)
      <3>1. Len(s) + 1 \in DOMAIN z /\ z[Len(s) + 1].answer = a
        BY <1>1, <1>2
      <3> QED BY <1>11, <3>1 DEF Ours
    <2>3. ASSUME NEW i \in DOMAIN q PROVE q[i].rid \in Ours(z, p)
      <3>1. CASE i = 1
        BY <2>2, <3>1
      <3>2. CASE i # 1
        <4>1. ~a.last
          BY <1>0, <1>5, <1>19, <2>3, <3>2
        <4>3. i - 1 \in DOMAIN p /\ p[i - 1] = q[i]
          BY <1>5, <3>2, <4>1
        <4> QED BY <4>3 DEF Ours
      <3> QED BY <3>1, <3>2
    <2> QED BY <2>1, <2>3 DEF Ours
  <1> QED BY <1>17, <1>18, <1>19 DEF p, q, SameRids

\* What that makes of its link.
AnswerComes(c, s, l, a, z, m) ==
  /\ z = s \o Pieces(c, a)
  /\ m = [l EXCEPT !.pieces = l.pieces \o Pieces(c, a), !.eof = a.last,
                   !.requests = IF a.last THEN <<>> ELSE Tail(l.requests)]

LEMMA LineAnswered ==
  ASSUME NEW b \in Members, NEW c \in Conns, NEW s \in Seq(Piece), NEW l \in Link,
         Line(b, c, s, l), l.requests # <<>>, NEW a \in Answered, MayAnswer(l.requests[1], a),
         NEW z, NEW m, AnswerComes(c, s, l, a, z, m)
  PROVE  /\ z \in Seq(Piece) /\ m \in Link /\ m.pieces = l.pieces \o Pieces(c, a)
         /\ Line(b, c, z, m) /\ SameRids(s, l.requests, a, z, m.requests)
PROOF
  <1> DEFINE t == Pieces(c, a)
             u == s \o t
             q == l.requests
             p == IF a.last THEN <<>> ELSE Tail(q)
  <1>1. /\ t \in Seq(Piece) /\ Len(t) = 2
        /\ \A i \in {1, 2} : t[i].on = c /\ t[i].half = i /\ t[i].answer = a
    BY Halves
  <1>2. z = u
    BY DEF AnswerComes
  <1>3. /\ l.pieces \in Seq(Piece) /\ q \in Seq(Requested) /\ a.last \in BOOLEAN
        /\ l.up \in BOOLEAN
    BY DEF Link, Answered
  <1>4. p \in Seq(Requested)
    BY <1>3
  <1>5. m = [l EXCEPT !.pieces = l.pieces \o t, !.eof = a.last, !.requests = p]
    BY DEF AnswerComes
  <1> HIDE DEF t, u, p
  <1>6. /\ u \in Seq(Piece) /\ Len(u) = Len(s) + 2
        /\ \A i \in DOMAIN s : u[i] = s[i]
        /\ u[Len(s) + 1] = t[1] /\ u[Len(s) + 2] = t[2]
    BY <1>1, JoinedTwo DEF u
  <1>7. WithAnswer(c, s, a, u)
    BY <1>1, <1>6 DEF WithAnswer
  <1>8. l.pieces \o t \in Seq(Piece)
    BY <1>1, <1>3
  <1>9. /\ m \in Link /\ m.eof = a.last /\ m.up = l.up /\ m.requests = p
        /\ m.pieces = l.pieces \o t
    BY <1>3, <1>4, <1>5, <1>8 DEF Link
  <1>10. AnswerOn(l, a, m)
    BY <1>9 DEF p, AnswerOn
  <1>11. Line(b, c, u, m) /\ SameRids(s, l.requests, a, u, m.requests)
    BY <1>7, <1>10, LineAnswers
  <1> QED BY <1>2, <1>6, <1>9, <1>11 DEF t

\* What does not matter to a connection.
LEMMA LineKept ==
  ASSUME NEW b, NEW d, NEW c, NEW s, NEW l, Line(b, c, s, l),
         d.rid = b.rid, \A r \in Ours(s, l.requests) : AgeAt(b.rid, r) < d.open,
         d.state = b.state \/ Ours(s, l.requests) = {},
         d.mode # "pipelining" => b.mode # "pipelining" \/ Solo(s, l.requests),
         Active(d, c) \/ (l.requests = <<>> /\ l.pieces = <<>>)
  PROVE  Line(d, c, s, l)
PROOF
  <1>1. Ordered(d, s, l.requests)
    BY DEF Line, Ordered, Older
  <1>2. Counted(d, s, l.requests)
    BY DEF Line, Counted, Ours
  <1>3. Begins(d, s, l.requests)
    <2>1. CASE d.state = b.state
      BY <2>1 DEF Line, Begins
    <2>2. CASE Ours(s, l.requests) = {}
      <3>1. DOMAIN s = {} /\ DOMAIN l.requests = {}
        BY <2>2 DEF Ours
      <3> QED BY <3>1 DEF Begins
    <2> QED BY <2>1, <2>2
  <1> QED BY <1>1, <1>2, <1>3 DEF Line

\* A connection on which nothing is under way.
LEMMA LineBare ==
  ASSUME NEW b, NEW c, NEW l, l.requests = <<>>, l = Down \/ l.up,
         Active(b, c) \/ l.pieces = <<>>
  PROVE  Line(b, c, <<>>, l) /\ Ours(<<>>, l.requests) = {}
PROOF
  <1>1. DOMAIN <<>> = {} /\ Len(<<>>) = 0
    OBVIOUS
  <1> QED BY <1>1 DEF Line, Paired, Ordered, Counted, Begins, Ends, Solo, Ours

\* No connection holds more than two answers.
LEMMA LineLength ==
  ASSUME NEW b \in Members, NEW c, NEW s \in Seq(Piece), NEW l \in Link, Line(b, c, s, l)
  PROVE  Len(s) <= 4 /\ (s # <<>> => b.open >= 1)
PROOF
  <1>0. b.rid \in Rids /\ b.open \in 0..2 /\ l.requests \in Seq(Requested)
    BY DEF Members, Link
  <1>1. /\ \A i \in DOMAIN s : s[i].answer.rid \in Rids /\ s[i].half \in 1..2
        /\ DOMAIN s = 1..Len(s) /\ Len(s) \in Nat
    BY <1>0, LineTypes
  <1>2. \A i \in DOMAIN s : AgeAt(b.rid, s[i].answer.rid) \in Nat
    BY <1>0, <1>1, Ages
  <1>3. \A i \in DOMAIN s : AgeAt(b.rid, s[i].answer.rid) < b.open
    BY DEF Line, Counted
  <1>4. ASSUME Len(s) > 4 PROVE FALSE
    <2>1. {1, 2, 3, 4, 5} \subseteq DOMAIN s
      BY <1>1, <1>4
    <2>2. Paired(s)
      BY DEF Line
    <2>3. s[1].half = 1
      BY <2>1, <2>2 DEF Paired
    <2>4. s[2].half = 2
      BY <2>1, <2>2, <2>3 DEF Paired
    <2>5. s[3].half = 1
      BY SMTT(30), <2>1, <2>2, <2>4 DEF Paired
    <2>6. s[4].half = 2
      BY <2>1, <2>2, <2>5 DEF Paired
    <2>7. /\ Older(b, s[2].answer.rid, s[4].answer.rid)
          /\ Older(b, s[4].answer.rid, s[5].answer.rid)
      BY <2>1, <2>4, <2>6 DEF Line, Ordered
    <2> QED BY <1>0, <1>2, <1>3, <2>1, <2>7 DEF Older
  <1>5. s # <<>> => b.open >= 1
    <2> SUFFICES ASSUME s # <<>> PROVE b.open >= 1
      OBVIOUS
    <2>1. 1 \in DOMAIN s
      BY <1>1
    <2> QED BY <1>0, <1>2, <1>3, <2>1
  <1> QED BY <1>1, <1>4, <1>5

\* The first answer of a connection, a, is taken from it.
TakenFrom(s, a, z) == Len(s) >= 2 /\ a = s[1].answer /\ z = SubSeq(s, 3, Len(s))

\* What it leaves, z, is as before and younger.
Leaves(b, c, s, a, z, l) ==
  /\ z \in Seq(Piece) /\ Len(z) = Len(s) - 2 /\ Line(b, c, z, l)
  /\ Ours(s, l.requests) = Ours(z, l.requests) \cup {a.rid}
  /\ AgeAt(b.rid, a.rid) < b.open
  /\ \A r \in Ours(z, l.requests) : Older(b, a.rid, r)
  /\ a.last => l.eof /\ l.requests = <<>> /\ z = <<>>

LEMMA LineTaken ==
  ASSUME NEW b \in Members, NEW c, NEW s \in Seq(Piece), NEW l \in Link,
         Line(b, c, s, l), NEW a, NEW z, TakenFrom(s, a, z)
  PROVE  Leaves(b, c, s, a, z, l)
PROOF
  <1> DEFINE q == l.requests
  <1>0. q \in Seq(Requested)
    BY DEF Link
  <1>20. Len(s) >= 2 /\ a = s[1].answer /\ z = SubSeq(s, 3, Len(s))
    BY DEF TakenFrom
  <1>1. /\ DOMAIN s = 1..Len(s) /\ Len(s) \in Nat /\ 1 \in DOMAIN s /\ 2 \in DOMAIN s
        /\ s[1] \in Piece /\ s[1].answer \in Answered
    BY <1>0, <1>20, LineTypes
  <1>2. z \in Seq(Piece) /\ Len(z) = Len(s) - 2 /\ DOMAIN z = 1..(Len(s) - 2)
    BY <1>1, <1>20, Dropped
  <1>3. \A i \in DOMAIN z : z[i] = s[i + 2] /\ i + 2 \in DOMAIN s /\ i \in Nat
    BY <1>1, <1>2, <1>20
  <1> HIDE DEF q
  <1>4. /\ Paired(s) /\ Ordered(b, s, q) /\ Counted(b, s, q) /\ Begins(b, s, q) /\ Ends(s, l)
        /\ (b.mode # "pipelining" => Solo(s, q))
        /\ \A i \in DOMAIN s : s[i].on = c
    BY DEF Line, q
  <1>21. a = s[1].answer
    BY <1>20
  <1>5. s[1].half = 1 /\ s[2].half = 2 /\ s[2].answer = a
    <2>1. s[1].half = 1
      BY <1>1, <1>4 DEF Paired
    <2>2. 1 + 1 = 2
      OBVIOUS
    <2>3. s[2].half = 2 /\ s[2].answer = s[1].answer
      BY <1>1, <1>4, <2>1, <2>2 DEF Paired
    <2> QED BY <1>21, <2>1, <2>3
  <1>6. \A i \in DOMAIN z : Older(b, a.rid, z[i].answer.rid)
    <2> SUFFICES ASSUME NEW i \in DOMAIN z PROVE Older(b, a.rid, z[i].answer.rid)
      OBVIOUS
    <2>1. i + 2 \in DOMAIN s /\ 2 < i + 2 /\ z[i] = s[i + 2]
      BY <1>2, <1>3
    <2> QED BY <1>1, <1>4, <1>5, <2>1 DEF Ordered
  <1>7. \A i \in DOMAIN q : Older(b, a.rid, q[i].rid)
    BY <1>1, <1>4, <1>21 DEF Ordered
  <1>8. Paired(z)
    <2> SUFFICES ASSUME NEW i \in DOMAIN z
                 PROVE  /\ i = 1 => z[i].half = 1
                        /\ z[i].half = 1 => /\ i + 1 \in DOMAIN z /\ z[i + 1].half = 2
                                            /\ z[i + 1].answer = z[i].answer
                        /\ z[i].half = 2 =>
                             i > 1 /\ z[i - 1].half = 1 /\ z[i - 1].answer = z[i].answer
                        /\ z[i].half = 2 /\ i + 1 \in DOMAIN z => z[i + 1].half = 1
      BY DEF Paired
    <2>0. i + 2 \in DOMAIN s /\ z[i] = s[i + 2] /\ i \in Nat
      BY <1>3
    <2>1. i = 1 => z[i].half = 1
      <3> SUFFICES ASSUME i = 1 PROVE z[i].half = 1
        OBVIOUS
      <3>1. 3 \in DOMAIN s /\ z[i] = s[3] /\ 2 + 1 = 3
        BY <2>0
      <3>2. s[2 + 1].half = 1
        BY <1>1, <1>4, <1>5, <3>1 DEF Paired
      <3> QED BY <3>1, <3>2
    <2>2. /\ z[i].half = 1 => s[i + 3] = z[i + 1] /\ i + 1 \in DOMAIN z /\ s[i + 3].half = 2
                              /\ s[i + 3].answer = z[i].answer
      <3> SUFFICES ASSUME z[i].half = 1
                   PROVE  s[i + 3] = z[i + 1] /\ i + 1 \in DOMAIN z /\ s[i + 3].half = 2
                              /\ s[i + 3].answer = z[i].answer
        OBVIOUS
      <3>1. /\ (i + 2) + 1 \in DOMAIN s /\ s[(i + 2) + 1].half = 2
            /\ s[(i + 2) + 1].answer = s[i + 2].answer
        BY <1>4, <2>0 DEF Paired
      <3>2. (i + 2) + 1 = i + 3 /\ (i + 1) + 2 = i + 3
        BY <2>0
      <3>3. i + 1 \in DOMAIN z
        BY <1>1, <1>2, <3>1, <2>0
      <3> QED BY <1>3, <2>0, <3>1, <3>2, <3>3
    <2>3. z[i].half = 2 => i > 1 /\ z[i - 1].half = 1 /\ z[i - 1].answer = z[i].answer
      <3> SUFFICES ASSUME z[i].half = 2
                   PROVE  i > 1 /\ z[i - 1].half = 1 /\ z[i - 1].answer = z[i].answer
        OBVIOUS
      <3>1. i # 1
        BY <2>1
      <3>2. s[(i + 2) - 1].half = 1 /\ s[(i + 2) - 1].answer = s[i + 2].answer
        BY <1>4, <2>0 DEF Paired
      <3>3. i - 1 \in DOMAIN z /\ (i - 1) + 2 = (i + 2) - 1 /\ i > 1
        BY <1>2, <2>0, <3>1
      <3>4. z[i - 1] = s[(i + 2) - 1]
        BY <1>3, <3>3
      <3> QED BY <2>0, <3>2, <3>3, <3>4
    <2>4. z[i].half = 2 /\ i + 1 \in DOMAIN z => z[i + 1].half = 1
      <3> SUFFICES ASSUME z[i].half = 2, i + 1 \in DOMAIN z PROVE z[i + 1].half = 1
        OBVIOUS
      <3>1. (i + 1) + 2 \in DOMAIN s /\ z[i + 1] = s[(i + 1) + 2] /\ (i + 1) + 2 = (i + 2) + 1
        BY <1>3, <2>0
      <3> QED BY <1>4, <2>0, <3>1 DEF Paired
    <2> QED BY <2>0, <2>1, <2>2, <2>3, <2>4
  <1>9. Ordered(b, z, q)
    <2>1. ASSUME NEW i \in DOMAIN z, NEW j \in DOMAIN z, i < j, z[i].half = 2
          PROVE  Older(b, z[i].answer.rid, z[j].answer.rid)
      <3>1. i + 2 < j + 2 /\ i + 2 \in DOMAIN s /\ j + 2 \in DOMAIN s
            /\ z[i] = s[i + 2] /\ z[j] = s[j + 2]
        BY <1>3, <2>1
      <3> QED BY <1>4, <2>1, <3>1 DEF Ordered
    <2> QED BY <1>3, <1>4, <2>1 DEF Ordered
  <1>10. Counted(b, z, q) /\ Begins(b, z, q)
    BY <1>3, <1>4 DEF Counted, Begins
  <1>11. a.last => l.eof /\ q = <<>> /\ z = <<>>
    <2> SUFFICES ASSUME a.last PROVE l.eof /\ q = <<>> /\ z = <<>>
      OBVIOUS
    <2>1. l.eof /\ Len(s) = 2 /\ l.requests = <<>>
      BY <1>1, <1>4, <1>5 DEF Ends
    <2>2. z = SubSeq(s, 3, 2)
      BY <1>20, <2>1
    <2> QED BY <1>2, <2>1, <2>2 DEF q
  <1>12. Ends(z, l)
    <2>1. ASSUME NEW i \in DOMAIN z, z[i].answer.last PROVE l.eof /\ (z[i].half = 2 => i = Len(z))
      <3>1. i + 2 \in DOMAIN s /\ z[i] = s[i + 2] /\ i \in Nat
        BY <1>3
      <3>2. l.eof /\ (s[i + 2].half = 2 => i + 2 = Len(s))
        BY <1>4, <2>1, <3>1 DEF Ends
      <3> QED BY <1>1, <1>2, <3>1, <3>2
    <2> QED BY <1>4, <2>1 DEF Ends
  <1>13. b.mode # "pipelining" => Solo(z, q)
    <2> SUFFICES ASSUME b.mode # "pipelining" PROVE Solo(z, q)
      OBVIOUS
    <2>1. Len(s) <= 2 /\ Len(q) <= 1
      BY <1>4 DEF Solo
    <2>2. Len(z) = 0 /\ Len(z) <= 2
      BY <1>1, <1>2, <2>1
    <2> QED BY <1>2, <2>1, <2>2 DEF Solo
  <1>14. Line(b, c, z, l)
    BY <1>3, <1>4, <1>8, <1>9, <1>10, <1>12, <1>13 DEF Line, q
  <1>15. Ours(z, q) \subseteq Ours(s, q) /\ a.rid \in Ours(s, q)
    BY <1>1, <1>3, <1>21 DEF Ours
  <1>16. Ours(s, q) \subseteq Ours(z, q) \cup {a.rid}
    <2>1. ASSUME NEW i \in DOMAIN s PROVE s[i].answer.rid \in Ours(z, q) \cup {a.rid}
      <3>1. CASE i \in {1, 2}
        BY <1>5, <1>21, <3>1
      <3>2. CASE i \notin {1, 2}
        <4>1. i - 2 \in DOMAIN z /\ (i - 2) + 2 = i
          BY <1>1, <1>2, <3>2
        <4>2. z[i - 2] = s[i]
          BY <1>3, <4>1
        <4> QED BY <4>1, <4>2 DEF Ours
      <3> QED BY <3>1, <3>2
    <2> QED BY <2>1 DEF Ours
  <1>17. AgeAt(b.rid, a.rid) < b.open
    BY <1>1, <1>4, <1>21 DEF Counted
  <1>18. \A r \in Ours(z, q) : Older(b, a.rid, r)
    BY <1>6, <1>7 DEF Ours
  <1> QED BY <1>1, <1>2, <1>5, <1>21, <1>11, <1>14, <1>15, <1>16, <1>17, <1>18 DEF q, Leaves

-----------------------------------------------------------------------------
(* The lists of connections. *)

\* One element after a sequence.
LEMMA OneMore ==
  ASSUME NEW S, NEW s \in Seq(S), NEW x \in S
  PROVE  /\ Append(s, x) \in Seq(S) /\ Len(s) \in Nat /\ Len(Append(s, x)) = Len(s) + 1
         /\ DOMAIN s = 1..Len(s) /\ DOMAIN Append(s, x) = 1..(Len(s) + 1)
         /\ \A i \in DOMAIN s : Append(s, x)[i] = s[i]
         /\ Append(s, x)[Len(s) + 1] = x
PROOF
  OBVIOUS

\* The first of one list becomes the last of the other, or of the same.
LEMMA FirstMoves ==
  ASSUME NEW a \in Seq(Conns), NEW p \in Seq(Conns), p # <<>>
  PROVE  /\ p[1] \in Conns
         /\ Append(a, p[1]) \in Seq(Conns) /\ Tail(p) \in Seq(Conns)
         /\ Append(Tail(p), p[1]) \in Seq(Conns)
         /\ Apart(a, p) => /\ Apart(Append(a, p[1]), Tail(p))
                           /\ Apart(a, Append(Tail(p), p[1]))
PROOF
  <1> DEFINE x == p[1]
             t == Tail(p)
             u == Append(a, x)
             v == Append(t, x)
  <1>1. /\ DOMAIN p = 1..Len(p) /\ Len(p) \in Nat /\ Len(p) >= 1 /\ 1 \in DOMAIN p
        /\ t \in Seq(Conns) /\ DOMAIN t = 1..(Len(p) - 1) /\ Len(t) = Len(p) - 1
        /\ \A i \in DOMAIN t : i + 1 \in DOMAIN p /\ t[i] = p[i + 1] /\ 1 < i + 1
    BY Rest
  <1>2. x \in Conns /\ \A i \in DOMAIN p : p[i] \in Nat
    BY <1>1, ConstantsAssumption DEF Conns
  <1> HIDE DEF x, t
  <1>3. /\ u \in Seq(Conns) /\ Len(u) = Len(a) + 1 /\ DOMAIN u = 1..(Len(a) + 1)
        /\ Len(a) \in Nat /\ DOMAIN a = 1..Len(a)
        /\ \A i \in DOMAIN a : u[i] = a[i]
        /\ u[Len(a) + 1] = x
    BY <1>2, OneMore
  <1>4. /\ v \in Seq(Conns) /\ Len(v) = Len(p) /\ DOMAIN v = 1..Len(p)
        /\ \A i \in DOMAIN t : v[i] = t[i]
        /\ v[Len(p)] = x
    <2>0. t \in Seq(Conns) /\ x \in Conns
      BY <1>1, <1>2
    <2>1. /\ v \in Seq(Conns) /\ Len(v) = Len(t) + 1 /\ DOMAIN v = 1..(Len(t) + 1)
          /\ \A i \in DOMAIN t : v[i] = t[i]
          /\ v[Len(t) + 1] = x
      BY <2>0, OneMore
    <2>2. Len(t) + 1 = Len(p)
      BY <1>1
    <2> QED BY <2>1, <2>2
  <1> HIDE DEF u, v
  <1>5. ASSUME Apart(a, p) PROVE Apart(u, t)
    <2>1. /\ \A i, j \in DOMAIN a : a[i] = a[j] => i = j
          /\ \A i, j \in DOMAIN p : p[i] = p[j] => i = j
          /\ \A i \in DOMAIN a, j \in DOMAIN p : a[i] # p[j]
          /\ \A i \in DOMAIN a : a[i] <= Len(a) + Len(p)
          /\ \A i \in DOMAIN p : p[i] <= Len(a) + Len(p)
      BY <1>5 DEF Apart
    <2>2. \A i \in DOMAIN u : \/ i \in DOMAIN a /\ u[i] = a[i]
                              \/ i = Len(a) + 1 /\ u[i] = p[1]
      BY <1>3 DEF x
    <2>3. \A i, j \in DOMAIN u : u[i] = u[j] => i = j
      BY <1>1, <2>1, <2>2
    <2>4. \A i, j \in DOMAIN t : t[i] = t[j] => i = j
      <3> SUFFICES ASSUME NEW i \in DOMAIN t, NEW j \in DOMAIN t, t[i] = t[j] PROVE i = j
        OBVIOUS
      <3>1. i + 1 = j + 1
        BY <1>1, <2>1
      <3> QED BY <1>1, <3>1
    <2>5. \A i \in DOMAIN u, j \in DOMAIN t : u[i] # t[j]
      <3> SUFFICES ASSUME NEW i \in DOMAIN u, NEW j \in DOMAIN t PROVE u[i] # t[j]
        OBVIOUS
      <3>1. t[j] = p[j + 1] /\ j + 1 \in DOMAIN p /\ j + 1 # 1
        BY <1>1
      <3> QED BY <1>1, <2>1, <2>2, <3>1
    <2>6. Len(u) + Len(t) = Len(a) + Len(p)
      BY <1>1, <1>3
    <2>7. /\ \A i \in DOMAIN u : u[i] <= Len(a) + Len(p)
          /\ \A i \in DOMAIN t : t[i] <= Len(a) + Len(p)
      BY <1>1, <2>1, <2>2
    <2> QED BY <2>3, <2>4, <2>5, <2>6, <2>7 DEF Apart
  <1>6. ASSUME Apart(a, p) PROVE Apart(a, v)
    <2>1. /\ \A i, j \in DOMAIN a : a[i] = a[j] => i = j
          /\ \A i, j \in DOMAIN p : p[i] = p[j] => i = j
          /\ \A i \in DOMAIN a, j \in DOMAIN p : a[i] # p[j]
          /\ \A i \in DOMAIN a : a[i] <= Len(a) + Len(p)
          /\ \A i \in DOMAIN p : p[i] <= Len(a) + Len(p)
      BY <1>6 DEF Apart
    <2>2. \A i \in DOMAIN v : \/ i + 1 \in DOMAIN p /\ v[i] = p[i + 1] /\ i + 1 # 1
                              \/ i = Len(p) /\ v[i] = p[1]
      BY <1>1, <1>4 DEF x
    <2>3. \A i, j \in DOMAIN v : v[i] = v[j] => i = j
      <3> SUFFICES ASSUME NEW i \in DOMAIN v, NEW j \in DOMAIN v, v[i] = v[j] PROVE i = j
        OBVIOUS
      <3>1. \/ i = Len(p) /\ j = Len(p)
            \/ i + 1 = j + 1
        BY <1>1, <2>1, <2>2
      <3> QED BY <1>4, <3>1
    <2>4. \A i \in DOMAIN a, j \in DOMAIN v : a[i] # v[j]
      BY <1>1, <2>1, <2>2
    <2>5. \A i \in DOMAIN v : v[i] <= Len(a) + Len(p)
      BY <1>1, <2>1, <2>2
    <2> QED BY <1>4, <2>1, <2>3, <2>4, <2>5 DEF Apart
  <1> QED BY <1>1, <1>2, <1>3, <1>4, <1>5, <1>6 DEF x, t, u, v

\* The lists are a pair, in whatever order.
LEMMA OtherWay ==
  ASSUME NEW a \in Seq(Conns), NEW p \in Seq(Conns), Apart(a, p)
  PROVE  Apart(p, a)
PROOF
  <1>1. Len(a) + Len(p) = Len(p) + Len(a)
    OBVIOUS
  <1> QED BY <1>1 DEF Apart

\* A new connection is added when the pool is empty.
LEMMA NewConnection ==
  ASSUME NEW a \in Seq(Conns), Apart(a, <<>>), Len(a) + 1 \in Conns
  PROVE  <<Len(a) + 1>> \in Seq(Conns) /\ Apart(a, <<Len(a) + 1>>)
         /\ \A i \in DOMAIN a : a[i] # Len(a) + 1
PROOF
  <1>1. Len(a) \in Nat /\ \A i \in DOMAIN a : a[i] \in Nat
    BY ConstantsAssumption DEF Conns
  <1>2. \A i \in DOMAIN a : a[i] <= Len(a)
    BY <1>1 DEF Apart
  <1> DEFINE p == <<Len(a) + 1>>
  <1>3. p \in Seq(Conns) /\ DOMAIN p = {1} /\ p[1] = Len(a) + 1 /\ Len(p) = 1
    OBVIOUS
  <1> HIDE DEF p
  <1>4. \A i \in DOMAIN a : a[i] # Len(a) + 1 /\ a[i] <= Len(a) + Len(p)
    BY <1>1, <1>2, <1>3
  <1>5. Apart(a, p)
    BY <1>1, <1>3, <1>4 DEF Apart
  <1> QED BY <1>3, <1>4, <1>5 DEF p

-----------------------------------------------------------------------------
(* The operators on worlds. *)

\* A new connection that was opened.
Opened == [up |-> TRUE, eof |-> FALSE, requests |-> <<>>, pieces |-> <<>>]

\* No connection.
AllDown == [c \in Conns |-> Down]

\* What a change of one member leaves alone: the state.
LEMMA StateSet ==
  ASSUME NEW b \in Members, NEW x \in {"disconnected", "connecting", "connected"},
         NEW d, d = [b EXCEPT !.state = x]
  PROVE  /\ d \in Members /\ d.state = x /\ d.mode = b.mode /\ d.rid = b.rid
         /\ d.open = b.open /\ d.limit = b.limit /\ d.restart = b.restart
         /\ d.sendBuffer = b.sendBuffer
         /\ d.active = b.active /\ d.pool = b.pool
PROOF
  BY DEF Members

\* The mode.
LEMMA ModeSet ==
  ASSUME NEW b \in Members, NEW x \in {"pipelining", "persistent", "legacy"},
         NEW d, d = [b EXCEPT !.mode = x]
  PROVE  /\ d \in Members /\ d.state = b.state /\ d.mode = x /\ d.rid = b.rid
         /\ d.open = b.open /\ d.limit = b.limit /\ d.restart = b.restart
         /\ d.sendBuffer = b.sendBuffer
         /\ d.active = b.active /\ d.pool = b.pool
PROOF
  BY DEF Members

\* The request id.
LEMMA RidSet ==
  ASSUME NEW b \in Members, NEW x \in Rids,
         NEW d, d = [b EXCEPT !.rid = x]
  PROVE  /\ d \in Members /\ d.state = b.state /\ d.mode = b.mode /\ d.rid = x
         /\ d.open = b.open /\ d.limit = b.limit /\ d.restart = b.restart
         /\ d.sendBuffer = b.sendBuffer
         /\ d.active = b.active /\ d.pool = b.pool
PROOF
  BY DEF Members

\* The number of open requests.
LEMMA OpenSet ==
  ASSUME NEW b \in Members, NEW x \in 0..2,
         NEW d, d = [b EXCEPT !.open = x]
  PROVE  /\ d \in Members /\ d.state = b.state /\ d.mode = b.mode /\ d.rid = b.rid
         /\ d.open = x /\ d.limit = b.limit /\ d.restart = b.restart /\ d.sendBuffer = b.sendBuffer
         /\ d.active = b.active /\ d.pool = b.pool
PROOF
  BY DEF Members

\* The limit on them.
LEMMA LimitSet ==
  ASSUME NEW b \in Members, NEW x \in 0..2,
         NEW d, d = [b EXCEPT !.limit = x]
  PROVE  /\ d \in Members /\ d.state = b.state /\ d.mode = b.mode /\ d.rid = b.rid
         /\ d.open = b.open /\ d.limit = x /\ d.restart = b.restart /\ d.sendBuffer = b.sendBuffer
         /\ d.active = b.active /\ d.pool = b.pool
PROOF
  BY DEF Members

\* The pending restart.
LEMMA RestartSet ==
  ASSUME NEW b \in Members, NEW x \in BOOLEAN,
         NEW d, d = [b EXCEPT !.restart = x]
  PROVE  /\ d \in Members /\ d.state = b.state /\ d.mode = b.mode /\ d.rid = b.rid
         /\ d.open = b.open /\ d.limit = b.limit /\ d.restart = x /\ d.sendBuffer = b.sendBuffer
         /\ d.active = b.active /\ d.pool = b.pool
PROOF
  BY DEF Members

\* The buffer.
LEMMA BufferSet ==
  ASSUME NEW b \in Members, NEW x \in Seq(1..MaxStanzas),
         NEW d, d = [b EXCEPT !.sendBuffer = x]
  PROVE  /\ d \in Members /\ d.state = b.state /\ d.mode = b.mode /\ d.rid = b.rid
         /\ d.open = b.open /\ d.limit = b.limit /\ d.restart = b.restart /\ d.sendBuffer = x
         /\ d.active = b.active /\ d.pool = b.pool
PROOF
  BY DEF Members

\* The two lists of connections.
LEMMA ListsSet ==
  ASSUME NEW b \in Members, NEW x \in Seq(Conns), NEW y \in Seq(Conns),
         NEW d, d = [b EXCEPT !.pool = x, !.active = y]
  PROVE  /\ d \in Members /\ d.state = b.state /\ d.mode = b.mode /\ d.rid = b.rid
         /\ d.open = b.open /\ d.limit = b.limit /\ d.restart = b.restart
         /\ d.sendBuffer = b.sendBuffer
         /\ d.active = y /\ d.pool = x
PROOF
  BY DEF Members

\* The pool alone.
LEMMA PoolSet ==
  ASSUME NEW b \in Members, NEW x \in Seq(Conns),
         NEW d, d = [b EXCEPT !.pool = x]
  PROVE  /\ d \in Members /\ d.state = b.state /\ d.mode = b.mode /\ d.rid = b.rid
         /\ d.open = b.open /\ d.limit = b.limit /\ d.restart = b.restart
         /\ d.sendBuffer = b.sendBuffer
         /\ d.active = b.active /\ d.pool = x
PROOF
  BY DEF Members

\* A world is three records.
LEMMA Parts ==
  /\ \A w \in Worlds : /\ w.bosh \in Members /\ w.link \in Links /\ w.client \in Clients
                        /\ w = [bosh |-> w.bosh, link |-> w.link, client |-> w.client]
                        /\ \A c \in Conns : w.link[c] \in Link
  /\ \A b \in Members, l \in Links, k \in Clients :
       [bosh |-> b, link |-> l, client |-> k] \in Worlds
  /\ \A l \in Links, c \in Conns, m \in Link :
       [l EXCEPT ![c] = m] \in Links
  /\ {Down, Opened} \subseteq Link /\ AllDown \in Links
  /\ [Down EXCEPT !.up = TRUE] = Opened
PROOF
  <1>1. <<>> \in Seq(Requested) /\ <<>> \in Seq(Piece)
    OBVIOUS
  <1>2. Down \in Link
    BY <1>1 DEF Down, Link
  <1>3. [Down EXCEPT !.up = TRUE] = Opened
    <2> DEFINE yes == TRUE
               no == FALSE
    <2>1. Down = [up |-> no, eof |-> no, requests |-> <<>>, pieces |-> <<>>]
      BY DEF Down
    <2> HIDE DEF yes, no
    <2>2. [Down EXCEPT !.up = yes] = [up |-> yes, eof |-> no, requests |-> <<>>, pieces |-> <<>>]
      BY <2>1
    <2> QED BY <2>2 DEF Opened, yes, no
  <1>4. Opened \in Link
    BY <1>1 DEF Link, Opened
  <1>5. Links = [Conns -> Link]
    BY DEF Links, Link
  <1> QED BY <1>2, <1>3, <1>4, <1>5 DEF Worlds, AllDown

\* The end of the session.
LEMMA Tells ==
  ASSUME NEW w \in Worlds, NEW v, v = Tell(w)
  PROVE  /\ v \in Worlds /\ v.link = AllDown
         /\ v.bosh = [w.bosh EXCEPT !.state = "disconnected"]
         /\ v.client = [w.client EXCEPT !.told = TRUE]
         /\ v.bosh.state = "disconnected" /\ v.client.told
         /\ v.bosh.active = w.bosh.active /\ v.bosh.pool = w.bosh.pool
         /\ v.bosh.open = w.bosh.open /\ v.client.begun = w.client.begun
PROOF
  <1> DEFINE d == [w.bosh EXCEPT !.state = "disconnected"]
             yes == TRUE
             k == [w.client EXCEPT !.told = yes]
             u == Cleanup(w)
  <1>0. /\ w = [bosh |-> w.bosh, link |-> w.link, client |-> w.client]
        /\ w.bosh \in Members /\ w.client \in Clients
    BY Parts
  <1>1. u = [w EXCEPT !.bosh.state = "disconnected", !.link = AllDown]
    BY DEF Cleanup, AllDown
  <1>2. v = [u EXCEPT !.client.told = yes]
    BY DEF Tell
  <1> HIDE DEF u, yes
  <1>3. u = [bosh |-> d, link |-> AllDown, client |-> w.client]
    BY <1>0, <1>1
  <1>7. v = [bosh |-> d, link |-> AllDown, client |-> k]
    BY <1>2, <1>3
  <1>4. d \in Members /\ d.state = "disconnected" /\ d.active = w.bosh.active
        /\ d.pool = w.bosh.pool /\ d.open = w.bosh.open
    BY <1>0, StateSet
  <1>5. k \in Clients /\ k.told = yes /\ k.begun = w.client.begun
    <2>1. yes \in BOOLEAN
      BY DEF yes
    <2> QED BY <1>0, <2>1 DEF Clients
  <1> HIDE DEF d, k
  <1>6. v \in Worlds /\ v.bosh = d /\ v.link = AllDown /\ v.client = k
    BY <1>4, <1>5, <1>7, Parts
  <1> QED BY <1>4, <1>5, <1>6 DEF d, k, yes

\* What a request does not change.
Alike(b, d) ==
  /\ d.state = b.state /\ d.rid = b.rid /\ d.limit = b.limit
  /\ d.restart = b.restart /\ d.sendBuffer = b.sendBuffer

\* A pipeline that is lost is given up.
Fallback(mode) == IF mode = "pipelining" THEN "legacy" ELSE mode

\* A transport connection is lost.
LEMMA Disconnects ==
  ASSUME NEW w \in Worlds, NEW v, v = HandleDisconnect(w)
  PROVE  /\ v \in Worlds
         /\ v.bosh.active = w.bosh.active /\ v.bosh.pool = w.bosh.pool
         /\ v.bosh.open = w.bosh.open /\ v.client.begun = w.client.begun
         /\ w.bosh.state = "connecting" => v = Tell(w)
         /\ w.bosh.state # "connecting" =>
              /\ v.link = w.link /\ v.client = w.client
              /\ Alike(w.bosh, v.bosh) /\ v.bosh.mode = Fallback(w.bosh.mode)
PROOF
  <1>1. CASE w.bosh.state = "connecting"
    <2>1. v = Tell(w)
      BY <1>1 DEF HandleDisconnect
    <2> QED BY ZenonT(60), <1>1, <2>1, Tells
  <1>2. CASE w.bosh.state # "connecting"
    <2> DEFINE mode == Fallback(w.bosh.mode)
               d == [w.bosh EXCEPT !.mode = mode]
    <2>0. w = [bosh |-> w.bosh, link |-> w.link, client |-> w.client] /\ w.bosh \in Members
      BY Parts
    <2>1. v = [bosh |-> d, link |-> w.link, client |-> w.client]
      BY <1>2, <2>0 DEF HandleDisconnect, Fallback
    <2>2. mode \in {"pipelining", "persistent", "legacy"}
      BY <2>0 DEF Members, Fallback
    <2> HIDE DEF mode
    <2>3. /\ d \in Members /\ d.active = w.bosh.active /\ d.pool = w.bosh.pool
          /\ d.open = w.bosh.open /\ Alike(w.bosh, d) /\ d.mode = mode
      BY <2>0, <2>2, ModeSet DEF Alike
    <2> HIDE DEF d
    <2>4. v \in Worlds /\ v.bosh = d /\ v.link = w.link /\ v.client = w.client
      BY <2>1, <2>3, Parts
    <2> QED BY <1>2, <2>3, <2>4 DEF mode
  <1> QED BY <1>1, <1>2

\* A request is sent on connection c.
Carried(w, v, r, c) ==
  /\ w.link[c].up
  /\ Alike(w.bosh, v.bosh) /\ v.bosh.mode = w.bosh.mode /\ v.bosh.open = w.bosh.open + 1
  /\ v.client.sent = w.client.sent /\ v.client.told = w.client.told
  /\ v.client.carried = w.client.carried \o r.stanzas
  /\ \A x \in Conns : x # c => v.link[x] = w.link[x]
  /\ w.link[c].eof => v.link[c] = w.link[c]
  /\ ~w.link[c].eof =>
       v.link[c] = [w.link[c] EXCEPT !.requests = Append(w.link[c].requests, r)]

\* Nothing was sent, and the connection may have been found lost.
Idle(w, v) ==
  /\ v.link = w.link /\ v.client = w.client
  /\ Alike(w.bosh, v.bosh) /\ v.bosh.open = w.bosh.open
  /\ v.bosh.active = w.bosh.active /\ v.bosh.pool = w.bosh.pool
  /\ v.bosh.mode \in {w.bosh.mode, Fallback(w.bosh.mode)}

\* What conn->send() does.
LEMMA Transmits ==
  ASSUME NEW w \in Worlds, NEW c \in Conns, NEW r \in Requested, NEW lucky \in BOOLEAN,
         w.bosh.open <= 1, NEW try, try = Transmit(w, c, r, lucky)
  PROVE  /\ try.w \in Worlds
         /\ try.w.bosh.active = w.bosh.active /\ try.w.bosh.pool = w.bosh.pool
         /\ try.w.bosh.open >= w.bosh.open /\ try.w.client.begun = w.client.begun
         /\ try.sent \in BOOLEAN
         /\ try.sent => Carried(w, try.w, r, c)
         /\ ~try.sent /\ w.bosh.state # "connecting" => Idle(w, try.w)
PROOF
  <1> DEFINE to == w.link[c]
  <1>0. /\ w.bosh \in Members /\ w.link \in Links /\ w.client \in Clients /\ to \in Link
        /\ to.eof \in BOOLEAN /\ to.up \in BOOLEAN /\ w.bosh.open \in 0..2
        /\ w = [bosh |-> w.bosh, link |-> w.link, client |-> w.client]
    BY Parts DEF Link, Members
  <1>1. CASE to.up /\ (lucky \/ ~to.eof)
    <2> DEFINE more == w.bosh.open + 1
               d == [w.bosh EXCEPT !.open = more]
               k == [w.client EXCEPT
                       !.carried = w.client.carried \o r.stanzas,
                       !.restarted = IF r.kind = "restart" THEN w.client.restarted + 1
                                     ELSE w.client.restarted]
               m == IF to.eof THEN to ELSE [to EXCEPT !.requests = Append(to.requests, r)]
               l == [w.link EXCEPT ![c] = m]
    <2>1. try.sent = TRUE
      BY <1>1 DEF Transmit
    <2>2. try.w = [w EXCEPT
             !.bosh.open = @ + 1,
             !.client.carried = @ \o r.stanzas,
             !.client.restarted = IF r.kind = "restart" THEN @ + 1 ELSE @,
             !.link[c].requests = IF to.eof THEN @ ELSE Append(@, r)]
      BY <1>1 DEF Transmit
    <2>3. [w.link EXCEPT ![c].requests = IF to.eof THEN @ ELSE Append(@, r)] = l
      <3>1. CASE to.eof
        <4>1. m = to /\ w.link \in [Conns -> Link]
          BY <1>0, <3>1 DEF Links, Link
        <4>2. [to EXCEPT !.requests = to.requests] = to
          BY <1>0 DEF Link
        <4> QED BY <3>1, <4>1, <4>2
      <3>2. CASE ~to.eof
        BY <3>2
      <3> QED BY <3>1, <3>2
    <2>4. try.w = [bosh |-> d, link |-> l, client |-> k]
      BY <1>0, <2>2, <2>3
    <2>5. more \in 0..2
      BY <1>0
    <2>6. /\ d \in Members /\ d.active = w.bosh.active /\ d.pool = w.bosh.pool
          /\ d.open >= w.bosh.open /\ d.open = w.bosh.open + 1
          /\ Alike(w.bosh, d) /\ d.mode = w.bosh.mode
      <3> HIDE DEF more
      <3>1. /\ d \in Members /\ d.active = w.bosh.active /\ d.pool = w.bosh.pool /\ d.open = more
            /\ Alike(w.bosh, d) /\ d.mode = w.bosh.mode
        BY <1>0, <2>5, OpenSet DEF Alike
      <3> QED BY <1>0, <3>1 DEF more
    <2>7. r.stanzas \in Seq(1..MaxStanzas)
      BY DEF Requested
    <2>8. /\ k \in Clients /\ k.begun = w.client.begun /\ k.sent = w.client.sent
          /\ k.told = w.client.told /\ k.carried = w.client.carried \o r.stanzas
      <3>1. /\ w.client.carried \o r.stanzas \in Seq(1..MaxStanzas)
            /\ (IF r.kind = "restart" THEN w.client.restarted + 1
                ELSE w.client.restarted) \in Nat
        BY <1>0, <2>7 DEF Clients
      <3> QED BY <1>0, <3>1 DEF Clients
    <2>9. m \in Link
      <3>1. CASE to.eof
        BY <1>0, <3>1
      <3>2. CASE ~to.eof
        <4>1. Append(to.requests, r) \in Seq(Requested)
          BY <1>0 DEF Link
        <4>2. m = [to EXCEPT !.requests = Append(to.requests, r)]
          BY <3>2
        <4> HIDE DEF m
        <4> QED BY <1>0, <4>1, <4>2 DEF Link
      <3> QED BY <3>1, <3>2
    <2>13. (to.eof => m = to) /\ (~to.eof => m = [to EXCEPT !.requests = Append(to.requests, r)])
      OBVIOUS
    <2> HIDE DEF m, d, k
    <2>10. l \in Links /\ l[c] = m /\ \A x \in Conns : x # c => l[x] = w.link[x]
      BY <1>0, <2>9, Parts DEF Links
    <2> HIDE DEF l
    <2>11. try.w \in Worlds /\ try.w.bosh = d /\ try.w.link = l /\ try.w.client = k
      BY <2>4, <2>6, <2>8, <2>10, Parts
    <2>12. Carried(w, try.w, r, c)
      BY <1>1, <2>6, <2>8, <2>10, <2>11, <2>13 DEF Carried
    <2> QED BY <2>1, <2>6, <2>8, <2>11, <2>12
  <1>2. CASE ~(to.up /\ (lucky \/ ~to.eof))
    <2>1. try.sent = FALSE
      BY <1>2 DEF Transmit, Failed
    <2>2. try.w = IF to.up THEN HandleDisconnect(w) ELSE w
      BY <1>2 DEF Transmit, Failed
    <2>3. ~try.sent /\ try.sent \in BOOLEAN
      BY <2>1
    <2>4. /\ try.w \in Worlds
          /\ try.w.bosh.active = w.bosh.active /\ try.w.bosh.pool = w.bosh.pool
          /\ try.w.bosh.open = w.bosh.open /\ try.w.client.begun = w.client.begun
          /\ w.bosh.state # "connecting" => Idle(w, try.w)
      <3>1. CASE to.up
        <4>1. try.w = HandleDisconnect(w)
          BY <2>2, <3>1
        <4> QED BY <4>1, Disconnects DEF Idle
      <3>2. CASE ~to.up
        <4>1. try.w = w
          BY <2>2, <3>2
        <4> QED BY <4>1 DEF Idle, Alike
      <3> QED BY <3>1, <3>2
    <2>5. try.w.bosh.open >= w.bosh.open
      BY <1>0, <2>4
    <2> QED BY <2>3, <2>4, <2>5
  <1> QED BY <1>1, <1>2

\* What holds of v that comes of w, whatever happened.
Onward(w, v) ==
  /\ v \in Worlds /\ Placed(v.bosh)
  /\ v.bosh.open >= w.bosh.open /\ v.client.begun = w.client.begun
  /\ w.bosh.active # <<>> => v.bosh.active # <<>>

\* The first of the pool becomes active.
LEMMA Activates ==
  ASSUME NEW w \in Worlds, Placed(w.bosh), w.bosh.pool # <<>>, NEW c, c = w.bosh.pool[1],
         NEW v, v = Activate(w, c)
  PROVE  /\ Onward(w, v) /\ v.bosh.active # <<>> /\ c \in Conns
         /\ v.bosh.active = Append(w.bosh.active, c) /\ v.bosh.pool = Tail(w.bosh.pool)
         /\ Alike(w.bosh, v.bosh) /\ v.bosh.open = w.bosh.open /\ v.bosh.mode = w.bosh.mode
         /\ v.link = w.link /\ v.client = w.client
PROOF
  <1> DEFINE a == Append(w.bosh.active, c)
             p == Tail(w.bosh.pool)
             d == [w.bosh EXCEPT !.pool = p, !.active = a]
  <1>1. /\ w = [bosh |-> w.bosh, link |-> w.link, client |-> w.client]
        /\ w.bosh \in Members /\ w.link \in Links /\ w.client \in Clients
    BY Parts
  <1>2. /\ w.bosh.active \in Seq(Conns) /\ w.bosh.pool \in Seq(Conns)
        /\ w.bosh.open \in 0..2
    BY <1>1 DEF Members
  <1>3. c \in Conns /\ a \in Seq(Conns) /\ p \in Seq(Conns) /\ Apart(a, p)
    BY <1>2, FirstMoves DEF Placed
  <1>4. a # <<>>
    <2>1. Len(a) = Len(w.bosh.active) + 1 /\ Len(w.bosh.active) \in Nat
      BY <1>2, <1>3, OneMore
    <2> HIDE DEF a
    <2> QED BY <1>3, <2>1
  <1>5. v = [bosh |-> d, link |-> w.link, client |-> w.client]
    BY <1>1 DEF Activate
  <1> HIDE DEF a, p
  <1>6. /\ d \in Members /\ d.active = a /\ d.pool = p /\ d.open = w.bosh.open
        /\ Alike(w.bosh, d) /\ d.mode = w.bosh.mode
    <2>1. w.bosh \in Members /\ a \in Seq(Conns) /\ p \in Seq(Conns)
      BY <1>1, <1>3
    <2>2. d = [w.bosh EXCEPT !.pool = p, !.active = a]
      OBVIOUS
    <2> HIDE DEF d
    <2> QED BY <2>1, <2>2 DEF Members, Alike
  <1> HIDE DEF d
  <1>7. v \in Worlds /\ v.bosh = d /\ v.link = w.link /\ v.client = w.client
    BY <1>1, <1>5, <1>6, Parts
  <1>8. Placed(v.bosh) /\ v.bosh.active = a /\ v.bosh.pool = p
    BY <1>3, <1>6, <1>7 DEF Placed
  <1>9. v.bosh.open >= w.bosh.open /\ v.client.begun = w.client.begun
    BY <1>2, <1>6, <1>7
  <1>10. Onward(w, v)
    BY <1>4, <1>7, <1>8, <1>9 DEF Onward
  <1> QED BY <1>3, <1>4, <1>6, <1>7, <1>8, <1>10 DEF a, p

\* A connection of the pool is connected.
LEMMA HandleConnects ==
  ASSUME NEW w \in Worlds, Placed(w.bosh), w.bosh.pool # <<>>, NEW c, c = w.bosh.pool[1],
         NEW v, v = HandleConnect(w, c)
  PROVE  /\ Onward(w, v)
         /\ w.bosh.state # "connecting" => v = w
PROOF
  <1> DEFINE d == [w.bosh EXCEPT !.rid = 0]
             new == [w EXCEPT !.bosh.rid = 0]
  <1>1. /\ w = [bosh |-> w.bosh, link |-> w.link, client |-> w.client]
        /\ w.bosh \in Members /\ w.link \in Links /\ w.client \in Clients
        /\ w.bosh.open \in 0..2 /\ w.bosh.limit \in 0..2
    BY Parts DEF Members
  <1>2. 0 \in Rids
    BY ConstantsAssumption DEF Rids
  <1>3. /\ d \in Members /\ d.active = w.bosh.active /\ d.pool = w.bosh.pool
        /\ d.open = w.bosh.open /\ d.state = w.bosh.state /\ d.mode = w.bosh.mode
        /\ d.limit = w.bosh.limit
    BY <1>1, <1>2, RidSet
  <1>4. new = [bosh |-> d, link |-> w.link, client |-> w.client]
    BY <1>1
  <1>5. CASE w.bosh.state # "connecting"
    <2>1. v = w
      BY <1>5 DEF HandleConnect
    <2> QED BY <1>1, <1>5, <2>1 DEF Onward
  <1>6. CASE w.bosh.state = "connecting" /\ Full(new.bosh)
    <2>1. v = new
      BY <1>6 DEF HandleConnect
    <2> HIDE DEF d, new
    <2>2. v \in Worlds /\ v.bosh = d /\ v.client = w.client
      BY <1>1, <1>3, <1>4, <2>1, Parts
    <2> QED BY <1>1, <1>3, <1>6, <2>2 DEF Onward, Placed
  <1>7. CASE w.bosh.state = "connecting" /\ ~Full(new.bosh)
    <2> DEFINE u == Activate(new, c)
               r == Request(new.bosh, "session", 0, <<>>)
               yes == TRUE
               try == Transmit(u, c, r, yes)
    <2>1. v = try.w /\ yes \in BOOLEAN
      BY <1>7 DEF HandleConnect
    <2>2. r \in Requested
      <3>1. <<>> \in Seq(1..MaxStanzas)
        OBVIOUS
      <3> QED BY <1>2, <3>1 DEF Request, Requested, Kinds
    <2> HIDE DEF d, new, r
    <2>3. new \in Worlds /\ new.bosh = d /\ new.client = w.client
      BY <1>1, <1>3, <1>4, Parts
    <2>4. Placed(new.bosh) /\ new.bosh.pool # <<>> /\ c = new.bosh.pool[1]
      BY <1>3, <2>3 DEF Placed
    <2>5. new.bosh.open <= 1
      BY <1>1, <1>3, <1>7, <2>3 DEF Full
    <2>6. /\ Onward(new, u) /\ u.bosh.active # <<>> /\ c \in Conns
          /\ u.bosh.open = new.bosh.open
      <3>1. u = Activate(new, c)
        OBVIOUS
      <3> HIDE DEF u
      <3>2. new \in Worlds /\ Placed(new.bosh) /\ new.bosh.pool # <<>> /\ c = new.bosh.pool[1]
        BY <2>3, <2>4
      <3> QED BY <3>1, <3>2, Activates
    <2> HIDE DEF u, yes
    <2>7. /\ try.w \in Worlds
          /\ try.w.bosh.active = u.bosh.active /\ try.w.bosh.pool = u.bosh.pool
          /\ try.w.bosh.open >= u.bosh.open /\ try.w.client.begun = u.client.begun
      <3>1. u \in Worlds /\ u.bosh.open <= 1
        BY <2>5, <2>6 DEF Onward
      <3>2. try = Transmit(u, c, r, yes)
        OBVIOUS
      <3>3. c \in Conns
        BY <2>6
      <3> HIDE DEF try
      <3> QED BY <2>1, <2>2, <3>1, <3>2, <3>3, Transmits
    <2> HIDE DEF try
    <2> QED BY <1>3, <1>7, <2>1, <2>3, <2>6, <2>7 DEF Onward, Placed
  <1> QED BY <1>5, <1>6, <1>7

\* conn->connect() on the only connection of the pool, or after the session began.
LEMMA Opens ==
  ASSUME NEW w \in Worlds, Placed(w.bosh), NEW c \in Conns,
         w.bosh.state # "connecting" \/ (w.bosh.pool # <<>> /\ c = w.bosh.pool[1]),
         NEW lucky \in BOOLEAN, NEW v, v = Open(w, c, lucky)
  PROVE  /\ Onward(w, v)
         /\ w.bosh.state # "connecting" =>
              \/ Idle(w, v)
              \/ /\ v.bosh = w.bosh /\ v.client = w.client /\ v.link[c] = Opened
                 /\ \A x \in Conns : x # c => v.link[x] = w.link[x]
PROOF
  <1>1. /\ w = [bosh |-> w.bosh, link |-> w.link, client |-> w.client]
        /\ w.bosh \in Members /\ w.link \in Links /\ w.client \in Clients
        /\ w.bosh.open \in 0..2
    BY Parts DEF Members
  <1>2. CASE lucky \/ "refuse" \notin Faults
    <2> DEFINE l == [w.link EXCEPT ![c] = Opened]
               u == [w EXCEPT !.link[c] = Opened]
    <2>1. v = HandleConnect(u, c)
      BY <1>2, Parts DEF Open
    <2>2. u = [bosh |-> w.bosh, link |-> l, client |-> w.client]
      BY <1>1
    <2>3. l \in Links
      BY <1>1, Parts
    <2> HIDE DEF u, l
    <2>4. u \in Worlds /\ u.bosh = w.bosh /\ u.link = l /\ u.client = w.client
      BY <1>1, <2>2, <2>3, Parts
    <2>5. CASE w.bosh.state # "connecting"
      <3>1. v = u
        BY <2>1, <2>4, <2>5 DEF HandleConnect
      <3>2. l[c] = Opened /\ \A x \in Conns : x # c => l[x] = w.link[x]
        BY <1>1 DEF Links, l
      <3> QED BY <1>1, <2>4, <3>1, <3>2 DEF Onward
    <2>6. CASE w.bosh.state = "connecting"
      <3>1. Onward(u, v)
        BY <2>1, <2>4, <2>6, HandleConnects
      <3> QED BY <2>4, <2>6, <3>1 DEF Onward
    <2> QED BY <2>5, <2>6
  <1>3. CASE ~(lucky \/ "refuse" \notin Faults)
    <2>1. v = HandleDisconnect(w)
      BY <1>3 DEF Open
    <2> QED BY <1>1, <2>1, Disconnects DEF Onward, Idle, Placed
  <1> QED BY <1>2, <1>3

-----------------------------------------------------------------------------
(* sendRequest() and sendXML(). *)

\* The requests that are open are as many as the manager allows, or one.
Slots(b) ==
  /\ b.open <= 1 \/ b.open <= b.limit
  /\ b.state = "connecting" => b.open <= 1 /\ b.pool = <<>>
  /\ b.mode = "pipelining" => Len(b.active) = 1 /\ b.pool = <<>>

\* One connection c became active.
Grown(b, d, c) == d.active = Append(b.active, c) /\ ~Active(b, c)

\* Nothing was sent.
Withheld(w, v) ==
  /\ v.client = w.client
  /\ Alike(w.bosh, v.bosh) /\ v.bosh.open = w.bosh.open
  /\ v.bosh.mode \in {w.bosh.mode, Fallback(w.bosh.mode)}
  /\ v.bosh.mode = w.bosh.mode \/ w.bosh.open <= 1
  /\ IF w.bosh.mode = "pipelining"
     THEN v.bosh.active = w.bosh.active /\ v.bosh.pool = w.bosh.pool
     ELSE v.bosh.active = w.bosh.active \/ \E c \in Conns : Grown(w.bosh, v.bosh, c)
  /\ \A c \in Conns : \/ v.link[c] = w.link[c]
                      \/ v.link[c] = Opened /\ ~Active(w.bosh, c)

\* The request r was sent on connection c.
SentOn(w, v, r, c) ==
  /\ w.bosh.open <= 1 /\ (w.bosh.open = 0 \/ w.bosh.open < w.bosh.limit)
  /\ Carried(w, v, r, c)
  /\ IF w.bosh.mode = "pipelining"
     THEN v.bosh.active = w.bosh.active /\ v.bosh.pool = w.bosh.pool /\ c = w.bosh.active[1]
     ELSE Grown(w.bosh, v.bosh, c)

LEMMA Sends ==
  ASSUME NEW w \in Worlds, Placed(w.bosh), Slots(w.bosh), NEW r \in Requested,
         NEW lucky \in BOOLEAN, NEW try, try = SendRequest(w, r, lucky)
  PROVE  /\ Onward(w, try.w) /\ try.sent \in BOOLEAN
         /\ w.bosh.state # "connecting" =>
              IF try.sent THEN \E c \in Conns : SentOn(w, try.w, r, c) ELSE Withheld(w, try.w)
PROOF
  <1> DEFINE b == w.bosh
  <1>1. /\ w = [bosh |-> b, link |-> w.link, client |-> w.client]
        /\ b \in Members /\ w.link \in Links /\ w.client \in Clients
        /\ b.open \in 0..2 /\ b.limit \in 0..2
        /\ b.active \in Seq(Conns) /\ b.pool \in Seq(Conns)
    BY Parts DEF Members
  <1>2. Onward(w, w) /\ Withheld(w, w)
    BY <1>1 DEF Onward, Withheld, Alike
  <1>3. CASE Full(b)
    <2>1. try.w = w /\ try.sent = FALSE
      BY <1>3 DEF SendRequest, Failed
    <2> QED BY <1>2, <2>1
  <1>4. ASSUME ~Full(b) PROVE b.open <= 1 /\ (b.open = 0 \/ b.open < b.limit)
    BY <1>1, <1>4 DEF Full
  <1>5. CASE ~Full(b) /\ b.mode = "pipelining"
    <2> DEFINE c == b.active[1]
    <2>1. Len(b.active) = 1 /\ b.active # <<>> /\ c \in Conns
      <3>1. Len(b.active) = 1
        BY <1>5 DEF Slots
      <3>2. 1 \in DOMAIN b.active
        BY <1>1, <3>1
      <3> QED BY <1>1, <3>1, <3>2
    <2>2. try = Transmit(w, c, r, lucky)
      BY <1>5, <2>1 DEF SendRequest
    <2> HIDE DEF c
    <2>3. /\ try.w \in Worlds
          /\ try.w.bosh.active = b.active /\ try.w.bosh.pool = b.pool
          /\ try.w.bosh.open >= b.open /\ try.w.client.begun = w.client.begun
          /\ try.sent \in BOOLEAN
          /\ try.sent => Carried(w, try.w, r, c)
          /\ ~try.sent /\ b.state # "connecting" => Idle(w, try.w)
      BY <1>4, <1>5, <2>1, <2>2, Transmits
    <2>4. Onward(w, try.w)
      BY <2>1, <2>3 DEF Onward, Placed
    <2>5. try.sent => SentOn(w, try.w, r, c)
      BY <1>4, <1>5, <2>3 DEF SentOn, c
    <2>6. ~try.sent /\ b.state # "connecting" => Withheld(w, try.w)
      BY <1>4, <1>5, <2>3 DEF Idle, Withheld
    <2> QED BY <2>1, <2>3, <2>4, <2>5, <2>6
  <1>6. CASE ~Full(b) /\ b.mode # "pipelining" /\ b.pool = <<>>
    <2> DEFINE c == Len(b.active) + 1
               p == <<c>>
               u == [w EXCEPT !.bosh.pool = p]
    <2>1. try.sent = FALSE /\ try.w = IF b.active = <<>> THEN w ELSE OpenNew(w, lucky)
      BY <1>6 DEF SendRequest, Failed
    <2>2. CASE b.active = <<>> \/ c \notin Conns
      <3>1. try.w = w
        BY <2>1, <2>2 DEF OpenNew
      <3> QED BY <1>2, <2>1, <3>1
    <2>3. CASE b.active # <<>> /\ c \in Conns
      <3>1. try.w = Open(u, c, lucky)
        BY <2>1, <2>3 DEF OpenNew
      <3>2. p \in Seq(Conns) /\ Apart(b.active, p) /\ \A i \in DOMAIN b.active : b.active[i] # c
        BY <1>1, <1>6, <2>3, NewConnection DEF Placed
      <3>3. p # <<>> /\ p[1] = c
        OBVIOUS
      <3> DEFINE d == [b EXCEPT !.pool = p]
      <3>4. u = [bosh |-> d, link |-> w.link, client |-> w.client]
        BY <1>1
      <3> HIDE DEF p
      <3>5. /\ d \in Members /\ d.active = b.active /\ d.pool = p /\ d.open = b.open
            /\ d.mode = b.mode /\ Alike(b, d)
        BY <1>1, <3>2, PoolSet DEF Alike
      <3> HIDE DEF u, d
      <3>6. u \in Worlds /\ u.bosh = d /\ u.link = w.link /\ u.client = w.client
        BY <1>1, <3>4, <3>5, Parts
      <3>7. /\ Onward(u, try.w)
            /\ d.state # "connecting" =>
                 \/ Idle(u, try.w)
                 \/ /\ try.w.bosh = d /\ try.w.client = u.client /\ try.w.link[c] = Opened
                    /\ \A x \in Conns : x # c => try.w.link[x] = u.link[x]
        <4>1. Placed(u.bosh) /\ u.bosh.pool # <<>> /\ c = u.bosh.pool[1]
          BY <3>2, <3>3, <3>5, <3>6 DEF Placed
        <4> HIDE DEF c
        <4> QED BY <2>3, <3>1, <3>6, <4>1, Opens
      <3>8. Onward(w, try.w)
        BY <3>5, <3>6, <3>7 DEF Onward
      <3>9. ASSUME b.state # "connecting" PROVE Withheld(w, try.w)
        <4>1. ~Active(b, c)
          BY <3>2 DEF Active
        <4>2. d.state # "connecting"
          BY <3>5, <3>9 DEF Alike
        <4>3. CASE Idle(u, try.w)
          BY <1>4, <1>6, <3>5, <3>6, <4>3 DEF Idle, Withheld, Alike
        <4>4. CASE /\ try.w.bosh = d /\ try.w.client = u.client /\ try.w.link[c] = Opened
                   /\ \A x \in Conns : x # c => try.w.link[x] = u.link[x]
          BY <1>6, <3>5, <3>6, <4>1, <4>4 DEF Withheld, Alike
        <4> QED BY <3>7, <4>2, <4>3, <4>4
      <3> QED BY <2>1, <3>8, <3>9
    <2> QED BY <2>2, <2>3
  <1>7. CASE ~Full(b) /\ b.mode # "pipelining" /\ b.pool # <<>>
    <2> DEFINE c == b.pool[1]
    <2>1. c \in Conns /\ b.state # "connecting" /\ ~Active(b, c)
      <3>1. 1 \in DOMAIN b.pool /\ c \in Conns
        BY <1>1, <1>7
      <3> QED BY <1>7, <3>1 DEF Slots, Placed, Apart, Active
    <2>2. CASE w.link[c].up
      <3> DEFINE u == Activate(w, c)
      <3>1. try = Transmit(u, c, r, lucky)
        BY <1>7, <2>2 DEF SendRequest
      <3>2. u = Activate(w, c) /\ c = b.pool[1]
        OBVIOUS
      <3> HIDE DEF u, c
      <3>3. /\ Onward(w, u) /\ u.bosh.active # <<>>
            /\ u.bosh.active = Append(b.active, c)
            /\ Alike(b, u.bosh) /\ u.bosh.open = b.open /\ u.bosh.mode = b.mode
            /\ u.link = w.link /\ u.client = w.client
        BY <1>7, <3>2, Activates
      <3>4. /\ u \in Worlds /\ u.bosh.open <= 1
        BY <1>4, <1>7, <3>3 DEF Onward
      <3>5. /\ try.w \in Worlds
            /\ try.w.bosh.active = u.bosh.active /\ try.w.bosh.pool = u.bosh.pool
            /\ try.w.bosh.open >= u.bosh.open /\ try.w.client.begun = u.client.begun
            /\ try.sent \in BOOLEAN
            /\ try.sent => Carried(u, try.w, r, c)
            /\ ~try.sent /\ u.bosh.state # "connecting" => Idle(u, try.w)
        BY <2>1, <3>1, <3>4, Transmits
      <3>6. Onward(w, try.w)
        BY <3>3, <3>5 DEF Onward, Placed
      <3>7. Grown(b, try.w.bosh, c)
        BY <2>1, <3>3, <3>5 DEF Grown
      <3>8. try.sent => SentOn(w, try.w, r, c)
        <4>1. Carried(u, try.w, r, c) => Carried(w, try.w, r, c)
          BY SMTT(30), <3>3 DEF Carried, Alike
        <4> QED BY <1>4, <1>7, <3>5, <3>7, <4>1 DEF SentOn
      <3>9. ~try.sent => Withheld(w, try.w)
        <4>1. Idle(u, try.w) =>
                /\ try.w.client = w.client /\ Alike(b, try.w.bosh) /\ try.w.bosh.open = b.open
                /\ try.w.bosh.mode \in {b.mode, Fallback(b.mode)} /\ try.w.link = w.link
          BY <3>3 DEF Idle, Alike
        <4>2. u.bosh.state # "connecting"
          BY <2>1, <3>3 DEF Alike
        <4> QED BY <1>4, <1>7, <2>1, <3>5, <3>7, <4>1, <4>2 DEF Withheld
      <3> QED BY <2>1, <3>5, <3>6, <3>8, <3>9
    <2>3. CASE ~w.link[c].up
      <3> DEFINE p == Append(Tail(b.pool), c)
                 d == [b EXCEPT !.pool = p]
                 u == [w EXCEPT !.bosh.pool = p]
      <3>1. try.sent = FALSE /\ try.w = Open(u, c, lucky)
        BY <1>7, <2>3 DEF SendRequest, Failed
      <3>2. p \in Seq(Conns) /\ Apart(b.active, p)
        BY <1>1, <1>7, FirstMoves DEF Placed
      <3> HIDE DEF p
      <3>3. u = [bosh |-> d, link |-> w.link, client |-> w.client]
        BY <1>1
      <3>4. /\ d \in Members /\ d.active = b.active /\ d.pool = p /\ d.open = b.open
            /\ d.mode = b.mode /\ Alike(b, d)
        BY <1>1, <3>2, PoolSet DEF Alike
      <3> HIDE DEF u, d, c
      <3>5. u \in Worlds /\ u.bosh = d /\ u.link = w.link /\ u.client = w.client
        BY <1>1, <3>3, <3>4, Parts
      <3>6. d.state # "connecting"
        BY <2>1, <3>4 DEF Alike
      <3>7. /\ Onward(u, try.w)
            /\ \/ Idle(u, try.w)
               \/ /\ try.w.bosh = d /\ try.w.client = u.client /\ try.w.link[c] = Opened
                  /\ \A x \in Conns : x # c => try.w.link[x] = u.link[x]
        <4>1. Placed(u.bosh)
          BY <3>2, <3>4, <3>5 DEF Placed
        <4> QED BY <2>1, <3>1, <3>5, <3>6, <4>1, Opens
      <3>8. Onward(w, try.w)
        BY <3>4, <3>5, <3>7 DEF Onward
      <3>9. CASE Idle(u, try.w)
        <4>1. Withheld(w, try.w)
          BY <1>4, <1>7, <3>4, <3>5, <3>9 DEF Idle, Withheld, Alike
        <4> QED BY <3>1, <3>8, <4>1
      <3>10. CASE /\ try.w.bosh = d /\ try.w.client = u.client /\ try.w.link[c] = Opened
                  /\ \A x \in Conns : x # c => try.w.link[x] = u.link[x]
        <4>1. Withheld(w, try.w)
          BY <1>7, <2>1, <3>4, <3>5, <3>10 DEF Withheld, Alike
        <4> QED BY <3>1, <3>8, <4>1
      <3> QED BY <3>7, <3>9, <3>10
    <2> QED BY <2>2, <2>3
  <1> QED BY <1>3, <1>5, <1>6, <1>7

\* sendXML() sent the request r on connection c.
SentNext(w, v, r, c) ==
  /\ w.bosh.open <= 1 /\ (w.bosh.open = 0 \/ w.bosh.open < w.bosh.limit)
  /\ w.bosh.state = "connected" /\ v.bosh.state = "connected"
  /\ v.bosh.limit = w.bosh.limit /\ v.bosh.mode = w.bosh.mode
  /\ v.bosh.rid = NextRid(w.bosh.rid) /\ v.bosh.open = w.bosh.open + 1
  /\ v.bosh.restart = FALSE /\ v.bosh.sendBuffer = <<>>
  /\ v.client.sent = w.client.sent /\ v.client.told = w.client.told
  /\ v.client.carried = w.client.carried \o r.stanzas
  /\ r.rid = v.bosh.rid /\ r.kind \in {"restart", "body"}
  /\ r.stanzas = IF w.bosh.restart THEN <<>> ELSE w.bosh.sendBuffer
  /\ r.last => w.bosh.mode = "legacy"
  /\ w.link[c].up
  /\ \A x \in Conns : x # c => v.link[x] = w.link[x]
  /\ w.link[c].eof => v.link[c] = w.link[c]
  /\ ~w.link[c].eof =>
       v.link[c] = [w.link[c] EXCEPT !.requests = Append(w.link[c].requests, r)]
  /\ IF w.bosh.mode = "pipelining"
     THEN v.bosh.active = w.bosh.active /\ v.bosh.pool = w.bosh.pool /\ c = w.bosh.active[1]
     ELSE Grown(w.bosh, v.bosh, c)

\* What sendXML() leads to.
LEMMA SendsXml ==
  ASSUME NEW w \in Worlds, Placed(w.bosh), Slots(w.bosh), NEW lucky \in BOOLEAN,
         NEW v, v = SendXML(w, lucky)
  PROVE  /\ Onward(w, v)
         /\ w.bosh.state # "connected" => v = w
         /\ Withheld(w, v) \/ \E c \in Conns, r \in Requested : SentNext(w, v, r, c)
PROOF
  <1> DEFINE b == w.bosh
             rid == NextRid(b.rid)
             body == IF b.restart THEN Request(b, "restart", rid, <<>>)
                     ELSE Request(b, "body", rid, b.sendBuffer)
             d == [b EXCEPT !.rid = rid]
             u == [w EXCEPT !.bosh.rid = rid]
             try == SendRequest(u, body, lucky)
             waits == b.sendBuffer = <<>> /\ b.open > 0 /\ ~lucky
  <1>1. /\ w = [bosh |-> b, link |-> w.link, client |-> w.client]
        /\ b \in Members /\ w.link \in Links /\ w.client \in Clients
        /\ b.open \in 0..2 /\ b.limit \in 0..2 /\ b.rid \in Rids /\ b.restart \in BOOLEAN
        /\ b.sendBuffer \in Seq(1..MaxStanzas)
    BY Parts DEF Members
  <1>2. CASE b.state # "connected" \/ waits
    <2>1. v = w
      BY <1>2 DEF SendXML
    <2> QED BY <1>1, <2>1 DEF Onward, Withheld, Alike
  <1>3. CASE ~(b.state # "connected" \/ waits)
    <2>1. b.state = "connected"
      BY <1>3
    <2>2. v = IF try.sent THEN Flushed(try.w) ELSE NotSent(b, try)
      BY <1>3 DEF SendXML
    <2>3. rid \in Rids
      BY <1>1, NextAges
    <2>4. body \in Requested /\ body.rid = rid /\ body.kind \in {"restart", "body"}
          /\ body.stanzas = (IF b.restart THEN <<>> ELSE b.sendBuffer)
          /\ (body.last => b.mode = "legacy")
      <3>1. <<>> \in Seq(1..MaxStanzas)
        OBVIOUS
      <3> HIDE DEF rid
      <3>2. CASE b.restart
        <4>1. body = Request(b, "restart", rid, <<>>)
          BY <3>2
        <4> QED BY <2>3, <3>1, <3>2, <4>1 DEF Request, Requested, Kinds
      <3>3. CASE ~b.restart
        <4>1. body = Request(b, "body", rid, b.sendBuffer)
          BY <3>3
        <4> QED BY <1>1, <2>3, <3>3, <4>1 DEF Request, Requested, Kinds
      <3> QED BY <3>2, <3>3
    <2> HIDE DEF rid
    <2>5. u = [bosh |-> d, link |-> w.link, client |-> w.client]
      BY <1>1
    <2>6. /\ d \in Members /\ d.active = b.active /\ d.pool = b.pool /\ d.open = b.open
          /\ d.mode = b.mode /\ d.state = b.state /\ d.limit = b.limit /\ d.restart = b.restart
          /\ d.sendBuffer = b.sendBuffer /\ d.rid = rid
      BY <1>1, <2>3, RidSet
    <2> HIDE DEF u, d, body
    <2>7. u \in Worlds /\ u.bosh = d /\ u.link = w.link /\ u.client = w.client
      BY <1>1, <2>5, <2>6, Parts
    <2>8. /\ Onward(u, try.w) /\ try.sent \in BOOLEAN
          /\ IF try.sent THEN \E c \in Conns : SentOn(u, try.w, body, c) ELSE Withheld(u, try.w)
      <3>1. Placed(u.bosh) /\ Slots(u.bosh) /\ u.bosh.state # "connecting"
        BY <2>1, <2>6, <2>7 DEF Placed, Slots
      <3>2. try = SendRequest(u, body, lucky)
        OBVIOUS
      <3> HIDE DEF try
      <3> QED BY <2>4, <2>7, <3>1, <3>2, Sends
    <2> HIDE DEF try
    <2> DEFINE t == try.w
    <2>9. /\ t = [bosh |-> t.bosh, link |-> t.link, client |-> t.client] /\ t \in Worlds
          /\ t.bosh \in Members /\ t.link \in Links /\ t.client \in Clients
          /\ Placed(t.bosh) /\ t.bosh.open >= b.open /\ t.client.begun = w.client.begun
          /\ b.active # <<>> => t.bosh.active # <<>>
      BY <2>6, <2>7, <2>8, Parts DEF Onward
    <2>10. CASE try.sent
      <3>1. PICK c \in Conns : SentOn(u, t, body, c)
        BY <2>8, <2>10
      <3> DEFINE no == FALSE
                 none == <<>>
                 e == [t.bosh EXCEPT !.sendBuffer = none]
                 f == [e EXCEPT !.restart = no]
      <3>2. v = [t EXCEPT !.bosh.sendBuffer = none, !.bosh.restart = no]
        BY <2>2, <2>10 DEF Flushed
      <3>3. no \in BOOLEAN /\ none \in Seq(1..MaxStanzas) /\ no = FALSE /\ none = <<>>
        OBVIOUS
      <3> HIDE DEF t, no, none
      <3>4. v = [bosh |-> f, link |-> t.link, client |-> t.client]
        BY <2>9, <3>2
      <3>5. /\ e \in Members /\ e.state = t.bosh.state /\ e.mode = t.bosh.mode
            /\ e.rid = t.bosh.rid /\ e.open = t.bosh.open /\ e.limit = t.bosh.limit
            /\ e.sendBuffer = none /\ e.active = t.bosh.active /\ e.pool = t.bosh.pool
        <4>1. t.bosh \in Members
          BY <2>9
        <4> QED BY <3>3, <4>1 DEF Members
      <3> HIDE DEF e
      <3>6. /\ f \in Members /\ f.state = t.bosh.state /\ f.mode = t.bosh.mode
            /\ f.rid = t.bosh.rid /\ f.open = t.bosh.open /\ f.limit = t.bosh.limit
            /\ f.sendBuffer = none /\ f.active = t.bosh.active /\ f.pool = t.bosh.pool
            /\ f.restart = no
        BY <3>3, <3>5, RestartSet
      <3> HIDE DEF f
      <3>7. v \in Worlds /\ v.bosh = f /\ v.link = t.link /\ v.client = t.client
        BY <2>9, <3>4, <3>6, Parts
      <3>8. Onward(w, v)
        BY <2>9, <3>6, <3>7 DEF Onward, Placed
      <3>9. /\ Carried(u, t, body, c) /\ b.open <= 1 /\ (b.open = 0 \/ b.open < b.limit)
            /\ IF b.mode = "pipelining"
               THEN t.bosh.active = b.active /\ t.bosh.pool = b.pool /\ c = b.active[1]
               ELSE Grown(b, t.bosh, c)
        BY <2>6, <2>7, <3>1 DEF SentOn, Grown, Active
      <3>10. SentNext(w, v, body, c)
        <4>1. Grown(b, t.bosh, c) => Grown(b, f, c)
          BY <3>6 DEF Grown
        <4>2. /\ w.link[c].up
              /\ t.bosh.state = b.state /\ t.bosh.limit = b.limit /\ t.bosh.mode = b.mode
              /\ t.bosh.rid = rid /\ t.bosh.open = b.open + 1
              /\ t.client.sent = w.client.sent /\ t.client.told = w.client.told
              /\ t.client.carried = w.client.carried \o body.stanzas
          BY <2>6, <2>7, <3>9 DEF Carried, Alike
        <4>3. /\ \A x \in Conns : x # c => t.link[x] = w.link[x]
              /\ w.link[c].eof => t.link[c] = w.link[c]
              /\ ~w.link[c].eof =>
                   t.link[c] = [w.link[c] EXCEPT !.requests = Append(w.link[c].requests, body)]
          BY <2>7, <3>9 DEF Carried
        <4>4. /\ v.bosh.restart = FALSE /\ v.bosh.sendBuffer = <<>>
              /\ v.bosh.rid = NextRid(b.rid) /\ body.rid = v.bosh.rid
          BY <2>4, <3>3, <3>6, <3>7, <4>2 DEF rid
        <4>5. /\ v.bosh.state = "connected"
              /\ v.bosh.limit = b.limit /\ v.bosh.mode = b.mode /\ v.bosh.open = b.open + 1
          BY <2>1, <3>6, <3>7, <4>2
        <4>6. IF b.mode = "pipelining"
              THEN v.bosh.active = b.active /\ v.bosh.pool = b.pool /\ c = b.active[1]
              ELSE Grown(b, v.bosh, c)
          BY <3>6, <3>7, <3>9, <4>1
        <4> QED BY <2>1, <2>4, <3>7, <3>9, <4>2, <4>3, <4>4, <4>5, <4>6 DEF SentNext
      <3> QED BY <2>1, <2>4, <3>8, <3>10
    <2>11. CASE ~try.sent
      <3> DEFINE f == [t.bosh EXCEPT !.rid = b.rid]
      <3>1. v = [t EXCEPT !.bosh.rid = b.rid]
        BY <2>2, <2>11 DEF NotSent
      <3> HIDE DEF t
      <3>2. v = [bosh |-> f, link |-> t.link, client |-> t.client]
        BY <2>9, <3>1
      <3>3. /\ f \in Members /\ f.state = t.bosh.state /\ f.mode = t.bosh.mode
            /\ f.rid = b.rid /\ f.open = t.bosh.open /\ f.limit = t.bosh.limit
            /\ f.sendBuffer = t.bosh.sendBuffer /\ f.active = t.bosh.active /\ f.pool = t.bosh.pool
            /\ f.restart = t.bosh.restart
        BY <1>1, <2>9, RidSet
      <3> HIDE DEF f
      <3>4. v \in Worlds /\ v.bosh = f /\ v.link = t.link /\ v.client = t.client
        BY <2>9, <3>2, <3>3, Parts
      <3>5. Onward(w, v)
        BY <2>9, <3>3, <3>4 DEF Onward, Placed
      <3>6. Withheld(u, t)
        BY <2>8, <2>11 DEF t
      <3>7. Withheld(w, v)
        <4>1. Alike(b, v.bosh) /\ v.bosh.open = b.open /\ v.client = w.client
          BY <2>6, <2>7, <3>3, <3>4, <3>6 DEF Withheld, Alike
        <4>2. /\ v.bosh.mode \in {b.mode, Fallback(b.mode)}
              /\ v.bosh.mode = b.mode \/ b.open <= 1
          BY <2>6, <2>7, <3>3, <3>4, <3>6 DEF Withheld
        <4>3. IF b.mode = "pipelining"
              THEN v.bosh.active = b.active /\ v.bosh.pool = b.pool
              ELSE v.bosh.active = b.active \/ \E c \in Conns : Grown(b, v.bosh, c)
          <5>1. \A c \in Conns : Grown(u.bosh, t.bosh, c) => Grown(b, v.bosh, c)
            BY <2>6, <2>7, <3>3, <3>4 DEF Grown, Active
          <5>2. IF b.mode = "pipelining"
                THEN t.bosh.active = b.active /\ t.bosh.pool = b.pool
                ELSE t.bosh.active = b.active \/ \E c \in Conns : Grown(u.bosh, t.bosh, c)
            BY <2>6, <2>7, <3>6 DEF Withheld
          <5> QED BY <3>3, <3>4, <5>1, <5>2
        <4>4. \A c \in Conns :
                v.link[c] = w.link[c] \/ (v.link[c] = Opened /\ ~Active(b, c))
          BY <2>6, <2>7, <3>4, <3>6 DEF Withheld, Active
        <4> QED BY <4>1, <4>2, <4>3, <4>4 DEF Withheld
      <3> QED BY <2>1, <3>5, <3>7
    <2> QED BY <2>8, <2>10, <2>11
  <1> QED BY <1>2, <1>3

-----------------------------------------------------------------------------
(* The session while it runs. *)

\* What comes from connection c: what recv() has of it and what it has not read.
First(b, c) == b.active # <<>> /\ b.active[1] = c

Flow(w, read, c) ==
  IF First(w.bosh, c) THEN read \o w.link[c].pieces ELSE w.link[c].pieces

OursAt(w, read, c) == Ours(Flow(w, read, c), w.link[c].requests)

Lines(w, read) == \A c \in Conns : Line(w.bosh, c, Flow(w, read, c), w.link[c])

\* The connections are in the order of their requests.
Across(w, read) ==
  \A i, j \in DOMAIN w.bosh.active : i < j =>
    \A r \in OursAt(w, read, w.bosh.active[i]), s \in OursAt(w, read, w.bosh.active[j]) :
      Older(w.bosh, r, s)

Running(w, read) ==
  /\ Lines(w, read) /\ Across(w, read) /\ Slots(w.bosh)
  /\ read # <<>> => w.bosh.active # <<>>

\* What is read of a world.
LEMMA Reading ==
  ASSUME NEW w \in Worlds, NEW read \in Seq(Piece), NEW c \in Conns
  PROVE  /\ Flow(w, read, c) \in Seq(Piece) /\ w.link[c] \in Link
         /\ w.link[c].requests \in Seq(Requested) /\ w.link[c].pieces \in Seq(Piece)
         /\ OursAt(w, read, c) \subseteq Rids /\ w.bosh.rid \in Rids
PROOF
  <1>1. /\ w.link[c] \in Link /\ w.bosh \in Members
        /\ w.link[c].requests \in Seq(Requested) /\ w.link[c].pieces \in Seq(Piece)
    BY Parts DEF Link
  <1>2. Flow(w, read, c) \in Seq(Piece)
    BY <1>1 DEF Flow
  <1>3. w.bosh.rid \in Rids
    BY <1>1 DEF Members
  <1> QED BY <1>1, <1>2, <1>3, LineTypes DEF OursAt

\* Nothing comes from a connection that is not active.
LEMMA Quiet ==
  ASSUME NEW w \in Worlds, NEW read \in Seq(Piece), NEW c \in Conns,
         Lines(w, read), ~Active(w.bosh, c)
  PROVE  /\ Flow(w, read, c) = <<>> /\ w.link[c].requests = <<>> /\ w.link[c].pieces = <<>>
         /\ OursAt(w, read, c) = {}
PROOF
  <1>1. w.link[c].requests = <<>> /\ w.link[c].pieces = <<>>
    BY DEF Lines, Line
  <1>2. ~First(w.bosh, c)
    <2> SUFFICES ASSUME First(w.bosh, c) PROVE Active(w.bosh, c)
      OBVIOUS
    <2>1. w.bosh.active \in Seq(Conns)
      BY Parts DEF Members
    <2>2. 1 \in DOMAIN w.bosh.active
      BY <2>1 DEF First
    <2> QED BY <2>2 DEF First, Active
  <1>3. Flow(w, read, c) = <<>>
    BY <1>1, <1>2 DEF Flow
  <1>4. DOMAIN <<>> = {}
    OBVIOUS
  <1> QED BY <1>1, <1>3, <1>4 DEF OursAt, Ours

\* The first active connection stays the first when another becomes active.
LEMMA SameFlow ==
  ASSUME NEW w \in Worlds, NEW v \in Worlds, NEW read \in Seq(Piece), NEW c \in Conns,
         read # <<>> => w.bosh.active # <<>>, NEW x \in Conns,
         v.bosh.active = w.bosh.active \/ Grown(w.bosh, v.bosh, x),
         v.link[c].pieces = w.link[c].pieces
  PROVE  /\ Flow(v, read, c) = Flow(w, read, c)
         /\ Active(w.bosh, c) => Active(v.bosh, c)
PROOF
  <1> DEFINE a == w.bosh.active
  <1>0. a \in Seq(Conns) /\ w.link[c].pieces \in Seq(Piece)
    BY Parts, Reading DEF Members
  <1>1. CASE v.bosh.active = a
    BY <1>1 DEF Flow, First, Active
  <1>2. CASE Grown(w.bosh, v.bosh, x)
    <2>1. v.bosh.active = Append(a, x)
      BY <1>2 DEF Grown
    <2>2. /\ \A i \in DOMAIN a : v.bosh.active[i] = a[i] /\ i \in DOMAIN v.bosh.active
      BY <1>0, <2>1
    <2>3. Active(w.bosh, c) => Active(v.bosh, c)
      BY <2>2 DEF Active
    <2>4. CASE a = <<>>
      <3>1. read = <<>> /\ read \o w.link[c].pieces = w.link[c].pieces
        BY SMTT(30), <1>0, <2>4
      <3> QED BY <2>3, <3>1 DEF Flow
    <2>5. CASE a # <<>>
      <3>0. 1 \in DOMAIN a
        BY <1>0, <2>5
      <3>1. 1 \in DOMAIN a /\ v.bosh.active # <<>>
        BY <2>2, <3>0
      <3>2. First(v.bosh, c) <=> First(w.bosh, c)
        BY <2>2, <2>5, <3>1 DEF First
      <3> QED BY <2>3, <3>2 DEF Flow
    <2> QED BY <2>4, <2>5
  <1> QED BY <1>1, <1>2

\* The session runs on when nothing is sent.
LEMMA RunUnsent ==
  ASSUME NEW w \in Worlds, NEW v \in Worlds, NEW read \in Seq(Piece), Placed(w.bosh),
         Running(w, read), Withheld(w, v), v.bosh.active # <<>> \/ w.bosh.active = <<>>,
         w.bosh.state # "connecting"
  PROVE  /\ Running(v, read)
         /\ \A c \in Conns : OursAt(v, read, c) = OursAt(w, read, c)
PROOF
  <1> DEFINE b == w.bosh
             d == v.bosh
  <1>0. /\ b \in Members /\ d \in Members /\ b.active \in Seq(Conns) /\ d.active \in Seq(Conns)
        /\ b.open \in 0..2
    BY Parts DEF Members
  <1>1. /\ Lines(w, read) /\ Across(w, read) /\ Slots(b) /\ (read # <<>> => b.active # <<>>)
    BY DEF Running
  <1>2. /\ d.rid = b.rid /\ d.open = b.open /\ d.limit = b.limit /\ d.state = b.state
    BY DEF Withheld, Alike
  <1>3. PICK x \in Conns : d.active = b.active \/ (b.mode # "pipelining" /\ Grown(b, d, x))
    <2>1. 1 \in Conns
      BY ConstantsAssumption DEF Conns
    <2> QED BY <2>1 DEF Withheld
  <1>4. ASSUME NEW c \in Conns
        PROVE  /\ Line(d, c, Flow(v, read, c), v.link[c])
               /\ Flow(v, read, c) = Flow(w, read, c)
               /\ v.link[c].requests = w.link[c].requests
    <2>1. CASE v.link[c] = w.link[c]
      <3> DEFINE s == Flow(w, read, c)
                 l == w.link[c]
      <3>1. /\ Flow(v, read, c) = s /\ (Active(b, c) => Active(d, c))
        BY <1>1, <1>3, <2>1, SameFlow
      <3>2. Line(b, c, s, l) /\ s \in Seq(Piece) /\ l \in Link
        BY <1>1, Reading DEF Lines
      <3> HIDE DEF s, l
      <3>3. \A r \in Ours(s, l.requests) : AgeAt(b.rid, r) < d.open
        BY <1>2, <3>2 DEF Line, Counted, Ours
      <3>4. d.mode # "pipelining" => b.mode # "pipelining" \/ Solo(s, l.requests)
        <4>1. CASE d.mode = b.mode
          BY <4>1
        <4>2. CASE b.open <= 1
          BY <1>0, <3>2, <4>2, LineAlone
        <4> QED BY <4>1, <4>2 DEF Withheld
      <3>5. Active(d, c) \/ (l.requests = <<>> /\ l.pieces = <<>>)
        BY <3>1, <3>2 DEF Line
      <3>6. Line(d, c, s, l)
        BY <1>2, <3>2, <3>3, <3>4, <3>5, LineKept
      <3> QED BY <2>1, <3>1, <3>6 DEF s, l
    <2>2. CASE v.link[c] = Opened /\ ~Active(b, c)
      <3>1. /\ Flow(w, read, c) = <<>> /\ w.link[c].requests = <<>> /\ w.link[c].pieces = <<>>
        BY <1>1, <2>2, Quiet
      <3>2. v.link[c].requests = <<>> /\ v.link[c].pieces = <<>> /\ v.link[c].up
        BY <2>2 DEF Opened
      <3>3. Flow(v, read, c) = <<>>
        BY <1>1, <1>3, <3>1, <3>2, SameFlow
      <3>4. Line(d, c, <<>>, v.link[c])
        BY <3>2, LineBare
      <3> QED BY <3>1, <3>2, <3>3, <3>4
    <2> QED BY <2>1, <2>2 DEF Withheld
  <1>5. \A c \in Conns : OursAt(v, read, c) = OursAt(w, read, c)
    BY <1>4 DEF OursAt
  <1>6. Across(v, read)
    <2>1. ASSUME NEW i \in DOMAIN d.active, NEW j \in DOMAIN d.active, i < j,
                 NEW r \in OursAt(v, read, d.active[i]), NEW s \in OursAt(v, read, d.active[j])
          PROVE  Older(d, r, s)
      <3>1. d.active[i] \in Conns /\ d.active[j] \in Conns
        BY <1>0
      <3>2. r \in OursAt(w, read, d.active[i]) /\ s \in OursAt(w, read, d.active[j])
        BY <1>5, <2>1, <3>1
      <3>3. CASE d.active = b.active
        BY <1>1, <1>2, <2>1, <3>2, <3>3 DEF Across, Older
      <3>4. CASE Grown(b, d, x)
        <4>1. d.active = Append(b.active, x) /\ OursAt(w, read, x) = {}
          BY <1>1, <3>4, Quiet DEF Grown
        <4>2. j \in DOMAIN b.active /\ d.active[j] = b.active[j]
          BY <1>0, <2>1, <3>2, <4>1
        <4>3. i \in DOMAIN b.active /\ d.active[i] = b.active[i]
          BY <1>0, <2>1, <4>1, <4>2
        <4> QED BY <1>1, <1>2, <2>1, <3>2, <4>2, <4>3 DEF Across, Older
      <3> QED BY <1>3, <3>3, <3>4
    <2> QED BY <2>1 DEF Across
  <1>7. Slots(d)
    <2>1. d.mode = "pipelining" => b.mode = "pipelining"
      BY DEF Withheld, Fallback
    <2>2. b.mode = "pipelining" => d.active = b.active /\ d.pool = b.pool
      BY DEF Withheld
    <2> QED BY <1>1, <1>2, <2>1, <2>2 DEF Slots
  <1> QED BY <1>1, <1>4, <1>5, <1>6, <1>7 DEF Running, Lines

\* The session runs on when a request is sent, which is the latest of all.
LEMMA RunSent ==
  ASSUME NEW w \in Worlds, NEW v \in Worlds, NEW read \in Seq(Piece), Placed(w.bosh),
         Running(w, read), NEW r \in Requested, NEW c \in Conns, SentNext(w, v, r, c),
         v.bosh.active # <<>> \/ w.bosh.active = <<>>
  PROVE  /\ Running(v, read)
         /\ \A x \in Conns : x # c => OursAt(v, read, x) = OursAt(w, read, x)
         /\ \A x \in Conns : \A y \in OursAt(w, read, x) :
              AgeAt(v.bosh.rid, y) = AgeAt(w.bosh.rid, y) + 1
         /\ OursAt(v, read, c) =
              OursAt(w, read, c) \cup (IF w.link[c].eof THEN {} ELSE {r.rid})
PROOF
  <1> DEFINE b == w.bosh
             d == v.bosh
  <1>0. /\ b \in Members /\ d \in Members /\ b.active \in Seq(Conns) /\ d.active \in Seq(Conns)
        /\ b.open \in 0..2 /\ d.rid \in Rids
    BY Parts DEF Members
  <1>1. /\ Lines(w, read) /\ Across(w, read) /\ Slots(b) /\ (read # <<>> => b.active # <<>>)
    BY DEF Running
  <1>2. /\ d.rid = NextRid(b.rid) /\ d.open = b.open + 1 /\ d.limit = b.limit /\ d.state = b.state
        /\ d.mode = b.mode /\ b.state = "connected" /\ b.open <= 1
        /\ b.open = 0 \/ b.open < b.limit
        /\ r.rid = d.rid /\ r.kind # "session" /\ w.link[c].up
    BY DEF SentNext
  <1>3. /\ \A x \in Conns : x # c => v.link[x] = w.link[x]
        /\ w.link[c].eof => v.link[c] = w.link[c]
        /\ ~w.link[c].eof =>
             v.link[c] = [w.link[c] EXCEPT !.requests = Append(w.link[c].requests, r)]
    BY DEF SentNext
  <1>4. /\ IF b.mode = "pipelining" THEN d.active = b.active /\ d.pool = b.pool /\ c = b.active[1]
           ELSE Grown(b, d, c)
        /\ d.active = b.active \/ Grown(b, d, c)
    BY DEF SentNext
  <1>5. Active(d, c)
    <2>1. CASE b.mode = "pipelining"
      <3>1. 1 \in DOMAIN d.active /\ d.active[1] = c
        BY <1>0, <1>1, <1>4, <2>1 DEF Slots
      <3> QED BY <3>1 DEF Active
    <2>2. CASE b.mode # "pipelining"
      <3>1. d.active = Append(b.active, c)
        BY <1>4, <2>2 DEF Grown
      <3>2. Len(b.active) + 1 \in DOMAIN d.active /\ d.active[Len(b.active) + 1] = c
        BY <1>0, <3>1
      <3> QED BY <3>2 DEF Active
    <2> QED BY <2>1, <2>2
  <1>6. ASSUME NEW x \in Conns
        PROVE  /\ v.link[x].pieces = w.link[x].pieces
               /\ Flow(v, read, x) = Flow(w, read, x)
               /\ Line(d, x, Flow(w, read, x), w.link[x])
               /\ \A y \in OursAt(w, read, x) :
                    AgeAt(d.rid, y) = AgeAt(b.rid, y) + 1 /\ AgeAt(b.rid, y) = 0
    <2>1. v.link[x].pieces = w.link[x].pieces
      <3>1. w.link[c] \in Link
        BY Parts
      <3> QED BY <1>3, <3>1 DEF Link
    <2>2. Flow(v, read, x) = Flow(w, read, x) /\ (Active(b, x) => Active(d, x))
      BY <1>1, <1>4, <2>1, SameFlow
    <2> DEFINE s == Flow(w, read, x)
               l == w.link[x]
    <2>3. Line(b, x, s, l) /\ s \in Seq(Piece) /\ l \in Link
      BY <1>1, Reading DEF Lines
    <2> HIDE DEF s, l
    <2>4. /\ Line(d, x, s, l)
          /\ \A y \in Ours(s, l.requests) : AgeAt(d.rid, y) = AgeAt(b.rid, y) + 1
      <3> HIDE DEF b, d
      <3>1. /\ b \in Members /\ d \in Members /\ b.open <= 1 /\ d.rid = NextRid(b.rid)
            /\ d.open = b.open + 1 /\ d.state = b.state /\ d.mode = b.mode
            /\ (Active(b, x) => Active(d, x))
        BY <1>0, <1>2, <2>2
      <3>2. Line(d, x, s, l)
        BY <2>3, <3>1, LineSent
      <3>3. ASSUME NEW y \in Ours(s, l.requests) PROVE AgeAt(d.rid, y) = AgeAt(b.rid, y) + 1
        <4>1. AgeAt(b.rid, y) = 0
          BY <2>3, <3>1, LineAlone
        <4>2. y \in Rids /\ b.rid \in Rids
          BY <2>3, <3>1, LineTypes DEF Link, Members
        <4> QED BY <3>1, <4>1, <4>2, NextAges
      <3> QED BY <3>2, <3>3
    <2>5. \A y \in Ours(s, l.requests) : AgeAt(b.rid, y) = 0
      BY <1>0, <1>2, <2>3, LineAlone
    <2> QED BY <2>1, <2>2, <2>4, <2>5 DEF s, l, OursAt
  <1>7. \A x \in Conns : x # c => OursAt(v, read, x) = OursAt(w, read, x)
    BY <1>3, <1>6 DEF OursAt
  <1>8. OursAt(v, read, c) = OursAt(w, read, c) \cup (IF w.link[c].eof THEN {} ELSE {r.rid})
    <2>1. CASE w.link[c].eof
      BY <1>3, <1>6, <2>1 DEF OursAt
    <2>2. CASE ~w.link[c].eof
      <3> DEFINE q == w.link[c].requests
                 p == Append(q, r)
                 s == Flow(w, read, c)
      <3>1. v.link[c].requests = p /\ q \in Seq(Requested)
        <4>1. w.link[c] \in Link /\ q \in Seq(Requested)
          BY Parts DEF Link
        <4> QED BY <1>3, <2>2, <4>1 DEF Link
      <3>2. /\ DOMAIN p = 1..(Len(q) + 1) /\ DOMAIN q = 1..Len(q) /\ Len(q) \in Nat
            /\ p[Len(q) + 1] = r /\ \A i \in DOMAIN q : p[i] = q[i]
        <4>1. p = Append(q, r) /\ q \in Seq(Requested)
          BY <3>1
        <4> HIDE DEF p, q
        <4> QED BY <4>1, OneMore
      <3> HIDE DEF p, q, s
      <3>3. {p[i].rid : i \in DOMAIN p} = {q[i].rid : i \in DOMAIN q} \cup {r.rid}
        <4>1. \A i \in DOMAIN p : i \in DOMAIN q \/ i = Len(q) + 1
          BY <3>2
        <4>2. Len(q) + 1 \in DOMAIN p /\ DOMAIN q \subseteq DOMAIN p
          BY <3>2
        <4> QED BY <3>2, <4>1, <4>2
      <3>4. Ours(s, p) = Ours(s, q) \cup {r.rid}
        BY <3>3 DEF Ours
      <3>5. OursAt(v, read, c) = Ours(s, p) /\ OursAt(w, read, c) = Ours(s, q)
        BY <1>6, <3>1 DEF OursAt, s, q
      <3> QED BY <2>2, <3>4, <3>5
    <2> QED BY <2>1, <2>2
  <1>9. Lines(v, read)
    <2> SUFFICES ASSUME NEW x \in Conns PROVE Line(d, x, Flow(v, read, x), v.link[x])
      BY DEF Lines
    <2>1. CASE x # c \/ w.link[c].eof
      <3>1. v.link[x] = w.link[x]
        BY <1>3, <2>1
      <3> QED BY <1>6, <3>1
    <2>2. CASE x = c /\ ~w.link[c].eof
      <3> DEFINE s == Flow(w, read, c)
                 l == w.link[c]
      <3>1. Line(d, c, s, l) /\ s \in Seq(Piece) /\ l \in Link
        BY <1>6, Reading
      <3>2. \A y \in Ours(s, l.requests) : AgeAt(d.rid, y) >= 1
        BY <1>6 DEF OursAt
      <3>3. d.mode # "pipelining" => s = <<>> /\ l.requests = <<>>
        BY <1>1, <1>2, <1>4, Quiet DEF Grown
      <3>4. v.link[c] = [l EXCEPT !.requests = Append(l.requests, r)] /\ ~l.eof /\ l.up
        BY <1>2, <1>3, <2>2
      <3> HIDE DEF s, l
      <3>5. 0 < d.open
        BY <1>0, <1>2
      <3>6. Line(d, c, s, v.link[c])
        <4> DEFINE m == [l EXCEPT !.requests = Append(l.requests, r)]
        <4> HIDE DEF d
        <4>1. /\ d \in Members /\ r.rid = d.rid /\ Active(d, c)
              /\ (r.kind = "session" <=> d.state = "connecting")
          BY <1>0, <1>2, <1>5
        <4>2. m \in Link /\ Line(d, c, s, m)
          BY <3>1, <3>2, <3>3, <3>4, <3>5, <4>1, LineMore
        <4> QED BY <3>4, <4>2
      <3> QED BY <1>6, <2>2, <3>6 DEF s
    <2> QED BY <2>1, <2>2
  <1>10. Across(v, read)
    <2>1. CASE b.mode = "pipelining"
      <3>1. Len(d.active) = 1
        BY <1>1, <1>4, <2>1 DEF Slots
      <3>2. \A i, j \in DOMAIN d.active : ~(i < j)
        BY <1>0, <3>1
      <3> QED BY <3>2 DEF Across
    <2>2. CASE b.mode # "pipelining"
      <3>1. d.active = Append(b.active, c) /\ ~Active(b, c)
        BY <1>4, <2>2 DEF Grown
      <3> SUFFICES ASSUME NEW i \in DOMAIN d.active, NEW j \in DOMAIN d.active, i < j,
                          NEW y \in OursAt(v, read, d.active[i]),
                          NEW z \in OursAt(v, read, d.active[j])
                   PROVE  Older(d, y, z)
        BY DEF Across
      <3>2. /\ i \in DOMAIN b.active /\ d.active[i] = b.active[i] /\ d.active[i] \in Conns
            /\ d.active[j] \in Conns
            /\ (j \in DOMAIN b.active /\ d.active[j] = b.active[j]) \/ d.active[j] = c
        BY <1>0, <3>1
      <3>3. d.active[i] # c /\ y \in OursAt(w, read, b.active[i])
        BY <1>7, <3>1, <3>2 DEF Active
      <3>4. AgeAt(d.rid, y) = 1
        BY <1>6, <3>2, <3>3
      <3>5. CASE d.active[j] = c
        <4>1. z = r.rid
          BY <1>1, <1>8, <3>1, <3>5, Quiet
        <4>2. AgeAt(d.rid, z) = 0
          BY <1>0, <1>2, <4>1 DEF AgeAt, Rids
        <4> QED BY <3>4, <4>2 DEF Older
      <3>6. CASE d.active[j] # c
        <4>1. j \in DOMAIN b.active /\ z \in OursAt(w, read, b.active[j]) /\ b.active[j] \in Conns
          BY <1>7, <3>2, <3>6
        <4>2. Older(b, y, z)
          BY <1>1, <3>2, <3>3, <4>1 DEF Across
        <4>3. AgeAt(b.rid, y) = 0 /\ AgeAt(b.rid, z) = 0
          BY <1>6, <3>2, <3>3, <4>1
        <4> QED BY <4>2, <4>3 DEF Older
      <3> QED BY <3>5, <3>6
    <2> QED BY <2>1, <2>2
  <1>11. Slots(d)
    <2>1. d.open <= 1 \/ d.open <= d.limit
      <3>1. b.limit \in 0..2
        BY <1>0 DEF Members
      <3> QED BY <1>0, <1>2, <3>1
    <2>2. d.mode = "pipelining" => Len(d.active) = 1 /\ d.pool = <<>>
      BY <1>1, <1>2, <1>4 DEF Slots
    <2> QED BY <1>2, <2>1, <2>2 DEF Slots
  <1> QED BY <1>1, <1>6, <1>7, <1>8, <1>9, <1>10, <1>11 DEF Running

\* What the requests under way do not depend on may change.
Kin(b, d) ==
  /\ d.state = b.state /\ d.rid = b.rid /\ d.open = b.open
  /\ d.limit = b.limit /\ d.active = b.active /\ d.pool = b.pool

LEMMA RunKin ==
  ASSUME NEW w \in Worlds, NEW v \in Worlds, NEW read \in Seq(Piece),
         Running(w, read), Kin(w.bosh, v.bosh), v.link = w.link,
         \/ v.bosh.mode = w.bosh.mode
         \/ /\ v.bosh.mode # "pipelining"
            /\ \A c \in Conns : Solo(Flow(w, read, c), w.link[c].requests)
  PROVE  /\ Running(v, read)
         /\ \A c \in Conns : OursAt(v, read, c) = OursAt(w, read, c)
PROOF
  <1> DEFINE b == w.bosh
             d == v.bosh
  <1>1. /\ Lines(w, read) /\ Across(w, read) /\ Slots(b) /\ (read # <<>> => b.active # <<>>)
    BY DEF Running
  <1>2. \A c \in Conns : /\ Flow(v, read, c) = Flow(w, read, c)
                          /\ OursAt(v, read, c) = OursAt(w, read, c)
                          /\ (Active(b, c) <=> Active(d, c))
    BY DEF Kin, Flow, First, OursAt, Active
  <1>3. Lines(v, read)
    <2> SUFFICES ASSUME NEW c \in Conns PROVE Line(d, c, Flow(v, read, c), v.link[c])
      BY DEF Lines
    <2> DEFINE s == Flow(w, read, c)
               l == w.link[c]
    <2>1. Line(b, c, s, l) /\ Flow(v, read, c) = s /\ v.link[c] = l
      BY <1>1, <1>2 DEF Lines
    <2> HIDE DEF s, l
    <2>2. \A r \in Ours(s, l.requests) : AgeAt(b.rid, r) < d.open
      BY <2>1 DEF Kin, Line, Counted, Ours
    <2>3. Active(d, c) \/ (l.requests = <<>> /\ l.pieces = <<>>)
      BY <1>2, <2>1 DEF Line
    <2>4. d.rid = b.rid /\ d.state = b.state
      BY DEF Kin
    <2>6. d.mode # "pipelining" => b.mode # "pipelining" \/ Solo(s, l.requests)
      BY DEF s, l
    <2>5. Line(d, c, s, l)
      BY <2>1, <2>2, <2>3, <2>4, <2>6, LineKept
    <2> QED BY <2>1, <2>5
  <1>4. Across(v, read)
    <2>1. w.bosh.active \in Seq(Conns)
      BY Parts DEF Members
    <2>2. \A i \in DOMAIN w.bosh.active : w.bosh.active[i] \in Conns
      BY <2>1
    <2> QED BY <1>1, <1>2, <2>2 DEF Across, Kin, Older
  <1> QED BY <1>1, <1>2, <1>3, <1>4 DEF Running, Kin, Slots

\* What was read comes from the first active connection.
LEMMA FrontFlow ==
  ASSUME NEW w \in Worlds, NEW read \in Seq(Piece), Running(w, read),
         NEW c, First(w.bosh, c)
  PROVE  /\ c \in Conns /\ Active(w.bosh, c)
         /\ Flow(w, read, c) = read \o w.link[c].pieces
         /\ Len(Flow(w, read, c)) = Len(read) + Len(w.link[c].pieces)
         /\ Len(read) \in Nat /\ Len(w.link[c].pieces) \in Nat
         /\ \A i \in DOMAIN read : i \in DOMAIN Flow(w, read, c) /\ Flow(w, read, c)[i] = read[i]
         /\ Line(w.bosh, c, Flow(w, read, c), w.link[c])
         /\ Len(Flow(w, read, c)) <= 4
         /\ Flow(w, read, c) # <<>> => w.bosh.open >= 1
PROOF
  <1>1. w.bosh.active \in Seq(Conns) /\ w.bosh \in Members
    BY Parts DEF Members
  <1>2. 1 \in DOMAIN w.bosh.active /\ c \in Conns
    BY <1>1 DEF First
  <1>3. First(w.bosh, c) /\ Active(w.bosh, c)
    BY <1>2 DEF First, Active
  <1> DEFINE p == w.link[c].pieces
             s == Flow(w, read, c)
  <1>4. s = read \o p /\ p \in Seq(Piece) /\ s \in Seq(Piece) /\ w.link[c] \in Link
    BY <1>2, <1>3, Reading DEF Flow
  <1>5. Line(w.bosh, c, s, w.link[c])
    BY <1>2 DEF Running, Lines
  <1> HIDE DEF p, s
  <1>6. /\ Len(s) = Len(read) + Len(p) /\ Len(read) \in Nat /\ Len(p) \in Nat
        /\ \A i \in DOMAIN read : i \in DOMAIN s /\ s[i] = read[i]
    BY <1>4
  <1>7. Len(s) <= 4 /\ (s # <<>> => w.bosh.open >= 1)
    BY <1>1, <1>4, <1>5, LineLength
  <1> QED BY <1>2, <1>3, <1>4, <1>5, <1>6, <1>7 DEF p, s

\* Where recv() is.
Loops == [at : {"app", "pool", "active"}, calls : 0..3, inHandler : BOOLEAN, quit : BOOLEAN]

Alive(w) == w.bosh.state # "disconnected"

\* How much was read by then.
Turns(w, read, l) ==
  /\ l \in Loops
  /\ l.at = "app" => l.calls = 0 /\ ~l.inHandler
  /\ Alive(w) =>
       /\ l.at = "app" \/ l.quit => Len(read) <= 1
       /\ l.inHandler \/ l.calls > 0 => Len(read) <= 2 /\ w.bosh.state # "connecting"

\* The session is over, and what is left of the buffer is done with as before.
Over(w, read, l) ==
  /\ w.link = AllDown
  /\ w.client.begun => w.client.told
  /\ ~l.quit /\ Len(read) >= 2 =>
       /\ Len(read) <= 3 /\ w.bosh.active # <<>> /\ w.bosh.open >= 1
       /\ read[1].answer.kind # "session"

Holds(w, read, l) ==
  /\ w \in Worlds /\ read \in Seq(Piece) /\ Placed(w.bosh) /\ Turns(w, read, l)
  /\ IF Alive(w) THEN Running(w, read) ELSE Over(w, read, l)

\* The client ends the session, whatever it could send before.
LEMMA Ended ==
  ASSUME NEW w, NEW read, NEW l, Holds(w, read, l), Alive(w), l.at = "app" \/ l.inHandler,
         NEW u, Onward(w, u), NEW v, v = Tell(u)
  PROVE  Holds(v, read, l)
PROOF
  <1>1. /\ w \in Worlds /\ read \in Seq(Piece) /\ Turns(w, read, l) /\ Running(w, read)
        /\ u \in Worlds /\ Placed(u.bosh)
    BY DEF Holds, Onward
  <1>2. /\ v \in Worlds /\ v.link = AllDown
        /\ v.bosh.state = "disconnected" /\ v.client.told
        /\ v.bosh.active = u.bosh.active /\ v.bosh.pool = u.bosh.pool
        /\ v.bosh.open = u.bosh.open
    BY <1>1, Tells
  <1>3. Len(read) <= 1 \/ (Len(read) <= 2 /\ w.bosh.state # "connecting")
    BY <1>1 DEF Turns
  <1>4. ASSUME Len(read) >= 2
        PROVE  /\ Len(read) <= 3 /\ v.bosh.active # <<>> /\ v.bosh.open >= 1
               /\ read[1].answer.kind # "session"
    <2>0. Len(read) \in Nat
      BY <1>1
    <2>1. Len(read) <= 2 /\ w.bosh.state # "connecting"
      BY <1>3, <1>4, <2>0
    <2>2. read # <<>> /\ 1 \in DOMAIN read
      BY <1>1, <1>4
    <2>3. w.bosh.active # <<>>
      BY <1>1, <2>2 DEF Running
    <2> DEFINE c == w.bosh.active[1]
               s == Flow(w, read, c)
    <2>9. First(w.bosh, c)
      BY <2>3 DEF First
    <2>4. /\ 1 \in DOMAIN s /\ s[1] = read[1] /\ Line(w.bosh, c, s, w.link[c])
          /\ (s # <<>> => w.bosh.open >= 1)
      BY <1>1, <2>2, <2>9, FrontFlow
    <2> HIDE DEF s, c
    <2>5. read[1].answer.kind # "session"
      BY <2>1, <2>4 DEF Line, Begins
    <2>6. s # <<>>
      BY <2>4
    <2>7. w.bosh.open \in Nat /\ u.bosh.open \in Nat
      <3>1. w.bosh \in Members /\ u.bosh \in Members
        BY <1>1, Parts
      <3>2. \A b \in Members : b.open \in Nat
        BY DEF Members
      <3> QED BY <3>1, <3>2
    <2>8. u.bosh.open >= w.bosh.open /\ u.bosh.active # <<>>
      BY <2>3 DEF Onward
    <2> QED BY <1>2, <2>0, <2>1, <2>4, <2>5, <2>6, <2>7, <2>8
  <1>5. Over(v, read, l)
    BY <1>2, <1>4 DEF Over
  <1>6. Placed(v.bosh)
    BY <1>1, <1>2 DEF Placed
  <1>7. Turns(v, read, l) /\ ~Alive(v)
    BY <1>1, <1>2 DEF Turns, Alive
  <1> QED BY <1>1, <1>2, <1>5, <1>6, <1>7 DEF Holds

\* sendXML() keeps what holds.
LEMMA Xml ==
  ASSUME NEW w, NEW read, NEW l, Holds(w, read, l), Alive(w), NEW lucky \in BOOLEAN,
         NEW u \in Worlds, Kin(w.bosh, u.bosh), u.bosh.mode = w.bosh.mode, u.link = w.link,
         NEW v, v = SendXML(u, lucky)
  PROVE  Holds(v, read, l)
PROOF
  <1>1. /\ w \in Worlds /\ read \in Seq(Piece) /\ Turns(w, read, l) /\ Running(w, read)
        /\ Placed(w.bosh)
    BY DEF Holds
  <1>2. Running(u, read) /\ Placed(u.bosh)
    BY <1>1, RunKin DEF Kin, Placed
  <1>3. Slots(u.bosh) /\ u.bosh.state = w.bosh.state
    BY <1>2 DEF Running, Kin
  <1>4. /\ Onward(u, v)
        /\ u.bosh.state # "connected" => v = u
        /\ Withheld(u, v) \/ \E c \in Conns, r \in Requested : SentNext(u, v, r, c)
    BY <1>2, <1>3, SendsXml
  <1>5. v \in Worlds /\ Placed(v.bosh) /\ (v.bosh.active # <<>> \/ u.bosh.active = <<>>)
    BY <1>4 DEF Onward
  <1>6. Running(v, read) /\ v.bosh.state = u.bosh.state
    <2>1. CASE u.bosh.state # "connected"
      BY <1>2, <1>4, <2>1
    <2>2. CASE u.bosh.state = "connected" /\ Withheld(u, v)
      <3>1. v.bosh.state = u.bosh.state
        BY <2>2 DEF Withheld, Alike
      <3> QED BY <1>1, <1>2, <1>5, <2>2, <3>1, RunUnsent
    <2>3. CASE u.bosh.state = "connected" /\ ~Withheld(u, v)
      <3>1. PICK c \in Conns, r \in Requested : SentNext(u, v, r, c)
        BY <1>4, <2>3
      <3>2. v.bosh.state = u.bosh.state
        BY <3>1 DEF SentNext
      <3> QED BY <1>1, <1>2, <1>5, <3>1, <3>2, RunSent
    <2> QED BY <2>1, <2>2, <2>3
  <1>7. Turns(v, read, l) /\ Alive(v)
    BY <1>1, <1>3, <1>6 DEF Turns, Alive
  <1> QED BY <1>1, <1>5, <1>6, <1>7 DEF Holds

\* What happens on one connection c.
OnOne(w, v, read, more, c) ==
  /\ v.bosh = w.bosh /\ \A x \in Conns : x # c => v.link[x] = w.link[x]
  /\ more = read \/ First(w.bosh, c)
  /\ Line(w.bosh, c, Flow(v, more, c), v.link[c])
  /\ OursAt(v, more, c) \subseteq OursAt(w, read, c)

LEMMA RunLink ==
  ASSUME NEW w \in Worlds, NEW v \in Worlds, NEW read \in Seq(Piece), NEW more \in Seq(Piece),
         Running(w, read), NEW c \in Conns, OnOne(w, v, read, more, c)
  PROVE  /\ Running(v, more)
         /\ \A x \in Conns : x # c => OursAt(v, more, x) = OursAt(w, read, x)
PROOF
  <1>0. /\ v.bosh = w.bosh /\ \A x \in Conns : x # c => v.link[x] = w.link[x]
        /\ more = read \/ First(w.bosh, c)
        /\ Line(w.bosh, c, Flow(v, more, c), v.link[c])
        /\ OursAt(v, more, c) \subseteq OursAt(w, read, c)
    BY DEF OnOne
  <1>1. /\ Lines(w, read) /\ Across(w, read) /\ Slots(w.bosh)
        /\ (read # <<>> => w.bosh.active # <<>>)
    BY DEF Running
  <1>2. \A x \in Conns : x # c => Flow(v, more, x) = Flow(w, read, x)
    BY <1>0 DEF Flow, First
  <1>3. \A x \in Conns : x # c => OursAt(v, more, x) = OursAt(w, read, x)
    BY <1>0, <1>2 DEF OursAt
  <1>4. Lines(v, more)
    BY <1>0, <1>1, <1>2 DEF Lines
  <1>5. Across(v, more)
    <2>1. w.bosh.active \in Seq(Conns)
      BY Parts DEF Members
    <2>2. \A i \in DOMAIN w.bosh.active : w.bosh.active[i] \in Conns
      BY <2>1
    <2>3. \A x \in Conns : OursAt(v, more, x) \subseteq OursAt(w, read, x)
      BY <1>0, <1>3
    <2> QED BY <1>0, <1>1, <2>2, <2>3 DEF Across
  <1> QED BY <1>0, <1>1, <1>3, <1>4, <1>5 DEF Running, First

\* recv() takes some of the pieces that came.
Takes(w, v, read, more, c, k) ==
  /\ more = read \o SubSeq(w.link[c].pieces, 1, k)
  /\ v.link = [w.link EXCEPT ![c].pieces =
                 SubSeq(w.link[c].pieces, k + 1, Len(w.link[c].pieces))]

LEMMA Reads ==
  ASSUME NEW w \in Worlds, NEW v \in Worlds, NEW read \in Seq(Piece), NEW more \in Seq(Piece),
         Running(w, read), v.bosh = w.bosh, NEW c \in Conns, First(w.bosh, c),
         NEW k \in 1..Len(w.link[c].pieces), Takes(w, v, read, more, c, k)
  PROVE  /\ Running(v, more) /\ \A x \in Conns : OursAt(v, more, x) = OursAt(w, read, x)
         /\ Flow(v, more, c) = Flow(w, read, c)
         /\ v.link[c].requests = w.link[c].requests /\ v.link[c].eof = w.link[c].eof
PROOF
  <1> DEFINE l == w.link[c]
             p == l.pieces
             a == SubSeq(p, 1, k)
             z == SubSeq(p, k + 1, Len(p))
  <1>0. /\ w.link \in Links /\ l \in Link /\ p \in Seq(Piece) /\ Len(p) \in Nat
    BY Parts DEF Link
  <1>1. /\ v.link[c] = [l EXCEPT !.pieces = z]
        /\ \A x \in Conns : x # c => v.link[x] = w.link[x]
        /\ more = read \o a
    BY <1>0 DEF Links, Takes
  <1>2. a \in Seq(Piece) /\ z \in Seq(Piece)
    BY <1>0
  <1>3. a \o z = p
    <2> HIDE DEF p
    <2>1. k \in 1..Len(p)
      BY DEF p
    <2> QED BY <1>0, <2>1, Split
  <1>4. more \o z = read \o p
    <2>1. (read \o a) \o z = read \o (a \o z)
      <3> HIDE DEF a, z
      <3> QED BY SMTT(30), <1>2, Three
    <2> QED BY <1>1, <1>3, <2>1
  <1> HIDE DEF a, z
  <1>5. /\ v.link[c].pieces = z /\ v.link[c].requests = l.requests
        /\ v.link[c].eof = l.eof /\ v.link[c].up = l.up
    BY <1>0, <1>1, <1>2 DEF Link
  <1>6. Flow(v, more, c) = Flow(w, read, c)
    BY <1>4, <1>5 DEF Flow
  <1>7. Active(w.bosh, c)
    <2>1. w.bosh.active \in Seq(Conns)
      BY Parts DEF Members
    <2>2. 1 \in DOMAIN w.bosh.active
      BY <2>1 DEF First
    <2> QED BY <2>2 DEF First, Active
  <1>8. Line(w.bosh, c, Flow(w, read, c), l)
    BY DEF Running, Lines
  <1>9. l.up
    <2>1. l = Down => l.pieces = <<>>
      BY DEF Down
    <2>2. p # <<>>
      BY <1>0
    <2> QED BY <1>8, <2>1, <2>2 DEF Line
  <1> HIDE DEF l
  <1>10. Line(w.bosh, c, Flow(v, more, c), v.link[c])
    BY <1>5, <1>6, <1>7, <1>8, <1>9 DEF Line, Ends
  <1>11. OursAt(v, more, c) = OursAt(w, read, c)
    BY <1>5, <1>6 DEF OursAt, l
  <1>12. OursAt(v, more, c) \subseteq OursAt(w, read, c)
    BY <1>11
  <1>13. Running(v, more) /\ \A x \in Conns : x # c => OursAt(v, more, x) = OursAt(w, read, x)
    <2>1. OnOne(w, v, read, more, c)
      BY <1>1, <1>10, <1>12 DEF OnOne
    <2> QED BY <2>1, RunLink
  <1> QED BY <1>5, <1>6, <1>11, <1>13 DEF l

\* The manager may give the answers that the model gives.
LEMMA Answering ==
  ASSUME NEW r \in Requested, NEW a \in Answers(r) \cup Refusals(r)
  PROVE  a \in Answered /\ MayAnswer(r, a)
PROOF
  <1>1. CASE a \in Answers(r)
    <2>1. Limits \subseteq Nat
      BY ConstantsAssumption
    <2> QED BY <1>1, <2>1 DEF Answers, Answered, Requested, Opening, MaySee, MayAnswer
  <1>2. CASE a \in Refusals(r)
    BY <1>2 DEF Refusals, Answered, Requested, Opening, Kinds, MayAnswer
  <1> QED BY <1>1, <1>2

\* The manager answers.
Brings(w, v, c, a) ==
  v.link = [w.link EXCEPT
             ![c].pieces = w.link[c].pieces \o Pieces(c, a), ![c].eof = a.last,
             ![c].requests = IF a.last THEN <<>> ELSE Tail(w.link[c].requests)]

LEMMA Replies ==
  ASSUME NEW w \in Worlds, NEW v \in Worlds, NEW read \in Seq(Piece),
         Running(w, read), v.bosh = w.bosh, NEW c \in Conns, w.link[c].requests # <<>>,
         NEW a \in Answered, MayAnswer(w.link[c].requests[1], a), Brings(w, v, c, a)
  PROVE  /\ Running(v, read)
         /\ \A x \in Conns : x # c => OursAt(v, read, x) = OursAt(w, read, x)
         /\ ~a.last \/ Len(w.link[c].requests) = 1 => OursAt(v, read, c) = OursAt(w, read, c)
         /\ Flow(v, read, c) = Flow(w, read, c) \o Pieces(c, a)
PROOF
  <1> DEFINE l == w.link[c]
             s == Flow(w, read, c)
             r == l.requests[1]
             t == Pieces(c, a)
             z == s \o t
             m == [l EXCEPT !.pieces = l.pieces \o t, !.eof = a.last,
                            !.requests = IF a.last THEN <<>> ELSE Tail(l.requests)]
  <1>0. /\ w.link \in Links /\ l \in Link /\ l.pieces \in Seq(Piece)
        /\ l.requests \in Seq(Requested)
        /\ w.bosh \in Members /\ s \in Seq(Piece)
    BY Parts, Reading DEF Link
  <1>1. /\ v.link[c] = m /\ \A x \in Conns : x # c => v.link[x] = w.link[x]
    BY <1>0 DEF Links, Brings
  <1>2. r \in Requested
    BY <1>0
  <1>3. a \in Answered /\ MayAnswer(r, a)
    OBVIOUS
  <1>4. Line(w.bosh, c, s, l)
    BY DEF Running, Lines
  <1> HIDE DEF s, t, z, m, l
  <1>5. /\ m.pieces = l.pieces \o t /\ Line(w.bosh, c, z, m)
        /\ SameRids(s, l.requests, a, z, m.requests)
    <2>1. l.requests # <<>> /\ MayAnswer(l.requests[1], a)
      BY <1>3 DEF l
    <2>2. a \in Answered
      BY <1>3
    <2>3. AnswerComes(c, s, l, a, z, m)
      BY DEF z, m, t, AnswerComes
    <2>4. /\ m.pieces = l.pieces \o Pieces(c, a) /\ Line(w.bosh, c, z, m)
          /\ SameRids(s, l.requests, a, z, m.requests)
      BY <1>0, <1>4, <2>1, <2>2, <2>3, LineAnswered
    <2> QED BY <2>4 DEF t
  <1>6. Flow(v, read, c) = z
    <2>1. v.link[c].pieces = l.pieces \o t
      BY <1>1, <1>5
    <2>2. t \in Seq(Piece)
      BY <1>3, Halves DEF t
    <2> DEFINE p == l.pieces
    <2>4. p \in Seq(Piece)
      BY <1>0
    <2> HIDE DEF p
    <2>5. (read \o p) \o t = read \o (p \o t)
      BY <2>2, <2>4, Three
    <2>3. (read \o l.pieces) \o t = read \o (l.pieces \o t)
      BY <2>5 DEF p
    <2> QED BY <2>1, <2>3 DEF Flow, z, s, l
  <1>7. OursAt(v, read, c) = Ours(z, m.requests) /\ OursAt(w, read, c) = Ours(s, l.requests)
    BY <1>1, <1>6 DEF OursAt, s, l
  <1>8. /\ Running(v, read)
        /\ \A x \in Conns : x # c => OursAt(v, read, x) = OursAt(w, read, x)
    <2>1. Line(w.bosh, c, Flow(v, read, c), v.link[c])
      BY <1>1, <1>5, <1>6
    <2>2. OursAt(v, read, c) \subseteq OursAt(w, read, c)
      BY <1>5, <1>7 DEF SameRids
    <2>3. OnOne(w, v, read, read, c)
      BY <1>1, <2>1, <2>2 DEF OnOne
    <2> QED BY <2>3, RunLink
  <1>9. Flow(v, read, c) = Flow(w, read, c) \o Pieces(c, a)
    BY <1>6 DEF z, s, t
  <1> QED BY <1>5, <1>7, <1>8, <1>9 DEF l, SameRids

\* A connection is lost.
LEMMA Losses ==
  ASSUME NEW w \in Worlds, NEW v \in Worlds, NEW read \in Seq(Piece),
         Running(w, read), v.bosh = w.bosh, NEW c \in Conns, w.link[c].up,
         v.link = [w.link EXCEPT ![c].eof = TRUE, ![c].requests = <<>>]
  PROVE  Running(v, read)
PROOF
  <1> DEFINE l == w.link[c]
             s == Flow(w, read, c)
             yes == TRUE
             none == <<>>
             m == [l EXCEPT !.eof = yes, !.requests = none]
  <1>0. w.link \in Links /\ l \in Link
    BY Parts
  <1>1. v.link[c] = m /\ \A x \in Conns : x # c => v.link[x] = w.link[x]
    BY <1>0 DEF Links
  <1>2. Line(w.bosh, c, s, l)
    BY DEF Running, Lines
  <1>3. yes /\ none = <<>> /\ DOMAIN none = {} /\ Len(none) = 0
    OBVIOUS
  <1> HIDE DEF yes, none, l, s
  <1>4. m.eof = yes /\ m.requests = none /\ m.pieces = l.pieces /\ m.up = l.up
    BY <1>0 DEF Link
  <1> HIDE DEF m
  <1>5. Flow(v, read, c) = s
    BY <1>1, <1>4 DEF Flow, s, l
  <1>6. /\ Ordered(w.bosh, s, none) /\ Counted(w.bosh, s, none) /\ Begins(w.bosh, s, none)
        /\ Ends(s, m) /\ (w.bosh.mode # "pipelining" => Solo(s, none))
    BY <1>2, <1>3, <1>4 DEF Line, Ordered, Counted, Begins, Ends, Solo
  <1>7. Line(w.bosh, c, s, m)
    BY <1>2, <1>3, <1>4, <1>6 DEF Line, l
  <1>8. OursAt(v, read, c) \subseteq OursAt(w, read, c)
    BY <1>1, <1>3, <1>4, <1>5 DEF OursAt, Ours, s
  <1>9. OnOne(w, v, read, read, c)
    BY <1>1, <1>5, <1>7, <1>8 DEF OnOne
  <1> QED BY <1>9, RunLink

\* What the first answer is and what it leaves, z, on its connection c.
FirstAnswer(w, read, a, more, c, z) ==
  /\ a = read[1].answer /\ more = SubSeq(read, 3, Len(read))
  /\ First(w.bosh, c) /\ z = more \o w.link[c].pieces

LEMMA FrontTaken ==
  ASSUME NEW w \in Worlds, NEW read \in Seq(Piece), Running(w, read), Len(read) >= 2,
         NEW a, NEW more, NEW c, NEW z, FirstAnswer(w, read, a, more, c, z)
  PROVE  /\ c \in Conns /\ a \in Answered /\ more \in Seq(Piece) /\ z \in Seq(Piece)
         /\ z = SubSeq(Flow(w, read, c), 3, Len(Flow(w, read, c)))
         /\ Len(Flow(w, read, c)) >= 2 /\ Flow(w, read, c)[1].answer = a
         /\ Len(more) = Len(read) - 2 /\ Len(more) <= Len(z) /\ Len(z) <= 2
         /\ w.bosh.open >= 1 /\ Active(w.bosh, c)
PROOF
  <1> DEFINE s == Flow(w, read, c)
             p == w.link[c].pieces
  <1>1. /\ a = read[1].answer /\ more = SubSeq(read, 3, Len(read))
        /\ First(w.bosh, c) /\ z = more \o p
    BY DEF FirstAnswer
  <1>2. /\ c \in Conns /\ Active(w.bosh, c)
        /\ s = read \o p /\ Len(s) = Len(read) + Len(p)
        /\ Len(read) \in Nat /\ Len(p) \in Nat
        /\ Line(w.bosh, c, s, w.link[c]) /\ Len(s) <= 4
        /\ s # <<>> => w.bosh.open >= 1
    BY <1>1, FrontFlow
  <1>3. /\ p \in Seq(Piece) /\ s \in Seq(Piece) /\ w.link[c] \in Link /\ w.bosh \in Members
    BY <1>2, Parts, Reading
  <1>4. /\ read[1] \in Piece /\ a \in Answered
    <2>1. read[1] \in Piece
      OBVIOUS
    <2> QED BY <1>1, <2>1 DEF Piece
  <1> HIDE DEF s, p
  <1>5. more \in Seq(Piece) /\ Len(more) = Len(read) - 2
    BY <1>1, Dropped
  <1>6. /\ z \in Seq(Piece) /\ Len(z) = Len(read) - 2 + Len(p)
        /\ z = SubSeq(s, 3, Len(s))
    <2>1. z \in Seq(Piece) /\ Len(z) = Len(more) + Len(p)
      BY <1>1, <1>3, <1>5
    <2>2. SubSeq(s, 3, Len(s)) \in Seq(Piece) /\ Len(SubSeq(s, 3, Len(s))) = Len(s) - 2
      BY <1>2, <1>3
    <2>3. ASSUME NEW i \in 1..Len(z) PROVE z[i] = SubSeq(s, 3, Len(s))[i]
      <3>1. i \in Nat /\ i + 2 \in 1..Len(s) /\ SubSeq(s, 3, Len(s))[i] = s[i + 2]
        BY <1>2, <1>3, <1>5, <2>1
      <3>2. CASE i <= Len(more)
        <4>1. z[i] = more[i] /\ more[i] = read[i + 2] /\ s[i + 2] = read[i + 2]
          BY <1>1, <1>2, <1>3, <1>5, <3>1, <3>2
        <4> QED BY <3>1, <4>1
      <3>3. CASE i > Len(more)
        <4>1. z[i] = p[i - Len(more)]
          BY <1>1, <1>3, <1>5, <2>1, <3>1, <3>3
        <4>2. s[i + 2] = p[i + 2 - Len(read)]
          BY SMTT(30), <1>2, <1>3, <1>5, <3>1, <3>3
        <4>3. i - Len(more) = i + 2 - Len(read)
          BY <1>2, <1>5, <3>1
        <4> QED BY <3>1, <4>1, <4>2, <4>3
      <3> QED BY <1>5, <3>1, <3>2, <3>3
    <2>4. Len(z) = Len(SubSeq(s, 3, Len(s)))
      BY <1>2, <1>5, <2>1, <2>2
    <2>5. z = SubSeq(s, 3, Len(s))
      BY <2>1, <2>2, <2>3, <2>4, SeqEqual
    <2> QED BY <1>5, <2>1, <2>5
  <1>7. s[1].answer = a /\ s # <<>>
    BY <1>1, <1>2, <1>3
  <1>8. Len(more) <= Len(z) /\ Len(z) <= 2 /\ Len(s) >= 2
    BY <1>2, <1>5, <1>6
  <1> QED BY <1>2, <1>4, <1>5, <1>6, <1>7, <1>8 DEF s

\* What the answer leaves is younger, and nothing when it is the last.
Younger(w, read, a, c, z) ==
  /\ OursAt(w, read, c) = Ours(z, w.link[c].requests) \cup {a.rid}
  /\ a.rid \in Rids /\ AgeAt(w.bosh.rid, a.rid) < w.bosh.open
  /\ \A r \in Ours(z, w.link[c].requests) :
       Older(w.bosh, a.rid, r) /\ AgeAt(w.bosh.rid, r) < w.bosh.open - 1
  /\ \A x \in Conns : x # c => \A r \in OursAt(w, read, x) :
       Older(w.bosh, a.rid, r) /\ AgeAt(w.bosh.rid, r) < w.bosh.open - 1

LEMMA FrontLeaves ==
  ASSUME NEW w \in Worlds, NEW read \in Seq(Piece), Running(w, read), Len(read) >= 2,
         NEW a, NEW more, NEW c, NEW z, FirstAnswer(w, read, a, more, c, z)
  PROVE  /\ Line(w.bosh, c, z, w.link[c]) /\ Younger(w, read, a, c, z)
         /\ w.bosh.mode # "pipelining" \/ a.last => z = <<>> /\ w.link[c].requests = <<>>
         /\ a.kind = "session" => w.bosh.state = "connecting"
         /\ w.bosh.state = "connecting" => Opening(a)
PROOF
  <1> DEFINE s == Flow(w, read, c)
             l == w.link[c]
             q == l.requests
             b == w.bosh
  <1>1. /\ c \in Conns /\ a \in Answered /\ z \in Seq(Piece) /\ Active(b, c)
        /\ z = SubSeq(s, 3, Len(s)) /\ Len(s) >= 2 /\ s[1].answer = a /\ b.open >= 1
    BY FrontTaken
  <1>2. /\ s \in Seq(Piece) /\ l \in Link /\ b \in Members /\ q \in Seq(Requested)
        /\ b.rid \in Rids /\ b.open \in 0..2
    <2>1. b \in Members
      BY Parts
    <2> QED BY <1>1, <2>1, Reading DEF Members
  <1>3. Line(b, c, s, l) /\ Lines(w, read) /\ Across(w, read)
    BY <1>1 DEF Running, Lines
  <1>4. First(b, c)
    BY DEF FirstAnswer
  <1>5. OursAt(w, read, c) = Ours(s, q)
    BY DEF OursAt
  <1> HIDE DEF s, l, b
  <1>6. /\ Line(b, c, z, l)
        /\ Ours(s, l.requests) = Ours(z, l.requests) \cup {a.rid}
        /\ AgeAt(b.rid, a.rid) < b.open
        /\ \A r \in Ours(z, l.requests) : Older(b, a.rid, r)
        /\ a.last => l.eof /\ l.requests = <<>> /\ z = <<>>
        /\ Len(z) = Len(s) - 2
    <2>1. TakenFrom(s, a, z)
      BY <1>1 DEF TakenFrom
    <2>2. s \in Seq(Piece) /\ l \in Link /\ b \in Members /\ Line(b, c, s, l)
      BY <1>2, <1>3
    <2>3. Leaves(b, c, s, a, z, l)
      BY <2>1, <2>2, LineTaken
    <2> QED BY <2>3 DEF Leaves
  <1>7. a.rid \in Rids
    BY <1>1 DEF Answered
  <1>8. ASSUME NEW x \in Conns, x # c, NEW r \in OursAt(w, read, x)
        PROVE  Older(b, a.rid, r) /\ r \in Rids
    <2>1. CASE ~Active(b, x)
      BY <1>3, <1>8, <2>1, Quiet DEF b
    <2>2. CASE Active(b, x)
      <3>1. b.active \in Seq(Conns)
        BY <1>2 DEF Members
      <3>2. PICK j \in DOMAIN b.active : b.active[j] = x
        BY <2>2 DEF Active
      <3>3. 1 \in DOMAIN b.active /\ b.active[1] = c /\ 1 < j
        BY <1>4, <1>8, <3>1, <3>2 DEF First
      <3>4. a.rid \in OursAt(w, read, c)
        BY <1>5, <1>6 DEF l
      <3>5. Older(b, a.rid, r)
        BY <1>3, <1>8, <3>2, <3>3, <3>4 DEF Across, b
      <3> QED BY <1>8, <3>5, Reading
    <2> QED BY <2>1, <2>2
  <1>9. \A r \in Rids : Older(b, a.rid, r) => AgeAt(b.rid, r) < b.open - 1
    <2> SUFFICES ASSUME NEW r \in Rids, Older(b, a.rid, r) PROVE AgeAt(b.rid, r) < b.open - 1
      OBVIOUS
    <2>1. AgeAt(b.rid, r) \in Int /\ AgeAt(b.rid, a.rid) \in Int
      BY <1>2, <1>7, Ages
    <2> QED BY <1>2, <1>6, <2>1 DEF Older
  <1>10. Ours(z, l.requests) \subseteq Rids
    BY <1>1, <1>2, LineTypes DEF l
  <1>11. Younger(w, read, a, c, z)
    BY <1>5, <1>6, <1>7, <1>8, <1>9, <1>10 DEF Younger, l, b
  <1>12. ASSUME b.mode # "pipelining" \/ a.last PROVE z = <<>> /\ l.requests = <<>>
    <2>1. CASE a.last
      BY <1>6, <2>1
    <2>2. CASE b.mode # "pipelining"
      <3>1. Len(s) <= 2 /\ (l.requests = <<>> \/ s = <<>>) /\ Len(s) \in Nat
        BY <1>2, <1>3, <2>2 DEF Line, Solo
      <3>2. Len(z) = 0 /\ s # <<>>
        BY <1>1, <1>2, <1>6, <3>1
      <3> QED BY <1>1, <3>1, <3>2
    <2> QED BY <1>12, <2>1, <2>2
  <1>13. /\ a.kind = "session" => b.state = "connecting"
         /\ b.state = "connecting" => Opening(a)
    <2>1. 1 \in DOMAIN s
      BY <1>1, <1>2
    <2> QED BY <1>1, <1>3, <2>1 DEF Line, Begins
  <1> QED BY <1>6, <1>11, <1>12, <1>13 DEF l, b

\* putConnection(): in a pipeline connection c stays, or else it goes to the pool.
PutBack(w, v, a, c) ==
  /\ v.bosh.mode = IF a.last THEN "legacy" ELSE w.bosh.mode
  /\ v.bosh.mode = "pipelining" =>
       v.bosh.active = w.bosh.active /\ v.bosh.pool = w.bosh.pool
  /\ v.bosh.mode # "pipelining" =>
       v.bosh.active = Tail(w.bosh.active) /\ v.bosh.pool = Append(w.bosh.pool, c)
  /\ \A x \in Conns :
       v.link[x] = IF x = c /\ v.bosh.mode = "legacy" THEN Down ELSE w.link[x]

\* An answer is counted.
GoesOn(w, v, a, c) ==
  /\ a.ok /\ a.kind # "end"
  /\ v.bosh.rid = w.bosh.rid /\ v.bosh.open = w.bosh.open - 1
  /\ v.bosh.state = IF a.kind = "session" THEN "connected" ELSE w.bosh.state
  /\ PutBack(w, v, a, c)

\* The session runs on after an answer.
LEMMA RunTaken ==
  ASSUME NEW w \in Worlds, NEW read \in Seq(Piece), Running(w, read), Len(read) >= 2,
         NEW a, NEW more, NEW c, NEW z, FirstAnswer(w, read, a, more, c, z),
         NEW v \in Worlds, GoesOn(w, v, a, c)
  PROVE  /\ Running(v, more)
         /\ \A x \in Conns : x # c => OursAt(v, more, x) = OursAt(w, read, x)
         /\ OursAt(v, more, c) = Ours(z, w.link[c].requests)
         /\ \A x \in Conns : x # c => Flow(v, more, x) = Flow(w, read, x)
         /\ Flow(v, more, c) = z /\ v.link[c].requests = w.link[c].requests
PROOF
  <1> DEFINE b == w.bosh
             d == v.bosh
             p == w.link[c].pieces
             q == w.link[c].requests
  <1>1. /\ c \in Conns /\ a \in Answered /\ z \in Seq(Piece) /\ more \in Seq(Piece)
        /\ Active(b, c) /\ b.open >= 1
    BY FrontTaken
  <1>2. /\ Line(b, c, z, w.link[c]) /\ Younger(w, read, a, c, z)
        /\ b.mode # "pipelining" \/ a.last => z = <<>> /\ q = <<>>
        /\ a.kind = "session" => b.state = "connecting"
        /\ b.state = "connecting" => Opening(a)
    BY FrontLeaves
  <1>3. /\ b \in Members /\ d \in Members /\ b.open \in 0..2 /\ d.open \in 0..2
        /\ b.active \in Seq(Conns) /\ b.pool \in Seq(Conns) /\ w.link[c] \in Link
        /\ p \in Seq(Piece) /\ b.mode \in {"pipelining", "persistent", "legacy"}
        /\ b.state \in {"disconnected", "connecting", "connected"}
    <2>1. b \in Members /\ d \in Members
      BY Parts
    <2>2. w.link[c] \in Link /\ p \in Seq(Piece)
      BY <1>1, Parts, Reading
    <2> QED BY <2>1, <2>2 DEF Members
  <1>4. /\ d.rid = b.rid /\ d.open = b.open - 1
        /\ d.state = IF a.kind = "session" THEN "connected" ELSE b.state
        /\ d.mode = IF a.last THEN "legacy" ELSE b.mode
        /\ d.mode = "pipelining" => d.active = b.active /\ d.pool = b.pool
        /\ d.mode # "pipelining" => d.active = Tail(b.active)
    BY DEF GoesOn, PutBack
  <1>5. /\ \A x \in Conns : x # c => v.link[x] = w.link[x]
        /\ v.link[c] = Down \/ v.link[c] = w.link[c]
        /\ d.mode = "pipelining" => v.link[c] = w.link[c]
    BY <1>1 DEF GoesOn, PutBack
  <1>6. First(b, c) /\ z = more \o p
    BY DEF FirstAnswer
  <1>7. Lines(w, read) /\ Across(w, read) /\ Slots(b)
    BY DEF Running
  <1> HIDE DEF b, d, p, q
  <1>8. d.mode # "pipelining" => z = <<>> /\ q = <<>> /\ more = <<>> /\ p = <<>>
    <2> SUFFICES ASSUME d.mode # "pipelining"
                 PROVE  z = <<>> /\ q = <<>> /\ more = <<>> /\ p = <<>>
      OBVIOUS
    <2>1. z = <<>> /\ q = <<>>
      BY <1>2, <1>4
    <2>2. more \o p = <<>>
      BY <1>6, <2>1
    <2>3. Len(more \o p) = Len(more) + Len(p) /\ Len(more) \in Nat /\ Len(p) \in Nat
      BY <1>1, <1>3
    <2>4. Len(more) = 0 /\ Len(p) = 0
      BY <2>2, <2>3
    <2> QED BY <1>1, <1>3, <2>1, <2>4
  <1>9. \A x \in Conns : x # c => Flow(v, more, x) = Flow(w, read, x)
    <2> SUFFICES ASSUME NEW x \in Conns, x # c PROVE Flow(v, more, x) = Flow(w, read, x)
      OBVIOUS
    <2>1. ~First(b, x)
      BY <1>6 DEF First
    <2>2. Flow(w, read, x) = w.link[x].pieces /\ w.link[x].pieces \in Seq(Piece)
      BY <2>1, Reading DEF Flow, b
    <2>3. v.link[x].pieces = w.link[x].pieces
      BY <1>5
    <2>4. CASE d.mode = "pipelining"
      <3>1. ~First(d, x)
        BY <1>4, <2>1, <2>4 DEF First
      <3> QED BY <2>2, <2>3, <3>1 DEF Flow, d
    <2>5. CASE d.mode # "pipelining"
      <3>1. more = <<>>
        BY <1>8, <2>5
      <3>2. more \o w.link[x].pieces = w.link[x].pieces
        BY <2>2, <3>1
      <3> QED BY <2>2, <2>3, <3>2 DEF Flow
    <2> QED BY <2>4, <2>5
  <1>10. v.link[c].requests = q /\ Flow(v, more, c) = z
    <2>1. CASE d.mode = "pipelining"
      <3>1. First(d, c) /\ v.link[c] = w.link[c]
        BY <1>4, <1>5, <1>6, <2>1 DEF First
      <3> QED BY <1>6, <3>1 DEF Flow, d, p, q
    <2>2. CASE d.mode # "pipelining"
      <3>1. v.link[c].pieces = <<>> /\ v.link[c].requests = <<>>
        BY <1>5, <1>8, <2>2 DEF Down, p, q
      <3>2. more = <<>> /\ more \o <<>> = <<>>
        BY <1>8, <2>2
      <3> QED BY <1>8, <2>2, <3>1, <3>2 DEF Flow
    <2> QED BY <2>1, <2>2
  <1>11. /\ \A x \in Conns : x # c => OursAt(v, more, x) = OursAt(w, read, x)
         /\ OursAt(v, more, c) = Ours(z, q)
    BY <1>5, <1>9, <1>10 DEF OursAt
  <1>12. d.state = b.state \/ d.open = 0
    <2>1. CASE a.kind = "session"
      <3>1. b.open <= 1
        BY <1>2, <1>7, <2>1 DEF Slots
      <3> QED BY <1>1, <1>3, <1>4, <3>1
    <2>2. CASE a.kind # "session"
      BY <1>4, <2>2
    <2> QED BY <2>1, <2>2
  <1>13. Line(d, c, z, v.link[c])
    <2>1. CASE d.mode = "pipelining"
      <3>1. \A r \in Ours(z, q) : AgeAt(b.rid, r) < d.open
        BY <1>2, <1>4 DEF Younger, b, q
      <3>2. d.state = b.state \/ Ours(z, q) = {}
        <4> SUFFICES ASSUME d.open = 0, NEW r \in Ours(z, q) PROVE FALSE
          BY <1>12
        <4>1. Ours(z, q) \subseteq Rids /\ b.rid \in Rids
          <5>1. q \in Seq(Requested) /\ b.rid \in Rids
            BY <1>3 DEF Link, Members, q
          <5> QED BY <1>1, <5>1, LineTypes
        <4>2. AgeAt(b.rid, r) \in 0..RidCycle - 1
          BY <4>1, Ages
        <4> QED BY <3>1, <4>2, ConstantsAssumption
      <3>3. Active(d, c) /\ v.link[c] = w.link[c]
        BY <1>1, <1>4, <1>5, <2>1 DEF Active
      <3>4. Line(b, c, z, w.link[c])
        BY <1>2
      <3> QED BY <1>4, <2>1, <3>1, <3>2, <3>3, <3>4, LineKept DEF q
    <2>2. CASE d.mode # "pipelining"
      <3>1. v.link[c].pieces = <<>> /\ v.link[c].requests = <<>>
        BY <1>5, <1>8, <2>2 DEF Down, p, q
      <3>2. v.link[c] = Down \/ v.link[c].up
        BY <1>2, <1>5 DEF Line
      <3>3. Line(d, c, <<>>, v.link[c])
        BY <3>1, <3>2, LineBare
      <3> QED BY <1>8, <2>2, <3>3
    <2> QED BY <2>1, <2>2
  <1>14. \A x \in Conns : x # c => Line(d, x, Flow(v, more, x), v.link[x])
    <2> SUFFICES ASSUME NEW x \in Conns, x # c PROVE Line(d, x, Flow(w, read, x), w.link[x])
      BY <1>5, <1>9
    <2> DEFINE s == Flow(w, read, x)
               l == w.link[x]
    <2>1. Line(b, x, s, l)
      BY <1>7 DEF Lines, b
    <2>2. \A r \in Ours(s, l.requests) : AgeAt(b.rid, r) < d.open
      BY <1>2, <1>4 DEF Younger, OursAt, b
    <2>3. d.state = b.state \/ Ours(s, l.requests) = {}
      <3> SUFFICES ASSUME d.open = 0, NEW r \in Ours(s, l.requests) PROVE FALSE
        BY <1>12
      <3>1. r \in Rids /\ b.rid \in Rids
        BY Reading DEF OursAt, b
      <3>2. AgeAt(b.rid, r) \in 0..RidCycle - 1
        BY <3>1, Ages
      <3> QED BY <2>2, <3>2, ConstantsAssumption
    <2>4. Active(b, x) => Active(d, x)
      <3> SUFFICES ASSUME Active(b, x) PROVE Active(d, x)
        OBVIOUS
      <3>1. PICK j \in DOMAIN b.active : b.active[j] = x
        BY DEF Active
      <3>2. CASE d.mode = "pipelining"
        BY <1>4, <3>2 DEF Active
      <3>3. CASE d.mode # "pipelining"
        <4>1. b.active # <<>> /\ j # 1
          BY <1>6, <3>1 DEF First
        <4>2. j - 1 \in DOMAIN Tail(b.active) /\ Tail(b.active)[j - 1] = x
          BY <1>3, <3>1, <4>1, Rest
        <4> QED BY <1>4, <3>3, <4>2 DEF Active
      <3> QED BY <3>2, <3>3
    <2>5. ~Active(b, x) => l.requests = <<>> /\ l.pieces = <<>> /\ s = <<>>
      BY <1>7, Quiet DEF b
    <2>6. d.mode # "pipelining" => b.mode # "pipelining" \/ Solo(s, l.requests)
      <3> SUFFICES ASSUME b.mode = "pipelining" PROVE Solo(s, l.requests)
        OBVIOUS
      <3>1. Len(b.active) = 1
        BY <1>7 DEF Slots
      <3>2. ~Active(b, x)
        <4>1. DOMAIN b.active = {1}
          BY <1>3, <3>1
        <4> QED BY <1>6, <4>1 DEF Active, First
      <3>3. s = <<>> /\ l.requests = <<>> /\ Len(<<>>) = 0
        BY <2>5, <3>2
      <3> QED BY <3>3 DEF Solo
    <2> HIDE DEF s, l
    <2>7. Active(d, x) \/ (l.requests = <<>> /\ l.pieces = <<>>)
      BY <2>4, <2>5
    <2>8. Line(d, x, s, l)
      BY <1>4, <2>1, <2>2, <2>3, <2>6, <2>7, LineKept
    <2> QED BY <2>8 DEF s, l
  <1>15. Lines(v, more)
    BY <1>10, <1>13, <1>14 DEF Lines, d
  <1>16. \A x \in Conns : OursAt(v, more, x) \subseteq OursAt(w, read, x)
    BY <1>2, <1>11 DEF Younger, q
  <1>17. Across(v, more)
    <2> SUFFICES ASSUME NEW i \in DOMAIN d.active, NEW j \in DOMAIN d.active, i < j,
                        NEW r \in OursAt(v, more, d.active[i]),
                        NEW s \in OursAt(v, more, d.active[j])
                 PROVE  Older(d, r, s)
      BY DEF Across, d
    <2>1. \A k \in DOMAIN b.active : b.active[k] \in Conns
      BY <1>3
    <2>2. PICK k \in DOMAIN b.active, n \in DOMAIN b.active :
            k < n /\ d.active[i] = b.active[k] /\ d.active[j] = b.active[n]
      <3>1. CASE d.mode = "pipelining"
        BY <1>4, <3>1
      <3>2. CASE d.mode # "pipelining"
        <4>1. b.active # <<>> /\ d.active = Tail(b.active)
          BY <1>4, <1>6, <3>2 DEF First
        <4>2. /\ i + 1 \in DOMAIN b.active /\ d.active[i] = b.active[i + 1]
              /\ j + 1 \in DOMAIN b.active /\ d.active[j] = b.active[j + 1]
              /\ i \in Int /\ j \in Int
          BY SMTT(30), <1>3, <4>1, Rest
        <4>3. i + 1 < j + 1
          BY <4>2
        <4> QED BY <4>2, <4>3
      <3> QED BY <3>1, <3>2
    <2>3. r \in OursAt(w, read, b.active[k]) /\ s \in OursAt(w, read, b.active[n])
      BY <1>16, <2>1, <2>2
    <2>4. Older(b, r, s)
      BY <1>7, <2>2, <2>3 DEF Across, b
    <2> QED BY <1>4, <2>4 DEF Older
  <1>18. Slots(d)
    <2>1. d.open <= 1
      BY <1>3, <1>4
    <2>2. d.mode = "pipelining" => b.mode = "pipelining"
      BY <1>4
    <2>3. d.state # "connecting"
      BY <1>2, <1>4 DEF GoesOn, Opening
    <2> QED BY <1>4, <1>7, <2>1, <2>2, <2>3 DEF Slots
  <1>19. more # <<>> => d.active # <<>>
    BY <1>4, <1>6, <1>8 DEF First
  <1> QED BY <1>9, <1>10, <1>11, <1>15, <1>17, <1>18, <1>19 DEF Running, d, q

-----------------------------------------------------------------------------
(* An answer is handled. *)

\* The answer a is counted, and its connection retired.
Retired(w, a) ==
  LET last == [w EXCEPT !.bosh.mode = IF a.last THEN "legacy" ELSE @]
  IN [PutConnection(last) EXCEPT !.bosh.open = @ - 1]

LEMMA Retires ==
  ASSUME NEW w \in Worlds, Placed(w.bosh), w.bosh.active # <<>>, w.bosh.open >= 1,
         NEW a \in Answered, NEW v, v = Retired(w, a)
  PROVE  /\ v \in Worlds /\ Placed(v.bosh) /\ v.client = w.client /\ Alike(w.bosh, v.bosh)
         /\ v.bosh.open = w.bosh.open - 1 /\ PutBack(w, v, a, w.bosh.active[1])
PROOF
  <1> DEFINE mode == IF a.last THEN "legacy" ELSE w.bosh.mode
             d == [w.bosh EXCEPT !.mode = mode]
             last == [bosh |-> d, link |-> w.link, client |-> w.client]
             c == w.bosh.active[1]
             x == Tail(w.bosh.active)
             y == Append(w.bosh.pool, c)
             put == PutConnection(last)
             less == w.bosh.open - 1
  <1>1. /\ w = [bosh |-> w.bosh, link |-> w.link, client |-> w.client]
        /\ w.bosh \in Members /\ w.link \in Links /\ w.client \in Clients
        /\ w.bosh.active \in Seq(Conns) /\ w.bosh.pool \in Seq(Conns)
        /\ w.bosh.open \in 0..2 /\ mode \in {"pipelining", "persistent", "legacy"}
        /\ less \in 0..2
    BY Parts DEF Members
  <1>2. v = [put EXCEPT !.bosh.open = @ - 1]
    <2>1. last = [w EXCEPT !.bosh.mode = mode]
      <3> HIDE DEF mode
      <3> QED BY <1>1
    <2> QED BY <2>1 DEF Retired
  <1> HIDE DEF mode
  <1>3. /\ d \in Members /\ Alike(w.bosh, d) /\ d.mode = mode /\ d.open = w.bosh.open
        /\ d.active = w.bosh.active /\ d.pool = w.bosh.pool
    BY <1>1, ModeSet DEF Alike
  <1>4. c \in Conns /\ x \in Seq(Conns) /\ y \in Seq(Conns) /\ Apart(x, y)
    <2>1. Apart(w.bosh.pool, w.bosh.active)
      BY <1>1, OtherWay DEF Placed
    <2>2. /\ c \in Conns /\ x \in Seq(Conns) /\ y \in Seq(Conns) /\ Apart(y, x)
      BY <1>1, <2>1, FirstMoves
    <2> QED BY <2>2, OtherWay
  <1>5. last.bosh = d /\ last.link = w.link /\ last.client = w.client
    OBVIOUS
  <1> DEFINE e == [d EXCEPT !.active = x, !.pool = y]
             moved == [last EXCEPT !.bosh.active = x, !.bosh.pool = y]
             down == [w.link EXCEPT ![c] = Down]
  <1>6. /\ e \in Members /\ Alike(w.bosh, e) /\ e.mode = mode /\ e.open = w.bosh.open
        /\ e.active = x /\ e.pool = y
    <2> HIDE DEF d, x, y
    <2> QED BY <1>3, <1>4 DEF Alike, Members
  <1>7. moved = [bosh |-> e, link |-> w.link, client |-> w.client]
    <2>1. moved.bosh = [last.bosh EXCEPT !.active = x, !.pool = y]
      <3> HIDE DEF d, x, y
      <3> QED OBVIOUS
    <2>2. moved = [last EXCEPT !.bosh = [last.bosh EXCEPT !.active = x, !.pool = y]]
      <3> HIDE DEF d, x, y
      <3> QED OBVIOUS
    <2> HIDE DEF moved, d, x, y
    <2> QED BY <2>2
  <1>8. down \in Links /\ \A i \in Conns : down[i] = IF i = c THEN Down ELSE w.link[i]
    <2>1. down \in Links
      BY <1>1, <1>4, Parts
    <2> QED BY <1>1, <1>4, <2>1 DEF Links
  <1>9. put = CASE mode = "legacy" -> [moved EXCEPT !.link[c] = Down]
                [] mode = "persistent" -> moved
                [] OTHER -> last
    BY <1>3 DEF PutConnection
  <1> HIDE DEF put, moved, last, d, e, x, y, down, less
  <1>10. ASSUME NEW f \in Members, NEW l \in Links, Alike(w.bosh, f), f.open = w.bosh.open,
                put = [bosh |-> f, link |-> l, client |-> w.client]
         PROVE  /\ v \in Worlds /\ v.client = w.client /\ Alike(w.bosh, v.bosh)
                /\ v.bosh.open = less /\ v.link = l /\ v.bosh.mode = f.mode
                /\ v.bosh.active = f.active /\ v.bosh.pool = f.pool
    <2> DEFINE g == [f EXCEPT !.open = less]
    <2>1. v = [bosh |-> g, link |-> l, client |-> w.client]
      BY <1>2, <1>10 DEF less
    <2>2. /\ g \in Members /\ Alike(w.bosh, g) /\ g.open = less /\ g.mode = f.mode
          /\ g.active = f.active /\ g.pool = f.pool
      BY <1>1, <1>10, OpenSet DEF Alike
    <2> HIDE DEF g
    <2>3. v \in Worlds /\ v.bosh = g /\ v.link = l /\ v.client = w.client
      BY <1>1, <1>10, <2>1, <2>2, Parts
    <2> QED BY <2>2, <2>3
  <1>11. v.bosh.mode = mode => v.bosh.mode = IF a.last THEN "legacy" ELSE w.bosh.mode
    BY DEF mode
  <1>12. CASE mode = "legacy"
    <2>1. put = [bosh |-> e, link |-> down, client |-> w.client]
      BY <1>7, <1>9, <1>12 DEF down
    <2>2. /\ v \in Worlds /\ v.client = w.client /\ Alike(w.bosh, v.bosh)
          /\ v.bosh.open = less /\ v.link = down /\ v.bosh.mode = mode
          /\ v.bosh.active = x /\ v.bosh.pool = y
      BY <1>6, <1>8, <1>10, <2>1
    <2>3. PutBack(w, v, a, c)
      BY <1>8, <1>11, <1>12, <2>2 DEF PutBack, x, y
    <2> QED BY <1>4, <2>2, <2>3 DEF Placed, less
  <1>13. CASE mode = "persistent"
    <2>1. put = [bosh |-> e, link |-> w.link, client |-> w.client]
      BY <1>7, <1>9, <1>13
    <2>2. /\ v \in Worlds /\ v.client = w.client /\ Alike(w.bosh, v.bosh)
          /\ v.bosh.open = less /\ v.link = w.link /\ v.bosh.mode = mode
          /\ v.bosh.active = x /\ v.bosh.pool = y
      BY <1>1, <1>6, <1>10, <2>1
    <2>3. PutBack(w, v, a, c)
      BY <1>11, <1>13, <2>2 DEF PutBack, x, y
    <2> QED BY <1>4, <2>2, <2>3 DEF Placed, less
  <1>14. CASE mode = "pipelining"
    <2>1. put = [bosh |-> d, link |-> w.link, client |-> w.client]
      BY <1>9, <1>14 DEF last
    <2>2. /\ v \in Worlds /\ v.client = w.client /\ Alike(w.bosh, v.bosh)
          /\ v.bosh.open = less /\ v.link = w.link /\ v.bosh.mode = mode
          /\ v.bosh.active = w.bosh.active /\ v.bosh.pool = w.bosh.pool
      BY <1>1, <1>3, <1>10, <2>1
    <2>3. PutBack(w, v, a, c)
      BY <1>11, <1>14, <2>2 DEF PutBack
    <2> QED BY <2>2, <2>3 DEF Placed, less
  <1> QED BY <1>1, <1>12, <1>13, <1>14

\* What the content of an answer changes: for a session, the end, and others.
LEMMA Tags ==
  ASSUME NEW w \in Worlds, NEW a \in Answered, NEW v, v = HandleTag(w, a)
  PROVE  /\ v \in Worlds /\ v.bosh.mode = w.bosh.mode /\ v.bosh.rid = w.bosh.rid
         /\ v.bosh.open = w.bosh.open /\ v.bosh.sendBuffer = w.bosh.sendBuffer
         /\ v.bosh.active = w.bosh.active /\ v.bosh.pool = w.bosh.pool
         /\ ~v.bosh.restart /\ v.client.begun = w.client.begun
         /\ a.kind # "end" =>
              /\ v.link = w.link /\ v.client = w.client
              /\ v.bosh.state = IF a.kind = "session" THEN "connected" ELSE w.bosh.state
         /\ a.kind = "end" =>
              v.link = AllDown /\ v.client.told /\ v.bosh.state = "disconnected"
PROOF
  <1> DEFINE no == FALSE
             d == [w.bosh EXCEPT !.restart = no]
             go == [bosh |-> d, link |-> w.link, client |-> w.client]
             up == "connected"
             limit == IF a.limit < d.limit THEN a.limit ELSE d.limit
  <1>1. /\ w = [bosh |-> w.bosh, link |-> w.link, client |-> w.client]
        /\ w.bosh \in Members /\ w.link \in Links /\ w.client \in Clients
        /\ no \in BOOLEAN /\ ~no
    BY Parts
  <1>2. v = CASE a.kind = "session" ->
                   [go EXCEPT !.bosh.state = up, !.bosh.limit = IF a.limit < @ THEN a.limit ELSE @]
              [] a.kind = "end" -> Tell(go)
              [] OTHER -> go
    <2> DEFINE gone == [w EXCEPT !.bosh.restart = FALSE]
    <2>1. gone = go
      <3>1. [w EXCEPT !.bosh.restart = no] = go
        <4> HIDE DEF no
        <4> QED BY <1>1
      <3> QED BY <3>1
    <2>2. v = CASE a.kind = "session" ->
                     [gone EXCEPT !.bosh.state = up,
                                  !.bosh.limit = IF a.limit < @ THEN a.limit ELSE @]
                [] a.kind = "end" -> Tell(gone)
                [] OTHER -> gone
      BY Zenon DEF HandleTag
    <2> HIDE DEF gone, go, no
    <2> QED BY <2>1, <2>2, Zenon
  <1> HIDE DEF no
  <1>3. /\ d \in Members /\ d.state = w.bosh.state /\ d.mode = w.bosh.mode
        /\ d.rid = w.bosh.rid /\ d.open = w.bosh.open /\ d.limit = w.bosh.limit
        /\ d.restart = no /\ d.sendBuffer = w.bosh.sendBuffer
        /\ d.active = w.bosh.active /\ d.pool = w.bosh.pool
    BY <1>1, RestartSet
  <1>4. limit \in 0..2
    BY <1>3 DEF Members, Answered
  <1>5. go \in Worlds /\ go.bosh = d /\ go.link = w.link /\ go.client = w.client
    <2> HIDE DEF d
    <2> QED BY <1>1, <1>3, Parts
  <1>6. CASE a.kind = "session"
    <2> DEFINE e == [d EXCEPT !.state = up, !.limit = limit]
    <2>1. v = [bosh |-> e, link |-> w.link, client |-> w.client]
      <3>1. v = [go EXCEPT !.bosh.state = up, !.bosh.limit = limit]
        BY <1>2, <1>5, <1>6
      <3> HIDE DEF limit, d
      <3> QED BY <3>1
    <2> HIDE DEF limit, d
    <2>2. /\ e \in Members /\ e.state = "connected" /\ e.mode = d.mode /\ e.rid = d.rid
          /\ e.open = d.open /\ e.restart = d.restart /\ e.sendBuffer = d.sendBuffer
          /\ e.active = d.active /\ e.pool = d.pool
      BY <1>3, <1>4 DEF Members
    <2> HIDE DEF e
    <2>3. v \in Worlds /\ v.bosh = e /\ v.link = w.link /\ v.client = w.client
      BY <1>1, <2>1, <2>2, Parts
    <2> QED BY <1>1, <1>3, <1>6, <2>2, <2>3
  <1>7. CASE a.kind = "end"
    <2> HIDE DEF d, go
    <2>1. v = Tell(go)
      BY <1>2, <1>7
    <2>2. /\ v \in Worlds /\ v.link = AllDown /\ v.client.told
          /\ v.bosh = [go.bosh EXCEPT !.state = "disconnected"]
          /\ v.client.begun = go.client.begun
      BY <1>5, <2>1, Tells
    <2>3. /\ v.bosh.state = "disconnected" /\ v.bosh.mode = d.mode /\ v.bosh.rid = d.rid
          /\ v.bosh.open = d.open /\ v.bosh.restart = d.restart
          /\ v.bosh.sendBuffer = d.sendBuffer
          /\ v.bosh.active = d.active /\ v.bosh.pool = d.pool
      BY <1>3, <1>5, <2>2, StateSet
    <2> QED BY <1>1, <1>3, <1>5, <1>7, <2>2, <2>3
  <1>8. CASE a.kind \notin {"session", "end"}
    <2> HIDE DEF d, go
    <2>1. v = go
      BY <1>2, <1>8
    <2> QED BY <1>1, <1>3, <1>5, <1>8, <2>1
  <1> QED BY <1>6, <1>7, <1>8

\* The session is broken off.
LEMMA Breaks ==
  ASSUME NEW w \in Worlds, w.bosh.active # <<>>, NEW v, v = Broken(w)
  PROVE  /\ v \in Worlds /\ v.link = AllDown
         /\ v.bosh.state = "disconnected" /\ v.client.told
         /\ v.bosh.active = w.bosh.active /\ v.bosh.pool = w.bosh.pool
         /\ v.bosh.open = w.bosh.open /\ v.client.begun = w.client.begun
         /\ v.bosh.mode = w.bosh.mode
PROOF
  <1>1. v = Tell(w)
    BY DEF Broken, NoConnection
  <1>2. w.bosh \in Members
    BY Parts
  <1>3. [w.bosh EXCEPT !.state = "disconnected"].mode = w.bosh.mode
    BY <1>2, StateSet
  <1> QED BY <1>1, <1>3, Tells

\* What follows a first answer in the buffer is an answer of a pipeline.
LEMMA TwoLeft ==
  ASSUME NEW w \in Worlds, NEW read \in Seq(Piece), Running(w, read), Len(read) >= 2,
         NEW a, NEW more, NEW c, NEW z, FirstAnswer(w, read, a, more, c, z), Len(more) >= 2
  PROVE  /\ w.bosh.mode = "pipelining" /\ ~a.last /\ w.bosh.open >= 2
         /\ more[1].answer.kind # "session"
PROOF
  <1>1. /\ a \in Answered /\ z \in Seq(Piece) /\ more \in Seq(Piece) /\ c \in Conns
        /\ Len(more) <= Len(z) /\ w.bosh.open >= 1
    BY FrontTaken
  <1>2. /\ Line(w.bosh, c, z, w.link[c]) /\ Younger(w, read, a, c, z)
        /\ w.bosh.mode # "pipelining" \/ a.last => z = <<>>
    BY FrontLeaves
  <1>3. 1 \in DOMAIN z /\ z[1] = more[1] /\ z # <<>>
    <2>1. w.link[c].pieces \in Seq(Piece) /\ z = more \o w.link[c].pieces
      BY <1>1, Reading DEF FirstAnswer
    <2> QED BY <1>1, <2>1
  <1>4. w.bosh \in Members /\ w.bosh.rid \in Rids /\ w.bosh.open \in 0..2
    <2>1. w.bosh \in Members
      BY Parts
    <2> QED BY <2>1 DEF Members
  <1>5. w.bosh.open >= 2
    <2>1. z[1].answer.rid \in Ours(z, w.link[c].requests)
      BY <1>3 DEF Ours
    <2>2. AgeAt(w.bosh.rid, z[1].answer.rid) < w.bosh.open - 1
      BY <1>2, <2>1 DEF Younger
    <2>3. z[1].answer.rid \in Rids
      <3>1. z[1] \in Piece
        BY <1>1, <1>3
      <3> QED BY <3>1 DEF Piece, Answered
    <2>4. AgeAt(w.bosh.rid, z[1].answer.rid) \in Nat
      BY <1>4, <2>3, Ages
    <2> QED BY <1>4, <2>2, <2>4
  <1>6. w.bosh.state # "connecting"
    BY <1>4, <1>5 DEF Running, Slots
  <1>7. z[1].answer.kind # "session"
    BY <1>2, <1>3, <1>6 DEF Line, Begins
  <1> QED BY <1>1, <1>2, <1>3, <1>5, <1>7 DEF Answered

\* handleReceivedData() for the first answer in the buffer.
TakesAnswer(w, read, l, v, more, k) ==
  LET a == read[1].answer
      u == IF a.ok THEN w ELSE Broken(w)
      put == Retired(u, a)
  IN IF a.empty
     THEN /\ v = u /\ more = read
          /\ k = [l EXCEPT !.inHandler = FALSE, !.quit = TRUE]
     ELSE /\ v = HandleTag(put, a) /\ more = SubSeq(read, 3, Len(read))
          /\ k = [l EXCEPT !.inHandler = FALSE, !.calls = HandlerCalls(put.bosh, a)]

\* There is a connection to retire, and a request that was answered.
LEMMA Retirable ==
  ASSUME NEW w, NEW read, NEW l, Holds(w, read, l), ~l.quit, Len(read) >= 2,
         NEW a, a = read[1].answer
  PROVE  /\ w \in Worlds /\ Placed(w.bosh) /\ read \in Seq(Piece) /\ l \in Loops
         /\ a \in Answered /\ w.bosh.active # <<>> /\ w.bosh.open >= 1
         /\ Alive(w) => /\ Running(w, read) /\ Len(read) <= 4
         /\ ~Alive(w) => /\ w.link = AllDown /\ (w.client.begun => w.client.told)
                         /\ Len(read) <= 3 /\ a.kind # "session"
PROOF
  <1>1. /\ w \in Worlds /\ Placed(w.bosh) /\ read \in Seq(Piece) /\ l \in Loops
        /\ Alive(w) => Running(w, read)
        /\ ~Alive(w) => Over(w, read, l)
    BY DEF Holds, Turns
  <1>2. a \in Answered
    <2>1. read[1] \in Piece
      BY <1>1
    <2> QED BY <2>1 DEF Piece
  <1>3. CASE Alive(w)
    <2> DEFINE c == w.bosh.active[1]
    <2>1. Running(w, read) /\ read # <<>>
      BY <1>1, <1>3
    <2>2. w.bosh.active # <<>>
      BY <2>1 DEF Running
    <2>3. First(w.bosh, c)
      BY <2>2 DEF First
    <2> HIDE DEF c
    <2>4. /\ Len(Flow(w, read, c)) = Len(read) + Len(w.link[c].pieces)
          /\ Len(read) \in Nat /\ Len(w.link[c].pieces) \in Nat
          /\ Len(Flow(w, read, c)) <= 4
          /\ Flow(w, read, c) # <<>> => w.bosh.open >= 1
          /\ \A i \in DOMAIN read : i \in DOMAIN Flow(w, read, c)
      BY <1>1, <2>1, <2>3, FrontFlow
    <2>5. Flow(w, read, c) # <<>>
      <3>1. 1 \in DOMAIN read
        BY <1>1
      <3> QED BY <2>4, <3>1
    <2>6. w.bosh.open >= 1 /\ Len(read) <= 4
      BY <2>4, <2>5
    <2> QED BY <1>1, <1>2, <1>3, <2>1, <2>2, <2>6
  <1>4. CASE ~Alive(w)
    BY <1>1, <1>2, <1>4 DEF Over
  <1> QED BY <1>3, <1>4

\* Where recv() is then.
LEMMA Calls ==
  ASSUME NEW b \in Members, NEW a \in Answered, NEW l \in Loops
  PROVE  /\ HandlerCalls(b, a) \in 0..3
         /\ \A n \in 0..3 : /\ [l EXCEPT !.inHandler = FALSE, !.calls = n] \in Loops
                            /\ [l EXCEPT !.inHandler = FALSE, !.calls = n].at = l.at
                            /\ [l EXCEPT !.inHandler = FALSE, !.calls = n].quit = l.quit
         /\ [l EXCEPT !.inHandler = FALSE, !.quit = TRUE] \in Loops
         /\ [l EXCEPT !.inHandler = FALSE, !.quit = TRUE].at = l.at
         /\ [l EXCEPT !.inHandler = FALSE, !.quit = TRUE].quit
PROOF
  <1>1. HandlerCalls(b, a) \in 0..3
    <2>1. a.stanzas \in 0..1
      BY DEF Answered
    <2> QED BY <2>1 DEF HandlerCalls
  <1> DEFINE yes == TRUE
             no == FALSE
  <1>2. yes \in BOOLEAN /\ no \in BOOLEAN /\ yes
    OBVIOUS
  <1> HIDE DEF yes, no
  <1>3. \A n \in 0..3 : /\ [l EXCEPT !.inHandler = no, !.calls = n] \in Loops
                        /\ [l EXCEPT !.inHandler = no, !.calls = n].at = l.at
                        /\ [l EXCEPT !.inHandler = no, !.calls = n].quit = l.quit
    BY <1>2 DEF Loops
  <1>4. /\ [l EXCEPT !.inHandler = no, !.quit = yes] \in Loops
        /\ [l EXCEPT !.inHandler = no, !.quit = yes].at = l.at
        /\ [l EXCEPT !.inHandler = no, !.quit = yes].quit
    BY <1>2 DEF Loops
  <1> QED BY <1>1, <1>3, <1>4 DEF yes, no

\* All connections are down.
LEMMA NoneLeft ==
  ASSUME NEW w \in Worlds, \A x \in Conns : w.link[x] = Down
  PROVE  w.link = AllDown
PROOF
  <1>1. w.link \in Links
    BY Parts
  <1> QED BY <1>1 DEF Links, AllDown

\* The session goes on after an answer.
Handles(w, read, v) ==
  /\ v.client.begun = w.client.begun
  /\ Alive(v) =>
       /\ Alive(w) /\ GoesOn(w, v, read[1].answer, w.bosh.active[1])
       /\ v.client = w.client /\ v.bosh.sendBuffer = w.bosh.sendBuffer /\ ~v.bosh.restart

\* An answer without a body ends the session.
LEMMA NoBody ==
  ASSUME NEW w, NEW read, NEW l, Holds(w, read, l), l.at # "app", ~l.quit, Len(read) >= 2,
         NEW v, NEW more, NEW k, TakesAnswer(w, read, l, v, more, k), read[1].answer.empty
  PROVE  Holds(v, more, k) /\ Handles(w, read, v)
PROOF
  <1> DEFINE a == read[1].answer
  <1>1. a = read[1].answer
    OBVIOUS
  <1>2. /\ v = IF a.ok THEN w ELSE Broken(w)
        /\ more = read /\ k = [l EXCEPT !.inHandler = FALSE, !.quit = TRUE]
    BY DEF TakesAnswer
  <1> HIDE DEF a
  <1>3. /\ w \in Worlds /\ Placed(w.bosh) /\ read \in Seq(Piece) /\ l \in Loops
        /\ a \in Answered /\ w.bosh.active # <<>>
    BY <1>1, Retirable
  <1>4. v = Broken(w)
    BY <1>1, <1>2, <1>3 DEF Answered
  <1>5. /\ v \in Worlds /\ v.link = AllDown /\ v.bosh.state = "disconnected"
        /\ v.client.told /\ v.bosh.active = w.bosh.active /\ v.bosh.pool = w.bosh.pool
        /\ v.client.begun = w.client.begun
    BY <1>3, <1>4, Breaks
  <1>6. k \in Loops /\ k.at = l.at /\ k.quit
    <2>1. w.bosh \in Members
      BY <1>3, Parts
    <2> QED BY <1>2, <1>3, <2>1, Calls
  <1>7. Handles(w, read, v)
    BY <1>5 DEF Handles, Alive
  <1> QED BY <1>2, <1>3, <1>5, <1>6, <1>7 DEF Holds, Turns, Over, Alive, Placed

\* Any other is counted, whatever else it does.
LEMMA Body ==
  ASSUME NEW w, NEW read, NEW l, Holds(w, read, l), l.at # "app", ~l.quit, Len(read) >= 2,
         NEW v, NEW more, NEW k, TakesAnswer(w, read, l, v, more, k), ~read[1].answer.empty
  PROVE  Holds(v, more, k) /\ Handles(w, read, v)
PROOF
  <1> DEFINE a == read[1].answer
             u == IF a.ok THEN w ELSE Broken(w)
             put == Retired(u, a)
             c == w.bosh.active[1]
  <1>1. a = read[1].answer
    OBVIOUS
  <1>2. /\ v = HandleTag(put, a) /\ more = SubSeq(read, 3, Len(read))
        /\ k = [l EXCEPT !.inHandler = FALSE, !.calls = HandlerCalls(put.bosh, a)]
    BY DEF TakesAnswer
  <1> HIDE DEF a, put
  <1>3. /\ w \in Worlds /\ Placed(w.bosh) /\ read \in Seq(Piece) /\ l \in Loops
        /\ a \in Answered /\ w.bosh.active # <<>> /\ w.bosh.open >= 1
        /\ Alive(w) => Running(w, read) /\ Len(read) <= 4
        /\ ~Alive(w) => /\ w.link = AllDown /\ (w.client.begun => w.client.told)
                        /\ Len(read) <= 3 /\ a.kind # "session"
    BY <1>1, Retirable
  <1>4. /\ u \in Worlds /\ u.bosh.active = w.bosh.active /\ u.bosh.pool = w.bosh.pool
        /\ u.bosh.open = w.bosh.open /\ u.bosh.mode = w.bosh.mode
        /\ u.client.begun = w.client.begun
        /\ a.ok => u = w
        /\ ~a.ok => u.link = AllDown /\ u.bosh.state = "disconnected" /\ u.client.told
    <2>1. CASE a.ok
      BY <1>3, <2>1
    <2>2. CASE ~a.ok
      BY <1>3, <2>2, Breaks
    <2> QED BY <2>1, <2>2
  <1> HIDE DEF u
  <1>5. /\ put \in Worlds /\ Placed(put.bosh) /\ put.client = u.client
        /\ Alike(u.bosh, put.bosh)
        /\ put.bosh.open = u.bosh.open - 1 /\ PutBack(u, put, a, c)
    <2>1. Placed(u.bosh) /\ u.bosh.active # <<>> /\ u.bosh.open >= 1
      BY <1>3, <1>4 DEF Placed
    <2>2. /\ put \in Worlds /\ Placed(put.bosh) /\ put.client = u.client
          /\ Alike(u.bosh, put.bosh)
          /\ put.bosh.open = u.bosh.open - 1 /\ PutBack(u, put, a, u.bosh.active[1])
      BY <1>3, <1>4, <2>1, Retires DEF put
    <2> QED BY <1>4, <2>2
  <1>6. /\ v \in Worlds /\ v.bosh.mode = put.bosh.mode /\ v.bosh.rid = put.bosh.rid
        /\ v.bosh.open = put.bosh.open
        /\ v.bosh.active = put.bosh.active /\ v.bosh.pool = put.bosh.pool
        /\ v.client.begun = put.client.begun
        /\ v.bosh.sendBuffer = put.bosh.sendBuffer /\ ~v.bosh.restart
        /\ a.kind # "end" =>
             /\ v.link = put.link /\ v.client = put.client
             /\ v.bosh.state = IF a.kind = "session" THEN "connected" ELSE put.bosh.state
        /\ a.kind = "end" =>
             v.link = AllDown /\ v.client.told /\ v.bosh.state = "disconnected"
    BY <1>2, <1>3, <1>5, Tags
  <1>7. k \in Loops /\ k.at = l.at /\ k.quit = l.quit
    <2>1. put.bosh \in Members
      BY <1>5, Parts
    <2> QED BY <1>2, <1>3, <2>1, Calls
  <1>8. more \in Seq(Piece) /\ Len(more) = Len(read) - 2 /\ Len(read) \in Nat
    BY <1>2, <1>3, Dropped
  <1>9. Placed(v.bosh)
    BY <1>5, <1>6 DEF Placed
  <1> DEFINE z == more \o w.link[c].pieces
  <1>10. Alive(w) => FirstAnswer(w, read, a, more, c, z)
    BY <1>1, <1>2, <1>3 DEF FirstAnswer, First
  <1> HIDE DEF z, c
  <1>11. CASE Alive(w) /\ a.ok /\ a.kind # "end"
    <2>1. GoesOn(w, v, a, c)
      BY <1>4, <1>5, <1>6, <1>11 DEF GoesOn, PutBack, Alike
    <2>2. Running(w, read) /\ FirstAnswer(w, read, a, more, c, z)
      BY <1>3, <1>10, <1>11
    <2>3. Running(v, more)
      BY <1>3, <1>6, <2>1, <2>2, RunTaken
    <2>4. w.bosh.state = "connecting" => Opening(a)
      BY <1>3, <2>2, FrontLeaves
    <2>5. v.bosh.state # "connecting" /\ Alive(v)
      BY <1>4, <1>5, <1>6, <1>11, <2>4 DEF Opening, Alike, Alive
    <2>6. Len(more) <= 2
      BY <1>3, <1>8, <1>11
    <2>7. Turns(v, more, k)
      BY <1>7, <2>5, <2>6 DEF Turns
    <2>8. /\ v.client = w.client /\ v.bosh.sendBuffer = w.bosh.sendBuffer
          /\ ~v.bosh.restart
      BY <1>4, <1>5, <1>6, <1>11 DEF Alike
    <2>9. Handles(w, read, v)
      BY <1>1, <1>11, <2>1, <2>8 DEF Handles, c
    <2> QED BY <1>6, <1>8, <1>9, <2>3, <2>5, <2>7, <2>9 DEF Holds
  <1>12. CASE ~(Alive(w) /\ a.ok /\ a.kind # "end")
    <2>1. v.bosh.state = "disconnected"
      <3>1. CASE a.kind = "end"
        BY <1>6, <3>1
      <3>2. CASE a.kind # "end" /\ a.ok
        BY <1>3, <1>4, <1>5, <1>6, <1>12, <3>2 DEF Alive, Alike
      <3>3. CASE a.kind # "end" /\ ~a.ok
        <4>1. a.kind # "session"
          BY <1>3, <3>3 DEF Answered
        <4> QED BY <1>4, <1>5, <1>6, <3>3, <4>1 DEF Alike
      <3> QED BY <3>1, <3>2, <3>3
    <2>2. v.link = AllDown
      <3>1. CASE a.kind = "end"
        BY <1>6, <3>1
      <3>2. CASE a.kind # "end"
        <4>1. u.link = AllDown
          BY <1>3, <1>4, <1>12, <3>2
        <4>2. \A x \in Conns : u.link[x] = Down
          BY <4>1 DEF AllDown
        <4>3. \A x \in Conns : put.link[x] = Down
          BY <1>5, <4>2 DEF PutBack
        <4> QED BY <1>5, <1>6, <3>2, <4>3, NoneLeft
      <3> QED BY <3>1, <3>2
    <2>3. v.client.begun => v.client.told
      <3>1. CASE a.kind = "end"
        BY <1>6, <3>1
      <3>2. CASE a.kind # "end"
        BY <1>3, <1>4, <1>5, <1>6, <1>12, <3>2
      <3> QED BY <3>1, <3>2
    <2>4. ASSUME Len(more) >= 2
          PROVE  /\ Len(more) <= 3 /\ v.bosh.active # <<>> /\ v.bosh.open >= 1
                 /\ more[1].answer.kind # "session"
      <3>1. Alive(w)
        BY <1>3, <1>8, <2>4
      <3>2. Running(w, read) /\ FirstAnswer(w, read, a, more, c, z)
        BY <1>3, <1>10, <3>1
      <3>3. /\ w.bosh.mode = "pipelining" /\ ~a.last /\ w.bosh.open >= 2
            /\ more[1].answer.kind # "session"
        BY <1>3, <2>4, <3>2, TwoLeft
      <3>4. v.bosh.active = w.bosh.active
        BY <1>4, <1>5, <1>6, <3>3 DEF PutBack
      <3>5. v.bosh.open >= 1 /\ Len(more) <= 3
        <4>1. w.bosh.open \in 0..2
          <5>1. w.bosh \in Members
            BY <1>3, Parts
          <5> QED BY <5>1 DEF Members
        <4>2. v.bosh.open = w.bosh.open - 1
          BY <1>4, <1>5, <1>6
        <4> QED BY <1>3, <1>8, <3>1, <3>3, <4>1, <4>2
      <3> QED BY <1>3, <3>3, <3>4, <3>5
    <2>5. Over(v, more, k) /\ ~Alive(v)
      BY <2>1, <2>2, <2>3, <2>4 DEF Over, Alive
    <2>6. Turns(v, more, k)
      BY <1>7, <2>5 DEF Turns
    <2>7. v.client.begun = w.client.begun
      BY <1>4, <1>5, <1>6
    <2>8. Handles(w, read, v)
      BY <2>1, <2>7 DEF Handles, Alive
    <2> QED BY <1>6, <1>8, <1>9, <2>5, <2>6, <2>8 DEF Holds
  <1> QED BY <1>11, <1>12

-----------------------------------------------------------------------------
(* What recv() does. *)

\* recv() on the first of conns, if any.
Receives(w, read, conns, at, v, more, k) ==
  LET c == conns[1]
      n == IF conns = <<>> THEN 0 ELSE Len(w.link[c].pieces)
      lost == n = 0 /\ conns # <<>> /\ w.link[c].eof
  IN /\ k = [at |-> at, calls |-> 0, inHandler |-> FALSE, quit |-> n = 0]
     /\ IF n = 0
        THEN v = (IF lost THEN HandleDisconnect(w) ELSE w) /\ more = read
        ELSE \E i \in 1..n :
               /\ more = read \o SubSeq(w.link[c].pieces, 1, i)
               /\ v = [w EXCEPT !.link[c].pieces = SubSeq(@, i + 1, n)]

\* A loop at a new place.
LEMMA Places ==
  ASSUME NEW at \in {"app", "pool", "active"}, NEW q \in BOOLEAN,
         NEW k, k = [at |-> at, calls |-> 0, inHandler |-> FALSE, quit |-> q]
  PROVE  k \in Loops /\ k.at = at /\ k.calls = 0 /\ ~k.inHandler /\ k.quit = q
PROOF
  <1> DEFINE no == FALSE
  <1>1. no \in BOOLEAN /\ ~no
    OBVIOUS
  <1>2. k = [at |-> at, calls |-> 0, inHandler |-> no, quit |-> q]
    OBVIOUS
  <1> HIDE DEF no
  <1> QED BY <1>1, <1>2 DEF Loops

\* Nothing came: the connection may be lost.
LEMMA Nothing ==
  ASSUME NEW w, NEW read, NEW l, Holds(w, read, l), Len(read) <= 1,
         NEW v, v = w \/ v = HandleDisconnect(w),
         v = w \/ (Alive(w) /\ \A c \in Conns : Solo(Flow(w, read, c), w.link[c].requests)),
         NEW k \in Loops, k.quit, k.calls = 0, ~k.inHandler
  PROVE  Holds(v, read, k)
PROOF
  <1>1. w \in Worlds /\ read \in Seq(Piece) /\ Placed(w.bosh) /\ Len(read) \in Nat
    BY DEF Holds
  <1>2. CASE v = w
    <2>1. Turns(v, read, k)
      BY <1>2 DEF Turns
    <2>2. ~Alive(v) => Over(v, read, k)
      BY <1>2 DEF Holds, Over
    <2> QED BY <1>1, <1>2, <2>1, <2>2 DEF Holds
  <1>3. CASE v # w
    <2>1. /\ v = HandleDisconnect(w) /\ Alive(w)
          /\ \A c \in Conns : Solo(Flow(w, read, c), w.link[c].requests)
      BY <1>3
    <2>2. /\ v \in Worlds /\ v.bosh.active = w.bosh.active /\ v.bosh.pool = w.bosh.pool
          /\ v.bosh.open = w.bosh.open
          /\ w.bosh.state = "connecting" => v = Tell(w)
          /\ w.bosh.state # "connecting" =>
               /\ v.link = w.link /\ Alike(w.bosh, v.bosh)
               /\ v.bosh.mode = Fallback(w.bosh.mode)
      BY <1>1, <2>1, Disconnects
    <2>3. Placed(v.bosh)
      BY <1>1, <2>2 DEF Placed
    <2>4. CASE w.bosh.state = "connecting"
      <3>1. v.link = AllDown /\ v.bosh.state = "disconnected" /\ v.client.told
        BY <1>1, <2>2, <2>4, Tells
      <3> QED BY <1>1, <2>2, <2>3, <3>1 DEF Holds, Over, Turns, Alive
    <2>5. CASE w.bosh.state # "connecting"
      <3>1. Running(w, read)
        BY <2>1 DEF Holds
      <3>2. /\ Kin(w.bosh, v.bosh) /\ v.link = w.link
            /\ v.bosh.mode # "pipelining"
        BY <2>2, <2>5 DEF Kin, Alike, Fallback
      <3>3. Running(v, read)
        BY <1>1, <2>1, <2>2, <3>1, <3>2, RunKin
      <3>4. Alive(v) /\ Turns(v, read, k)
        BY <2>1, <2>2, <2>5 DEF Alive, Alike, Turns
      <3> QED BY <1>1, <2>2, <2>3, <3>3, <3>4 DEF Holds
    <2> QED BY <2>4, <2>5
  <1> QED BY <1>2, <1>3

\* A connection of the pool has nothing to read.
LEMMA ReceivesPool ==
  ASSUME NEW w, NEW read, NEW l, Holds(w, read, l), Alive(w), l.at = "app",
         NEW v, NEW more, NEW k, Receives(w, read, w.bosh.pool, "pool", v, more, k)
  PROVE  Holds(v, more, k)
PROOF
  <1> DEFINE c == w.bosh.pool[1]
             n == IF w.bosh.pool = <<>> THEN 0 ELSE Len(w.link[c].pieces)
  <1>1. /\ w \in Worlds /\ read \in Seq(Piece) /\ Placed(w.bosh) /\ Running(w, read)
        /\ Len(read) <= 1
    BY DEF Holds, Turns
  <1>2. w.bosh.pool \in Seq(Conns) /\ w.bosh.active \in Seq(Conns)
    BY <1>1, Parts DEF Members
  <1>3. Lines(w, read) /\ Slots(w.bosh)
    BY <1>1 DEF Running
  <1>4. ASSUME w.bosh.pool # <<>>
        PROVE  /\ c \in Conns /\ w.link[c].pieces = <<>> /\ w.bosh.mode # "pipelining"
    <2>1. 1 \in DOMAIN w.bosh.pool /\ c \in Conns
      BY <1>2, <1>4
    <2>2. ~Active(w.bosh, c)
      BY <1>1, <2>1 DEF Placed, Apart, Active
    <2>3. w.link[c].pieces = <<>>
      BY <1>1, <1>3, <2>1, <2>2, Quiet
    <2> QED BY <1>3, <1>4, <2>1, <2>3 DEF Slots
  <1>5. n = 0
    <2>1. CASE w.bosh.pool = <<>>
      BY <2>1
    <2>2. CASE w.bosh.pool # <<>>
      <3>1. w.link[c].pieces = <<>> /\ Len(<<>>) = 0
        BY <1>4, <2>2
      <3> QED BY <2>2, <3>1
    <2> QED BY <2>1, <2>2
  <1>6. /\ k = [at |-> "pool", calls |-> 0, inHandler |-> FALSE, quit |-> n = 0]
        /\ v = (IF n = 0 /\ w.bosh.pool # <<>> /\ w.link[c].eof THEN HandleDisconnect(w) ELSE w)
        /\ more = read
    BY <1>5 DEF Receives
  <1> HIDE DEF n
  <1>7. k \in Loops /\ k.calls = 0 /\ ~k.inHandler /\ k.quit
    <2> DEFINE q == n = 0
    <2>1. q \in BOOLEAN /\ q
      BY <1>5
    <2>2. k = [at |-> "pool", calls |-> 0, inHandler |-> FALSE, quit |-> q]
      BY <1>6
    <2> HIDE DEF q
    <2> QED BY <2>1, <2>2, Places
  <1>8. v = w \/ (v = HandleDisconnect(w) /\ w.bosh.pool # <<>>)
    BY <1>6
  <1>9. w.bosh.pool # <<>> => \A x \in Conns : Solo(Flow(w, read, x), w.link[x].requests)
    BY <1>3, <1>4 DEF Lines, Line
  <1>10. Holds(v, read, k)
    BY <1>1, <1>7, <1>8, <1>9, Nothing
  <1> QED BY <1>6, <1>10

\* A pipeline that ended is not waited for.
LEMMA EndedPipe ==
  ASSUME NEW w \in Worlds, NEW read \in Seq(Piece), Running(w, read), Len(read) <= 1,
         NEW c, First(w.bosh, c), w.link[c].pieces = <<>>, w.link[c].eof
  PROVE  \A x \in Conns : Solo(Flow(w, read, x), w.link[x].requests)
PROOF
  <1> SUFFICES ASSUME NEW x \in Conns PROVE Solo(Flow(w, read, x), w.link[x].requests)
    OBVIOUS
  <1>1. w.bosh.active \in Seq(Conns)
    BY Parts DEF Members
  <1>2. Lines(w, read) /\ Slots(w.bosh)
    BY DEF Running
  <1>3. CASE w.bosh.mode # "pipelining"
    BY <1>2, <1>3 DEF Lines, Line
  <1>4. CASE w.bosh.mode = "pipelining"
    <2>1. Len(w.bosh.active) = 1 /\ DOMAIN w.bosh.active = {1}
      BY <1>1, <1>2, <1>4 DEF Slots
    <2>2. CASE x = c
      <3>1. w.link[c].requests = <<>>
        BY <1>2, <2>2 DEF Lines, Line, Ends
      <3>2. Flow(w, read, c) = read
        <4>1. read \o <<>> = read
          OBVIOUS
        <4> QED BY <4>1 DEF Flow
      <3>3. Len(<<>>) = 0 /\ Len(read) \in Nat
        OBVIOUS
      <3> QED BY <2>2, <3>1, <3>2, <3>3 DEF Solo
    <2>3. CASE x # c
      <3>1. ~Active(w.bosh, x)
        BY <2>1, <2>3 DEF Active, First
      <3>2. Flow(w, read, x) = <<>> /\ w.link[x].requests = <<>>
        BY <1>2, <3>1, Quiet
      <3>3. Len(<<>>) = 0
        OBVIOUS
      <3> QED BY <3>2, <3>3 DEF Solo
    <2> QED BY <2>2, <2>3
  <1> QED BY <1>3, <1>4

\* What is read of an active connection follows what was read before.
LEMMA ReceivesActive ==
  ASSUME NEW w, NEW read, NEW l, Holds(w, read, l), Len(read) <= 1,
         NEW v, NEW more, NEW k, Receives(w, read, w.bosh.active, "active", v, more, k)
  PROVE  Holds(v, more, k)
PROOF
  <1> DEFINE c == w.bosh.active[1]
             n == IF w.bosh.active = <<>> THEN 0 ELSE Len(w.link[c].pieces)
             q == n = 0
  <1>1. /\ w \in Worlds /\ read \in Seq(Piece) /\ Placed(w.bosh)
        /\ Alive(w) => Running(w, read)
        /\ ~Alive(w) => Over(w, read, l)
    BY DEF Holds
  <1>2. w.bosh.active \in Seq(Conns) /\ w.link \in Links /\ w.bosh \in Members
    BY <1>1, Parts DEF Members
  <1>3. w.bosh.active # <<>> => /\ c \in Conns /\ w.link[c] \in Link
                                /\ w.link[c].pieces \in Seq(Piece) /\ First(w.bosh, c)
    <2> SUFFICES ASSUME w.bosh.active # <<>>
                 PROVE  c \in Conns /\ w.link[c] \in Link /\ w.link[c].pieces \in Seq(Piece)
      BY DEF First
    <2>1. c \in Conns
      BY <1>2
    <2> QED BY <1>1, <2>1, Reading
  <1>4. /\ k = [at |-> "active", calls |-> 0, inHandler |-> FALSE, quit |-> q]
        /\ n = 0 =>
             /\ v = (IF w.bosh.active # <<>> /\ w.link[c].eof THEN HandleDisconnect(w) ELSE w)
             /\ more = read
        /\ n # 0 =>
             \E i \in 1..n :
               /\ more = read \o SubSeq(w.link[c].pieces, 1, i)
               /\ v = [w EXCEPT !.link[c].pieces = SubSeq(@, i + 1, n)]
    BY DEF Receives
  <1>5. k \in Loops /\ k.calls = 0 /\ ~k.inHandler /\ k.quit = q /\ k.at = "active"
    <2>1. q \in BOOLEAN
      OBVIOUS
    <2>2. k = [at |-> "active", calls |-> 0, inHandler |-> FALSE, quit |-> q]
      BY <1>4
    <2> HIDE DEF q
    <2> QED BY <2>1, <2>2, Places
  <1>6. CASE n = 0
    <2>1. k.quit /\ more = read
      BY <1>4, <1>5, <1>6
    <2>2. v = w \/ (v = HandleDisconnect(w) /\ w.bosh.active # <<>> /\ w.link[c].eof)
      BY <1>4, <1>6
    <2>3. ASSUME w.bosh.active # <<>>, w.link[c].eof
          PROVE  Alive(w) /\ \A x \in Conns : Solo(Flow(w, read, x), w.link[x].requests)
      <3>1. w.link[c].pieces = <<>>
        BY <1>3, <1>6, <2>3
      <3>2. Alive(w)
        BY <1>1, <1>3, <2>3 DEF Over, AllDown, Down
      <3> QED BY <1>1, <1>3, <2>3, <3>1, <3>2, EndedPipe
    <2> HIDE DEF c
    <2>4. Holds(v, read, k)
      BY <1>5, <2>1, <2>2, <2>3, Nothing
    <2> QED BY <2>1, <2>4
  <1>7. CASE n # 0
    <2>1. w.bosh.active # <<>> /\ n = Len(w.link[c].pieces)
      BY <1>7
    <2>2. PICK i \in 1..n : /\ more = read \o SubSeq(w.link[c].pieces, 1, i)
                            /\ v = [w EXCEPT !.link[c].pieces = SubSeq(@, i + 1, n)]
      BY <1>4, <1>7
    <2>3. Alive(w)
      <3>1. Down.pieces = <<>> /\ Len(<<>>) = 0
        BY DEF Down
      <3> QED BY <1>1, <1>3, <1>7, <2>1, <3>1 DEF Over, AllDown
    <2>4. i \in 1..Len(w.link[c].pieces)
      BY <2>1
    <2> HIDE DEF n, q, c
    <2> DEFINE p == SubSeq(w.link[c].pieces, i + 1, Len(w.link[c].pieces))
               m == [w.link[c] EXCEPT !.pieces = p]
               links == [w.link EXCEPT ![c] = m]
    <2>5. SubSeq(w.link[c].pieces, 1, i) \in Seq(Piece) /\ p \in Seq(Piece)
      BY <1>3, <2>1, <2>4, Split
    <2>6. v = [bosh |-> w.bosh, link |-> links, client |-> w.client]
      <3>1. w = [bosh |-> w.bosh, link |-> w.link, client |-> w.client]
        BY <1>1, Parts
      <3>2. v = [w EXCEPT !.link[c].pieces = p]
        BY <2>1, <2>2
      <3> HIDE DEF p
      <3> QED BY <3>1, <3>2
    <2>7. m \in Link
      <3> HIDE DEF p
      <3> QED BY <1>3, <2>1, <2>5 DEF Link
    <2>8. links \in Links
      <3> HIDE DEF m
      <3> QED BY <1>2, <1>3, <2>1, <2>7, Parts
    <2>9. v \in Worlds /\ v.bosh = w.bosh /\ v.link = links /\ v.client = w.client
      <3>1. w.client \in Clients
        BY <1>1, Parts
      <3> HIDE DEF links
      <3> QED BY <1>2, <2>6, <2>8, <3>1, Parts
    <2>10. more \in Seq(Piece) /\ Takes(w, v, read, more, c, i)
      BY <1>1, <2>2, <2>5, <2>9 DEF Takes
    <2>11. Running(v, more)
      BY <1>1, <1>3, <2>1, <2>3, <2>4, <2>9, <2>10, Reads
    <2>12. ~k.quit
      BY <1>5, <1>7 DEF q
    <2>13. Turns(v, more, k) /\ Alive(v)
      BY <1>5, <2>3, <2>9, <2>12 DEF Turns, Alive
    <2> QED BY <1>1, <2>9, <2>10, <2>11, <2>13 DEF Holds, Placed
  <1> QED BY <1>6, <1>7

\* When the session is over there is nothing to receive.
LEMMA ReceivesNothing ==
  ASSUME NEW w, NEW read, NEW l, Holds(w, read, l), ~Alive(w),
         NEW v, NEW more, NEW k, Receives(w, read, w.bosh.active, "active", v, more, k)
  PROVE  Holds(v, more, k)
PROOF
  <1> DEFINE c == w.bosh.active[1]
             n == IF w.bosh.active = <<>> THEN 0 ELSE Len(w.link[c].pieces)
  <1>1. w \in Worlds /\ read \in Seq(Piece) /\ Placed(w.bosh) /\ Over(w, read, l)
    BY DEF Holds
  <1>2. w.bosh.active # <<>> => w.link[c].pieces = <<>> /\ ~w.link[c].eof
    <2> SUFFICES ASSUME w.bosh.active # <<>>
                 PROVE  w.link[c].pieces = <<>> /\ ~w.link[c].eof
      OBVIOUS
    <2>1. w.bosh.active \in Seq(Conns)
      BY <1>1, Parts DEF Members
    <2>2. c \in Conns
      BY <2>1
    <2> QED BY <1>1, <2>2 DEF Over, AllDown, Down
  <1>3. n = 0
    <2>1. Len(<<>>) = 0
      OBVIOUS
    <2> QED BY <1>2, <2>1
  <1>4. /\ k = [at |-> "active", calls |-> 0, inHandler |-> FALSE, quit |-> n = 0]
        /\ v = w /\ more = read
    BY <1>2, <1>3 DEF Receives
  <1> HIDE DEF n
  <1>5. k \in Loops /\ k.calls = 0 /\ ~k.inHandler /\ k.quit /\ k.at = "active"
    <2> DEFINE q == n = 0
    <2>1. q \in BOOLEAN /\ q
      BY <1>3
    <2>2. k = [at |-> "active", calls |-> 0, inHandler |-> FALSE, quit |-> q]
      BY <1>4
    <2> HIDE DEF q
    <2> QED BY <2>1, <2>2, Places
  <1> QED BY <1>1, <1>4, <1>5 DEF Holds, Turns, Over

\* recv() goes on.
LEMMA Moves ==
  ASSUME NEW w, NEW read, NEW l, Holds(w, read, l), NEW k, k.quit = l.quit, Turns(w, read, k)
  PROVE  Holds(w, read, k)
PROOF
  <1>1. ~Alive(w) => Over(w, read, k)
    BY DEF Holds, Over
  <1> QED BY <1>1 DEF Holds

\* The client is given what an answer brought.
LEMMA Delivers ==
  ASSUME NEW w, NEW read, NEW l, Holds(w, read, l), l.calls > 0,
         NEW k, k = [l EXCEPT !.calls = @ - 1, !.inHandler = TRUE]
  PROVE  Holds(w, read, k)
PROOF
  <1> DEFINE yes == TRUE
  <1>1. Turns(w, read, l) /\ l \in Loops /\ l.calls \in 0..3
    BY DEF Holds, Turns, Loops
  <1>2. yes \in BOOLEAN /\ l.calls - 1 \in 0..3 /\ l.calls # 0
    BY <1>1
  <1>3. k = [l EXCEPT !.calls = l.calls - 1, !.inHandler = yes]
    OBVIOUS
  <1> HIDE DEF yes
  <1>4. k \in Loops /\ k.at = l.at /\ k.quit = l.quit
    BY <1>1, <1>2, <1>3 DEF Loops
  <1>5. Turns(w, read, k)
    BY <1>1, <1>2, <1>4 DEF Turns
  <1> QED BY <1>4, <1>5, Moves

\* recv() returns.
LEMMA Polls ==
  ASSUME NEW w, NEW read, NEW l, Holds(w, read, l), NEW lucky \in BOOLEAN,
         l.calls = 0, l.quit \/ Len(read) < 2,
         NEW v, v = (IF ShouldSend(w.bosh) THEN SendXML(w, lucky) ELSE w),
         NEW k, k = [l EXCEPT !.at = "app", !.inHandler = FALSE]
  PROVE  Holds(v, read, k)
PROOF
  <1> DEFINE no == FALSE
             app == "app"
  <1>1. w \in Worlds /\ read \in Seq(Piece) /\ Turns(w, read, l) /\ l \in Loops
    BY DEF Holds, Turns
  <1>2. Holds(v, read, l)
    <2>1. CASE ShouldSend(w.bosh)
      <3>1. Alive(w) /\ v = SendXML(w, lucky)
        BY <2>1 DEF ShouldSend, Alive
      <3>2. Kin(w.bosh, w.bosh)
        BY DEF Kin
      <3> QED BY <1>1, <3>1, <3>2, Xml
    <2>2. CASE ~ShouldSend(w.bosh)
      BY <2>2
    <2> QED BY <2>1, <2>2
  <1>3. no \in BOOLEAN /\ ~no /\ app = "app"
    OBVIOUS
  <1>4. k = [l EXCEPT !.at = app, !.inHandler = no]
    OBVIOUS
  <1> HIDE DEF no, app
  <1>5. /\ k \in Loops /\ k.at = "app" /\ k.calls = 0 /\ ~k.inHandler /\ k.quit = l.quit
    BY <1>1, <1>3, <1>4 DEF Loops
  <1>6. Turns(v, read, k)
    <2>1. Turns(v, read, l) /\ Len(read) \in Nat
      BY <1>1, <1>2 DEF Holds
    <2> QED BY <1>5, <2>1 DEF Turns
  <1> QED BY <1>2, <1>5, <1>6, Moves

-----------------------------------------------------------------------------
(* The session begins. *)

\* Before connect() there is nothing.
Fresh(w, read, l) ==
  ~w.client.begun =>
    /\ w.bosh.state = "disconnected" /\ w.bosh.rid = 0 /\ w.bosh.open = 0
    /\ ~w.bosh.restart /\ w.bosh.sendBuffer = <<>>
    /\ w.bosh.active = <<>> /\ w.bosh.pool = <<1>>
    /\ read = <<>> /\ l.at = "app"
    /\ w.client.sent = 0 /\ w.client.carried = <<>>

\* The first connection is there, and nothing was sent.
Begun(w) ==
  /\ w.bosh.state = "connecting" /\ w.bosh.rid = 0 /\ w.bosh.open = 0
  /\ w.bosh.active = <<>> /\ w.bosh.pool = <<1>>
  /\ \A x \in Conns : w.link[x] = IF x = 1 THEN Opened ELSE Down

\* The request for a session was sent on it.
Asking(w, v, r) ==
  /\ r.kind = "session" /\ r.rid = 0 /\ (r.last => v.bosh.mode = "legacy")
  /\ v.bosh.state = "connecting" /\ v.bosh.rid = 0 /\ v.bosh.open = 1
  /\ v.bosh.restart = w.bosh.restart /\ v.bosh.sendBuffer = w.bosh.sendBuffer
  /\ v.bosh.active = <<1>> /\ v.bosh.pool = <<>>
  /\ v.client.sent = w.client.sent /\ v.client.carried = w.client.carried
  /\ v.link[1] = [Opened EXCEPT !.requests = Append(Opened.requests, r)]
  /\ \A x \in Conns : x # 1 => v.link[x] = Down

LEMMA FirstRequest ==
  ASSUME NEW w \in Worlds, Placed(w.bosh), Begun(w), NEW v, v = HandleConnect(w, 1)
  PROVE  /\ v \in Worlds /\ Placed(v.bosh) /\ v.client.begun = w.client.begun
         /\ \E r \in Requested : Asking(w, v, r)
PROOF
  <1> DEFINE d == [w.bosh EXCEPT !.rid = 0]
             new == [w EXCEPT !.bosh.rid = 0]
             u == Activate(new, 1)
             none == <<>>
             r == Request(new.bosh, "session", 0, none)
             yes == TRUE
             try == Transmit(u, 1, r, yes)
  <1>1. /\ w = [bosh |-> w.bosh, link |-> w.link, client |-> w.client]
        /\ w.bosh \in Members /\ w.link \in Links /\ w.client \in Clients
        /\ 1 \in Conns /\ 0 \in Rids
    BY Parts, ConstantsAssumption DEF Conns, Rids
  <1>2. d \in Members /\ d = w.bosh
    BY <1>1, RidSet DEF Begun, Members
  <1>3. new = w
    BY <1>1, <1>2
  <1>4. w.bosh.pool # <<>> /\ 1 = w.bosh.pool[1] /\ w.bosh.open <= 1 /\ ~Full(w.bosh)
        /\ w.bosh.state = "connecting"
    BY DEF Begun, Full
  <1>5. v = try.w
    BY <1>3, <1>4 DEF HandleConnect
  <1>6. r \in Requested /\ r.kind = "session" /\ r.rid = 0 /\ r.stanzas = none
        /\ r.last = (w.bosh.mode = "legacy")
    <2>1. none \in Seq(1..MaxStanzas)
      OBVIOUS
    <2> HIDE DEF new, none
    <2> QED BY <1>1, <1>3, <2>1 DEF Request, Requested, Kinds
  <1>7. u = Activate(w, 1) /\ try = Transmit(u, 1, r, yes) /\ yes \in BOOLEAN /\ yes
        /\ none = <<>>
    BY <1>3
  <1> HIDE DEF d, new, r, u, yes, try, none
  <1>8. /\ Onward(w, u) /\ u.bosh.active = Append(w.bosh.active, 1)
        /\ u.bosh.pool = Tail(w.bosh.pool)
        /\ Alike(w.bosh, u.bosh) /\ u.bosh.open = w.bosh.open /\ u.bosh.mode = w.bosh.mode
        /\ u.link = w.link /\ u.client = w.client
    BY <1>4, <1>7, Activates
  <1>9. u \in Worlds /\ Placed(u.bosh) /\ u.bosh.open <= 1
    BY <1>4, <1>8 DEF Onward
  <1>10. /\ u.bosh.active = <<1>> /\ u.bosh.pool = <<>>
    BY <1>8 DEF Begun
  <1>11. u.link[1] = Opened /\ Opened.up /\ ~Opened.eof
    BY <1>1, <1>8 DEF Begun, Opened
  <1>12. try.sent
    <2>1. u.link[1].up /\ (yes \/ ~u.link[1].eof)
      BY <1>7, <1>11
    <2> QED BY <1>7, <2>1 DEF Transmit
  <1>13. /\ try.w \in Worlds
         /\ try.w.bosh.active = u.bosh.active /\ try.w.bosh.pool = u.bosh.pool
         /\ try.w.client.begun = u.client.begun
         /\ Carried(u, try.w, r, 1)
    BY ZenonT(60), <1>1, <1>6, <1>7, <1>9, <1>12, Transmits
  <1>14. /\ Alike(u.bosh, v.bosh) /\ v.bosh.mode = u.bosh.mode /\ v.bosh.open = u.bosh.open + 1
         /\ v.client.sent = u.client.sent
         /\ v.client.carried = u.client.carried \o none
         /\ \A x \in Conns : x # 1 => v.link[x] = u.link[x]
         /\ v.link[1] = [Opened EXCEPT !.requests = Append(Opened.requests, r)]
    BY <1>5, <1>6, <1>11, <1>13 DEF Carried
  <1>15. v.client.carried = w.client.carried
    <2>1. w.client.carried \in Seq(1..MaxStanzas)
      BY <1>1 DEF Clients
    <2>2. w.client.carried \o none = w.client.carried
      BY <1>7, <2>1
    <2> QED BY <1>8, <1>14, <2>2
  <1>16. v \in Worlds /\ Placed(v.bosh) /\ v.client.begun = w.client.begun
    BY <1>5, <1>8, <1>9, <1>13 DEF Placed
  <1>17. /\ v.bosh.state = "connecting" /\ v.bosh.rid = 0 /\ v.bosh.open = 1
         /\ v.bosh.restart = w.bosh.restart /\ v.bosh.sendBuffer = w.bosh.sendBuffer
         /\ v.bosh.mode = w.bosh.mode
    BY <1>8, <1>14 DEF Alike, Begun
  <1>18. \A x \in Conns : x # 1 => v.link[x] = Down
    BY <1>8, <1>14 DEF Begun
  <1>19. Asking(w, v, r)
    BY <1>5, <1>6, <1>8, <1>10, <1>13, <1>14, <1>15, <1>17, <1>18 DEF Asking
  <1> QED BY <1>6, <1>16, <1>19

\* The first request is the only one.
LEMMA RunAsking ==
  ASSUME NEW w, NEW v \in Worlds, Placed(v.bosh), NEW r \in Requested, Asking(w, v, r)
  PROVE  /\ Running(v, <<>>)
         /\ \A x \in Conns : OursAt(v, <<>>, x) = IF x = 1 THEN {0} ELSE {}
PROOF
  <1> DEFINE b == v.bosh
             read == <<>>
  <1>1. b \in Members /\ 1 \in Conns /\ Opened \in Link /\ Down \in Link
        /\ read \in Seq(Piece) /\ read = <<>>
    BY Parts, ConstantsAssumption DEF Conns
  <1>2. Active(b, 1) /\ First(b, 1) /\ \A x : x # 1 => ~First(b, x)
    BY DEF Asking, Active, First
  <1>3. /\ Opened.requests = <<>> /\ Opened.pieces = <<>> /\ Opened.up /\ ~Opened.eof
        /\ Down.requests = <<>> /\ Down.pieces = <<>>
    BY DEF Opened, Down
  <1>4. /\ Line(b, 1, read, Opened) /\ Ours(read, Opened.requests) = {}
    BY <1>1, <1>2, <1>3, LineBare
  <1> DEFINE m == [Opened EXCEPT !.requests = Append(Opened.requests, r)]
  <1>5. m \in Link /\ Line(b, 1, read, m)
    <2>1. /\ r.rid = b.rid /\ 0 < b.open
          /\ (r.kind = "session" <=> b.state = "connecting")
      BY DEF Asking
    <2>2. \A x \in Ours(read, Opened.requests) : AgeAt(b.rid, x) >= 1
      BY <1>4
    <2>3. b.mode # "pipelining" => read = <<>> /\ Opened.requests = <<>>
      BY <1>1, <1>3
    <2> HIDE DEF b, read
    <2> QED BY <1>1, <1>2, <1>3, <1>4, <2>1, <2>2, <2>3, LineMore
  <1>6. v.link[1] = m /\ m.pieces = <<>> /\ m.requests = <<r>>
    <2>1. v.link[1] = m
      BY DEF Asking
    <2>2. m.pieces = Opened.pieces /\ m.requests = Append(Opened.requests, r)
      BY <1>1 DEF Link
    <2>3. Append(<<>>, r) = <<r>>
      OBVIOUS
    <2> QED BY <1>3, <2>1, <2>2, <2>3
  <1> HIDE DEF m
  <1>7. Flow(v, read, 1) = read
    <2>1. read \o <<>> = read
      OBVIOUS
    <2> QED BY <1>2, <1>6, <2>1 DEF Flow
  <1>8. ASSUME NEW x \in Conns, x # 1
        PROVE  /\ v.link[x] = Down /\ Flow(v, read, x) = read
               /\ Line(b, x, read, Down) /\ Ours(read, Down.requests) = {}
    <2>1. v.link[x] = Down
      BY <1>8 DEF Asking
    <2>2. Flow(v, read, x) = read
      BY <1>1, <1>2, <1>3, <1>8, <2>1 DEF Flow
    <2>3. Line(b, x, read, Down) /\ Ours(read, Down.requests) = {}
      BY <1>1, <1>3, LineBare
    <2> QED BY <2>1, <2>2, <2>3
  <1>9. Lines(v, read)
    <2> SUFFICES ASSUME NEW x \in Conns
                 PROVE  Line(b, x, Flow(v, read, x), v.link[x])
      BY DEF Lines
    <2>1. CASE x = 1
      BY <1>5, <1>6, <1>7, <2>1
    <2>2. CASE x # 1
      BY <1>8, <2>2
    <2> QED BY <2>1, <2>2
  <1>10. Across(v, read)
    <2>1. DOMAIN b.active = {1}
      BY DEF Asking
    <2> QED BY <2>1 DEF Across
  <1>11. Slots(b)
    BY DEF Slots, Asking
  <1>12. OursAt(v, read, 1) = {0}
    <2>1. DOMAIN read = {} /\ DOMAIN m.requests = {1} /\ m.requests[1] = r /\ r.rid = 0
      BY <1>1, <1>6 DEF Asking
    <2> QED BY <1>6, <1>7, <2>1 DEF OursAt, Ours
  <1>13. \A x \in Conns : x # 1 => OursAt(v, read, x) = {}
    BY <1>8 DEF OursAt
  <1> QED BY <1>9, <1>10, <1>11, <1>12, <1>13 DEF Running

\* A world is made of its parts.
LEMMA Made ==
  ASSUME NEW b \in Members, NEW l \in Links, NEW k \in Clients,
         NEW v, v = [bosh |-> b, link |-> l, client |-> k]
  PROVE  v \in Worlds /\ v.bosh = b /\ v.link = l /\ v.client = k
PROOF
  BY DEF Worlds

\* What a change of one fact about the client leaves alone.
LEMMA ClientSets ==
  ASSUME NEW k \in Clients
  PROVE  /\ \A j : j = [k EXCEPT !.begun = TRUE] =>
              /\ j \in Clients /\ j.begun /\ j.told = k.told
              /\ j.sent = k.sent /\ j.carried = k.carried
         /\ \A j, n : j = [k EXCEPT !.sent = n] /\ n \in 0..MaxStanzas =>
              /\ j \in Clients /\ j.begun = k.begun /\ j.told = k.told
              /\ j.sent = n /\ j.carried = k.carried
         /\ \A j, n : j = [k EXCEPT !.asked = n] /\ n \in 0..MaxRestarts =>
              /\ j \in Clients /\ j.begun = k.begun /\ j.told = k.told
              /\ j.sent = k.sent /\ j.carried = k.carried
PROOF
  <1> DEFINE yes == TRUE
  <1>1. yes \in BOOLEAN /\ yes
    OBVIOUS
  <1> HIDE DEF yes
  <1>2. \A j : j = [k EXCEPT !.begun = yes] =>
              /\ j \in Clients /\ j.begun /\ j.told = k.told
              /\ j.sent = k.sent /\ j.carried = k.carried
    BY <1>1 DEF Clients
  <1>3. \A j, n : j = [k EXCEPT !.sent = n] /\ n \in 0..MaxStanzas =>
              /\ j \in Clients /\ j.begun = k.begun /\ j.told = k.told
              /\ j.sent = n /\ j.carried = k.carried
    BY DEF Clients
  <1>4. \A j, n : j = [k EXCEPT !.asked = n] /\ n \in 0..MaxRestarts =>
              /\ j \in Clients /\ j.begun = k.begun /\ j.told = k.told
              /\ j.sent = k.sent /\ j.carried = k.carried
    BY DEF Clients
  <1> QED BY <1>2, <1>3, <1>4 DEF yes

\* A world in which connect() was called.
Called(w) == [w EXCEPT !.bosh.state = "connecting", !.client.begun = TRUE]

\* A world in which a request takes what is in the buffer.
Emptied(w, rid) == [w EXCEPT !.bosh.rid = rid, !.bosh.sendBuffer = <<>>]

\* connect(): the session is asked for, or it is over at once.
LEMMA Starts ==
  ASSUME NEW w, NEW read, NEW l, Holds(w, read, l), ~w.client.begun, Fresh(w, read, l),
         NEW lucky \in BOOLEAN,
         NEW u, u = Called(w), NEW v, v = Open(u, 1, lucky)
  PROVE  /\ Holds(v, read, l) /\ v.client.begun
         /\ Alive(v) => \E r \in Requested : Asking(w, v, r)
PROOF
  <1> DEFINE d == [w.bosh EXCEPT !.state = "connecting"]
             j == [w.client EXCEPT !.begun = TRUE]
  <1>1. /\ w \in Worlds /\ read \in Seq(Piece) /\ Placed(w.bosh) /\ Turns(w, read, l)
        /\ w.link = AllDown
    BY DEF Holds, Fresh, Alive, Over
  <1>2. /\ w = [bosh |-> w.bosh, link |-> w.link, client |-> w.client]
        /\ w.bosh \in Members /\ w.link \in Links /\ w.client \in Clients /\ 1 \in Conns
    BY <1>1, Parts, ConstantsAssumption DEF Conns
  <1>3. /\ w.bosh.state = "disconnected" /\ w.bosh.rid = 0 /\ w.bosh.open = 0
        /\ w.bosh.active = <<>> /\ w.bosh.pool = <<1>> /\ read = <<>> /\ l.at = "app"
    BY DEF Fresh
  <1>4. u = [bosh |-> d, link |-> w.link, client |-> j]
    BY <1>2 DEF Called
  <1>5. /\ d \in Members /\ d.state = "connecting" /\ d.rid = 0 /\ d.open = 0
        /\ d.active = <<>> /\ d.pool = <<1>>
        /\ d.restart = w.bosh.restart /\ d.sendBuffer = w.bosh.sendBuffer
    BY <1>2, <1>3, StateSet
  <1>6. /\ j \in Clients /\ j.begun /\ j.sent = w.client.sent /\ j.carried = w.client.carried
    BY <1>2, ClientSets
  <1> HIDE DEF d, j
  <1>7. u \in Worlds /\ u.bosh = d /\ u.link = AllDown /\ u.client = j
    <2> DEFINE e == w.link
    <2>1. d \in Members /\ e \in Links /\ j \in Clients
      BY <1>2, <1>5, <1>6
    <2>2. u = [bosh |-> d, link |-> e, client |-> j]
      BY <1>4
    <2> HIDE DEF e
    <2>3. u \in Worlds /\ u.bosh = d /\ u.link = e /\ u.client = j
      BY <2>1, <2>2, Made
    <2> QED BY <1>1, <2>3 DEF e
  <1>8. Placed(u.bosh)
    BY <1>1, <1>3, <1>5, <1>7 DEF Placed
  <1>9. Len(read) = 0
    BY <1>3
  <1>10. CASE lucky \/ "refuse" \notin Faults
    <2> DEFINE links == [u.link EXCEPT ![1] = Opened]
               x == [u EXCEPT !.link[1] = Opened]
    <2>1. v = HandleConnect(x, 1)
      BY <1>10, Parts DEF Open
    <2>2. x = [bosh |-> d, link |-> links, client |-> j]
      <3> DEFINE e == w.link
      <3>1. u = [bosh |-> d, link |-> e, client |-> j] /\ u.link = e
        BY <1>1, <1>4, <1>7
      <3>2. x = [u EXCEPT !.link = [e EXCEPT ![1] = Opened]] /\ links = [e EXCEPT ![1] = Opened]
        BY <3>1 DEF x, links
      <3> HIDE DEF e, links
      <3> QED BY <3>1, <3>2
    <2>3. links \in Links /\ \A y \in Conns : links[y] = IF y = 1 THEN Opened ELSE Down
      BY <1>2, <1>7, Parts DEF AllDown
    <2> HIDE DEF links, x
    <2>4. x \in Worlds /\ x.bosh = d /\ x.link = links /\ x.client = j
      BY <1>5, <1>6, <2>2, <2>3, Parts
    <2>5. Begun(x) /\ Placed(x.bosh)
      BY <1>5, <1>7, <1>8, <2>3, <2>4 DEF Begun
    <2>6. /\ v \in Worlds /\ Placed(v.bosh) /\ v.client.begun = x.client.begun
          /\ \E r \in Requested : Asking(x, v, r)
      BY <2>1, <2>4, <2>5, FirstRequest
    <2>7. PICK r \in Requested : Asking(x, v, r)
      BY <2>6
    <2>8. Running(v, <<>>)
      BY <2>6, <2>7, RunAsking
    <2>9. Asking(w, v, r)
      BY <1>5, <1>6, <2>4, <2>7 DEF Asking
    <2>10. Alive(v) /\ Turns(v, read, l)
      BY <1>1, <1>3, <1>9, <2>7 DEF Alive, Asking, Turns
    <2> QED BY <1>1, <1>3, <1>6, <2>4, <2>6, <2>8, <2>9, <2>10 DEF Holds
  <1>11. CASE ~(lucky \/ "refuse" \notin Faults)
    <2>1. v = HandleDisconnect(u)
      BY <1>11 DEF Open
    <2>2. v = Tell(u)
      BY <1>5, <1>7, <2>1 DEF HandleDisconnect
    <2>3. /\ v \in Worlds /\ v.link = AllDown /\ v.bosh.state = "disconnected"
          /\ v.client.told /\ v.client.begun = j.begun
          /\ v.bosh.active = u.bosh.active /\ v.bosh.pool = u.bosh.pool
      BY ZenonT(60), <1>7, <2>2, Tells
    <2>4. ~Alive(v) /\ Placed(v.bosh) /\ Turns(v, read, l) /\ Over(v, read, l)
      BY <1>1, <1>8, <1>9, <2>3 DEF Alive, Placed, Turns, Over
    <2> QED BY <1>1, <1>6, <2>3, <2>4 DEF Holds
  <1> QED BY <1>10, <1>11

\* The client calls send(), or asks for a restart of the stream.
LEMMA Calling ==
  ASSUME NEW w, NEW read, NEW l, Holds(w, read, l), Alive(w), NEW lucky \in BOOLEAN,
         NEW u, u.bosh \in Members, u.link = w.link, u.client \in Clients,
         u = [bosh |-> u.bosh, link |-> u.link, client |-> u.client],
         Kin(w.bosh, u.bosh), u.bosh.mode = w.bosh.mode, u.client.begun = w.client.begun,
         NEW v, v = SendXML(u, lucky)
  PROVE  Holds(v, read, l) /\ v.client.begun = w.client.begun
PROOF
  <1>1. w \in Worlds /\ Running(w, read) /\ Placed(w.bosh)
    BY DEF Holds
  <1>2. w.link \in Links
    BY <1>1, Parts
  <1>3. u \in Worlds
    BY <1>2, Parts
  <1>4. Holds(v, read, l)
    BY <1>3, Xml
  <1>5. Slots(u.bosh) /\ Placed(u.bosh)
    BY <1>1 DEF Running, Slots, Kin, Placed
  <1>6. Onward(u, v)
    BY <1>3, <1>5, SendsXml
  <1> QED BY <1>4, <1>6 DEF Onward

\* The client leaves: it sends request r if it may, from the world u.
Left(w, u, r, lucky) ==
  Tell(IF NoConnection(w.bosh) THEN w ELSE SendRequest(u, r, lucky).w)

\* The client ends the session.
LEMMA Ending ==
  ASSUME NEW w, NEW read, NEW l, Holds(w, read, l), Alive(w), l.at = "app" \/ l.inHandler,
         NEW lucky \in BOOLEAN,
         NEW rid, rid = NextRid(w.bosh.rid),
         NEW r, r = Request(w.bosh, "end", rid, w.bosh.sendBuffer),
         NEW u, u = Emptied(w, rid),
         NEW v, v = Left(w, u, r, lucky)
  PROVE  Holds(v, read, l) /\ v.client.begun = w.client.begun /\ ~Alive(v)
PROOF
  <1> DEFINE none == <<>>
             d == [w.bosh EXCEPT !.rid = rid]
             e == [d EXCEPT !.sendBuffer = none]
             try == SendRequest(u, r, lucky)
             x == IF NoConnection(w.bosh) THEN w ELSE try.w
  <1>1. w \in Worlds /\ Running(w, read) /\ Placed(w.bosh)
    BY DEF Holds
  <1>2. /\ w = [bosh |-> w.bosh, link |-> w.link, client |-> w.client]
        /\ w.bosh \in Members /\ w.link \in Links /\ w.client \in Clients
        /\ w.bosh.sendBuffer \in Seq(1..MaxStanzas) /\ w.bosh.rid \in Rids
        /\ w.bosh.open \in 0..2
    BY <1>1, Parts DEF Members
  <1>3. rid \in Rids
    BY SMTT(30), <1>2, ConstantsAssumption DEF NextRid, Rids
  <1>4. r \in Requested
    BY <1>2, <1>3 DEF Request, Requested, Kinds
  <1>5. none \in Seq(1..MaxStanzas)
    OBVIOUS
  <1>6. u = [bosh |-> e, link |-> w.link, client |-> w.client]
    BY <1>2 DEF Emptied
  <1> HIDE DEF none
  <1>7. /\ d \in Members /\ d.state = w.bosh.state /\ d.mode = w.bosh.mode
        /\ d.open = w.bosh.open /\ d.limit = w.bosh.limit
        /\ d.active = w.bosh.active /\ d.pool = w.bosh.pool
    BY <1>2, <1>3, RidSet
  <1> HIDE DEF d
  <1>8. /\ e \in Members /\ e.state = w.bosh.state /\ e.mode = w.bosh.mode
        /\ e.open = w.bosh.open /\ e.limit = w.bosh.limit
        /\ e.active = w.bosh.active /\ e.pool = w.bosh.pool
    BY <1>5, <1>7, BufferSet
  <1> HIDE DEF e
  <1>9. u \in Worlds /\ u.bosh = e /\ u.client = w.client
    <2> DEFINE f == w.link
               g == w.client
    <2>1. e \in Members /\ f \in Links /\ g \in Clients
      BY <1>2, <1>8
    <2>2. u = [bosh |-> e, link |-> f, client |-> g]
      BY <1>6
    <2> HIDE DEF f, g
    <2>3. u \in Worlds /\ u.bosh = e /\ u.client = g
      BY <2>1, <2>2, Made
    <2> QED BY <2>3 DEF g
  <1>10. Placed(u.bosh) /\ Slots(u.bosh)
    BY <1>1, <1>8, <1>9 DEF Placed, Running, Slots
  <1>11. Onward(u, try.w)
    <2>1. try = SendRequest(u, r, lucky)
      OBVIOUS
    <2> HIDE DEF try
    <2> QED BY <1>4, <1>9, <1>10, <2>1, Sends
  <1>14. v = Tell(x)
    BY DEF Left
  <1> HIDE DEF try
  <1>12. Onward(w, w) /\ Onward(w, try.w)
    BY <1>1, <1>2, <1>8, <1>9, <1>11 DEF Onward
  <1>13. Onward(w, x)
    BY <1>12
  <1> HIDE DEF x
  <1>15. Holds(v, read, l)
    BY <1>13, <1>14, Ended
  <1>16. v.client.begun = x.client.begun /\ ~Alive(v)
    BY <1>13, <1>14, Tells DEF Onward, Alive
  <1> QED BY <1>13, <1>15, <1>16 DEF Onward

\* What recv() on a connection leaves alone.
LEMMA Received ==
  ASSUME NEW w \in Worlds, NEW read, NEW conns, NEW at, NEW v, NEW more, NEW k,
         Receives(w, read, conns, at, v, more, k)
  PROVE  /\ v.client.begun = w.client.begun
         /\ Alive(v) => /\ Alive(w) /\ v.client = w.client
                        /\ Alike(w.bosh, v.bosh) /\ v.bosh.open = w.bosh.open
PROOF
  <1> DEFINE c == conns[1]
             n == IF conns = <<>> THEN 0 ELSE Len(w.link[c].pieces)
  <1>1. w = [bosh |-> w.bosh, link |-> w.link, client |-> w.client]
    BY Parts
  <1>2. CASE n = 0
    <2>1. v = w \/ v = HandleDisconnect(w)
      BY <1>2 DEF Receives
    <2>2. CASE v = w
      BY <2>2 DEF Alike
    <2>3. CASE v = HandleDisconnect(w)
      <3>1. CASE w.bosh.state = "connecting"
        <4>1. v = Tell(w)
          BY <2>3, <3>1, Disconnects
        <4> QED BY <4>1, Tells DEF Alive
      <3>2. CASE w.bosh.state # "connecting"
        BY <2>3, <3>2, Disconnects DEF Alive, Alike
      <3> QED BY <3>1, <3>2
    <2> QED BY <2>1, <2>2, <2>3
  <1>3. CASE n # 0
    <2>1. PICK i : v = [w EXCEPT !.link[c].pieces = SubSeq(@, i + 1, n)]
      BY <1>3 DEF Receives
    <2> HIDE DEF n, c
    <2>2. v.bosh = w.bosh /\ v.client = w.client
      BY <1>1, <2>1
    <2> QED BY <2>2 DEF Alive, Alike
  <1> QED BY <1>2, <1>3

-----------------------------------------------------------------------------
(* The invariant. *)

\* What holds of the program and of its client, before the session too.
IInv == Holds(World, buffer, loop) /\ Fresh(World, buffer, loop)

\* A step that leads to world v, with more in the buffer and recv() at k.
Leads(v, more, k) == World' = v /\ buffer' = more /\ loop' = k

LEMMA Leading ==
  ASSUME NEW v, NEW more, NEW k, Leads(v, more, k), Holds(v, more, k), v.client.begun
  PROVE  IInv'
PROOF
  <1>1. Holds(World', buffer', loop')
    BY DEF Leads
  <1>2. World'.client.begun
    BY DEF Leads
  <1>3. Fresh(World', buffer', loop')
    BY <1>2 DEF Fresh
  <1> QED BY <1>1, <1>3 DEF IInv

\* The variables are the parts of a world.
LEMMA Leaving ==
  ASSUME NEW v \in Worlds, Becomes(v)
  PROVE  World' = v
PROOF
  BY Parts DEF Becomes, World

LEMMA Here ==
  /\ World.bosh = bosh /\ World.link = link /\ World.client = client
  /\ World = [bosh |-> bosh, link |-> link, client |-> client]
  /\ Live <=> Alive(World)
PROOF
  BY DEF World, Live, Alive

\* It holds at the start.
LEMMA Initially == ASSUME Init PROVE IInv
PROOF
  <1> DEFINE w == World
  <1>1. /\ w.bosh = bosh /\ w.link = link /\ w.client = client
        /\ w = [bosh |-> bosh, link |-> link, client |-> client]
    BY Here
  <1>2. /\ bosh \in Members /\ bosh.state = "disconnected" /\ bosh.rid = 0 /\ bosh.open = 0
        /\ ~bosh.restart /\ bosh.sendBuffer = <<>> /\ bosh.active = <<>> /\ bosh.pool = <<1>>
    <2> DEFINE no == FALSE
               none == <<>>
               one == <<1>>
    <2>1. PICK mode \in Modes :
            bosh = [state |-> "disconnected", mode |-> mode, rid |-> 0,
                    open |-> 0, limit |-> 2, restart |-> no,
                    sendBuffer |-> none, active |-> none, pool |-> one]
      BY DEF Init
    <2>2. /\ mode \in {"pipelining", "persistent", "legacy"} /\ 0 \in Rids /\ 1 \in Conns
      BY ConstantsAssumption DEF Rids, Conns
    <2>3. no \in BOOLEAN /\ ~no
      OBVIOUS
    <2>4. /\ none \in Seq(1..MaxStanzas) /\ none \in Seq(Conns) /\ none = <<>>
      OBVIOUS
    <2>5. one \in Seq(Conns) /\ one = <<1>>
      BY <2>2
    <2> HIDE DEF no, none, one
    <2> QED BY <2>1, <2>2, <2>3, <2>4, <2>5 DEF Members
  <1>3. link = AllDown /\ buffer = <<>> /\ buffer \in Seq(Piece)
    BY DEF Init, AllDown
  <1>4. /\ client \in Clients /\ ~client.begun /\ client.sent = 0 /\ client.carried = <<>>
    <2> DEFINE no == FALSE
               none == <<>>
    <2>1. client = [begun |-> no, sent |-> 0, carried |-> none, told |-> no,
                    asked |-> 0, restarted |-> 0]
      BY DEF Init
    <2>2. no \in BOOLEAN /\ ~no /\ none \in Seq(1..MaxStanzas) /\ none = <<>>
      OBVIOUS
    <2>3. MaxStanzas \in Nat /\ MaxRestarts \in Nat
      BY ConstantsAssumption
    <2> HIDE DEF no, none
    <2> QED BY <2>1, <2>2, <2>3 DEF Clients
  <1>5. loop \in Loops /\ loop.at = "app" /\ loop.calls = 0 /\ ~loop.inHandler /\ loop.quit
    <2> DEFINE q == TRUE
    <2>1. q \in BOOLEAN /\ q
      OBVIOUS
    <2>2. loop = [at |-> "app", calls |-> 0, inHandler |-> FALSE, quit |-> q]
      BY DEF Init
    <2> HIDE DEF q
    <2> QED BY <2>1, <2>2, Places
  <1> HIDE DEF w
  <1>6. w \in Worlds
    <2>1. AllDown \in Links
      BY Parts
    <2> QED BY <1>1, <1>2, <1>3, <1>4, <2>1, Made
  <1>7. Placed(w.bosh)
    <2>1. DOMAIN <<>> = {} /\ DOMAIN <<1>> = {1} /\ Len(<<>>) = 0 /\ Len(<<1>>) = 1
      OBVIOUS
    <2> QED BY <1>1, <1>2, <2>1 DEF Placed, Apart
  <1>8. ~Alive(w)
    BY <1>1, <1>2 DEF Alive
  <1>9. Turns(w, buffer, loop)
    BY <1>5, <1>8 DEF Turns
  <1>10. Over(w, buffer, loop)
    BY <1>1, <1>3, <1>4, <1>5 DEF Over
  <1>11. Holds(w, buffer, loop)
    BY <1>3, <1>6, <1>7, <1>8, <1>9, <1>10 DEF Holds
  <1>12. Fresh(w, buffer, loop)
    BY <1>1, <1>2, <1>3, <1>4, <1>5 DEF Fresh
  <1> QED BY <1>11, <1>12 DEF IInv, w

-----------------------------------------------------------------------------
(* Each action keeps it. *)

LEMMA Connects ==
  ASSUME IInv, NEW lucky \in BOOLEAN, Connect(lucky)
  PROVE  /\ IInv'
         /\ Alive(World') => \E r \in Requested : Asking(World, World', r)
PROOF
  <1> DEFINE u == Called(World)
             v == Open(u, 1, lucky)
  <1>1. Holds(World, buffer, loop) /\ Fresh(World, buffer, loop) /\ ~World.client.begun
    BY Here DEF IInv, Connect
  <1>2. Becomes(v) /\ buffer' = buffer /\ loop' = loop
    BY DEF Connect, Called
  <1>3. u = Called(World) /\ v = Open(u, 1, lucky)
    OBVIOUS
  <1> HIDE DEF u, v
  <1>4. /\ Holds(v, buffer, loop) /\ v.client.begun
        /\ Alive(v) => \E r \in Requested : Asking(World, v, r)
    BY <1>1, <1>3, Starts
  <1>5. World' = v
    <2>1. v \in Worlds
      BY <1>4 DEF Holds
    <2> QED BY <1>2, <2>1, Leaving
  <1>6. IInv'
    BY <1>2, <1>4, <1>5, Leading DEF Leads
  <1> QED BY <1>4, <1>5, <1>6

\* What sendXML() may do.
Wrote(u, v) == Withheld(u, v) \/ \E c \in Conns, r \in Requested : SentNext(u, v, r, c)

\* The session, once begun, is not before its beginning.
LEMMA Going ==
  ASSUME IInv, Live \/ loop.at # "app" \/ loop.calls > 0
  PROVE  World.client.begun
PROOF
  <1>1. Holds(World, buffer, loop) /\ Fresh(World, buffer, loop)
    BY DEF IInv
  <1>2. loop.at = "app" => loop.calls = 0
    BY <1>1 DEF Holds, Turns
  <1> QED BY <1>1, <1>2, Here DEF Fresh, Live

\* A world u like the present one is sent from.
From(u) ==
  /\ u.bosh \in Members /\ u.link = link /\ u.client \in Clients
  /\ u = [bosh |-> u.bosh, link |-> u.link, client |-> u.client]
  /\ Kin(bosh, u.bosh) /\ u.bosh.mode = bosh.mode /\ u.client.begun = client.begun

LEMMA Writing ==
  ASSUME IInv, Live, NEW lucky \in BOOLEAN, NEW u, From(u), Becomes(SendXML(u, lucky)),
         buffer' = buffer, loop' = loop
  PROVE  IInv' /\ Wrote(u, World') /\ u \in Worlds
PROOF
  <1> DEFINE v == SendXML(u, lucky)
             w == World
  <1>1. Holds(w, buffer, loop) /\ Alive(w) /\ w.client.begun
    BY Here, Going DEF IInv
  <1>2. /\ u.bosh \in Members /\ u.link = w.link /\ u.client \in Clients
        /\ u = [bosh |-> u.bosh, link |-> u.link, client |-> u.client]
        /\ Kin(w.bosh, u.bosh) /\ u.bosh.mode = w.bosh.mode /\ u.client.begun = w.client.begun
    BY Here DEF From
  <1>3. v = SendXML(u, lucky) /\ Becomes(v)
    OBVIOUS
  <1> HIDE DEF v, w
  <1>4. Holds(v, buffer, loop) /\ v.client.begun = w.client.begun
    BY <1>1, <1>2, <1>3, Calling
  <1>5. World' = v
    <2>1. v \in Worlds
      BY <1>4 DEF Holds
    <2> QED BY <1>3, <2>1, Leaving
  <1>6. IInv'
    BY <1>1, <1>4, <1>5, Leading DEF Leads
  <1>7. w \in Worlds /\ Placed(w.bosh) /\ Running(w, buffer)
    BY <1>1 DEF Holds
  <1>8. u \in Worlds
    <2>1. u.link \in Links
      BY <1>2, <1>7, Parts
    <2> QED BY <1>2, <2>1, Made
  <1>9. Slots(u.bosh) /\ Placed(u.bosh)
    BY <1>2, <1>7 DEF Running, Slots, Kin, Placed
  <1>10. Wrote(u, v)
    BY <1>3, <1>8, <1>9, SendsXml DEF Wrote
  <1> QED BY <1>5, <1>6, <1>8, <1>10

\* A stanza is put into the buffer.
Buffered(w) ==
  [w EXCEPT !.client.sent = @ + 1,
            !.bosh.sendBuffer = Append(@, w.client.sent + 1)]

LEMMA SendsStanza ==
  ASSUME IInv, NEW lucky \in BOOLEAN, SendStanza(lucky)
  PROVE  /\ IInv'
         /\ \E u \in Worlds :
              /\ Wrote(u, World') /\ From(u) /\ Kin(bosh, u.bosh)
              /\ u.bosh.restart = bosh.restart
              /\ u.bosh.sendBuffer = Append(bosh.sendBuffer, client.sent + 1)
              /\ u.client.sent = client.sent + 1 /\ u.client.carried = client.carried
PROOF
  <1> DEFINE w == World
             u == Buffered(w)
             n == client.sent + 1
             s == Append(bosh.sendBuffer, n)
             d == [bosh EXCEPT !.sendBuffer = s]
             k == [client EXCEPT !.sent = n]
  <1>1. /\ Live /\ client.sent < MaxStanzas /\ buffer' = buffer /\ loop' = loop
        /\ Becomes(SendXML(u, lucky))
    BY DEF SendStanza, Live, Buffered, World
  <1>2. w \in Worlds
    BY DEF IInv, Holds
  <1>3. bosh \in Members /\ client \in Clients /\ bosh.sendBuffer \in Seq(1..MaxStanzas)
    BY <1>2, Here, Parts DEF Members
  <1>4. n \in 1..MaxStanzas /\ n \in 0..MaxStanzas
    BY <1>1, <1>3, ConstantsAssumption DEF Clients
  <1>5. s \in Seq(1..MaxStanzas)
    BY <1>3, <1>4
  <1>6. u = [bosh |-> d, link |-> link, client |-> k]
    <2>1. w = [bosh |-> bosh, link |-> link, client |-> client] /\ w.client = client
      BY Here
    <2>2. u = [w EXCEPT !.client.sent = w.client.sent + 1,
                        !.bosh.sendBuffer = Append(@, w.client.sent + 1)]
      BY DEF Buffered
    <2> HIDE DEF u, w
    <2>3. u = [w EXCEPT !.client.sent = n, !.bosh.sendBuffer = Append(w.bosh.sendBuffer, n)]
      BY <2>1, <2>2
    <2> HIDE DEF n
    <2> QED BY <2>1, <2>3 DEF s
  <1> HIDE DEF u, s, n, w
  <1>7. /\ d \in Members /\ Kin(bosh, d) /\ d.mode = bosh.mode
        /\ d.restart = bosh.restart /\ d.sendBuffer = s
    BY <1>3, <1>5, BufferSet DEF Kin
  <1>8. /\ k \in Clients /\ k.begun = client.begun /\ k.sent = n /\ k.carried = client.carried
    BY <1>3, <1>4, ClientSets
  <1> HIDE DEF d, k
  <1>9. u.bosh = d /\ u.link = link /\ u.client = k
    BY <1>6
  <1>10. From(u)
    BY <1>6, <1>7, <1>8, <1>9 DEF From
  <1>11. IInv' /\ Wrote(u, World') /\ u \in Worlds
    BY <1>1, <1>10, Writing
  <1> QED BY <1>7, <1>8, <1>9, <1>10, <1>11 DEF s, n

\* A restart is asked for.
AskedFor(w) == [w EXCEPT !.client.asked = @ + 1, !.bosh.restart = TRUE]

LEMMA Restarts ==
  ASSUME IInv, NEW lucky \in BOOLEAN, Restart(lucky)
  PROVE  /\ IInv'
         /\ \E u \in Worlds :
              /\ Wrote(u, World') /\ From(u) /\ Kin(bosh, u.bosh)
              /\ u.bosh.sendBuffer = bosh.sendBuffer
              /\ u.client.sent = client.sent /\ u.client.carried = client.carried
PROOF
  <1> DEFINE w == World
             yes == TRUE
             u == AskedFor(w)
             n == client.asked + 1
             d == [bosh EXCEPT !.restart = yes]
             k == [client EXCEPT !.asked = n]
  <1>1. /\ Live /\ client.asked < MaxRestarts /\ buffer' = buffer /\ loop' = loop
        /\ Becomes(SendXML(u, lucky)) /\ yes \in BOOLEAN
    BY DEF Restart, Live, AskedFor, World
  <1>2. w \in Worlds
    BY DEF IInv, Holds
  <1>3. bosh \in Members /\ client \in Clients
    BY <1>2, Here, Parts DEF Members
  <1>4. n \in 0..MaxRestarts
    BY <1>1, <1>3, ConstantsAssumption DEF Clients
  <1>6. u = [bosh |-> d, link |-> link, client |-> k]
    <2>1. u = [w EXCEPT !.client.asked = w.client.asked + 1, !.bosh.restart = yes]
      BY DEF AskedFor
    <2>2. w = [bosh |-> bosh, link |-> link, client |-> client] /\ w.client = client
      BY Here
    <2> HIDE DEF u, w, yes
    <2>3. u = [w EXCEPT !.client.asked = n, !.bosh.restart = yes]
      BY <2>1, <2>2
    <2> HIDE DEF n
    <2> QED BY <2>2, <2>3
  <1> HIDE DEF u, n, w, yes
  <1>7. /\ d \in Members /\ Kin(bosh, d) /\ d.mode = bosh.mode
        /\ d.sendBuffer = bosh.sendBuffer
    BY <1>1, <1>3, RestartSet DEF Kin
  <1>8. /\ k \in Clients /\ k.begun = client.begun /\ k.sent = client.sent
        /\ k.carried = client.carried
    BY <1>3, <1>4, ClientSets
  <1> HIDE DEF d, k
  <1>9. u.bosh = d /\ u.link = link /\ u.client = k
    BY <1>6
  <1>10. From(u)
    BY <1>6, <1>7, <1>8, <1>9 DEF From
  <1>11. IInv' /\ Wrote(u, World') /\ u \in Worlds
    BY <1>1, <1>10, Writing
  <1> QED BY <1>7, <1>8, <1>9, <1>10, <1>11

LEMMA Disconnecting ==
  ASSUME IInv, NEW lucky \in BOOLEAN, Disconnect(lucky)
  PROVE  IInv' /\ ~Alive(World')
PROOF
  <1> DEFINE w == World
             rid == NextRid(bosh.rid)
             r == Request(bosh, "end", rid, bosh.sendBuffer)
             u == Emptied(w, rid)
             v == Left(w, u, r, lucky)
  <1>1. /\ Live /\ CanCall /\ Becomes(v) /\ buffer' = buffer /\ loop' = loop
    BY Here DEF Disconnect, Live, Emptied, Left
  <1>2. /\ Holds(w, buffer, loop) /\ Alive(w) /\ w.client.begun /\ w.bosh = bosh
        /\ (loop.at = "app" \/ loop.inHandler)
    BY <1>1, Here, Going DEF IInv, CanCall
  <1>3. /\ rid = NextRid(w.bosh.rid)
        /\ r = Request(w.bosh, "end", rid, w.bosh.sendBuffer)
        /\ u = Emptied(w, rid)
        /\ v = Left(w, u, r, lucky)
    BY <1>2
  <1> HIDE DEF rid, r, u, v, w
  <1>4. Holds(v, buffer, loop) /\ v.client.begun = w.client.begun /\ ~Alive(v)
    BY ZenonT(60), <1>2, <1>3, Ending
  <1>5. World' = v
    <2>1. v \in Worlds
      BY <1>4 DEF Holds
    <2> QED BY <1>1, <2>1, Leaving
  <1>6. IInv'
    BY <1>1, <1>2, <1>4, <1>5, Leading DEF Leads
  <1> QED BY <1>4, <1>5, <1>6

\* recv() on a connection is what it was said to be.
LEMMA Receiving ==
  ASSUME World \in Worlds, NEW conns, NEW at, Receive(conns, at)
  PROVE  Receives(World, buffer, conns, at, World', buffer', loop')
PROOF
  <1> DEFINE w == World
             c == conns[1]
             n == IF conns = <<>> THEN 0 ELSE Len(link[c].pieces)
             lost == n = 0 /\ conns # <<>> /\ link[c].eof
  <1>1. w = [bosh |-> bosh, link |-> link, client |-> client] /\ w.link = link
    BY Here
  <1>2. loop' = [at |-> at, calls |-> 0, inHandler |-> FALSE, quit |-> n = 0]
    BY DEF Receive
  <1>3. CASE n = 0
    <2> DEFINE v == IF lost THEN HandleDisconnect(w) ELSE w
    <2>1. Becomes(v) /\ buffer' = buffer
      BY <1>3 DEF Receive
    <2>2. v \in Worlds
      BY Disconnects
    <2> HIDE DEF v
    <2>3. World' = v
      BY <2>1, <2>2, Leaving
    <2> QED BY <1>1, <1>2, <1>3, <2>1, <2>3 DEF Receives, v
  <1>4. CASE n # 0
    <2>1. PICK i \in 1..n :
            /\ buffer' = buffer \o SubSeq(link[c].pieces, 1, i)
            /\ link' = [link EXCEPT ![c].pieces = SubSeq(@, i + 1, n)]
      BY <1>4 DEF Receive
    <2>2. bosh' = bosh /\ client' = client
      BY <1>4 DEF Receive
    <2> DEFINE p == SubSeq(link[c].pieces, i + 1, n)
    <2>3. link' = [link EXCEPT ![c].pieces = p]
      BY <2>1
    <2>4. World' = [bosh |-> bosh, link |-> link', client |-> client]
      BY <2>2 DEF World
    <2>5. World' = [w EXCEPT !.link[c].pieces = p]
      <3> HIDE DEF p, w
      <3> QED BY <1>1, <2>3, <2>4
    <2>6. World' = [w EXCEPT !.link[c].pieces = SubSeq(@, i + 1, n)]
      <3>1. p = SubSeq(w.link[c].pieces, i + 1, n)
        BY <1>1
      <3> HIDE DEF p, w, n, c
      <3> QED BY <2>5, <3>1
    <2>7. buffer' = buffer \o SubSeq(w.link[c].pieces, 1, i)
      BY <1>1, <2>1
    <2>8. n = (IF conns = <<>> THEN 0 ELSE Len(w.link[c].pieces))
      BY <1>1
    <2> HIDE DEF n, w
    <2>9. \E j \in 1..n : /\ buffer' = buffer \o SubSeq(w.link[c].pieces, 1, j)
                          /\ World' = [w EXCEPT !.link[c].pieces = SubSeq(@, j + 1, n)]
      BY <2>6, <2>7
    <2> QED BY <1>2, <1>4, <2>8, <2>9 DEF Receives, w
  <1> QED BY <1>3, <1>4

LEMMA ReceivesFromPool ==
  ASSUME IInv, RecvPool
  PROVE  /\ IInv' /\ Live
         /\ Receives(World, buffer, bosh.pool, "pool", World', buffer', loop')
PROOF
  <1>1. Holds(World, buffer, loop) /\ World \in Worlds /\ World.bosh = bosh
    BY Here DEF IInv, Holds
  <1>2. Live /\ loop.at = "app" /\ Alive(World)
    BY Here DEF RecvPool, Live
  <1>3. Receives(World, buffer, World.bosh.pool, "pool", World', buffer', loop')
    BY <1>1, Receiving DEF RecvPool
  <1>4. Holds(World', buffer', loop')
    BY <1>1, <1>2, <1>3, ReceivesPool
  <1>5. World'.client.begun
    BY <1>1, <1>2, <1>3, Going, Received
  <1>6. IInv'
    BY <1>4, <1>5, Leading DEF Leads
  <1> QED BY <1>1, <1>2, <1>3, <1>6

LEMMA ReceivesFromActive ==
  ASSUME IInv, RecvActive
  PROVE  /\ IInv'
         /\ Receives(World, buffer, bosh.active, "active", World', buffer', loop')
PROOF
  <1>1. Holds(World, buffer, loop) /\ World \in Worlds /\ World.bosh = bosh
    BY Here DEF IInv, Holds
  <1>2. loop.at = "pool" /\ Handled
    BY DEF RecvActive
  <1>3. Receives(World, buffer, World.bosh.active, "active", World', buffer', loop')
    BY <1>1, Receiving DEF RecvActive
  <1>4. Holds(World', buffer', loop')
    <2>1. CASE Alive(World)
      <3>1. Len(buffer) \in Nat
        BY <1>1 DEF Holds
      <3>2. Len(buffer) <= 1
        BY <1>1, <1>2, <2>1, <3>1 DEF Handled, Whole, Holds, Turns
      <3> QED BY <1>1, <1>3, <3>2, ReceivesActive
    <2>2. CASE ~Alive(World)
      BY <1>1, <1>3, <2>2, ReceivesNothing
    <2> QED BY <2>1, <2>2
  <1>5. World'.client.begun
    <2>1. World.client.begun
      BY <1>2, Going
    <2> QED BY <1>1, <1>3, <2>1, Received
  <1>6. IInv'
    BY <1>4, <1>5, Leading DEF Leads
  <1> QED BY <1>1, <1>3, <1>6

LEMMA Polling ==
  ASSUME IInv, NEW lucky \in BOOLEAN, Poll(lucky)
  PROVE  IInv' /\ (World' = World \/ (Live /\ Wrote(World, World')))
PROOF
  <1> DEFINE w == World
             v == IF ShouldSend(bosh) THEN SendXML(w, lucky) ELSE w
             k == [loop EXCEPT !.at = "app", !.inHandler = FALSE]
  <1>1. Holds(w, buffer, loop) /\ w \in Worlds /\ w.bosh = bosh /\ w.client.begun
    <2>1. w.client.begun
      BY Going DEF Poll
    <2> QED BY <2>1, Here DEF IInv, Holds
  <1>2. /\ loop.calls = 0 /\ (loop.quit \/ Len(buffer) < 2) /\ buffer' = buffer
        /\ Becomes(v) /\ loop' = k
    <2>1. Len(buffer) \in Nat
      BY <1>1 DEF Holds
    <2> QED BY <2>1 DEF Poll, Handled, Whole
  <1>3. v = (IF ShouldSend(w.bosh) THEN SendXML(w, lucky) ELSE w)
    BY <1>1
  <1>4. k = [loop EXCEPT !.at = "app", !.inHandler = FALSE]
    OBVIOUS
  <1> HIDE DEF v, w, k
  <1>5. Holds(v, buffer, k)
    BY <1>1, <1>2, <1>3, <1>4, Polls
  <1>6. World' = v
    <2>1. v \in Worlds
      BY <1>5 DEF Holds
    <2> QED BY <1>2, <2>1, Leaving
  <1>7. CASE ShouldSend(w.bosh)
    <2>1. Alive(w) /\ v = SendXML(w, lucky)
      BY <1>3, <1>7 DEF ShouldSend, Alive
    <2>2. Placed(w.bosh) /\ Slots(w.bosh)
      BY <1>1, <2>1 DEF Holds, Running
    <2>3. Onward(w, v) /\ Wrote(w, v)
      BY <1>1, <2>1, <2>2, SendsXml DEF Wrote
    <2>4. v.client.begun /\ Live
      BY <1>1, <2>1, <2>3, Here DEF Onward, w
    <2>5. IInv'
      BY <1>2, <1>5, <1>6, <2>4, Leading DEF Leads
    <2> QED BY <1>6, <2>3, <2>4, <2>5 DEF w
  <1>8. CASE ~ShouldSend(w.bosh)
    <2>1. v = w
      BY <1>3, <1>8
    <2>2. IInv'
      BY <1>1, <1>2, <1>5, <1>6, <2>1, Leading DEF Leads
    <2> QED BY <1>6, <2>1, <2>2 DEF w
  <1> QED BY <1>7, <1>8

LEMMA Delivering ==
  ASSUME IInv, Deliver
  PROVE  IInv' /\ World' = World /\ buffer' = buffer
PROOF
  <1> DEFINE k == [loop EXCEPT !.calls = @ - 1, !.inHandler = TRUE]
  <1>1. Holds(World, buffer, loop) /\ loop.calls > 0 /\ loop' = k
    BY DEF IInv, Deliver
  <1>2. World' = World /\ buffer' = buffer
    BY DEF Deliver, World
  <1>3. k = [loop EXCEPT !.calls = @ - 1, !.inHandler = TRUE]
    OBVIOUS
  <1> HIDE DEF k
  <1>4. Holds(World, buffer, k)
    BY <1>1, <1>3, Delivers
  <1>5. World.client.begun
    BY <1>1, Going
  <1>6. IInv'
    BY <1>1, <1>2, <1>4, <1>5, Leading DEF Leads
  <1> QED BY <1>2, <1>6

LEMMA Handling ==
  ASSUME IInv, HandleAnswer
  PROVE  /\ IInv' /\ Handles(World, buffer, World')
         /\ TakesAnswer(World, buffer, loop, World', buffer', loop')
PROOF
  <1> DEFINE w == World
             a == buffer[1].answer
             u == IF a.ok THEN w ELSE Broken(w)
             put == Retired(u, a)
             v == IF a.empty THEN u ELSE HandleTag(put, a)
  <1>1. /\ loop.at # "app" /\ ~loop.quit /\ Len(buffer) >= 2
    BY DEF HandleAnswer, Whole
  <1>2. Holds(w, buffer, loop) /\ w.client.begun
    BY <1>1, Going DEF IInv
  <1>3. /\ Becomes(v)
        /\ a.empty => buffer' = buffer /\ loop' = [loop EXCEPT !.inHandler = FALSE, !.quit = TRUE]
        /\ ~a.empty =>
             /\ buffer' = SubSeq(buffer, 3, Len(buffer))
             /\ loop' = [loop EXCEPT !.inHandler = FALSE,
                                     !.calls = HandlerCalls(put.bosh, a)]
    BY DEF HandleAnswer, Retired
  <1>4. TakesAnswer(w, buffer, loop, v, buffer', loop')
    BY <1>3 DEF TakesAnswer
  <1>5. Holds(v, buffer', loop') /\ Handles(w, buffer, v)
    <2> HIDE DEF v, w
    <2>1. CASE buffer[1].answer.empty
      BY <1>1, <1>2, <1>4, <2>1, NoBody
    <2>2. CASE ~buffer[1].answer.empty
      BY <1>1, <1>2, <1>4, <2>2, Body
    <2> QED BY <2>1, <2>2
  <1> HIDE DEF v, w
  <1>6. World' = v
    <2>1. v \in Worlds
      BY <1>5 DEF Holds
    <2> QED BY <1>3, <2>1, Leaving
  <1>7. IInv'
    <2>1. v.client.begun
      BY <1>2, <1>5 DEF Handles
    <2> QED BY <1>5, <1>6, <2>1, Leading DEF Leads
  <1> QED BY <1>4, <1>5, <1>6, <1>7 DEF w

\* An answer of which only the header was read: the requests under way stay.
Looks(w, read, l, v, k) ==
  LET a == read[1].answer
      u == IF a.ok THEN w ELSE Broken(w)
  IN /\ v = IF a.empty THEN u
            ELSE [u EXCEPT !.bosh.mode = IF a.last THEN "legacy" ELSE @]
     /\ k = [l EXCEPT !.inHandler = FALSE, !.quit = TRUE]

\* A sequence of one.
LEMMA OneElement ==
  ASSUME NEW S, NEW s \in Seq(S), Len(s) = 1
  PROVE  1 \in DOMAIN s /\ s # <<>> /\ s[1] \in S
PROOF
  OBVIOUS

\* The last answer on its connection is the only one under way.
LEMMA LastAlone ==
  ASSUME NEW w \in Worlds, NEW read \in Seq(Piece), Running(w, read), Len(read) = 1,
         read[1].answer.last
  PROVE  \A c \in Conns : Solo(Flow(w, read, c), w.link[c].requests)
PROOF
  <1> DEFINE f == w.bosh.active[1]
             s == Flow(w, read, f)
  <1>1. 1 \in DOMAIN read /\ w.bosh.active # <<>>
    <2>1. 1 \in DOMAIN read /\ read # <<>>
      BY OneElement
    <2> QED BY <2>1 DEF Running
  <1>2. First(w.bosh, f)
    BY <1>1 DEF First
  <1>3. w.bosh.mode # "pipelining" => \A c \in Conns : Solo(Flow(w, read, c), w.link[c].requests)
    BY DEF Running, Lines, Line
  <1> SUFFICES ASSUME w.bosh.mode = "pipelining", NEW c \in Conns
               PROVE  Solo(Flow(w, read, c), w.link[c].requests)
    BY <1>3
  <1>4. Len(w.bosh.active) = 1 /\ w.bosh.active \in Seq(Conns)
    BY Parts DEF Running, Slots, Members
  <1>5. CASE c = f
    <2> HIDE DEF f
    <2>1. /\ 1 \in DOMAIN s /\ s[1] = read[1] /\ Line(w.bosh, f, s, w.link[f])
          /\ s \in Seq(Piece)
      BY <1>1, <1>2, <1>5, FrontFlow, Reading
    <2> HIDE DEF s
    <2>2. /\ s[1].half = 1 /\ 2 \in DOMAIN s /\ s[2].half = 2 /\ s[2].answer = s[1].answer
      <3>1. s[1].half \in 1..2 /\ 1 \in DOMAIN s
        <4>1. s[1] \in Piece
          BY <2>1
        <4> QED BY <2>1, <4>1 DEF Piece
      <3>2. Paired(s)
        BY <2>1 DEF Line
      <3>3. s[1].half = 1
        BY <3>1, <3>2 DEF Paired
      <3>4. 1 + 1 \in DOMAIN s /\ s[1 + 1].half = 2 /\ s[1 + 1].answer = s[1].answer
        BY <3>1, <3>2, <3>3 DEF Paired
      <3> QED BY <3>3, <3>4
    <2>3. Ends(s, w.link[f])
      BY <2>1 DEF Line
    <2>4. w.link[f].eof /\ Len(s) = 2
      BY <2>1, <2>2, <2>3 DEF Ends
    <2>5. w.link[f].requests = <<>>
      BY <2>3, <2>4 DEF Ends
    <2> QED BY <1>5, <2>4, <2>5 DEF Solo, s
  <1>6. CASE c # f
    <2>1. ~Active(w.bosh, c)
      <3>1. DOMAIN w.bosh.active = 1..1
        BY <1>4
      <3>2. \A i \in 1..1 : i = 1
        OBVIOUS
      <3> QED BY <1>6, <3>1, <3>2 DEF Active
    <2>2. Flow(w, read, c) = <<>> /\ w.link[c].requests = <<>>
      BY <2>1, Quiet DEF Running
    <2>3. Len(<<>>) = 0
      OBVIOUS
    <2> QED BY <2>2, <2>3 DEF Solo
  <1> QED BY <1>5, <1>6

LEMMA Header ==
  ASSUME NEW w, NEW read, NEW l, Holds(w, read, l), l.at # "app", l.calls = 0,
         Len(read) = 1, w.client.begun, NEW v, NEW k, Looks(w, read, l, v, k)
  PROVE  /\ Holds(v, read, k) /\ v.client.begun
         /\ Alive(v) =>
              /\ Running(w, read) /\ Kin(w.bosh, v.bosh)
              /\ v.bosh.restart = w.bosh.restart /\ v.bosh.sendBuffer = w.bosh.sendBuffer
              /\ w.bosh.mode = "legacy" => v.bosh.mode = "legacy"
              /\ v.link = w.link /\ v.client = w.client
PROOF
  <1> DEFINE a == read[1].answer
             u == IF a.ok THEN w ELSE Broken(w)
  <1>1. /\ w \in Worlds /\ read \in Seq(Piece) /\ Placed(w.bosh) /\ l \in Loops
        /\ w.bosh \in Members /\ (Alive(w) => Running(w, read)) /\ (~Alive(w) => Over(w, read, l))
    BY Parts DEF Holds, Turns
  <1>2. a \in Answered /\ read # <<>>
    <2>1. 1 \in DOMAIN read /\ read # <<>> /\ read[1] \in Piece
      BY <1>1, OneElement
    <2> QED BY <2>1 DEF Piece
  <1>3. k \in Loops /\ k.at = l.at /\ k.quit
    BY <1>1, <1>2, Calls DEF Looks
  <1>4. /\ k = [l EXCEPT !.inHandler = FALSE, !.quit = TRUE]
        /\ v = IF a.empty THEN u ELSE [u EXCEPT !.bosh.mode = IF a.last THEN "legacy" ELSE @]
    BY DEF Looks
  <1>5. ~k.inHandler /\ k.calls = l.calls
    BY <1>1, <1>4 DEF Loops
  <1>6. a.ok => u = w
    OBVIOUS
  <1>7. /\ u \in Worlds /\ Placed(u.bosh) /\ u.client.begun
        /\ ~a.ok \/ ~Alive(w) =>
             u.link = AllDown /\ u.client.told /\ u.bosh.state = "disconnected"
    <2>1. CASE a.ok
      BY <1>1, <2>1 DEF Over, Alive
    <2>2. CASE ~a.ok /\ w.bosh.active # <<>>
      <3>1. u = Broken(w)
        BY <2>2
      <3> HIDE DEF u
      <3> QED BY <1>1, <2>2, <3>1, Breaks DEF Placed
    <2>3. CASE ~a.ok /\ w.bosh.active = <<>>
      <3>1. ~Alive(w)
        BY <1>1, <1>2, <2>3 DEF Running
      <3>2. w.link = AllDown /\ w.client.told /\ w.bosh.state = "disconnected"
        BY <1>1, <3>1 DEF Over, Alive
      <3>3. w = [bosh |-> w.bosh, link |-> w.link, client |-> w.client]
        BY <1>1, Parts
      <3>4. u = w \/ u = Tell(w)
        <4>1. [w.bosh EXCEPT !.state = "disconnected"] = w.bosh
          BY <1>1, <3>2 DEF Members
        <4>2. [w EXCEPT !.bosh.state = "disconnected"] = w
          BY <3>3, <4>1
        <4> QED BY <2>3, <4>2 DEF Broken
      <3> HIDE DEF u
      <3>5. CASE u = w
        BY <1>1, <3>2, <3>5
      <3>6. CASE u = Tell(w)
        BY <1>1, <3>6, Tells DEF Placed
      <3> QED BY <3>4, <3>5, <3>6
    <2> QED BY <2>1, <2>2, <2>3
  <1> HIDE DEF a, u
  <1> DEFINE mode == IF a.empty \/ ~a.last THEN u.bosh.mode ELSE "legacy"
             d == [u.bosh EXCEPT !.mode = mode]
  <1>8. u.bosh \in Members /\ u = [bosh |-> u.bosh, link |-> u.link, client |-> u.client]
    BY <1>7, Parts
  <1>9. mode \in {"pipelining", "persistent", "legacy"}
    BY <1>8 DEF Members
  <1>10. v = [bosh |-> d, link |-> u.link, client |-> u.client]
    <2>1. [u.bosh EXCEPT !.mode = u.bosh.mode] = u.bosh
      BY <1>8 DEF Members
    <2>2. CASE a.empty
      BY <1>4, <1>8, <2>1, <2>2
    <2>3. CASE ~a.empty /\ ~a.last
      BY <1>4, <1>8, <2>1, <2>3
    <2>4. CASE ~a.empty /\ a.last
      BY <1>4, <1>8, <2>4
    <2> QED BY <2>2, <2>3, <2>4
  <1>11. /\ d \in Members /\ d.state = u.bosh.state /\ d.rid = u.bosh.rid /\ d.mode = mode
         /\ d.open = u.bosh.open /\ d.limit = u.bosh.limit /\ d.restart = u.bosh.restart
         /\ d.sendBuffer = u.bosh.sendBuffer
         /\ d.active = u.bosh.active /\ d.pool = u.bosh.pool
    <2> HIDE DEF mode
    <2> QED BY <1>8, <1>9, ModeSet
  <1>12. mode # u.bosh.mode => mode = "legacy" /\ a.last
    OBVIOUS
  <1> HIDE DEF mode, d
  <1>13. v \in Worlds /\ v.bosh = d /\ v.link = u.link /\ v.client = u.client
    BY <1>7, <1>10, <1>11, Parts
  <1>14. Placed(v.bosh) /\ v.client.begun
    BY <1>7, <1>11, <1>13 DEF Placed
  <1>15. Alive(v) <=> Alive(u)
    BY <1>11, <1>13 DEF Alive
  <1>16. Turns(v, read, k)
    BY <1>3, <1>5 DEF Turns
  <1>17. CASE Alive(v)
    <2>1. a.ok /\ Alive(w) /\ u = w
      BY <1>6, <1>7, <1>15, <1>17 DEF Alive
    <2>2. Running(w, read) /\ Kin(w.bosh, v.bosh) /\ v.link = w.link
      BY <1>1, <1>11, <1>13, <2>1 DEF Kin
    <2>3. \/ v.bosh.mode = w.bosh.mode
          \/ /\ v.bosh.mode # "pipelining"
             /\ \A c \in Conns : Solo(Flow(w, read, c), w.link[c].requests)
      BY <1>1, <1>11, <1>12, <1>13, <2>1, <2>2, LastAlone DEF a
    <2>4. Running(v, read)
      BY <1>1, <1>13, <2>2, <2>3, RunKin
    <2>5. w.bosh.mode = "legacy" => v.bosh.mode = "legacy"
      BY <1>11, <1>12, <1>13, <2>1
    <2> QED BY <1>1, <1>11, <1>13, <1>14, <1>16, <1>17, <2>1, <2>2, <2>4, <2>5 DEF Holds
  <1>18. CASE ~Alive(v)
    <2>1. Over(v, read, k)
      <3>1. ~a.ok \/ ~Alive(w)
        BY <1>6, <1>15, <1>18
      <3> QED BY <1>3, <1>7, <1>13, <3>1 DEF Over
    <2> QED BY <1>1, <1>13, <1>14, <1>16, <1>18, <2>1 DEF Holds
  <1> QED BY <1>17, <1>18

LEMMA HandlingHeader ==
  ASSUME IInv, HandleHeader
  PROVE  /\ IInv' /\ buffer' = buffer
         /\ Alive(World') =>
              /\ Running(World, buffer) /\ Kin(World.bosh, World'.bosh)
              /\ World'.bosh.restart = World.bosh.restart
              /\ World'.bosh.sendBuffer = World.bosh.sendBuffer
              /\ World.bosh.mode = "legacy" => World'.bosh.mode = "legacy"
              /\ World'.link = World.link /\ World'.client = World.client
PROOF
  <1> DEFINE w == World
             a == buffer[1].answer
             u == IF a.ok THEN w ELSE Broken(w)
             v == IF a.empty THEN u ELSE [u EXCEPT !.bosh.mode = IF a.last THEN "legacy" ELSE @]
  <1>1. /\ loop.at # "app" /\ loop.calls = 0 /\ Len(buffer) = 1 /\ buffer' = buffer
        /\ Becomes(v)
        /\ Looks(w, buffer, loop, v, loop')
    BY DEF HandleHeader, Looks
  <1>2. Holds(w, buffer, loop) /\ w.client.begun
    BY <1>1, Going DEF IInv
  <1> HIDE DEF v, w
  <1>3. /\ Holds(v, buffer, loop') /\ v.client.begun
        /\ Alive(v) =>
              /\ Running(w, buffer) /\ Kin(w.bosh, v.bosh)
              /\ v.bosh.restart = w.bosh.restart /\ v.bosh.sendBuffer = w.bosh.sendBuffer
              /\ w.bosh.mode = "legacy" => v.bosh.mode = "legacy"
              /\ v.link = w.link /\ v.client = w.client
    BY <1>1, <1>2, Header
  <1>4. World' = v
    <2>1. v \in Worlds
      BY <1>3 DEF Holds
    <2> QED BY <1>1, <2>1, Leaving
  <1>5. IInv'
    BY <1>1, <1>3, <1>4, Leading DEF Leads
  <1> QED BY <1>1, <1>3, <1>4, <1>5 DEF w

\* The network changes one link.
LEMMA Relinked ==
  ASSUME World \in Worlds, NEW c \in Conns, NEW m \in Link, link' = [link EXCEPT ![c] = m],
         UNCHANGED <<bosh, client>>
  PROVE  /\ World' \in Worlds /\ World'.bosh = World.bosh /\ World'.client = World.client
         /\ World'.link = [World.link EXCEPT ![c] = m]
PROOF
  <1>1. bosh \in Members /\ link \in Links /\ client \in Clients
    BY Here, Parts
  <1>2. link' \in Links
    BY <1>1, Parts
  <1>3. World' = [bosh |-> bosh, link |-> link', client |-> client]
    BY DEF World
  <1>4. World' \in Worlds /\ World'.bosh = bosh /\ World'.link = link' /\ World'.client = client
    <2>1. [bosh |-> bosh, link |-> link', client |-> client] \in Worlds
      BY <1>1, <1>2, Parts
    <2> QED BY <1>3, <2>1
  <1> QED BY <1>4, Here

LEMMA Alone ==
  ASSUME IInv, NEW c \in Conns, link[c].up \/ link[c].requests # <<>>
  PROVE  Live
PROOF
  <1>1. ~Alive(World) => World.link = AllDown
    BY DEF IInv, Holds, Over
  <1>2. Down.requests = <<>> /\ ~Down.up
    BY DEF Down
  <1>3. ~Live => link[c] = Down
    BY <1>1, Here DEF AllDown
  <1> QED BY <1>2, <1>3

LEMMA AnswersComes ==
  ASSUME IInv, NEW c \in Conns, Answer(c)
  PROVE  /\ IInv' /\ Live /\ World' \in Worlds
         /\ \E a \in Answered :
              /\ a \in Answers(link[c].requests[1]) \cup Refusals(link[c].requests[1])
              /\ MayAnswer(World.link[c].requests[1], a) /\ Brings(World, World', c, a)
         /\ World'.bosh = World.bosh /\ World'.client = World.client
         /\ link[c].requests # <<>> /\ buffer' = buffer
PROOF
  <1> DEFINE w == World
             r == link[c].requests[1]
  <1>1. /\ link[c].requests # <<>> /\ Live /\ buffer' = buffer /\ loop' = loop
        /\ UNCHANGED <<bosh, client>>
    BY Alone DEF Answer
  <1>2. /\ w \in Worlds /\ Holds(w, buffer, loop) /\ w.client.begun /\ w.link = link
        /\ w.link[c] \in Link /\ Alive(w) /\ link \in Links
    BY <1>1, Here, Going, Parts DEF IInv, Holds
  <1>3. /\ link[c].requests \in Seq(Requested) /\ link[c].pieces \in Seq(Piece) /\ r \in Requested
    <2>1. link[c].requests \in Seq(Requested) /\ link[c].pieces \in Seq(Piece)
      BY <1>2 DEF Link
    <2> QED BY <1>1, <2>1
  <1>4. PICK a \in Answers(r) \cup Refusals(r) :
          link' = [link EXCEPT
            ![c].pieces = @ \o Pieces(c, a), ![c].eof = a.last,
            ![c].requests = IF a.last THEN <<>> ELSE Tail(@)]
    BY DEF Answer
  <1>5. a \in Answered /\ MayAnswer(r, a)
    <2> HIDE DEF r
    <2> QED BY <1>3, Answering
  <1> DEFINE t == Pieces(c, a)
             p == link[c].pieces \o t
             q == IF a.last THEN <<>> ELSE Tail(link[c].requests)
             e == a.last
             m == [link[c] EXCEPT !.pieces = p, !.eof = e, !.requests = q]
  <1>6. p \in Seq(Piece) /\ q \in Seq(Requested) /\ e \in BOOLEAN
    <2>1. t \in Seq(Piece)
      BY <1>5, Halves
    <2>2. p \in Seq(Piece)
      <3> HIDE DEF t
      <3> QED BY <1>3, <2>1
    <2>3. e \in BOOLEAN
      BY <1>5 DEF Answered
    <2>4. Tail(link[c].requests) \in Seq(Requested)
      BY <1>1, <1>3
    <2> QED BY <2>2, <2>3, <2>4
  <1>7. /\ link' = [link EXCEPT ![c].pieces = p, ![c].eof = e, ![c].requests = q]
    BY <1>4
  <1> HIDE DEF p, q, e
  <1>8. m \in Link
    BY <1>2, <1>6 DEF Link
  <1>9. link' = [link EXCEPT ![c] = m]
    BY <1>2, <1>7 DEF Links
  <1>10. /\ World' \in Worlds /\ World'.bosh = w.bosh /\ World'.client = w.client
         /\ World'.link = [w.link EXCEPT ![c] = m]
    <2> HIDE DEF m
    <2> QED BY <1>1, <1>2, <1>8, <1>9, Relinked
  <1>11. Brings(w, World', c, a)
    <2>1. World'.link = link'
      BY <1>2, <1>9, <1>10
    <2>2. link' = [link EXCEPT ![c].pieces = link[c].pieces \o Pieces(c, a), ![c].eof = a.last,
                    ![c].requests = IF a.last THEN <<>> ELSE Tail(link[c].requests)]
      BY <1>7 DEF p, q, e
    <2> QED BY <1>2, <2>1, <2>2 DEF Brings
  <1>12. MayAnswer(w.link[c].requests[1], a) /\ w.link[c].requests # <<>>
    BY <1>1, <1>2, <1>5
  <1> HIDE DEF w
  <1>13. Running(World', buffer)
    <2>1. Running(w, buffer) /\ buffer \in Seq(Piece)
      BY <1>2 DEF Holds
    <2> QED BY <1>2, <1>5, <1>10, <1>11, <1>12, <2>1, Replies
  <1>14. Holds(World', buffer, loop)
    BY <1>2, <1>10, <1>13 DEF Holds, Turns, Alive
  <1>15. IInv'
    BY <1>1, <1>2, <1>10, <1>14, Leading DEF Leads
  <1> QED BY <1>1, <1>4, <1>5, <1>10, <1>11, <1>12, <1>15 DEF w

LEMMA Losing ==
  ASSUME IInv, NEW c \in Conns, Lose(c)
  PROVE  /\ IInv' /\ Live /\ World' \in Worlds
         /\ World'.bosh = World.bosh /\ World'.client = World.client
         /\ buffer' = buffer
         /\ World'.link = [link EXCEPT ![c].eof = TRUE, ![c].requests = <<>>]
PROOF
  <1> DEFINE w == World
             e == TRUE
             q == <<>>
             m == [link[c] EXCEPT !.eof = e, !.requests = q]
  <1>1. /\ link[c].up /\ Live /\ buffer' = buffer /\ loop' = loop
        /\ UNCHANGED <<bosh, client>>
    BY Alone DEF Lose
  <1>2. /\ w \in Worlds /\ Holds(w, buffer, loop) /\ w.client.begun /\ w.link = link
        /\ w.link[c] \in Link /\ Alive(w) /\ link \in Links
    BY <1>1, Here, Going, Parts DEF IInv, Holds
  <1>3. link' = [link EXCEPT ![c].eof = e, ![c].requests = q]
    BY DEF Lose
  <1>4. e \in BOOLEAN /\ q \in Seq(Requested)
    OBVIOUS
  <1> HIDE DEF e, q
  <1>5. m \in Link
    BY <1>2, <1>4 DEF Link
  <1>6. link' = [link EXCEPT ![c] = m]
    BY <1>2, <1>3 DEF Links
  <1>7. /\ World' \in Worlds /\ World'.bosh = w.bosh /\ World'.client = w.client
        /\ World'.link = [w.link EXCEPT ![c] = m]
    <2> HIDE DEF m
    <2> QED BY <1>1, <1>2, <1>5, <1>6, Relinked
  <1>8. World'.link = [w.link EXCEPT ![c].eof = e, ![c].requests = q]
    BY <1>2, <1>3, <1>6, <1>7
  <1>9. World'.link = [w.link EXCEPT ![c].eof = TRUE, ![c].requests = <<>>]
    BY <1>8 DEF e, q
  <1>10. w.link[c].up
    BY <1>1, <1>2
  <1> HIDE DEF w
  <1>11. Running(World', buffer)
    <2>1. Running(w, buffer) /\ buffer \in Seq(Piece)
      BY <1>2 DEF Holds
    <2> QED BY <1>2, <1>7, <1>9, <1>10, <2>1, Losses
  <1>12. Holds(World', buffer, loop)
    BY <1>2, <1>7, <1>11 DEF Holds, Turns, Alive
  <1>13. IInv'
    BY <1>1, <1>2, <1>7, <1>12, Leading DEF Leads
  <1> QED BY <1>1, <1>2, <1>7, <1>9, <1>13 DEF w

-----------------------------------------------------------------------------
(* The invariant holds. *)

LEMMA Steps == ASSUME IInv, [Next]_vars PROVE IInv'
PROOF
  <1>1. CASE UNCHANGED vars
    BY <1>1 DEF vars, IInv, World
  <1>2. ASSUME NEW lucky \in BOOLEAN, Connect(lucky) PROVE IInv'
    BY <1>2, Connects
  <1>3. ASSUME NEW lucky \in BOOLEAN, SendStanza(lucky) PROVE IInv'
    BY <1>3, SendsStanza
  <1>4. ASSUME NEW lucky \in BOOLEAN, Restart(lucky) PROVE IInv'
    BY <1>4, Restarts
  <1>5. ASSUME NEW lucky \in BOOLEAN, Disconnect(lucky) PROVE IInv'
    BY <1>5, Disconnecting
  <1>6. ASSUME NEW lucky \in BOOLEAN, Recv(lucky) PROVE IInv'
    BY <1>6, ReceivesFromPool, ReceivesFromActive, Polling, Handling, HandlingHeader,
       Delivering DEF Recv
  <1>7. ASSUME NEW c \in Conns, Answer(c) \/ Lose(c) PROVE IInv'
    BY <1>7, AnswersComes, Losing
  <1> QED BY <1>1, <1>2, <1>3, <1>4, <1>5, <1>6, <1>7 DEF Next

\* The lists and the turns of recv() are as they should, what is under way on
\* each connection is in the order of the requests, and a session that is over
\* was announced.
THEOREM Invariant == Spec => []IInv
PROOF
  <1>1. Init => IInv
    BY Initially
  <1>2. IInv /\ [Next]_vars => IInv'
    BY Steps
  <1> QED BY <1>1, <1>2, PTL DEF Spec

-----------------------------------------------------------------------------
(* What follows from it. *)

\* An injection to an interval from 0.
LEMMA Few ==
  ASSUME NEW S, NEW n \in Nat, NEW f \in [S -> 0..n - 1],
         \A x, y \in S : f[x] = f[y] => x = y
  PROVE  IsFiniteSet(S) /\ Cardinality(S) \in Nat /\ Cardinality(S) <= n
PROOF
  <1>1. f \in Injection(S, 0..n - 1)
    BY Fun_IsInj
  <1>2. IsFiniteSet(0..n - 1) /\ Cardinality(0..n - 1) = n
    BY FS_Interval
  <1> QED BY <1>1, <1>2, FS_Injection, FS_CardinalityType

\* The elements of a sequence without repetitions.
LEMMA Distinct ==
  ASSUME NEW S, NEW s \in Seq(S), \A i, j \in DOMAIN s : s[i] = s[j] => i = j
  PROVE  Cardinality({s[i] : i \in DOMAIN s}) = Len(s)
PROOF
  <1> DEFINE T == {s[i] : i \in DOMAIN s}
  <1>1. DOMAIN s = 1..Len(s) /\ Len(s) \in Nat
    OBVIOUS
  <1>2. s \in [DOMAIN s -> T] /\ \A t \in T : \E i \in DOMAIN s : s[i] = t
    OBVIOUS
  <1>3. s \in Bijection(DOMAIN s, T)
    <2> HIDE DEF T
    <2> QED BY <1>2, Fun_IsBij
  <1>4. ExistsBijection(1..Len(s), T)
    BY <1>1, <1>3 DEF ExistsBijection
  <1>5. IsFiniteSet(1..Len(s)) /\ Cardinality(1..Len(s)) = Len(s)
    BY <1>1, FS_Interval
  <1> QED BY <1>4, <1>5, FS_Bijection

\* What is outstanding is what is under way on the connections.
LEMMA UnderWay ==
  ASSUME IInv, Live
  PROVE  /\ Outstanding = UNION {OursAt(World, buffer, c) : c \in Conns}
         /\ Outstanding \subseteq Rids /\ bosh.rid \in Rids /\ bosh.open \in 0..2
         /\ bosh.limit \in 0..2 /\ Running(World, buffer) /\ Slots(bosh)
         /\ World \in Worlds /\ buffer \in Seq(Piece)
         /\ \A r \in Outstanding : AgeAt(bosh.rid, r) \in 0..bosh.open - 1
         /\ \A r \in Rids : Age(r) = AgeAt(bosh.rid, r)
PROOF
  <1> DEFINE w == World
  <1>1. /\ w \in Worlds /\ buffer \in Seq(Piece) /\ Running(w, buffer)
        /\ w.bosh = bosh /\ w.link = link
    BY Here DEF IInv, Holds
  <1>2. /\ bosh \in Members /\ bosh.rid \in Rids /\ bosh.open \in 0..2 /\ bosh.limit \in 0..2
        /\ bosh.active \in Seq(Conns)
    BY <1>1, Parts DEF Members
  <1>3. ASSUME NEW c \in Conns
        PROVE  OursAt(w, buffer, c) =
                 Asked(c) \cup RidsIn(link[c].pieces)
                   \cup (IF First(bosh, c) THEN RidsIn(buffer) ELSE {})
    <2> DEFINE p == link[c].pieces
    <2>1. p \in Seq(Piece)
      BY <1>1, Reading
    <2>2. RidsIn(buffer \o p) = RidsIn(buffer) \cup RidsIn(p)
      <3> HIDE DEF p
      <3>1. \A i \in DOMAIN (buffer \o p) :
              (buffer \o p)[i] = IF i <= Len(buffer) THEN buffer[i] ELSE p[i - Len(buffer)]
        BY <1>1, <2>1
      <3>2. DOMAIN (buffer \o p) = 1..Len(buffer) + Len(p)
        BY <1>1, <2>1
      <3>3. DOMAIN buffer = 1..Len(buffer) /\ DOMAIN p = 1..Len(p)
            /\ Len(buffer) \in Nat /\ Len(p) \in Nat
        BY <1>1, <2>1
      <3>4. \A x \in RidsIn(buffer \o p) : x \in RidsIn(buffer) \cup RidsIn(p)
        <4> SUFFICES ASSUME NEW i \in DOMAIN (buffer \o p)
                     PROVE  (buffer \o p)[i].answer.rid \in RidsIn(buffer) \cup RidsIn(p)
          BY DEF RidsIn
        <4>1. CASE i <= Len(buffer)
          BY <3>1, <3>2, <3>3, <4>1 DEF RidsIn
        <4>2. CASE i > Len(buffer)
          <5>1. i - Len(buffer) \in DOMAIN p /\ (buffer \o p)[i] = p[i - Len(buffer)]
            BY <3>1, <3>2, <3>3, <4>2
          <5> QED BY <5>1 DEF RidsIn
        <4> QED BY <3>2, <3>3, <4>1, <4>2
      <3>5. \A x \in RidsIn(buffer) : x \in RidsIn(buffer \o p)
        <4> SUFFICES ASSUME NEW i \in DOMAIN buffer
                     PROVE  buffer[i].answer.rid \in RidsIn(buffer \o p)
          BY DEF RidsIn
        <4>1. i \in DOMAIN (buffer \o p) /\ (buffer \o p)[i] = buffer[i]
          BY <3>1, <3>2, <3>3
        <4> QED BY <4>1 DEF RidsIn
      <3>6. \A x \in RidsIn(p) : x \in RidsIn(buffer \o p)
        <4> SUFFICES ASSUME NEW i \in DOMAIN p
                     PROVE  p[i].answer.rid \in RidsIn(buffer \o p)
          BY DEF RidsIn
        <4> DEFINE k == Len(buffer) + i
        <4>1. k \in DOMAIN (buffer \o p) /\ (buffer \o p)[k] = p[i]
          BY <3>1, <3>2, <3>3
        <4> QED BY <4>1 DEF RidsIn
      <3> QED BY <3>4, <3>5, <3>6
    <2>3. OursAt(w, buffer, c) = RidsIn(Flow(w, buffer, c)) \cup Asked(c)
      BY <1>1 DEF OursAt, Ours, RidsIn, Asked
    <2>4. CASE First(bosh, c)
      BY <1>1, <2>2, <2>3, <2>4 DEF Flow
    <2>5. CASE ~First(bosh, c)
      BY <1>1, <2>3, <2>5 DEF Flow
    <2> QED BY <2>4, <2>5
  <1>4. buffer # <<>> => \E c \in Conns : First(bosh, c)
    <2> SUFFICES ASSUME buffer # <<>> PROVE \E c \in Conns : First(bosh, c)
      OBVIOUS
    <2>1. bosh.active # <<>>
      BY <1>1 DEF Running
    <2>2. bosh.active[1] \in Conns
      BY <1>2, <2>1
    <2> QED BY <2>1, <2>2 DEF First
  <1>5. RidsIn(<<>>) = {}
    BY DEF RidsIn
  <1>6. Outstanding = UNION {OursAt(w, buffer, c) : c \in Conns}
    <2> DEFINE all == UNION {OursAt(w, buffer, c) : c \in Conns}
    <2>1. \A c \in Conns : OursAt(w, buffer, c) \subseteq Outstanding
      BY <1>3 DEF Outstanding
    <2>2. \A c \in Conns : Asked(c) \cup RidsIn(link[c].pieces) \subseteq all
      BY <1>3
    <2>3. RidsIn(buffer) \subseteq all
      <3>1. CASE buffer = <<>>
        BY <1>5, <3>1
      <3>2. CASE buffer # <<>>
        <4>1. PICK c \in Conns : First(bosh, c)
          BY <1>4, <3>2
        <4>2. RidsIn(buffer) \subseteq OursAt(w, buffer, c)
          BY <1>3, <4>1
        <4> QED BY <4>2
      <3> QED BY <3>1, <3>2
    <2> QED BY <2>1, <2>2, <2>3 DEF Outstanding
  <1>7. \A c \in Conns : \A r \in OursAt(w, buffer, c) :
          r \in Rids /\ AgeAt(bosh.rid, r) < bosh.open
    <2> SUFFICES ASSUME NEW c \in Conns, NEW r \in OursAt(w, buffer, c)
                 PROVE  r \in Rids /\ AgeAt(bosh.rid, r) < bosh.open
      OBVIOUS
    <2>1. r \in Rids
      BY <1>1, Reading
    <2>2. Counted(bosh, Flow(w, buffer, c), link[c].requests)
      BY <1>1 DEF Running, Lines, Line
    <2>3. AgeAt(bosh.rid, r) < bosh.open
      BY <1>1, <2>2 DEF OursAt, Ours, Counted
    <2> QED BY <2>1, <2>3
  <1> HIDE DEF w
  <1>8. Outstanding \subseteq Rids
    BY <1>6, <1>7
  <1>9. \A r \in Outstanding : AgeAt(bosh.rid, r) \in 0..bosh.open - 1
    <2> SUFFICES ASSUME NEW r \in Outstanding PROVE AgeAt(bosh.rid, r) \in 0..bosh.open - 1
      OBVIOUS
    <2>1. r \in Rids /\ AgeAt(bosh.rid, r) < bosh.open
      BY <1>6, <1>7
    <2>2. AgeAt(bosh.rid, r) \in 0..RidCycle - 1
      BY <1>2, <2>1, Ages
    <2> QED BY <1>2, <2>1, <2>2, ConstantsAssumption
  <1>10. \A r \in Rids : Age(r) = AgeAt(bosh.rid, r)
    BY <1>2, Ages DEF Age
  <1>11. Slots(bosh)
    BY <1>1 DEF Running
  <1> QED BY <1>1, <1>2, <1>6, <1>8, <1>9, <1>10, <1>11 DEF w

\* No more requests than are counted.
LEMMA Respected == ASSUME IInv PROVE SlotsRespected
PROOF
  <1> SUFFICES ASSUME Live
               PROVE  LET n == Cardinality(Outstanding)
                      IN n <= bosh.open /\ (n <= bosh.limit \/ n = 1)
    BY DEF SlotsRespected
  <1>1. /\ Outstanding \subseteq Rids /\ bosh.rid \in Rids /\ bosh.open \in 0..2
        /\ bosh.limit \in 0..2 /\ Slots(bosh)
        /\ \A r \in Outstanding : AgeAt(bosh.rid, r) \in 0..bosh.open - 1
    BY UnderWay
  <1> DEFINE f == [r \in Outstanding |-> AgeAt(bosh.rid, r)]
  <1>2. f \in [Outstanding -> 0..bosh.open - 1]
    BY <1>1
  <1>3. \A x, y \in Outstanding : f[x] = f[y] => x = y
    BY <1>1, Ages
  <1>4. bosh.open \in Nat
    BY <1>1
  <1> HIDE DEF f
  <1>5. Cardinality(Outstanding) \in Nat /\ Cardinality(Outstanding) <= bosh.open
    BY <1>2, <1>3, <1>4, Few
  <1> QED BY <1>1, <1>5 DEF Slots

\* Every member has its type, and each connection is in one list.
LEMMA Typed == ASSUME IInv PROVE TypeOK
PROOF
  <1>1. /\ World \in Worlds /\ Placed(bosh) /\ loop \in Loops
    BY Here DEF IInv, Holds, Turns
  <1>2. bosh \in Members /\ link \in Links /\ client \in Clients
    BY <1>1, Parts, Here
  <1>3. /\ bosh.state \in {"disconnected", "connecting", "connected"}
        /\ bosh.mode \in {"pipelining", "persistent", "legacy"}
        /\ bosh.rid \in 0..RidCycle - 1 /\ {bosh.open, bosh.limit} \subseteq Nat
        /\ bosh.restart \in BOOLEAN /\ bosh.sendBuffer \in Seq(1..MaxStanzas)
        /\ bosh.active \in Seq(Conns) /\ bosh.pool \in Seq(Conns)
    BY <1>2 DEF Members, Rids
  <1> DEFINE a == bosh.active
             p == bosh.pool
             all == a \o p
  <1>4. all \in Seq(Conns)
    BY <1>3
  <1>5. \A i, j \in DOMAIN all : all[i] = all[j] => i = j
    <2>1. /\ DOMAIN all = 1..Len(a) + Len(p) /\ Len(a) \in Nat /\ Len(p) \in Nat
          /\ DOMAIN a = 1..Len(a) /\ DOMAIN p = 1..Len(p)
          /\ \A i \in DOMAIN all :
               all[i] = IF i <= Len(a) THEN a[i] ELSE p[i - Len(a)]
      <3>1. a \in Seq(Conns) /\ p \in Seq(Conns)
        BY <1>3
      <3> HIDE DEF a, p
      <3> QED BY <3>1
    <2>2. /\ \A i, j \in DOMAIN a : a[i] = a[j] => i = j
          /\ \A i, j \in DOMAIN p : p[i] = p[j] => i = j
          /\ \A i \in DOMAIN a, j \in DOMAIN p : a[i] # p[j]
      BY <1>1 DEF Placed, Apart
    <2> HIDE DEF a, p, all
    <2>3. \A i \in DOMAIN all :
            \/ i \in DOMAIN a /\ i <= Len(a) /\ all[i] = a[i]
            \/ i - Len(a) \in DOMAIN p /\ i > Len(a) /\ all[i] = p[i - Len(a)]
      BY <2>1
    <2>4. SUFFICES ASSUME NEW i \in DOMAIN all, NEW j \in DOMAIN all, all[i] = all[j]
                   PROVE  i = j
      OBVIOUS
    <2>5. CASE i <= Len(a) /\ j <= Len(a)
      BY <2>1, <2>2, <2>3, <2>4, <2>5
    <2>6. CASE i > Len(a) /\ j > Len(a)
      <3>1. i - Len(a) = j - Len(a)
        BY <2>1, <2>2, <2>3, <2>4, <2>6
      <3> QED BY <2>1, <2>4, <3>1
    <2>7. CASE (i <= Len(a) /\ j > Len(a)) \/ (i > Len(a) /\ j <= Len(a))
      BY <2>1, <2>2, <2>3, <2>4, <2>7
    <2> QED BY <2>1, <2>4, <2>5, <2>6, <2>7
  <1>6. Cardinality({all[i] : i \in DOMAIN all}) = Len(all)
    <2> HIDE DEF all
    <2> QED BY <1>4, <1>5, Distinct
  <1>7. ASSUME NEW c \in Conns
        PROVE  /\ DOMAIN link[c] = DOMAIN Down
               /\ link[c] = Down \/ (link[c].up /\ link[c].eof \in BOOLEAN)
    <2>1. link[c] \in Link
      BY <1>1, Parts, Here
    <2>2. DOMAIN link[c] = DOMAIN Down /\ link[c].eof \in BOOLEAN
      BY <2>1 DEF Link, Down
    <2>3. link[c] = Down \/ link[c].up
      <3>1. CASE Live
        BY <3>1, Here DEF IInv, Holds, Running, Lines, Line
      <3>2. CASE ~Live
        BY <3>2, Here DEF IInv, Holds, Over, AllDown
      <3> QED BY <3>1, <3>2
    <2> QED BY <2>2, <2>3
  <1>8. /\ client.carried \in Seq(1..MaxStanzas) /\ client.sent \in 0..MaxStanzas
        /\ {client.begun, client.told} \subseteq BOOLEAN
    BY <1>2 DEF Clients
  <1> QED BY <1>1, <1>3, <1>4, <1>6, <1>7, <1>8 DEF TypeOK, Loops

\* The end of a session was told.
LEMMA Told == ASSUME IInv PROVE EndIsTold
PROOF
  BY Here DEF IInv, Holds, Over, EndIsTold

\* What is in the buffer is of the first active connection, the oldest first.
LEMMA InOrder == ASSUME IInv PROVE AnswersInOrder
PROOF
  <1> SUFFICES ASSUME Live, buffer # <<>>
               PROVE  /\ bosh.active # <<>>
                      /\ \A i \in DOMAIN buffer :
                           /\ buffer[i].on = bosh.active[1]
                           /\ buffer[i].half = 2 =>
                                i > 1 /\ buffer[i - 1].answer = buffer[i].answer
                      /\ \A rid \in Outstanding : Age(rid) <= Age(buffer[1].answer.rid)
    BY DEF AnswersInOrder
  <1> DEFINE w == World
             c == bosh.active[1]
             s == Flow(w, buffer, c)
             q == link[c].requests
             first == buffer[1].answer
  <1>1. /\ Outstanding = UNION {OursAt(w, buffer, x) : x \in Conns}
        /\ Outstanding \subseteq Rids /\ bosh.rid \in Rids /\ Running(w, buffer)
        /\ w \in Worlds /\ buffer \in Seq(Piece) /\ w.bosh = bosh /\ w.link = link
        /\ \A r \in Rids : Age(r) = AgeAt(bosh.rid, r)
    BY UnderWay, Here
  <1>2. bosh.active # <<>> /\ First(bosh, c) /\ bosh.active \in Seq(Conns)
    <2>1. bosh.active # <<>>
      BY <1>1 DEF Running
    <2>2. bosh \in Members
      BY <1>1, Parts
    <2> QED BY <2>1, <2>2 DEF First, Members
  <1> HIDE DEF c
  <1>3. /\ c \in Conns /\ Line(bosh, c, s, link[c])
        /\ \A i \in DOMAIN buffer : i \in DOMAIN s /\ s[i] = buffer[i]
    BY <1>1, <1>2, FrontFlow
  <1>4. s \in Seq(Piece) /\ q \in Seq(Requested) /\ link[c] \in Link
    BY <1>1, <1>3, Reading
  <1>5. 1 \in DOMAIN buffer /\ 1 \in DOMAIN s /\ first = s[1].answer
        /\ DOMAIN buffer = 1..Len(buffer) /\ Len(buffer) \in Nat
    <2>1. 1 \in DOMAIN buffer /\ DOMAIN buffer = 1..Len(buffer) /\ Len(buffer) \in Nat
      BY <1>1
    <2> QED BY <1>3, <2>1
  <1> HIDE DEF s, w, q, first
  <1>6. /\ \A i \in DOMAIN s : s[i].on = c
        /\ Paired(s) /\ Ordered(bosh, s, q)
    BY <1>3 DEF Line, q
  <1>7. ASSUME NEW i \in DOMAIN buffer
        PROVE  /\ buffer[i].on = c
               /\ buffer[i].half = 2 => i > 1 /\ buffer[i - 1].answer = buffer[i].answer
    <2>1. i \in DOMAIN s /\ s[i] = buffer[i] /\ s[i].on = c
      BY <1>3, <1>6
    <2>2. ASSUME buffer[i].half = 2 PROVE i > 1 /\ buffer[i - 1].answer = buffer[i].answer
      <3>1. i > 1 /\ s[i - 1].answer = s[i].answer
        BY <1>6, <2>1, <2>2 DEF Paired
      <3>2. i - 1 \in DOMAIN buffer
        BY <1>5, <3>1
      <3> QED BY <1>3, <2>1, <3>1, <3>2
    <2> QED BY <2>1, <2>2
  <1>8. first.rid \in Rids /\ first.rid \in OursAt(w, buffer, c)
    <2>1. first.rid \in Ours(s, q) /\ OursAt(w, buffer, c) = Ours(s, q)
      BY <1>1, <1>5 DEF OursAt, Ours, s, q
    <2> QED BY <1>1, <1>3, <2>1, Reading
  <1>9. ASSUME NEW r \in OursAt(w, buffer, c)
        PROVE  r = first.rid \/ Older(bosh, first.rid, r)
    <2>1. r \in Ours(s, q)
      BY <1>1 DEF OursAt, s, q
    <2>2. /\ 2 \in DOMAIN s /\ s[2].half = 2 /\ s[2].answer = s[1].answer
          /\ DOMAIN s = 1..Len(s) /\ Len(s) \in Nat
      <3>1. s[1].half = 1
        BY <1>5, <1>6 DEF Paired
      <3>2. 1 + 1 \in DOMAIN s /\ s[1 + 1].half = 2 /\ s[1 + 1].answer = s[1].answer
        BY <1>5, <1>6, <3>1 DEF Paired
      <3> QED BY <1>4, <3>2
    <2>3. ASSUME NEW i \in DOMAIN s, r = s[i].answer.rid
          PROVE  r = first.rid \/ Older(bosh, first.rid, r)
      <3>1. CASE i \in {1, 2}
        BY <1>5, <2>2, <2>3, <3>1
      <3>2. CASE i \notin {1, 2}
        <4>1. 2 < i
          BY <2>2, <3>2
        <4>2. Older(bosh, s[2].answer.rid, s[i].answer.rid)
          BY <1>6, <2>2, <4>1 DEF Ordered
        <4> QED BY <1>5, <2>2, <2>3, <4>2
      <3> QED BY <3>1, <3>2
    <2>4. ASSUME NEW i \in DOMAIN q, r = q[i].rid
          PROVE  Older(bosh, first.rid, r)
      BY <1>5, <1>6, <2>4 DEF Ordered
    <2> QED BY <2>1, <2>3, <2>4 DEF Ours
  <1>10. ASSUME NEW x \in Conns, x # c, NEW r \in OursAt(w, buffer, x)
         PROVE  Older(bosh, first.rid, r)
    <2>1. Active(bosh, x)
      <3>1. Lines(w, buffer)
        BY <1>1 DEF Running
      <3> QED BY <1>1, <1>10, <3>1, Quiet
    <2>2. PICK j \in DOMAIN bosh.active : bosh.active[j] = x
      BY <2>1 DEF Active
    <2>3. 1 \in DOMAIN bosh.active /\ 1 < j
      BY <1>2, <1>10, <2>2 DEF c
    <2>4. \A r1 \in OursAt(w, buffer, bosh.active[1]), r2 \in OursAt(w, buffer, bosh.active[j]) :
            Older(bosh, r1, r2)
      BY <1>1, <2>3 DEF Running, Across
    <2> QED BY <1>8, <2>2, <2>4 DEF c
  <1>11. ASSUME NEW rid \in Outstanding PROVE Age(rid) <= Age(first.rid)
    <2>1. rid = first.rid \/ Older(bosh, first.rid, rid)
      BY <1>1, <1>9, <1>10
    <2>2. /\ rid \in Rids /\ Age(rid) = AgeAt(bosh.rid, rid)
          /\ Age(first.rid) = AgeAt(bosh.rid, first.rid)
      BY <1>1, <1>8
    <2>3. AgeAt(bosh.rid, rid) \in 0..RidCycle - 1 /\ AgeAt(bosh.rid, first.rid) \in 0..RidCycle - 1
      BY <1>1, <1>8, <2>2, Ages
    <2> QED BY <2>1, <2>2, <2>3, ConstantsAssumption DEF Older
  <1> QED BY <1>2, <1>7, <1>11 DEF c, first

\* The type invariant (connectionbosh.h: the members of ConnectionBOSH).
THEOREM TypeTheorem == Spec => []TypeOK
PROOF
  BY Invariant, Typed, PTL

\* No more requests are under way than the manager allows, and m_openRequests
\* counts each (connectionbosh.cpp:300, 396, 553).
THEOREM SlotsTheorem == Spec => []SlotsRespected
PROOF
  BY Invariant, Respected, PTL

\* What is in the one buffer is answers of the connection that putConnection()
\* will retire, the oldest request's first (connectionbosh.cpp:365, 623).
THEOREM OrderTheorem == Spec => []AnswersInOrder
PROOF
  BY Invariant, InOrder, PTL

\* A session that is over was announced to the client
\* (connectionbosh.cpp:126-128, 159-161, 441-446, 540-541).
THEOREM EndTheorem == Spec => []EndIsTold
PROOF
  BY Invariant, Told, PTL

-----------------------------------------------------------------------------
(* Each stanza is sent once. *)

\* The first n stanzas.
Numbered(n) == [i \in 1..n |-> i]

\* While the session lives its stanzas are in requests or in the buffer, and no
\* stanza waits behind a restart of the stream.
Kept(w) ==
  Alive(w) =>
    /\ w.client.carried \o w.bosh.sendBuffer = Numbered(w.client.sent)
    /\ w.bosh.restart => w.bosh.sendBuffer = <<>>

\* One element after two sequences.
LEMMA AppendsLast ==
  ASSUME NEW S, NEW s \in Seq(S), NEW t \in Seq(S), NEW x \in S
  PROVE  s \o Append(t, x) = Append(s \o t, x)
PROOF
  <1> DEFINE p == s \o Append(t, x)
             q == Append(s \o t, x)
  <1>1. p \in Seq(S) /\ q \in Seq(S) /\ Len(p) = Len(s) + Len(t) + 1 /\ Len(q) = Len(p)
    OBVIOUS
  <1>2. \A i \in 1..Len(p) : p[i] = q[i]
    OBVIOUS
  <1> HIDE DEF p, q
  <1> QED BY <1>1, <1>2, SeqEqual

\* One stanza more.
LEMMA OneStanza ==
  ASSUME NEW n \in Nat, NEW S, NEW s \in Seq(S), NEW t \in Seq(S), s \o t = Numbered(n), n + 1 \in S
  PROVE  s \o Append(t, n + 1) = Numbered(n + 1)
PROOF
  <1>1. /\ Numbered(n) \in Seq(Nat) /\ Append(Numbered(n), n + 1) = Numbered(n + 1)
    <2>1. Numbered(n) \in Seq(Nat) /\ Len(Numbered(n)) = n
      BY DEF Numbered
    <2>2. Numbered(n + 1) \in Seq(Nat) /\ Len(Numbered(n + 1)) = n + 1
      BY DEF Numbered
    <2>3. /\ \A i \in 1..n : Numbered(n)[i] = i
          /\ \A i \in 1..n + 1 : Numbered(n + 1)[i] = i
      BY DEF Numbered
    <2>4. /\ Append(Numbered(n), n + 1) \in Seq(Nat) /\ Len(Append(Numbered(n), n + 1)) = n + 1
          /\ \A i \in 1..n : Append(Numbered(n), n + 1)[i] = Numbered(n)[i]
          /\ Append(Numbered(n), n + 1)[n + 1] = n + 1
      BY <2>1
    <2>5. \A i \in 1..n + 1 : Append(Numbered(n), n + 1)[i] = Numbered(n + 1)[i]
      BY <2>3, <2>4
    <2> DEFINE x == Append(Numbered(n), n + 1)
               y == Numbered(n + 1)
    <2>6. x \in Seq(Nat) /\ y \in Seq(Nat) /\ Len(x) = Len(y) /\ \A i \in 1..Len(x) : x[i] = y[i]
      BY <2>2, <2>4, <2>5
    <2> HIDE DEF x, y
    <2>7. x = y
      BY <2>6, SeqEqual
    <2> QED BY <2>1, <2>7 DEF x, y
  <1>2. s \o Append(t, n + 1) = Append(s \o t, n + 1)
    BY AppendsLast
  <1> QED BY <1>1, <1>2

\* Nothing after a sequence.
LEMMA NothingMore ==
  ASSUME NEW S, NEW s \in Seq(S)
  PROVE  s \o <<>> = s
PROOF
  BY ConcatEmptySeq

\* sendXML() loses nothing and repeats nothing.
LEMMA WritesAll ==
  ASSUME NEW u \in Worlds, NEW v, Wrote(u, v), Kept(u)
  PROVE  Kept(v)
PROOF
  <1>1. /\ u.client.carried \in Seq(1..MaxStanzas) /\ u.bosh.sendBuffer \in Seq(1..MaxStanzas)
    BY Parts DEF Members, Clients
  <1>2. CASE Withheld(u, v)
    BY <1>2 DEF Withheld, Alike, Kept, Alive
  <1>3. ASSUME NEW c \in Conns, NEW r \in Requested, SentNext(u, v, r, c)
        PROVE  Kept(v)
    <2>1. /\ Alive(u) /\ v.client.sent = u.client.sent
          /\ v.client.carried = u.client.carried \o r.stanzas
          /\ v.bosh.restart = FALSE /\ v.bosh.sendBuffer = <<>>
          /\ r.stanzas = IF u.bosh.restart THEN <<>> ELSE u.bosh.sendBuffer
      BY <1>3 DEF SentNext, Alive
    <2>2. r.stanzas = u.bosh.sendBuffer
      BY <2>1 DEF Kept
    <2>3. v.client.carried = Numbered(u.client.sent)
      BY <2>1, <2>2 DEF Kept
    <2>4. v.client.carried \in Seq(1..MaxStanzas)
      BY <1>1, <2>1, <2>2
    <2>5. v.client.carried \o v.bosh.sendBuffer = v.client.carried
      BY <2>1, <2>4, NothingMore
    <2> QED BY <2>1, <2>3, <2>5 DEF Kept
  <1> QED BY <1>2, <1>3 DEF Wrote

\* No step of a careful client, of recv() or of the manager does.
LEMMA KeepsAll ==
  ASSUME Careful, IInv, Kept(World), [Next]_vars
  PROVE  Kept(World')
PROOF
  <1>1. /\ bosh \in Members /\ client \in Clients /\ World \in Worlds
        /\ client.carried \in Seq(1..MaxStanzas) /\ bosh.sendBuffer \in Seq(1..MaxStanzas)
        /\ client.sent \in Nat /\ MaxStanzas \in Nat
    <2>1. World \in Worlds
      BY DEF IInv, Holds
    <2>2. bosh \in Members /\ client \in Clients
      BY <2>1, Here, Parts
    <2> QED BY <2>1, <2>2, ConstantsAssumption DEF Members, Clients
  <1>2. CASE UNCHANGED vars
    <2>1. World' = World
      BY <1>2 DEF vars, World
    <2> QED BY <2>1
  <1>3. ASSUME NEW lucky \in BOOLEAN, Connect(lucky) PROVE Kept(World')
    <2>1. SUFFICES ASSUME Alive(World') PROVE Kept(World')
      BY DEF Kept
    <2>2. PICK r \in Requested : Asking(World, World', r)
      BY <1>3, <2>1, Connects
    <2>3. /\ ~bosh.restart /\ bosh.sendBuffer = <<>> /\ client.sent = 0 /\ client.carried = <<>>
      BY <1>3, Here DEF Connect, IInv, Fresh
    <2>4. /\ ~World'.bosh.restart /\ World'.bosh.sendBuffer = <<>>
          /\ World'.client.sent = 0 /\ World'.client.carried = <<>>
      BY <2>2, <2>3, Here DEF Asking
    <2>5. <<>> \o <<>> = Numbered(0)
      BY DEF Numbered
    <2> QED BY <2>4, <2>5 DEF Kept
  <1>4. ASSUME NEW lucky \in BOOLEAN, SendStanza(lucky) PROVE Kept(World')
    <2>1. PICK u \in Worlds :
              /\ Wrote(u, World') /\ Kin(bosh, u.bosh)
              /\ u.bosh.restart = bosh.restart
              /\ u.bosh.sendBuffer = Append(bosh.sendBuffer, client.sent + 1)
              /\ u.client.sent = client.sent + 1 /\ u.client.carried = client.carried
      BY <1>4, SendsStanza
    <2>2. Live /\ ~bosh.restart /\ client.sent + 1 \in 1..MaxStanzas
      BY <1>1, <1>4 DEF SendStanza, Live
    <2>3. client.carried \o bosh.sendBuffer = Numbered(client.sent)
      BY <2>2, Here DEF Kept
    <2>4. client.carried \o Append(bosh.sendBuffer, client.sent + 1) = Numbered(client.sent + 1)
      BY <1>1, <2>2, <2>3, OneStanza
    <2>5. Kept(u)
      BY <2>1, <2>2, <2>4 DEF Kept
    <2> QED BY <2>1, <2>5, WritesAll
  <1>5. ASSUME NEW lucky \in BOOLEAN, Restart(lucky) PROVE Kept(World')
    <2>1. PICK u \in Worlds :
              /\ Wrote(u, World') /\ Kin(bosh, u.bosh)
              /\ u.bosh.sendBuffer = bosh.sendBuffer
              /\ u.client.sent = client.sent /\ u.client.carried = client.carried
      BY <1>5, Restarts
    <2>2. Live /\ bosh.sendBuffer = <<>>
      BY <1>5 DEF Restart, Live
    <2>3. Kept(u)
      BY <2>1, <2>2, Here DEF Kept
    <2> QED BY <2>1, <2>3, WritesAll
  <1>6. ASSUME NEW lucky \in BOOLEAN, Disconnect(lucky) PROVE Kept(World')
    BY <1>6, Disconnecting DEF Kept
  <1>7. ASSUME NEW conns, NEW at, Receives(World, buffer, conns, at, World', buffer', loop')
        PROVE  Kept(World')
    <2> DEFINE w == World
               v == World'
    <2>1. Receives(w, buffer, conns, at, v, buffer', loop') /\ w \in Worlds /\ Kept(w)
      BY <1>1, <1>7
    <2> HIDE DEF w, v
    <2>2. Alive(v) => Alive(w) /\ v.client = w.client /\ Alike(w.bosh, v.bosh)
      BY <2>1, Received
    <2>3. Kept(v)
      BY <2>1, <2>2 DEF Kept, Alike
    <2> QED BY <2>3 DEF v
  <1>8. ASSUME NEW lucky \in BOOLEAN, Poll(lucky) PROVE Kept(World')
    BY <1>1, <1>8, Polling, WritesAll
  <1>9. CASE HandleAnswer
    BY <1>9, Handling DEF Handles, Kept
  <1>13. CASE HandleHeader
    BY <1>13, HandlingHeader DEF Kept, Kin, Alive
  <1>10. CASE Deliver
    BY <1>10, Delivering
  <1>11. ASSUME NEW lucky \in BOOLEAN, Recv(lucky) PROVE Kept(World')
    BY <1>7, <1>8, <1>9, <1>10, <1>11, <1>13, ReceivesFromPool, ReceivesFromActive DEF Recv
  <1>12. ASSUME NEW c \in Conns, Answer(c) \/ Lose(c) PROVE Kept(World')
    <2>1. World'.bosh = World.bosh /\ World'.client = World.client
      BY <1>12, AnswersComes, Losing
    <2> QED BY <2>1 DEF Kept, Alive
  <1> QED BY <1>2, <1>3, <1>4, <1>5, <1>6, <1>11, <1>12 DEF Next

\* With a client that restarts the stream as ClientBase does every stanza given
\* to send() is in one request, in order, or in m_sendBuffer
\* (connectionbosh.cpp:212, 254, 260).
THEOREM OnceTheorem == ASSUME Careful PROVE Spec => []StanzasOnce
PROOF
  <1>1. Init => Kept(World)
    BY Here DEF Init, Kept, Alive
  <1>2. IInv /\ Kept(World) /\ [Next]_vars => Kept(World')
    BY KeepsAll
  <1>3. Kept(World) => StanzasOnce
    BY Here DEF Kept, StanzasOnce, Numbered
  <1>4. Kept(World') <=> Kept(World)'
    BY DEF Kept, Alive, Numbered
  <1> QED BY <1>1, <1>2, <1>3, <1>4, Invariant, PTL DEF Spec

-----------------------------------------------------------------------------
(* Request ids have no gap while no connection ends too soon. *)

\* The requests under way.
Under(w, read) == UNION {OursAt(w, read, c) : c \in Conns}

\* What ends a connection: an answer that comes with a session, or one to a
\* request that asked for it; before the session also the loss of the only
\* request, after which none is left.
Lasting(b, s, l, none) ==
  /\ l.eof => (\E i \in DOMAIN s : s[i].answer.last) \/ (none /\ b.state = "connecting")
  /\ \A i \in DOMAIN s :
       s[i].answer.last => s[i].answer.kind = "session" \/ b.mode = "legacy"
  /\ \A i \in DOMAIN l.requests : l.requests[i].last => b.mode = "legacy"

\* Each request that is counted is under way, and will be answered.
Gapless(w, read) ==
  w.bosh.state = "connected" =>
    \A k \in 0..w.bosh.open - 1 : \E r \in Under(w, read) : AgeAt(w.bosh.rid, r) = k

Clean(w, read) ==
  Alive(w) =>
    /\ Gapless(w, read)
    /\ \A c \in Conns :
         Lasting(w.bosh, Flow(w, read, c), w.link[c], Under(w, read) = {})

\* What is under way stays what it is.
Still(w, read, v, more) ==
  /\ v.bosh.state = w.bosh.state /\ v.bosh.rid = w.bosh.rid /\ v.bosh.open = w.bosh.open
  /\ w.bosh.mode = "legacy" => v.bosh.mode = "legacy"
  /\ \A c \in Conns : /\ Flow(v, more, c) = Flow(w, read, c)
                      /\ v.link[c].requests = w.link[c].requests
                      /\ v.link[c].eof => w.link[c].eof

LEMMA CleanStill ==
  ASSUME NEW w, NEW read, NEW v, NEW more, Clean(w, read), Still(w, read, v, more)
  PROVE  Clean(v, more)
PROOF
  <1> SUFFICES ASSUME Alive(v) PROVE Clean(v, more)
    BY DEF Clean
  <1>1. /\ Alive(w) /\ v.bosh.state = w.bosh.state /\ v.bosh.rid = w.bosh.rid
        /\ v.bosh.open = w.bosh.open /\ (w.bosh.mode = "legacy" => v.bosh.mode = "legacy")
    BY DEF Still, Alive
  <1>2. \A c \in Conns : /\ Flow(v, more, c) = Flow(w, read, c)
                         /\ v.link[c].requests = w.link[c].requests
                         /\ v.link[c].eof => w.link[c].eof
    BY DEF Still
  <1>3. Under(v, more) = Under(w, read)
    BY <1>2 DEF Under, OursAt
  <1>4. Gapless(v, more)
    BY <1>1, <1>3 DEF Clean, Gapless
  <1>5. ASSUME NEW c \in Conns
        PROVE  Lasting(v.bosh, Flow(v, more, c), v.link[c], Under(v, more) = {})
    <2>1. Lasting(w.bosh, Flow(w, read, c), w.link[c], Under(w, read) = {})
      BY <1>1 DEF Clean
    <2> DEFINE s == Flow(w, read, c)
               none == Under(w, read) = {}
    <2>2. /\ Flow(v, more, c) = s /\ (Under(v, more) = {}) = none
          /\ Lasting(w.bosh, s, w.link[c], none)
      BY <1>2, <1>3, <2>1
    <2> HIDE DEF s, none
    <2>3. Lasting(v.bosh, s, v.link[c], none)
      BY <1>1, <1>2, <2>2 DEF Lasting
    <2> QED BY <2>2, <2>3
  <1> QED BY <1>4, <1>5 DEF Clean

\* Nothing was sent.
LEMMA UnsentStill ==
  ASSUME NEW w \in Worlds, NEW v \in Worlds, NEW read \in Seq(Piece),
         Running(w, read), Withheld(w, v)
  PROVE  Still(w, read, v, read)
PROOF
  <1> DEFINE b == w.bosh
             d == v.bosh
  <1>1. Lines(w, read) /\ (read # <<>> => b.active # <<>>)
    BY DEF Running
  <1>2. /\ d.rid = b.rid /\ d.open = b.open /\ d.state = b.state
        /\ b.mode = "legacy" => d.mode = "legacy"
    BY DEF Withheld, Alike, Fallback
  <1>3. PICK x \in Conns : d.active = b.active \/ Grown(b, d, x)
    <2>1. 1 \in Conns
      BY ConstantsAssumption DEF Conns
    <2> QED BY <2>1 DEF Withheld
  <1>4. ASSUME NEW c \in Conns
        PROVE  /\ Flow(v, read, c) = Flow(w, read, c)
               /\ v.link[c].requests = w.link[c].requests
               /\ v.link[c].eof => w.link[c].eof
    <2>1. CASE v.link[c] = w.link[c]
      BY <1>1, <1>3, <2>1, SameFlow
    <2>2. CASE v.link[c] = Opened /\ ~Active(b, c)
      <3>1. /\ Flow(w, read, c) = <<>> /\ w.link[c].requests = <<>> /\ w.link[c].pieces = <<>>
        BY <1>1, <2>2, Quiet
      <3>2. v.link[c].requests = <<>> /\ v.link[c].pieces = <<>> /\ ~v.link[c].eof
        BY <2>2 DEF Opened
      <3>3. Flow(v, read, c) = <<>>
        BY <1>1, <1>3, <3>1, <3>2, SameFlow
      <3> QED BY <3>1, <3>2, <3>3
    <2> QED BY <2>1, <2>2 DEF Withheld
  <1> QED BY <1>2, <1>4 DEF Still

\* A request is sent, on a connection that did not end.
LEMMA CleanSent ==
  ASSUME NEW w \in Worlds, NEW v \in Worlds, NEW read \in Seq(Piece), Placed(w.bosh),
         Running(w, read), NEW r \in Requested, NEW c \in Conns, SentNext(w, v, r, c),
         Clean(w, read)
  PROVE  Clean(v, read)
PROOF
  <1> DEFINE b == w.bosh
             d == v.bosh
             l == w.link[c]
  <1>1. /\ b.state = "connected" /\ d.state = "connected" /\ d.mode = b.mode
        /\ d.rid = NextRid(b.rid) /\ d.open = b.open + 1 /\ r.rid = d.rid
        /\ r.last => b.mode = "legacy"
        /\ \A x \in Conns : x # c => v.link[x] = w.link[x]
        /\ l.eof => v.link[c] = l
        /\ ~l.eof => v.link[c] = [l EXCEPT !.requests = Append(l.requests, r)]
        /\ IF b.mode = "pipelining" THEN d.active = b.active /\ c = b.active[1]
           ELSE Grown(b, d, c)
    BY DEF SentNext
  <1>2. /\ b \in Members /\ d \in Members /\ b.active \in Seq(Conns) /\ b.open \in 0..2
        /\ b.rid \in Rids /\ l \in Link /\ l.requests \in Seq(Requested)
        /\ Lines(w, read) /\ Slots(b) /\ (read # <<>> => b.active # <<>>)
    BY Parts, Reading DEF Members, Running
  <1>3. d.active # <<>>
    <2>1. CASE b.mode = "pipelining"
      BY <1>1, <1>2, <2>1 DEF Slots
    <2>2. CASE b.mode # "pipelining"
      BY <1>1, <1>2, <2>2 DEF Grown
    <2> QED BY <2>1, <2>2
  <1>4. /\ Alive(w) /\ Gapless(w, read)
        /\ \A x \in Conns : Lasting(b, Flow(w, read, x), w.link[x], Under(w, read) = {})
    BY <1>1 DEF Clean, Alive
  <1>5. ~l.eof
    <2> SUFFICES ASSUME l.eof PROVE FALSE
      OBVIOUS
    <2> DEFINE s == Flow(w, read, c)
    <2>1. PICK i \in DOMAIN s : s[i].answer.last
      BY <1>1, <1>4 DEF Lasting
    <2>2. s[i].answer.kind = "session" \/ b.mode = "legacy"
      BY <1>4, <2>1 DEF Lasting
    <2>3. s[i].answer.kind # "session"
      BY <1>1, <1>2, <2>1 DEF Lines, Line, Begins
    <2>4. ~Active(b, c)
      BY <1>1, <2>2, <2>3 DEF Grown
    <2>5. s = <<>>
      BY <1>2, <2>4, Quiet
    <2> QED BY <2>1, <2>5
  <1>6. /\ v.link[c].requests = Append(l.requests, r) /\ ~v.link[c].eof
        /\ v.link[c].pieces = l.pieces
    <2> DEFINE q == Append(l.requests, r)
    <2>1. v.link[c] = [l EXCEPT !.requests = q]
      BY <1>1, <1>5
    <2> HIDE DEF q
    <2>2. v.link[c].requests = q /\ v.link[c].eof = l.eof /\ v.link[c].pieces = l.pieces
      BY <1>2, <2>1 DEF Link
    <2> QED BY <1>5, <2>2 DEF q
  <1>7. /\ \A x \in Conns : x # c => OursAt(v, read, x) = OursAt(w, read, x)
        /\ \A x \in Conns : \A y \in OursAt(w, read, x) :
             AgeAt(d.rid, y) = AgeAt(b.rid, y) + 1
        /\ OursAt(v, read, c) = OursAt(w, read, c) \cup {r.rid}
    BY <1>3, <1>5, RunSent
  <1>8. Gapless(v, read)
    <2> SUFFICES ASSUME NEW k \in 0..d.open - 1
                 PROVE  \E y \in Under(v, read) : AgeAt(d.rid, y) = k
      BY DEF Gapless
    <2>1. CASE k = 0
      <3>1. AgeAt(d.rid, r.rid) = 0
        BY <1>1, <1>2, NextAges
      <3>2. r.rid \in Under(v, read)
        BY <1>7 DEF Under
      <3> QED BY <2>1, <3>1, <3>2
    <2>2. CASE k # 0
      <3>1. k - 1 \in 0..b.open - 1
        BY <1>1, <1>2, <2>2
      <3>2. PICK y \in Under(w, read) : AgeAt(b.rid, y) = k - 1
        BY <1>1, <1>4, <3>1 DEF Gapless
      <3>3. PICK x \in Conns : y \in OursAt(w, read, x)
        BY <3>2 DEF Under
      <3>4. y \in OursAt(v, read, x) /\ AgeAt(d.rid, y) = k - 1 + 1
        BY <1>7, <3>2, <3>3
      <3>5. k - 1 + 1 = k
        BY <1>1, <1>2
      <3> QED BY <3>3, <3>4, <3>5 DEF Under
    <2> QED BY <2>1, <2>2
  <1>9. \A x \in Conns : Flow(v, read, x) = Flow(w, read, x)
    <2> SUFFICES ASSUME NEW x \in Conns PROVE Flow(v, read, x) = Flow(w, read, x)
      OBVIOUS
    <2>1. v.link[x].pieces = w.link[x].pieces
      BY <1>1, <1>6
    <2>2. d.active = b.active \/ Grown(b, d, c)
      BY <1>1
    <2> HIDE DEF b, d
    <2> QED BY <1>2, <2>1, <2>2, SameFlow DEF b, d
  <1>10. ASSUME NEW x \in Conns
         PROVE  Lasting(d, Flow(v, read, x), v.link[x], Under(v, read) = {})
    <2> DEFINE s == Flow(w, read, x)
    <2>1. Flow(v, read, x) = s /\ Lasting(b, s, w.link[x], Under(w, read) = {})
      BY <1>4, <1>9
    <2> HIDE DEF s
    <2>2. CASE x # c
      BY <1>1, <2>1, <2>2 DEF Lasting
    <2>3. CASE x = c
      <3> DEFINE p == Append(l.requests, r)
      <3>1. \A i \in DOMAIN p : p[i] = r \/ (i \in DOMAIN l.requests /\ p[i] = l.requests[i])
        BY <1>2
      <3> HIDE DEF p
      <3>2. v.link[c].requests = p /\ ~v.link[c].eof
        BY <1>6 DEF p
      <3> QED BY <1>1, <2>1, <2>3, <3>1, <3>2 DEF Lasting
    <2> QED BY <2>2, <2>3
  <1> QED BY <1>8, <1>10 DEF Clean

\* The oldest answer is taken.
LEMMA CleanTaken ==
  ASSUME NEW w \in Worlds, NEW read \in Seq(Piece), Running(w, read), Len(read) >= 2,
         NEW a, NEW more, NEW c, NEW z, FirstAnswer(w, read, a, more, c, z),
         NEW v \in Worlds, GoesOn(w, v, a, c), Alive(w), Clean(w, read)
  PROVE  Clean(v, more)
PROOF
  <1> DEFINE b == w.bosh
             d == v.bosh
             s == Flow(w, read, c)
             q == w.link[c].requests
  <1>1. /\ c \in Conns /\ a \in Answered /\ z \in Seq(Piece) /\ s \in Seq(Piece)
        /\ z = SubSeq(s, 3, Len(s)) /\ Len(s) >= 2 /\ s[1].answer = a /\ b.open >= 1
    BY FrontTaken, Reading
  <1>2. /\ Younger(w, read, a, c, z)
        /\ b.state = "connecting" => Opening(a)
    BY FrontLeaves
  <1>3. /\ \A x \in Conns : x # c => OursAt(v, more, x) = OursAt(w, read, x)
        /\ OursAt(v, more, c) = Ours(z, q)
        /\ \A x \in Conns : x # c => Flow(v, more, x) = Flow(w, read, x)
        /\ Flow(v, more, c) = z /\ v.link[c].requests = q
    BY RunTaken
  <1>4. /\ b \in Members /\ d \in Members /\ b.open \in 0..2 /\ Slots(b)
        /\ b.state \in {"disconnected", "connecting", "connected"}
        /\ Line(b, c, s, w.link[c])
    BY <1>1, Parts DEF Members, Running, Lines
  <1>5. /\ d.rid = b.rid /\ d.open = b.open - 1 /\ d.state = "connected"
        /\ d.mode = (IF a.last THEN "legacy" ELSE b.mode)
        /\ \A x \in Conns :
             v.link[x] = IF x = c /\ d.mode = "legacy" THEN Down ELSE w.link[x]
    BY <1>2, <1>4 DEF GoesOn, PutBack, Opening, Alive
  <1>6. /\ OursAt(w, read, c) = Ours(z, q) \cup {a.rid} /\ a.rid \in Under(w, read)
        /\ \A r \in Ours(z, q) : AgeAt(b.rid, r) < b.open - 1
        /\ \A x \in Conns : x # c => \A r \in OursAt(w, read, x) : AgeAt(b.rid, r) < b.open - 1
    BY <1>1, <1>2 DEF Younger, Under
  <1>7. /\ Gapless(w, read)
        /\ \A x \in Conns : Lasting(b, Flow(w, read, x), w.link[x], FALSE)
    BY <1>6 DEF Clean
  <1> HIDE DEF b, d, s, q
  <1>8. Gapless(v, more)
    <2> SUFFICES ASSUME NEW k \in 0..d.open - 1
                 PROVE  \E r \in Under(v, more) : AgeAt(d.rid, r) = k
      BY DEF Gapless, d
    <2>1. b.open >= 2 /\ k \in 0..b.open - 1 /\ b.open - 1 \in 0..b.open - 1 /\ k # b.open - 1
      BY <1>4, <1>5
    <2>2. b.state = "connected"
      BY <1>4, <2>1 DEF Slots, Alive, b
    <2>3. \A i \in 0..b.open - 1 : \E r \in Under(w, read) : AgeAt(b.rid, r) = i
      BY <1>7, <2>2 DEF Gapless, b
    <2>4. AgeAt(b.rid, a.rid) = b.open - 1
      <3>1. PICK r \in Under(w, read) : AgeAt(b.rid, r) = b.open - 1
        BY <2>1, <2>3
      <3>2. PICK x \in Conns : r \in OursAt(w, read, x)
        BY <3>1 DEF Under
      <3>3. b.open - 1 \in Int
        BY <2>1
      <3>4. r = a.rid
        BY <1>6, <3>1, <3>2, <3>3
      <3> QED BY <3>1, <3>4
    <2>5. PICK r \in Under(w, read) : AgeAt(b.rid, r) = k
      BY <2>1, <2>3
    <2>6. PICK x \in Conns : r \in OursAt(w, read, x)
      BY <2>5 DEF Under
    <2>7. r \in OursAt(v, more, x)
      BY <1>3, <1>6, <2>1, <2>4, <2>5, <2>6
    <2>8. r \in Under(v, more)
      BY <2>7 DEF Under
    <2> QED BY <1>5, <2>5, <2>8
  <1>9. ASSUME NEW x \in Conns, x # c
        PROVE  Lasting(d, Flow(v, more, x), v.link[x], Under(v, more) = {})
    <2> DEFINE t == Flow(w, read, x)
    <2>1. Flow(v, more, x) = t /\ v.link[x] = w.link[x] /\ Lasting(b, t, w.link[x], FALSE)
      BY <1>3, <1>5, <1>7, <1>9
    <2> HIDE DEF t
    <2> QED BY <1>5, <2>1 DEF Lasting
  <1>10. /\ \A i \in DOMAIN z : i + 2 \in DOMAIN s /\ z[i] = s[i + 2]
         /\ \A i \in DOMAIN s : s[i].answer = a \/ (i - 2 \in DOMAIN z /\ z[i - 2] = s[i])
    <2>1. /\ DOMAIN s = 1..Len(s) /\ Len(s) \in Nat /\ 1 \in DOMAIN s /\ 2 \in DOMAIN s
      BY <1>1
    <2>2. Len(z) = Len(s) - 2 /\ DOMAIN z = 1..Len(z)
      BY <1>1, Dropped
    <2>3. \A i \in 1..Len(z) : z[i] = s[i + 2]
      BY <1>1, <2>1, <2>2
    <2>4. s[2].answer = a
      <3>1. Paired(s)
        BY <1>4 DEF Line
      <3>2. s[1].half = 1
        BY <2>1, <3>1 DEF Paired
      <3>3. s[1 + 1].answer = s[1].answer
        BY <2>1, <3>1, <3>2 DEF Paired
      <3> QED BY <1>1, <3>3
    <2>5. \A i \in DOMAIN s : i \in {1, 2} \/ i - 2 \in 1..Len(z)
      BY <2>1, <2>2
    <2>6. \A i \in DOMAIN s : i - 2 \in 1..Len(z) => z[i - 2] = s[i]
      BY <2>1, <2>2, <2>3
    <2>7. \A i \in 1..Len(z) : i + 2 \in DOMAIN s
      BY <2>1, <2>2
    <2> QED BY <1>1, <2>2, <2>3, <2>4, <2>5, <2>6, <2>7
  <1>11. Lasting(d, z, v.link[c], Under(v, more) = {})
    <2>1. Lasting(b, s, w.link[c], FALSE)
      BY <1>1, <1>7 DEF s
    <2>2. CASE d.mode = "legacy"
      <3>1. ~v.link[c].eof
        BY <1>1, <1>5, <2>2 DEF Down
      <3> QED BY <2>2, <3>1 DEF Lasting
    <2>3. CASE d.mode # "legacy"
      <3>1. ~a.last /\ d.mode = b.mode /\ v.link[c] = w.link[c]
        BY <1>1, <1>5, <2>3
      <3>2. ASSUME v.link[c].eof PROVE \E i \in DOMAIN z : z[i].answer.last
        <4>1. PICK i \in DOMAIN s : s[i].answer.last
          BY <2>1, <3>1, <3>2 DEF Lasting
        <4>2. s[i].answer # a
          BY <3>1, <4>1
        <4>3. i - 2 \in DOMAIN z /\ z[i - 2] = s[i]
          BY <1>10, <4>2
        <4> QED BY <4>1, <4>3
      <3>3. \A i \in DOMAIN z :
              z[i].answer.last => z[i].answer.kind = "session" \/ d.mode = "legacy"
        BY <1>10, <2>1, <3>1 DEF Lasting
      <3> QED BY <2>1, <3>1, <3>2, <3>3 DEF Lasting
    <2> QED BY <2>2, <2>3
  <1> QED BY <1>3, <1>8, <1>9, <1>11 DEF Clean, d

\* recv() on a connection that did not end the session.
LEMMA ReceivesStill ==
  ASSUME NEW w \in Worlds, NEW read \in Seq(Piece), Placed(w.bosh), Alive(w), Running(w, read),
         NEW conns, conns = w.bosh.pool \/ conns = w.bosh.active, NEW at,
         NEW v \in Worlds, NEW more \in Seq(Piece), NEW k,
         Receives(w, read, conns, at, v, more, k), Alive(v)
  PROVE  Still(w, read, v, more)
PROOF
  <1> DEFINE c == conns[1]
             n == IF conns = <<>> THEN 0 ELSE Len(w.link[c].pieces)
  <1>1. /\ w.bosh.active \in Seq(Conns) /\ w.bosh.pool \in Seq(Conns) /\ Lines(w, read)
    BY Parts DEF Members, Running
  <1>2. CASE n = 0
    <2>1. more = read /\ (v = w \/ v = HandleDisconnect(w))
      BY <1>2 DEF Receives
    <2>2. CASE v = w
      BY <2>1, <2>2 DEF Still
    <2>3. CASE v = HandleDisconnect(w)
      <3>1. w.bosh.state # "connecting"
        <4> SUFFICES ASSUME w.bosh.state = "connecting" PROVE FALSE
          OBVIOUS
        <4>1. v = Tell(w)
          BY <2>3, Disconnects
        <4>2. v.bosh.state = "disconnected"
          BY <4>1, Tells
        <4> QED BY <4>2 DEF Alive
      <3>2. /\ v.bosh.active = w.bosh.active /\ v.bosh.open = w.bosh.open
            /\ v.link = w.link /\ Alike(w.bosh, v.bosh) /\ v.bosh.mode = Fallback(w.bosh.mode)
        BY <2>3, <3>1, Disconnects
      <3>3. \A x \in Conns : Flow(v, read, x) = Flow(w, read, x)
        BY <3>2 DEF Flow, First
      <3> QED BY <2>1, <3>2, <3>3 DEF Still, Alike, Fallback
    <2> QED BY <2>1, <2>2, <2>3
  <1>3. CASE n # 0
    <2>1. conns # <<>> /\ n = Len(w.link[c].pieces)
      BY <1>3
    <2>2. PICK i \in 1..n : /\ more = read \o SubSeq(w.link[c].pieces, 1, i)
                            /\ v = [w EXCEPT !.link[c].pieces = SubSeq(@, i + 1, n)]
      BY <1>3 DEF Receives
    <2>3. c \in Conns /\ 1 \in DOMAIN conns
      BY <1>1, <2>1
    <2>4. conns = w.bosh.active
      <3> SUFFICES ASSUME conns = w.bosh.pool PROVE FALSE
        OBVIOUS
      <3>1. ~Active(w.bosh, c)
        BY <2>3 DEF Placed, Apart, Active
      <3>2. w.link[c].pieces = <<>>
        BY <1>1, <2>3, <3>1, Quiet
      <3>3. Len(<<>>) = 0
        OBVIOUS
      <3> QED BY <1>3, <2>1, <3>2, <3>3
    <2>5. First(w.bosh, c)
      BY <2>1, <2>4 DEF First
    <2>6. i \in 1..Len(w.link[c].pieces)
      BY <2>1
    <2>7. w.link \in Links /\ w.link[c] \in Link
      BY <2>3, Parts
    <2> HIDE DEF n, c
    <2> DEFINE p == SubSeq(w.link[c].pieces, i + 1, Len(w.link[c].pieces))
               links == [w.link EXCEPT ![c].pieces = p]
    <2>8. v.bosh = w.bosh /\ v.link = links
      <3>1. w = [bosh |-> w.bosh, link |-> w.link, client |-> w.client]
        BY Parts
      <3>2. v = [w EXCEPT !.link[c].pieces = p]
        BY <2>1, <2>2
      <3> HIDE DEF p
      <3> QED BY <3>1, <3>2
    <2>9. Takes(w, v, read, more, c, i)
      BY <2>2, <2>8 DEF Takes
    <2>10. /\ Flow(v, more, c) = Flow(w, read, c)
           /\ v.link[c].requests = w.link[c].requests /\ v.link[c].eof = w.link[c].eof
      BY <2>3, <2>5, <2>6, <2>8, <2>9, Reads
    <2>11. \A x \in Conns : x # c => v.link[x] = w.link[x]
      <3> HIDE DEF p
      <3> QED BY <2>7, <2>8 DEF Links
    <2>12. \A x \in Conns : x # c => Flow(v, more, x) = Flow(w, read, x)
      BY <2>5, <2>8, <2>11 DEF Flow, First
    <2> QED BY <2>8, <2>10, <2>11, <2>12 DEF Still
  <1> QED BY <1>2, <1>3

\* The manager answers.
LEMMA CleanAnswered ==
  ASSUME NEW w \in Worlds, NEW v \in Worlds, NEW read \in Seq(Piece),
         Running(w, read), v.bosh = w.bosh, NEW c \in Conns, w.link[c].requests # <<>>,
         NEW a \in Answered, MayAnswer(w.link[c].requests[1], a), Brings(w, v, c, a),
         a.last => a.kind = "session" \/ w.bosh.mode = "legacy",
         Alive(w), Clean(w, read)
  PROVE  Clean(v, read)
PROOF
  <1> DEFINE b == w.bosh
             l == w.link[c]
             s == Flow(w, read, c)
             t == Pieces(c, a)
  <1>1. /\ b \in Members /\ w.link \in Links /\ l \in Link /\ l.requests \in Seq(Requested)
        /\ s \in Seq(Piece) /\ t \in Seq(Piece) /\ Len(t) = 2 /\ DOMAIN t = {1, 2}
        /\ \A i \in {1, 2} : t[i].answer = a
    BY Parts, Reading, Halves
  <1>2. /\ Line(b, c, s, l) /\ Slots(b)
    BY DEF Running, Lines
  <1>3. /\ \A x \in Conns : x # c => OursAt(v, read, x) = OursAt(w, read, x)
        /\ ~a.last \/ Len(l.requests) = 1 => OursAt(v, read, c) = OursAt(w, read, c)
        /\ Flow(v, read, c) = s \o t
    BY Replies
  <1>4. /\ \A x \in Conns : x # c => v.link[x] = w.link[x] /\ Flow(v, read, x) = Flow(w, read, x)
        /\ v.link[c].eof = a.last
        /\ v.link[c].requests = IF a.last THEN <<>> ELSE Tail(l.requests)
    <2> DEFINE p == w.link[c].pieces \o Pieces(c, a)
               q == IF a.last THEN <<>> ELSE Tail(w.link[c].requests)
               e == a.last
    <2>1. v.link = [w.link EXCEPT ![c].pieces = p, ![c].eof = e, ![c].requests = q]
      BY DEF Brings
    <2> HIDE DEF p, q, e
    <2>2. /\ \A x \in Conns : x # c => v.link[x] = w.link[x]
          /\ v.link[c].eof = e /\ v.link[c].requests = q
      BY <1>1, <2>1 DEF Links, Link
    <2>3. \A x \in Conns : x # c => Flow(v, read, x) = Flow(w, read, x)
      BY <2>2 DEF Flow
    <2> QED BY <2>2, <2>3 DEF e, q
  <1>5. 1 \in DOMAIN l.requests /\ Len(l.requests) >= 1 /\ Len(l.requests) \in Nat
    BY <1>1
  <1>6. a.last => Len(l.requests) = 1
    <2> SUFFICES ASSUME a.last PROVE Len(l.requests) = 1
      OBVIOUS
    <2>1. CASE a.kind = "session"
      <3>1. l.requests[1].kind = "session"
        BY <2>1 DEF MayAnswer
      <3>2. b.state = "connecting"
        BY <1>2, <1>5, <3>1 DEF Line, Begins
      <3>3. b.open <= 1
        BY <1>2, <3>2 DEF Slots
      <3>4. Solo(s, l.requests)
        BY <1>1, <1>2, <3>3, LineAlone
      <3> DEFINE n == Len(l.requests)
      <3>5. n <= 1 /\ n >= 1 /\ n \in Nat
        BY <1>5, <3>4 DEF Solo
      <3> HIDE DEF n
      <3>6. n = 1
        BY ONLY <3>5
      <3> QED BY <3>6 DEF n
    <2>2. CASE b.mode = "legacy"
      <3>1. Solo(s, l.requests)
        BY <1>2, <2>2 DEF Line
      <3> DEFINE n == Len(l.requests)
      <3>2. n <= 1 /\ n >= 1 /\ n \in Nat
        BY <1>5, <3>1 DEF Solo
      <3> HIDE DEF n
      <3>3. n = 1
        BY ONLY <3>2
      <3> QED BY <3>3 DEF n
    <2> QED BY <2>1, <2>2
  <1>7. Under(v, read) = Under(w, read)
    BY <1>3, <1>6 DEF Under
  <1>8. Gapless(v, read)
    BY <1>7 DEF Clean, Gapless
  <1>9. \A x \in Conns : Lasting(b, Flow(w, read, x), w.link[x], Under(w, read) = {})
    BY DEF Clean
  <1>10. \A x \in Conns : x # c => Lasting(b, Flow(v, read, x), v.link[x], Under(v, read) = {})
    BY <1>4, <1>7, <1>9
  <1>11. Lasting(b, Flow(v, read, c), v.link[c], Under(v, read) = {})
    <2> DEFINE z == s \o t
               none == Under(v, read) = {}
    <2>1. Lasting(b, s, l, none)
      BY <1>7, <1>9
    <2> HIDE DEF s, t, none
    <2>2. /\ \A i \in DOMAIN s : i \in DOMAIN z /\ z[i] = s[i]
          /\ Len(s) + 1 \in DOMAIN z /\ z[Len(s) + 1].answer = a
          /\ \A i \in DOMAIN z : z[i].answer = a \/ (i \in DOMAIN s /\ z[i] = s[i])
      <3>1. /\ DOMAIN z = 1..(Len(s) + 2) /\ DOMAIN s = 1..Len(s) /\ Len(s) \in Nat
            /\ \A i \in DOMAIN s : z[i] = s[i]
            /\ z[Len(s) + 1] = t[1] /\ z[Len(s) + 2] = t[2]
        BY <1>1, JoinedTwo
      <3> HIDE DEF z
      <3>2. \A i \in DOMAIN z : i \in DOMAIN s \/ i = Len(s) + 1 \/ i = Len(s) + 2
        BY <3>1
      <3> QED BY SMTT(30), <1>1, <3>1, <3>2
    <2> HIDE DEF z
    <2>3. \A i \in DOMAIN v.link[c].requests : v.link[c].requests[i].last => b.mode = "legacy"
      <3>1. CASE a.last
        <4>1. DOMAIN <<>> = {}
          OBVIOUS
        <4> QED BY <1>4, <3>1, <4>1
      <3>2. CASE ~a.last
        <4>1. \A i \in DOMAIN Tail(l.requests) :
                i + 1 \in DOMAIN l.requests /\ Tail(l.requests)[i] = l.requests[i + 1]
          BY <1>1, Rest
        <4> QED BY <1>4, <2>1, <3>2, <4>1 DEF Lasting
      <3> QED BY <3>1, <3>2
    <2>4. v.link[c].eof => \E i \in DOMAIN z : z[i].answer.last
      BY <1>4, <2>2
    <2>5. \A i \in DOMAIN z :
            z[i].answer.last => z[i].answer.kind = "session" \/ b.mode = "legacy"
      BY <2>1, <2>2 DEF Lasting
    <2>6. Lasting(b, z, v.link[c], none)
      BY <2>3, <2>4, <2>5 DEF Lasting
    <2> QED BY <1>3, <2>6 DEF z, none
  <1> QED BY <1>8, <1>10, <1>11 DEF Clean

\* The connection is lost before the session begins: nothing is left under way.
LEMMA CleanLost ==
  ASSUME NEW w \in Worlds, NEW v \in Worlds, NEW read \in Seq(Piece),
         Running(w, read), v.bosh = w.bosh, NEW c \in Conns, w.link[c].requests # <<>>,
         v.link = [w.link EXCEPT ![c].eof = TRUE, ![c].requests = <<>>],
         w.bosh.state = "connecting", Clean(w, read)
  PROVE  Clean(v, read)
PROOF
  <1> DEFINE b == w.bosh
             l == w.link[c]
             s == Flow(w, read, c)
             r == l.requests[1].rid
  <1>1. /\ b \in Members /\ w.link \in Links /\ l \in Link /\ l.requests \in Seq(Requested)
        /\ s \in Seq(Piece) /\ b.active \in Seq(Conns)
    BY Parts, Reading DEF Members
  <1>2. /\ \A x \in Conns : Line(b, x, Flow(w, read, x), w.link[x])
        /\ b.open <= 1 /\ Lines(w, read) /\ Across(w, read)
    BY DEF Running, Lines, Slots
  <1>3. /\ \A x \in Conns : x # c => v.link[x] = w.link[x]
        /\ v.link[c].requests = <<>> /\ v.link[c].pieces = l.pieces
    <2> DEFINE yes == TRUE
               q == <<>>
    <2>1. v.link = [w.link EXCEPT ![c].eof = yes, ![c].requests = q]
      OBVIOUS
    <2> HIDE DEF yes, q
    <2>2. /\ \A x \in Conns : x # c => v.link[x] = w.link[x]
          /\ v.link[c].requests = q /\ v.link[c].pieces = l.pieces
      BY <1>1, <2>1 DEF Links, Link
    <2> QED BY <2>2 DEF q
  <1>4. \A x \in Conns : Flow(v, read, x) = Flow(w, read, x)
    BY <1>3 DEF Flow
  <1>5. /\ \A x \in Conns : \A y \in OursAt(w, read, x) : AgeAt(b.rid, y) = 0
        /\ Solo(s, l.requests)
    <2>1. ASSUME NEW x \in Conns
          PROVE  /\ Solo(Flow(w, read, x), w.link[x].requests)
                 /\ \A y \in OursAt(w, read, x) : AgeAt(b.rid, y) = 0
      <3> DEFINE f == Flow(w, read, x)
                 m == w.link[x]
      <3>1. f \in Seq(Piece) /\ m \in Link /\ Line(b, x, f, m)
        BY <1>2, Reading
      <3>3. b \in Members /\ b.open <= 1
        BY <1>1, <1>2
      <3> HIDE DEF f, m, b
      <3>2. Solo(f, m.requests) /\ \A y \in Ours(f, m.requests) : AgeAt(b.rid, y) = 0
        BY ONLY <3>1, <3>3, LineAlone
      <3> QED BY <3>2 DEF f, m, b, OursAt
    <2> QED BY <2>1
  <1>6. s = <<>>
    BY <1>5 DEF Solo
  <1>7. r \in OursAt(w, read, c)
    <2>1. 1 \in DOMAIN l.requests
      BY <1>1
    <2> QED BY <2>1 DEF OursAt, Ours
  <1>8. ASSUME NEW x \in Conns, x # c PROVE OursAt(w, read, x) = {}
    <2> SUFFICES ASSUME NEW y \in OursAt(w, read, x) PROVE FALSE
      OBVIOUS
    <2>1. Active(b, x) /\ Active(b, c)
      BY <1>2, <1>7, Quiet
    <2>2. PICK i \in DOMAIN b.active, j \in DOMAIN b.active : b.active[i] = x /\ b.active[j] = c
      BY <2>1 DEF Active
    <2>3. i # j /\ i \in Nat /\ j \in Nat
      BY <1>1, <1>8, <2>2
    <2>4. AgeAt(b.rid, y) = 0 /\ AgeAt(b.rid, r) = 0
      BY <1>5, <1>7
    <2>5. CASE i < j
      BY <1>2, <1>7, <2>2, <2>4, <2>5 DEF Across, Older
    <2>6. CASE j < i
      BY <1>2, <1>7, <2>2, <2>4, <2>6 DEF Across, Older
    <2> QED BY <2>3, <2>5, <2>6
  <1>9. Under(v, read) = {}
    <2>1. ASSUME NEW x \in Conns PROVE OursAt(v, read, x) = {}
      <3>1. CASE x = c
        <4>1. DOMAIN <<>> = {}
          OBVIOUS
        <4> QED BY <1>3, <1>4, <1>6, <3>1, <4>1 DEF OursAt, Ours
      <3>2. CASE x # c
        BY <1>3, <1>4, <1>8, <3>2 DEF OursAt
      <3> QED BY <3>1, <3>2
    <2> QED BY <2>1 DEF Under
  <1>10. ASSUME NEW x \in Conns
         PROVE  Lasting(b, Flow(v, read, x), v.link[x], Under(v, read) = {})
    <2> DEFINE f == Flow(w, read, x)
    <2>1. Flow(v, read, x) = f /\ Lasting(b, f, w.link[x], Under(w, read) = {})
      BY <1>4 DEF Clean, Alive
    <2> HIDE DEF f
    <2>2. \A i \in DOMAIN v.link[x].requests : v.link[x].requests[i].last => b.mode = "legacy"
      <3>1. CASE x = c
        <4>1. DOMAIN <<>> = {}
          OBVIOUS
        <4> QED BY <1>3, <3>1, <4>1
      <3>2. CASE x # c
        BY <1>3, <2>1, <3>2 DEF Lasting
      <3> QED BY <3>1, <3>2
    <2> QED BY <1>9, <2>1, <2>2 DEF Lasting
  <1> QED BY <1>10 DEF Clean, Gapless

\* The session is asked for.
LEMMA CleanAsking ==
  ASSUME NEW w, NEW v \in Worlds, Placed(v.bosh), NEW r \in Requested, Asking(w, v, r)
  PROVE  Clean(v, <<>>)
PROOF
  <1> DEFINE b == v.bosh
             read == <<>>
             q == Append(Opened.requests, r)
  <1>1. /\ b.state = "connecting" /\ (r.last => b.mode = "legacy")
        /\ v.link[1] = [Opened EXCEPT !.requests = q]
        /\ \A x \in Conns : x # 1 => v.link[x] = Down
    BY DEF Asking
  <1>2. /\ Opened.requests = <<>> /\ Opened.pieces = <<>> /\ ~Opened.eof /\ Opened \in Link
        /\ Down.requests = <<>> /\ Down.pieces = <<>> /\ ~Down.eof
    BY Parts DEF Opened, Down
  <1>3. q = <<r>> /\ DOMAIN q = {1} /\ q[1] = r
    BY <1>2
  <1> HIDE DEF q
  <1>4. v.link[1].requests = q /\ v.link[1].pieces = <<>> /\ ~v.link[1].eof
    BY <1>1, <1>2 DEF Link
  <1>5. ASSUME NEW x \in Conns
        PROVE  /\ v.link[x].pieces = <<>> /\ ~v.link[x].eof
               /\ \A i \in DOMAIN v.link[x].requests :
                    v.link[x].requests[i].last => b.mode = "legacy"
    <2>1. CASE x = 1
      BY <1>1, <1>3, <1>4, <2>1
    <2>2. CASE x # 1
      <3>1. DOMAIN <<>> = {}
        OBVIOUS
      <3> QED BY <1>1, <1>2, <2>2, <3>1
    <2> QED BY <2>1, <2>2
  <1>6. ASSUME NEW x \in Conns
        PROVE  Lasting(b, Flow(v, read, x), v.link[x], Under(v, read) = {})
    <2>1. Flow(v, read, x) = <<>>
      <3>1. read \o <<>> = <<>>
        OBVIOUS
      <3> QED BY <1>5, <3>1 DEF Flow
    <2>2. DOMAIN <<>> = {}
      OBVIOUS
    <2> QED BY <1>5, <2>1, <2>2 DEF Lasting
  <1> QED BY <1>1, <1>6 DEF Clean, Gapless

\* No connection is closed by the manager or lost once the session began.
NoLoss == Faults \cap {"close", "loss"} = {}

\* What sendXML() does keeps it.
LEMMA CleanWrote ==
  ASSUME IInv, Live, Clean(World, buffer), NEW u \in Worlds, From(u), NEW v \in Worlds,
         Wrote(u, v)
  PROVE  Clean(v, buffer)
PROOF
  <1> DEFINE w == World
  <1>1. /\ w \in Worlds /\ buffer \in Seq(Piece) /\ Running(w, buffer) /\ Placed(w.bosh)
        /\ w.bosh = bosh /\ w.link = link
    BY Here DEF IInv, Holds
  <1>2. u.link = w.link /\ Kin(w.bosh, u.bosh) /\ u.bosh.mode = w.bosh.mode
    BY <1>1 DEF From
  <1>3. Clean(w, buffer)
    OBVIOUS
  <1> HIDE DEF w
  <1>4. Running(u, buffer) /\ Placed(u.bosh)
    BY <1>1, <1>2, RunKin DEF Kin, Placed
  <1>5. Still(w, buffer, u, buffer)
    BY <1>2 DEF Still, Kin, Flow, First
  <1>6. Clean(u, buffer)
    BY <1>3, <1>5, CleanStill
  <1>7. CASE Withheld(u, v)
    <2>1. Still(u, buffer, v, buffer)
      BY <1>1, <1>4, <1>7, UnsentStill
    <2> QED BY <1>6, <2>1, CleanStill
  <1>8. ASSUME NEW c \in Conns, NEW r \in Requested, SentNext(u, v, r, c)
        PROVE  Clean(v, buffer)
    BY <1>1, <1>4, <1>6, <1>8, CleanSent
  <1> QED BY <1>7, <1>8 DEF Wrote

LEMMA CleanHandled ==
  ASSUME IInv, Clean(World, buffer), HandleAnswer
  PROVE  Clean(World', buffer')
PROOF
  <1> DEFINE w == World
             v == World'
             a == buffer[1].answer
             more == SubSeq(buffer, 3, Len(buffer))
             c == bosh.active[1]
             z == more \o w.link[c].pieces
  <1> SUFFICES ASSUME Alive(v) PROVE Clean(World', buffer')
    BY DEF Clean
  <1>1. /\ IInv' /\ Handles(w, buffer, v) /\ TakesAnswer(w, buffer, loop, v, buffer', loop')
    BY Handling
  <1>2. /\ Alive(w) /\ GoesOn(w, v, a, c) /\ w \in Worlds /\ w.bosh = bosh
        /\ buffer \in Seq(Piece) /\ Running(w, buffer) /\ Len(buffer) >= 2
    BY <1>1, Here DEF Handles, IInv, Holds, HandleAnswer, Whole
  <1>3. v \in Worlds
    BY <1>1 DEF IInv, Holds
  <1>4. bosh.active # <<>>
    BY <1>2 DEF Running
  <1>5. a.ok /\ a \in Answered
    <2>1. 1 \in DOMAIN buffer
      BY <1>2
    <2>2. buffer[1] \in Piece
      BY <1>2, <2>1
    <2>3. a \in Answered
      BY <2>2 DEF Piece
    <2> QED BY <1>2, <2>3 DEF GoesOn
  <1>6. buffer' = more
    BY <1>1, <1>5 DEF TakesAnswer, Answered
  <1>7. Clean(w, buffer)
    OBVIOUS
  <1>8. FirstAnswer(w, buffer, a, more, c, z)
    BY <1>2, <1>4 DEF FirstAnswer, First
  <1> HIDE DEF w, v, a, more, c, z
  <1>9. Clean(v, more)
    BY <1>2, <1>3, <1>7, <1>8, CleanTaken
  <1> QED BY <1>6, <1>9 DEF v

LEMMA CleanLooked ==
  ASSUME IInv, Clean(World, buffer), HandleHeader
  PROVE  Clean(World', buffer')
PROOF
  <1> DEFINE w == World
             v == World'
  <1>1. /\ buffer' = buffer /\ Clean(w, buffer)
        /\ Alive(v) => /\ Kin(w.bosh, v.bosh) /\ v.link = w.link
                       /\ w.bosh.mode = "legacy" => v.bosh.mode = "legacy"
    BY HandlingHeader
  <1> HIDE DEF w, v
  <1>2. CASE Alive(v)
    <2>1. Still(w, buffer, v, buffer)
      BY <1>1, <1>2 DEF Still, Kin, Flow, First
    <2> QED BY <1>1, <2>1, CleanStill DEF v
  <1>3. CASE ~Alive(v)
    BY <1>1, <1>3 DEF Clean, v
  <1> QED BY <1>2, <1>3

LEMMA CleanReceived ==
  ASSUME IInv, IInv', Live, Clean(World, buffer), NEW at,
         NEW conns, conns = bosh.pool \/ conns = bosh.active,
         Receives(World, buffer, conns, at, World', buffer', loop')
  PROVE  Clean(World', buffer')
PROOF
  <1> DEFINE w == World
             v == World'
             more == buffer'
             k == loop'
  <1>1. /\ w \in Worlds /\ buffer \in Seq(Piece) /\ Running(w, buffer) /\ Placed(w.bosh)
        /\ Alive(w) /\ w.bosh = bosh /\ Clean(w, buffer)
        /\ Receives(w, buffer, conns, at, v, more, k)
    BY Here DEF IInv, Holds
  <1>2. v \in Worlds /\ more \in Seq(Piece)
    BY DEF IInv, Holds
  <1>3. conns = w.bosh.pool \/ conns = w.bosh.active
    BY <1>1
  <1> HIDE DEF w, v, more, k
  <1>4. CASE Alive(v)
    <2>1. Still(w, buffer, v, more)
      BY <1>1, <1>2, <1>3, <1>4, ReceivesStill
    <2> QED BY <1>1, <2>1, CleanStill DEF v, more
  <1>5. CASE ~Alive(v)
    BY <1>5 DEF Clean, v
  <1> QED BY <1>4, <1>5

LEMMA CleanReplied ==
  ASSUME NoLoss, IInv, Clean(World, buffer), NEW c \in Conns, Answer(c)
  PROVE  Clean(World', buffer')
PROOF
  <1> DEFINE w == World
             v == World'
             r == link[c].requests[1]
  <1>1. /\ Live /\ v \in Worlds /\ v.bosh = w.bosh /\ link[c].requests # <<>> /\ buffer' = buffer
    BY AnswersComes
  <1>2. PICK a \in Answered :
          /\ a \in Answers(r) \cup Refusals(r)
          /\ MayAnswer(w.link[c].requests[1], a) /\ Brings(w, v, c, a)
    BY AnswersComes
  <1>3. /\ w \in Worlds /\ buffer \in Seq(Piece) /\ Running(w, buffer) /\ w.link = link
        /\ Alive(w) /\ Clean(w, buffer)
    BY <1>1, Here DEF IInv, Holds
  <1>4. w.link[c].requests # <<>>
    BY <1>1, <1>3
  <1>5. a.last => a.kind = "session" \/ w.bosh.mode = "legacy"
    <2> SUFFICES ASSUME a.last, a.kind # "session" PROVE w.bosh.mode = "legacy"
      OBVIOUS
    <2> HIDE DEF r
    <2>1. r.last
      <3>1. CASE a \in Answers(r)
        <4>1. r.kind = a.kind /\ "close" \notin Faults
          BY <3>1 DEF Answers, NoLoss
        <4>2. MaySee("close") = {FALSE}
          BY <4>1 DEF MaySee
        <4> QED BY <3>1, <4>1, <4>2 DEF Answers
      <3>2. CASE a \in Refusals(r)
        BY <3>2 DEF Refusals
      <3> QED BY <1>2, <3>1, <3>2
    <2>2. 1 \in DOMAIN w.link[c].requests /\ w.link[c].requests[1].last
      <3>1. w.link[c].requests \in Seq(Requested)
        BY <1>3, Reading
      <3> QED BY <1>3, <1>4, <2>1, <3>1 DEF r
    <2>3. Lasting(w.bosh, Flow(w, buffer, c), w.link[c], Under(w, buffer) = {})
      BY <1>3 DEF Clean
    <2> QED BY <2>2, <2>3 DEF Lasting
  <1> HIDE DEF w, v, r
  <1>6. Clean(v, buffer)
    BY <1>1, <1>2, <1>3, <1>4, <1>5, CleanAnswered
  <1> QED BY <1>1, <1>6 DEF v

LEMMA CleanDropped ==
  ASSUME NoLoss, IInv, Clean(World, buffer), NEW c \in Conns, Lose(c)
  PROVE  Clean(World', buffer')
PROOF
  <1> DEFINE w == World
             v == World'
  <1>1. /\ Live /\ v \in Worlds /\ v.bosh = w.bosh /\ buffer' = buffer
        /\ v.link = [link EXCEPT ![c].eof = TRUE, ![c].requests = <<>>]
    BY Losing
  <1>2. /\ w \in Worlds /\ buffer \in Seq(Piece) /\ Running(w, buffer) /\ w.link = link
        /\ w.bosh = bosh /\ Clean(w, buffer)
    BY <1>1, Here DEF IInv, Holds
  <1>3. w.bosh.state = "connecting" /\ w.link[c].requests # <<>>
    <2>1. "loss" \notin Faults
      BY DEF NoLoss
    <2> QED BY <1>2, <2>1 DEF Lose
  <1>4. v.link = [w.link EXCEPT ![c].eof = TRUE, ![c].requests = <<>>]
    BY <1>1, <1>2
  <1> HIDE DEF w, v
  <1>5. Clean(v, buffer)
    BY ZenonT(60), <1>1, <1>2, <1>3, <1>4, CleanLost
  <1> QED BY <1>1, <1>5 DEF v


LEMMA KeepsClean ==
  ASSUME NoLoss, IInv, Clean(World, buffer), [Next]_vars
  PROVE  Clean(World', buffer')
PROOF
  <1>1. CASE UNCHANGED vars
    <2>1. World' = World /\ buffer' = buffer
      BY <1>1 DEF vars, World
    <2> QED BY <2>1
  <1>2. ASSUME NEW lucky \in BOOLEAN, Connect(lucky) PROVE Clean(World', buffer')
    <2>1. SUFFICES ASSUME Alive(World') PROVE Clean(World', buffer')
      BY DEF Clean
    <2>2. PICK r \in Requested : Asking(World, World', r)
      BY <1>2, <2>1, Connects
    <2>3. IInv'
      BY <1>2, Connects
    <2>4. World' \in Worlds /\ Placed(World'.bosh)
      BY <2>3 DEF IInv, Holds
    <2>5. buffer' = <<>>
      BY <1>2, Here DEF Connect, IInv, Fresh
    <2> DEFINE v == World'
    <2>6. v \in Worlds /\ Placed(v.bosh) /\ Asking(World, v, r)
      BY <2>2, <2>4
    <2> HIDE DEF v
    <2>7. Clean(v, <<>>)
      BY <2>6, CleanAsking
    <2> QED BY <2>5, <2>7 DEF v
  <1>3. ASSUME NEW lucky \in BOOLEAN, SendStanza(lucky) PROVE Clean(World', buffer')
    <2>1. PICK u \in Worlds : Wrote(u, World') /\ From(u)
      BY <1>3, SendsStanza
    <2>2. Live /\ buffer' = buffer
      BY <1>3 DEF SendStanza, Live
    <2>3. World' \in Worlds
      BY <1>3, SendsStanza DEF IInv, Holds
    <2> DEFINE v == World'
    <2>4. v \in Worlds /\ Wrote(u, v)
      BY <2>1, <2>3
    <2> HIDE DEF v
    <2>5. Clean(v, buffer)
      BY <2>1, <2>2, <2>4, CleanWrote
    <2> QED BY <2>2, <2>5 DEF v
  <1>4. ASSUME NEW lucky \in BOOLEAN, Restart(lucky) PROVE Clean(World', buffer')
    <2>1. PICK u \in Worlds : Wrote(u, World') /\ From(u)
      BY <1>4, Restarts
    <2>2. Live /\ buffer' = buffer
      BY <1>4 DEF Restart, Live
    <2>3. World' \in Worlds
      BY <1>4, Restarts DEF IInv, Holds
    <2> DEFINE v == World'
    <2>4. v \in Worlds /\ Wrote(u, v)
      BY <2>1, <2>3
    <2> HIDE DEF v
    <2>5. Clean(v, buffer)
      BY <2>1, <2>2, <2>4, CleanWrote
    <2> QED BY <2>2, <2>5 DEF v
  <1>5. ASSUME NEW lucky \in BOOLEAN, Disconnect(lucky) PROVE Clean(World', buffer')
    BY <1>5, Disconnecting DEF Clean
  <1>6. CASE RecvPool
    BY <1>6, ReceivesFromPool, CleanReceived
  <1>7. CASE RecvActive
    <2>1. IInv' /\ Receives(World, buffer, bosh.active, "active", World', buffer', loop')
      BY <1>7, ReceivesFromActive
    <2>2. CASE Live
      BY <2>1, <2>2, CleanReceived
    <2>3. CASE ~Live
      <3>1. ~Alive(World)
        BY <2>3, Here
      <3> DEFINE w == World
                 v == World'
                 more == buffer'
                 k == loop'
                 conns == bosh.active
                 at == "active"
      <3>2. Receives(w, buffer, conns, at, v, more, k) /\ ~Alive(w) /\ w \in Worlds
        BY <2>1, <3>1 DEF IInv, Holds
      <3> HIDE DEF w, v, more, k, conns, at
      <3>3. Alive(v) => Alive(w)
        BY ONLY <3>2, Received
      <3>5. ~Alive(v)
        BY <3>2, <3>3
      <3>4. Clean(v, more)
        BY <3>5 DEF Clean
      <3> QED BY <3>4 DEF v, more
    <2> QED BY <2>2, <2>3
  <1>8. ASSUME NEW lucky \in BOOLEAN, Poll(lucky) PROVE Clean(World', buffer')
    <2>1. /\ buffer' = buffer /\ World' \in Worlds
          /\ World' = World \/ (Live /\ Wrote(World, World'))
      BY <1>8, Polling DEF Poll, IInv, Holds
    <2>2. CASE World' = World
      BY <2>1, <2>2
    <2>3. CASE Live /\ Wrote(World, World')
      <3>1. World \in Worlds /\ From(World)
        <4>1. World \in Worlds
          BY DEF IInv, Holds
        <4> QED BY <4>1, Here, Parts DEF From, Kin
      <3> DEFINE v == World'
                 u == World
      <3>2. v \in Worlds /\ Wrote(u, v) /\ u \in Worlds /\ From(u)
        BY <2>1, <2>3, <3>1
      <3> HIDE DEF v, u
      <3>3. Clean(v, buffer)
        BY <2>3, <3>2, CleanWrote
      <3> QED BY <2>1, <3>3 DEF v
    <2> QED BY <2>1, <2>2, <2>3
  <1>9. CASE HandleAnswer
    BY <1>9, CleanHandled
  <1>13. CASE HandleHeader
    BY <1>13, CleanLooked
  <1>10. CASE Deliver
    BY <1>10, Delivering
  <1>11. ASSUME NEW lucky \in BOOLEAN, Recv(lucky) PROVE Clean(World', buffer')
    BY <1>6, <1>7, <1>8, <1>9, <1>10, <1>11, <1>13 DEF Recv
  <1>12. ASSUME NEW c \in Conns, Answer(c) \/ Lose(c) PROVE Clean(World', buffer')
    BY <1>12, CleanReplied, CleanDropped
  <1> QED BY <1>1, <1>2, <1>3, <1>4, <1>5, <1>11, <1>12 DEF Next

\* As many as are counted are under way.
LEMMA Follows ==
  ASSUME IInv, Clean(World, buffer)
  PROVE  RidsFollow
PROOF
  <1> SUFFICES ASSUME Live
               PROVE  {Age(rid) : rid \in Outstanding} = 0..Cardinality(Outstanding) - 1
    BY DEF RidsFollow
  <1> DEFINE n == bosh.open
             f == [r \in Outstanding |-> AgeAt(bosh.rid, r)]
  <1>1. /\ Outstanding = Under(World, buffer)
        /\ Outstanding \subseteq Rids /\ bosh.rid \in Rids /\ n \in 0..2
        /\ Slots(bosh) /\ \A r \in Outstanding : AgeAt(bosh.rid, r) \in 0..n - 1
        /\ \A r \in Outstanding : Age(r) = AgeAt(bosh.rid, r)
    BY UnderWay DEF Under
  <1>2. /\ f \in [Outstanding -> 0..n - 1]
        /\ \A x, y \in Outstanding : f[x] = f[y] => x = y
    BY <1>1, Ages
  <1>3. {Age(rid) : rid \in Outstanding} = {f[r] : r \in Outstanding}
    BY <1>1
  <1>4. \A k \in 0..n - 1 : Outstanding # {} => \E r \in Outstanding : f[r] = k
    <2>1. CASE bosh.state = "connected"
      <3>1. \A k \in 0..n - 1 : \E r \in Outstanding : AgeAt(bosh.rid, r) = k
        <4>1. Gapless(World, buffer)
          BY Here DEF Clean, Live
        <4> QED BY <1>1, <2>1, <4>1, Here DEF Gapless
      <3> QED BY <3>1
    <2>2. CASE bosh.state = "connecting"
      <3>1. n <= 1
        BY <1>1, <2>2 DEF Slots
      <3>2. \A k \in 0..n - 1 : k = 0
        BY <1>1, <3>1
      <3>3. \A r \in Outstanding : f[r] = 0
        BY <1>1, <3>2
      <3> QED BY <3>2, <3>3
    <2>3. bosh.state \in {"connected", "connecting"}
      <3>1. bosh \in Members
        BY Here, Parts DEF IInv, Holds
      <3> QED BY <3>1 DEF Members, Live
    <2> QED BY <2>1, <2>2, <2>3
  <1> HIDE DEF f
  <1>5. CASE Outstanding = {}
    <2>1. Cardinality(Outstanding) = 0
      BY <1>5, FS_EmptySet
    <2>2. {Age(rid) : rid \in Outstanding} = {}
      BY <1>5
    <2>3. 0..0 - 1 = {}
      OBVIOUS
    <2> QED BY <2>1, <2>2, <2>3
  <1>6. CASE Outstanding # {}
    <2> DEFINE S == Outstanding
               m == Cardinality(S)
    <2>1. \A k \in 0..n - 1 : \E r \in S : f[r] = k
      BY <1>4, <1>6
    <2> HIDE DEF S
    <2>2. f \in [S -> 0..n - 1] /\ \A x, y \in S : f[x] = f[y] => x = y
      BY <1>2 DEF S
    <2>3. f \in Bijection(S, 0..n - 1)
      BY <2>1, <2>2, Fun_IsBij
    <2>4. n \in Nat
      BY <1>1
    <2> HIDE DEF n
    <2>5. m = n
      <3>1. IsFiniteSet(0..n - 1) /\ Cardinality(0..n - 1) = n
        BY ONLY <2>4, FS_Interval
      <3>2. ExistsBijection(S, 0..n - 1)
        BY <2>3 DEF ExistsBijection
      <3>3. ExistsBijection(0..n - 1, S)
        BY <3>2, Fun_ExistsBijSymmetric
      <3> QED BY <3>1, <3>3, FS_Bijection
    <2>6. {f[r] : r \in S} = 0..n - 1
      BY <2>1, <2>2
    <2> QED BY <1>3, <2>5, <2>6 DEF S
  <1> QED BY <1>5, <1>6

\* Request ids follow each other without a gap or a repetition, whatever
\* sendRequest() could not send, while no connection is lost or closed by the
\* manager before its time (connectionbosh.cpp:240, 265).
THEOREM RidsTheorem == ASSUME NoLoss PROVE Spec => []RidsFollow
PROOF
  <1>1. Init => Clean(World, buffer)
    BY Here DEF Init, Clean, Alive
  <1>2. IInv /\ Clean(World, buffer) /\ [Next]_vars => Clean(World', buffer')
    BY KeepsClean
  <1>3. IInv /\ Clean(World, buffer) => RidsFollow
    BY Follows
  <1>4. Clean(World', buffer') <=> Clean(World, buffer)'
    BY DEF Clean, Alive, Gapless, Lasting, Under, OursAt, Ours, Flow, First, AgeAt
  <1> QED BY <1>1, <1>2, <1>3, <1>4, Invariant, PTL DEF Spec

=============================================================================
