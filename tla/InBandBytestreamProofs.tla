----------------------- MODULE InBandBytestreamProofs -----------------------
(***************************************************************************)
(* What holds of InBandBytestream for every number of blocks and every     *)
(* length of the cycle of sequence numbers.                                *)
(*                                                                         *)
(* IInv says where each block and each acknowledgement is.  Blocks come in *)
(* order if none is lost or if their numbers never come round.  Tracked    *)
(* adds where each request is, and Closing what the two ends know of each  *)
(* other.                                                                  *)
(***************************************************************************)
EXTENDS InBandBytestream, TLAPS

\* The numbers come round after as many blocks.
Cycle == MaxSeq + 1

\* The id of the request to open: connect() is called once.
OpenId == <<"open", 0>>

\* What a request is known by.
Ids == {OpenId} \cup ({"data", "close"} \X Nat)

Kinds == {"open", "data", "close", "message", "result", "error"}

\* The stanzas; requests to close have ids of their own.
Stanza ==
  {m \in [kind : Kinds, from : Ends, id : Ids, seq : 0..MaxSeq, block : Nat,
          empty : BOOLEAN] : m.kind = "close" => m.id[1] = "close"}

\* The values of an InBandBytestream object.
EndObject == [asked : BOOLEAN, open : BOOLEAN, sequence : -1..(MaxSeq - 1),
              last : -1..MaxSeq, pending : SUBSET Ids, made : 0..MaxBlocks,
              got : Seq(Nat), acked : Nat,
              told : Seq({"open", "close"} \X BOOLEAN)]

Typed == end \in [Ends -> EndObject] /\ net \in [Ends -> Seq(Stanza)]

\* What carries a block, what acknowledges one and what answers a request.
IsBlock(m) == m.kind \in {"data", "message"}

IsAck(m) == m.kind = "result" /\ m.id[1] = "data"

IsAnswer(m) == m.kind \in {"result", "error"}

\* The number of block n.
NumberOf(n) == (n - 1) % Cycle

\* The blocks in q come from p, in order, after the first `got' and up to `made'.
BlocksIn(q, p, got, made) ==
  \A i \in DOMAIN q : IsBlock(q[i]) =>
    /\ q[i].from = p /\ q[i].id = <<"data", q[i].block>>
    /\ q[i].seq = NumberOf(q[i].block)
    /\ got < q[i].block /\ q[i].block <= made
    /\ \A j \in DOMAIN q : IsBlock(q[j]) /\ i < j => q[i].block < q[j].block

\* The acknowledgements in q are of different blocks up to `got', in order,
\* and `acked' before them are possible.
AcksIn(q, acked, got) ==
  \A i \in DOMAIN q : IsAck(q[i]) =>
    /\ acked < q[i].id[2] /\ q[i].id[2] <= got
    /\ \A j \in DOMAIN q : IsAck(q[j]) /\ i < j => q[i].id[2] < q[j].id[2]

\* Every block after the first `got' and up to `made' is in q.
NoGapIn(q, got, made) ==
  \A n \in (got + 1)..made : \E i \in DOMAIN q : IsBlock(q[i]) /\ q[i].block = n

IsOpen(m) == m.kind = "open"

Asks(q) == \E i \in DOMAIN q : IsOpen(q[i])

\* The requests to open in q are one, the initiator's.
OpensIn(q) ==
  \A i \in DOMAIN q : IsOpen(q[i]) =>
    /\ q[i].from = "initiator" /\ q[i].id = OpenId
    /\ \A j \in DOMAIN q : IsOpen(q[j]) => i = j

\* Nothing in q grants it.
Ungranted(q) == \A i \in DOMAIN q : q[i].kind = "result" => q[i].id # OpenId

\* The answer to it is in q, before all blocks.
AnsweredFirst(q) ==
  \E j \in DOMAIN q : /\ IsAnswer(q[j]) /\ q[j].id = OpenId
                      /\ \A i \in DOMAIN q : IsBlock(q[i]) => j < i

\* The blocks an end was given.
Got(e) == Len(end[e].got)

\* An end that was never open.
Unopened(e) ==
  ~end[e].open /\ end[e].last = -1 /\ end[e].got = <<>> /\ end[e].made = 0

\* The request to open is under way.
AsksOpen == Asks(net["target"])

\* An end that is not open yet and may still be.
Openable(e) ==
  IF e = "initiator" THEN OpenId \in end["initiator"].pending ELSE AsksOpen

\* What an end has counted.
Counted(e) ==
  /\ end[e].sequence = WrapSent(end[e].made - 1)
  /\ Got(e) <= end[Peer(e)].made
  /\ end[e].acked <= Got(Peer(e))
  /\ \A i \in DOMAIN end[e].got : end[e].got[i] = i
  /\ end[e].open => end[e].last = WrapSent(Got(e) - 1)

\* What is under way to it.
Coming(e) ==
  /\ BlocksIn(net[e], Peer(e), Got(e), end[Peer(e)].made)
  /\ AcksIn(net[e], end[e].acked, Got(Peer(e)))

\* The stream is opened once.
Opening ==
  /\ ~end["initiator"].asked =>
       \A e \in Ends : /\ ~end[e].asked /\ Unopened(e)
                       /\ end[e].pending = {} /\ net[e] = <<>>
  /\ OpenId \in end["initiator"].pending => Unopened("initiator")
  /\ AsksOpen => /\ Unopened("target") /\ end["initiator"].made = 0
                 /\ ~end["initiator"].open /\ Ungranted(net["initiator"])
  /\ OpensIn(net["target"]) /\ ~Asks(net["initiator"])
  /\ OpenId \notin end["target"].pending

\* Where nothing is lost, all blocks are under way to an end that takes them.
Faithful ==
  Faults = {} =>
    /\ \A e \in Ends : end[e].open \/ Openable(e) =>
         NoGapIn(net[e], Got(e), end[Peer(e)].made)
    /\ OpenId \in end["initiator"].pending =>
         AsksOpen \/ AnsweredFirst(net["initiator"])

\* The invariant the theorems rest on.
IInv ==
  /\ Typed
  /\ \A e \in Ends : Counted(e) /\ Coming(e)
  /\ Opening
  /\ Faithful

\* Whose request m, on its way to x, is or answers.
Owner(x, m) == IF IsAnswer(m) THEN x ELSE m.from

Same(x, m, y, n) == Owner(x, m) = Owner(y, n) /\ m.id = n.id

\* A request or its answer is under way once.
Single(w) ==
  \A x, y \in Ends : \A i \in DOMAIN w[x], j \in DOMAIN w[y] :
    Same(x, w[x][i], y, w[y][j]) => x = y /\ i = j

\* Neither a request nor an answer like m, on its way to x, is under way.
Absent(w, x, m) == \A y \in Ends : \A j \in DOMAIN w[y] : ~Same(x, m, y, w[y][j])

\* What is under way is tracked, and is nothing a gloox client does not send.
Awaited ==
  \A x \in Ends : \A i \in DOMAIN net[x] :
    /\ net[x][i].kind # "message" /\ net[x][i].empty = FALSE
    /\ net[x][i].id \in end[Owner(x, net[x][i])].pending

\* The requests an end has made.
Numbered(e) ==
  \A id \in end[e].pending :
    /\ id[1] = "data" => id[2] <= end[e].made
    /\ end[e].open \/ Openable(e) => id[1] # "close"

\* Where the requests are.
Tracked == Single(net) /\ Awaited /\ \A e \in Ends : Numbered(e)

\* The stanzas of q.
On(q) == {q[i] : i \in DOMAIN q}

Fails(q) == \E m \in On(q) : m.kind = "error"

Closes(q) == \E m \in On(q) : m.kind = "close"

\* The last word to a handler on a stream that is not open is that it is closed.
ToldEnd(c) == c.told # <<>> /\ ~c.open => Last(c.told)[1] = "close"

\* The initiator waits for the answer to its request.
Waits == OpenId \in end["initiator"].pending

\* What the ends know of each other, when only the initiator closes: its stream
\* is open no longer than the target's, the target's after it only until it has
\* a request to close, and what fails fails at a stream that is not open.
Closing ==
  /\ \A e \in Ends : ToldEnd(end[e])
  /\ end["initiator"].open => end["target"].open
  /\ end["target"].open =>
       end["initiator"].open \/ Waits \/ Closes(net["target"])
  /\ Waits => AsksOpen \/ end["target"].open
  /\ Fails(net["initiator"]) => ~end["target"].open /\ ~AsksOpen
  /\ Fails(net["target"]) \/ Closes(net["target"]) =>
       ~end["initiator"].open /\ ~Waits
  /\ ~Closes(net["initiator"])
  /\ \A m \in On(net["target"]) : m.kind = "close" => m.from = "initiator"

-----------------------------------------------------------------------------
(* Numbers that come round. *)

\* A number is a multiple of N and a rest.
LEMMA Division ==
  ASSUME NEW N \in Nat, N > 0, NEW a \in Int
  PROVE  a = (a \div N) * N + (a % N) /\ a % N \in 0..(N - 1) /\ a \div N \in Int
PROOF
  BY SMT

\* There is only one.
LEMMA Rest ==
  ASSUME NEW N \in Nat, N > 0, NEW q \in Int, NEW r \in 0..(N - 1)
  PROVE  (q * N + r) % N = r
PROOF
  BY SMT

\* The rest of the next number.
LEMMA NextRest ==
  ASSUME NEW N \in Nat, N > 0, NEW a \in Int
  PROVE  (a + 1) % N = IF a % N = N - 1 THEN 0 ELSE (a % N) + 1
PROOF
  <1> DEFINE q == a \div N
             r == a % N
  <1>1. a = q * N + r /\ r \in 0..(N - 1) /\ q \in Int
    BY Division
  <1> HIDE DEF q, r
  <1>2. CASE r = N - 1
    <2>1. a + 1 = (q + 1) * N + 0
      BY <1>1, <1>2
    <2>2. ((q + 1) * N + 0) % N = 0
      <3>1. q + 1 \in Int /\ 0 \in 0..(N - 1)
        BY <1>1
      <3> HIDE DEF q
      <3> QED BY <3>1, Rest
    <2> QED BY <1>2, <2>1, <2>2 DEF r
  <1>3. CASE r # N - 1
    <2>1. a + 1 = q * N + (r + 1) /\ r + 1 \in 0..(N - 1)
      BY <1>1, <1>3
    <2>2. (q * N + (r + 1)) % N = r + 1
      BY <1>1, <2>1, Rest
    <2> QED BY <1>3, <2>1, <2>2 DEF r
  <1> QED BY <1>2, <1>3

\* Numbers with the same rest have it as far on.
LEMMA SameRest ==
  ASSUME NEW N \in Nat, N > 0, NEW a \in Int, NEW b \in Int, NEW i \in Int,
         a % N = b % N
  PROVE  (a + i) % N = (b + i) % N
PROOF
  <1> DEFINE p == a \div N
             q == b \div N
             r == a % N
             k == (r + i) \div N
             s == (r + i) % N
  <1>1. a = p * N + r /\ r \in 0..(N - 1) /\ p \in Int
    BY Division
  <1>2. b = q * N + r /\ q \in Int
    BY Division
  <1>3. r + i = k * N + s /\ s \in 0..(N - 1) /\ k \in Int
    BY <1>1, Division
  <1> HIDE DEF p, q, r, k, s
  <1>4. a + i = (p + k) * N + s /\ p + k \in Int
    BY <1>1, <1>3
  <1>5. b + i = (q + k) * N + s /\ q + k \in Int
    BY <1>1, <1>2, <1>3
  <1>6. ((p + k) * N + s) % N = s
    BY <1>3, <1>4, Rest
  <1>7. ((q + k) * N + s) % N = s
    BY <1>3, <1>5, Rest
  <1> QED BY <1>4, <1>5, <1>6, <1>7

\* The cycle of the numbers has a length.
LEMMA CycleType == Cycle \in Nat /\ Cycle > 0 /\ MaxSeq \in Nat
PROOF
  BY IbbAssumption DEF Cycle

\* m_sequence and m_lastChunkReceived stay in their range, and what follows
\* them is the number of the next block.
LEMMA WrapFacts ==
  ASSUME NEW n \in Int
  PROVE  /\ WrapSent(n) \in -1..(MaxSeq - 1)
         /\ WrapSent(n) + 1 = NumberOf(n + 2)
         /\ NumberOf(n + 2) \in 0..MaxSeq
         /\ WrapReceived(WrapSent(n) + 1) = WrapSent(n + 1)
PROOF
  <1>1. n % Cycle \in 0..MaxSeq /\ (n + 1) % Cycle \in 0..MaxSeq
    <2>1. n % Cycle \in 0..(Cycle - 1) /\ (n + 1) % Cycle \in 0..(Cycle - 1)
      BY CycleType, Division
    <2> QED BY <2>1, CycleType DEF Cycle
  <1>2. (n + 1) % Cycle = IF n % Cycle = Cycle - 1 THEN 0 ELSE (n % Cycle) + 1
    BY CycleType, NextRest
  <1>3. (n + 2) - 1 = n + 1 /\ Cycle - 1 = MaxSeq
    BY CycleType DEF Cycle
  <1>4. WrapSent(n) = IF n % Cycle = MaxSeq THEN -1 ELSE n % Cycle
    BY DEF WrapSent, Cycle
  <1>5. WrapSent(n) + 1 = (n + 1) % Cycle
    BY <1>1, <1>2, <1>3, <1>4, CycleType
  <1>6. WrapSent(n + 1)
          = IF (n + 1) % Cycle = MaxSeq THEN -1 ELSE (n + 1) % Cycle
    BY DEF WrapSent, Cycle
  <1>7. NumberOf(n + 2) = (n + 1) % Cycle
    BY <1>3 DEF NumberOf
  <1>8. WrapSent(n) \in -1..(MaxSeq - 1)
    BY <1>1, <1>4, CycleType
  <1> QED BY <1>1, <1>5, <1>6, <1>7, <1>8 DEF WrapReceived

\* Nothing was counted yet.
LEMMA WrapNone == WrapSent(-1) = -1
PROOF
  <1>1. -1 = (-1) * Cycle + MaxSeq /\ MaxSeq \in 0..(Cycle - 1)
    BY CycleType DEF Cycle
  <1>2. ((-1) * Cycle + MaxSeq) % Cycle = MaxSeq
    BY <1>1, CycleType, Rest
  <1> QED BY <1>1, <1>2 DEF WrapSent, Cycle

\* Counting on from a number that came round.
LEMMA WrapOn ==
  ASSUME NEW n \in Int, NEW i \in Nat
  PROVE  WrapSent(WrapSent(n) + i) = WrapSent(n + i)
PROOF
  <1>1. WrapSent(n) % Cycle = n % Cycle /\ WrapSent(n) \in Int
    <2>1. n = (n \div Cycle) * Cycle + (n % Cycle) /\ n % Cycle \in 0..(Cycle - 1)
          /\ n \div Cycle \in Int
      BY CycleType, Division
    <2>2. CASE n % Cycle = MaxSeq
      <3>1. WrapSent(n) = -1
        BY <2>2 DEF WrapSent, Cycle
      <3>2. -1 = (-1) * Cycle + MaxSeq /\ MaxSeq \in 0..(Cycle - 1)
        BY CycleType DEF Cycle
      <3>3. ((-1) * Cycle + MaxSeq) % Cycle = MaxSeq
        BY <3>2, CycleType, Rest
      <3> QED BY <2>2, <3>1, <3>2, <3>3
    <2>3. CASE n % Cycle # MaxSeq
      <3>1. WrapSent(n) = n % Cycle
        BY <2>3 DEF WrapSent, Cycle
      <3> DEFINE r == n % Cycle
      <3>2. r \in 0..(Cycle - 1)
        BY <2>1
      <3> HIDE DEF r
      <3>3. (0 * Cycle + r) % Cycle = r /\ 0 * Cycle + r = r
        BY <3>2, CycleType, Rest
      <3> QED BY <2>1, <3>1, <3>3 DEF r
    <2> QED BY <2>2, <2>3
  <1>2. (WrapSent(n) + i) % Cycle = (n + i) % Cycle
    <2> DEFINE w == WrapSent(n)
    <2>1. w % Cycle = n % Cycle /\ w \in Int /\ i \in Int
      BY <1>1
    <2> HIDE DEF w
    <2>2. (w + i) % Cycle = (n + i) % Cycle
      BY <2>1, CycleType, SameRest
    <2> QED BY <2>2 DEF w
  <1> QED BY <1>2 DEF WrapSent, Cycle

-----------------------------------------------------------------------------
(* Stanzas under way: the first is taken, others are added. *)

\* What is left of a sequence when its first stanza is taken.
LEMMA TailFacts ==
  ASSUME NEW q \in Seq(Stanza), q # <<>>
  PROVE  /\ Tail(q) \in Seq(Stanza) /\ Head(q) = q[1] /\ 1 \in DOMAIN q
         /\ Head(q) \in Stanza /\ \A i \in DOMAIN q : q[i] \in Stanza
         /\ \A i \in DOMAIN Tail(q) : i \in Nat /\ i + 1 \in DOMAIN q
                                      /\ Tail(q)[i] = q[i + 1]
         /\ \A k \in DOMAIN q : k # 1 => k \in Nat /\ k - 1 \in DOMAIN Tail(q)
                                        /\ k > 1 /\ Tail(q)[k - 1] = q[k]
PROOF
  OBVIOUS

\* Where the stanzas of two sequences are when they are joined.
LEMMA AppendFacts ==
  ASSUME NEW q \in Seq(Stanza), NEW s \in Seq(Stanza)
  PROVE  /\ q \o s \in Seq(Stanza) /\ Len(q) \in Nat
         /\ \A i \in DOMAIN q : i \in Nat /\ i <= Len(q) /\ i \in DOMAIN (q \o s)
                                /\ (q \o s)[i] = q[i] /\ q[i] \in Stanza
         /\ \A i \in DOMAIN (q \o s) :
              \/ i \in DOMAIN q
              \/ /\ i \in Nat /\ i > Len(q) /\ i - Len(q) \in DOMAIN s
                 /\ (q \o s)[i] = s[i - Len(q)]
         /\ \A k \in DOMAIN s : /\ k \in Nat /\ Len(q) + k \in DOMAIN (q \o s)
                                /\ (q \o s)[Len(q) + k] = s[k]
PROOF
  OBVIOUS

\* The first stanza is taken: the rest is as it was ...
LEMMA TailKeeps ==
  ASSUME NEW q \in Seq(Stanza), q # <<>>
  PROVE  /\ \A p, got, made :
              BlocksIn(q, p, got, made) => BlocksIn(Tail(q), p, got, made)
         /\ \A acked, got : AcksIn(q, acked, got) => AcksIn(Tail(q), acked, got)
         /\ OpensIn(q) => OpensIn(Tail(q))
         /\ Asks(Tail(q)) => Asks(q)
         /\ OpensIn(q) /\ IsOpen(Head(q)) => ~Asks(Tail(q))
         /\ ~IsOpen(Head(q)) /\ Asks(q) => Asks(Tail(q))
         /\ Ungranted(q) => Ungranted(Tail(q))
         /\ ~IsBlock(Head(q)) => \A got, made :
              NoGapIn(q, got, made) => NoGapIn(Tail(q), got, made)
         /\ AnsweredFirst(q) /\ ~(IsAnswer(Head(q)) /\ Head(q).id = OpenId)
              => AnsweredFirst(Tail(q)) /\ ~IsBlock(Head(q))
PROOF
  <1> DEFINE t == Tail(q)
             h == Head(q)
  <1>1. /\ t \in Seq(Stanza) /\ h = q[1] /\ 1 \in DOMAIN q
        /\ \A i \in DOMAIN t : i \in Nat /\ i + 1 \in DOMAIN q /\ t[i] = q[i + 1]
        /\ \A k \in DOMAIN q : k # 1 => k \in Nat /\ k - 1 \in DOMAIN t
                                       /\ k > 1 /\ t[k - 1] = q[k]
    BY TailFacts
  <1> HIDE DEF t, h
  <1>2. ASSUME NEW p, NEW got, NEW made, BlocksIn(q, p, got, made)
        PROVE  BlocksIn(t, p, got, made)
    BY <1>1, <1>2 DEF BlocksIn
  <1>3. ASSUME NEW acked, NEW got, AcksIn(q, acked, got)
        PROVE  AcksIn(t, acked, got)
    <2> SUFFICES ASSUME NEW i \in DOMAIN t, IsAck(t[i])
                 PROVE  /\ acked < t[i].id[2] /\ t[i].id[2] <= got
                        /\ \A j \in DOMAIN t : IsAck(t[j]) /\ i < j
                                               => t[i].id[2] < t[j].id[2]
      BY DEF AcksIn
    <2>1. i + 1 \in DOMAIN q /\ t[i] = q[i + 1] /\ i \in Nat
      BY <1>1
    <2>2. /\ acked < q[i + 1].id[2] /\ q[i + 1].id[2] <= got
          /\ \A j \in DOMAIN q : IsAck(q[j]) /\ i + 1 < j
                                 => q[i + 1].id[2] < q[j].id[2]
      BY <1>3, <2>1 DEF AcksIn
    <2>3. ASSUME NEW j \in DOMAIN t, IsAck(t[j]), i < j
          PROVE  t[i].id[2] < t[j].id[2]
      <3>1. j + 1 \in DOMAIN q /\ t[j] = q[j + 1] /\ i + 1 < j + 1
        BY <1>1, <2>1, <2>3
      <3> QED BY <2>1, <2>2, <2>3, <3>1
    <2> QED BY <2>1, <2>2, <2>3
  <1>4. ASSUME OpensIn(q) PROVE OpensIn(t)
    BY <1>1, <1>4 DEF OpensIn
  <1>5. ASSUME Asks(t) PROVE Asks(q)
    BY <1>1, <1>5 DEF Asks
  <1>6. ASSUME OpensIn(q), IsOpen(h) PROVE ~Asks(t)
    BY <1>1, <1>6 DEF OpensIn, Asks
  <1>7. ASSUME ~IsOpen(h), Asks(q) PROVE Asks(t)
    BY <1>1, <1>7 DEF Asks
  <1>8. ASSUME Ungranted(q) PROVE Ungranted(t)
    BY <1>1, <1>8 DEF Ungranted
  <1>9. ASSUME ~IsBlock(h), NEW got, NEW made, NoGapIn(q, got, made)
        PROVE  NoGapIn(t, got, made)
    BY <1>1, <1>9 DEF NoGapIn
  <1>10. ASSUME AnsweredFirst(q), ~(IsAnswer(h) /\ h.id = OpenId)
         PROVE  AnsweredFirst(t) /\ ~IsBlock(h)
    <2>1. PICK j \in DOMAIN q : /\ IsAnswer(q[j]) /\ q[j].id = OpenId
                                /\ \A i \in DOMAIN q : IsBlock(q[i]) => j < i
      BY <1>10 DEF AnsweredFirst
    <2>2. j # 1
      BY <1>1, <1>10, <2>1
    <2>3. j - 1 \in DOMAIN t /\ t[j - 1] = q[j] /\ j \in Nat /\ j > 1
      BY <1>1, <2>2
    <2>4. \A i \in DOMAIN t : IsBlock(t[i]) => j - 1 < i
      BY <1>1, <2>1, <2>3
    <2>5. ~IsBlock(h)
      BY <1>1, <2>1, <2>3
    <2> QED BY <2>1, <2>3, <2>4, <2>5 DEF AnsweredFirst
  <1> QED BY <1>2, <1>3, <1>4, <1>5, <1>6, <1>7, <1>8, <1>9, <1>10 DEF t, h

\* ... and when it was the next block or acknowledgement, what is left comes
\* after it.
LEMMA TailTakes ==
  ASSUME NEW q \in Seq(Stanza), q # <<>>
  PROVE  /\ \A p, got, made :
              BlocksIn(q, p, got, made) /\ IsBlock(Head(q))
              => BlocksIn(Tail(q), p, Head(q).block, made)
         /\ \A acked, got :
              AcksIn(q, acked, got) /\ IsAck(Head(q))
              => AcksIn(Tail(q), Head(q).id[2], got)
         /\ \A made, got \in Nat :
              NoGapIn(q, got, made) /\ Head(q).block = got + 1
              => NoGapIn(Tail(q), got + 1, made)
PROOF
  <1> DEFINE t == Tail(q)
             h == Head(q)
  <1>1. /\ t \in Seq(Stanza) /\ h = q[1] /\ 1 \in DOMAIN q
        /\ \A i \in DOMAIN t : i \in Nat /\ i + 1 \in DOMAIN q /\ t[i] = q[i + 1]
        /\ \A k \in DOMAIN q : k # 1 => k \in Nat /\ k - 1 \in DOMAIN t
                                       /\ k > 1 /\ t[k - 1] = q[k]
    BY TailFacts
  <1> HIDE DEF t, h
  <1>2. ASSUME NEW p, NEW got, NEW made, BlocksIn(q, p, got, made), IsBlock(h)
        PROVE  BlocksIn(t, p, h.block, made)
    BY <1>1, <1>2 DEF BlocksIn
  <1>3. ASSUME NEW acked, NEW got, AcksIn(q, acked, got), IsAck(h)
        PROVE  AcksIn(t, h.id[2], got)
    <2>1. /\ h.id[2] <= got
          /\ \A j \in DOMAIN q : IsAck(q[j]) /\ 1 < j => h.id[2] < q[j].id[2]
      BY <1>1, <1>3 DEF AcksIn
    <2>2. AcksIn(t, acked, got)
      BY <1>3, TailKeeps DEF t
    <2>3. ASSUME NEW i \in DOMAIN t, IsAck(t[i])
          PROVE  h.id[2] < t[i].id[2]
      <3>1. i + 1 \in DOMAIN q /\ t[i] = q[i + 1] /\ 1 < i + 1
        <4>1. i \in Nat /\ i # 0 /\ i + 1 \in DOMAIN q /\ t[i] = q[i + 1]
          BY <1>1
        <4> QED BY <4>1
      <3> QED BY <2>1, <2>3, <3>1
    <2> QED BY <2>2, <2>3 DEF AcksIn
  <1>4. ASSUME NEW made \in Nat, NEW got \in Nat, NoGapIn(q, got, made),
               h.block = got + 1
        PROVE  NoGapIn(t, got + 1, made)
    <2> SUFFICES ASSUME NEW n \in ((got + 1) + 1)..made
                 PROVE  \E i \in DOMAIN t : IsBlock(t[i]) /\ t[i].block = n
      BY DEF NoGapIn
    <2>1. n \in (got + 1)..made /\ n # got + 1
      BY <1>4
    <2>2. PICK i \in DOMAIN q : IsBlock(q[i]) /\ q[i].block = n
      BY <1>4, <2>1 DEF NoGapIn
    <2>3. i # 1
      BY <1>1, <1>4, <2>1, <2>2
    <2> QED BY <1>1, <2>2, <2>3
  <1> QED BY <1>2, <1>3, <1>4 DEF t, h

\* Answers are added that grant nothing.
LEMMA QuietKeeps ==
  ASSUME NEW q \in Seq(Stanza), NEW s \in Seq(Stanza),
         \A k \in DOMAIN s : ~IsBlock(s[k]) /\ ~IsOpen(s[k])
  PROVE  LET r == q \o s
         IN /\ \A p, got, made :
                 BlocksIn(q, p, got, made) => BlocksIn(r, p, got, made)
            /\ (\A k \in DOMAIN s : ~IsAck(s[k])) => \A acked, got :
                 AcksIn(q, acked, got) => AcksIn(r, acked, got)
            /\ OpensIn(q) => OpensIn(r)
            /\ Asks(r) <=> Asks(q)
            /\ Ungranted(q) /\ Ungranted(s) => Ungranted(r)
            /\ \A got, made : NoGapIn(q, got, made) => NoGapIn(r, got, made)
            /\ AnsweredFirst(q) => AnsweredFirst(r)
PROOF
  <1> DEFINE r == q \o s
             n == Len(q)
  <1>1. /\ r \in Seq(Stanza) /\ n \in Nat
        /\ \A i \in DOMAIN q : i \in Nat /\ i <= n /\ i \in DOMAIN r /\ r[i] = q[i]
        /\ \A i \in DOMAIN r : \/ i \in DOMAIN q
                               \/ /\ i \in Nat /\ i > n /\ i - n \in DOMAIN s
                                  /\ r[i] = s[i - n]
    BY AppendFacts
  <1>2. \A i \in DOMAIN r : i \in DOMAIN q \/ (~IsBlock(r[i]) /\ ~IsOpen(r[i]))
    BY <1>1
  <1> HIDE DEF r, n
  <1>3. ASSUME NEW p, NEW got, NEW made, BlocksIn(q, p, got, made)
        PROVE  BlocksIn(r, p, got, made)
    BY <1>1, <1>2, <1>3 DEF BlocksIn
  <1>4. ASSUME \A k \in DOMAIN s : ~IsAck(s[k]),
               NEW acked, NEW got, AcksIn(q, acked, got)
        PROVE  AcksIn(r, acked, got)
    <2>1. \A i \in DOMAIN r : i \in DOMAIN q \/ ~IsAck(r[i])
      BY <1>1, <1>4
    <2> QED BY <1>1, <1>4, <2>1 DEF AcksIn
  <1>5. ASSUME OpensIn(q) PROVE OpensIn(r)
    BY <1>1, <1>2, <1>5 DEF OpensIn
  <1>6. Asks(r) <=> Asks(q)
    BY <1>1, <1>2 DEF Asks
  <1>7. ASSUME Ungranted(q), Ungranted(s) PROVE Ungranted(r)
    BY <1>1, <1>7 DEF Ungranted
  <1>8. ASSUME NEW got, NEW made, NoGapIn(q, got, made)
        PROVE  NoGapIn(r, got, made)
    BY <1>1, <1>8 DEF NoGapIn
  <1>9. ASSUME AnsweredFirst(q) PROVE AnsweredFirst(r)
    BY <1>1, <1>2, <1>9 DEF AnsweredFirst
  <1> QED BY <1>3, <1>4, <1>5, <1>6, <1>7, <1>8, <1>9 DEF r

\* s are blocks of p, the next after `made'.
NextBlocks(s, p, made) ==
  \A k \in DOMAIN s :
    /\ IsBlock(s[k]) /\ s[k].from = p /\ s[k].id = <<"data", s[k].block>>
    /\ s[k].block = made + k /\ s[k].seq = NumberOf(s[k].block)

\* The next blocks are added.
LEMMA BlocksAdded ==
  ASSUME NEW q \in Seq(Stanza), NEW s \in Seq(Stanza), NEW p, NEW got \in Nat,
         NEW made \in Nat, got <= made, NextBlocks(s, p, made),
         BlocksIn(q, p, got, made)
  PROVE  LET r == q \o s
         IN /\ BlocksIn(r, p, got, made + Len(s))
            /\ \A acked, g : AcksIn(q, acked, g) => AcksIn(r, acked, g)
            /\ OpensIn(q) => OpensIn(r)
            /\ Asks(r) <=> Asks(q)
            /\ Ungranted(q) => Ungranted(r)
            /\ NoGapIn(q, got, made) => NoGapIn(r, got, made + Len(s))
            /\ AnsweredFirst(q) => AnsweredFirst(r)
PROOF
  <1> DEFINE r == q \o s
             n == Len(q)
             l == Len(s)
  <1>1. /\ r \in Seq(Stanza) /\ n \in Nat
        /\ \A i \in DOMAIN q : i \in Nat /\ i <= n /\ i \in DOMAIN r /\ r[i] = q[i]
        /\ \A i \in DOMAIN r : \/ i \in DOMAIN q
                               \/ /\ i \in Nat /\ i > n /\ i - n \in DOMAIN s
                                  /\ r[i] = s[i - n]
        /\ \A k \in DOMAIN s : k \in Nat /\ n + k \in DOMAIN r /\ r[n + k] = s[k]
    BY AppendFacts
  <1>2. l \in Nat /\ DOMAIN s = 1..l
    OBVIOUS
  <1> HIDE DEF r, n, l
  <1>3. \A i \in DOMAIN r :
          \/ i \in DOMAIN q
          \/ /\ i \in Nat /\ i > n /\ i - n \in 1..l /\ IsBlock(r[i])
             /\ r[i].from = p /\ r[i].id = <<"data", r[i].block>>
             /\ r[i].block = made + (i - n) /\ r[i].seq = NumberOf(r[i].block)
    BY SMTT(30), <1>1, <1>2 DEF NextBlocks
  <1>4. BlocksIn(r, p, got, made + l)
    <2> SUFFICES ASSUME NEW i \in DOMAIN r, IsBlock(r[i])
                 PROVE  /\ r[i].from = p /\ r[i].id = <<"data", r[i].block>>
                        /\ r[i].seq = NumberOf(r[i].block)
                        /\ got < r[i].block /\ r[i].block <= made + l
                        /\ \A j \in DOMAIN r : IsBlock(r[j]) /\ i < j
                                               => r[i].block < r[j].block
      BY DEF BlocksIn
    <2>1. CASE i \in DOMAIN q
      <3>1. /\ r[i].from = p /\ r[i].id = <<"data", r[i].block>>
            /\ r[i].seq = NumberOf(r[i].block)
            /\ got < r[i].block /\ r[i].block <= made
            /\ \A j \in DOMAIN q : IsBlock(q[j]) /\ i < j
                                   => r[i].block < q[j].block
        BY <1>1, <2>1 DEF BlocksIn
      <3>2. r[i].block \in Nat
        <4>1. r[i] \in Stanza
          BY <1>1, <2>1
        <4> QED BY <4>1 DEF Stanza
      <3>3. ASSUME NEW j \in DOMAIN r, IsBlock(r[j]), i < j
            PROVE  r[i].block < r[j].block
        <4>1. CASE j \in DOMAIN q
          BY <1>1, <3>1, <3>3, <4>1
        <4>2. CASE j \notin DOMAIN q
          <5>1. r[j].block = made + (j - n) /\ j \in Nat /\ j > n
            BY <1>3, <4>2
          <5> QED BY <1>1, <3>1, <3>2, <5>1
        <4> QED BY <4>1, <4>2
      <3> QED BY <1>2, <3>1, <3>2, <3>3
    <2>2. CASE i \notin DOMAIN q
      <3>1. /\ i \in Nat /\ i > n /\ i - n \in 1..l
            /\ r[i].from = p /\ r[i].id = <<"data", r[i].block>>
            /\ r[i].block = made + (i - n) /\ r[i].seq = NumberOf(r[i].block)
        BY <1>3, <2>2
      <3>2. \A j \in DOMAIN r : IsBlock(r[j]) /\ i < j => r[i].block < r[j].block
        BY SMTT(30), <1>1, <1>3, <3>1
      <3> QED BY SMTT(30), <1>1, <1>2, <3>1, <3>2
    <2> QED BY <2>1, <2>2
  <1>5. \A k \in DOMAIN s : ~IsOpen(s[k]) /\ ~IsAck(s[k]) /\ s[k].kind # "result"
    BY DEF NextBlocks, IsBlock, IsOpen, IsAck
  <1>6. \A i \in DOMAIN r : i \in DOMAIN q \/ ( /\ ~IsOpen(r[i]) /\ ~IsAck(r[i])
                                                /\ r[i].kind # "result")
    BY <1>1, <1>5
  <1>7. ASSUME NEW acked, NEW g, AcksIn(q, acked, g)
        PROVE  AcksIn(r, acked, g)
    BY <1>1, <1>6, <1>7 DEF AcksIn
  <1>8. ASSUME OpensIn(q) PROVE OpensIn(r)
    BY <1>1, <1>6, <1>8 DEF OpensIn
  <1>9. Asks(r) <=> Asks(q)
    BY <1>1, <1>6 DEF Asks
  <1>10. ASSUME Ungranted(q) PROVE Ungranted(r)
    BY <1>1, <1>6, <1>10 DEF Ungranted
  <1>11. ASSUME NoGapIn(q, got, made) PROVE NoGapIn(r, got, made + l)
    <2> SUFFICES ASSUME NEW b \in (got + 1)..(made + l)
                 PROVE  \E i \in DOMAIN r : IsBlock(r[i]) /\ r[i].block = b
      BY DEF NoGapIn
    <2>1. CASE b <= made
      <3>1. PICK i \in DOMAIN q : IsBlock(q[i]) /\ q[i].block = b
        BY <1>11, <2>1 DEF NoGapIn
      <3> QED BY <1>1, <3>1
    <2>2. CASE b > made
      <3>1. b - made \in DOMAIN s
        BY <1>2, <2>2
      <3>2. r[n + (b - made)] = s[b - made] /\ n + (b - made) \in DOMAIN r
        BY <1>1, <3>1
      <3>3. s[b - made].block = made + (b - made) /\ IsBlock(s[b - made])
        BY <3>1 DEF NextBlocks
      <3> QED BY <3>2, <3>3
    <2> QED BY <2>1, <2>2
  <1>12. ASSUME AnsweredFirst(q) PROVE AnsweredFirst(r)
    <2>1. PICK j \in DOMAIN q : /\ IsAnswer(q[j]) /\ q[j].id = OpenId
                                /\ \A i \in DOMAIN q : IsBlock(q[i]) => j < i
      BY <1>12 DEF AnsweredFirst
    <2>2. ASSUME NEW i \in DOMAIN r, IsBlock(r[i]) PROVE j < i
      <3>1. CASE i \in DOMAIN q
        BY <1>1, <2>1, <2>2, <3>1
      <3>2. CASE i \notin DOMAIN q
        <4>1. i \in Nat /\ i > n /\ j \in Nat /\ j <= n
          BY <1>1, <3>2
        <4> QED BY <1>1, <4>1
      <3> QED BY <3>1, <3>2
    <2> QED BY <1>1, <2>1, <2>2 DEF AnsweredFirst
  <1> QED BY <1>4, <1>7, <1>8, <1>9, <1>10, <1>11, <1>12 DEF r, l

\* The acknowledgement of the next block is added.
LEMMA AckAdded ==
  ASSUME NEW q \in Seq(Stanza), NEW a \in Stanza, NEW acked \in Nat,
         NEW got \in Nat, acked <= got, AcksIn(q, acked, got), IsAck(a),
         a.id = <<"data", got + 1>>
  PROVE  LET r == q \o <<a>>
         IN /\ AcksIn(r, acked, got + 1)
            /\ \A p, g, made : BlocksIn(q, p, g, made) => BlocksIn(r, p, g, made)
            /\ OpensIn(q) => OpensIn(r)
            /\ Asks(r) <=> Asks(q)
            /\ Ungranted(q) => Ungranted(r)
            /\ \A g, made : NoGapIn(q, g, made) => NoGapIn(r, g, made)
            /\ AnsweredFirst(q) => AnsweredFirst(r)
PROOF
  <1> DEFINE s == <<a>>
             r == q \o s
             n == Len(q)
  <1>1. s \in Seq(Stanza) /\ DOMAIN s = {1} /\ s[1] = a
    OBVIOUS
  <1>2. \A k \in DOMAIN s : ~IsBlock(s[k]) /\ ~IsOpen(s[k])
    BY <1>1 DEF IsBlock, IsOpen, IsAck
  <1>3. Ungranted(s)
    BY <1>1 DEF Ungranted, OpenId
  <1> HIDE DEF s
  <1>4. /\ \A i \in DOMAIN q : i \in Nat /\ i <= n /\ i \in DOMAIN r /\ r[i] = q[i]
        /\ \A i \in DOMAIN r : i \in DOMAIN q \/ (i \in Nat /\ i > n /\ r[i] = a)
        /\ n \in Nat
    <2>1. /\ n \in Nat
          /\ \A i \in DOMAIN q : i \in Nat /\ i <= n /\ i \in DOMAIN r /\ r[i] = q[i]
          /\ \A i \in DOMAIN r : \/ i \in DOMAIN q
                                 \/ /\ i \in Nat /\ i > n /\ i - n \in DOMAIN s
                                    /\ r[i] = s[i - n]
      BY <1>1, AppendFacts
    <2> HIDE DEF r
    <2> QED BY <1>1, <2>1
  <1> HIDE DEF r
  <1>5. AcksIn(r, acked, got + 1)
    <2> SUFFICES ASSUME NEW i \in DOMAIN r, IsAck(r[i])
                 PROVE  /\ acked < r[i].id[2] /\ r[i].id[2] <= got + 1
                        /\ \A j \in DOMAIN r : IsAck(r[j]) /\ i < j
                                               => r[i].id[2] < r[j].id[2]
      BY DEF AcksIn
    <2>1. a.id[2] = got + 1
      OBVIOUS
    <2>2. CASE i \in DOMAIN q
      <3>1. /\ acked < r[i].id[2] /\ r[i].id[2] <= got
            /\ \A j \in DOMAIN q : IsAck(q[j]) /\ i < j
                                   => r[i].id[2] < q[j].id[2]
        BY <1>4, <2>2 DEF AcksIn
      <3>2. r[i].id[2] \in Nat
        <4>1. q[i] \in Stanza
          BY <1>1, <2>2, AppendFacts
        <4>2. q[i].id \in Ids
          BY <4>1 DEF Stanza
        <4> QED BY <1>4, <2>2, <4>2 DEF Ids, OpenId
      <3>3. \A j \in DOMAIN r : IsAck(r[j]) /\ i < j => r[i].id[2] < r[j].id[2]
        BY <1>4, <2>1, <3>1, <3>2
      <3> QED BY <3>1, <3>2, <3>3
    <2>3. CASE i \notin DOMAIN q
      <3>1. i > n /\ r[i] = a /\ i \in Nat
        BY <1>4, <2>3
      <3>2. \A j \in DOMAIN r : i < j => j \notin DOMAIN q
        BY <1>4, <3>1
      <3>3. n + 1 = Len(q \o s) /\ DOMAIN r = 1..(n + 1)
        BY <1>1 DEF r, s
      <3>4. \A j \in DOMAIN r : ~(i < j)
        BY <1>4, <3>1, <3>3
      <3> QED BY <2>1, <3>1, <3>4
    <2> QED BY <2>2, <2>3
  <1> QED BY <1>1, <1>2, <1>3, <1>5, QuietKeeps DEF r, s

-----------------------------------------------------------------------------
(* The steps. *)

\* There are two ends.
LEMMA PeerFacts ==
  ASSUME NEW e \in Ends
  PROVE  /\ Peer(e) \in Ends /\ Peer(e) # e /\ Peer(Peer(e)) = e
         /\ \A x \in Ends : x = e \/ x = Peer(e)
PROOF
  BY DEF Ends, Peer

\* What is left on the way to x when e takes a stanza.
Left(e, x) == IF x = e THEN Tail(net[x]) ELSE net[x]

\* Answers go back to where the stanza came from.
LEMMA AnswerFacts ==
  ASSUME Typed, NEW e \in Ends, net[e] # <<>>,
         NEW kinds \in Seq({"result", "error"}), AnswerWith(e, kinds)
  PROVE  \E s \in Seq(Stanza) :
           /\ DOMAIN s = DOMAIN kinds
           /\ \A k \in DOMAIN s : /\ s[k].kind = kinds[k] /\ s[k].from = e
                                  /\ s[k].id = Head(net[e]).id
           /\ net' \in [Ends -> Seq(Stanza)]
           /\ \A x \in Ends : net'[x] = IF x = Head(net[e]).from
                                        THEN Left(e, x) \o s ELSE Left(e, x)
PROOF
  <1> DEFINE m == Head(net[e])
             s == [i \in DOMAIN kinds |->
                     [kind |-> kinds[i], from |-> e, id |-> m.id,
                      seq |-> 0, block |-> 0, empty |-> FALSE]]
             taken == [net EXCEPT ![e] = Tail(@)]
  <1>1. net[e] \in Seq(Stanza) /\ net \in [Ends -> Seq(Stanza)]
    BY DEF Typed
  <1>2. m \in Stanza /\ Tail(net[e]) \in Seq(Stanza)
    BY <1>1, TailFacts
  <1>3. m.id \in Ids /\ m.from \in Ends
    BY <1>2 DEF Stanza
  <1>4. net' = [taken EXCEPT ![m.from] = @ \o s]
    BY DEF AnswerWith
  <1> HIDE DEF m
  <1>5. s \in Seq(Stanza) /\ DOMAIN s = DOMAIN kinds
    <2>1. DOMAIN kinds = 1..Len(kinds) /\ Len(kinds) \in Nat
      OBVIOUS
    <2>2. \A i \in DOMAIN kinds : kinds[i] \in {"result", "error"}
      OBVIOUS
    <2>3. 0 \in 0..MaxSeq
      BY CycleType
    <2>4. \A i \in DOMAIN kinds :
            [kind |-> kinds[i], from |-> e, id |-> m.id,
             seq |-> 0, block |-> 0, empty |-> FALSE] \in Stanza
      BY <1>3, <2>2, <2>3 DEF Stanza, Kinds
    <2> QED BY <2>1, <2>4
  <1>6. \A k \in DOMAIN s : /\ s[k].kind = kinds[k] /\ s[k].from = e
                            /\ s[k].id = m.id
    OBVIOUS
  <1> HIDE DEF s
  <1>7. /\ taken \in [Ends -> Seq(Stanza)]
        /\ \A x \in Ends : taken[x] = Left(e, x)
    BY <1>1, <1>2 DEF Left
  <1> HIDE DEF taken
  <1>8. /\ net' \in [Ends -> Seq(Stanza)]
        /\ \A x \in Ends : net'[x] = IF x = m.from THEN taken[x] \o s
                                     ELSE taken[x]
    <2>1. taken[m.from] \o s \in Seq(Stanza)
      BY <1>3, <1>5, <1>7, AppendFacts
    <2> QED BY <1>3, <1>4, <1>7, <2>1
  <1>9. \A x \in Ends : net'[x] = IF x = m.from THEN Left(e, x) \o s
                                  ELSE Left(e, x)
    BY <1>7, <1>8
  <1> QED BY <1>5, <1>6, <1>8, <1>9 DEF m

\* What r, the stanzas under way after a step, has of q, those before, when the
\* first may have been taken (first) and the new ones, answers that acknowledge
\* no block, may have granted the request to open (grants).
Carries(q, r, first, grants) ==
  /\ \A p, got, made : BlocksIn(q, p, got, made) => BlocksIn(r, p, got, made)
  /\ \A acked, got : AcksIn(q, acked, got) => AcksIn(r, acked, got)
  /\ OpensIn(q) => OpensIn(r)
  /\ Asks(r) => Asks(q)
  /\ first /\ OpensIn(q) /\ IsOpen(Head(q)) => ~Asks(r)
  /\ ~(first /\ IsOpen(Head(q))) /\ Asks(q) => Asks(r)
  /\ ~grants /\ Ungranted(q) => Ungranted(r)
  /\ ~(first /\ IsBlock(Head(q))) => \A got, made :
       NoGapIn(q, got, made) => NoGapIn(r, got, made)
  /\ /\ AnsweredFirst(q)
     /\ ~(first /\ IsAnswer(Head(q)) /\ Head(q).id = OpenId)
     => AnsweredFirst(r) /\ ~(first /\ IsBlock(Head(q)))

\* A stanza is taken at an end, and answers that acknowledge nothing go back.
LEMMA Quietly ==
  ASSUME Typed, NEW e \in Ends, net[e] # <<>>,
         NEW kinds \in Seq({"result", "error"}), AnswerWith(e, kinds),
         NEW grants \in BOOLEAN,
         \/ \A k \in DOMAIN kinds : kinds[k] = "error"
         \/ Head(net[e]).id[1] # "data" /\ (Head(net[e]).id # OpenId \/ grants)
  PROVE  /\ net' \in [Ends -> Seq(Stanza)]
         /\ \A x \in Ends : Carries(net[x], net'[x], x = e, grants)
PROOF
  <1> DEFINE m == Head(net[e])
  <1>1. PICK s \in Seq(Stanza) :
          /\ DOMAIN s = DOMAIN kinds
          /\ \A k \in DOMAIN s : /\ s[k].kind = kinds[k] /\ s[k].from = e
                                 /\ s[k].id = m.id
          /\ net' \in [Ends -> Seq(Stanza)]
          /\ \A x \in Ends : net'[x] = IF x = m.from
                                       THEN Left(e, x) \o s ELSE Left(e, x)
    BY AnswerFacts
  <1>2. \A k \in DOMAIN kinds : kinds[k] \in {"result", "error"}
    OBVIOUS
  <1>3. /\ \A k \in DOMAIN s : ~IsBlock(s[k]) /\ ~IsOpen(s[k]) /\ ~IsAck(s[k])
        /\ ~grants => Ungranted(s)
    BY <1>1, <1>2 DEF IsBlock, IsOpen, IsAck, Ungranted
  <1> SUFFICES ASSUME NEW x \in Ends
               PROVE  Carries(net[x], net'[x], x = e, grants)
    BY <1>1
  <1> DEFINE q == net[x]
             l == Left(e, x)
             r == net'[x]
  <1>4. r = l \o s \/ r = l
    BY <1>1
  <1>5. q \in Seq(Stanza) /\ l \in Seq(Stanza)
    BY TailFacts DEF Typed, Left
  <1>6. CASE x = e
    <2>1. l = Tail(q) /\ q # <<>> /\ x = e
      BY <1>6 DEF Left
    <2> HIDE DEF q, l, r, m
    <2>2. /\ \A p, got, made :
               BlocksIn(q, p, got, made) => BlocksIn(l, p, got, made)
          /\ \A acked, got : AcksIn(q, acked, got) => AcksIn(l, acked, got)
          /\ OpensIn(q) => OpensIn(l)
          /\ Asks(l) => Asks(q)
          /\ OpensIn(q) /\ IsOpen(Head(q)) => ~Asks(l)
          /\ ~IsOpen(Head(q)) /\ Asks(q) => Asks(l)
          /\ Ungranted(q) => Ungranted(l)
          /\ ~IsBlock(Head(q)) => \A got, made :
               NoGapIn(q, got, made) => NoGapIn(l, got, made)
          /\ AnsweredFirst(q) /\ ~(IsAnswer(Head(q)) /\ Head(q).id = OpenId)
               => AnsweredFirst(l) /\ ~IsBlock(Head(q))
      BY <1>5, <2>1, TailKeeps
    <2>3. ASSUME r = l PROVE Carries(q, r, x = e, grants)
      BY <2>1, <2>2, <2>3 DEF Carries
    <2>4. ASSUME r = l \o s PROVE Carries(q, r, x = e, grants)
      <3>1. /\ \A p, got, made :
                 BlocksIn(l, p, got, made) => BlocksIn(r, p, got, made)
            /\ \A acked, got : AcksIn(l, acked, got) => AcksIn(r, acked, got)
            /\ OpensIn(l) => OpensIn(r)
            /\ Asks(r) <=> Asks(l)
            /\ Ungranted(l) /\ Ungranted(s) => Ungranted(r)
            /\ \A got, made : NoGapIn(l, got, made) => NoGapIn(r, got, made)
            /\ AnsweredFirst(l) => AnsweredFirst(r)
        BY <1>3, <1>5, <2>4, QuietKeeps
      <3> QED BY <1>3, <2>1, <2>2, <3>1 DEF Carries
    <2>5. Carries(q, r, x = e, grants)
      BY <1>4, <2>3, <2>4
    <2> QED BY <2>5 DEF q, r
  <1>7. CASE x # e
    <2>1. l = q /\ x # e
      BY <1>7 DEF Left
    <2> HIDE DEF q, l, r, m
    <2>2. ASSUME r = l PROVE Carries(q, r, x = e, grants)
      BY <2>1, <2>2 DEF Carries
    <2>3. ASSUME r = l \o s PROVE Carries(q, r, x = e, grants)
      <3>1. /\ \A p, got, made :
                 BlocksIn(l, p, got, made) => BlocksIn(r, p, got, made)
            /\ \A acked, got : AcksIn(l, acked, got) => AcksIn(r, acked, got)
            /\ OpensIn(l) => OpensIn(r)
            /\ Asks(r) <=> Asks(l)
            /\ Ungranted(l) /\ Ungranted(s) => Ungranted(r)
            /\ \A got, made : NoGapIn(l, got, made) => NoGapIn(r, got, made)
            /\ AnsweredFirst(l) => AnsweredFirst(r)
        BY <1>3, <1>5, <2>3, QuietKeeps
      <3> QED BY <1>3, <2>1, <3>1 DEF Carries
    <2>4. Carries(q, r, x = e, grants)
      BY <1>4, <2>2, <2>3
    <2> QED BY <2>4 DEF q, r
  <1> QED BY <1>6, <1>7

\* What the object of an end does when it takes nothing: it may close.
Refuses(e) ==
  /\ end' \in [Ends -> EndObject]
  /\ \A x \in Ends : x # e => end'[x] = end[x]
  /\ end'[e].asked = end[e].asked /\ end'[e].sequence = end[e].sequence
  /\ end'[e].pending = end[e].pending /\ end'[e].made = end[e].made
  /\ end'[e].got = end[e].got /\ end'[e].acked = end[e].acked
  /\ end'[e].open => end[e].open /\ end'[e].last = end[e].last
  /\ ~end[e].open => end'[e] = end[e]

\* A stanza that is refused leaves the invariant: blocks that are lost with it
\* are of a stream that is not open after it.
LEMMA RefusalHolds ==
  ASSUME IInv, NEW e \in Ends, net[e] # <<>>, Refuses(e),
         net' \in [Ends -> Seq(Stanza)],
         \A x \in Ends : Carries(net[x], net'[x], x = e, FALSE),
         ~IsAnswer(Head(net[e])),
         Faults = {} => /\ ~IsOpen(Head(net[e]))
                        /\ IsBlock(Head(net[e])) => ~end'[e].open
  PROVE  IInv'
PROOF
  <1>1. Typed'
    BY DEF Refuses, Typed
  <1>2. \A x \in Ends :
          /\ end'[x].asked = end[x].asked /\ end'[x].sequence = end[x].sequence
          /\ end'[x].pending = end[x].pending /\ end'[x].made = end[x].made
          /\ end'[x].got = end[x].got /\ end'[x].acked = end[x].acked
          /\ end'[x].open => end[x].open /\ end'[x].last = end[x].last
          /\ ~end[x].open => end'[x] = end[x]
          /\ Got(x)' = Got(x)
    BY DEF Refuses, Got
  <1>3. ASSUME NEW x \in Ends PROVE (Counted(x) /\ Coming(x))'
    <2>1. Counted(x)'
      BY <1>2, PeerFacts DEF IInv, Counted
    <2>2. Coming(x)'
      <3>1. /\ BlocksIn(net'[x], Peer(x), Got(x), end[Peer(x)].made)
            /\ AcksIn(net'[x], end[x].acked, Got(Peer(x)))
        BY DEF IInv, Coming, Carries
      <3> QED BY <1>2, <3>1, PeerFacts DEF Coming
    <2> QED BY <2>1, <2>2
  <1>4. /\ end["initiator"].asked
        /\ OpenId \in end["initiator"].pending => Unopened("initiator")
        /\ AsksOpen => /\ Unopened("target") /\ end["initiator"].made = 0
                       /\ ~end["initiator"].open /\ Ungranted(net["initiator"])
        /\ OpensIn(net["target"]) /\ ~Asks(net["initiator"])
        /\ OpenId \notin end["target"].pending
    BY DEF IInv, Opening
  <1>5. "initiator" \in Ends /\ "target" \in Ends
    BY DEF Ends
  <1>6. \A x \in Ends : Unopened(x) => Unopened(x)'
    BY <1>2 DEF Unopened
  <1>7. AsksOpen' => AsksOpen
    BY <1>5 DEF AsksOpen, Carries
  <1>8. Opening'
    <2>1. /\ Ungranted(net["initiator"]) => Ungranted(net'["initiator"])
          /\ OpensIn(net'["target"]) /\ ~Asks(net'["initiator"])
      BY <1>4, <1>5 DEF Carries
    <2>2. /\ end'["initiator"].asked
          /\ end'["initiator"].pending = end["initiator"].pending
          /\ end'["initiator"].made = end["initiator"].made
          /\ end'["initiator"].open => end["initiator"].open
          /\ OpenId \notin end'["target"].pending
      BY <1>2, <1>4, <1>5
    <2> QED BY <1>4, <1>5, <1>6, <1>7, <2>1, <2>2 DEF Opening
  <1>9. Faithful'
    <2> SUFFICES ASSUME Faults = {}
                 PROVE  /\ \A x \in Ends : (end[x].open \/ Openable(x))' =>
                             NoGapIn(net[x], Got(x), end[Peer(x)].made)'
                        /\ OpenId \in end'["initiator"].pending =>
                             AsksOpen' \/ AnsweredFirst(net'["initiator"])
      BY DEF Faithful
    <2>1. /\ \A x \in Ends : end[x].open \/ Openable(x) =>
               NoGapIn(net[x], Got(x), end[Peer(x)].made)
          /\ OpenId \in end["initiator"].pending =>
               AsksOpen \/ AnsweredFirst(net["initiator"])
      BY DEF IInv, Faithful
    <2>2. \A x \in Ends : Openable(x)' => Openable(x)
      BY <1>2, <1>5, <1>7 DEF Openable
    <2>3. net[e] \in Seq(Stanza) /\ Head(net[e]) = net[e][1] /\ 1 \in DOMAIN net[e]
          /\ Head(net[e]) \in Stanza
      BY TailFacts DEF IInv, Typed
    <2>4. IsBlock(Head(net[e])) => Got(e) < Head(net[e]).block
                                   /\ Head(net[e]).block <= end[Peer(e)].made
      BY <2>3 DEF IInv, Coming, BlocksIn
    <2>5. Got(e) \in Nat /\ end[Peer(e)].made \in Nat /\ Head(net[e]).block \in Nat
      <3>1. end[e] \in EndObject /\ end[Peer(e)] \in EndObject
        BY PeerFacts DEF IInv, Typed
      <3>2. Head(net[e]).block \in Nat
        BY <2>3 DEF Stanza
      <3>3. MaxBlocks \in Nat
        BY IbbAssumption
      <3>4. end[e].got \in Seq(Nat) /\ end[Peer(e)].made \in 0..MaxBlocks
        BY <3>1 DEF EndObject
      <3> QED BY <3>2, <3>3, <3>4 DEF Got
    <2>6. Openable(e) => ~IsBlock(Head(net[e]))
      <3>1. CASE e = "initiator"
        <4>1. AsksOpen => end[Peer(e)].made = 0
          BY <1>4, <3>1 DEF Unopened, Peer
        <4>2. AnsweredFirst(net[e]) => ~IsBlock(Head(net[e]))
          BY DEF Carries
        <4> QED BY <2>1, <2>4, <2>5, <3>1, <4>1, <4>2 DEF Openable
      <3>2. CASE e = "target"
        <4>1. AsksOpen => end[Peer(e)].made = 0
          BY <1>4, <3>2 DEF Peer
        <4> QED BY <2>4, <2>5, <3>2, <4>1 DEF Openable
      <3> QED BY <3>1, <3>2 DEF Ends
    <2>7. end[e].open => ~Openable(e)
      BY <1>4 DEF Openable, Unopened, Ends
    <2>8. ASSUME NEW x \in Ends, (end[x].open \/ Openable(x))'
          PROVE  NoGapIn(net[x], Got(x), end[Peer(x)].made)'
      <3>1. end[x].open \/ Openable(x)
        BY <1>2, <2>2, <2>8
      <3>2. NoGapIn(net[x], Got(x), end[Peer(x)].made)
        BY <2>1, <3>1
      <3>3. CASE x = e /\ IsBlock(Head(net[e]))
        BY <2>2, <2>6, <2>8, <3>3
      <3>4. CASE ~(x = e /\ IsBlock(Head(net[e])))
        <4>1. NoGapIn(net'[x], Got(x), end[Peer(x)].made)
          BY <3>2, <3>4 DEF Carries
        <4> QED BY <1>2, <4>1, PeerFacts
      <3> QED BY <3>3, <3>4
    <2>9. ASSUME OpenId \in end'["initiator"].pending
          PROVE  AsksOpen' \/ AnsweredFirst(net'["initiator"])
      <3>1. OpenId \in end["initiator"].pending
        BY <1>2, <1>5, <2>9
      <3>2. CASE AsksOpen
        <4>1. ~("target" = e /\ IsOpen(Head(net["target"])))
          OBVIOUS
        <4> QED BY <1>5, <3>2, <4>1 DEF Carries, AsksOpen
      <3>3. CASE AnsweredFirst(net["initiator"])
        BY <1>5, <3>3 DEF Carries
      <3> QED BY <2>1, <3>1, <3>2, <3>3
    <2> QED BY <2>8, <2>9
  <1> QED BY <1>1, <1>3, <1>8, <1>9 DEF IInv

\* The fields of an end's object, and the first stanza on the way to it.
LEMMA ObjectType ==
  ASSUME Typed, NEW e \in Ends
  PROVE  /\ end[e] \in EndObject /\ end[e].open \in BOOLEAN
         /\ end[e].last \in -1..MaxSeq
         /\ end[e].made \in Nat /\ end[e].made <= MaxBlocks
         /\ end[e].got \in Seq(Nat) /\ Got(e) \in Nat /\ end[e].acked \in Nat
         /\ end[e].told \in Seq({"open", "close"} \X BOOLEAN)
         /\ end[e].pending \subseteq Ids
PROOF
  <1>1. end[e] \in EndObject /\ MaxBlocks \in Nat
    BY IbbAssumption DEF Typed
  <1>2. /\ end[e].open \in BOOLEAN /\ end[e].last \in -1..MaxSeq
        /\ end[e].made \in 0..MaxBlocks
        /\ end[e].got \in Seq(Nat) /\ end[e].acked \in Nat
        /\ end[e].told \in Seq({"open", "close"} \X BOOLEAN)
        /\ end[e].pending \subseteq Ids
    BY <1>1 DEF EndObject
  <1> QED BY <1>1, <1>2 DEF Got

\* The first stanza on the way to an end is a stanza.
LEMMA FirstStanza ==
  ASSUME Typed, NEW e \in Ends, net[e] # <<>>
  PROVE  LET m == Head(net[e])
         IN /\ m = net[e][1] /\ 1 \in DOMAIN net[e] /\ m \in Stanza
            /\ m.kind \in Kinds /\ m.from \in Ends /\ m.id \in Ids
            /\ m.block \in Nat /\ m.seq \in 0..MaxSeq /\ m.empty \in BOOLEAN
            /\ m.kind = "close" => m.id[1] = "close"
PROOF
  <1>1. /\ Head(net[e]) = net[e][1] /\ 1 \in DOMAIN net[e]
        /\ Head(net[e]) \in Stanza
    BY TailFacts DEF Typed
  <1> QED BY <1>1 DEF Stanza

\* The callback that tells of an end closes the object.
LEMMA CloseType ==
  ASSUME NEW c \in EndObject, NEW what \in {"open", "close"}
  PROVE  /\ Tell(c, what) \in EndObject
         /\ Tell(c, what) = [c EXCEPT !.told = Append(c.told, <<what, c.open>>)]
         /\ [c EXCEPT !.open = FALSE] \in EndObject
         /\ [c EXCEPT !.open = TRUE] \in EndObject
PROOF
  <1>1. c.told \in Seq({"open", "close"} \X BOOLEAN) /\ c.open \in BOOLEAN
    BY DEF EndObject
  <1>2. Append(c.told, <<what, c.open>>) \in Seq({"open", "close"} \X BOOLEAN)
    BY <1>1
  <1> QED BY <1>2 DEF Tell, EndObject

\* What is not taken, and what ends the stream.
LEMMA RefusalStep ==
  ASSUME IInv, NEW e \in Ends,
         \/ RecvUnopened(e) \/ RecvCloseRequest(e) \/ RecvOutOfSequence(e)
         \/ RecvEmpty(e) \/ Bounce(e)
  PROVE  IInv'
PROOF
  <1> DEFINE m == Head(net[e])
  <1>1. Typed
    BY DEF IInv
  <1>2. net[e] # <<>> /\ m.kind \in {"open", "data", "close"}
    BY DEF RecvUnopened, RecvCloseRequest, RecvOutOfSequence, RecvEmpty, Bounce, Arrives
  <1>3. ~IsAnswer(m)
    BY <1>2 DEF IsAnswer
  <1>4. /\ <<"error">> \in Seq({"result", "error"})
        /\ <<"result">> \in Seq({"result", "error"})
        /\ <<"error", "error">> \in Seq({"result", "error"})
    OBVIOUS
  <1>5. /\ \A k \in DOMAIN <<"error">> : <<"error">>[k] = "error"
        /\ \A k \in DOMAIN <<"error", "error">> : <<"error", "error">>[k] = "error"
    OBVIOUS
  <1>6. m.kind = "close" => m.id[1] # "data" /\ m.id # OpenId
    BY <1>1, <1>2, FirstStanza DEF OpenId
  <1>7. CASE AnswerWith(e, <<"error">>) \/ AnswerWith(e, <<"error", "error">>)
             \/ (AnswerWith(e, <<"result">>) /\ m.kind = "close")
    <2>1. /\ net' \in [Ends -> Seq(Stanza)]
          /\ \A x \in Ends : Carries(net[x], net'[x], x = e, FALSE)
      <3>1. CASE AnswerWith(e, <<"error">>)
        BY <1>1, <1>2, <1>4, <1>5, <3>1, Quietly
      <3>2. CASE AnswerWith(e, <<"error", "error">>)
        BY <1>1, <1>2, <1>4, <1>5, <3>2, Quietly
      <3>3. CASE AnswerWith(e, <<"result">>) /\ m.kind = "close"
        BY <1>1, <1>2, <1>4, <1>6, <3>3, Quietly
      <3> QED BY <1>7, <3>1, <3>2, <3>3
    <2>2. /\ Refuses(e)
          /\ Faults = {} => ~IsOpen(m) /\ (IsBlock(m) => ~end'[e].open)
      <3> DEFINE c == end[e]
      <3>1. c \in EndObject /\ end \in [Ends -> EndObject]
        BY <1>1, ObjectType DEF Typed
      <3>2. CASE RecvUnopened(e) \/ Bounce(e)
        <4>1. end' = end
          BY <3>2 DEF RecvUnopened, Bounce
        <4>2. Refuses(e)
          BY <3>1, <4>1 DEF Refuses
        <4>3. RecvUnopened(e) => ~IsOpen(m) /\ ~end[e].open
          BY DEF RecvUnopened, Arrives, IsOpen
        <4> QED BY <3>2, <4>1, <4>2, <4>3 DEF Bounce
      <3>3. CASE RecvCloseRequest(e)
        <4> DEFINE d == Tell([c EXCEPT !.open = FALSE], "close")
        <4>1. end' = [end EXCEPT ![e] = d] /\ c.open /\ m.kind = "close"
          BY <3>3 DEF RecvCloseRequest, Closed, Arrives
        <4>2. d \in EndObject
          BY <3>1, CloseType
        <4>3. d = [[c EXCEPT !.open = FALSE] EXCEPT
                     !.told = Append(c.told, <<"close", FALSE>>)]
          BY <3>1 DEF Tell, EndObject
        <4>4. /\ d.asked = c.asked /\ d.sequence = c.sequence
              /\ d.pending = c.pending /\ d.made = c.made
              /\ d.got = c.got /\ d.acked = c.acked /\ ~d.open
          <5> HIDE DEF c
          <5> QED BY <3>1, <4>3 DEF EndObject
        <4> HIDE DEF d
        <4>5. end' \in [Ends -> EndObject] /\ end'[e] = d
              /\ \A x \in Ends : x # e => end'[x] = end[x]
          BY <3>1, <4>1, <4>2
        <4> QED BY <4>1, <4>4, <4>5 DEF Refuses, IsOpen, IsBlock
      <3>4. CASE RecvOutOfSequence(e) \/ RecvEmpty(e)
        <4>1. PICK l : l \in -1..MaxSeq
                       /\ end' = [end EXCEPT ![e].open = FALSE, ![e].last = l]
          <5>1. c.open /\ m.kind = "data" /\ c.last = WrapSent(Got(e) - 1)
            BY <3>4 DEF RecvOutOfSequence, RecvEmpty, Arrives, IInv, Counted
          <5>2. c.last \in -1..(MaxSeq - 1) /\ MaxSeq \in Nat
            <6>1. Got(e) - 1 \in Int
              BY <1>1, ObjectType
            <6> QED BY <5>1, <6>1, WrapFacts, CycleType
          <5>3. c.last + 1 \in -1..MaxSeq /\ WrapReceived(c.last + 1) \in -1..MaxSeq
            BY <5>2 DEF WrapReceived
          <5> QED BY <3>4, <5>3 DEF RecvOutOfSequence, RecvEmpty
        <4>2. c.open /\ m.kind = "data"
          BY <3>4 DEF RecvOutOfSequence, RecvEmpty, Arrives
        <4> DEFINE d == [c EXCEPT !.open = FALSE, !.last = l]
        <4>3. end' = [end EXCEPT ![e] = d]
          BY <4>1
        <4>4. /\ d \in EndObject
              /\ d.asked = c.asked /\ d.sequence = c.sequence
              /\ d.pending = c.pending /\ d.made = c.made
              /\ d.got = c.got /\ d.acked = c.acked /\ ~d.open
          <5> HIDE DEF c
          <5> QED BY <3>1, <4>1 DEF EndObject
        <4> HIDE DEF d
        <4>5. end' \in [Ends -> EndObject] /\ end'[e] = d
              /\ \A x \in Ends : x # e => end'[x] = end[x]
          BY <3>1, <4>3, <4>4
        <4> QED BY <4>2, <4>4, <4>5 DEF Refuses, IsOpen
      <3> QED BY <3>2, <3>3, <3>4
    <2> QED BY <1>2, <1>3, <2>1, <2>2, RefusalHolds
  <1> QED BY <1>7 DEF RecvUnopened, RecvCloseRequest, RecvOutOfSequence, RecvEmpty,
                      Bounce, Arrives

\* No number comes round while a block may be lost.
Distinct == Faults = {} \/ MaxBlocks <= Cycle

\* A number below the cycle is its own rest.
LEMMA SmallRest ==
  ASSUME NEW N \in Nat, N > 0, NEW r \in 0..(N - 1)
  PROVE  r % N = r
PROOF
  <1>1. (0 * N + r) % N = r /\ 0 * N + r = r
    BY Rest
  <1> QED BY <1>1

\* What an open stream makes of the first block: its number is the one that is
\* expected only if it is the next block, and never that of the block before.
LEMMA NextBlock ==
  ASSUME IInv, Distinct, NEW e \in Ends, net[e] # <<>>, IsBlock(Head(net[e])),
         end[e].open
  PROVE  LET m == Head(net[e])
         IN /\ m.from = Peer(e) /\ m.id = <<"data", m.block>>
            /\ m.block \in Nat /\ m.block <= end[Peer(e)].made
            /\ end[e].last + 1 = m.seq => m.block = Got(e) + 1
            /\ end[e].last # m.seq
            /\ Faults = {} => end[e].last + 1 = m.seq
PROOF
  <1> DEFINE m == Head(net[e])
             q == net[e]
             b == m.block
             g == Got(e)
             made == end[Peer(e)].made
             last == end[e].last
  <1>1. Typed /\ Counted(e) /\ Coming(e)
    BY DEF IInv
  <1>2. q \in Seq(Stanza) /\ m = q[1] /\ 1 \in DOMAIN q /\ b \in Nat
    BY <1>1, FirstStanza DEF Typed
  <1>3. g \in Nat /\ made \in Nat /\ made <= MaxBlocks
    BY <1>1, PeerFacts, ObjectType
  <1>4. /\ m.from = Peer(e) /\ m.id = <<"data", b>> /\ m.seq = NumberOf(b)
        /\ g < b /\ b <= made
        /\ \A j \in DOMAIN q : IsBlock(q[j]) /\ 1 < j => b < q[j].block
    BY <1>1, <1>2 DEF Coming, BlocksIn
  <1>5. last = WrapSent(g - 1)
    BY <1>1 DEF Counted
  <1>6. last + 1 = NumberOf(g + 1) /\ last \in -1..(MaxSeq - 1)
    <2>1. g - 1 \in Int /\ (g - 1) + 2 = g + 1
      BY <1>3
    <2> HIDE DEF g, last
    <2> QED BY <1>5, <2>1, WrapFacts
  <1>7. CASE Faults = {}
    <2>1. NoGapIn(q, g, made)
      BY <1>7 DEF IInv, Faithful
    <2>2. g + 1 \in (g + 1)..made
      BY <1>2, <1>3, <1>4
    <2>3. PICK i \in DOMAIN q : IsBlock(q[i]) /\ q[i].block = g + 1
      BY <2>1, <2>2 DEF NoGapIn
    <2>4. i = 1 \/ 1 < i
      BY <1>2
    <2>5. b = g + 1
      BY <1>2, <1>3, <1>4, <2>3, <2>4
    <2>6. last # m.seq
      BY <1>4, <1>6, <2>5, CycleType
    <2>7. last + 1 = m.seq
      BY <1>4, <1>6, <2>5
    <2> QED BY <1>2, <1>4, <2>5, <2>6, <2>7
  <1>8. CASE MaxBlocks <= Cycle
    <2> HIDE DEF b, g, last, q, m, made
    <2>1. b - 1 \in 0..(Cycle - 1) /\ g \in 0..(Cycle - 1) /\ (g + 1) - 1 = g
      <3>1. MaxBlocks \in Nat
        BY IbbAssumption
      <3> QED BY <1>2, <1>3, <1>4, <1>8, <3>1, CycleType
    <2>2. NumberOf(b) = b - 1
      BY <2>1, CycleType, SmallRest DEF NumberOf
    <2>3. NumberOf(g + 1) = g
      BY <2>1, CycleType, SmallRest DEF NumberOf
    <2>4. last + 1 = m.seq => b = g + 1
      BY <1>2, <1>3, <1>4, <1>6, <2>2, <2>3
    <2>5. last # m.seq
      BY <1>2, <1>3, <1>4, <1>6, <2>2, <2>3, CycleType
    <2>6. CASE Faults = {}
      BY <1>7, <2>6 DEF m, q, b, g, last, made
    <2> QED BY <1>2, <1>4, <2>4, <2>5, <2>6 DEF m, q, b, g, last, made
  <1> QED BY <1>7, <1>8 DEF Distinct

\* A message: nothing reaches the handler.
LEMMA MessageStep ==
  ASSUME IInv, Distinct, RecvMessage
  PROVE  IInv'
PROOF
  <1> DEFINE e == "initiator"
             m == Head(net[e])
             c == end[e]
             d == [c EXCEPT !.open = FALSE]
  <1>1. Typed /\ e \in Ends
    BY DEF IInv, Ends
  <1>2. net[e] # <<>> /\ m.kind = "message"
    BY DEF RecvMessage, Arrives
  <1>3. IsBlock(m) /\ ~IsAnswer(m) /\ ~IsOpen(m)
    BY <1>2 DEF IsBlock, IsAnswer, IsOpen
  <1>4. AnswerWith(e, <<>>) /\ <<>> \in Seq({"result", "error"})
    BY DEF RecvMessage
  <1>5. /\ net' \in [Ends -> Seq(Stanza)]
        /\ \A x \in Ends : Carries(net[x], net'[x], x = e, FALSE)
    <2>1. \A k \in DOMAIN <<>> : <<>>[k] = "error"
      OBVIOUS
    <2> QED BY <1>1, <1>2, <1>4, <2>1, Quietly
  <1>6. c \in EndObject /\ end \in [Ends -> EndObject]
    BY <1>1, ObjectType DEF Typed
  <1>7. end' = [end EXCEPT ![e] = IF c.open THEN d ELSE c]
    <2>1. c.open => c.last # m.seq
      BY <1>1, <1>2, <1>3, NextBlock
    <2> QED BY <2>1 DEF RecvMessage
  <1>8. d \in EndObject
    BY <1>6, CloseType
  <1>9. /\ d.asked = c.asked /\ d.sequence = c.sequence
        /\ d.pending = c.pending /\ d.made = c.made
        /\ d.got = c.got /\ d.acked = c.acked /\ ~d.open
    <2> HIDE DEF c
    <2> QED BY <1>6 DEF EndObject
  <1>10. Refuses(e) /\ ~end'[e].open
    <2> HIDE DEF d
    <2>1. CASE c.open
      <3>1. end' \in [Ends -> EndObject] /\ end'[e] = d
            /\ \A x \in Ends : x # e => end'[x] = end[x]
        BY <1>1, <1>6, <1>7, <1>8, <2>1
      <3> QED BY <1>9, <2>1, <3>1 DEF Refuses
    <2>2. CASE ~c.open
      <3>1. end' = end
        BY <1>1, <1>6, <1>7, <2>2
      <3> QED BY <1>6, <2>2, <3>1 DEF Refuses
    <2> QED BY <2>1, <2>2
  <1> QED BY <1>1, <1>2, <1>3, <1>5, <1>10, RefusalHolds

\* No blocks are under way from an end that has sent none.
LEMMA NoneSent ==
  ASSUME IInv, NEW e \in Ends, end[Peer(e)].made = 0
  PROVE  \A i \in DOMAIN net[e] : ~IsBlock(net[e][i])
PROOF
  <1>1. Typed /\ Coming(e)
    BY DEF IInv
  <1>2. Got(e) \in Nat
    BY <1>1, ObjectType
  <1> SUFFICES ASSUME NEW i \in DOMAIN net[e], IsBlock(net[e][i])
               PROVE  FALSE
    OBVIOUS
  <1>3. Got(e) < net[e][i].block /\ net[e][i].block <= 0
    BY <1>1 DEF Coming, BlocksIn
  <1>4. net[e][i].block \in Nat
    <2>1. net[e] \in Seq(Stanza)
      BY <1>1 DEF Typed
    <2>2. net[e][i] \in Stanza
      BY <2>1
    <2> QED BY <2>2 DEF Stanza
  <1> QED BY <1>2, <1>3, <1>4

\* The request to open is granted: the target's stream is open, and the answer
\* to the initiator comes before all blocks.
LEMMA GrantStep ==
  ASSUME IInv, NEW e \in Ends, RecvOpen(e)
  PROVE  IInv'
PROOF
  <1> DEFINE m == Head(net[e])
             c == end[e]
             d == Tell([c EXCEPT !.open = TRUE], "open")
  <1>1. Typed /\ Opening
    BY DEF IInv
  <1>2. net[e] # <<>> /\ m.kind = "open" /\ AnswerWith(e, <<"result">>)
    BY DEF RecvOpen, Arrives
  <1>3. m = net[e][1] /\ 1 \in DOMAIN net[e] /\ IsOpen(m)
    BY <1>1, <1>2, FirstStanza DEF IsOpen
  <1>4. e = "target" /\ Peer(e) = "initiator" /\ "initiator" \in Ends /\ AsksOpen
    BY <1>1, <1>3 DEF Opening, Asks, AsksOpen, Ends, Peer
  <1>5. m.from = "initiator" /\ m.id = OpenId
    BY <1>1, <1>3, <1>4 DEF Opening, OpensIn
  <1>6. /\ Unopened(e) /\ end["initiator"].made = 0 /\ ~end["initiator"].open
        /\ OpensIn(net[e]) /\ ~Asks(net["initiator"])
        /\ OpenId \in end["initiator"].pending => Unopened("initiator")
    BY <1>1, <1>4 DEF Opening
  <1>7. PICK s \in Seq(Stanza) :
          /\ DOMAIN s = DOMAIN <<"result">>
          /\ \A k \in DOMAIN s : /\ s[k].kind = <<"result">>[k] /\ s[k].from = e
                                 /\ s[k].id = m.id
          /\ net' \in [Ends -> Seq(Stanza)]
          /\ \A x \in Ends : net'[x] = IF x = m.from
                                       THEN Left(e, x) \o s ELSE Left(e, x)
    <2>1. <<"result">> \in Seq({"result", "error"})
      OBVIOUS
    <2> QED BY ZenonT(60), <1>1, <1>2, <2>1, AnswerFacts
  <1>8. \A x \in Ends : Carries(net[x], net'[x], x = e, TRUE)
    <2>1. <<"result">> \in Seq({"result", "error"})
      OBVIOUS
    <2>2. m.id[1] # "data"
      BY <1>5 DEF OpenId
    <2> QED BY <1>1, <1>2, <2>1, <2>2, Quietly
  <1>9. c \in EndObject /\ end \in [Ends -> EndObject]
    BY <1>1, ObjectType DEF Typed
  <1>10. /\ d \in EndObject
         /\ d.asked = c.asked /\ d.sequence = c.sequence /\ d.last = c.last
         /\ d.pending = c.pending /\ d.made = c.made
         /\ d.got = c.got /\ d.acked = c.acked /\ d.open
    <2> DEFINE o == [c EXCEPT !.open = TRUE]
    <2> HIDE DEF c
    <2>1. o \in EndObject
      BY <1>9, CloseType
    <2>2. /\ o.asked = c.asked /\ o.sequence = c.sequence /\ o.last = c.last
          /\ o.pending = c.pending /\ o.made = c.made
          /\ o.got = c.got /\ o.acked = c.acked /\ o.open
      BY <1>9 DEF EndObject
    <2>3. d = Tell(o, "open")
      OBVIOUS
    <2> HIDE DEF o, d
    <2>4. d \in EndObject /\ d = [o EXCEPT !.told = Append(o.told, <<"open", o.open>>)]
      BY <2>1, <2>3, CloseType
    <2>5. /\ d.asked = o.asked /\ d.sequence = o.sequence /\ d.last = o.last
          /\ d.pending = o.pending /\ d.made = o.made
          /\ d.got = o.got /\ d.acked = o.acked /\ d.open = o.open
      BY <2>1, <2>4 DEF EndObject
    <2> QED BY <2>2, <2>4, <2>5
  <1>11. /\ end' \in [Ends -> EndObject] /\ end'[e] = d
         /\ \A x \in Ends : x # e => end'[x] = end[x]
    <2>1. end' = [end EXCEPT ![e] = d]
      BY DEF RecvOpen
    <2> HIDE DEF d
    <2> QED BY <1>9, <1>10, <2>1
  <1> HIDE DEF d
  <1>12. \A x \in Ends :
           /\ end'[x].asked = end[x].asked /\ end'[x].sequence = end[x].sequence
           /\ end'[x].pending = end[x].pending /\ end'[x].made = end[x].made
           /\ end'[x].got = end[x].got /\ end'[x].acked = end[x].acked
           /\ end'[x].last = end[x].last /\ Got(x)' = Got(x)
           /\ x # e => end'[x] = end[x]
    BY <1>10, <1>11 DEF Got
  <1>13. Typed'
    BY <1>7, <1>11 DEF Typed
  <1>14. ASSUME NEW x \in Ends PROVE (Counted(x) /\ Coming(x))'
    <2>1. Counted(x) /\ Coming(x)
      BY DEF IInv
    <2>2. end'[x].open => end'[x].last = WrapSent(Got(x)' - 1)
      <3>1. CASE x = e
        <4>1. end[x].last = -1 /\ Got(x) = 0
          BY <1>6, <3>1 DEF Unopened, Got
        <4> QED BY <1>12, <4>1, WrapNone
      <3>2. CASE x # e
        BY <1>12, <2>1, <3>2 DEF Counted
      <3> QED BY <3>1, <3>2
    <2>3. Counted(x)'
      BY <1>12, <2>1, <2>2, PeerFacts DEF Counted
    <2>4. /\ BlocksIn(net'[x], Peer(x), Got(x), end[Peer(x)].made)
          /\ AcksIn(net'[x], end[x].acked, Got(Peer(x)))
      BY <1>8, <2>1 DEF Coming, Carries
    <2>5. Coming(x)'
      BY <1>12, <2>4, PeerFacts DEF Coming
    <2> QED BY <2>3, <2>5
  <1>15. ~AsksOpen'
    BY <1>3, <1>4, <1>6, <1>8 DEF Carries, AsksOpen
  <1>16. Opening'
    <2>1. end["initiator"].asked
      BY <1>1, <1>2 DEF Opening
    <2>2. OpensIn(net'["target"]) /\ ~Asks(net'["initiator"])
      BY <1>4, <1>6, <1>8 DEF Carries
    <2>3. OpenId \in end'["initiator"].pending => Unopened("initiator")'
      BY <1>4, <1>6, <1>12 DEF Unopened
    <2>4. OpenId \notin end'["target"].pending
      BY <1>1, <1>4, <1>12 DEF Opening
    <2> QED BY <1>4, <1>12, <1>15, <2>1, <2>2, <2>3, <2>4 DEF Opening
  <1>17. Faithful'
    <2> SUFFICES ASSUME Faults = {}
                 PROVE  /\ \A x \in Ends : (end[x].open \/ Openable(x))' =>
                             NoGapIn(net[x], Got(x), end[Peer(x)].made)'
                        /\ OpenId \in end'["initiator"].pending =>
                             AsksOpen' \/ AnsweredFirst(net'["initiator"])
      BY DEF Faithful
    <2>1. ASSUME NEW x \in Ends, (end[x].open \/ Openable(x))'
          PROVE  NoGapIn(net[x], Got(x), end[Peer(x)].made)'
      <3>1. end[x].open \/ Openable(x)
        <4>1. CASE x = e
          BY <1>4, <4>1 DEF Openable
        <4>2. CASE x # e
          <5>1. x = "initiator"
            BY <1>4, <4>2 DEF Ends
          <5> QED BY <1>12, <2>1, <4>2, <5>1 DEF Openable
        <4> QED BY <4>1, <4>2
      <3>2. NoGapIn(net[x], Got(x), end[Peer(x)].made)
        BY <3>1 DEF IInv, Faithful
      <3>3. ~(x = e /\ IsBlock(Head(net[x])))
        BY <1>2 DEF IsBlock
      <3>4. NoGapIn(net'[x], Got(x), end[Peer(x)].made)
        BY <1>8, <3>2, <3>3 DEF Carries
      <3> QED BY <1>12, <3>4, PeerFacts
    <2>2. AnsweredFirst(net'["initiator"])
      <3> DEFINE q == net["initiator"]
                 r == net'["initiator"]
      <3>1. r = q \o s /\ q \in Seq(Stanza)
        BY <1>1, <1>4, <1>5, <1>7 DEF Left, Typed
      <3>2. DOMAIN s = {1} /\ s[1].kind = "result" /\ s[1].id = OpenId
        BY <1>5, <1>7
      <3>3. \A i \in DOMAIN q : ~IsBlock(q[i])
        <4>1. Peer("initiator") = "target" /\ end["target"].made = 0
          BY <1>4, <1>6 DEF Unopened, Peer
        <4> QED BY <1>4, <4>1, NoneSent
      <3>4. /\ \A i \in DOMAIN r : \/ i \in DOMAIN q /\ r[i] = q[i]
                                   \/ i - Len(q) \in DOMAIN s /\ r[i] = s[i - Len(q)]
            /\ Len(q) + 1 \in DOMAIN r /\ r[Len(q) + 1] = s[1]
        BY SMTT(30), <3>1, <3>2, AppendFacts
      <3> HIDE DEF q, r
      <3>5. \A i \in DOMAIN r : ~IsBlock(r[i])
        BY <3>2, <3>3, <3>4 DEF IsBlock
      <3> QED BY <3>2, <3>4, <3>5 DEF AnsweredFirst, IsAnswer, r
    <2> QED BY <2>1, <2>2
  <1> QED BY <1>13, <1>14, <1>16, <1>17 DEF IInv

\* The next block is handed to the handler and acknowledged.
LEMMA DataStep ==
  ASSUME IInv, Distinct, NEW e \in Ends, RecvData(e)
  PROVE  IInv'
PROOF
  <1> DEFINE p == Peer(e)
             m == Head(net[e])
             c == end[e]
             g == Got(e)
             last == WrapReceived(c.last + 1)
             d == [c EXCEPT !.last = last, !.got = Append(c.got, m.block)]
  <1>1. Typed /\ Opening /\ Counted(e) /\ Coming(e) /\ Counted(p) /\ Coming(p)
    BY PeerFacts DEF IInv
  <1>2. /\ net[e] # <<>> /\ m.kind = "data" /\ c.open /\ c.last + 1 = m.seq
        /\ AnswerWith(e, <<"result">>) /\ end' = [end EXCEPT ![e] = d]
    BY DEF RecvData, Arrives, OutOfSequence, Accepted
  <1>3. IsBlock(m) /\ ~IsOpen(m)
    BY <1>2 DEF IsBlock, IsOpen
  <1>4. /\ m.from = p /\ m.id = <<"data", m.block>> /\ m.block = g + 1
        /\ g + 1 <= end[p].made
    BY <1>2, <1>3, NextBlock
  <1>5. p \in Ends /\ p # e /\ Peer(p) = e /\ \A x \in Ends : x = e \/ x = p
    BY PeerFacts
  <1>6. /\ c \in EndObject /\ end \in [Ends -> EndObject] /\ g \in Nat
        /\ c.got \in Seq(Nat) /\ Got(p) \in Nat
        /\ end[p].acked \in Nat /\ end[p].made \in Nat
    BY <1>1, <1>5, ObjectType DEF Typed
  <1>7. PICK s \in Seq(Stanza) :
          /\ DOMAIN s = DOMAIN <<"result">>
          /\ \A k \in DOMAIN s : /\ s[k].kind = <<"result">>[k] /\ s[k].from = e
                                 /\ s[k].id = m.id
          /\ net' \in [Ends -> Seq(Stanza)]
          /\ \A x \in Ends : net'[x] = IF x = m.from
                                       THEN Left(e, x) \o s ELSE Left(e, x)
    <2>1. <<"result">> \in Seq({"result", "error"})
      OBVIOUS
    <2> DEFINE kinds == <<"result">>
    <2>2. Typed /\ net[e] # <<>> /\ AnswerWith(e, kinds)
      BY <1>1, <1>2
    <2> HIDE DEF p, c, g, last, d, kinds
    <2>3. \E s \in Seq(Stanza) :
            /\ DOMAIN s = DOMAIN kinds
            /\ \A k \in DOMAIN s : /\ s[k].kind = kinds[k] /\ s[k].from = e
                                   /\ s[k].id = m.id
            /\ net' \in [Ends -> Seq(Stanza)]
            /\ \A x \in Ends : net'[x] = IF x = m.from
                                         THEN Left(e, x) \o s ELSE Left(e, x)
      BY <2>1, <2>2, AnswerFacts DEF kinds
    <2> QED BY <2>3 DEF kinds
  <1> DEFINE a == s[1]
  <1>8. s = <<a>> /\ a \in Stanza /\ IsAck(a) /\ a.id = <<"data", g + 1>>
    <2>1. DOMAIN s = {1} /\ <<"result">>[1] = "result"
      BY <1>7
    <2>2. s = <<s[1]>> /\ s[1] \in Stanza
      BY <2>1
    <2>3. s[1].kind = "result" /\ s[1].id = <<"data", g + 1>>
      BY <1>4, <1>7, <2>1
    <2> HIDE DEF g
    <2> QED BY <2>2, <2>3 DEF IsAck
  <1> HIDE DEF a
  <1>9. net'[e] = Tail(net[e]) /\ net'[p] = net[p] \o <<a>>
    BY <1>4, <1>5, <1>7, <1>8 DEF Left
  <1>10. net[e] \in Seq(Stanza) /\ net[p] \in Seq(Stanza)
    BY <1>1, <1>5 DEF Typed
  <1>11. last = WrapSent(g) /\ last \in -1..MaxSeq
    <2>1. g - 1 \in Int /\ (g - 1) + 1 = g /\ g \in Int
      BY <1>6
    <2>2. c.last = WrapSent(g - 1)
      BY <1>1, <1>2 DEF Counted
    <2> HIDE DEF g, c
    <2>3. last = WrapSent(g)
      BY <2>1, <2>2, WrapFacts
    <2>4. WrapSent(g) \in -1..(MaxSeq - 1)
      BY <2>1, WrapFacts
    <2> QED BY <2>3, <2>4, CycleType
  <1>12. /\ d \in EndObject
         /\ d.asked = c.asked /\ d.sequence = c.sequence
         /\ d.pending = c.pending /\ d.made = c.made /\ d.acked = c.acked
         /\ d.open = c.open /\ d.last = last /\ d.got = Append(c.got, g + 1)
    <2>1. Append(c.got, g + 1) \in Seq(Nat)
      BY <1>6
    <2>2. d = [c EXCEPT !.last = last, !.got = Append(c.got, g + 1)]
      BY <1>4
    <2> HIDE DEF c, g, last, d
    <2> QED BY <1>6, <1>11, <2>1, <2>2 DEF EndObject
  <1>13. /\ end' \in [Ends -> EndObject] /\ end'[e] = d /\ end'[p] = end[p]
    <2> HIDE DEF d
    <2> QED BY <1>2, <1>5, <1>6, <1>12
  <1>14. Got(e)' = g + 1 /\ Got(p)' = Got(p)
    <2>1. Len(Append(c.got, g + 1)) = Len(c.got) + 1
      BY <1>6
    <2> HIDE DEF d
    <2> QED BY <1>12, <1>13, <2>1 DEF Got
  <1> HIDE DEF d, last
  <1>15. Typed'
    BY <1>7, <1>13 DEF Typed
  <1>16. Counted(e)'
    <2>1. \A i \in DOMAIN end'[e].got : end'[e].got[i] = i
      <3> DEFINE r == c.got
      <3>1. r \in Seq(Nat) /\ g = Len(r) /\ \A i \in DOMAIN r : r[i] = i
        BY <1>1, <1>6 DEF Counted, Got
      <3>2. end'[e].got = Append(r, g + 1)
        BY <1>12, <1>13
      <3> HIDE DEF r, g
      <3>3. \A i \in DOMAIN Append(r, g + 1) : Append(r, g + 1)[i] = i
        BY <3>1
      <3> QED BY <3>2, <3>3
    <2>2. end'[e].last = WrapSent(Got(e)' - 1)
      BY <1>6, <1>11, <1>12, <1>13, <1>14
    <2> QED BY <1>1, <1>4, <1>5, <1>12, <1>13, <1>14, <2>1, <2>2 DEF Counted
  <1>17. Counted(p)'
    <2>1. end[p].acked <= g + 1
      BY <1>1, <1>5, <1>6 DEF Counted
    <2> QED BY <1>1, <1>5, <1>12, <1>13, <1>14, <2>1 DEF Counted
  <1>18. /\ BlocksIn(net'[e], p, g + 1, end[p].made)
         /\ AcksIn(net'[e], c.acked, Got(p))
         /\ OpensIn(net[e]) => OpensIn(net'[e])
         /\ Asks(net'[e]) => Asks(net[e])
    <2> DEFINE q == net[e]
    <2>1. BlocksIn(q, p, g, end[p].made) /\ AcksIn(q, c.acked, Got(p))
      BY <1>1 DEF Coming
    <2>2. BlocksIn(Tail(q), p, m.block, end[p].made)
      BY <1>2, <1>3, <1>10, <2>1, TailTakes
    <2> QED BY <1>2, <1>4, <1>9, <1>10, <2>1, <2>2, TailKeeps
  <1>19. /\ AcksIn(net'[p], end[p].acked, g + 1)
         /\ \A f, n, made : BlocksIn(net[p], f, n, made) => BlocksIn(net'[p], f, n, made)
         /\ OpensIn(net[p]) => OpensIn(net'[p])
         /\ Asks(net'[p]) <=> Asks(net[p])
         /\ \A n, made : NoGapIn(net[p], n, made) => NoGapIn(net'[p], n, made)
         /\ AnsweredFirst(net[p]) => AnsweredFirst(net'[p])
    <2>1. AcksIn(net[p], end[p].acked, g) /\ end[p].acked <= g
      BY <1>1, <1>5 DEF Coming, Counted
    <2> DEFINE q == net[p]
               k == end[p].acked
    <2>2. g \in Nat /\ k \in Nat /\ q \in Seq(Stanza)
      BY <1>6, <1>10
    <2> HIDE DEF g, q, k
    <2>3. /\ AcksIn(q \o <<a>>, k, g + 1)
          /\ \A f, n, made : BlocksIn(q, f, n, made) => BlocksIn(q \o <<a>>, f, n, made)
          /\ OpensIn(q) => OpensIn(q \o <<a>>)
          /\ Asks(q \o <<a>>) <=> Asks(q)
          /\ \A n, made : NoGapIn(q, n, made) => NoGapIn(q \o <<a>>, n, made)
          /\ AnsweredFirst(q) => AnsweredFirst(q \o <<a>>)
      BY <1>8, <2>1, <2>2, AckAdded DEF q, k
    <2> QED BY <1>9, <2>3 DEF q, k
  <1>20. Coming(e)' /\ Coming(p)'
    <2>1. BlocksIn(net'[p], e, Got(p), end[e].made)
      BY <1>1, <1>5, <1>19 DEF Coming
    <2> QED BY <1>5, <1>12, <1>13, <1>14, <1>18, <1>19, <2>1 DEF Coming
  <1>21. /\ ~AsksOpen
         /\ OpenId \in end["initiator"].pending => e = "target"
    BY <1>1, <1>2 DEF Opening, Unopened, Ends
  <1>22. /\ ~AsksOpen' /\ OpensIn(net'["target"]) /\ ~Asks(net'["initiator"])
         /\ "initiator" \in Ends /\ "target" \in Ends
    <2>1. "initiator" \in Ends /\ "target" \in Ends
      BY DEF Ends
    <2>2. OpensIn(net["target"]) /\ ~Asks(net["initiator"]) /\ ~Asks(net["target"])
      BY <1>1, <1>21 DEF Opening, AsksOpen
    <2> QED BY <1>5, <1>18, <1>19, <2>1, <2>2 DEF AsksOpen
  <1>23. Opening'
    <2>1. end["initiator"].asked
      BY <1>1, <1>2 DEF Opening
    <2>2. /\ end'["initiator"].asked = end["initiator"].asked
          /\ end'["initiator"].pending = end["initiator"].pending
      BY <1>5, <1>12, <1>13, <1>22
    <2>3. OpenId \in end["initiator"].pending => Unopened("initiator")'
      BY <1>1, <1>5, <1>13, <1>21, <1>22 DEF Opening, Unopened
    <2>4. OpenId \notin end'["target"].pending
      BY <1>1, <1>5, <1>12, <1>13, <1>22 DEF Opening
    <2> QED BY <1>22, <2>1, <2>2, <2>3, <2>4 DEF Opening
  <1>24. Faithful'
    <2> SUFFICES ASSUME Faults = {}
                 PROVE  /\ \A x \in Ends : (end[x].open \/ Openable(x))' =>
                             NoGapIn(net[x], Got(x), end[Peer(x)].made)'
                        /\ OpenId \in end'["initiator"].pending =>
                             AsksOpen' \/ AnsweredFirst(net'["initiator"])
      BY DEF Faithful
    <2>1. NoGapIn(net'[e], g + 1, end[p].made)
      <3>1. NoGapIn(net[e], g, end[p].made)
        BY <1>2 DEF IInv, Faithful
      <3> HIDE DEF g
      <3> QED BY <1>2, <1>4, <1>6, <1>9, <1>10, <3>1, TailTakes
    <2>2. ASSUME (end[p].open \/ Openable(p))'
          PROVE  NoGapIn(net'[p], Got(p), end[e].made)
      <3>1. end[p].open \/ Openable(p)
        BY <1>13, <1>22, <2>2 DEF Openable
      <3>2. NoGapIn(net[p], Got(p), end[e].made)
        BY <1>5, <3>1 DEF IInv, Faithful
      <3> QED BY <1>19, <3>2
    <2>3. ASSUME OpenId \in end'["initiator"].pending
          PROVE  AnsweredFirst(net'["initiator"])
      <3>1. OpenId \in end["initiator"].pending
        BY <1>5, <1>12, <1>13, <1>22, <2>3
      <3>2. AnsweredFirst(net["initiator"]) /\ "initiator" = p
        BY <1>5, <1>21, <1>22, <3>1 DEF IInv, Faithful
      <3> QED BY <1>19, <3>2
    <2>4. ASSUME NEW x \in Ends, (end[x].open \/ Openable(x))'
          PROVE  NoGapIn(net[x], Got(x), end[Peer(x)].made)'
      BY <1>5, <1>12, <1>13, <1>14, <2>1, <2>2, <2>4
    <2> QED BY <2>3, <2>4
  <1> QED BY <1>5, <1>15, <1>16, <1>17, <1>20, <1>23, <1>24 DEF IInv

\* What an answer makes of the object.
LEMMA AnsweredType ==
  ASSUME IInv, NEW e \in Ends, RecvAnswer(e)
  PROVE  LET m == Head(net[e])
             c == end[e]
         IN /\ IsAnswer(m) /\ net[e] # <<>> /\ net' = [net EXCEPT ![e] = Tail(@)]
            /\ end' \in [Ends -> EndObject]
            /\ \A x \in Ends : x # e => end'[x] = end[x]
            /\ end'[e].asked = c.asked /\ end'[e].sequence = c.sequence
            /\ end'[e].last = c.last /\ end'[e].made = c.made
            /\ end'[e].got = c.got /\ end'[e].pending = c.pending \ {m.id}
            /\ \/ end'[e].acked = c.acked
               \/ end'[e].acked = c.acked + 1 /\ IsAck(m)
            /\ end'[e].open => \/ c.open
                               \/ /\ m.id = OpenId /\ m.id \in c.pending
                                  /\ m.kind = "result"
PROOF
  <1> DEFINE m == Head(net[e])
             c == end[e]
             w == [c EXCEPT !.pending = @ \ {m.id}]
             d == IF m.id \in c.pending THEN Answered(w, m.kind, m.id) ELSE w
  <1>1. Typed
    BY DEF IInv
  <1>2. /\ net[e] # <<>> /\ m.kind \in {"result", "error"}
        /\ net' = [net EXCEPT ![e] = Tail(@)] /\ end' = [end EXCEPT ![e] = d]
    BY DEF RecvAnswer, Arrives
  <1>3. c \in EndObject /\ end \in [Ends -> EndObject] /\ m.id \in Ids
        /\ c.acked \in Nat
    BY <1>1, <1>2, ObjectType, FirstStanza DEF Typed
  <1>4. /\ w \in EndObject
        /\ w.asked = c.asked /\ w.sequence = c.sequence /\ w.last = c.last
        /\ w.pending = c.pending \ {m.id} /\ w.made = c.made /\ w.open = c.open
        /\ w.got = c.got /\ w.acked = c.acked
    <2> HIDE DEF c, m
    <2> QED BY <1>3 DEF EndObject
  <1> HIDE DEF w, c, m
  <1> DEFINE Like(y) == /\ y \in EndObject
                        /\ y.asked = c.asked /\ y.sequence = c.sequence
                        /\ y.last = c.last /\ y.pending = c.pending \ {m.id}
                        /\ y.made = c.made /\ y.got = c.got
             Takes(y) == /\ \/ y.acked = c.acked
                            \/ y.acked = c.acked + 1 /\ IsAck(m)
                         /\ y.open => \/ c.open
                                      \/ /\ m.id = OpenId /\ m.id \in c.pending
                                         /\ m.kind = "result"
  <1>5. ASSUME NEW y \in EndObject, NEW what \in {"open", "close"}
        PROVE  /\ Tell(y, what) \in EndObject
               /\ Tell(y, what).asked = y.asked /\ Tell(y, what).sequence = y.sequence
               /\ Tell(y, what).last = y.last /\ Tell(y, what).pending = y.pending
               /\ Tell(y, what).made = y.made /\ Tell(y, what).got = y.got
               /\ Tell(y, what).acked = y.acked /\ Tell(y, what).open = y.open
    <2>1. /\ Tell(y, what) \in EndObject
          /\ Tell(y, what) = [y EXCEPT !.told = Append(y.told, <<what, y.open>>)]
      BY <1>5, CloseType
    <2> QED BY <2>1 DEF EndObject
  <1>6. ASSUME NEW y \in EndObject, NEW o \in BOOLEAN
        PROVE  LET z == [y EXCEPT !.open = o]
               IN /\ z \in EndObject
                  /\ z.asked = y.asked /\ z.sequence = y.sequence /\ z.last = y.last
                  /\ z.pending = y.pending /\ z.made = y.made /\ z.got = y.got
                  /\ z.acked = y.acked /\ z.open = o
    BY DEF EndObject
  <1>7. Like(w) /\ Takes(w)
    BY <1>4
  <1>8. Like(Closed(w)) /\ Takes(Closed(w))
    <2>1. CASE w.open
      <3> DEFINE z == [w EXCEPT !.open = FALSE]
      <3>1. /\ z \in EndObject
            /\ z.asked = w.asked /\ z.sequence = w.sequence /\ z.last = w.last
            /\ z.pending = w.pending /\ z.made = w.made /\ z.got = w.got
            /\ z.acked = w.acked /\ z.open = FALSE
        BY <1>4, <1>6
      <3>2. Closed(w) = Tell(z, "close")
        BY <2>1 DEF Closed
      <3> HIDE DEF z
      <3> QED BY <1>4, <1>5, <3>1, <3>2
    <2>2. CASE ~w.open
      BY <1>7, <2>2 DEF Closed
    <2> QED BY <2>1, <2>2
  <1>9. ASSUME m.id[1] = "open", m.id \in c.pending, m.kind = "result"
        PROVE  Like(Opened(w)) /\ Takes(Opened(w))
    <2> DEFINE z == Tell(w, "open")
    <2>1. m.id = OpenId
      BY <1>3, <1>9 DEF Ids, OpenId
    <2>2. /\ z \in EndObject
          /\ z.asked = w.asked /\ z.sequence = w.sequence /\ z.last = w.last
          /\ z.pending = w.pending /\ z.made = w.made /\ z.got = w.got
          /\ z.acked = w.acked
      BY <1>4, <1>5
    <2>3. Opened(w) = [z EXCEPT !.open = TRUE]
      BY DEF Opened
    <2> DEFINE v == [z EXCEPT !.open = TRUE]
    <2> HIDE DEF z
    <2>4. /\ v \in EndObject
          /\ v.asked = z.asked /\ v.sequence = z.sequence /\ v.last = z.last
          /\ v.pending = z.pending /\ v.made = z.made /\ v.got = z.got
          /\ v.acked = z.acked
      BY <1>6, <2>2
    <2> HIDE DEF v
    <2>5. Like(v) /\ Takes(v)
      BY <1>4, <1>9, <2>1, <2>2, <2>4
    <2> QED BY <2>3, <2>5 DEF v
  <1>10. ASSUME m.id[1] = "data", m.kind = "result"
         PROVE  LET z == [w EXCEPT !.acked = @ + 1] IN Like(z) /\ Takes(z)
    <2> DEFINE z == [w EXCEPT !.acked = w.acked + 1]
    <2>1. IsAck(m)
      BY <1>10 DEF IsAck
    <2>2. /\ z \in EndObject
          /\ z.asked = w.asked /\ z.sequence = w.sequence /\ z.last = w.last
          /\ z.pending = w.pending /\ z.made = w.made /\ z.got = w.got
          /\ z.acked = w.acked + 1 /\ z.open = w.open
      <3>1. w.acked + 1 \in Nat
        BY <1>3, <1>4
      <3> QED BY <1>4, <3>1 DEF EndObject
    <2> HIDE DEF z
    <2>3. Like(z) /\ Takes(z)
      BY <1>4, <2>1, <2>2
    <2> QED BY <2>3 DEF z
  <1>11. Like(d) /\ Takes(d)
    <2> HIDE DEF Like, Takes
    <2>1. CASE m.id \notin c.pending
      BY <1>7, <2>1
    <2>2. CASE m.id \in c.pending /\ m.kind = "error"
      BY <1>8, <2>2 DEF Answered
    <2>3. CASE m.id \in c.pending /\ m.kind = "result"
      BY <1>7, <1>9, <1>10, <2>3 DEF Answered
    <2> QED BY <1>2, <2>1, <2>2, <2>3
  <1> HIDE DEF d
  <1>12. /\ end' \in [Ends -> EndObject] /\ end'[e] = d
         /\ \A x \in Ends : x # e => end'[x] = end[x]
    BY <1>2, <1>3, <1>11
  <1>13. IsAnswer(m)
    BY <1>2 DEF IsAnswer
  <1> QED BY <1>2, <1>11, <1>12, <1>13 DEF c, m

\* An answer: a stream is granted, a block acknowledged, or the stream ends.
LEMMA AnswerStep ==
  ASSUME IInv, NEW e \in Ends, RecvAnswer(e)
  PROVE  IInv'
PROOF
  <1> DEFINE p == Peer(e)
             m == Head(net[e])
             c == end[e]
             q == net[e]
             g == Got(p)
  <1>1. Typed /\ Opening /\ Counted(e) /\ Coming(e) /\ Counted(p) /\ Coming(p)
    BY PeerFacts DEF IInv
  <1>2. /\ IsAnswer(m) /\ q # <<>> /\ net' = [net EXCEPT ![e] = Tail(@)]
        /\ end' \in [Ends -> EndObject]
        /\ \A x \in Ends : x # e => end'[x] = end[x]
        /\ end'[e].asked = c.asked /\ end'[e].sequence = c.sequence
        /\ end'[e].last = c.last /\ end'[e].made = c.made
        /\ end'[e].got = c.got /\ end'[e].pending = c.pending \ {m.id}
        /\ \/ end'[e].acked = c.acked
           \/ end'[e].acked = c.acked + 1 /\ IsAck(m)
        /\ end'[e].open => \/ c.open
                           \/ /\ m.id = OpenId /\ m.id \in c.pending
                              /\ m.kind = "result"
    BY AnsweredType
  <1>3. p \in Ends /\ p # e /\ Peer(p) = e /\ \A x \in Ends : x = e \/ x = p
    BY PeerFacts
  <1>4. /\ m = q[1] /\ 1 \in DOMAIN q /\ m \in Stanza /\ m.id \in Ids
        /\ q \in Seq(Stanza) /\ net \in [Ends -> Seq(Stanza)]
        /\ Tail(q) \in Seq(Stanza)
    BY <1>1, <1>2, FirstStanza, TailFacts DEF Typed
  <1>5. /\ net' \in [Ends -> Seq(Stanza)] /\ net'[e] = Tail(q) /\ net'[p] = net[p]
    BY <1>2, <1>3, <1>4
  <1>6. /\ \A x \in Ends :
             /\ end'[x].asked = end[x].asked /\ end'[x].sequence = end[x].sequence
             /\ end'[x].last = end[x].last /\ end'[x].made = end[x].made
             /\ end'[x].got = end[x].got /\ Got(x)' = Got(x)
             /\ end'[x].pending \subseteq end[x].pending
        /\ end'[p] = end[p]
    BY <1>2, <1>3 DEF Got
  <1>7. ~IsBlock(m) /\ ~IsOpen(m)
    BY <1>2 DEF IsAnswer, IsBlock, IsOpen
  <1>8. /\ BlocksIn(q, p, Got(e), end[p].made) => BlocksIn(Tail(q), p, Got(e), end[p].made)
        /\ AcksIn(q, c.acked, g) => AcksIn(Tail(q), c.acked, g)
        /\ OpensIn(q) => OpensIn(Tail(q))
        /\ Asks(Tail(q)) <=> Asks(q)
        /\ Ungranted(q) => Ungranted(Tail(q))
        /\ NoGapIn(q, Got(e), end[p].made) => NoGapIn(Tail(q), Got(e), end[p].made)
        /\ AnsweredFirst(q) /\ m.id # OpenId => AnsweredFirst(Tail(q))
    BY <1>2, <1>4, <1>7, TailKeeps
  <1>9. Typed'
    BY <1>2, <1>5 DEF Typed
  <1>10. c.acked \in Nat /\ g \in Nat
    BY <1>1, <1>3, ObjectType
  <1>11. /\ AcksIn(Tail(q), end'[e].acked, g) /\ end'[e].acked <= g
    <2>1. AcksIn(q, c.acked, g) /\ c.acked <= g
      BY <1>1 DEF Coming, Counted
    <2>2. CASE end'[e].acked = c.acked
      BY <1>8, <2>1, <2>2
    <2>3. CASE end'[e].acked = c.acked + 1 /\ IsAck(m)
      <3>1. AcksIn(Tail(q), m.id[2], g)
        BY <1>2, <1>4, <2>1, <2>3, TailTakes
      <3>2. c.acked < m.id[2] /\ m.id[2] <= g
        BY <1>4, <2>1, <2>3 DEF AcksIn
      <3>3. m.id[2] \in Nat
        BY <1>4 DEF Ids, OpenId
      <3>4. \A i \in DOMAIN Tail(q) : IsAck(Tail(q)[i]) => Tail(q)[i].id[2] \in Nat
        <4>1. \A i \in DOMAIN Tail(q) : Tail(q)[i] \in Stanza
          BY <1>4
        <4>2. \A i \in DOMAIN Tail(q) : Tail(q)[i].id \in Ids
          BY <4>1 DEF Stanza
        <4> QED BY <4>2 DEF Ids, OpenId
      <3> DEFINE t == Tail(q)
                 k == m.id[2]
                 n == c.acked
      <3> HIDE DEF t, k, n, g
      <3>5. ASSUME NEW i \in DOMAIN t, IsAck(t[i])
            PROVE  n + 1 < t[i].id[2]
        <4>1. k < t[i].id[2]
          BY <3>1, <3>5 DEF AcksIn, t, k
        <4>2. n + 1 <= k /\ k \in Nat /\ n \in Nat
          BY <1>10, <3>2, <3>3 DEF k, n
        <4>3. t[i].id[2] \in Nat
          BY <3>4, <3>5 DEF t
        <4> QED BY <4>1, <4>2, <4>3
      <3>6. AcksIn(t, n + 1, g)
        BY <3>1, <3>5 DEF AcksIn, t
      <3>7. n + 1 <= g
        BY <1>10, <3>2, <3>3 DEF n
      <3> QED BY <2>3, <3>6, <3>7 DEF t, n
    <2> QED BY <1>2, <2>2, <2>3
  <1>12. Coming(e)' /\ Coming(p)'
    <2>1. Coming(e)'
      BY <1>1, <1>3, <1>5, <1>6, <1>8, <1>11 DEF Coming
    <2>2. Coming(p)'
      BY <1>1, <1>3, <1>5, <1>6 DEF Coming
    <2> QED BY <2>1, <2>2
  <1>13. \/ e = "initiator" /\ p = "target"
         \/ e = "target" /\ p = "initiator"
    BY DEF Ends, Peer
  <1>14. m.id \in c.pending /\ m.id = OpenId => e = "initiator" /\ Unopened(e)
    BY <1>1, <1>13 DEF Opening
  <1>15. Counted(e)' /\ Counted(p)'
    <2>1. end'[e].open => end'[e].last = WrapSent(Got(e)' - 1)
      <3>1. CASE c.open
        BY <1>1, <1>6, <3>1 DEF Counted
      <3>2. CASE ~c.open /\ end'[e].open
        <4>1. c.last = -1 /\ Got(e) = 0
          BY <1>2, <1>14, <3>2 DEF Unopened, Got
        <4> QED BY <1>6, <4>1, WrapNone
      <3> QED BY <3>1, <3>2
    <2>2. Counted(e)'
      BY <1>1, <1>3, <1>6, <1>11, <2>1 DEF Counted
    <2>3. Counted(p)'
      BY <1>1, <1>3, <1>6 DEF Counted
    <2> QED BY <2>2, <2>3
  <1>16. AsksOpen' <=> AsksOpen
    BY <1>5, <1>8, <1>13 DEF AsksOpen
  <1>17. ~c.open /\ end'[e].open => e = "initiator" /\ ~AsksOpen
    <2> SUFFICES ASSUME ~c.open, end'[e].open
                 PROVE  e = "initiator" /\ ~AsksOpen
      OBVIOUS
    <2>1. m.id = OpenId /\ m.id \in c.pending /\ m.kind = "result"
      BY <1>2
    <2>2. ~Ungranted(q)
      BY <1>4, <2>1 DEF Ungranted
    <2> QED BY <1>1, <1>14, <2>1, <2>2 DEF Opening
  <1>18. Opening'
    <2>1. end'["initiator"].asked
      BY <1>1, <1>2, <1>6, <1>13 DEF Opening
    <2>2. OpenId \in end'["initiator"].pending => Unopened("initiator")'
      <3> SUFFICES ASSUME OpenId \in end'["initiator"].pending
                   PROVE  Unopened("initiator")'
        OBVIOUS
      <3>1. Unopened("initiator")
        BY <1>1, <1>6, <1>13 DEF Opening
      <3>2. ~end'["initiator"].open
        <4>1. CASE e = "initiator"
          BY <1>2, <3>1, <4>1 DEF Unopened
        <4>2. CASE p = "initiator"
          BY <1>6, <3>1, <4>2 DEF Unopened
        <4> QED BY <1>13, <4>1, <4>2
      <3> QED BY <1>6, <1>13, <3>1, <3>2 DEF Unopened
    <2>3. AsksOpen' => /\ Unopened("target")' /\ end'["initiator"].made = 0
                       /\ ~end'["initiator"].open /\ Ungranted(net'["initiator"])
      <3> SUFFICES ASSUME AsksOpen
                   PROVE  /\ Unopened("target")' /\ end'["initiator"].made = 0
                          /\ ~end'["initiator"].open /\ Ungranted(net'["initiator"])
        BY <1>16
      <3>1. /\ Unopened("target") /\ end["initiator"].made = 0
            /\ ~end["initiator"].open /\ Ungranted(net["initiator"])
        BY <1>1 DEF Opening
      <3>2. \A x \in Ends : end'[x].open => end[x].open
        BY <1>3, <1>6, <1>17
      <3>3. "initiator" \in Ends /\ "target" \in Ends
        BY DEF Ends
      <3>4. Ungranted(net'["initiator"])
        BY <1>5, <1>8, <1>13, <3>1
      <3> QED BY <1>6, <3>1, <3>2, <3>3, <3>4 DEF Unopened
    <2>4. OpensIn(net'["target"]) /\ ~Asks(net'["initiator"])
      BY <1>1, <1>5, <1>8, <1>13 DEF Opening
    <2>5. OpenId \notin end'["target"].pending
      BY <1>1, <1>6, <1>13 DEF Opening
    <2> QED BY <1>13, <2>1, <2>2, <2>3, <2>4, <2>5 DEF Opening
  <1>19. Faithful'
    <2> SUFFICES ASSUME Faults = {}
                 PROVE  /\ \A x \in Ends : (end[x].open \/ Openable(x))' =>
                             NoGapIn(net[x], Got(x), end[Peer(x)].made)'
                        /\ OpenId \in end'["initiator"].pending =>
                             AsksOpen' \/ AnsweredFirst(net'["initiator"])
      BY DEF Faithful
    <2>1. \A x \in Ends : Openable(x)' => Openable(x)
      BY <1>6, <1>13, <1>16 DEF Openable
    <2>2. ASSUME NEW x \in Ends, (end[x].open \/ Openable(x))'
          PROVE  NoGapIn(net[x], Got(x), end[Peer(x)].made)'
      <3>1. end[x].open \/ Openable(x)
        <4>1. CASE x = p \/ ~end'[x].open
          BY <1>6, <2>1, <2>2, <4>1
        <4>2. CASE x = e /\ end'[x].open
          BY <1>2, <1>14, <4>2 DEF Openable
        <4> QED BY <1>3, <4>1, <4>2
      <3>2. NoGapIn(net[x], Got(x), end[Peer(x)].made)
        BY <3>1 DEF IInv, Faithful
      <3>3. NoGapIn(net'[x], Got(x), end[Peer(x)].made)
        BY <1>3, <1>5, <1>8, <3>2
      <3> QED BY <1>3, <1>6, <3>3
    <2>3. ASSUME OpenId \in end'["initiator"].pending
          PROVE  AsksOpen' \/ AnsweredFirst(net'["initiator"])
      <3>1. AsksOpen \/ AnsweredFirst(net["initiator"])
        BY <1>6, <1>13, <2>3 DEF IInv, Faithful
      <3>2. ASSUME AnsweredFirst(net["initiator"])
            PROVE  AnsweredFirst(net'["initiator"])
        <4>1. CASE e = "initiator"
          BY <1>2, <1>5, <1>8, <2>3, <3>2, <4>1
        <4>2. CASE p = "initiator"
          BY <1>5, <3>2, <4>2
        <4> QED BY <1>13, <4>1, <4>2
      <3> QED BY <1>16, <3>1, <3>2
    <2> QED BY <2>2, <2>3
  <1> QED BY <1>3, <1>9, <1>12, <1>15, <1>18, <1>19 DEF IInv

\* Blocks are sent.
LEMMA SentStep ==
  ASSUME IInv, NEW e \in Ends, end[e].open, NEW s \in Seq(Stanza),
         NextBlocks(s, e, end[e].made),
         net' = [net EXCEPT ![Peer(e)] = @ \o s],
         end' \in [Ends -> EndObject],
         \A x \in Ends : x # e => end'[x] = end[x],
         end'[e].asked = end[e].asked, end'[e].open, end'[e].last = end[e].last,
         end'[e].got = end[e].got, end'[e].acked = end[e].acked,
         OpenId \in end'[e].pending => OpenId \in end[e].pending,
         end'[e].made = end[e].made + Len(s),
         end'[e].sequence = WrapSent(end[e].made + Len(s) - 1)
  PROVE  IInv'
PROOF
  <1> DEFINE p == Peer(e)
             q == net[p]
             r == q \o s
             made == end[e].made
             n == Len(s)
  <1>1. Typed /\ Opening /\ Counted(e) /\ Coming(e) /\ Counted(p) /\ Coming(p)
    BY PeerFacts DEF IInv
  <1>2. p \in Ends /\ p # e /\ Peer(p) = e /\ \A x \in Ends : x = e \/ x = p
    BY PeerFacts
  <1>3. \/ e = "initiator" /\ p = "target"
        \/ e = "target" /\ p = "initiator"
    BY DEF Ends, Peer
  <1>4. net \in [Ends -> Seq(Stanza)] /\ q \in Seq(Stanza) /\ r \in Seq(Stanza)
    BY <1>1, <1>2, AppendFacts DEF Typed
  <1>5. /\ net' \in [Ends -> Seq(Stanza)] /\ net'[p] = r /\ net'[e] = net[e]
        /\ end'[p] = end[p]
    <2> HIDE DEF r
    <2>1. net' = [net EXCEPT ![p] = r]
      BY <1>2, <1>4 DEF r
    <2> QED BY <1>2, <1>4, <2>1
  <1>6. made \in Nat /\ n \in Nat /\ Got(p) \in Nat /\ Got(p) <= made
    BY <1>1, <1>2, ObjectType DEF Counted
  <1>7. /\ BlocksIn(r, e, Got(p), made + n)
        /\ AcksIn(q, end[p].acked, Got(e)) => AcksIn(r, end[p].acked, Got(e))
        /\ OpensIn(q) => OpensIn(r)
        /\ Asks(r) <=> Asks(q)
        /\ Ungranted(q) => Ungranted(r)
        /\ NoGapIn(q, Got(p), made) => NoGapIn(r, Got(p), made + n)
        /\ AnsweredFirst(q) => AnsweredFirst(r)
    <2>1. BlocksIn(q, e, Got(p), made)
      BY <1>1, <1>2 DEF Coming
    <2> DEFINE g == Got(p)
    <2>2. g \in Nat /\ g <= made /\ BlocksIn(q, e, g, made)
      BY <1>6, <2>1
    <2>3. NextBlocks(s, e, made)
      OBVIOUS
    <2> HIDE DEF q, made, g
    <2>4. /\ BlocksIn(q \o s, e, g, made + Len(s))
          /\ \A acked, f : AcksIn(q, acked, f) => AcksIn(q \o s, acked, f)
          /\ OpensIn(q) => OpensIn(q \o s)
          /\ Asks(q \o s) <=> Asks(q)
          /\ Ungranted(q) => Ungranted(q \o s)
          /\ NoGapIn(q, g, made) => NoGapIn(q \o s, g, made + Len(s))
          /\ AnsweredFirst(q) => AnsweredFirst(q \o s)
      BY <1>4, <1>6, <2>2, <2>3, BlocksAdded
    <2> QED BY <2>4 DEF g
  <1> HIDE DEF r, n
  <1>8. Got(e)' = Got(e) /\ Got(p)' = Got(p) /\ end'[e].made = made + n
    BY <1>5 DEF Got, n
  <1>9. Typed'
    BY <1>5 DEF Typed
  <1>10. Counted(e)' /\ Counted(p)'
    <2>1. end'[e].sequence = WrapSent(end'[e].made - 1)
      <3>1. made + Len(s) = end'[e].made /\ made \in Nat /\ Len(s) \in Nat
        BY <1>6, <1>8 DEF n
      <3>2. end'[e].made - 1 = made + Len(s) - 1
        BY <3>1
      <3>3. end'[e].sequence = WrapSent(made + Len(s) - 1)
        OBVIOUS
      <3> QED BY <3>2, <3>3
    <2>2. Counted(e)'
      BY <1>1, <1>2, <1>5, <1>8, <2>1 DEF Counted
    <2>3. Got(p) <= made + n
      BY <1>6
    <2>4. Counted(p)'
      BY <1>1, <1>2, <1>5, <1>8, <2>3 DEF Counted
    <2> QED BY <2>2, <2>4
  <1>11. Coming(e)' /\ Coming(p)'
    BY <1>1, <1>2, <1>5, <1>7, <1>8 DEF Coming
  <1>12. ~AsksOpen /\ (OpenId \in end["initiator"].pending => p = "initiator")
    BY <1>1, <1>3 DEF Opening, Unopened
  <1>13. ~AsksOpen' /\ OpensIn(net'["target"]) /\ ~Asks(net'["initiator"])
    BY <1>1, <1>3, <1>5, <1>7, <1>12 DEF Opening, AsksOpen
  <1>14. OpenId \in end'["initiator"].pending =>
           p = "initiator" /\ OpenId \in end["initiator"].pending
    BY <1>3, <1>5, <1>12
  <1>15. Opening'
    <2>1. end'["initiator"].asked
      BY <1>1, <1>3, <1>5 DEF Opening, Unopened, Ends
    <2>2. OpenId \in end'["initiator"].pending => Unopened("initiator")'
      BY <1>1, <1>5, <1>14 DEF Opening, Unopened
    <2>3. OpenId \notin end'["target"].pending
      BY <1>1, <1>3, <1>5 DEF Opening
    <2> QED BY <1>13, <2>1, <2>2, <2>3 DEF Opening
  <1>16. Faithful'
    <2> SUFFICES ASSUME Faults = {}
                 PROVE  /\ \A x \in Ends : (end[x].open \/ Openable(x))' =>
                             NoGapIn(net[x], Got(x), end[Peer(x)].made)'
                        /\ OpenId \in end'["initiator"].pending =>
                             AsksOpen' \/ AnsweredFirst(net'["initiator"])
      BY DEF Faithful
    <2>1. NoGapIn(net'[e], Got(e)', end'[p].made)
      <3>1. NoGapIn(net[e], Got(e), end[p].made)
        BY DEF IInv, Faithful
      <3> QED BY <1>5, <1>8, <3>1
    <2>2. ASSUME (end[p].open \/ Openable(p))'
          PROVE  NoGapIn(net'[p], Got(p)', end'[e].made)
      <3>1. end[p].open \/ Openable(p)
        BY <1>3, <1>5, <1>13, <1>14, <2>2 DEF Openable
      <3>2. NoGapIn(q, Got(p), made)
        BY <1>2, <3>1 DEF IInv, Faithful
      <3> QED BY <1>5, <1>7, <1>8, <3>2
    <2>3. ASSUME OpenId \in end'["initiator"].pending
          PROVE  AnsweredFirst(net'["initiator"])
      <3>1. AnsweredFirst(net["initiator"]) /\ p = "initiator"
        BY <1>12, <1>14, <2>3 DEF IInv, Faithful
      <3> QED BY <1>5, <1>7, <3>1
    <2>4. ASSUME NEW x \in Ends, (end[x].open \/ Openable(x))'
          PROVE  NoGapIn(net[x], Got(x), end[Peer(x)].made)'
      BY <1>2, <2>1, <2>2, <2>4
    <2> QED BY <2>3, <2>4
  <1> QED BY <1>2, <1>9, <1>10, <1>11, <1>15, <1>16 DEF IInv

\* The blocks of one call follow those before, in block and in number.
LEMMA BlocksType ==
  ASSUME IInv, NEW e \in Ends, NEW n \in Nat, NEW empty \in BOOLEAN
  PROVE  LET b == Blocks(e, n, empty)
         IN /\ b \in Seq(Stanza) /\ Len(b) = n /\ DOMAIN b = 1..n
            /\ \A k \in DOMAIN b :
                 /\ b[k].kind = "data" /\ b[k].from = e
                 /\ b[k].id = <<"data", b[k].block>>
                 /\ b[k].block = end[e].made + k /\ b[k].seq = NumberOf(b[k].block)
                 /\ b[k].empty = empty
            /\ WrapSent(end[e].sequence + n) = WrapSent(end[e].made + n - 1)
PROOF
  <1> DEFINE made == end[e].made
             sequence == end[e].sequence
             b == Blocks(e, n, empty)
  <1>1. made \in Nat /\ sequence = WrapSent(made - 1) /\ made - 1 \in Int
    BY ObjectType DEF IInv, Counted
  <1>2. DOMAIN b = 1..n
    BY DEF Blocks
  <1>3. ASSUME NEW k \in 1..n
        PROVE  /\ b[k] = [kind |-> "data", from |-> e, id |-> <<"data", made + k>>,
                          seq |-> NumberOf(made + k), block |-> made + k,
                          empty |-> empty]
               /\ NumberOf(made + k) \in 0..MaxSeq
    <2>1. b[k] = [kind |-> "data", from |-> e, id |-> <<"data", made + k>>,
                  seq |-> WrapSent(sequence + k - 1) + 1, block |-> made + k,
                  empty |-> empty]
      BY DEF Blocks
    <2> HIDE DEF made, sequence, b
    <2>2. WrapSent(WrapSent(made - 1) + (k - 1)) = WrapSent((made - 1) + (k - 1))
      <3>1. k - 1 \in Nat
        OBVIOUS
      <3> QED BY <1>1, <3>1, WrapOn
    <2> DEFINE a == (made - 1) + (k - 1)
    <2>3. a \in Int /\ a + 2 = made + k
      BY <1>1
    <2>4. WrapSent(a) + 1 = NumberOf(made + k) /\ NumberOf(made + k) \in 0..MaxSeq
      <3> HIDE DEF a
      <3>1. WrapSent(a) + 1 = NumberOf(a + 2) /\ NumberOf(a + 2) \in 0..MaxSeq
        BY <2>3, WrapFacts
      <3> QED BY <2>3, <3>1
    <2>5. sequence + k - 1 = WrapSent(made - 1) + (k - 1)
      <3>1. WrapSent(made - 1) \in -1..(MaxSeq - 1)
        BY <1>1, WrapFacts
      <3> HIDE DEF a
      <3> QED BY <1>1, <3>1, CycleType
    <2> QED BY <2>1, <2>2, <2>4, <2>5
  <1>4. WrapSent(sequence + n) = WrapSent(made + n - 1)
    <2> HIDE DEF made, sequence
    <2>1. WrapSent(WrapSent(made - 1) + n) = WrapSent((made - 1) + n)
      BY <1>1, WrapOn
    <2>2. (made - 1) + n = made + n - 1
      BY <1>1
    <2> QED BY <1>1, <2>1, <2>2
  <1>5. ASSUME NEW k \in 1..n PROVE b[k] \in Stanza
    <2>1. <<"data", made + k>> \in Ids /\ made + k \in Nat
      BY <1>1 DEF Ids
    <2>2. /\ b[k] = [kind |-> "data", from |-> e, id |-> <<"data", made + k>>,
                      seq |-> NumberOf(made + k), block |-> made + k,
                      empty |-> empty]
          /\ NumberOf(made + k) \in 0..MaxSeq
      BY <1>3
    <2> HIDE DEF b, made
    <2> DEFINE id == <<"data", made + k>>
    <2> HIDE DEF id
    <2> QED BY <2>1, <2>2 DEF Stanza, Kinds, id
  <1>6. b \in Seq(Stanza) /\ Len(b) = n
    <2>1. b = [k \in 1..n |-> b[k]]
      BY DEF Blocks
    <2> HIDE DEF b
    <2>2. b \in [1..n -> Stanza]
      BY <1>5, <2>1
    <2> QED BY <1>2, <2>2
  <1>7. \A k \in DOMAIN b :
          /\ b[k].kind = "data" /\ b[k].from = e
          /\ b[k].id = <<"data", b[k].block>>
          /\ b[k].block = made + k /\ b[k].seq = NumberOf(b[k].block)
          /\ b[k].empty = empty
    <2> HIDE DEF b, made
    <2> QED BY <1>2, <1>3
  <1> QED BY <1>2, <1>4, <1>6, <1>7

\* send(), and a message of a target of another kind.
LEMMA SendStep ==
  ASSUME IInv, NEW e \in Ends, Send(e)
  PROVE  IInv'
PROOF
  <1>1. /\ end[e].open
        /\ \E n \in 0..MaxBurst :
             LET b == Blocks(e, IF n = 0 THEN 1 ELSE n, n = 0)
             IN /\ end[e].made + Len(b) <= MaxBlocks
                /\ end' = [end EXCEPT
                             ![e].made = @ + Len(b),
                             ![e].sequence = WrapSent(@ + Len(b)),
                             ![e].pending = @ \cup {b[i].id : i \in DOMAIN b}]
                /\ net' = [net EXCEPT ![Peer(e)] = @ \o b]
    BY DEF Send
  <1>2. PICK burst \in 0..MaxBurst :
          LET b == Blocks(e, IF burst = 0 THEN 1 ELSE burst, burst = 0)
          IN /\ end[e].made + Len(b) <= MaxBlocks
             /\ end' = [end EXCEPT
                          ![e].made = @ + Len(b),
                          ![e].sequence = WrapSent(@ + Len(b)),
                          ![e].pending = @ \cup {b[i].id : i \in DOMAIN b}]
             /\ net' = [net EXCEPT ![Peer(e)] = @ \o b]
    BY <1>1
  <1> DEFINE n == IF burst = 0 THEN 1 ELSE burst
             empty == burst = 0
  <1>0. n \in Nat /\ empty \in BOOLEAN
    OBVIOUS
  <1> DEFINE b == Blocks(e, n, empty)
             c == end[e]
             d == [c EXCEPT !.made = c.made + n,
                            !.sequence = WrapSent(c.made + n - 1),
                            !.pending = c.pending \cup {b[i].id : i \in DOMAIN b}]
  <1>3. /\ b \in Seq(Stanza) /\ Len(b) = n /\ DOMAIN b = 1..n
        /\ NextBlocks(b, e, c.made)
        /\ \A k \in DOMAIN b : b[k].id \in Ids /\ b[k].id # OpenId
        /\ WrapSent(c.sequence + n) = WrapSent(c.made + n - 1)
    <2> HIDE DEF n, empty
    <2>1. /\ b \in Seq(Stanza) /\ Len(b) = n /\ DOMAIN b = 1..n
          /\ \A k \in DOMAIN b :
               /\ b[k].kind = "data" /\ b[k].from = e
               /\ b[k].id = <<"data", b[k].block>>
               /\ b[k].block = c.made + k /\ b[k].seq = NumberOf(b[k].block)
          /\ WrapSent(c.sequence + n) = WrapSent(c.made + n - 1)
      BY SMTT(30), <1>0, BlocksType
    <2> HIDE DEF b, c
    <2>2. \A k \in DOMAIN b : IsBlock(b[k])
      BY <2>1 DEF IsBlock
    <2>3. \A k \in DOMAIN b : b[k].id # OpenId
      BY <2>1 DEF OpenId
    <2>4. \A k \in DOMAIN b : b[k] \in Stanza
      BY <2>1
    <2>5. \A k \in DOMAIN b : b[k].id \in Ids
      BY <2>4 DEF Stanza
    <2> QED BY <2>1, <2>2, <2>3, <2>5 DEF NextBlocks
  <1>4. c \in EndObject /\ end \in [Ends -> EndObject] /\ c.made \in Nat
    BY ObjectType DEF IInv, Typed
  <1>5. /\ end' = [end EXCEPT
                     ![e].made = @ + Len(b),
                     ![e].sequence = WrapSent(@ + Len(b)),
                     ![e].pending = @ \cup {b[i].id : i \in DOMAIN b}]
        /\ net' = [net EXCEPT ![Peer(e)] = @ \o b]
        /\ c.made + n <= MaxBlocks
    BY <1>2, <1>3
  <1> HIDE DEF n, empty
  <1>6. end' = [end EXCEPT ![e] = d]
    <2> HIDE DEF b
    <2> QED BY <1>3, <1>4, <1>5 DEF EndObject
  <1>7. /\ d \in EndObject /\ d.asked = c.asked /\ d.open = c.open
        /\ d.last = c.last /\ d.got = c.got /\ d.acked = c.acked
        /\ d.made = c.made + n /\ d.sequence = WrapSent(c.made + n - 1)
        /\ d.pending = c.pending \cup {b[i].id : i \in DOMAIN b}
    <2>1. {b[i].id : i \in DOMAIN b} \subseteq Ids
      BY <1>3
    <2>2. WrapSent(c.made + n - 1) \in -1..(MaxSeq - 1)
      <3>1. c.made + n - 1 \in Int
        BY <1>4, <1>0
      <3> HIDE DEF c
      <3> QED BY <3>1, WrapFacts
    <2>3. c.made + n \in 0..MaxBlocks
      BY <1>4, <1>5, <1>0
    <2> DEFINE ids == {b[i].id : i \in DOMAIN b}
               w == WrapSent(c.made + n - 1)
               o == c.made + n
    <2>4. d = [c EXCEPT !.made = o, !.sequence = w, !.pending = c.pending \cup ids]
      OBVIOUS
    <2> HIDE DEF ids, w, o, c, d
    <2>5. d \in EndObject /\ d.asked = c.asked /\ d.open = c.open
        /\ d.last = c.last /\ d.got = c.got /\ d.acked = c.acked
        /\ d.made = o /\ d.sequence = w /\ d.pending = c.pending \cup ids
      BY <1>4, <2>1, <2>2, <2>3, <2>4 DEF EndObject, ids, w, o
    <2> QED BY <2>5 DEF ids, w, o
  <1> HIDE DEF d
  <1>8. /\ end' \in [Ends -> EndObject] /\ end'[e] = d
        /\ \A x \in Ends : x # e => end'[x] = end[x]
    BY <1>4, <1>6, <1>7
  <1>9. OpenId \in end'[e].pending => OpenId \in c.pending
    BY <1>3, <1>7, <1>8
  <1> HIDE DEF b
  <1>10. /\ end'[e].asked = end[e].asked /\ end'[e].open
         /\ end'[e].last = end[e].last /\ end'[e].got = end[e].got
         /\ end'[e].acked = end[e].acked
         /\ end'[e].made = end[e].made + Len(b)
         /\ end'[e].sequence = WrapSent(end[e].made + Len(b) - 1)
    BY <1>1, <1>3, <1>7, <1>8
  <1> QED BY <1>1, <1>3, <1>5, <1>8, <1>9, <1>10, SentStep

\* A block in a message.
LEMMA SendMessageStep ==
  ASSUME IInv, SendMessage
  PROVE  IInv'
PROOF
  <1> DEFINE e == "target"
             c == end[e]
             empty == FALSE
             b == [Blocks(e, 1, empty)[1] EXCEPT !.kind = "message"]
             d == [c EXCEPT !.made = c.made + 1, !.sequence = WrapSent(c.made)]
  <1>1. /\ c.open /\ c.made < MaxBlocks /\ e \in Ends /\ Peer(e) = "initiator"
        /\ net' = [net EXCEPT !["initiator"] = Append(@, b)]
        /\ end' = [end EXCEPT ![e].made = @ + 1, ![e].sequence = WrapSent(@ + 1)]
    BY DEF SendMessage, Ends, Peer
  <1>2. c \in EndObject /\ end \in [Ends -> EndObject] /\ c.made \in Nat
    BY <1>1, ObjectType DEF IInv, Typed
  <1>3. /\ Blocks(e, 1, empty)[1] \in Stanza
        /\ Blocks(e, 1, empty)[1].from = e
        /\ Blocks(e, 1, empty)[1].kind = "data"
        /\ Blocks(e, 1, empty)[1].id = <<"data", Blocks(e, 1, empty)[1].block>>
        /\ Blocks(e, 1, empty)[1].block = c.made + 1
        /\ Blocks(e, 1, empty)[1].seq = NumberOf(Blocks(e, 1, empty)[1].block)
        /\ WrapSent(c.sequence + 1) = WrapSent(c.made + 1 - 1)
    <2> DEFINE s == Blocks(e, 1, empty)
               one == 1
    <2>0. empty \in BOOLEAN /\ one \in Nat
      OBVIOUS
    <2> HIDE DEF empty
    <2>1. /\ s \in Seq(Stanza) /\ DOMAIN s = 1..1
          /\ \A k \in DOMAIN s :
               /\ s[k].kind = "data" /\ s[k].from = e
               /\ s[k].id = <<"data", s[k].block>>
               /\ s[k].block = c.made + k /\ s[k].seq = NumberOf(s[k].block)
          /\ WrapSent(c.sequence + 1) = WrapSent(c.made + 1 - 1)
      <3> DEFINE r == Blocks(e, one, empty)
      <3> HIDE DEF one
      <3>1. /\ r \in Seq(Stanza) /\ DOMAIN r = 1..one
            /\ \A k \in DOMAIN r :
               /\ r[k].kind = "data" /\ r[k].from = e
               /\ r[k].id = <<"data", r[k].block>>
               /\ r[k].block = c.made + k /\ r[k].seq = NumberOf(r[k].block)
            /\ WrapSent(c.sequence + one) = WrapSent(c.made + one - 1)
        BY <1>1, <2>0, BlocksType
      <3> QED BY <3>1 DEF one
    <2> HIDE DEF s, c
    <2>2. 1 \in DOMAIN s /\ s[1] \in Stanza
      <3>1. s \in Seq(Stanza) /\ DOMAIN s = 1..1
        BY <2>1
      <3>2. 1 \in DOMAIN s
        BY <3>1
      <3> QED BY <3>1, <3>2
    <2> QED BY <2>1, <2>2 DEF s
  <1>4. /\ b \in Stanza /\ b.kind = "message" /\ b.from = e
        /\ b.id = <<"data", b.block>> /\ b.block = c.made + 1
        /\ b.seq = NumberOf(b.block)
    <2> DEFINE s == Blocks(e, 1, empty)[1]
    <2> HIDE DEF s, c
    <2> QED BY <1>3 DEF Stanza, Kinds, s
  <1> HIDE DEF b
  <1>5. /\ <<b>> \in Seq(Stanza) /\ Len(<<b>>) = 1
        /\ NextBlocks(<<b>>, e, c.made)
    <2> HIDE DEF c
    <2> QED BY <1>4 DEF NextBlocks, IsBlock
  <1>6. net' = [net EXCEPT ![Peer(e)] = @ \o <<b>>]
    <2>1. net["initiator"] \in Seq(Stanza)
      BY DEF IInv, Typed, Ends
    <2>2. Append(net["initiator"], b) = net["initiator"] \o <<b>>
      BY <1>4, <2>1
    <2> QED BY <1>1, <2>2
  <1>7. end' = [end EXCEPT ![e] = d]
    <2>1. c.made + 1 - 1 = c.made
      BY <1>2
    <2> QED BY <1>1, <1>2, <1>3, <2>1 DEF EndObject
  <1>8. /\ d \in EndObject /\ d.asked = c.asked /\ d.open = c.open
        /\ d.last = c.last /\ d.got = c.got /\ d.acked = c.acked
        /\ d.made = c.made + 1 /\ d.sequence = WrapSent(c.made)
        /\ d.pending = c.pending
    <2>1. WrapSent(c.made) \in -1..(MaxSeq - 1)
      <3>1. c.made \in Int
        BY <1>2
      <3> HIDE DEF c
      <3> QED BY <3>1, WrapFacts
    <2>2. c.made + 1 \in 0..MaxBlocks
      <3>1. MaxBlocks \in Nat
        BY IbbAssumption
      <3> QED BY <1>1, <1>2, <3>1
    <2> HIDE DEF c
    <2> QED BY <1>2, <2>1, <2>2 DEF EndObject
  <1> HIDE DEF d
  <1>9. /\ end' \in [Ends -> EndObject] /\ end'[e] = d
        /\ \A x \in Ends : x # e => end'[x] = end[x]
    BY <1>1, <1>2, <1>7, <1>8
  <1>10. c.made + 1 - 1 = c.made
    BY <1>2
  <1>11. /\ end'[e].asked = end[e].asked /\ end'[e].open
         /\ end'[e].last = end[e].last /\ end'[e].got = end[e].got
         /\ end'[e].acked = end[e].acked
         /\ OpenId \in end'[e].pending => OpenId \in end[e].pending
         /\ end'[e].made = end[e].made + Len(<<b>>)
         /\ end'[e].sequence = WrapSent(end[e].made + Len(<<b>>) - 1)
    BY <1>1, <1>5, <1>8, <1>9, <1>10
  <1> QED BY <1>1, <1>5, <1>6, <1>9, <1>11, SentStep

\* connect().
LEMMA ConnectStep ==
  ASSUME IInv, ConnectStream
  PROVE  IInv'
PROOF
  <1> DEFINE e == "initiator"
             p == "target"
             c == end[e]
             r == Request(e, "open")
             d == [c EXCEPT !.asked = TRUE, !.pending = {r.id}]
  <1>1. e \in Ends /\ p \in Ends /\ p # e /\ \A x \in Ends : x = e \/ x = p
    BY DEF Ends
  <1>2. /\ ~c.asked /\ net' = [net EXCEPT ![p] = Append(@, r)]
        /\ end' = [end EXCEPT ![e].asked = TRUE, ![e].pending = {r.id}]
    BY DEF ConnectStream
  <1>3. \A x \in Ends : /\ Unopened(x) /\ end[x].pending = {} /\ net[x] = <<>>
                        /\ ~end[x].open /\ end[x].last = -1 /\ end[x].got = <<>>
                        /\ end[x].made = 0 /\ Got(x) = 0
    BY <1>2 DEF IInv, Opening, Unopened, Got
  <1>4. /\ r = [kind |-> "open", from |-> e, id |-> OpenId,
                seq |-> 0, block |-> 0, empty |-> FALSE]
        /\ r \in Stanza
    <2>1. r = [kind |-> "open", from |-> e, id |-> OpenId,
               seq |-> 0, block |-> 0, empty |-> FALSE]
      BY <1>1, <1>3 DEF Request, OpenId
    <2>2. 0 \in 0..MaxSeq /\ OpenId \in Ids
      BY CycleType DEF Ids
    <2> HIDE DEF r
    <2> QED BY <1>1, <2>1, <2>2 DEF Stanza, Kinds
  <1> HIDE DEF r
  <1>5. c \in EndObject /\ end \in [Ends -> EndObject]
        /\ net \in [Ends -> Seq(Stanza)] /\ Typed
    BY <1>1, ObjectType DEF IInv, Typed
  <1>6. /\ d \in EndObject /\ d.pending = {OpenId} /\ d.asked
        /\ d.open = c.open /\ d.sequence = c.sequence /\ d.last = c.last
        /\ d.made = c.made /\ d.got = c.got /\ d.acked = c.acked
    <2>1. r.id = OpenId /\ OpenId \in Ids
      BY <1>4 DEF Ids
    <2> HIDE DEF c
    <2> QED BY <1>5, <2>1 DEF EndObject
  <1>7. end' \in [Ends -> EndObject] /\ end'[e] = d /\ end'[p] = end[p]
    <2>1. end' = [end EXCEPT ![e] = d]
      BY <1>1, <1>2, <1>5 DEF EndObject
    <2> HIDE DEF d
    <2> QED BY <1>1, <1>5, <1>6, <2>1
  <1> HIDE DEF d
  <1>8. net' \in [Ends -> Seq(Stanza)] /\ net'[e] = <<>> /\ net'[p] = <<r>>
    <2>1. Append(net[p], r) = <<r>>
      <3>1. net[p] = <<>>
        BY <1>1, <1>3
      <3>2. Append(<<>>, r) = <<r>>
        OBVIOUS
      <3> QED BY <3>1, <3>2
    <2>2. <<r>> \in Seq(Stanza)
      BY <1>4
    <2> QED BY <1>1, <1>2, <1>3, <1>5, <2>1, <2>2
  <1>9. \A x \in Ends :
          /\ end'[x].sequence = end[x].sequence /\ end'[x].last = end[x].last
          /\ end'[x].made = end[x].made /\ end'[x].got = end[x].got
          /\ end'[x].acked = end[x].acked /\ end'[x].open = end[x].open
          /\ Got(x)' = Got(x)
    BY <1>1, <1>6, <1>7 DEF Got
  <1>10. Typed'
    BY <1>7, <1>8 DEF Typed
  <1>11. \A x \in Ends : \A i \in DOMAIN net'[x] :
           /\ net'[x][i].kind = "open" /\ i = 1 /\ net'[x][i] = r
           /\ ~IsBlock(net'[x][i]) /\ ~IsAck(net'[x][i])
    BY <1>1, <1>4, <1>8 DEF IsBlock, IsAck
  <1>12. \A x \in Ends : Counted(x)' /\ Coming(x)'
    <2> SUFFICES ASSUME NEW x \in Ends PROVE Counted(x)' /\ Coming(x)'
      OBVIOUS
    <2>1. Counted(x)'
      BY <1>9, PeerFacts DEF IInv, Counted
    <2>2. Coming(x)'
      BY <1>11 DEF Coming, BlocksIn, AcksIn
    <2> QED BY <2>1, <2>2
  <1>13. \A x \in Ends : Unopened(x)'
    BY <1>3, <1>9 DEF Unopened
  <1>14. AsksOpen'
    BY <1>4, <1>8 DEF AsksOpen, Asks, IsOpen
  <1>15. Opening'
    <2>1. OpensIn(net'[p]) /\ ~Asks(net'[e])
      BY <1>1, <1>4, <1>8, <1>11 DEF OpensIn, Asks
    <2>2. Ungranted(net'[e])
      BY <1>8 DEF Ungranted
    <2>3. end'[e].asked /\ end'[p].pending = {} /\ end'[e].made = 0 /\ ~end'[e].open
      BY <1>1, <1>3, <1>6, <1>7
    <2> QED BY <1>1, <1>13, <2>1, <2>2, <2>3 DEF Opening
  <1>16. Faithful'
    <2>1. \A x \in Ends : NoGapIn(net[x], Got(x), end[Peer(x)].made)'
      <3> SUFFICES ASSUME NEW x \in Ends
                   PROVE  NoGapIn(net'[x], Got(x)', end'[Peer(x)].made)
        OBVIOUS
      <3>1. Got(x)' = 0 /\ end'[Peer(x)].made = 0
        BY <1>3, <1>9, PeerFacts
      <3>2. (0 + 1)..0 = {}
        OBVIOUS
      <3> QED BY <3>1, <3>2 DEF NoGapIn
    <2> QED BY <1>14, <2>1 DEF Faithful
  <1> QED BY <1>10, <1>12, <1>15, <1>16 DEF IInv

\* close().
LEMMA CloseStep ==
  ASSUME IInv, NEW e \in Ends, Close(e)
  PROVE  IInv'
PROOF
  <1> DEFINE p == "target"
             c == end[e]
             r == Request(e, "close")
             w == [c EXCEPT !.open = FALSE, !.pending = @ \cup {r.id}]
             d == Tell(w, "close")
             q == net[p]
             s == <<r>>
  <1>1. /\ (c.open \/ c.asked) /\ net' = [net EXCEPT ![p] = Append(@, r)]
        /\ end' = [end EXCEPT ![e] = d] /\ p \in Ends /\ "initiator" \in Ends
    <2>1. end' = [end EXCEPT ![e] = d]
      BY DEF Close
    <2>2. (c.open \/ c.asked) /\ net' = [net EXCEPT ![p] = Append(@, r)]
      BY DEF Close
    <2>3. p \in Ends /\ "initiator" \in Ends
      BY DEF Ends
    <2> HIDE DEF d
    <2> QED BY <2>1, <2>2, <2>3
  <1>2. c \in EndObject /\ end \in [Ends -> EndObject] /\ c.made \in Nat
        /\ net \in [Ends -> Seq(Stanza)] /\ q \in Seq(Stanza) /\ Typed
    BY <1>1, ObjectType DEF IInv, Typed
  <1>3. /\ r \in Stanza /\ r.kind = "close" /\ r.id \in Ids /\ r.id # OpenId
    <2>1. r = [kind |-> "close", from |-> e, id |-> <<"close", c.made>>,
               seq |-> 0, block |-> 0, empty |-> FALSE]
      BY DEF Request
    <2>2. 0 \in 0..MaxSeq /\ <<"close", c.made>> \in Ids
      BY <1>2, CycleType DEF Ids
    <2>3. <<"close", c.made>> # OpenId /\ <<"close", c.made>>[1] = "close"
      BY DEF OpenId
    <2> DEFINE id == <<"close", c.made>>
    <2> HIDE DEF r, id
    <2> QED BY <2>1, <2>2, <2>3 DEF Stanza, Kinds, id
  <1> HIDE DEF r
  <1>4. /\ w \in EndObject /\ w.pending = c.pending \cup {r.id} /\ ~w.open
        /\ w.asked = c.asked /\ w.sequence = c.sequence /\ w.last = c.last
        /\ w.made = c.made /\ w.got = c.got /\ w.acked = c.acked
    <2> HIDE DEF c
    <2> QED BY <1>2, <1>3 DEF EndObject
  <1> HIDE DEF w
  <1>5. /\ d \in EndObject /\ d.pending = c.pending \cup {r.id} /\ ~d.open
        /\ d.asked = c.asked /\ d.sequence = c.sequence /\ d.last = c.last
        /\ d.made = c.made /\ d.got = c.got /\ d.acked = c.acked
    <2>1. d \in EndObject /\ d = [w EXCEPT !.told = Append(w.told, <<"close", w.open>>)]
      BY <1>4, CloseType
    <2> HIDE DEF d, c
    <2> QED BY <1>4, <2>1 DEF EndObject
  <1> HIDE DEF d
  <1>6. /\ end' \in [Ends -> EndObject] /\ end'[e] = d
        /\ \A x \in Ends : x # e => end'[x] = end[x]
    BY <1>1, <1>2, <1>5
  <1>7. /\ net' \in [Ends -> Seq(Stanza)] /\ net'[p] = q \o s
        /\ net'["initiator"] = net["initiator"] /\ s \in Seq(Stanza)
    <2>1. Append(q, r) = q \o s /\ s \in Seq(Stanza) /\ q \o s \in Seq(Stanza)
      BY <1>2, <1>3
    <2> HIDE DEF s
    <2>2. net' = [net EXCEPT ![p] = q \o s]
      BY <1>1, <1>2, <2>1
    <2> QED BY <1>1, <1>2, <2>1, <2>2
  <1>8. /\ \A k \in DOMAIN s : ~IsBlock(s[k]) /\ ~IsOpen(s[k]) /\ ~IsAck(s[k])
        /\ Ungranted(s)
    <2>1. \A k \in DOMAIN s : s[k] = r
      OBVIOUS
    <2> QED BY <1>3, <2>1 DEF IsBlock, IsOpen, IsAck, Ungranted
  <1>9. /\ \A f, got, made :
             BlocksIn(q, f, got, made) => BlocksIn(q \o s, f, got, made)
        /\ \A acked, got : AcksIn(q, acked, got) => AcksIn(q \o s, acked, got)
        /\ OpensIn(q) => OpensIn(q \o s)
        /\ Asks(q \o s) <=> Asks(q)
        /\ \A got, made : NoGapIn(q, got, made) => NoGapIn(q \o s, got, made)
    <2> HIDE DEF q, s
    <2> QED BY <1>2, <1>7, <1>8, QuietKeeps
  <1> HIDE DEF s
  <1>10. \A x \in Ends :
           /\ end'[x].asked = end[x].asked /\ end'[x].sequence = end[x].sequence
           /\ end'[x].last = end[x].last /\ end'[x].made = end[x].made
           /\ end'[x].got = end[x].got /\ end'[x].acked = end[x].acked
           /\ end'[x].open => end[x].open
           /\ OpenId \in end'[x].pending => OpenId \in end[x].pending
           /\ Got(x)' = Got(x)
    BY <1>3, <1>5, <1>6 DEF Got
  <1>11. Typed'
    BY <1>6, <1>7 DEF Typed
  <1>12. \A x \in Ends : x = "initiator" \/ x = p
    BY DEF Ends
  <1>13. ASSUME NEW x \in Ends PROVE Counted(x)' /\ Coming(x)'
    <2>1. Counted(x) /\ Coming(x)
      BY DEF IInv
    <2>2. Counted(x)'
      BY <1>10, <2>1, PeerFacts DEF Counted
    <2>3. /\ BlocksIn(net'[x], Peer(x), Got(x), end[Peer(x)].made)
          /\ AcksIn(net'[x], end[x].acked, Got(Peer(x)))
      BY <1>7, <1>9, <1>12, <2>1 DEF Coming
    <2>4. Coming(x)'
      BY <1>10, <2>3, PeerFacts DEF Coming
    <2> QED BY <2>2, <2>4
  <1>14. AsksOpen' <=> AsksOpen
    BY <1>7, <1>9 DEF AsksOpen
  <1>15. \A x \in Ends : Unopened(x) => Unopened(x)'
    BY <1>10 DEF Unopened
  <1>16. Opening
    BY DEF IInv
  <1>17. end["initiator"].asked
    BY <1>1, <1>16 DEF Opening, Unopened
  <1>18. Opening'
    <2>1. OpensIn(net'["target"]) /\ ~Asks(net'["initiator"])
      BY <1>7, <1>9, <1>16 DEF Opening
    <2>2. end'["initiator"].asked /\ OpenId \notin end'["target"].pending
      BY <1>1, <1>10, <1>16, <1>17 DEF Opening
    <2>3. OpenId \in end'["initiator"].pending => Unopened("initiator")'
      BY <1>1, <1>10, <1>15, <1>16 DEF Opening
    <2>4. AsksOpen' => /\ Unopened("target")' /\ end'["initiator"].made = 0
                       /\ ~end'["initiator"].open /\ Ungranted(net'["initiator"])
      BY <1>1, <1>7, <1>10, <1>14, <1>15, <1>16 DEF Opening
    <2> QED BY <2>1, <2>2, <2>3, <2>4 DEF Opening
  <1>19. Faithful'
    <2> SUFFICES ASSUME Faults = {}
                 PROVE  /\ \A x \in Ends : (end[x].open \/ Openable(x))' =>
                             NoGapIn(net[x], Got(x), end[Peer(x)].made)'
                        /\ OpenId \in end'["initiator"].pending =>
                             AsksOpen' \/ AnsweredFirst(net'["initiator"])
      BY DEF Faithful
    <2>1. ASSUME NEW x \in Ends, (end[x].open \/ Openable(x))'
          PROVE  NoGapIn(net[x], Got(x), end[Peer(x)].made)'
      <3>1. end[x].open \/ Openable(x)
        BY <1>1, <1>10, <1>14, <2>1 DEF Openable
      <3>2. NoGapIn(net[x], Got(x), end[Peer(x)].made)
        BY <3>1 DEF IInv, Faithful
      <3>3. NoGapIn(net'[x], Got(x), end[Peer(x)].made)
        BY <1>7, <1>9, <1>12, <3>2
      <3> QED BY <1>10, <3>3, PeerFacts
    <2>2. ASSUME OpenId \in end'["initiator"].pending
          PROVE  AsksOpen' \/ AnsweredFirst(net'["initiator"])
      BY <1>1, <1>7, <1>10, <1>14, <2>2 DEF IInv, Faithful
    <2> QED BY <2>1, <2>2
  <1> QED BY <1>11, <1>13, <1>18, <1>19 DEF IInv

\* The connection is lost, and with it all that was under way.
LEMMA DropStep ==
  ASSUME IInv, Drop
  PROVE  IInv'
PROOF
  <1>1. /\ Faults # {} /\ net' = [x \in Ends |-> <<>>] /\ end' = end
        /\ \E x \in Ends : net[x] # <<>>
    BY DEF Drop
  <1>2. Typed'
    BY <1>1 DEF IInv, Typed
  <1>3. \A x \in Ends : net'[x] = <<>>
    BY <1>1
  <1>4. \A x \in Ends : Counted(x)'
    BY <1>1 DEF IInv, Counted, Got
  <1>5. \A x \in Ends : Coming(x)'
    BY <1>3 DEF Coming, BlocksIn, AcksIn
  <1>6. "initiator" \in Ends /\ "target" \in Ends
    BY DEF Ends
  <1>7. Opening'
    <2>1. ~AsksOpen' /\ OpensIn(net'["target"]) /\ ~Asks(net'["initiator"])
      BY <1>3, <1>6 DEF AsksOpen, Asks, OpensIn
    <2>2. /\ end["initiator"].asked /\ OpenId \notin end["target"].pending
          /\ OpenId \in end["initiator"].pending => Unopened("initiator")
      BY <1>1 DEF IInv, Opening
    <2> QED BY <1>1, <2>1, <2>2 DEF Opening, Unopened
  <1>8. Faithful'
    BY <1>1 DEF Faithful
  <1> QED BY <1>2, <1>4, <1>5, <1>7, <1>8 DEF IInv

-----------------------------------------------------------------------------
(* The theorems. *)

\* No stanza was sent yet.
LEMMA InitHolds == IbbInit => IInv
PROOF
  <1> SUFFICES ASSUME IbbInit PROVE IInv
    OBVIOUS
  <1> DEFINE o == [asked |-> FALSE, open |-> FALSE, sequence |-> -1, last |-> -1,
                   pending |-> {}, made |-> 0, got |-> <<>>, acked |-> 0,
                   told |-> <<>>]
  <1>1. end = [x \in Ends |-> o] /\ net = [x \in Ends |-> <<>>]
    BY DEF IbbInit
  <1>2. o \in EndObject
    <2>1. -1 \in -1..(MaxSeq - 1) /\ -1 \in -1..MaxSeq /\ 0 \in 0..MaxBlocks
      BY IbbAssumption
    <2> QED BY <2>1 DEF EndObject
  <1>3. \A x \in Ends : end[x] = o /\ net[x] = <<>>
    BY <1>1
  <1>4. Typed
    BY <1>1, <1>2 DEF Typed
  <1>5. \A x \in Ends : /\ ~end[x].asked /\ ~end[x].open /\ end[x].sequence = -1
                        /\ end[x].last = -1 /\ end[x].pending = {}
                        /\ end[x].made = 0 /\ end[x].got = <<>>
                        /\ end[x].acked = 0 /\ Got(x) = 0
    BY <1>3 DEF Got
  <1> HIDE DEF o
  <1>6. \A x \in Ends : Counted(x)
    <2>1. 0 - 1 = -1 /\ 0 <= 0
      OBVIOUS
    <2> QED BY <1>5, <2>1, WrapNone, PeerFacts DEF Counted
  <1>7. \A x \in Ends : Coming(x)
    BY <1>3 DEF Coming, BlocksIn, AcksIn
  <1>8. Opening
    <2>1. ~AsksOpen /\ OpensIn(net["target"]) /\ ~Asks(net["initiator"])
      BY <1>3 DEF AsksOpen, Asks, OpensIn, Ends
    <2> QED BY <1>3, <1>5, <2>1 DEF Opening, Unopened, Ends
  <1>9. Faithful
    <2>1. \A x \in Ends : NoGapIn(net[x], Got(x), end[Peer(x)].made)
      <3>1. (0 + 1)..0 = {}
        OBVIOUS
      <3> QED BY <1>5, <3>1, PeerFacts DEF NoGapIn
    <2> QED BY <1>5, <2>1 DEF Faithful, Ends
  <1> QED BY <1>4, <1>6, <1>7, <1>8, <1>9 DEF IInv

\* Nothing happens.
LEMMA StutterStep ==
  ASSUME IInv, UNCHANGED ibbVars
  PROVE  IInv'
PROOF
  BY DEF ibbVars, IInv, Typed, Counted, Coming, Got, Opening, Unopened, AsksOpen,
         Openable, Faithful

\* Where each block and each acknowledgement is.
THEOREM Invariant == Distinct => (IbbSpec => []IInv)
PROOF
  <1> SUFFICES ASSUME Distinct PROVE IbbSpec => []IInv
    OBVIOUS
  <1>1. ASSUME IInv, [IbbNext]_ibbVars PROVE IInv'
    <2>1. ASSUME NEW e \in Ends, Receive(e) PROVE IInv'
      BY <1>1, <2>1, GrantStep, RefusalStep, DataStep, AnswerStep DEF Receive
    <2>2. ASSUME NEW e \in Ends, Send(e) \/ Close(e) \/ Bounce(e) PROVE IInv'
      BY <1>1, <2>2, SendStep, CloseStep, RefusalStep
    <2>3. ASSUME ConnectStream \/ SendMessage \/ RecvMessage \/ Drop PROVE IInv'
      BY <1>1, <2>3, ConnectStep, SendMessageStep, MessageStep, DropStep
    <2>4. ASSUME UNCHANGED ibbVars PROVE IInv'
      BY <1>1, <2>4, StutterStep
    <2> QED BY <1>1, <2>1, <2>2, <2>3, <2>4 DEF IbbNext
  <1> QED BY <1>1, InitHolds, PTL DEF IbbSpec

\* The handler is given the peer's blocks in order, none twice and none left
\* out in between (inbandbytestream.cpp:194-214), past the wrap of the numbers,
\* and no more blocks are acknowledged than it was given.
THEOREM BlocksTheorem == Distinct => (IbbSpec => []BlocksSound)
PROOF
  <1> SUFFICES ASSUME Distinct PROVE IbbSpec => []BlocksSound
    OBVIOUS
  <1>1. IInv => BlocksSound
    <2> SUFFICES ASSUME IInv PROVE BlocksSound
      OBVIOUS
    <2>1. InOrder /\ AcksSound
      BY DEF IInv, Counted, InOrder, AcksSound, Got
    <2>2. ASSUME NEW e \in Ends
          PROVE  /\ end[e].open \in BOOLEAN
                 /\ end[e].sequence \in -1..(MaxSeq - 1)
                 /\ end[e].last \in -1..(IF end[e].open THEN MaxSeq - 1 ELSE MaxSeq)
                 /\ end[e].made \in 0..MaxBlocks /\ end[e].acked \in 0..MaxBlocks
                 /\ \A i \in DOMAIN net[e] : net[e][i].seq \in 0..MaxSeq
      <3>1. end[e] \in EndObject /\ Counted(e) /\ Typed /\ Counted(Peer(e))
        BY PeerFacts DEF IInv, Typed
      <3>2. /\ end[e].open \in BOOLEAN /\ end[e].sequence \in -1..(MaxSeq - 1)
            /\ end[e].last \in -1..MaxSeq /\ end[e].made \in 0..MaxBlocks
            /\ end[e].acked \in Nat
        BY <3>1 DEF EndObject
      <3>3. /\ Got(Peer(e)) \in Nat /\ end[e].acked <= Got(Peer(e))
            /\ Got(Peer(e)) <= end[e].made
        BY <3>1, PeerFacts, ObjectType DEF Counted
      <3>4. end[e].acked \in 0..MaxBlocks
        <4>1. MaxBlocks \in Nat
          BY IbbAssumption
        <4> QED BY <3>2, <3>3, <4>1
      <3>5. end[e].open => end[e].last \in -1..(MaxSeq - 1)
        <4>1. Got(e) - 1 \in Int
          BY <3>1, ObjectType
        <4>2. WrapSent(Got(e) - 1) \in -1..(MaxSeq - 1)
          BY <4>1, WrapFacts
        <4> QED BY <3>1, <4>2 DEF Counted
      <3>6. \A i \in DOMAIN net[e] : net[e][i].seq \in 0..MaxSeq
        <4>1. net[e] \in Seq(Stanza)
          BY <3>1 DEF Typed
        <4>2. \A i \in DOMAIN net[e] : net[e][i] \in Stanza
          BY <4>1
        <4> QED BY <4>2 DEF Stanza
      <3> QED BY <3>2, <3>4, <3>5, <3>6
    <2>3. IbbTypeOK
      BY <2>2 DEF IbbTypeOK
    <2> QED BY <2>1, <2>3 DEF BlocksSound
  <1> QED BY <1>1, Invariant, PTL

-----------------------------------------------------------------------------
(* Requests and answers. *)

\* Two gloox clients that send no empty blocks and close an open stream only,
\* and a way between them that loses nothing.
Orderly == Faults = {} /\ ~EmptySends /\ ~Messages /\ ~ClosesEarly

\* The first stanza on the way to e is taken: no other is like it.
LEMMA TakenSingle ==
  ASSUME NEW w \in [Ends -> Seq(Stanza)], NEW e \in Ends, w[e] # <<>>
  PROVE  LET v == [w EXCEPT ![e] = Tail(@)]
         IN /\ v \in [Ends -> Seq(Stanza)]
            /\ \A x \in Ends : \A i \in DOMAIN v[x] :
                 \E k \in DOMAIN w[x] : w[x][k] = v[x][i]
            /\ Single(w) => Single(v) /\ Absent(v, e, Head(w[e]))
PROOF
  <1> DEFINE v == [w EXCEPT ![e] = Tail(@)]
             m == Head(w[e])
  <1>1. m = w[e][1] /\ 1 \in DOMAIN w[e] /\ Tail(w[e]) \in Seq(Stanza)
    BY TailFacts
  <1>2. /\ v \in [Ends -> Seq(Stanza)] /\ v[e] = Tail(w[e])
        /\ \A x \in Ends : x # e => v[x] = w[x]
    BY <1>1
  <1> HIDE DEF v, m
  <1>3. ASSUME NEW x \in Ends, NEW i \in DOMAIN v[x]
        PROVE  \/ x = e /\ i \in Nat /\ i + 1 \in DOMAIN w[x] /\ v[x][i] = w[x][i + 1]
                  /\ i + 1 # 1
               \/ x # e /\ i \in DOMAIN w[x] /\ v[x][i] = w[x][i]
    <2>1. CASE x = e
      <3>1. i \in Nat /\ i + 1 \in DOMAIN w[x] /\ v[x][i] = w[x][i + 1] /\ i \in 1..Len(v[x])
        BY <1>2, <1>3, <2>1, TailFacts
      <3> QED BY <2>1, <3>1
    <2>2. CASE x # e
      BY <1>2, <1>3, <2>2
    <2> QED BY <2>1, <2>2
  <1>4. \A x \in Ends : \A i \in DOMAIN v[x] : \E k \in DOMAIN w[x] : w[x][k] = v[x][i]
    BY <1>3
  <1>5. ASSUME Single(w) PROVE Single(v)
    <2> SUFFICES ASSUME NEW x \in Ends, NEW y \in Ends,
                        NEW i \in DOMAIN v[x], NEW j \in DOMAIN v[y],
                        Same(x, v[x][i], y, v[y][j])
                 PROVE  x = y /\ i = j
      BY DEF Single
    <2>1. \A k \in DOMAIN w[x], l \in DOMAIN w[y] :
            Same(x, w[x][k], y, w[y][l]) => x = y /\ k = l
      BY <1>5 DEF Single
    <2>2. x = y
      BY <1>3, <2>1
    <2>3. CASE x = e
      <3>1. /\ i \in Nat /\ i + 1 \in DOMAIN w[x] /\ v[x][i] = w[x][i + 1]
            /\ j \in Nat /\ j + 1 \in DOMAIN w[y] /\ v[y][j] = w[y][j + 1]
        BY <1>3, <2>2, <2>3
      <3>2. i + 1 = j + 1
        BY <2>1, <3>1
      <3> QED BY <2>2, <3>1, <3>2
    <2>4. CASE x # e
      BY <1>3, <2>1, <2>2, <2>4
    <2> QED BY <2>2, <2>3, <2>4
  <1>6. ASSUME Single(w) PROVE Absent(v, e, m)
    <2> SUFFICES ASSUME NEW y \in Ends, NEW j \in DOMAIN v[y], Same(e, m, y, v[y][j])
                 PROVE  FALSE
      BY DEF Absent
    <2>1. \A l \in DOMAIN w[y] : Same(e, m, y, w[y][l]) => e = y /\ 1 = l
      BY <1>1, <1>6 DEF Single, m
    <2> QED BY <1>3, <2>1
  <1> QED BY <1>2, <1>4, <1>5, <1>6 DEF v, m

\* The stanzas s, on their way to f, are like none there.
Unlike(w, f, s) ==
  /\ \A k \in DOMAIN s : Absent(w, f, s[k])
  /\ \A k, l \in DOMAIN s : s[k].id = s[l].id => k = l

\* Stanzas are added that are like none there.
LEMMA AddedSingle ==
  ASSUME NEW w \in [Ends -> Seq(Stanza)], NEW f \in Ends, NEW s \in Seq(Stanza)
  PROVE  LET v == [w EXCEPT ![f] = @ \o s]
         IN /\ v \in [Ends -> Seq(Stanza)]
            /\ \A x \in Ends : \A i \in DOMAIN v[x] :
                 \/ \E k \in DOMAIN w[x] : w[x][k] = v[x][i]
                 \/ x = f /\ \E k \in DOMAIN s : s[k] = v[x][i]
            /\ Single(w) /\ Unlike(w, f, s) => Single(v)
PROOF
  <1> DEFINE v == [w EXCEPT ![f] = @ \o s]
             n == Len(w[f])
  <1>1. /\ v \in [Ends -> Seq(Stanza)] /\ v[f] = w[f] \o s /\ n \in Nat
        /\ \A x \in Ends : x # f => v[x] = w[x]
    <2>1. w[f] \o s \in Seq(Stanza) /\ n \in Nat
      BY AppendFacts
    <2> QED BY <2>1
  <1> HIDE DEF v
  <1>2. ASSUME NEW x \in Ends, NEW i \in DOMAIN v[x]
        PROVE  \/ i \in DOMAIN w[x] /\ v[x][i] = w[x][i]
               \/ /\ x = f /\ i \in Nat /\ i - n \in DOMAIN s
                  /\ v[x][i] = s[i - n]
    <2>1. CASE x = f
      <3> DEFINE q == w[f]
      <3>1. q \in Seq(Stanza) /\ v[x] = q \o s /\ i \in DOMAIN (q \o s)
        BY <1>1, <1>2, <2>1
      <3> HIDE DEF q
      <3>2. \/ i \in DOMAIN q
            \/ /\ i \in Nat /\ i > Len(q) /\ i - Len(q) \in DOMAIN s
               /\ (q \o s)[i] = s[i - Len(q)]
        BY <3>1, AppendFacts
      <3>3. i \in DOMAIN q => (q \o s)[i] = q[i]
        BY <3>1, AppendFacts
      <3> QED BY <2>1, <3>1, <3>2, <3>3 DEF q
    <2>2. CASE x # f
      BY <1>1, <1>2, <2>2
    <2> QED BY <2>1, <2>2
  <1> HIDE DEF n
  <1>3. ASSUME Single(w), \A k \in DOMAIN s : Absent(w, f, s[k]),
               \A k, l \in DOMAIN s : s[k].id = s[l].id => k = l
        PROVE  Single(v)
    <2> SUFFICES ASSUME NEW x \in Ends, NEW y \in Ends,
                        NEW i \in DOMAIN v[x], NEW j \in DOMAIN v[y],
                        Same(x, v[x][i], y, v[y][j])
                 PROVE  x = y /\ i = j
      BY DEF Single
    <2>1. CASE i \in DOMAIN w[x] /\ v[x][i] = w[x][i]
               /\ j \in DOMAIN w[y] /\ v[y][j] = w[y][j]
      BY <1>3, <2>1 DEF Single
    <2>2. CASE i \in DOMAIN w[x] /\ v[x][i] = w[x][i]
               /\ y = f /\ j - n \in DOMAIN s /\ v[y][j] = s[j - n]
      <3>1. Same(f, s[j - n], x, w[x][i])
        BY <2>2 DEF Same
      <3> QED BY <1>3, <2>2, <3>1 DEF Absent
    <2>3. CASE j \in DOMAIN w[y] /\ v[y][j] = w[y][j]
               /\ x = f /\ i - n \in DOMAIN s /\ v[x][i] = s[i - n]
      BY <1>3, <2>3 DEF Absent
    <2>4. CASE /\ x = f /\ i \in Nat /\ i - n \in DOMAIN s /\ v[x][i] = s[i - n]
               /\ y = f /\ j \in Nat /\ j - n \in DOMAIN s /\ v[y][j] = s[j - n]
      <3>1. i - n = j - n
        BY <1>3, <2>4 DEF Same
      <3> QED BY <1>1, <2>4, <3>1 DEF n
    <2> QED BY <1>2, <2>1, <2>2, <2>3, <2>4
  <1>4. Single(w) /\ Unlike(w, f, s) => Single(v)
    BY <1>3 DEF Unlike
  <1>5. \A x \in Ends : \A i \in DOMAIN v[x] :
          \/ \E k \in DOMAIN w[x] : w[x][k] = v[x][i]
          \/ x = f /\ \E k \in DOMAIN s : s[k] = v[x][i]
    BY <1>2
  <1> QED BY <1>1, <1>4, <1>5 DEF v

\* A request is replaced by its one answer.
LEMMA ReplyTracked ==
  ASSUME Typed, Tracked, NEW e \in Ends, net[e] # <<>>,
         NEW kind \in {"result", "error"}, AnswerWith(e, <<kind>>),
         ~IsAnswer(Head(net[e])),
         \A x \in Ends :
           /\ end'[x].pending = end[x].pending /\ end'[x].made = end[x].made
           /\ (end[x].open \/ Openable(x))' => end[x].open \/ Openable(x)
  PROVE  Tracked'
PROOF
  <1> DEFINE m == Head(net[e])
             f == m.from
             v == [net EXCEPT ![e] = Tail(@)]
             a == [kind |-> kind, from |-> e, id |-> m.id,
                   seq |-> 0, block |-> 0, empty |-> FALSE]
             s == <<a>>
  <1>1. /\ m = net[e][1] /\ 1 \in DOMAIN net[e] /\ f \in Ends /\ m.id \in Ids
        /\ net \in [Ends -> Seq(Stanza)]
    BY FirstStanza DEF Typed
  <1>2. /\ v \in [Ends -> Seq(Stanza)]
        /\ \A x \in Ends : \A i \in DOMAIN v[x] :
             \E k \in DOMAIN net[x] : net[x][k] = v[x][i]
        /\ Single(v) /\ Absent(v, e, m)
    <2>1. Single(net) /\ net \in [Ends -> Seq(Stanza)] /\ net[e] # <<>>
      BY <1>1 DEF Tracked
    <2>2. /\ v \in [Ends -> Seq(Stanza)]
          /\ \A x \in Ends : \A i \in DOMAIN v[x] :
               \E k \in DOMAIN net[x] : net[x][k] = v[x][i]
          /\ Single(net) => Single(v) /\ Absent(v, e, m)
      BY <2>1, TakenSingle
    <2> QED BY <2>1, <2>2
  <1>3. net' = [v EXCEPT ![f] = @ \o s]
    <2> DEFINE kinds == <<kind>>
    <2>1. [i \in DOMAIN kinds |->
             [kind |-> kinds[i], from |-> e, id |-> m.id,
              seq |-> 0, block |-> 0, empty |-> FALSE]] = s
      <3>1. DOMAIN kinds = {1} /\ kinds[1] = kind
        OBVIOUS
      <3>2. [i \in {1} |-> [kind |-> kind, from |-> e, id |-> m.id,
              seq |-> 0, block |-> 0, empty |-> FALSE]] = s
        <4> HIDE DEF a
        <4>1. [i \in {1} |-> a] = <<a>>
          OBVIOUS
        <4> QED BY <4>1 DEF a
      <3> HIDE DEF kinds, s
      <3> QED BY <3>1, <3>2
    <2>2. AnswerWith(e, kinds)
      OBVIOUS
    <2> HIDE DEF kinds, s
    <2> QED BY <2>1, <2>2 DEF AnswerWith
  <1>4. /\ a \in Stanza /\ a.kind = kind /\ a.id = m.id /\ a.empty = FALSE
        /\ a.kind # "message"
    <2>1. 0 \in 0..MaxSeq
      BY CycleType
    <2> HIDE DEF m
    <2> QED BY <1>1, <2>1 DEF Stanza, Kinds
  <1>5. Owner(f, a) = f /\ Owner(e, m) = f
    BY <1>4 DEF Owner, IsAnswer
  <1> HIDE DEF a, v, f
  <1>6. s \in Seq(Stanza) /\ DOMAIN s = {1} /\ s[1] = a
    BY <1>4
  <1>7. \A k \in DOMAIN s : Absent(v, f, s[k])
    BY <1>2, <1>4, <1>5, <1>6 DEF Absent, Same
  <1>8. \A k, l \in DOMAIN s : s[k].id = s[l].id => k = l
    BY <1>6
  <1> HIDE DEF s
  <1>9. /\ Single(net')
        /\ \A x \in Ends : \A i \in DOMAIN net'[x] :
             \/ \E k \in DOMAIN v[x] : v[x][k] = net'[x][i]
             \/ x = f /\ \E k \in DOMAIN s : s[k] = net'[x][i]
    <2>1. f \in Ends
      BY <1>1 DEF f
    <2>2. LET r == [v EXCEPT ![f] = @ \o s]
          IN /\ r \in [Ends -> Seq(Stanza)]
             /\ \A x \in Ends : \A i \in DOMAIN r[x] :
                 \/ \E k \in DOMAIN v[x] : v[x][k] = r[x][i]
                 \/ x = f /\ \E k \in DOMAIN s : s[k] = r[x][i]
             /\ Single(v) /\ Unlike(v, f, s) => Single(r)
      BY <1>2, <1>6, <2>1, AddedSingle
    <2>3. Unlike(v, f, s)
      BY <1>7, <1>8 DEF Unlike
    <2> QED BY <1>2, <1>3, <2>2, <2>3
  <1>10. m.id \in end[f].pending
    BY <1>1, <1>5 DEF Tracked, Awaited
  <1>11. Awaited'
    <2> SUFFICES ASSUME NEW x \in Ends, NEW i \in DOMAIN net'[x]
                 PROVE  LET n == net'[x][i]
                        IN /\ n.kind # "message" /\ n.empty = FALSE
                           /\ n.id \in end'[Owner(x, n)].pending
      BY DEF Awaited
    <2> DEFINE n == net'[x][i]
    <2>1. CASE \E k \in DOMAIN net[x] : net[x][k] = n
      <3>1. PICK k \in DOMAIN net[x] : net[x][k] = n
        BY <2>1
      <3>2. Owner(x, n) \in Ends
        <4>1. n \in Stanza
          BY <1>1, <3>1
        <4>2. n.from \in Ends
          BY <4>1 DEF Stanza
        <4> QED BY <4>2 DEF Owner
      <3>3. /\ n.kind # "message" /\ n.empty = FALSE
            /\ n.id \in end[Owner(x, n)].pending
        BY <3>1 DEF Tracked, Awaited
      <3> QED BY <3>2, <3>3
    <2>2. CASE x = f /\ n = a
      BY <1>1, <1>4, <1>5, <1>10, <2>2 DEF f
    <2>3. (\E k \in DOMAIN v[x] : v[x][k] = n) \/ (x = f /\ n = a)
      BY <1>6, <1>9
    <2>4. CASE \E k \in DOMAIN v[x] : v[x][k] = n
      BY <1>2, <2>1, <2>4
    <2> QED BY <2>2, <2>3, <2>4
  <1>12. \A x \in Ends : Numbered(x)'
    BY DEF Tracked, Numbered
  <1> QED BY <1>9, <1>11, <1>12 DEF Tracked

\* An answer is taken: it was the last word on its request.
LEMMA AnswerTracked ==
  ASSUME IInv, Tracked, NEW e \in Ends, RecvAnswer(e)
  PROVE  Tracked'
PROOF
  <1> DEFINE m == Head(net[e])
             v == [net EXCEPT ![e] = Tail(@)]
             c == end[e]
  <1>1. Typed /\ Opening
    BY DEF IInv
  <1>2. /\ IsAnswer(m) /\ net[e] # <<>> /\ net' = v
        /\ \A x \in Ends : x # e => end'[x] = end[x]
        /\ end'[e].made = c.made /\ end'[e].pending = c.pending \ {m.id}
        /\ end'[e].open => c.open \/ (m.id = OpenId /\ m.id \in c.pending)
    BY AnsweredType
  <1>3. net \in [Ends -> Seq(Stanza)]
    BY <1>1 DEF Typed
  <1>4. /\ v \in [Ends -> Seq(Stanza)]
        /\ \A x \in Ends : \A i \in DOMAIN v[x] :
             \E k \in DOMAIN net[x] : net[x][k] = v[x][i]
        /\ Single(v) /\ Absent(v, e, m)
    <2>1. Single(net) /\ net \in [Ends -> Seq(Stanza)] /\ net[e] # <<>>
      BY <1>2, <1>3 DEF Tracked
    <2>2. /\ v \in [Ends -> Seq(Stanza)]
          /\ \A x \in Ends : \A i \in DOMAIN v[x] :
               \E k \in DOMAIN net[x] : net[x][k] = v[x][i]
          /\ Single(net) => Single(v) /\ Absent(v, e, m)
      BY <2>1, TakenSingle
    <2> QED BY <2>1, <2>2
  <1>5. Owner(e, m) = e
    BY <1>2 DEF Owner
  <1> HIDE DEF v, m
  <1>6. Awaited'
    <2> SUFFICES ASSUME NEW x \in Ends, NEW i \in DOMAIN v[x]
                 PROVE  LET n == v[x][i]
                        IN /\ n.kind # "message" /\ n.empty = FALSE
                           /\ n.id \in end'[Owner(x, n)].pending
      BY <1>2 DEF Awaited
    <2> DEFINE n == v[x][i]
    <2>1. PICK k \in DOMAIN net[x] : net[x][k] = n
      BY <1>4
    <2>2. /\ n.kind # "message" /\ n.empty = FALSE
          /\ n.id \in end[Owner(x, n)].pending
      BY <2>1 DEF Tracked, Awaited
    <2>3. Owner(x, n) \in Ends
      <3>1. n \in Stanza
        BY <1>4
      <3>2. n.from \in Ends
        BY <3>1 DEF Stanza
      <3> QED BY <3>2 DEF Owner
    <2>4. ~(Owner(x, n) = e /\ n.id = m.id)
      BY <1>4, <1>5 DEF Absent, Same
    <2> QED BY <1>2, <2>2, <2>3, <2>4
  <1>7. \A x \in Ends : end'[x].pending \subseteq end[x].pending
    BY <1>2
  <1>8. ASSUME NEW x \in Ends, (end[x].open \/ Openable(x))'
        PROVE  end[x].open \/ Openable(x)
    <2>1. AsksOpen' => AsksOpen
      <3>1. "target" \in Ends
        BY DEF Ends
      <3> QED BY <1>2, <1>4, <3>1 DEF AsksOpen, Asks
    <2>2. Openable(x)' => Openable(x)
      BY <1>7, <1>8, <2>1 DEF Openable, Ends
    <2>3. end'[x].open => end[x].open \/ Openable(x)
      <3>1. CASE x = e
        BY <1>1, <1>2, <3>1 DEF Opening, Openable, Ends
      <3>2. CASE x # e
        BY <1>2, <3>2
      <3> QED BY <3>1, <3>2
    <2> QED BY <1>8, <2>2, <2>3
  <1>9. ASSUME NEW x \in Ends PROVE Numbered(x)'
    <2>1. end'[x].made = end[x].made
      BY <1>2
    <2> QED BY <1>7, <1>8, <2>1 DEF Tracked, Numbered
  <1> QED BY <1>2, <1>4, <1>6, <1>9 DEF Tracked

\* What arrives gets its one answer.
LEMMA ReceiveTracked ==
  ASSUME IInv, Tracked, Orderly, NEW e \in Ends, Receive(e)
  PROVE  Tracked'
PROOF
  <1> DEFINE m == Head(net[e])
             c == end[e]
  <1>1. Typed /\ Opening /\ Distinct
    BY DEF IInv, Orderly, Distinct
  <1>2. ASSUME NEW kind \in {"result", "error"}, AnswerWith(e, <<kind>>),
               net[e] # <<>>, ~IsAnswer(m), NEW d, end' = [end EXCEPT ![e] = d],
               d.pending = c.pending, d.made = c.made,
               d.open => c.open \/ Openable(e), ~IsOpen(m) \/ d.open
        PROVE  Tracked'
    <2>1. end \in [Ends -> EndObject]
      BY <1>1 DEF Typed
    <2>2. \A x \in Ends : end'[x] = IF x = e THEN d ELSE end[x]
      BY <1>2, <2>1
    <2>3. AsksOpen' => AsksOpen
      <3> DEFINE kinds == <<kind>>
      <3>1. /\ kinds \in Seq({"result", "error"}) /\ AnswerWith(e, kinds)
            /\ Typed /\ net[e] # <<>>
        BY <1>1, <1>2
      <3> HIDE DEF kinds, m
      <3>2. PICK s \in Seq(Stanza) :
              /\ DOMAIN s = DOMAIN kinds
              /\ \A k \in DOMAIN s : /\ s[k].kind = kinds[k] /\ s[k].from = e
                                     /\ s[k].id = Head(net[e]).id
              /\ net' \in [Ends -> Seq(Stanza)]
              /\ \A x \in Ends : net'[x] = IF x = Head(net[e]).from
                                           THEN Left(e, x) \o s ELSE Left(e, x)
        BY <3>1, AnswerFacts
      <3>3. \A k \in DOMAIN kinds : kinds[k] \in {"result", "error"}
        BY <3>1
      <3>4. \A k \in DOMAIN s : ~IsBlock(s[k]) /\ ~IsOpen(s[k])
        BY <3>2, <3>3 DEF IsBlock, IsOpen
      <3> DEFINE l == Left(e, "target")
                 q == net["target"]
      <3>5. l \in Seq(Stanza) /\ (Asks(l) => Asks(q))
        <4>1. q \in Seq(Stanza)
          BY <1>1 DEF Typed, Ends
        <4>2. CASE e = "target"
          <5>1. l = Tail(q) /\ q # <<>>
            BY <1>2, <4>2 DEF Left
          <5> HIDE DEF l, q
          <5> QED BY <4>1, <5>1, TailFacts, TailKeeps
        <4>3. CASE e # "target"
          BY <4>1, <4>3 DEF Left
        <4> QED BY <4>2, <4>3
      <3>6. Asks(l \o s) <=> Asks(l)
        <4> HIDE DEF l
        <4> QED BY <3>4, <3>5, QuietKeeps
      <3>7. net'["target"] = l \o s \/ net'["target"] = l
        BY <3>2 DEF Ends
      <3> HIDE DEF l
      <3> QED BY <3>5, <3>6, <3>7 DEF AsksOpen
    <2>4. ASSUME NEW x \in Ends, (end[x].open \/ Openable(x))'
          PROVE  end[x].open \/ Openable(x)
      <3>1. Openable(x)' => Openable(x)
        <4>1. "initiator" \in Ends
          BY DEF Ends
        <4>2. end'["initiator"].pending = end["initiator"].pending
          BY <1>2, <2>2, <4>1
        <4> QED BY <2>3, <4>2 DEF Openable
      <3>2. end'[x].open => end[x].open \/ Openable(x)
        BY <1>2, <2>2
      <3> QED BY <2>4, <3>1, <3>2
    <2>5. \A x \in Ends : end'[x].pending = end[x].pending
                          /\ end'[x].made = end[x].made
      BY <1>2, <2>2
    <2> HIDE DEF m
    <2>6. \A x \in Ends :
            /\ end'[x].pending = end[x].pending /\ end'[x].made = end[x].made
            /\ (end[x].open \/ Openable(x))' => end[x].open \/ Openable(x)
      BY <2>4, <2>5
    <2> QED BY <1>1, <1>2, <2>6, ReplyTracked DEF m
  <1>3. c \in EndObject
    BY <1>1, ObjectType
  <1>4. ASSUME NEW y \in EndObject, NEW what \in {"open", "close"}
        PROVE  /\ Tell(y, what).pending = y.pending
               /\ Tell(y, what).made = y.made /\ Tell(y, what).open = y.open
    <2>1. Tell(y, what) = [y EXCEPT !.told = Append(y.told, <<what, y.open>>)]
      BY <1>4, CloseType
    <2> QED BY <2>1 DEF EndObject
  <1>5. \A o \in BOOLEAN : LET y == [c EXCEPT !.open = o]
                           IN /\ y \in EndObject /\ y.pending = c.pending
                              /\ y.made = c.made /\ y.open = o
    <2> HIDE DEF c
    <2> QED BY <1>3 DEF EndObject
  <1>6. CASE RecvOpen(e)
    <2> DEFINE y == [c EXCEPT !.open = TRUE]
               d == Tell(y, "open")
    <2>1. y \in EndObject /\ y.pending = c.pending /\ y.made = c.made /\ y.open = TRUE
      BY <1>5
    <2>2. /\ AnswerWith(e, <<"result">>) /\ net[e] # <<>> /\ m.kind = "open"
          /\ end' = [end EXCEPT ![e] = d]
      BY <1>6 DEF RecvOpen, Arrives
    <2>3. Openable(e)
      <3>1. m = net[e][1] /\ 1 \in DOMAIN net[e]
        BY <1>1, <2>2, FirstStanza
      <3> QED BY <1>1, <2>2, <3>1 DEF Opening, Asks, AsksOpen, IsOpen, Openable, Ends
    <2>4. ~IsAnswer(m)
      BY <2>2 DEF IsAnswer
    <2> HIDE DEF y
    <2>5. d.pending = c.pending /\ d.made = c.made /\ d.open
      BY <1>4, <2>1
    <2> HIDE DEF d, m, c
    <2> QED BY <1>2, <2>2, <2>3, <2>4, <2>5 DEF m, c
  <1>7. CASE RecvUnopened(e)
    <2>1. /\ AnswerWith(e, <<"error">>) /\ net[e] # <<>> /\ m.kind \in {"data", "close"}
          /\ end' = end
      BY <1>7 DEF RecvUnopened, Arrives
    <2>2. end' = [end EXCEPT ![e] = c]
      BY <1>1, <2>1 DEF Typed
    <2>3. ~IsAnswer(m) /\ ~IsOpen(m)
      BY <2>1 DEF IsAnswer, IsOpen
    <2> HIDE DEF m, c
    <2> QED BY <1>2, <2>1, <2>2, <2>3 DEF m, c
  <1>8. CASE RecvCloseRequest(e)
    <2> DEFINE y == [c EXCEPT !.open = FALSE]
               d == Tell(y, "close")
    <2>1. y \in EndObject /\ y.pending = c.pending /\ y.made = c.made /\ y.open = FALSE
      BY <1>5
    <2>2. /\ AnswerWith(e, <<"result">>) /\ net[e] # <<>> /\ m.kind = "close"
          /\ end' = [end EXCEPT ![e] = d]
      BY <1>8 DEF RecvCloseRequest, Arrives, Closed
    <2>3. ~IsAnswer(m) /\ ~IsOpen(m)
      BY <2>2 DEF IsAnswer, IsOpen
    <2> HIDE DEF y
    <2>4. d.pending = c.pending /\ d.made = c.made /\ ~d.open
      BY <1>4, <2>1
    <2> HIDE DEF d, m, c
    <2> QED BY <1>2, <2>2, <2>3, <2>4 DEF m, c
  <1>9. CASE RecvData(e)
    <2> DEFINE d == [c EXCEPT !.last = WrapReceived(c.last + 1),
                              !.got = Append(c.got, m.block)]
    <2>1. /\ AnswerWith(e, <<"result">>) /\ net[e] # <<>> /\ m.kind = "data" /\ c.open
          /\ end' = [end EXCEPT ![e] = d]
      BY <1>9 DEF RecvData, Arrives, Accepted
    <2>2. ~IsAnswer(m) /\ ~IsOpen(m)
      BY <2>1 DEF IsAnswer, IsOpen
    <2>3. d.pending = c.pending /\ d.made = c.made /\ d.open = c.open
      <3> HIDE DEF c, m
      <3> QED BY <1>3 DEF EndObject
    <2> HIDE DEF d, m, c
    <2> QED BY <1>2, <2>1, <2>2, <2>3 DEF m, c
  <1>10. ASSUME net[e] # <<>>, m.kind = "data", c.open
         PROVE  ~OutOfSequence(e) /\ m.empty = FALSE
    <2>1. m = net[e][1] /\ 1 \in DOMAIN net[e]
      BY <1>1, <1>10, FirstStanza
    <2>2. IsBlock(m)
      BY <1>10 DEF IsBlock
    <2>3. m.empty = FALSE
      BY <2>1 DEF Tracked, Awaited
    <2>4. c.last + 1 = m.seq
      BY <1>1, <1>10, <2>2, NextBlock DEF Orderly
    <2> QED BY <2>3, <2>4 DEF OutOfSequence
  <1>11. ~RecvOutOfSequence(e) /\ ~RecvEmpty(e)
    BY <1>10 DEF RecvOutOfSequence, RecvEmpty, Arrives
  <1>12. CASE RecvAnswer(e)
    BY <1>12, AnswerTracked
  <1> QED BY <1>6, <1>7, <1>8, <1>9, <1>11, <1>12 DEF Receive

\* New requests of e are under way to f.
LEMMA RequestsTracked ==
  ASSUME Typed, Tracked, NEW e \in Ends, NEW f \in Ends, NEW s \in Seq(Stanza),
         net' = [net EXCEPT ![f] = @ \o s],
         \A k \in DOMAIN s :
           /\ s[k].from = e /\ ~IsAnswer(s[k]) /\ s[k].kind # "message"
           /\ s[k].empty = FALSE /\ s[k].id \notin end[e].pending
           /\ s[k].id \in end'[e].pending,
         \A k, l \in DOMAIN s : s[k].id = s[l].id => k = l,
         \A x \in Ends : end[x].pending \subseteq end'[x].pending,
         \A x \in Ends : Numbered(x)'
  PROVE  Tracked'
PROOF
  <1>1. net \in [Ends -> Seq(Stanza)]
    BY DEF Typed
  <1>2. \A x \in Ends : \A i \in DOMAIN net[x] : Owner(x, net[x][i]) \in Ends
    <2> SUFFICES ASSUME NEW x \in Ends, NEW i \in DOMAIN net[x]
                 PROVE  Owner(x, net[x][i]) \in Ends
      OBVIOUS
    <2>1. net[x][i] \in Stanza
      BY <1>1
    <2>2. net[x][i].from \in Ends
      BY <2>1 DEF Stanza
    <2> QED BY <2>2 DEF Owner
  <1>3. ASSUME NEW k \in DOMAIN s PROVE Absent(net, f, s[k])
    <2> SUFFICES ASSUME NEW x \in Ends, NEW j \in DOMAIN net[x],
                        Same(f, s[k], x, net[x][j])
                 PROVE  FALSE
      BY DEF Absent
    <2>1. Owner(x, net[x][j]) = e /\ net[x][j].id = s[k].id
      BY <1>3 DEF Same, Owner
    <2>2. net[x][j].id \in end[e].pending
      BY <2>1 DEF Tracked, Awaited
    <2> QED BY <1>3, <2>1, <2>2
  <1>4. Unlike(net, f, s)
    BY <1>3 DEF Unlike
  <1> DEFINE v == [net EXCEPT ![f] = @ \o s]
  <1>5. /\ v \in [Ends -> Seq(Stanza)]
        /\ \A x \in Ends : \A i \in DOMAIN v[x] :
             \/ \E k \in DOMAIN net[x] : net[x][k] = v[x][i]
             \/ x = f /\ \E k \in DOMAIN s : s[k] = v[x][i]
        /\ Single(net) /\ Unlike(net, f, s) => Single(v)
    BY <1>1, AddedSingle
  <1>8. net' = v
    OBVIOUS
  <1> HIDE DEF v
  <1>6. Single(net')
    BY <1>4, <1>5, <1>8 DEF Tracked
  <1>7. Awaited'
    <2> SUFFICES ASSUME NEW x \in Ends, NEW i \in DOMAIN net'[x]
                 PROVE  LET n == net'[x][i]
                        IN /\ n.kind # "message" /\ n.empty = FALSE
                           /\ n.id \in end'[Owner(x, n)].pending
      BY DEF Awaited
    <2> DEFINE n == net'[x][i]
    <2>0. i \in DOMAIN v[x] /\ n = v[x][i]
      BY <1>8
    <2>1. \/ \E k \in DOMAIN net[x] : net[x][k] = n
          \/ x = f /\ \E k \in DOMAIN s : s[k] = n
      <3> HIDE DEF n
      <3> QED BY SMTT(30), <1>5, <2>0
    <2> HIDE DEF n
    <2>2. CASE \E k \in DOMAIN net[x] : net[x][k] = n
      <3>1. PICK k \in DOMAIN net[x] : net[x][k] = n
        BY <2>2
      <3>2. /\ n.kind # "message" /\ n.empty = FALSE
            /\ n.id \in end[Owner(x, n)].pending /\ Owner(x, n) \in Ends
        BY <1>2, <3>1 DEF Tracked, Awaited
      <3> QED BY <3>2 DEF n
    <2>3. CASE \E k \in DOMAIN s : s[k] = n
      <3>1. PICK k \in DOMAIN s : s[k] = n
        BY <2>3
      <3>2. Owner(x, n) = e
        BY <3>1 DEF Owner
      <3> QED BY <3>1, <3>2 DEF n
    <2> QED BY <2>1, <2>2, <2>3 DEF n
  <1> QED BY <1>6, <1>7 DEF Tracked

\* Blocks have ids that were not used.
LEMMA SendTracked ==
  ASSUME IInv, Tracked, Orderly, NEW e \in Ends, Send(e)
  PROVE  Tracked'
PROOF
  <1>1. PICK burst \in 0..MaxBurst :
          /\ EmptySends \/ burst > 0
          /\ LET b == Blocks(e, IF burst = 0 THEN 1 ELSE burst, burst = 0)
             IN /\ end' = [end EXCEPT
                             ![e].made = @ + Len(b),
                             ![e].sequence = WrapSent(@ + Len(b)),
                             ![e].pending = @ \cup {b[i].id : i \in DOMAIN b}]
                /\ net' = [net EXCEPT ![Peer(e)] = @ \o b]
    BY DEF Send
  <1> DEFINE n == IF burst = 0 THEN 1 ELSE burst
             empty == burst = 0
             c == end[e]
             b == Blocks(e, n, empty)
  <1>2. n \in Nat /\ empty = FALSE /\ empty \in BOOLEAN
    BY <1>1 DEF Orderly
  <1>3. /\ end' = [end EXCEPT
                     ![e].made = @ + Len(b),
                     ![e].sequence = WrapSent(@ + Len(b)),
                     ![e].pending = @ \cup {b[i].id : i \in DOMAIN b}]
        /\ net' = [net EXCEPT ![Peer(e)] = @ \o b]
    BY <1>1
  <1> HIDE DEF n, empty
  <1>4. /\ b \in Seq(Stanza) /\ Len(b) = n /\ DOMAIN b = 1..n
        /\ \A k \in DOMAIN b :
             /\ b[k].kind = "data" /\ b[k].from = e
             /\ b[k].id = <<"data", b[k].block>>
             /\ b[k].block = c.made + k /\ b[k].seq = NumberOf(b[k].block)
             /\ b[k].empty = empty
        /\ WrapSent(c.sequence + n) = WrapSent(c.made + n - 1)
    BY <1>2, BlocksType
  <1> HIDE DEF b
  <1>5. c \in EndObject /\ end \in [Ends -> EndObject] /\ c.made \in Nat /\ Typed
    BY ObjectType DEF IInv, Typed
  <1> DEFINE d == [c EXCEPT !.made = @ + Len(b), !.sequence = WrapSent(@ + Len(b)),
                            !.pending = @ \cup {b[i].id : i \in DOMAIN b}]
  <1>6. d.made = c.made + n /\ d.open = c.open
        /\ d.pending = c.pending \cup {b[i].id : i \in DOMAIN b}
    <2> HIDE DEF c
    <2> QED BY <1>4, <1>5 DEF EndObject
  <1>7. end'[e] = d /\ \A x \in Ends : x # e => end'[x] = end[x]
    <2> HIDE DEF b
    <2>1. end' = [end EXCEPT ![e] = d]
      BY <1>3, <1>5 DEF EndObject
    <2> HIDE DEF d
    <2> QED BY <1>5, <2>1
  <1> HIDE DEF d
  <1>8. \A k \in DOMAIN b :
          /\ b[k].id = <<"data", c.made + k>> /\ b[k].from = e /\ ~IsAnswer(b[k])
          /\ b[k].kind # "message" /\ b[k].empty = FALSE
    BY <1>2, <1>4 DEF IsAnswer
  <1>9. ASSUME NEW k \in DOMAIN b PROVE b[k].id \notin c.pending
    <2>1. \A id \in c.pending : id[1] = "data" => id[2] <= c.made
      BY DEF Tracked, Numbered
    <2>2. k \in Nat /\ k > 0
      BY <1>2, <1>4, <1>9
    <2>3. b[k].id[1] = "data" /\ b[k].id[2] = c.made + k
      BY <1>8, <1>9
    <2> QED BY <1>5, <2>1, <2>2, <2>3
  <1>10. \A k, l \in DOMAIN b : b[k].id = b[l].id => k = l
    <2> SUFFICES ASSUME NEW k \in DOMAIN b, NEW l \in DOMAIN b, b[k].id = b[l].id
                 PROVE  k = l
      OBVIOUS
    <2>1. b[k].id[2] = c.made + k /\ b[l].id[2] = c.made + l
      BY <1>8
    <2>2. k \in Nat /\ l \in Nat
      BY <1>2, <1>4
    <2> QED BY <1>5, <2>1, <2>2
  <1>11. \A x \in Ends : end[x].pending \subseteq end'[x].pending
    BY <1>6, <1>7
  <1>12. \A k \in DOMAIN b : b[k].id \in end'[e].pending
    BY <1>6, <1>7
  <1>13. ASSUME NEW x \in Ends PROVE Numbered(x)'
    <2>1. AsksOpen' => AsksOpen
      <3> DEFINE q == net["target"]
      <3>1. q \in Seq(Stanza) /\ "target" \in Ends
        BY <1>5 DEF Typed, Ends
      <3>2. net'["target"] = q \o b \/ net'["target"] = q
        BY <1>3, <1>5, <3>1 DEF Typed
      <3>3. \A k \in DOMAIN b : ~IsOpen(b[k])
        BY <1>4 DEF IsOpen
      <3> HIDE DEF q
      <3>4. Asks(q \o b) => Asks(q)
        <4>1. \A i \in DOMAIN (q \o b) :
                \/ i \in DOMAIN q /\ (q \o b)[i] = q[i]
                \/ i - Len(q) \in DOMAIN b /\ (q \o b)[i] = b[i - Len(q)]
          BY <1>4, <3>1, AppendFacts
        <4> QED BY <3>3, <4>1 DEF Asks
      <3> QED BY <3>2, <3>4 DEF AsksOpen, q
    <2>2. ASSUME NEW id \in end'[x].pending
          PROVE  /\ id[1] = "data" => id[2] <= end'[x].made
                 /\ (end[x].open \/ Openable(x))' => id[1] # "close"
      <3>1. CASE x # e
        <4>1. end'[x] = end[x] /\ id \in end[x].pending
          BY <1>7, <2>2, <3>1
        <4>2. Openable(x)' => Openable(x)
          BY <2>1, <3>1, <4>1 DEF Openable, Ends
        <4> QED BY <4>1, <4>2 DEF Tracked, Numbered
      <3>2. CASE x = e /\ id \in c.pending
        <4>1. /\ id[1] = "data" => id[2] <= c.made
              /\ id[1] # "close"
          BY <3>2 DEF Tracked, Numbered, Send
        <4>2. id[1] = "data" => id[2] \in Nat
          <5>1. id \in Ids
            BY <1>5, <3>2 DEF EndObject
          <5> QED BY <5>1 DEF Ids, OpenId
        <4> QED BY <1>2, <1>5, <1>6, <1>7, <3>2, <4>1, <4>2
      <3>3. CASE x = e /\ \E k \in DOMAIN b : id = b[k].id
        <4>1. PICK k \in DOMAIN b : id = b[k].id
          BY <3>3
        <4>2. id[1] = "data" /\ id[2] = c.made + k /\ k \in 1..n
          BY <1>4, <1>8, <4>1
        <4> QED BY <1>2, <1>5, <1>6, <1>7, <3>3, <4>2
      <3> QED BY <1>6, <1>7, <2>2, <3>1, <3>2, <3>3
    <2> QED BY <2>2 DEF Numbered
  <1>14. Peer(e) \in Ends
    BY PeerFacts
  <1>15. Tracked
    OBVIOUS
  <1> HIDE DEF c
  <1>16. \A k \in DOMAIN b :
           /\ b[k].from = e /\ ~IsAnswer(b[k]) /\ b[k].kind # "message"
           /\ b[k].empty = FALSE /\ b[k].id \notin end[e].pending
           /\ b[k].id \in end'[e].pending
    BY <1>8, <1>9, <1>12 DEF c
  <1> QED BY <1>3, <1>4, <1>5, <1>10, <1>11, <1>13, <1>14, <1>15, <1>16,
             RequestsTracked

\* A request to close is the only one of its end.
LEMMA CloseTracked ==
  ASSUME IInv, Tracked, Orderly, NEW e \in Ends, Close(e)
  PROVE  Tracked'
PROOF
  <1> DEFINE p == "target"
             c == end[e]
             r == Request(e, "close")
             w == [c EXCEPT !.open = FALSE, !.pending = @ \cup {r.id}]
             d == Tell(w, "close")
             s == <<r>>
  <1>1. /\ c.open /\ net' = [net EXCEPT ![p] = Append(@, r)]
        /\ end' = [end EXCEPT ![e] = d] /\ p \in Ends
    <2>1. end' = [end EXCEPT ![e] = d]
      BY DEF Close
    <2>2. c.open /\ net' = [net EXCEPT ![p] = Append(@, r)]
      BY DEF Close, Orderly
    <2>3. p \in Ends
      BY DEF Ends
    <2> HIDE DEF d
    <2> QED BY <2>1, <2>2, <2>3
  <1>2. c \in EndObject /\ end \in [Ends -> EndObject] /\ c.made \in Nat
        /\ net \in [Ends -> Seq(Stanza)] /\ Typed /\ c.pending \subseteq Ids
    BY <1>1, ObjectType DEF IInv, Typed
  <1>3. /\ r \in Stanza /\ r.kind = "close" /\ r.id = <<"close", c.made>>
        /\ r.from = e /\ r.empty = FALSE
    <2>1. r = [kind |-> "close", from |-> e, id |-> <<"close", c.made>>,
               seq |-> 0, block |-> 0, empty |-> FALSE]
      BY DEF Request
    <2>2. 0 \in 0..MaxSeq /\ <<"close", c.made>> \in Ids
      BY <1>2, CycleType DEF Ids
    <2>3. <<"close", c.made>>[1] = "close"
      OBVIOUS
    <2> DEFINE id == <<"close", c.made>>
    <2> HIDE DEF r, id
    <2> QED BY <2>1, <2>2, <2>3 DEF Stanza, Kinds, id
  <1> HIDE DEF r
  <1>4. /\ d.pending = c.pending \cup {r.id} /\ ~d.open /\ d.made = c.made
    <2>1. r.id \in Ids
      BY <1>2, <1>3 DEF Ids
    <2>2. w \in EndObject /\ w.pending = c.pending \cup {r.id} /\ ~w.open
          /\ w.made = c.made
      <3> HIDE DEF c
      <3> QED BY <1>2, <2>1 DEF EndObject
    <2> HIDE DEF w
    <2>3. d \in EndObject /\ d = [w EXCEPT !.told = Append(w.told, <<"close", w.open>>)]
      BY <2>2, CloseType
    <2> HIDE DEF d, c
    <2> QED BY <2>2, <2>3 DEF EndObject
  <1> HIDE DEF d
  <1>5. end'[e] = d /\ \A x \in Ends : x # e => end'[x] = end[x]
    BY <1>1, <1>2
  <1>6. s \in Seq(Stanza) /\ DOMAIN s = {1} /\ s[1] = r
        /\ net' = [net EXCEPT ![p] = @ \o s]
    <2>1. net[p] \in Seq(Stanza)
      BY <1>1, <1>2
    <2>2. Append(net[p], r) = net[p] \o s
      BY <1>3, <2>1
    <2>3. s \in Seq(Stanza) /\ DOMAIN s = {1} /\ s[1] = r
      BY <1>3
    <2> HIDE DEF s
    <2> QED BY <1>1, <2>2, <2>3
  <1> HIDE DEF s
  <1>7. (~AsksOpen /\ OpenId \notin end'["initiator"].pending) \/ e = "target"
    <2>1. e = "initiator" => OpenId \notin c.pending
      BY <1>1 DEF IInv, Opening, Unopened
    <2>2. r.id # OpenId
      BY <1>3 DEF OpenId
    <2>3. e = "initiator" => ~AsksOpen
      BY <1>1 DEF IInv, Opening
    <2> QED BY <1>4, <1>5, <2>1, <2>2, <2>3 DEF Ends
  <1>8. AsksOpen' => AsksOpen
    <2> DEFINE q == net[p]
    <2>1. q \in Seq(Stanza) /\ net'[p] = q \o s
      BY <1>1, <1>2, <1>6
    <2>2. \A k \in DOMAIN s : ~IsOpen(s[k])
      BY <1>3, <1>6 DEF IsOpen
    <2> HIDE DEF q
    <2>3. \A i \in DOMAIN (q \o s) :
            \/ i \in DOMAIN q /\ (q \o s)[i] = q[i]
            \/ i - Len(q) \in DOMAIN s /\ (q \o s)[i] = s[i - Len(q)]
      BY <1>6, <2>1, AppendFacts
    <2> QED BY <2>1, <2>2, <2>3 DEF AsksOpen, Asks, q
  <1>9. ~AsksOpen
    BY <1>1 DEF IInv, Opening, Unopened, Ends
  <1>10. ASSUME NEW x \in Ends PROVE Numbered(x)'
    <2>1. CASE x # e
      <3>1. end'[x] = end[x]
        BY <1>5, <2>1
      <3>2. Openable(x)' => Openable(x)
        BY <1>8, <3>1 DEF Openable, Ends
      <3> QED BY <3>1, <3>2 DEF Tracked, Numbered
    <2>2. CASE x = e
      <3>1. ~end'[e].open /\ ~Openable(e)'
        BY <1>4, <1>5, <1>7, <1>8, <1>9 DEF Openable, Ends
      <3>2. \A id \in c.pending \cup {r.id} : id[1] = "data" => id[2] <= c.made
        <4>1. r.id[1] # "data"
          BY <1>3
        <4> QED BY <4>1 DEF Tracked, Numbered
      <3> QED BY <1>4, <1>5, <2>2, <3>1, <3>2 DEF Numbered
    <2> QED BY <2>1, <2>2
  <1>11. r.id \notin c.pending
    <2>1. r.id[1] = "close"
      BY <1>3
    <2> QED BY <1>1, <2>1 DEF Tracked, Numbered
  <1>12. \A x \in Ends : end[x].pending \subseteq end'[x].pending
    BY <1>4, <1>5
  <1> HIDE DEF c
  <1>13. \A k \in DOMAIN s :
           /\ s[k].from = e /\ ~IsAnswer(s[k]) /\ s[k].kind # "message"
           /\ s[k].empty = FALSE /\ s[k].id \notin end[e].pending
           /\ s[k].id \in end'[e].pending
    BY <1>3, <1>4, <1>5, <1>6, <1>11 DEF IsAnswer, c
  <1>14. \A k, l \in DOMAIN s : s[k].id = s[l].id => k = l
    BY <1>6
  <1> HIDE DEF p
  <1>15. /\ p \in Ends /\ Typed /\ s \in Seq(Stanza)
         /\ net' = [net EXCEPT ![p] = @ \o s]
    BY <1>1, <1>2, <1>6
  <1> QED BY <1>10, <1>12, <1>13, <1>14, <1>15, RequestsTracked

\* The request to open is the first of all.
LEMMA ConnectTracked ==
  ASSUME IInv, Tracked, ConnectStream
  PROVE  Tracked'
PROOF
  <1> DEFINE e == "initiator"
             p == "target"
             r == Request(e, "open")
             s == <<r>>
  <1>1. e \in Ends /\ p \in Ends /\ p # e /\ \A x \in Ends : x = e \/ x = p
    BY DEF Ends
  <1>2. /\ ~end[e].asked /\ net' = [net EXCEPT ![p] = Append(@, r)]
        /\ end' = [end EXCEPT ![e].asked = TRUE, ![e].pending = {r.id}]
    BY DEF ConnectStream
  <1>3. \A x \in Ends : end[x].made = 0 /\ end[x].pending = {}
    BY <1>2 DEF IInv, Opening, Unopened
  <1>4. /\ r \in Stanza /\ r.kind = "open" /\ r.id = OpenId /\ r.from = e
        /\ r.empty = FALSE
    <2>1. r = [kind |-> "open", from |-> e, id |-> OpenId,
               seq |-> 0, block |-> 0, empty |-> FALSE]
      BY <1>1, <1>3 DEF Request, OpenId
    <2>2. 0 \in 0..MaxSeq /\ OpenId \in Ids
      BY CycleType DEF Ids
    <2> HIDE DEF r
    <2> QED BY <1>1, <2>1, <2>2 DEF Stanza, Kinds
  <1> HIDE DEF r
  <1>5. Typed /\ net[p] \in Seq(Stanza) /\ end \in [Ends -> EndObject]
        /\ end[e] \in EndObject
    BY <1>1 DEF IInv, Typed
  <1>6. s \in Seq(Stanza) /\ DOMAIN s = {1} /\ s[1] = r
        /\ net' = [net EXCEPT ![p] = @ \o s]
    <2>1. Append(net[p], r) = net[p] \o s
      BY <1>4, <1>5
    <2>2. s \in Seq(Stanza) /\ DOMAIN s = {1} /\ s[1] = r
      BY <1>4
    <2> HIDE DEF s
    <2> QED BY <1>2, <2>1, <2>2
  <1> HIDE DEF s
  <1>7. end'[e].pending = {OpenId} /\ end'[p] = end[p]
    BY <1>1, <1>2, <1>4, <1>5 DEF EndObject
  <1>8. ASSUME NEW x \in Ends PROVE Numbered(x)'
    <2>1. \A id \in end'[x].pending : id[1] = "open"
      BY <1>1, <1>3, <1>7 DEF OpenId
    <2> QED BY <2>1 DEF Numbered
  <1>9. \A k \in DOMAIN s :
          /\ s[k].from = e /\ ~IsAnswer(s[k]) /\ s[k].kind # "message"
          /\ s[k].empty = FALSE /\ s[k].id \notin end[e].pending
          /\ s[k].id \in end'[e].pending
    BY <1>1, <1>3, <1>4, <1>6, <1>7 DEF IsAnswer
  <1>10. \A k, l \in DOMAIN s : s[k].id = s[l].id => k = l
    BY <1>6
  <1>11. \A x \in Ends : end[x].pending \subseteq end'[x].pending
    BY <1>3
  <1>12. e \in Ends /\ p \in Ends /\ s \in Seq(Stanza)
         /\ net' = [net EXCEPT ![p] = @ \o s] /\ Typed
    BY <1>1, <1>5, <1>6
  <1> HIDE DEF p, e
  <1> QED BY <1>8, <1>9, <1>10, <1>11, <1>12, RequestsTracked

\* Every request that is under way, and every answer, is of a request that is
\* tracked, and there is one of each.
THEOREM TrackedTheorem == Orderly => (IbbSpec => []Tracked)
PROOF
  <1> SUFFICES ASSUME Orderly PROVE IbbSpec => []Tracked
    OBVIOUS
  <1>1. Distinct
    BY DEF Orderly, Distinct
  <1>2. IbbInit => Tracked
    <2> SUFFICES ASSUME IbbInit PROVE Tracked
      OBVIOUS
    <2>1. \A x \in Ends : net[x] = <<>> /\ end[x].pending = {}
      BY DEF IbbInit
    <2> QED BY <2>1 DEF Tracked, Single, Awaited, Numbered
  <1>3. ASSUME IInv, Tracked, [IbbNext]_ibbVars PROVE Tracked'
    <2>1. ASSUME NEW e \in Ends, Receive(e) PROVE Tracked'
      BY <1>3, <2>1, ReceiveTracked
    <2>2. ASSUME NEW e \in Ends, Send(e) PROVE Tracked'
      BY <1>3, <2>2, SendTracked
    <2>3. ASSUME NEW e \in Ends, Close(e) PROVE Tracked'
      BY <1>3, <2>3, CloseTracked
    <2>4. ASSUME ConnectStream PROVE Tracked'
      BY <1>3, <2>4, ConnectTracked
    <2>5. ~SendMessage /\ ~Drop /\ \A e \in Ends : ~Bounce(e)
      BY DEF Orderly, SendMessage, Drop, Bounce
    <2>6. ~RecvMessage
      <3> SUFFICES ASSUME RecvMessage PROVE FALSE
        OBVIOUS
      <3>1. net["initiator"] # <<>> /\ Head(net["initiator"]).kind = "message"
        BY DEF RecvMessage, Arrives
      <3>2. "initiator" \in Ends /\ Typed
        BY <1>3 DEF Ends, IInv
      <3>3. Head(net["initiator"]) = net["initiator"][1] /\ 1 \in DOMAIN net["initiator"]
        BY <3>1, <3>2, FirstStanza
      <3> QED BY <1>3, <3>1, <3>2, <3>3 DEF Tracked, Awaited
    <2>7. ASSUME UNCHANGED ibbVars PROVE Tracked'
      BY <1>3, <2>7 DEF ibbVars, Tracked, Single, Awaited, Numbered, Openable, AsksOpen
    <2> QED BY <1>3, <2>1, <2>2, <2>3, <2>4, <2>5, <2>6, <2>7 DEF IbbNext
  <1> QED BY <1>1, <1>2, <1>3, Invariant, PTL DEF IbbSpec

\* A request gets one answer: "This includes the obligatory 'result' answer.
\* If you return false, an 'error' will be sent back." (iqhandler.h:42-43)
THEOREM AnswersTheorem == Orderly => (IbbSpec => []AnsweredOnce)
PROOF
  <1> SUFFICES ASSUME Orderly PROVE IbbSpec => []AnsweredOnce
    OBVIOUS
  <1>1. Tracked => AnsweredOnce
    BY DEF Tracked, Single, Same, Awaited, Owner, IsAnswer, AnsweredOnce
  <1> QED BY <1>1, TrackedTheorem, PTL

-----------------------------------------------------------------------------
(* The end of the stream. *)

\* The first stanza is taken, others are added: the stanzas that are there.
LEMMA OnFacts ==
  ASSUME NEW q \in Seq(Stanza)
  PROVE  /\ q # <<>> => /\ Head(q) \in On(q) /\ On(Tail(q)) \subseteq On(q)
                        /\ On(q) \subseteq On(Tail(q)) \cup {Head(q)}
         /\ \A s \in Seq(Stanza) : On(q \o s) = On(q) \cup On(s)
         /\ \A i \in DOMAIN q : q[i] \in On(q)
         /\ Asks(q) <=> \E m \in On(q) : IsOpen(m)
PROOF
  <1>1. ASSUME q # <<>>
        PROVE  /\ Head(q) \in On(q) /\ On(Tail(q)) \subseteq On(q)
               /\ On(q) \subseteq On(Tail(q)) \cup {Head(q)}
    <2>1. /\ Head(q) = q[1] /\ 1 \in DOMAIN q
          /\ \A i \in DOMAIN Tail(q) : i + 1 \in DOMAIN q /\ Tail(q)[i] = q[i + 1]
          /\ \A k \in DOMAIN q : k # 1 => /\ k - 1 \in DOMAIN Tail(q)
                                         /\ Tail(q)[k - 1] = q[k]
      BY <1>1, TailFacts
    <2>2. \A i \in DOMAIN Tail(q) : \E k \in DOMAIN q : Tail(q)[i] = q[k]
      BY <2>1
    <2>3. \A k \in DOMAIN q :
            q[k] = Head(q) \/ \E i \in DOMAIN Tail(q) : Tail(q)[i] = q[k]
      BY <2>1
    <2> QED BY <2>1, <2>2, <2>3 DEF On
  <1>2. ASSUME NEW s \in Seq(Stanza) PROVE On(q \o s) = On(q) \cup On(s)
    <2>1. /\ \A i \in DOMAIN q : i \in DOMAIN (q \o s) /\ (q \o s)[i] = q[i]
          /\ \A i \in DOMAIN (q \o s) :
               \/ i \in DOMAIN q /\ (q \o s)[i] = q[i]
               \/ i - Len(q) \in DOMAIN s /\ (q \o s)[i] = s[i - Len(q)]
          /\ \A k \in DOMAIN s : /\ Len(q) + k \in DOMAIN (q \o s)
                                 /\ (q \o s)[Len(q) + k] = s[k]
      BY AppendFacts
    <2> DEFINE r == q \o s
    <2>2. /\ \A i \in DOMAIN q : \E j \in DOMAIN r : r[j] = q[i]
          /\ \A k \in DOMAIN s : \E j \in DOMAIN r : r[j] = s[k]
          /\ \A j \in DOMAIN r : \/ \E i \in DOMAIN q : r[j] = q[i]
                                 \/ \E k \in DOMAIN s : r[j] = s[k]
      BY <2>1
    <2> HIDE DEF r
    <2>3. On(r) = On(q) \cup On(s)
      BY <2>2 DEF On
    <2> QED BY <2>3 DEF r
  <1>3. /\ \A i \in DOMAIN q : q[i] \in On(q)
        /\ Asks(q) <=> \E m \in On(q) : IsOpen(m)
    BY DEF On, Asks
  <1> QED BY <1>1, <1>2, <1>3

\* What a reply leaves on the way to each end.
LEMMA ReplyLeaves ==
  ASSUME Typed, NEW e \in Ends, net[e] # <<>>, ~IsAnswer(Head(net[e])),
         NEW kind \in {"result", "error"}, AnswerWith(e, <<kind>>)
  PROVE  LET m == Head(net[e])
         IN /\ \A x \in Ends :
                 /\ Fails(net'[x]) => Fails(net[x]) \/ (x = m.from /\ kind = "error")
                 /\ Closes(net'[x]) => Closes(net[x])
                 /\ Closes(net[x]) /\ ~(x = e /\ m.kind = "close") => Closes(net'[x])
                 /\ \A n \in On(net'[x]) : n.kind = "close" => n \in On(net[x])
            /\ AsksOpen' => AsksOpen
            /\ AsksOpen /\ ~IsOpen(m) => AsksOpen'
            /\ m \in On(net[e])
PROOF
  <1> DEFINE m == Head(net[e])
             kinds == <<kind>>
  <1>1. /\ kinds \in Seq({"result", "error"}) /\ AnswerWith(e, kinds)
        /\ DOMAIN kinds = {1} /\ kinds[1] = kind
    OBVIOUS
  <1> HIDE DEF kinds
  <1>2. PICK s \in Seq(Stanza) :
          /\ DOMAIN s = DOMAIN kinds
          /\ \A k \in DOMAIN s : /\ s[k].kind = kinds[k] /\ s[k].from = e
                                 /\ s[k].id = Head(net[e]).id
          /\ net' \in [Ends -> Seq(Stanza)]
          /\ \A x \in Ends : net'[x] = IF x = Head(net[e]).from
                                       THEN Left(e, x) \o s ELSE Left(e, x)
    BY <1>1, AnswerFacts
  <1>3. \A n \in On(s) : n.kind = kind
    BY <1>1, <1>2 DEF On
  <1> HIDE DEF m
  <1>4. ASSUME NEW x \in Ends
        PROVE  /\ Left(e, x) \in Seq(Stanza) /\ On(Left(e, x)) \subseteq On(net[x])
               /\ On(net[x]) \subseteq On(Left(e, x)) \cup (IF x = e THEN {m} ELSE {})
    <2>1. net[x] \in Seq(Stanza)
      BY DEF Typed
    <2>2. CASE x = e
      BY <2>1, <2>2, OnFacts, TailFacts DEF Left, m
    <2>3. CASE x # e
      BY <2>1, <2>3 DEF Left
    <2> QED BY <2>2, <2>3
  <1>5. ASSUME NEW x \in Ends
        PROVE  /\ On(net'[x]) \subseteq
                    On(net[x]) \cup (IF x = m.from THEN On(s) ELSE {})
               /\ On(net[x]) \subseteq On(net'[x]) \cup (IF x = e THEN {m} ELSE {})
    <2>1. /\ Left(e, x) \in Seq(Stanza) /\ On(Left(e, x)) \subseteq On(net[x])
          /\ On(net[x]) \subseteq On(Left(e, x)) \cup (IF x = e THEN {m} ELSE {})
      BY <1>4
    <2>2. CASE x = m.from
      <3>1. net'[x] = Left(e, x) \o s
        BY <1>2, <2>2 DEF m
      <3>2. On(net'[x]) = On(Left(e, x)) \cup On(s)
        BY <2>1, <3>1, OnFacts
      <3> QED BY <2>1, <2>2, <3>2
    <2>3. CASE x # m.from
      <3>1. net'[x] = Left(e, x)
        BY <1>2, <2>3 DEF m
      <3> QED BY <2>1, <2>3, <3>1
    <2> QED BY <2>2, <2>3
  <1>6. \A n \in On(s) : n.kind # "close" /\ ~IsOpen(n)
    BY <1>3 DEF IsOpen
  <1>7. ASSUME NEW x \in Ends
        PROVE  /\ Fails(net'[x]) => Fails(net[x]) \/ (x = m.from /\ kind = "error")
               /\ Closes(net'[x]) => Closes(net[x])
               /\ Closes(net[x]) /\ ~(x = e /\ m.kind = "close") => Closes(net'[x])
               /\ \A n \in On(net'[x]) : n.kind = "close" => n \in On(net[x])
    <2>1. \A n \in On(net'[x]) : n \in On(net[x]) \/ (x = m.from /\ n \in On(s))
      BY <1>5
    <2>2. \A n \in On(net[x]) : n \in On(net'[x]) \/ (x = e /\ n = m)
      BY <1>5
    <2>3. Fails(net'[x]) => Fails(net[x]) \/ (x = m.from /\ kind = "error")
      BY <1>3, <2>1 DEF Fails
    <2>4. \A n \in On(net'[x]) : n.kind = "close" => n \in On(net[x])
      BY <1>6, <2>1
    <2>5. Closes(net'[x]) => Closes(net[x])
      BY <2>4 DEF Closes
    <2>6. Closes(net[x]) /\ ~(x = e /\ m.kind = "close") => Closes(net'[x])
      BY <2>2 DEF Closes
    <2> QED BY <2>3, <2>4, <2>5, <2>6
  <1>8. (AsksOpen' => AsksOpen) /\ (AsksOpen /\ ~IsOpen(m) => AsksOpen')
    <2> DEFINE x == "target"
    <2>1. x \in Ends /\ net[x] \in Seq(Stanza) /\ net'[x] \in Seq(Stanza)
      BY <1>2 DEF Ends, Typed
    <2>2. /\ AsksOpen <=> \E n \in On(net[x]) : IsOpen(n)
          /\ AsksOpen' <=> \E n \in On(net'[x]) : IsOpen(n)
      BY <2>1, OnFacts DEF AsksOpen
    <2> HIDE DEF x
    <2>3. /\ \A n \in On(net'[x]) : n \in On(net[x]) \/ n \in On(s)
          /\ \A n \in On(net[x]) : n \in On(net'[x]) \/ n = m
      BY <1>5, <2>1
    <2> QED BY <1>6, <2>2, <2>3
  <1>9. m \in On(net[e])
    <2>1. net[e] \in Seq(Stanza)
      BY DEF Typed
    <2> QED BY <2>1, OnFacts DEF m
  <1> QED BY <1>7, <1>8, <1>9 DEF m

\* What an end is told, and whether it is open then.
LEMMA ToldFacts ==
  ASSUME NEW c \in EndObject
  PROVE  /\ LET d == Tell([c EXCEPT !.open = FALSE], "close")
            IN d.pending = c.pending /\ ~d.open /\ ToldEnd(d)
         /\ LET d == Tell([c EXCEPT !.open = TRUE], "open")
            IN d.pending = c.pending /\ d.open /\ ToldEnd(d)
         /\ LET d == Closed(c)
            IN d.pending = c.pending /\ ~d.open /\ (ToldEnd(c) => ToldEnd(d))
         /\ LET d == Opened(c)
            IN d.pending = c.pending /\ d.open /\ ToldEnd(d)
PROOF
  <1>1. ASSUME NEW y \in EndObject, NEW what \in {"open", "close"}
        PROVE  LET d == Tell(y, what)
               IN /\ d \in EndObject /\ d.pending = y.pending /\ d.open = y.open
                  /\ what = "close" => ToldEnd(d)
    <2> DEFINE d == Tell(y, what)
               w == <<what, y.open>>
    <2>1. d = [y EXCEPT !.told = Append(y.told, w)] /\ d \in EndObject
      BY CloseType
    <2>2. y.told \in Seq({"open", "close"} \X BOOLEAN)
          /\ w \in {"open", "close"} \X BOOLEAN /\ w[1] = what
      BY DEF EndObject
    <2> HIDE DEF w
    <2>3. Last(Append(y.told, w)) = w
      BY <2>2 DEF Last
    <2>4. d.told = Append(y.told, w) /\ d.pending = y.pending /\ d.open = y.open
      <3> HIDE DEF d
      <3> QED BY <2>1 DEF EndObject
    <2> HIDE DEF d
    <2>5. what = "close" => ToldEnd(d)
      BY <2>2, <2>3, <2>4 DEF ToldEnd
    <2> QED BY <2>1, <2>4, <2>5 DEF d
  <1>2. ASSUME NEW y \in EndObject, NEW o \in BOOLEAN
        PROVE  LET z == [y EXCEPT !.open = o]
               IN z \in EndObject /\ z.open = o /\ z.pending = y.pending
    BY DEF EndObject
  <1> DEFINE f == [c EXCEPT !.open = FALSE]
             t == [c EXCEPT !.open = TRUE]
             n == Tell(c, "open")
  <1>3. /\ f \in EndObject /\ f.open = FALSE /\ f.pending = c.pending
        /\ t \in EndObject /\ t.open = TRUE /\ t.pending = c.pending
    BY <1>2
  <1>4. LET z == [n EXCEPT !.open = TRUE]
        IN z.open = TRUE /\ z.pending = c.pending
    <2>1. n \in EndObject /\ n.pending = c.pending
      BY <1>1
    <2> HIDE DEF n
    <2> QED BY <1>2, <2>1
  <1>5. Opened(c) = [n EXCEPT !.open = TRUE]
    BY DEF Opened
  <1> HIDE DEF f, t, n
  <1>6. /\ Tell(f, "close").pending = c.pending /\ ~Tell(f, "close").open
        /\ ToldEnd(Tell(f, "close"))
        /\ Tell(t, "open").pending = c.pending /\ Tell(t, "open").open
    BY <1>1, <1>3
  <1>7. Closed(c) = IF c.open THEN Tell(f, "close") ELSE c
    BY DEF Closed, f
  <1>8. LET d == Closed(c)
        IN d.pending = c.pending /\ ~d.open /\ (ToldEnd(c) => ToldEnd(d))
    BY <1>6, <1>7
  <1>9. \A d : d.open => ToldEnd(d)
    BY DEF ToldEnd
  <1>10. LET d == Opened(c) IN d.pending = c.pending /\ d.open /\ ToldEnd(d)
    BY <1>4, <1>5, <1>9
  <1> QED BY <1>6, <1>8, <1>9, <1>10 DEF f, t

\* When the ends are as they were.
LEMMA ClosingKept ==
  ASSUME Closing,
         \A x \in Ends :
           /\ end'[x].open = end[x].open /\ end'[x].told = end[x].told
           /\ Fails(net'[x]) => Fails(net[x])
           /\ Closes(net'[x]) <=> Closes(net[x])
           /\ \A n \in On(net'[x]) : n.kind = "close" => n \in On(net[x]),
         Waits' <=> Waits, AsksOpen' <=> AsksOpen
  PROVE  Closing'
PROOF
  <1>1. "initiator" \in Ends /\ "target" \in Ends
    BY DEF Ends
  <1>2. \A x \in Ends : ToldEnd(end'[x])
    BY DEF Closing, ToldEnd
  <1>3. \A m \in On(net'["target"]) : m.kind = "close" => m.from = "initiator"
    BY <1>1 DEF Closing
  <1> QED BY <1>1, <1>2, <1>3 DEF Closing

\* Requests to open come from the initiator, which waits, and requests to close
\* are no such; while it waits no blocks come, and nothing is open while it asks.
LEMMA AskingFacts ==
  ASSUME IInv, Tracked, Closing, Orderly
  PROVE  /\ AsksOpen => Waits /\ ~end["target"].open /\ ~end["initiator"].open
         /\ Waits => ~end["initiator"].open
         /\ \A e \in Ends : /\ net[e] # <<>> /\ Head(net[e]).kind \in {"data", "close"}
                            /\ ~end[e].open
              => /\ Head(net[e]).from = Peer(e)
                 /\ e = "initiator" => ~Waits
                 /\ e = "target" => ~AsksOpen
PROOF
  <1>1. "initiator" \in Ends /\ "target" \in Ends /\ Typed /\ Opening
    BY DEF Ends, IInv
  <1>2. Waits => Unopened("initiator")
    BY <1>1 DEF Opening, Waits
  <1>3. AsksOpen => Unopened("target") /\ end["initiator"].made = 0
                    /\ ~end["initiator"].open
    BY <1>1 DEF Opening
  <1>4. AsksOpen => Waits
    <2> SUFFICES ASSUME AsksOpen PROVE Waits
      OBVIOUS
    <2>1. PICK i \in DOMAIN net["target"] : IsOpen(net["target"][i])
      BY DEF AsksOpen, Asks
    <2> DEFINE m == net["target"][i]
    <2>2. m.from = "initiator" /\ m.id = OpenId /\ ~IsAnswer(m)
      BY <1>1, <2>1 DEF Opening, OpensIn, IsOpen, IsAnswer
    <2>3. m.id \in end[Owner("target", m)].pending
      BY <1>1 DEF Tracked, Awaited
    <2> QED BY <2>2, <2>3 DEF Owner, Waits
  <1>5. ASSUME NEW e \in Ends, net[e] # <<>>,
               Head(net[e]).kind \in {"data", "close"}, ~end[e].open
        PROVE  /\ Head(net[e]).from = Peer(e)
               /\ e = "initiator" => ~Waits
               /\ e = "target" => ~AsksOpen
    <2> DEFINE m == Head(net[e])
    <2>1. m = net[e][1] /\ 1 \in DOMAIN net[e] /\ m \in On(net[e])
          /\ net[e] \in Seq(Stanza)
      <3>1. net[e] \in Seq(Stanza)
        BY <1>1 DEF Typed
      <3> QED BY <1>1, <1>5, <3>1, FirstStanza, OnFacts
    <2>2. CASE m.kind = "close"
      <3>1. Closes(net[e])
        BY <2>1, <2>2 DEF Closes
      <3>2. e = "target"
        BY <3>1 DEF Closing, Ends
      <3>3. m.from = "initiator" /\ ~Waits
        BY <2>1, <2>2, <3>1, <3>2 DEF Closing
      <3> QED BY <1>4, <3>2, <3>3 DEF Peer
    <2>3. CASE m.kind = "data"
      <3>1. IsBlock(m)
        BY <2>3 DEF IsBlock
      <3>2. /\ m.from = Peer(e) /\ Got(e) < m.block
            /\ m.block <= end[Peer(e)].made
        BY <2>1, <3>1 DEF IInv, Coming, BlocksIn
      <3>3. end[Peer(e)].made # 0
        <4>1. Got(e) \in Nat /\ m.block \in Nat
          BY <1>1, <1>5, ObjectType, FirstStanza
        <4>2. end[Peer(e)].made \in Nat
          BY <1>1, PeerFacts, ObjectType
        <4> QED BY <3>2, <4>1, <4>2
      <3>4. e = "target" => ~AsksOpen
        BY <1>3, <3>3 DEF Peer
      <3>5. e = "initiator" => ~Waits
        <4> SUFFICES ASSUME e = "initiator", Waits PROVE FALSE
          OBVIOUS
        <4>1. ~AsksOpen
          BY <1>3, <3>3 DEF Unopened, Peer
        <4>2. AnsweredFirst(net[e])
          BY <4>1 DEF IInv, Faithful, Orderly, Waits
        <4>3. PICK j \in DOMAIN net[e] :
                 \A i \in DOMAIN net[e] : IsBlock(net[e][i]) => j < i
          BY <4>2 DEF AnsweredFirst
        <4>4. j < 1 /\ j \in DOMAIN net[e]
          BY <2>1, <3>1, <4>3
        <4> QED BY <2>1, <4>4
      <3> QED BY <3>2, <3>4, <3>5
    <2> QED BY <1>5, <2>2, <2>3
  <1> QED BY <1>2, <1>3, <1>4, <1>5 DEF Unopened

\* What is asked of an end that is not open, or closes it, or opens it.
LEMMA ReceiveClosing ==
  ASSUME IInv, Tracked, Closing, Orderly, NEW e \in Ends,
         RecvOpen(e) \/ RecvUnopened(e) \/ RecvCloseRequest(e) \/ RecvData(e)
  PROVE  Closing'
PROOF
  <1> DEFINE m == Head(net[e])
             c == end[e]
             i == "initiator"
             t == "target"
  <1>1. Typed /\ i \in Ends /\ t \in Ends /\ \A x \in Ends : x = i \/ x = t
    BY DEF IInv, Ends
  <1>2. c \in EndObject /\ end \in [Ends -> EndObject]
    BY <1>1, ObjectType DEF Typed
  <1>3. /\ AsksOpen => Waits /\ ~end[t].open /\ ~end[i].open
        /\ Waits => ~end[i].open
        /\ net[e] # <<>> /\ m.kind \in {"data", "close"} /\ ~c.open
             => /\ m.from = Peer(e)
                /\ e = i => ~Waits
                /\ e = t => ~AsksOpen
    BY AskingFacts
  <1>4. ASSUME NEW kind \in {"result", "error"}, AnswerWith(e, <<kind>>), net[e] # <<>>,
               ~IsAnswer(m)
        PROVE  /\ \A x \in Ends :
                    /\ Fails(net'[x])
                         => Fails(net[x]) \/ (x = m.from /\ kind = "error")
                    /\ Closes(net'[x]) => Closes(net[x])
                    /\ Closes(net[x]) /\ ~(x = e /\ m.kind = "close")
                         => Closes(net'[x])
                    /\ \A n \in On(net'[x]) : n.kind = "close" => n \in On(net[x])
               /\ AsksOpen' => AsksOpen
               /\ AsksOpen /\ ~IsOpen(m) => AsksOpen'
               /\ m \in On(net[e])
    BY <1>1, <1>4, ReplyLeaves
  <1>5. CASE RecvOpen(e)
    <2> DEFINE d == Tell([c EXCEPT !.open = TRUE], "open")
    <2>1. /\ AnswerWith(e, <<"result">>) /\ net[e] # <<>> /\ m.kind = "open"
          /\ end' = [end EXCEPT ![e] = d]
      BY <1>5 DEF RecvOpen, Arrives
    <2>2. ~IsAnswer(m)
      BY <2>1 DEF IsAnswer
    <2>3. /\ \A x \in Ends :
               /\ Fails(net'[x]) => Fails(net[x])
               /\ Closes(net'[x]) => Closes(net[x])
               /\ \A n \in On(net'[x]) : n.kind = "close" => n \in On(net[x])
          /\ AsksOpen' => AsksOpen
      <3>1. "result" \in {"result", "error"}
        OBVIOUS
      <3> HIDE DEF m
      <3> QED BY <1>4, <2>1, <2>2, <3>1
    <2>4. AsksOpen /\ e = t
      <3>1. m = net[e][1] /\ 1 \in DOMAIN net[e]
        BY <1>1, <2>1, FirstStanza
      <3>2. Asks(net[e])
        BY <2>1, <3>1 DEF Asks, IsOpen
      <3> QED BY <1>1, <3>2 DEF IInv, Opening, AsksOpen
    <2>5. d.open /\ ToldEnd(d) /\ d.pending = c.pending
      BY <1>2, ToldFacts
    <2> HIDE DEF d
    <2>6. end'[t] = d /\ end'[i] = end[i]
      BY <1>1, <1>2, <2>1, <2>4
    <2>7. ~AsksOpen'
      <3>1. OpensIn(net[t])
        BY DEF IInv, Opening
      <3>2. m = net[t][1] /\ 1 \in DOMAIN net[t] /\ net[t] \in Seq(Stanza)
            /\ net[t] # <<>>
        BY <1>1, <2>1, <2>4, FirstStanza DEF Typed
      <3>3. m.from = i /\ IsOpen(m)
        BY <2>1, <3>1, <3>2 DEF OpensIn, IsOpen
      <3>4. ~Asks(Tail(net[t]))
        BY <2>4, <3>1, <3>2, <3>3, TailKeeps
      <3>5. net'[t] = Tail(net[t])
        <4> DEFINE kinds == <<"result">>
        <4>1. AnswerWith(e, kinds)
          BY <2>1
        <4> HIDE DEF kinds, t, i
        <4>2. i # t
          BY DEF t, i
        <4> QED BY <1>1, <2>4, <3>3, <4>1, <4>2 DEF AnswerWith, Typed
      <3> QED BY <3>4, <3>5 DEF AsksOpen
    <2>8. Waits' <=> Waits
      BY <2>6 DEF Waits
    <2>9. \A x \in Ends : ToldEnd(end'[x])
      BY <1>1, <2>5, <2>6 DEF Closing
    <2> HIDE DEF m, c
    <2>10. /\ Fails(net'[i]) => FALSE
           /\ Fails(net'[t]) \/ Closes(net'[t]) => FALSE
           /\ ~Closes(net'[i])
           /\ \A n \in On(net'[t]) : n.kind = "close" => n.from = "initiator"
      BY <1>1, <1>3, <2>3, <2>4 DEF Closing
    <2> QED BY <1>3, <2>4, <2>5, <2>6, <2>7, <2>8, <2>9, <2>10 DEF Closing
  <1>6. CASE RecvUnopened(e)
    <2>1. /\ AnswerWith(e, <<"error">>) /\ net[e] # <<>> /\ m.kind \in {"data", "close"}
          /\ end' = end /\ ~c.open
      BY <1>6 DEF RecvUnopened, Arrives
    <2>2. ~IsAnswer(m) /\ ~IsOpen(m)
      BY <2>1 DEF IsAnswer, IsOpen
    <2>3. /\ \A x \in Ends :
               /\ Fails(net'[x]) => Fails(net[x]) \/ x = m.from
               /\ Closes(net'[x]) => Closes(net[x])
               /\ Closes(net[x]) /\ x # e => Closes(net'[x])
               /\ \A n \in On(net'[x]) : n.kind = "close" => n \in On(net[x])
          /\ AsksOpen' <=> AsksOpen
      <3>1. "error" \in {"result", "error"}
        OBVIOUS
      <3> HIDE DEF m
      <3> QED BY <1>4, <2>1, <2>2, <3>1
    <2>4. Waits' <=> Waits
      BY <2>1 DEF Waits
    <2>5. m.from = Peer(e) /\ (e = i => ~Waits) /\ (e = t => ~AsksOpen)
      BY <1>3, <2>1
    <2>6. Peer(i) = t /\ Peer(t) = i
      BY DEF Peer
    <2>7. e = i \/ e = t
      BY <1>1
    <2> HIDE DEF m, i, t
    <2>8. /\ Fails(net'[i]) => ~end[t].open /\ ~AsksOpen
          /\ Fails(net'[t]) => ~end[i].open /\ ~Waits
      <3>1. i # t
        BY DEF i, t
      <3> QED BY <1>1, <2>1, <2>3, <2>5, <2>6, <2>7, <3>1 DEF Closing, i, t
    <2>9. end[t].open => end[i].open \/ Waits \/ Closes(net'[t])
      BY <1>1, <2>1, <2>3, <2>7 DEF Closing, i, t
    <2>10. /\ \A x \in Ends : ToldEnd(end'[x])
           /\ Closes(net'[t]) => ~end[i].open /\ ~Waits
           /\ ~Closes(net'[i])
           /\ \A n \in On(net'[t]) : n.kind = "close" => n.from = "initiator"
      BY <1>1, <2>1, <2>3 DEF Closing, i, t
    <2> QED BY <2>1, <2>3, <2>4, <2>8, <2>9, <2>10 DEF Closing, i, t
  <1>7. CASE RecvCloseRequest(e)
    <2> DEFINE d == Closed(c)
    <2>1. /\ AnswerWith(e, <<"result">>) /\ net[e] # <<>> /\ m.kind = "close"
          /\ end' = [end EXCEPT ![e] = d] /\ c.open
      BY <1>7 DEF RecvCloseRequest, Arrives
    <2>2. ~IsAnswer(m) /\ ~IsOpen(m)
      BY <2>1 DEF IsAnswer, IsOpen
    <2>3. /\ \A x \in Ends :
               /\ Fails(net'[x]) => Fails(net[x])
               /\ Closes(net'[x]) => Closes(net[x])
               /\ \A n \in On(net'[x]) : n.kind = "close" => n \in On(net[x])
          /\ AsksOpen' => AsksOpen
          /\ m \in On(net[e])
      <3>1. "result" \in {"result", "error"}
        OBVIOUS
      <3> HIDE DEF m
      <3> QED BY <1>4, <2>1, <2>2, <3>1
    <2>4. Closes(net[e])
      BY <2>1, <2>3 DEF Closes
    <2>5. e = t /\ ~end[i].open /\ ~Waits
      BY <1>1, <2>4 DEF Closing
    <2>6. ~d.open /\ ToldEnd(d) /\ d.pending = c.pending
      <3>1. ToldEnd(c)
        BY DEF Closing
      <3> QED BY <1>2, <3>1, ToldFacts
    <2> HIDE DEF d
    <2>7. end'[t] = d /\ end'[i] = end[i]
      BY <1>1, <1>2, <2>1, <2>5
    <2>8. Waits' <=> Waits
      BY <2>7 DEF Waits
    <2>9. \A x \in Ends : ToldEnd(end'[x])
      BY <1>1, <2>6, <2>7 DEF Closing
    <2>10. ~AsksOpen'
      BY <1>3, <2>1, <2>3, <2>5
    <2>11. /\ ~Closes(net'[i])
           /\ \A n \in On(net'[t]) : n.kind = "close" => n.from = "initiator"
      BY <1>1, <2>3 DEF Closing
    <2> QED BY <2>5, <2>6, <2>7, <2>8, <2>9, <2>10, <2>11 DEF Closing
  <1>8. CASE RecvData(e)
    <2> DEFINE d == [c EXCEPT !.last = WrapReceived(c.last + 1),
                              !.got = Append(c.got, m.block)]
    <2>1. /\ AnswerWith(e, <<"result">>) /\ net[e] # <<>> /\ m.kind = "data"
          /\ end' = [end EXCEPT ![e] = d]
      BY <1>8 DEF RecvData, Arrives, Accepted
    <2>2. ~IsAnswer(m) /\ ~IsOpen(m)
      BY <2>1 DEF IsAnswer, IsOpen
    <2>3. /\ \A x \in Ends :
               /\ Fails(net'[x]) => Fails(net[x])
               /\ Closes(net'[x]) <=> Closes(net[x])
               /\ \A n \in On(net'[x]) : n.kind = "close" => n \in On(net[x])
          /\ AsksOpen' <=> AsksOpen
      <3>1. "result" \in {"result", "error"}
        OBVIOUS
      <3> HIDE DEF m
      <3> QED BY <1>4, <2>1, <2>2, <3>1
    <2>4. d.open = c.open /\ d.told = c.told /\ d.pending = c.pending
      <3> HIDE DEF c, m
      <3> QED BY <1>2 DEF EndObject
    <2> HIDE DEF d
    <2>5. \A x \in Ends : /\ end'[x].open = end[x].open /\ end'[x].told = end[x].told
                          /\ end'[x].pending = end[x].pending
      BY <1>2, <2>1, <2>4
    <2>6. Waits' <=> Waits
      BY <1>1, <2>5 DEF Waits
    <2> QED BY <2>3, <2>5, <2>6, ClosingKept
  <1> QED BY <1>5, <1>6, <1>7, <1>8

\* An answer: one that refuses is of an end whose peer is not open, and one that
\* grants comes when the target is open.
LEMMA AnswerClosing ==
  ASSUME IInv, Tracked, Closing, Orderly, NEW e \in Ends, RecvAnswer(e)
  PROVE  Closing'
PROOF
  <1> DEFINE m == Head(net[e])
             c == end[e]
             w == [c EXCEPT !.pending = @ \ {m.id}]
             d == Answered(w, m.kind, m.id)
             i == "initiator"
             t == "target"
  <1>1. Typed /\ i \in Ends /\ t \in Ends /\ \A x \in Ends : x = i \/ x = t
    BY DEF IInv, Ends
  <1>2. c \in EndObject /\ end \in [Ends -> EndObject]
        /\ net \in [Ends -> Seq(Stanza)]
    BY <1>1, ObjectType DEF Typed
  <1>3. /\ m.kind \in {"result", "error"} /\ net[e] # <<>>
        /\ net' = [net EXCEPT ![e] = Tail(@)]
        /\ end' = [end EXCEPT ![e] = IF m.id \in c.pending THEN d ELSE w]
    BY DEF RecvAnswer, Arrives
  <1>4. m = net[e][1] /\ 1 \in DOMAIN net[e] /\ m.id \in Ids
    BY <1>1, <1>3, FirstStanza
  <1>5. m.id \in c.pending
    <2>1. Owner(e, m) = e
      BY <1>3 DEF Owner, IsAnswer
    <2> QED BY <1>4, <2>1 DEF Tracked, Awaited
  <1>6. /\ w \in EndObject /\ w.open = c.open /\ w.told = c.told
        /\ w.pending = c.pending \ {m.id}
    <2> HIDE DEF m, c
    <2> QED BY <1>2 DEF EndObject
  <1> HIDE DEF d, w
  <1>7. end'[e] = d /\ \A x \in Ends : x # e => end'[x] = end[x]
    BY <1>2, <1>3, <1>5
  <1>8. /\ \A x \in Ends : On(net'[x]) \subseteq On(net[x])
        /\ m \in On(net[e])
        /\ \A x \in Ends : \A n \in On(net[x]) : n.kind = "close" => n \in On(net'[x])
        /\ AsksOpen' <=> AsksOpen
    <2>1. \A x \in Ends : net'[x] = IF x = e THEN Tail(net[x]) ELSE net[x]
      BY <1>2, <1>3
    <2> HIDE DEF m
    <2>2. ASSUME NEW x \in Ends
          PROVE  /\ On(net'[x]) \subseteq On(net[x])
                 /\ On(net[x]) \subseteq On(net'[x]) \cup {m}
                 /\ net'[x] \in Seq(Stanza) /\ net[x] \in Seq(Stanza)
      <3>1. net[x] \in Seq(Stanza)
        BY <1>2
      <3>2. CASE x = e
        <4>1. net'[x] = Tail(net[x]) /\ net[x] # <<>> /\ m = Head(net[x])
          BY <1>3, <2>1, <3>2 DEF m
        <4> QED BY <3>1, <4>1, OnFacts, TailFacts
      <3>3. CASE x # e
        BY <2>1, <3>1, <3>3
      <3> QED BY <3>2, <3>3
    <2>3. m \in On(net[e])
      BY <1>2, <1>3, OnFacts DEF m
    <2>4. m.kind # "close" /\ ~IsOpen(m)
      BY <1>3 DEF IsOpen
    <2>5. /\ AsksOpen <=> \E n \in On(net[t]) : IsOpen(n)
          /\ AsksOpen' <=> \E n \in On(net'[t]) : IsOpen(n)
      BY <1>1, <2>2, OnFacts DEF AsksOpen
    <2> QED BY <1>1, <2>2, <2>3, <2>4, <2>5
  <1>9. /\ \A x \in Ends : /\ Fails(net'[x]) => Fails(net[x])
                           /\ Closes(net'[x]) <=> Closes(net[x])
                           /\ \A n \in On(net'[x]) : n.kind = "close" => n \in On(net[x])
    BY <1>8 DEF Fails, Closes
  <1>10. Waits' => Waits
    <2>1. d.pending = w.pending
      <3>1. Closed(w).pending = w.pending /\ Opened(w).pending = w.pending
        BY <1>6, ToldFacts
      <3>2. [w EXCEPT !.acked = @ + 1].pending = w.pending
        BY <1>6 DEF EndObject
      <3> QED BY <3>1, <3>2 DEF d, Answered
    <2> QED BY <1>1, <1>6, <1>7, <2>1 DEF Waits
  <1>11. /\ AsksOpen => Waits /\ ~end[t].open /\ ~end[i].open
         /\ Waits => ~end[i].open
    BY AskingFacts
  <1>12. /\ ~Closes(net'[i])
         /\ \A n \in On(net'[t]) : n.kind = "close" => n.from = "initiator"
    BY <1>1, <1>9 DEF Closing
  <1>13. CASE m.kind = "error"
    <2>1. Fails(net[e])
      BY <1>8, <1>13 DEF Fails
    <2>2. d = Closed(w)
      BY <1>5, <1>13 DEF d, Answered
    <2>3. ~d.open /\ (ToldEnd(c) => ToldEnd(d))
      <3>1. ToldEnd(c) => ToldEnd(w)
        BY <1>6 DEF ToldEnd
      <3> QED BY <1>6, <2>2, <3>1, ToldFacts
    <2>4. \A x \in Ends : ToldEnd(end'[x])
      BY <1>7, <2>3 DEF Closing
    <2> HIDE DEF c
    <2>5. CASE e = i
      <3>1. ~end[t].open /\ ~AsksOpen /\ ~Waits
        BY <2>1, <2>5 DEF Closing
      <3>2. end'[t] = end[t] /\ ~end'[i].open
        BY <1>1, <1>7, <2>3, <2>5
      <3> QED BY <1>8, <1>9, <1>10, <1>12, <2>4, <3>1, <3>2 DEF Closing
    <2>6. CASE e = t
      <3>1. ~end[i].open /\ ~Waits
        BY <2>1, <2>6 DEF Closing
      <3>2. end'[i] = end[i] /\ ~end'[t].open
        BY <1>1, <1>7, <2>3, <2>6
      <3> QED BY <1>8, <1>10, <1>11, <1>12, <2>4, <3>1, <3>2 DEF Closing
    <2> QED BY <1>1, <2>5, <2>6
  <1>14. CASE m.kind = "result" /\ m.id[1] = "open"
    <2>1. m.id = OpenId
      BY <1>4, <1>14 DEF Ids
    <2>2. e = i
      BY <1>1, <1>5, <2>1 DEF IInv, Opening
    <2>3. Waits
      BY <1>5, <2>1, <2>2 DEF Waits
    <2>4. ~AsksOpen
      <3>1. ~Ungranted(net[i])
        BY <1>4, <1>14, <2>1, <2>2 DEF Ungranted
      <3> QED BY <3>1 DEF IInv, Opening
    <2>5. end[t].open
      BY <2>3, <2>4 DEF Closing
    <2>6. d = Opened(w)
      BY <1>14 DEF d, Answered
    <2>7. d.open /\ ToldEnd(d) /\ d.pending = w.pending
      BY <1>6, <2>6, ToldFacts
    <2>8. end'[i].open /\ end'[t] = end[t]
      BY <1>1, <1>7, <2>2, <2>7
    <2>9. ~Waits'
      BY <1>6, <1>7, <2>1, <2>2, <2>7 DEF Waits
    <2>10. \A x \in Ends : ToldEnd(end'[x])
      BY <1>7, <2>7 DEF Closing
    <2>11. /\ Fails(net'[i]) => FALSE
           /\ Fails(net'[t]) \/ Closes(net'[t]) => FALSE
      BY <1>1, <1>9, <2>3, <2>5 DEF Closing
    <2> QED BY <1>12, <2>5, <2>8, <2>9, <2>10, <2>11 DEF Closing
  <1>15. CASE m.kind = "result" /\ m.id[1] # "open"
    <2>1. d.open = c.open /\ d.told = c.told /\ d.pending = c.pending \ {m.id}
      <3>1. d = w \/ d = [w EXCEPT !.acked = @ + 1]
        BY <1>15 DEF d, Answered
      <3>2. LET y == [w EXCEPT !.acked = @ + 1]
            IN y.open = w.open /\ y.told = w.told /\ y.pending = w.pending
        BY <1>6 DEF EndObject
      <3> QED BY <1>6, <3>1, <3>2
    <2>2. m.id # OpenId
      BY <1>15 DEF OpenId
    <2>3. \A x \in Ends : end'[x].open = end[x].open /\ end'[x].told = end[x].told
      BY <1>7, <2>1
    <2>4. Waits' <=> Waits
      BY <1>1, <1>7, <2>1, <2>2 DEF Waits
    <2> QED BY <1>8, <1>9, <2>3, <2>4, ClosingKept
  <1> QED BY <1>3, <1>13, <1>14, <1>15

\* More is sent: what is not asked is as it was.
LEMMA SentOn ==
  ASSUME Typed, NEW p \in Ends, NEW s \in Seq(Stanza),
         net' = [net EXCEPT ![p] = @ \o s], \A n \in On(s) : ~IsOpen(n)
  PROVE  /\ \A x \in Ends :
              On(net'[x]) = IF x = p THEN On(net[x]) \cup On(s) ELSE On(net[x])
         /\ AsksOpen' <=> AsksOpen
PROOF
  <1>1. \A x \in Ends : net[x] \in Seq(Stanza) /\ net'[x] \in Seq(Stanza)
                        /\ net'[x] = IF x = p THEN net[x] \o s ELSE net[x]
    <2>1. net \in [Ends -> Seq(Stanza)]
      BY DEF Typed
    <2>2. net[p] \o s \in Seq(Stanza)
      BY <2>1, AppendFacts
    <2> QED BY <2>1, <2>2
  <1>2. \A x \in Ends :
          On(net'[x]) = IF x = p THEN On(net[x]) \cup On(s) ELSE On(net[x])
    <2> SUFFICES ASSUME NEW x \in Ends
                 PROVE  On(net'[x]) = IF x = p THEN On(net[x]) \cup On(s)
                                      ELSE On(net[x])
      OBVIOUS
    <2>1. net[x] \in Seq(Stanza) /\ net'[x] = IF x = p THEN net[x] \o s ELSE net[x]
      BY <1>1
    <2>2. On(net[x] \o s) = On(net[x]) \cup On(s)
      BY <2>1, OnFacts
    <2>3. CASE x = p
      <3>1. net'[x] = net[x] \o s
        BY <2>1, <2>3
      <3> QED BY <2>2, <2>3, <3>1
    <2>4. CASE x # p
      <3>1. net'[x] = net[x]
        BY <2>1, <2>4
      <3> QED BY <2>4, <3>1
    <2> QED BY <2>3, <2>4
  <1>3. /\ AsksOpen <=> \E n \in On(net["target"]) : IsOpen(n)
        /\ AsksOpen' <=> \E n \in On(net'["target"]) : IsOpen(n)
    <2>1. "target" \in Ends
      BY DEF Ends
    <2> QED BY <1>1, <2>1, OnFacts DEF AsksOpen
  <1>4. AsksOpen' <=> AsksOpen
    BY <1>2, <1>3 DEF Ends
  <1> QED BY <1>2, <1>4

\* The application's calls.
LEMMA CallClosing ==
  ASSUME IInv, Tracked, Closing, Orderly, "target" \notin Closers,
         \/ ConnectStream
         \/ \E e \in Ends : Send(e) \/ Close(e)
  PROVE  Closing'
PROOF
  <1> DEFINE i == "initiator"
             t == "target"
  <1>1. Typed /\ i \in Ends /\ t \in Ends /\ \A x \in Ends : x = i \/ x = t
    BY DEF IInv, Ends
  <1>2. end \in [Ends -> EndObject] /\ net \in [Ends -> Seq(Stanza)]
    BY <1>1 DEF Typed
  <1>3. /\ AsksOpen => Waits /\ ~end[t].open /\ ~end[i].open
        /\ Waits => ~end[i].open
    BY AskingFacts
  <1>4. CASE ConnectStream
    <2> DEFINE r == Request(i, "open")
    <2>1. /\ ~end[i].asked /\ net' = [net EXCEPT ![t] = Append(@, r)]
          /\ end' = [end EXCEPT ![i].asked = TRUE, ![i].pending = {r.id}]
      BY <1>4 DEF ConnectStream
    <2>2. \A x \in Ends : ~end[x].open /\ net[x] = <<>>
      BY <2>1 DEF IInv, Opening, Unopened
    <2>3. r.kind = "open"
      BY DEF Request
    <2> HIDE DEF r
    <2>4. \A x \in Ends : end'[x].open = end[x].open /\ end'[x].told = end[x].told
      <3>1. end[i] \in EndObject
        BY <1>1, <1>2
      <3> QED BY <1>1, <1>2, <2>1, <3>1 DEF EndObject
    <2>5. net'[i] = <<>> /\ net'[t] = <<r>>
      <3>1. i # t /\ Append(<<>>, r) = <<r>>
        OBVIOUS
      <3> HIDE DEF i, t
      <3> QED BY <1>1, <1>2, <2>1, <2>2, <3>1
    <2>6. On(net'[i]) = {} /\ On(net'[t]) = {r}
      BY <2>5 DEF On
    <2>7. AsksOpen'
      BY <2>3, <2>5 DEF AsksOpen, Asks, IsOpen
    <2>8. \A x \in Ends : ToldEnd(end'[x])
      BY <2>4 DEF Closing, ToldEnd
    <2>9. ~Fails(net'[i]) /\ ~Closes(net'[i]) /\ ~Fails(net'[t]) /\ ~Closes(net'[t])
      BY <2>3, <2>6 DEF Fails, Closes
    <2>10. ~end'[i].open /\ ~end'[t].open
      BY <1>1, <2>2, <2>4
    <2>11. \A m \in On(net'[t]) : m.kind = "close" => m.from = "initiator"
      BY <2>3, <2>6
    <2> QED BY <2>7, <2>8, <2>9, <2>10, <2>11 DEF Closing
  <1>5. ASSUME NEW e \in Ends, Send(e) PROVE Closing'
    <2>1. PICK burst \in 0..MaxBurst :
            LET b == Blocks(e, IF burst = 0 THEN 1 ELSE burst, burst = 0)
            IN /\ end' = [end EXCEPT
                            ![e].made = @ + Len(b),
                            ![e].sequence = WrapSent(@ + Len(b)),
                            ![e].pending = @ \cup {b[k].id : k \in DOMAIN b}]
               /\ net' = [net EXCEPT ![Peer(e)] = @ \o b]
      BY <1>5 DEF Send
    <2> DEFINE n == IF burst = 0 THEN 1 ELSE burst
               empty == burst = 0
               c == end[e]
               b == Blocks(e, n, empty)
    <2>2. n \in Nat /\ empty \in BOOLEAN
      OBVIOUS
    <2>3. /\ end' = [end EXCEPT
                       ![e].made = @ + Len(b),
                       ![e].sequence = WrapSent(@ + Len(b)),
                       ![e].pending = @ \cup {b[k].id : k \in DOMAIN b}]
          /\ net' = [net EXCEPT ![Peer(e)] = @ \o b]
      BY <2>1
    <2> HIDE DEF n, empty
    <2>4. b \in Seq(Stanza) /\ \A k \in DOMAIN b : b[k].kind = "data"
                                                  /\ b[k].id[1] = "data"
      BY <2>2, BlocksType, <1>5
    <2> HIDE DEF b
    <2>5. /\ end'[e].open = c.open /\ end'[e].told = c.told
          /\ end'[e].pending = c.pending \cup {b[k].id : k \in DOMAIN b}
      <3>1. c \in EndObject
        BY <1>2
      <3>2. end'[e] = [c EXCEPT !.made = @ + Len(b),
                                !.sequence = WrapSent(@ + Len(b)),
                                !.pending = @ \cup {b[k].id : k \in DOMAIN b}]
        BY <1>2, <2>3, <3>1 DEF EndObject
      <3> HIDE DEF c
      <3> QED BY <3>1, <3>2 DEF EndObject
    <2>6. \A x \in Ends : x # e => end'[x] = end[x]
      BY <1>2, <2>3
    <2>7. \A m \in On(b) : ~IsOpen(m) /\ m.kind # "close" /\ m.kind # "error"
      BY <2>4 DEF On, IsOpen
    <2>8. /\ \A x \in Ends : On(net'[x]) = IF x = Peer(e) THEN On(net[x]) \cup On(b)
                                           ELSE On(net[x])
          /\ AsksOpen' <=> AsksOpen
      BY <1>1, <2>3, <2>4, <2>7, PeerFacts, SentOn
    <2>9. \A x \in Ends : /\ Fails(net'[x]) => Fails(net[x])
                          /\ Closes(net'[x]) <=> Closes(net[x])
                          /\ \A m \in On(net'[x]) : m.kind = "close" => m \in On(net[x])
      BY <2>7, <2>8 DEF Fails, Closes
    <2>10. Waits' <=> Waits
      <3>1. \A k \in DOMAIN b : b[k].id # OpenId
        BY <2>4 DEF OpenId
      <3> QED BY <1>1, <2>5, <2>6, <3>1 DEF Waits
    <2>11. \A x \in Ends : end'[x].open = end[x].open /\ end'[x].told = end[x].told
      BY <2>5, <2>6
    <2> QED BY <2>8, <2>9, <2>10, <2>11, ClosingKept
  <1>6. ASSUME NEW e \in Ends, Close(e) PROVE Closing'
    <2>1. e = i /\ end[i].open
      BY <1>1, <1>6 DEF Close, Orderly
    <2> DEFINE c == end[i]
               r == Request(i, "close")
               w == [c EXCEPT !.pending = @ \cup {r.id}]
               y == [c EXCEPT !.open = FALSE, !.pending = @ \cup {r.id}]
               d == Tell(y, "close")
               s == <<r>>
    <2>2. end' = [end EXCEPT ![i] = d] /\ net' = [net EXCEPT ![t] = Append(@, r)]
      BY <1>6, <2>1 DEF Close
    <2>3. r.kind = "close" /\ r.from = i /\ r.id = <<"close", c.made>> /\ r \in Stanza
      <3>1. r = [kind |-> "close", from |-> i, id |-> <<"close", c.made>>,
                 seq |-> 0, block |-> 0, empty |-> FALSE]
        BY DEF Request
      <3>2. c.made \in Nat
        BY <1>1, ObjectType
      <3>3. 0 \in 0..MaxSeq /\ <<"close", c.made>> \in Ids
        BY <3>2, CycleType DEF Ids
      <3>4. <<"close", c.made>>[1] = "close"
        OBVIOUS
      <3> DEFINE id == <<"close", c.made>>
      <3> HIDE DEF r, id
      <3> QED BY <1>1, <3>1, <3>3, <3>4 DEF Stanza, Kinds, id
    <2> HIDE DEF r
    <2>4. w \in EndObject /\ w.pending = c.pending \cup {r.id}
          /\ y = [w EXCEPT !.open = FALSE]
      <3>1. c \in EndObject /\ r.id \in Ids
        BY <1>1, <1>2, <2>3 DEF Stanza
      <3> HIDE DEF c
      <3> QED BY <3>1 DEF EndObject
    <2> HIDE DEF w, y
    <2>5. d.pending = c.pending \cup {r.id} /\ ~d.open /\ ToldEnd(d)
      BY <2>4, ToldFacts
    <2> HIDE DEF d
    <2>6. end'[i] = d /\ end'[t] = end[t]
      BY <1>1, <1>2, <2>2
    <2>7. ~Waits'
      <3>1. r.id # OpenId
        BY <2>3 DEF OpenId
      <3> QED BY <1>3, <2>1, <2>5, <2>6, <3>1 DEF Waits
    <2>8. s \in Seq(Stanza) /\ On(s) = {r} /\ net' = [net EXCEPT ![t] = @ \o s]
      <3>1. net[t] \in Seq(Stanza)
        BY <1>1, <1>2
      <3>2. Append(net[t], r) = net[t] \o s
        BY <2>3, <3>1
      <3>3. s \in Seq(Stanza) /\ DOMAIN s = {1} /\ s[1] = r
        BY <2>3
      <3> HIDE DEF s
      <3> QED BY <2>2, <3>2, <3>3 DEF On
    <2> HIDE DEF s
    <2>9. /\ \A x \in Ends : On(net'[x]) = IF x = t THEN On(net[x]) \cup On(s)
                                           ELSE On(net[x])
          /\ AsksOpen' <=> AsksOpen
      <3>1. \A n \in On(s) : ~IsOpen(n)
        BY <2>3, <2>8 DEF IsOpen
      <3> HIDE DEF t
      <3> QED BY <1>1, <2>8, <3>1, SentOn
    <2>10. On(net'[i]) = On(net[i]) /\ On(net'[t]) = On(net[t]) \cup {r}
      BY <1>1, <2>8, <2>9
    <2>11. ~Fails(net'[i]) /\ ~Closes(net'[i]) /\ Closes(net'[t])
           /\ \A n \in On(net'[t]) : n.kind = "close" => n.from = "initiator"
      BY <2>1, <2>3, <2>10 DEF Closing, Fails, Closes
    <2>12. \A x \in Ends : ToldEnd(end'[x])
      BY <1>1, <2>5, <2>6 DEF Closing
    <2> QED BY <2>5, <2>6, <2>7, <2>11, <2>12 DEF Closing
  <1> QED BY <1>4, <1>5, <1>6

\* The initiator's stream is open no longer than the target's, and what each is
\* told last is true.
THEOREM EndsInvariant ==
  Orderly /\ "target" \notin Closers => (IbbSpec => []Closing)
PROOF
  <1> SUFFICES ASSUME Orderly, "target" \notin Closers PROVE IbbSpec => []Closing
    OBVIOUS
  <1>1. Distinct
    BY DEF Orderly, Distinct
  <1>2. IbbInit => Closing
    <2> SUFFICES ASSUME IbbInit PROVE Closing
      OBVIOUS
    <2>1. \A x \in Ends : /\ net[x] = <<>> /\ end[x].pending = {}
                          /\ ~end[x].open /\ end[x].told = <<>>
      BY DEF IbbInit
    <2>2. "initiator" \in Ends /\ "target" \in Ends
      BY DEF Ends
    <2>3. \A x \in Ends : On(net[x]) = {}
      BY <2>1 DEF On
    <2> QED BY <2>1, <2>2, <2>3 DEF Closing, ToldEnd, Fails, Closes, Waits
  <1>3. ASSUME IInv, Tracked, Closing, [IbbNext]_ibbVars PROVE Closing'
    <2>1. ASSUME NEW e \in Ends, Receive(e) PROVE Closing'
      <3>1. Typed
        BY <1>3 DEF IInv
      <3>2. ~RecvOutOfSequence(e) /\ ~RecvEmpty(e)
        <4> SUFFICES ASSUME Arrives(e, "data"), end[e].open
                     PROVE  ~OutOfSequence(e) /\ Head(net[e]).empty = FALSE
          BY DEF RecvOutOfSequence, RecvEmpty
        <4>1. net[e] # <<>> /\ IsBlock(Head(net[e]))
          BY DEF Arrives, IsBlock
        <4>2. end[e].last + 1 = Head(net[e]).seq
          BY <1>1, <1>3, <4>1, NextBlock DEF Orderly
        <4>3. Head(net[e]).empty = FALSE
          BY <1>3, <3>1, <4>1, FirstStanza DEF Tracked, Awaited
        <4> QED BY <4>2, <4>3 DEF OutOfSequence
      <3> QED BY <1>3, <2>1, <3>2, ReceiveClosing, AnswerClosing DEF Receive
    <2>2. ASSUME NEW e \in Ends, Send(e) \/ Close(e) PROVE Closing'
      BY <1>3, <2>2, CallClosing
    <2>3. ASSUME ConnectStream PROVE Closing'
      BY <1>3, <2>3, CallClosing
    <2>4. ~SendMessage /\ ~Drop /\ \A e \in Ends : ~Bounce(e)
      BY DEF Orderly, SendMessage, Drop, Bounce
    <2>5. ~RecvMessage
      <3> SUFFICES ASSUME RecvMessage PROVE FALSE
        OBVIOUS
      <3>1. net["initiator"] # <<>> /\ Head(net["initiator"]).kind = "message"
        BY DEF RecvMessage, Arrives
      <3>2. "initiator" \in Ends /\ Typed
        BY <1>3 DEF Ends, IInv
      <3>3. Head(net["initiator"]) = net["initiator"][1]
            /\ 1 \in DOMAIN net["initiator"]
        BY <3>1, <3>2, FirstStanza
      <3> QED BY <1>3, <3>1, <3>2, <3>3 DEF Tracked, Awaited
    <2>6. ASSUME UNCHANGED ibbVars PROVE Closing'
      BY <1>3, <2>6 DEF ibbVars, Closing, Waits, AsksOpen
    <2> QED BY <1>3, <2>1, <2>2, <2>3, <2>4, <2>5, <2>6 DEF IbbNext
  <1> QED BY <1>1, <1>2, <1>3, Invariant, TrackedTheorem, PTL DEF IbbSpec

\* Both ends come to the same end of the stream (bytestream.h:70), and each was
\* told of it last (bytestreamdatahandler.h:85).
THEOREM EndsTheorem ==
  Orderly /\ "target" \notin Closers => (IbbSpec => []EndsMatch)
PROOF
  <1> SUFFICES ASSUME Orderly, "target" \notin Closers PROVE IbbSpec => []EndsMatch
    OBVIOUS
  <1>1. IInv /\ Closing => EndsMatch
    <2> SUFFICES ASSUME IInv, Closing PROVE EndsAgree /\ ToldOfEnd
      BY DEF EndsMatch
    <2>1. ToldOfEnd
      BY DEF ToldOfEnd, Closing, ToldEnd
    <2>2. ASSUME Quiet PROVE end["initiator"].open = end["target"].open
      <3>1. \A x \in Ends : net[x] = <<>> /\ end[x].pending = {}
        BY <2>2 DEF Quiet
      <3>2. ~Waits /\ ~Closes(net["target"])
        BY <3>1 DEF Ends, Waits, Closes, On
      <3>3. end["initiator"].open \in BOOLEAN /\ end["target"].open \in BOOLEAN
        BY ObjectType DEF Ends, IInv
      <3> QED BY <3>2, <3>3 DEF Closing
    <2> QED BY <2>1, <2>2 DEF EndsAgree
  <1>2. Distinct
    BY DEF Orderly, Distinct
  <1> QED BY <1>1, <1>2, Invariant, EndsInvariant, PTL

=============================================================================
