--------------------------- MODULE CallbackProofs ---------------------------
(***************************************************************************)
(* Proofs about what calls the application back: the lists of handlers,    *)
(* which it changes while they are walked, and the sessions and events of  *)
(* a conversation.                                                         *)
(***************************************************************************)
EXTENDS HandlerLists, Conversation, SequenceTheorems, FiniteSetTheorems,
        WellFoundedInduction, TLAPS

\* Natural numbers have a least one.
LEMMA LeastIs ==
  ASSUME NEW N \in SUBSET Nat, N # {}
  PROVE  LET n == CHOOSE i \in N : \A j \in N : i <= j
         IN n \in N /\ \A j \in N : n <= j
PROOF
  <1> DEFINE R == {p \in Nat \X Nat : p[1] < p[2]}
  <1>1. IsWellFoundedOn(R, Nat)
    BY NatLessThanWellFounded DEF OpToRel
  <1>2. \A i, j \in Nat : ~(<<j, i>> \in R) => i <= j
    OBVIOUS
  <1> HIDE DEF R
  <1>3. \E i \in N : \A j \in N : ~(<<j, i>> \in R)
    BY <1>1, WFMin
  <1>4. \E i \in N : \A j \in N : i <= j
    BY <1>2, <1>3
  <1> QED BY <1>4

-----------------------------------------------------------------------------
(* Lists of handlers. *)

\* A part without one node.
LEMMA PartWithout ==
  ASSUME NEW T, NEW s \in Seq(T), NEW k \in DOMAIN s
  PROVE  LET t == Part(s, DOMAIN s \ {k})
         IN /\ t \in Seq(T) /\ Len(t) = Len(s) - 1
            /\ \A n \in 1..Len(s) - 1 : t[n] = IF n < k THEN s[n] ELSE s[n + 1]
PROOF
  <1> DEFINE N == Len(s)
             S == DOMAIN s \ {k}
             t == Part(s, S)
  <1>1. N \in Nat /\ DOMAIN s = 1..N /\ k \in 1..N /\ S = (1..N) \ {k}
    OBVIOUS
  <1> HIDE DEF N
  <1>2. \A n \in Nat : IsFiniteSet(1..n) /\ Cardinality(1..n) = n
    BY FS_Interval
  <1>7. \A n \in Nat : \A i \in 1..n : Cardinality((1..n) \ {i}) = n - 1
    BY <1>2, FS_RemoveElement
  <1>3. Cardinality(S) = N - 1
    BY <1>1, <1>7
  <1>4. ASSUME NEW i \in S
        PROVE  Cardinality({j \in S : j <= i}) = IF i < k THEN i ELSE i - 1
    <2>1. i \in 1..N /\ i # k
      BY <1>1
    <2>2. i \in Nat /\ k \in Nat
      BY <1>1, <2>1
    <2>3. CASE i < k
      <3>1. {j \in S : j <= i} = 1..i
        BY <1>1, <2>1, <2>3
      <3> QED BY <1>2, <2>2, <2>3, <3>1
    <2>4. CASE k < i
      <3>1. {j \in S : j <= i} = (1..i) \ {k} /\ k \in 1..i
        BY <1>1, <2>1, <2>4
      <3>2. Cardinality({j \in S : j <= i}) = i - 1
        BY <1>7, <2>2, <3>1
      <3> QED BY <2>2, <2>4, <3>2
    <2> QED BY <2>1, <2>2, <2>3, <2>4
  <1> HIDE DEF S
  <1>5. ASSUME NEW n \in 1..N - 1
        PROVE  t[n] = IF n < k THEN s[n] ELSE s[n + 1]
    <2> DEFINE m == IF n < k THEN n ELSE n + 1
    <2>1. m \in S /\ m \in Nat
      BY <1>1
    <2>2. \A i \in S : Cardinality({j \in S : j <= i}) = n <=> i = m
      BY <1>1, <1>4
    <2>3. (CHOOSE i \in S : Cardinality({j \in S : j <= i}) = n) = m
      BY <2>1, <2>2
    <2>4. t[n] = s[m]
      BY <1>3, <2>3 DEF Part
    <2> QED BY <2>4
  <1>6. t \in Seq(T) /\ Len(t) = N - 1
    <2>1. DOMAIN t = 1..N - 1
      BY <1>3 DEF Part
    <2>2. \A n \in 1..N - 1 : t[n] \in T
      <3> SUFFICES ASSUME NEW n \in 1..N - 1 PROVE t[n] \in T
        OBVIOUS
      <3>1. n \in 1..N /\ n + 1 \in 1..N
        BY <1>1
      <3>2. s[n] \in T /\ s[n + 1] \in T
        BY <1>1, <3>1
      <3> HIDE DEF t
      <3> QED BY <1>5, <3>2
    <2>3. t = [n \in 1..N - 1 |-> t[n]]
      BY <1>3 DEF Part
    <2> HIDE DEF t
    <2>4. N - 1 \in Nat
      BY <1>1
    <2> QED BY <2>1, <2>2, <2>3, <2>4
  <1> QED BY <1>5, <1>6 DEF S, N


\* What the application does: a handler is registered once for a thing, one that
\* is being called removes only itself by JID, and only others elsewhere.
ListsRespected ==
  /\ ~Twice /\ Anything \notin Keys
  /\ SelfRemoval \subseteq {"jid"} /\ "jid" \notin OtherRemoval
  /\ MaxChanges \in Nat

AnEntry == [who : Handlers, key : Keys \cup {Anything}]

LoopTyped ==
  loop = NoLoop \/ loop \in [list : ListKinds, key : Keys, at : Nat \ {0}, hit : BOOLEAN,
                             calling : SUBSET AnEntry]

ListsTyped ==
  /\ listed \in [ListKinds -> Seq(AnEntry)]
  /\ \A l \in ListKinds : \A i \in DOMAIN listed[l] : listed[l][i] \in Entries(l)
  /\ LoopTyped /\ changes \in 0..MaxChanges /\ dangling = FALSE
  /\ givenTo \in Seq(AnEntry)

Unlike(s) == \A i, j \in DOMAIN s : s[i] = s[j] => i = j

AllUnlike == \A l \in ListKinds : Unlike(listed[l])

\* Where the iterator of loop k in list s is while handler c is called: past it
\* or, but by JID, at it.
Calling(k, s, c) ==
  /\ k.calling = {c} /\ c \in Entries(k.list) /\ k.hit
  /\ IF k.list = "jid" THEN k.at \in DOMAIN s => s[k.at] # c
     ELSE k.at \in DOMAIN s /\ s[k.at] = c

Walks(k, s) ==
  /\ k.at \in 1..Len(s) + 1
  /\ k.calling = {} \/ \E c : Calling(k, s, c)

\* The first node the loop has not come to.
Ahead(k) == IF k.calling # {} /\ k.list # "jid" THEN k.at + 1 ELSE k.at

\* Those entitled are in the list, and had it if the loop is past them.
Served(k, s, given1, due) ==
  /\ \A i \in DOMAIN given1 : given1[i] \in Entries(k.list)
  /\ ~k.hit => given1 = <<>>
  /\ \A e \in due : Matches(e, k.key) /\ \E i \in DOMAIN s : s[i] = e
  /\ \A i \in DOMAIN s : s[i] \in due => (i < Ahead(k) <=> s[i] \in Range(given1))

Once(given1, due) ==
  \A i, j \in DOMAIN given1 : given1[i] = given1[j] /\ i # j => given1[i] \notin due

SameKind(given1) ==
  \A i, j \in DOMAIN given1 : given1[i].key = Anything <=> given1[j].key = Anything

ListInv ==
  /\ ListsTyped /\ AllUnlike
  /\ Once(givenTo, entitled) /\ SameKind(givenTo)
  /\ IF loop = NoLoop THEN entitled = {}
     ELSE /\ Walks(loop, listed[loop.list])
          /\ Served(loop, listed[loop.list], givenTo, entitled)

LEMMA ListStart == ASSUME ListsRespected, ListInit PROVE ListInv
PROOF
  <1>1. \A l \in ListKinds : listed[l] = <<>>
    BY DEF ListInit
  <1>2. ListsTyped
    BY <1>1 DEF ListInit, ListsRespected, ListsTyped, LoopTyped
  <1> QED
    BY <1>1, <1>2 DEF ListInit, ListInv, AllUnlike, Unlike, Once, SameKind

ALoop == [list : ListKinds, key : Keys, at : Nat \ {0}, hit : BOOLEAN,
          calling : SUBSET AnEntry]

\* Where e is in s, and s without those nodes.
Places(s, e) == {i \in DOMAIN s : s[i] = e}

Dropped(s, gone, t) == t = Part(s, DOMAIN s \ gone)

Added(s, e, t) == t = Append(s, e)

\* The iterator after it.
Moved(k, gone, m) == m = [k EXCEPT !.at = @ - Cardinality({i \in gone : i < @})]

\* One more node at the end.
LEMMA RegisterAdds ==
  ASSUME NEW s \in Seq(AnEntry), NEW e \in AnEntry, Unlike(s), e \notin Range(s), NEW t,
         Added(s, e, t)
  PROVE  /\ t \in Seq(AnEntry) /\ Len(t) = Len(s) + 1 /\ Unlike(t)
         /\ DOMAIN s = 1..Len(s) /\ DOMAIN t = 1..Len(s) + 1 /\ Len(s) \in Nat
         /\ \A i \in DOMAIN s : t[i] = s[i]
         /\ t[Len(s) + 1] = e /\ \A i \in DOMAIN s : s[i] # e
PROOF
  <1>1. /\ t \in Seq(AnEntry) /\ Len(t) = Len(s) + 1
        /\ DOMAIN s = 1..Len(s) /\ DOMAIN t = 1..Len(s) + 1 /\ Len(s) \in Nat
        /\ \A i \in DOMAIN s : t[i] = s[i]
        /\ t[Len(s) + 1] = e
    BY DEF Added
  <1>2. \A i \in DOMAIN s : s[i] # e
    BY DEF Range
  <1>3. Unlike(t)
    <2> SUFFICES ASSUME NEW i \in DOMAIN t, NEW j \in DOMAIN t, t[i] = t[j] PROVE i = j
      BY DEF Unlike
    <2>1. CASE i \in DOMAIN s /\ j \in DOMAIN s
      BY <1>1, <2>1 DEF Unlike
    <2>2. CASE i \notin DOMAIN s \/ j \notin DOMAIN s
      BY <1>1, <1>2, <2>2
    <2> QED BY <2>1, <2>2
  <1> QED BY <1>1, <1>2, <1>3

LEMMA RegisterKeeps ==
  ASSUME NEW s \in Seq(AnEntry), NEW e \in AnEntry, Unlike(s), e \notin Range(s), NEW t,
         Added(s, e, t), NEW k \in ALoop, Walks(k, s), NEW given1, NEW due,
         Served(k, s, given1, due), NEW m,
         m = IF k.at > Len(s) THEN [k EXCEPT !.at = @ + 1] ELSE k
  PROVE  m \in ALoop /\ Walks(m, t) /\ Served(m, t, given1, due)
PROOF
  <1> DEFINE N == Len(s)
  <1>1. /\ t \in Seq(AnEntry) /\ Len(t) = N + 1
        /\ DOMAIN s = 1..N /\ DOMAIN t = 1..N + 1 /\ N \in Nat
        /\ \A i \in DOMAIN s : t[i] = s[i]
        /\ t[N + 1] = e /\ \A i \in DOMAIN s : s[i] # e
    BY RegisterAdds
  <1>2. /\ m \in ALoop /\ m.list = k.list /\ m.key = k.key /\ m.hit = k.hit
        /\ m.calling = k.calling /\ m.at = IF k.at > N THEN k.at + 1 ELSE k.at
    BY DEF ALoop
  <1>3. k.at \in 1..N + 1 /\ k.at \in Nat
    BY <1>1 DEF Walks
  <1>4. e \notin due
    BY <1>1 DEF Served
  <1> HIDE DEF N
  <1>5. Walks(m, t)
    <2>1. m.at \in 1..Len(t) + 1
      BY <1>1, <1>2, <1>3
    <2>2. CASE k.calling = {}
      BY <1>2, <2>1, <2>2 DEF Walks
    <2>3. ASSUME NEW c, Calling(k, s, c) PROVE Calling(m, t, c)
      BY <1>1, <1>2, <1>3, <2>3 DEF Calling
    <2> QED BY <2>1, <2>2, <2>3 DEF Walks
  <1>6. Served(m, t, given1, due)
    <2>1. \A i \in DOMAIN given1 : given1[i] \in Entries(m.list)
      BY <1>2 DEF Served
    <2>2. ~m.hit => given1 = <<>>
      BY <1>2 DEF Served
    <2>3. \A x \in due : Matches(x, m.key) /\ \E i \in DOMAIN t : t[i] = x
      BY <1>1, <1>2 DEF Served
    <2>4. ASSUME NEW i \in DOMAIN t, t[i] \in due
          PROVE  i < Ahead(m) <=> t[i] \in Range(given1)
      <3>1. i \in DOMAIN s /\ t[i] = s[i]
        BY <1>1, <1>4, <2>4
      <3>2. i < Ahead(k) <=> s[i] \in Range(given1)
        BY <2>4, <3>1 DEF Served
      <3>3. i < Ahead(k) <=> i < Ahead(m)
        <4>1. i \in 1..N
          BY <1>1, <3>1
        <4> QED BY <1>1, <1>2, <1>3, <4>1 DEF Ahead
      <3> QED BY <3>1, <3>2, <3>3
    <2> QED BY <2>1, <2>2, <2>3, <2>4 DEF Served
  <1> QED BY <1>2, <1>5, <1>6

\* One node less.
LEMMA UnregisterDrops ==
  ASSUME NEW s \in Seq(AnEntry), NEW e, Unlike(s), NEW gone,
         gone = Places(s, e), gone # {}, NEW t, Dropped(s, gone, t)
  PROVE  \E p \in 1..Len(s) :
           /\ gone = {p} /\ s[p] = e
           /\ t \in Seq(AnEntry) /\ Len(t) = Len(s) - 1 /\ Unlike(t)
           /\ \A n \in 1..Len(s) - 1 : t[n] = IF n < p THEN s[n] ELSE s[n + 1]
PROOF
  <1> DEFINE N == Len(s)
  <1>1. N \in Nat /\ DOMAIN s = 1..N
    OBVIOUS
  <1>2. PICK p \in 1..N : gone = {p} /\ s[p] = e
    BY <1>1 DEF Unlike, Places
  <1>3. /\ t \in Seq(AnEntry) /\ Len(t) = N - 1
        /\ \A n \in 1..N - 1 : t[n] = IF n < p THEN s[n] ELSE s[n + 1]
    BY <1>1, <1>2, PartWithout DEF Dropped
  <1> HIDE DEF N
  <1>4. Unlike(t)
    <2> SUFFICES ASSUME NEW i \in 1..N - 1, NEW j \in 1..N - 1, t[i] = t[j] PROVE i = j
      BY <1>1, <1>3 DEF Unlike
    <2> DEFINE x == IF i < p THEN i ELSE i + 1
               y == IF j < p THEN j ELSE j + 1
    <2>1. x \in 1..N /\ y \in 1..N
      BY <1>1
    <2>2. s[x] = s[y]
      BY <1>3
    <2>3. x = y
      BY <1>1, <2>1, <2>2 DEF Unlike
    <2> QED BY <1>1, <2>3
  <1> QED BY <1>2, <1>3, <1>4 DEF N

LEMMA UnregisterKeeps ==
  ASSUME NEW s \in Seq(AnEntry), NEW e, Unlike(s), NEW gone,
         gone = Places(s, e), gone # {}, NEW t, Dropped(s, gone, t),
         NEW k \in ALoop, Walks(k, s), k.calling # {},
         k.list = "jid" => k.calling = {e}, k.list # "jid" => e \notin k.calling,
         NEW given1, NEW due, Served(k, s, given1, due),
         NEW m, Moved(k, gone, m)
  PROVE  /\ k.at \notin gone
         /\ m \in ALoop /\ Walks(m, t) /\ Served(m, t, given1, due \ {e})
PROOF
  <1> DEFINE N == Len(s)
  <1>1. N \in Nat /\ DOMAIN s = 1..N
    OBVIOUS
  <1>11. /\ s \in Seq(AnEntry) /\ Unlike(s) /\ gone = Places(s, e)
         /\ gone # {} /\ Dropped(s, gone, t)
    OBVIOUS
  <1>2. PICK p \in 1..N :
          /\ gone = {p} /\ s[p] = e
          /\ t \in Seq(AnEntry) /\ Len(t) = N - 1 /\ Unlike(t)
          /\ \A n \in 1..N - 1 : t[n] = IF n < p THEN s[n] ELSE s[n + 1]
    BY ONLY <1>11, UnregisterDrops
  <1> HIDE DEF N
  <1>3. PICK c : Calling(k, s, c)
    BY DEF Walks
  <1>4. k.at \in 1..N + 1 /\ k.at \in Nat
    BY <1>1 DEF Walks, N
  <1>5. k.at # p
    BY <1>1, <1>2, <1>3 DEF Calling
  <1>6. Cardinality({i \in gone : i < k.at}) = IF p < k.at THEN 1 ELSE 0
    <2>1. CASE p < k.at
      <3>1. {i \in gone : i < k.at} = {p}
        BY <1>2, <2>1
      <3> QED BY <2>1, <3>1, FS_Singleton
    <2>2. CASE ~(p < k.at)
      <3>1. {i \in gone : i < k.at} = {}
        BY <1>2, <2>2
      <3> QED BY <2>2, <3>1, FS_EmptySet
    <2> QED BY <2>1, <2>2
  <1>7. /\ m \in ALoop /\ m.list = k.list /\ m.key = k.key /\ m.hit = k.hit
        /\ m.calling = k.calling /\ m.at = IF p < k.at THEN k.at - 1 ELSE k.at
    <2> DEFINE a == k.at - Cardinality({i \in gone : i < k.at})
    <2>1. a = IF p < k.at THEN k.at - 1 ELSE k.at
      BY <1>1, <1>4, <1>6
    <2>2. a \in Nat \ {0}
      BY <1>1, <1>4, <2>1
    <2>3. m = [k EXCEPT !.at = a]
      BY DEF Moved
    <2> HIDE DEF a
    <2> QED BY <2>1, <2>2, <2>3 DEF ALoop
  <1>10. ASSUME m.at \in 1..N - 1 PROVE t[m.at] = s[k.at]
    <2>1. CASE p < k.at
      <3>1. m.at = k.at - 1 /\ ~(m.at < p) /\ m.at + 1 = k.at
        BY <1>1, <1>4, <1>7, <2>1
      <3>2. t[m.at] = s[m.at + 1]
        BY <1>2, <1>10, <3>1
      <3> QED BY <3>1, <3>2
    <2>2. CASE k.at < p
      <3>1. m.at = k.at /\ m.at < p
        BY <1>1, <1>4, <1>7, <2>2
      <3> QED BY <1>2, <1>10, <3>1
    <2> QED BY <1>1, <1>4, <1>5, <2>1, <2>2
  <1>8. Walks(m, t)
    <2>1. m.at \in 1..Len(t) + 1
      BY <1>1, <1>2, <1>4, <1>5, <1>7
    <2>2. Calling(m, t, c)
      <3>1. m.calling = {c} /\ c \in Entries(m.list) /\ m.hit
        BY <1>3, <1>7 DEF Calling
      <3>2. CASE k.list = "jid"
        <4>1. ASSUME m.at \in DOMAIN t PROVE t[m.at] # c
          <5>1. m.at \in 1..N - 1
            BY <1>1, <1>2, <4>1
          <5>2. t[m.at] = s[k.at] /\ k.at \in 1..N
            BY <1>10, <1>1, <1>4, <1>5, <1>7, <5>1
          <5> QED BY <1>1, <1>3, <3>2, <5>2 DEF Calling
        <4> QED BY <1>7, <3>1, <3>2, <4>1 DEF Calling
      <3>3. CASE k.list # "jid"
        <4>1. k.at \in 1..N /\ s[k.at] = c
          BY <1>1, <1>3, <3>3 DEF Calling
        <4>2. m.at \in 1..N - 1
          BY <1>1, <1>2, <1>4, <1>5, <1>7, <4>1
        <4>3. t[m.at] = s[k.at] /\ m.at \in DOMAIN t
          BY <1>10, <1>1, <1>2, <1>4, <1>5, <1>7, <4>1, <4>2
        <4> QED BY <1>7, <3>1, <3>3, <4>1, <4>3 DEF Calling
      <3> QED BY <3>2, <3>3
    <2> QED BY <2>1, <2>2 DEF Walks
  <1>9. Served(m, t, given1, due \ {e})
    <2>1. \A i \in DOMAIN given1 : given1[i] \in Entries(m.list)
      BY <1>7 DEF Served
    <2>2. ~m.hit => given1 = <<>>
      BY <1>7 DEF Served
    <2>3. ASSUME NEW x \in due \ {e}
          PROVE  Matches(x, m.key) /\ \E i \in DOMAIN t : t[i] = x
      <3>1. Matches(x, m.key)
        BY <1>7 DEF Served
      <3>2. PICK j \in 1..N : s[j] = x
        BY <1>1 DEF Served
      <3> DEFINE i == IF j < p THEN j ELSE j - 1
      <3>3. j # p
        BY <1>2, <3>2
      <3>4. i \in 1..N - 1
        BY <1>1, <3>3
      <3>5. t[i] = s[j]
        <4>1. CASE j < p
          BY <1>2, <3>4, <4>1
        <4>2. CASE j > p
          <5>1. ~(i < p) /\ i + 1 = j
            BY <1>1, <4>2
          <5> QED BY <1>2, <3>4, <5>1
        <4> QED BY <1>1, <3>3, <4>1, <4>2
      <3>6. i \in DOMAIN t
        BY <1>1, <1>2, <3>4
      <3> QED BY <3>1, <3>2, <3>5, <3>6
    <2>4. ASSUME NEW i \in DOMAIN t, t[i] \in due \ {e}
          PROVE  i < Ahead(m) <=> t[i] \in Range(given1)
      <3> DEFINE j == IF i < p THEN i ELSE i + 1
      <3>1. i \in 1..N - 1
        BY <1>1, <1>2
      <3>2. j \in 1..N /\ t[i] = s[j]
        BY <1>1, <1>2, <3>1
      <3>3. j < Ahead(k) <=> s[j] \in Range(given1)
        BY <1>1, <2>4, <3>2 DEF Served
      <3>4. j < Ahead(k) <=> i < Ahead(m)
        BY <1>1, <1>4, <1>5, <1>7, <3>1 DEF Ahead
      <3> QED BY <3>2, <3>3, <3>4
    <2> QED BY <2>1, <2>2, <2>3, <2>4 DEF Served
  <1> QED BY <1>2, <1>5, <1>7, <1>8, <1>9


\* Every step of the lists and loops.
LEMMA ListTypes ==
  ASSUME ListInv, loop # NoLoop
  PROVE  /\ loop \in ALoop /\ loop.list \in ListKinds
         /\ listed[loop.list] \in Seq(AnEntry) /\ Unlike(listed[loop.list])
         /\ \A i \in DOMAIN listed[loop.list] : listed[loop.list][i] \in Entries(loop.list)
PROOF
  BY DEF ListInv, ListsTyped, LoopTyped, AllUnlike, ALoop

\* A stanza that comes to a list.
LEMMA Starts ==
  ASSUME ListInv, NEW l \in ListKinds, NEW key \in Keys, NEW k, k = Start(l, key)
  PROVE  /\ k \in ALoop /\ k # NoLoop /\ Walks(k, listed[l])
         /\ Served(k, listed[l], <<>>, Concerned(l, key))
PROOF
  <1>1. /\ k \in ALoop /\ k.list = l /\ k.key = key /\ k.at = 1 /\ k.calling = {} /\ ~k.hit
    BY DEF Start, ALoop
  <1>2. k # NoLoop
    BY <1>1 DEF NoLoop, ListKinds
  <1>3. listed[l] \in Seq(AnEntry)
    BY DEF ListInv, ListsTyped
  <1>4. Walks(k, listed[l])
    BY <1>1, <1>3 DEF Walks
  <1>5. \A e \in Concerned(l, key) : Matches(e, key) /\ \E i \in DOMAIN listed[l] : listed[l][i] = e
    BY DEF Concerned, Range
  <1>6. \A i \in DOMAIN listed[l] : (i < Ahead(k) <=> listed[l][i] \in Range(<<>>))
    BY <1>1, <1>3 DEF Ahead, Range
  <1> QED BY <1>1, <1>2, <1>4, <1>5, <1>6 DEF Served

LEMMA NextMin ==
  ASSUME ListInv, loop # NoLoop, NextAt # {}
  PROVE  Nearest(NextAt) \in NextAt /\ \A j \in NextAt : Nearest(NextAt) <= j
PROOF
  <1>1. NextAt \subseteq Nat
    BY ListTypes DEF NextAt, ALoop
  <1> QED BY <1>1, LeastIs DEF Nearest

LEMMA ListStep == ASSUME ListsRespected, ListInv, [ListNext]_listVars PROVE ListInv'
PROOF
  <1>1. CASE UNCHANGED listVars
    BY <1>1 DEF listVars, ListInv, ListsTyped, LoopTyped, AllUnlike, NoLoop
  <1>2. ASSUME NEW l \in ListKinds, NEW e \in Entries(l), Register(l, e) PROVE ListInv'
    <2> DEFINE s == listed[l]
               t == Append(s, e)
               m == IF loop # NoLoop /\ loop.list = l /\ loop.at > Len(s)
                    THEN [loop EXCEPT !.at = @ + 1] ELSE loop
    <2>1. /\ e \in AnEntry /\ s \in Seq(AnEntry) /\ Unlike(s) /\ e \notin Range(s)
          /\ \A i \in DOMAIN s : s[i] \in Entries(l)
      BY <1>2 DEF Register, ListsRespected, ListInv, ListsTyped, AllUnlike, Entries, KeysOf, AnEntry
    <2>2. /\ listed' = [listed EXCEPT ![l] = t] /\ loop' = m /\ changes' = changes + 1
          /\ givenTo' = givenTo /\ entitled' = entitled /\ dangling' = dangling
          /\ changes < MaxChanges
      BY <1>2 DEF Register
    <2>3. /\ t \in Seq(AnEntry) /\ Len(t) = Len(s) + 1 /\ Unlike(t)
          /\ DOMAIN s = 1..Len(s) /\ DOMAIN t = 1..Len(s) + 1 /\ Len(s) \in Nat
          /\ \A i \in DOMAIN s : t[i] = s[i]
          /\ t[Len(s) + 1] = e
      <3>1. Added(s, e, t)
        BY DEF Added
      <3> HIDE DEF s, t
      <3> QED BY ONLY <2>1, <3>1, RegisterAdds
    <2>4. /\ listed'[l] = t /\ \A x \in ListKinds : x # l => listed'[x] = listed[x]
          /\ DOMAIN listed' = ListKinds
      BY <2>2 DEF ListInv, ListsTyped
    <2>7. \A x \in ListKinds : \A i \in DOMAIN listed'[x] : listed'[x][i] \in Entries(x)
      <3>1. \A i \in DOMAIN t : t[i] \in Entries(l)
        <4> HIDE DEF s, t
        <4> QED BY <2>1, <2>3
      <3>2. \A x \in ListKinds : \A i \in DOMAIN listed[x] : listed[x][i] \in Entries(x)
        BY DEF ListInv, ListsTyped
      <3> HIDE DEF s, t
      <3> QED BY <2>4, <3>1, <3>2
    <2>5. CASE loop = NoLoop
      <3>1. m = NoLoop
        BY <2>5
      <3>2. ListsTyped'
        <4>1. listed' \in [ListKinds -> Seq(AnEntry)]
          BY <2>2, <2>3 DEF ListInv, ListsTyped
        <4>2. \A x \in ListKinds : \A i \in DOMAIN listed'[x] : listed'[x][i] \in Entries(x)
          BY <2>7
        <4> HIDE DEF m
        <4> QED BY <2>2, <3>1, <4>1, <4>2 DEF ListInv, ListsTyped, LoopTyped, ListsRespected
      <3>3. AllUnlike'
        BY <2>3, <2>4 DEF ListInv, AllUnlike
      <3> HIDE DEF m
      <3> QED BY <2>2, <2>5, <3>1, <3>2, <3>3 DEF ListInv
    <2>6. CASE loop # NoLoop
      <3>1. /\ loop \in ALoop /\ Walks(loop, listed[loop.list])
            /\ Served(loop, listed[loop.list], givenTo, entitled)
        BY <2>6, ListTypes DEF ListInv
      <3>2. /\ m \in ALoop /\ m.list = loop.list
            /\ Walks(m, listed'[m.list]) /\ Served(m, listed'[m.list], givenTo, entitled)
        <4>1. CASE loop.list = l
          <5>1. m = IF loop.at > Len(s) THEN [loop EXCEPT !.at = @ + 1] ELSE loop
            BY <2>6, <4>1
          <5>2. Walks(loop, s) /\ Served(loop, s, givenTo, entitled)
            BY <3>1, <4>1
          <5>3. m.list = l
            BY <3>1, <4>1, <5>1 DEF ALoop
          <5>4. Added(s, e, t)
            BY DEF Added
          <5> HIDE DEF m, s, t
          <5>5. m \in ALoop /\ Walks(m, t) /\ Served(m, t, givenTo, entitled)
            BY <2>1, <3>1, <5>1, <5>2, <5>4, RegisterKeeps
          <5> QED BY <2>4, <4>1, <5>3, <5>5
        <4>2. CASE loop.list # l
          <5>1. m = loop
            BY <4>2
          <5>2. listed'[loop.list] = listed[loop.list]
            BY <2>4, <3>1, <4>2 DEF ALoop
          <5> HIDE DEF m
          <5> QED BY <3>1, <5>1, <5>2
        <4> QED BY <4>1, <4>2
      <3> HIDE DEF m
      <3>3. m # NoLoop
        BY <3>2 DEF NoLoop, ALoop, ListKinds
      <3>4. ListsTyped'
        <4>1. listed' \in [ListKinds -> Seq(AnEntry)]
          BY <2>2, <2>3 DEF ListInv, ListsTyped
        <4>2. \A x \in ListKinds : \A i \in DOMAIN listed'[x] : listed'[x][i] \in Entries(x)
          BY <2>7
        <4>3. LoopTyped'
          BY <2>2, <3>2 DEF LoopTyped, ALoop
        <4> QED BY <2>2, <4>1, <4>2, <4>3 DEF ListInv, ListsTyped, ListsRespected
      <3>5. AllUnlike'
        BY <2>3, <2>4 DEF ListInv, AllUnlike
      <3> QED BY <2>2, <3>2, <3>3, <3>4, <3>5 DEF ListInv
    <2> QED BY <2>5, <2>6
  <1>3. ASSUME NEW l \in ListKinds, NEW e \in Entries(l), Unregister(l, e) PROVE ListInv'
    <2> DEFINE s == listed[l]
               gone == {i \in DOMAIN s : s[i] = e}
               t == Part(s, DOMAIN s \ gone)
               here == loop # NoLoop /\ loop.list = l
               m == IF here THEN [loop EXCEPT !.at = @ - Cardinality({i \in gone : i < @})]
                    ELSE loop
    <2>1. /\ s \in Seq(AnEntry) /\ Unlike(s)
          /\ \A i \in DOMAIN s : s[i] \in Entries(l)
      BY DEF ListInv, ListsTyped, AllUnlike
    <2>2. /\ listed' = [listed EXCEPT ![l] = t] /\ loop' = m /\ changes' = changes + 1
          /\ givenTo' = givenTo /\ dangling' = (dangling \/ (here /\ loop.at \in gone))
          /\ entitled' = (IF here THEN entitled \ {e} ELSE entitled)
          /\ changes < MaxChanges /\ gone # {} /\ MayRemove(l, e) /\ ApplicationRuns
      BY <1>3 DEF Unregister
    <2>11. gone = Places(s, e) /\ Dropped(s, gone, t)
      BY DEF Places, Dropped
    <2>4. /\ listed'[l] = t /\ \A x \in ListKinds : x # l => listed'[x] = listed[x]
          /\ DOMAIN listed' = ListKinds
      BY <2>2 DEF ListInv, ListsTyped
    <2>3. /\ t \in Seq(AnEntry) /\ Unlike(t) /\ \A i \in DOMAIN t : t[i] \in Entries(l)
      <3> HIDE DEF s, t, gone
      <3>1. gone # {}
        BY <2>2
      <3>2. PICK p \in 1..Len(s) :
              /\ gone = {p} /\ s[p] = e
              /\ t \in Seq(AnEntry) /\ Len(t) = Len(s) - 1 /\ Unlike(t)
              /\ \A n \in 1..Len(s) - 1 : t[n] = IF n < p THEN s[n] ELSE s[n + 1]
        BY ONLY SMTT(30), <2>1, <2>11, <3>1, UnregisterDrops
      <3> QED BY <2>1, <3>2
    <2>7. \A x \in ListKinds : \A i \in DOMAIN listed'[x] : listed'[x][i] \in Entries(x)
      <3>2. \A x \in ListKinds : \A i \in DOMAIN listed[x] : listed[x][i] \in Entries(x)
        BY DEF ListInv, ListsTyped
      <3> HIDE DEF s, t, gone
      <3> QED BY <2>3, <2>4, <3>2
    <2>8. listed' \in [ListKinds -> Seq(AnEntry)] /\ AllUnlike'
      <3> HIDE DEF s, t, gone
      <3> QED BY <2>2, <2>3, <2>4 DEF ListInv, ListsTyped, AllUnlike
    <2>9. changes' \in 0..MaxChanges
      <3> HIDE DEF s, t, gone, m
      <3> QED BY <2>2 DEF ListInv, ListsTyped, ListsRespected
    <2>5. CASE loop = NoLoop
      <3>1. m = NoLoop /\ ~here
        BY <2>5
      <3> HIDE DEF s, t, gone, m, here
      <3> QED
        BY <2>2, <2>5, <2>7, <2>8, <2>9, <3>1 DEF ListInv, ListsTyped, LoopTyped
    <2>6. CASE loop # NoLoop
      <3>1. /\ loop \in ALoop /\ Walks(loop, listed[loop.list])
            /\ Served(loop, listed[loop.list], givenTo, entitled)
            /\ loop.calling # {}
        BY <2>2, <2>6, ListTypes DEF ListInv, ApplicationRuns, CalledNow
      <3>2. /\ m \in ALoop /\ m.list = loop.list /\ dangling' = FALSE
            /\ Walks(m, listed'[m.list]) /\ Served(m, listed'[m.list], givenTo, entitled')
        <4>1. CASE loop.list = l
          <5>1. here /\ Moved(loop, gone, m)
            BY <2>6, <4>1 DEF Moved
          <5>2. Walks(loop, s) /\ Served(loop, s, givenTo, entitled)
            BY <3>1, <4>1
          <5>3. m.list = l
            BY <3>1, <4>1, <5>1 DEF ALoop, Moved
          <5>4. /\ loop.list = "jid" => loop.calling = {e}
                /\ loop.list # "jid" => e \notin loop.calling
            <6>1. PICK c : loop.calling = {c}
              BY <3>1 DEF Walks, Calling
            <6>2. IF e \in loop.calling THEN l \in SelfRemoval ELSE l \in OtherRemoval
              BY <2>2, <2>6, <4>1 DEF MayRemove, CalledNow
            <6> QED BY <4>1, <6>1, <6>2 DEF ListsRespected
          <5>5. gone # {} /\ entitled' = entitled \ {e}
            BY <2>2, <5>1
          <5>6. loop.at \notin gone => dangling' = FALSE
            BY <2>2 DEF ListInv, ListsTyped
          <5> HIDE DEF m, s, t, gone, here
          <5>7. /\ loop.at \notin gone
                /\ m \in ALoop /\ Walks(m, t) /\ Served(m, t, givenTo, entitled \ {e})
            BY ONLY <2>1, <2>11, <3>1, <5>1, <5>2, <5>4, <5>5, UnregisterKeeps
          <5>8. dangling' = FALSE
            BY <5>6, <5>7
          <5>9. listed'[m.list] = t /\ m.list = loop.list
            BY <2>4, <4>1, <5>3
          <5> QED BY <5>5, <5>7, <5>8, <5>9
        <4>2. CASE loop.list # l
          <5>1. m = loop /\ ~here
            BY <4>2
          <5>2. listed'[loop.list] = listed[loop.list]
            BY <2>4, <3>1, <4>2 DEF ALoop
          <5> HIDE DEF m, s, t, gone, here
          <5> QED BY <2>2, <3>1, <5>1, <5>2 DEF ListInv, ListsTyped
        <4> QED BY <4>1, <4>2
      <3>6. entitled' \subseteq entitled
        BY <2>2
      <3> HIDE DEF s, t, gone, m, here
      <3>3. m # NoLoop
        BY <3>2 DEF NoLoop, ALoop, ListKinds
      <3>4. LoopTyped'
        BY <2>2, <3>2 DEF LoopTyped, ALoop
      <3>5. Once(givenTo, entitled')
        BY <3>6 DEF ListInv, Once
      <3> QED BY <2>2, <2>7, <2>8, <2>9, <3>2, <3>3, <3>4, <3>5 DEF ListInv, ListsTyped
    <2> QED BY <2>5, <2>6
  <1>4. ASSUME NEW l \in ListKinds, NEW key \in Keys, Arrive(l, key) PROVE ListInv'
    <2>1. /\ loop' = Start(l, key) /\ givenTo' = <<>> /\ entitled' = Concerned(l, key)
          /\ listed' = listed /\ changes' = changes /\ dangling' = dangling
      BY <1>4 DEF Arrive
    <2> DEFINE k == Start(l, key)
    <2>2. k.list = l
      BY DEF Start
    <2> HIDE DEF k
    <2>3. /\ k \in ALoop /\ k # NoLoop /\ Walks(k, listed[l])
          /\ Served(k, listed[l], <<>>, Concerned(l, key))
      BY Starts DEF k
    <2>4. loop' = k
      BY <2>1 DEF k
    <2>5. ListsTyped'
      BY <2>1, <2>3, <2>4 DEF ListInv, ListsTyped, LoopTyped, ALoop
    <2>6. Once(<<>>, entitled') /\ SameKind(<<>>)
      BY DEF Once, SameKind
    <2> QED BY <2>1, <2>2, <2>3, <2>4, <2>5, <2>6 DEF ListInv, AllUnlike
  <1>5. ASSUME CallNext PROVE ListInv'
    <2> DEFINE i == Nearest(NextAt)
               s == listed[loop.list]
               e == s[i]
    <2>1. /\ loop # NoLoop /\ CalledNow = {} /\ NextAt # {}
          /\ loop' = [loop EXCEPT !.calling = {e}, !.hit = TRUE,
                        !.at = IF loop.list = "jid" THEN i + 1 ELSE i]
          /\ givenTo' = Append(givenTo, e)
          /\ listed' = listed /\ changes' = changes
          /\ entitled' = entitled /\ dangling' = dangling
      BY <1>5 DEF CallNext, AdvancesFirst
    <2>2. /\ loop \in ALoop /\ loop.list \in ListKinds /\ s \in Seq(AnEntry) /\ Unlike(s)
          /\ \A j \in DOMAIN s : s[j] \in Entries(loop.list)
          /\ loop.calling = {} /\ Walks(loop, s) /\ Served(loop, s, givenTo, entitled)
      BY <2>1, ListTypes DEF ListInv, CalledNow
    <2>3. i \in NextAt /\ \A j \in NextAt : i <= j
      BY <2>1, NextMin
    <2>4. /\ i \in loop.at..Len(s) /\ Matches(e, loop.key)
          /\ \A j \in loop.at..Len(s) : j < i => ~Matches(s[j], loop.key)
      <3>1. NextAt = {j \in loop.at..Len(s) : Matches(s[j], loop.key)}
        BY DEF NextAt
      <3>2. loop.at \in Nat /\ Len(s) \in Nat
        BY <2>2 DEF ALoop
      <3> HIDE DEF s
      <3>3. i \in loop.at..Len(s) /\ Matches(s[i], loop.key)
        <4> HIDE DEF i
        <4> QED BY <2>3, <3>1
      <3>4. \A j \in loop.at..Len(s) : j < i => ~Matches(s[j], loop.key)
        <4> HIDE DEF i
        <4> QED BY <2>3, <3>1, <3>2, <3>3
      <3> QED BY <3>3, <3>4
    <2> HIDE DEF i
    <2>5. /\ DOMAIN s = 1..Len(s) /\ Len(s) \in Nat /\ loop.at \in Nat \ {0}
          /\ i \in 1..Len(s) /\ e \in Entries(loop.list) /\ e \in AnEntry
      <3>1. i \in DOMAIN s
        BY <2>2, <2>4 DEF ALoop
      <3> QED BY <2>2, <2>4, <3>1 DEF ALoop
    <2> HIDE DEF s, e
    <2> DEFINE k == loop'
    <2>6. /\ k \in ALoop /\ k.list = loop.list /\ k.key = loop.key /\ k.calling = {e} /\ k.hit
          /\ k.at = IF loop.list = "jid" THEN i + 1 ELSE i
      <3> DEFINE a == IF loop.list = "jid" THEN i + 1 ELSE i
      <3>1. a \in Nat \ {0}
        BY <2>5
      <3>2. loop' = [loop EXCEPT !.calling = {e}, !.hit = TRUE, !.at = a]
        BY <2>1
      <3> HIDE DEF a
      <3>3. /\ k \in ALoop /\ k.list = loop.list /\ k.key = loop.key /\ k.calling = {e}
            /\ k.hit = TRUE /\ k.at = a
        BY <2>2, <2>5, <3>1, <3>2 DEF ALoop
      <3> QED BY <3>3 DEF a
    <2>7. k # NoLoop
      BY <2>6 DEF ALoop, NoLoop, ListKinds
    <2>8. Walks(k, s)
      <3>1. k.at \in 1..Len(s) + 1
        BY <2>5, <2>6
      <3>2. s[i] = e
        BY DEF e
      <3>3. CASE loop.list = "jid"
        <4>1. k.at \in DOMAIN s => s[k.at] # e
          BY <2>2, <2>5, <2>6, <3>2, <3>3 DEF Unlike
        <4>2. Calling(k, s, e)
          BY <2>5, <2>6, <3>3, <4>1 DEF Calling
        <4> QED BY <3>1, <4>2 DEF Walks
      <3>4. CASE loop.list # "jid"
        <4>1. k.at \in DOMAIN s /\ s[k.at] = e
          BY <2>5, <2>6, <3>2, <3>4
        <4>2. Calling(k, s, e)
          BY <2>5, <2>6, <3>4, <4>1 DEF Calling
        <4> QED BY <3>1, <4>2 DEF Walks
      <3> QED BY <3>3, <3>4
    <2>9. givenTo \in Seq(AnEntry) /\ Len(givenTo) \in Nat
          /\ DOMAIN givenTo = 1..Len(givenTo)
      BY DEF ListInv, ListsTyped
    <2> DEFINE g == givenTo'
    <2>10. /\ g \in Seq(AnEntry) /\ DOMAIN g = 1..Len(givenTo) + 1
           /\ g[Len(givenTo) + 1] = e /\ \A j \in DOMAIN givenTo : g[j] = givenTo[j]
           /\ Range(g) = Range(givenTo) \cup {e}
      <3>1. /\ g \in Seq(AnEntry) /\ DOMAIN g = 1..Len(givenTo) + 1
            /\ g[Len(givenTo) + 1] = e /\ \A j \in DOMAIN givenTo : g[j] = givenTo[j]
        BY <2>1, <2>5, <2>9
      <3> QED BY <2>9, <3>1 DEF Range
    <2> HIDE DEF g
    <2>11. e \in entitled => e \notin Range(givenTo)
      <3>1. s[i] = e
        BY DEF e
      <3>2. e \in entitled => (i < Ahead(loop) <=> e \in Range(givenTo))
        BY <2>2, <2>5, <3>1 DEF Served
      <3>3. ~(i < Ahead(loop))
        BY <2>2, <2>4, <2>5 DEF Ahead
      <3> QED BY <3>2, <3>3
    <2>12. Served(k, s, g, entitled)
      <3>1. \A j \in DOMAIN g : g[j] \in Entries(k.list)
        BY <2>2, <2>5, <2>6, <2>9, <2>10 DEF Served
      <3>2. \A x \in entitled : Matches(x, k.key) /\ \E j \in DOMAIN s : s[j] = x
        BY <2>2, <2>6 DEF Served
      <3>3. ASSUME NEW j \in DOMAIN s, s[j] \in entitled
            PROVE  j < Ahead(k) <=> s[j] \in Range(g)
        <4>1. Ahead(k) = i + 1
          BY <2>5, <2>6 DEF Ahead
        <4>2. Ahead(loop) = loop.at
          BY <2>2 DEF Ahead
        <4>3. j < loop.at <=> s[j] \in Range(givenTo)
          BY <2>2, <3>3, <4>2 DEF Served
        <4>4. s[j] = e <=> j = i
          BY <2>2, <2>5 DEF Unlike, e
        <4>5. Matches(s[j], loop.key)
          BY <2>2, <3>3 DEF Served
        <4>6. ~(loop.at <= j /\ j < i)
          BY <2>4, <2>5, <4>5
        <4>7. j < i + 1 <=> j < loop.at \/ j = i
          BY <2>4, <2>5, <4>6
        <4> QED BY <2>10, <4>1, <4>3, <4>4, <4>7
      <3> QED BY <2>6, <3>1, <3>2, <3>3 DEF Served
    <2>13. Once(g, entitled)
      <3> SUFFICES ASSUME NEW a \in DOMAIN g, NEW b \in DOMAIN g, g[a] = g[b], a # b
                   PROVE  g[a] \notin entitled
        BY DEF Once
      <3>1. CASE a \in DOMAIN givenTo /\ b \in DOMAIN givenTo
        BY <2>10, <3>1 DEF ListInv, Once
      <3>2. CASE ~(a \in DOMAIN givenTo /\ b \in DOMAIN givenTo)
        <4>1. g[a] = e /\ e \in Range(givenTo)
          BY <2>9, <2>10, <3>2 DEF Range
        <4> QED BY <2>11, <4>1
      <3> QED BY <3>1, <3>2
    <2>14. SameKind(g)
      <3>1. \A j \in DOMAIN g : g[j] \in Entries(loop.list)
        BY <2>6, <2>12 DEF Served
      <3>2. \A x \in Entries(loop.list) : x.key = Anything <=> loop.list \notin {"jid", "tag"}
        BY DEF Entries, KeysOf, ListsRespected
      <3> QED BY <3>1, <3>2 DEF SameKind
    <2>15. LoopTyped'
      BY <2>6 DEF LoopTyped, ALoop
    <2>16. listed'[k.list] = s
      BY <2>1, <2>6 DEF s
    <2>17. ListsTyped' /\ AllUnlike'
      BY <2>1, <2>10, <2>15 DEF g, ListInv, ListsTyped, AllUnlike
    <2> QED BY <2>1, <2>7, <2>8, <2>12, <2>13, <2>14, <2>16, <2>17 DEF g, ListInv
  <1>6. ASSUME CallReturns PROVE ListInv'
    <2>1. /\ loop # NoLoop /\ loop.calling # {}
          /\ loop' = [loop EXCEPT !.calling = {},
                        !.at = IF loop.list = "jid" THEN @ ELSE @ + 1]
          /\ listed' = listed /\ changes' = changes /\ givenTo' = givenTo
          /\ entitled' = entitled /\ dangling' = dangling
      BY <1>6 DEF CallReturns, CalledNow, AdvancesFirst
    <2> DEFINE k == loop'
               s == listed[loop.list]
    <2>2. /\ loop \in ALoop /\ loop.list \in ListKinds /\ s \in Seq(AnEntry)
          /\ Walks(loop, s) /\ Served(loop, s, givenTo, entitled)
      BY <2>1, ListTypes DEF ListInv
    <2> HIDE DEF s
    <2>3. /\ k \in ALoop /\ k.list = loop.list /\ k.key = loop.key /\ k.calling = {}
          /\ k.hit = loop.hit
          /\ k.at = IF loop.list = "jid" THEN loop.at ELSE loop.at + 1
      <3> DEFINE a == IF loop.list = "jid" THEN loop.at ELSE loop.at + 1
      <3>1. a \in Nat \ {0}
        BY <2>2 DEF ALoop
      <3>2. loop' = [loop EXCEPT !.calling = {}, !.at = a]
        BY <2>1
      <3> HIDE DEF a
      <3>3. /\ k \in ALoop /\ k.list = loop.list /\ k.key = loop.key /\ k.calling = {}
            /\ k.hit = loop.hit /\ k.at = a
        BY <2>2, <3>1, <3>2 DEF ALoop
      <3> QED BY <3>3 DEF a
    <2>4. k # NoLoop
      BY <2>3 DEF ALoop, NoLoop, ListKinds
    <2>5. DOMAIN s = 1..Len(s) /\ Len(s) \in Nat
      BY <2>2
    <2>6. PICK c : Calling(loop, s, c)
      BY <2>1, <2>2 DEF Walks
    <2>7. Walks(k, s)
      BY <2>2, <2>3, <2>5, <2>6 DEF Walks, Calling
    <2>8. Ahead(k) = Ahead(loop)
      BY <2>1, <2>3 DEF Ahead
    <2>9. Served(k, s, givenTo, entitled)
      BY <2>2, <2>3, <2>8 DEF Served
    <2>10. LoopTyped'
      BY <2>3 DEF LoopTyped, ALoop
    <2>11. listed'[k.list] = s
      BY <2>1, <2>3 DEF s
    <2>12. ListsTyped' /\ AllUnlike'
      BY <2>1, <2>10 DEF ListInv, ListsTyped, AllUnlike
    <2> QED BY <2>1, <2>4, <2>7, <2>9, <2>11, <2>12 DEF ListInv
  <1>7. ASSUME Finish PROVE ListInv'
    <2>1. /\ loop # NoLoop
          /\ listed' = listed /\ changes' = changes /\ givenTo' = givenTo
          /\ dangling' = dangling
      BY <1>7 DEF Finish
    <2>2. loop \in ALoop /\ Served(loop, listed[loop.list], givenTo, entitled)
      BY <2>1, ListTypes DEF ListInv
    <2>3. CASE GoesOn
      <3>1. /\ loop' = Start("presence", loop.key)
            /\ entitled' = Concerned("presence", loop.key)
        BY <1>7, <2>3 DEF Finish
      <3>2. givenTo = <<>>
        BY <2>2, <2>3 DEF GoesOn, Served
      <3> DEFINE k == Start("presence", loop.key)
      <3>3. k.list = "presence"
        BY DEF Start
      <3>4. "presence" \in ListKinds /\ loop.key \in Keys
        BY <2>2 DEF ALoop, ListKinds
      <3> HIDE DEF k
      <3>5. /\ k \in ALoop /\ k # NoLoop /\ Walks(k, listed["presence"])
            /\ Served(k, listed["presence"], <<>>, Concerned("presence", loop.key))
        BY <3>4, Starts DEF k
      <3>6. loop' = k
        BY <3>1 DEF k
      <3>7. ListsTyped' /\ AllUnlike'
        BY <2>1, <3>5, <3>6 DEF ListInv, ListsTyped, LoopTyped, ALoop, AllUnlike
      <3>8. Once(<<>>, entitled') /\ SameKind(<<>>)
        BY DEF Once, SameKind
      <3> QED BY <2>1, <3>1, <3>2, <3>3, <3>5, <3>6, <3>7, <3>8 DEF ListInv
    <2>4. CASE ~GoesOn
      <3>1. loop' = NoLoop /\ entitled' = {}
        BY <1>7, <2>4 DEF Finish
      <3>2. ListsTyped' /\ AllUnlike'
        BY <2>1, <3>1 DEF ListInv, ListsTyped, LoopTyped, AllUnlike
      <3>3. Once(givenTo, {}) /\ SameKind(givenTo)
        BY DEF ListInv, Once
      <3> QED BY <2>1, <3>1, <3>2, <3>3 DEF ListInv
    <2> QED BY <2>3, <2>4
  <1> QED BY <1>1, <1>2, <1>3, <1>4, <1>5, <1>6, <1>7 DEF ListNext

LEMMA ListAnswers ==
  ASSUME ListsRespected, ListInv PROVE ListTypeOK /\ IteratorsHold /\ EachToldOnce
PROOF
  <1>1. ListTypeOK /\ IteratorsHold
    BY DEF ListInv, ListsTyped, LoopTyped, ListTypeOK, IteratorsHold, AnEntry
  <1>2. \A i, j \in DOMAIN givenTo : givenTo[i] = givenTo[j] /\ i # j => givenTo[i] \notin entitled
    BY DEF ListInv, Once
  <1>3. \A i, j \in DOMAIN givenTo : givenTo[i].key = Anything <=> givenTo[j].key = Anything
    BY DEF ListInv, SameKind
  <1>4. ASSUME loop # NoLoop, CalledNow = {}, NextAt = {} PROVE entitled \subseteq Range(givenTo)
    <2> DEFINE s == listed[loop.list]
    <2>1. /\ loop \in ALoop /\ s \in Seq(AnEntry) /\ loop.calling = {}
          /\ Served(loop, s, givenTo, entitled)
      BY <1>4, ListTypes DEF ListInv, CalledNow
    <2>2. \A i \in loop.at..Len(s) : ~Matches(s[i], loop.key)
      BY <1>4 DEF NextAt
    <2> HIDE DEF s
    <2>3. DOMAIN s = 1..Len(s) /\ Len(s) \in Nat /\ loop.at \in Nat
      BY <2>1 DEF ALoop
    <2> SUFFICES ASSUME NEW e \in entitled PROVE e \in Range(givenTo)
      OBVIOUS
    <2>4. Matches(e, loop.key) /\ \E i \in DOMAIN s : s[i] = e
      BY <2>1 DEF Served
    <2>5. PICK i \in DOMAIN s : s[i] = e
      BY <2>4
    <2>6. i < loop.at
      BY <2>2, <2>3, <2>4, <2>5
    <2>7. i < Ahead(loop)
      BY <2>1, <2>6 DEF Ahead
    <2> QED BY <2>1, <2>5, <2>7 DEF Served
  <1> QED BY <1>1, <1>2, <1>3, <1>4 DEF EachToldOnce

\* Whatever handlers come and go while a stanza is given round, no loop goes on
\* from a node that is gone, and everyone concerned has the stanza once.
THEOREM ListTheorem ==
  ASSUME ListsRespected
  PROVE  ListSpec => [](ListTypeOK /\ IteratorsHold /\ EachToldOnce)
PROOF
  <1>1. ListInit => ListInv
    BY ListStart
  <1>2. ListInv /\ [ListNext]_listVars => ListInv'
    BY ListStep
  <1>3. ListInv => ListTypeOK /\ IteratorsHold /\ EachToldOnce
    BY ListAnswers
  <1> QED BY <1>1, <1>2, <1>3, PTL DEF ListSpec


-----------------------------------------------------------------------------
(* Sessions and events. *)

\* How the application may open a session.
OpeningsKnown == OpenedAs \subseteq [types : SUBSET Kinds, honor : BOOLEAN, track : BOOLEAN]
                 /\ MaxMessages \in Nat

ASession ==
  [bare : Contacts, res : Resources \cup {NoResource}, types : SUBSET Kinds,
   honor : BOOLEAN, track : BOOLEAN, auto : BOOLEAN,
   thread : MsgThreads \cup {NoMsgThread, Own}, had : BOOLEAN,
   requested : SUBSET UNION Asked, lastId : Nat, lastSent : Events \cup {"cancel"},
   off : BOOLEAN, state : {"active", "gone"}, shown : {"active", "gone"},
   wanted : {"active", "gone"}]

\* A session made for a message takes every thread, of one kind of message.
Settled(ss) == \A i \in DOMAIN ss : ss[i].auto => ss[i].honor /\ ss[i].types # {}

Apart(ss) ==
  \A i, j \in DOMAIN ss :
    ss[i].auto /\ ss[j].auto /\ i # j => ss[i].bare # ss[j].bare \/ ss[i].types # ss[j].types

\* What a session may still send is for its own last message, and was not sent.
Numbered(ss, n, sent) ==
  /\ \A i \in DOMAIN ss : ss[i].lastId \in 0..n
  /\ \A i, j \in DOMAIN ss : i # j /\ ss[i].lastId = ss[j].lastId => ss[i].lastId = 0
  /\ \A i \in DOMAIN ss : \A e \in ss[i].requested \cap OnceEvents :
       ss[i].lastId # 0 /\ <<e, ss[i].lastId>> \notin Range(sent)

Sent(sent, n) ==
  /\ sent \in Seq(OnceEvents \X Nat) /\ IsInjective(sent)
  /\ \A k \in DOMAIN sent : sent[k][2] \in 1..n

ConvInv ==
  /\ sessions \in Seq(ASession) /\ received \in Nat
  /\ Settled(sessions) /\ Apart(sessions)
  /\ Numbered(sessions, received, sentEvents) /\ Sent(sentEvents, received)

LEMMA ConvStart == ASSUME ConvInit PROVE ConvInv
PROOF
  BY DEF ConvInit, ConvInv, Settled, Apart, Numbered, Sent, IsInjective, Range

\* What no call changes of a session.
Alike(s, t) == t.bare = s.bare /\ t.types = s.types /\ t.honor = s.honor /\ t.auto = s.auto

\* No message for it, or a new one with number n.
Quiet(s, t) == t.lastId = s.lastId /\ t.requested \subseteq s.requested

Fresh(s, t, n) == Quiet(s, t) \/ (t.lastId = 0 /\ t.requested = {}) \/ t.lastId = n

\* One session becomes t; comes last; goes.
Put(ss, i, t, tt) == tt = [ss EXCEPT ![i] = t]
Joined(ss, t, tt) == tt = Append(ss, t)
Gone(ss, i, tt) == tt = RemoveAt(ss, i)

LEMMA PutKeeps ==
  ASSUME NEW ss \in Seq(ASession), NEW i \in DOMAIN ss, NEW t \in ASession, NEW tt,
         Put(ss, i, t, tt), Alike(ss[i], t), Settled(ss), Apart(ss)
  PROVE  tt \in Seq(ASession) /\ Settled(tt) /\ Apart(tt)
PROOF
  <1>1. /\ tt \in Seq(ASession) /\ DOMAIN tt = DOMAIN ss /\ tt[i] = t
        /\ \A j \in DOMAIN ss : j # i => tt[j] = ss[j]
    BY DEF Put
  <1>2. \A j \in DOMAIN ss : Alike(ss[j], tt[j])
    BY <1>1 DEF Alike
  <1>3. Settled(tt)
    BY <1>1, <1>2 DEF Settled, Alike
  <1>4. Apart(tt)
    BY <1>1, <1>2 DEF Apart, Alike
  <1> QED BY <1>1, <1>3, <1>4

LEMMA PutQuiet ==
  ASSUME NEW ss \in Seq(ASession), NEW i \in DOMAIN ss, NEW t \in ASession, NEW tt,
         Put(ss, i, t, tt), Quiet(ss[i], t), NEW n \in Nat, NEW sent, Numbered(ss, n, sent)
  PROVE  Numbered(tt, n, sent)
PROOF
  <1>1. /\ DOMAIN tt = DOMAIN ss /\ tt[i] = t
        /\ \A j \in DOMAIN ss : j # i => tt[j] = ss[j]
    BY DEF Put
  <1>2. \A j \in DOMAIN ss : Quiet(ss[j], tt[j])
    BY <1>1 DEF Quiet
  <1> QED BY <1>1, <1>2 DEF Numbered, Quiet

LEMMA PutFresh ==
  ASSUME NEW ss \in Seq(ASession), NEW i \in DOMAIN ss, NEW t \in ASession, NEW tt,
         NEW n \in Nat, NEW sent, Numbered(ss, n, sent), Sent(sent, n),
         Put(ss, i, t, tt), Fresh(ss[i], t, n + 1)
  PROVE  Numbered(tt, n + 1, sent)
PROOF
  <1>1. /\ DOMAIN tt = DOMAIN ss /\ tt[i] = t
        /\ \A j \in DOMAIN ss : j # i => tt[j] = ss[j]
    BY DEF Put
  <1>2. \A j \in DOMAIN ss : ss[j].lastId \in 0..n
    BY DEF Numbered
  <1>3. \A e : <<e, n + 1>> \notin Range(sent)
    BY DEF Sent, Range
  <1>4. \A j \in DOMAIN tt : tt[j].lastId \in 0..n + 1
    BY <1>1, <1>2 DEF Fresh, Quiet
  <1>5. ASSUME NEW j \in DOMAIN tt, NEW k \in DOMAIN tt, j # k, tt[j].lastId = tt[k].lastId
        PROVE  tt[j].lastId = 0
    <2>1. CASE j # i /\ k # i
      BY <1>1, <1>5, <2>1 DEF Numbered
    <2>2. ASSUME NEW x \in DOMAIN ss, x # i, t.lastId = ss[x].lastId PROVE t.lastId = 0
      <3>1. CASE t.lastId = n + 1
        <4>1. ss[x].lastId \in 0..n
          BY <1>2
        <4> QED BY <2>2, <3>1, <4>1
      <3>2. CASE Quiet(ss[i], t)
        <4>1. ss[i].lastId = ss[x].lastId /\ t.lastId = ss[i].lastId
          BY <2>2, <3>2 DEF Quiet
        <4>2. ss[i].lastId = 0
          BY <2>2, <4>1 DEF Numbered
        <4> QED BY <4>1, <4>2
      <3> QED BY <3>1, <3>2 DEF Fresh
    <2> QED BY <1>1, <1>5, <2>1, <2>2
  <1>6. ASSUME NEW j \in DOMAIN tt, NEW e \in tt[j].requested \cap OnceEvents
        PROVE  tt[j].lastId # 0 /\ <<e, tt[j].lastId>> \notin Range(sent)
    <2>1. CASE j # i
      BY <1>1, <2>1 DEF Numbered
    <2>2. CASE j = i /\ Quiet(ss[i], t)
      BY <1>1, <2>2 DEF Numbered, Quiet
    <2>3. CASE j = i /\ t.lastId = n + 1
      BY <1>1, <1>3, <2>3
    <2> QED BY <1>1, <2>1, <2>2, <2>3 DEF Fresh
  <1> QED BY <1>4, <1>5, <1>6 DEF Numbered

LEMMA JoinedIs ==
  ASSUME NEW ss \in Seq(ASession), NEW t \in ASession, NEW tt, Joined(ss, t, tt)
  PROVE  /\ tt \in Seq(ASession) /\ DOMAIN tt = 1..Len(ss) + 1 /\ DOMAIN ss = 1..Len(ss)
         /\ Len(ss) \in Nat /\ tt[Len(ss) + 1] = t /\ \A j \in DOMAIN ss : tt[j] = ss[j]
PROOF
  BY DEF Joined

LEMMA JoinedKeeps ==
  ASSUME NEW ss \in Seq(ASession), NEW t \in ASession, NEW tt, Joined(ss, t, tt),
         NEW n \in Nat, NEW sent, Numbered(ss, n, sent), Sent(sent, n),
         (t.lastId = 0 /\ t.requested = {}) \/ t.lastId = n + 1
  PROVE  Numbered(tt, n + 1, sent)
PROOF
  <1> DEFINE N == Len(ss)
  <1>1. /\ DOMAIN tt = 1..N + 1 /\ DOMAIN ss = 1..N
        /\ N \in Nat /\ tt[N + 1] = t /\ \A j \in DOMAIN ss : tt[j] = ss[j]
    BY JoinedIs
  <1> HIDE DEF N
  <1>2. \A j \in DOMAIN ss : ss[j].lastId \in 0..n
    BY DEF Numbered
  <1>3. \A e : <<e, n + 1>> \notin Range(sent)
    BY DEF Sent, Range
  <1>7. \A j \in DOMAIN tt : j \in DOMAIN ss \/ (j = N + 1 /\ tt[j] = t)
    BY <1>1
  <1>4. \A j \in DOMAIN tt : tt[j].lastId \in 0..n + 1
    BY <1>1, <1>2, <1>7
  <1>5. ASSUME NEW j \in DOMAIN tt, NEW k \in DOMAIN tt, j # k, tt[j].lastId = tt[k].lastId
        PROVE  tt[j].lastId = 0
    <2>1. CASE j \in DOMAIN ss /\ k \in DOMAIN ss
      BY <1>1, <1>5, <2>1 DEF Numbered
    <2>2. \A x \in DOMAIN ss : t.lastId = ss[x].lastId => t.lastId = 0
      BY <1>2
    <2> QED BY <1>1, <1>5, <1>7, <2>1, <2>2
  <1>6. ASSUME NEW j \in DOMAIN tt, NEW e \in tt[j].requested \cap OnceEvents
        PROVE  tt[j].lastId # 0 /\ <<e, tt[j].lastId>> \notin Range(sent)
    <2>1. CASE j \in DOMAIN ss
      BY <1>1, <2>1 DEF Numbered
    <2>2. CASE tt[j] = t
      BY <1>3, <2>2
    <2> QED BY <1>7, <2>1, <2>2
  <1> QED BY <1>4, <1>5, <1>6 DEF Numbered

\* A session of the application's own, or one that no other covers.
LEMMA JoinedApart ==
  ASSUME NEW ss \in Seq(ASession), NEW t \in ASession, NEW tt, Joined(ss, t, tt),
         Settled(ss), Apart(ss), t.auto => t.honor /\ t.types # {},
         t.auto => \A j \in DOMAIN ss : ss[j].auto => ss[j].bare # t.bare \/ ss[j].types # t.types
  PROVE  tt \in Seq(ASession) /\ Settled(tt) /\ Apart(tt)
PROOF
  <1> DEFINE N == Len(ss)
  <1>1. /\ tt \in Seq(ASession) /\ DOMAIN tt = 1..N + 1 /\ DOMAIN ss = 1..N
        /\ N \in Nat /\ tt[N + 1] = t /\ \A j \in DOMAIN ss : tt[j] = ss[j]
    BY JoinedIs
  <1> HIDE DEF N
  <1>7. \A j \in DOMAIN tt : j \in DOMAIN ss \/ (j = N + 1 /\ tt[j] = t)
    BY <1>1
  <1>2. Settled(tt)
    BY <1>1, <1>7 DEF Settled
  <1>3. Apart(tt)
    BY <1>1, <1>7 DEF Apart
  <1> QED BY <1>1, <1>2, <1>3

LEMMA GoneIs ==
  ASSUME NEW ss \in Seq(ASession), NEW i \in DOMAIN ss, NEW tt, Gone(ss, i, tt)
  PROVE  /\ tt \in Seq(ASession) /\ DOMAIN tt = 1..Len(ss) - 1 /\ Len(ss) \in Nat
         /\ DOMAIN ss = 1..Len(ss)
         /\ \A j \in DOMAIN tt : tt[j] = ss[IF j < i THEN j ELSE j + 1]
PROOF
  <1> DEFINE N == Len(ss)
             a == SubSeq(ss, 1, i - 1)
             b == SubSeq(ss, i + 1, N)
  <1>1. tt = a \o b
    BY DEF Gone, RemoveAt
  <1>2. N \in Nat /\ DOMAIN ss = 1..N /\ i \in 1..N
    OBVIOUS
  <1> HIDE DEF N
  <1>3. /\ a \in Seq(ASession) /\ Len(a) = i - 1 /\ \A j \in 1..i - 1 : a[j] = ss[j]
    BY <1>2, SubSeqProperties DEF N
  <1>4. /\ b \in Seq(ASession) /\ Len(b) = N - i /\ \A j \in 1..N - i : b[j] = ss[j + i]
    BY <1>2, SubSeqProperties DEF N
  <1> HIDE DEF a, b
  <1>5. /\ tt \in Seq(ASession) /\ Len(tt) = N - 1
        /\ \A j \in 1..N - 1 : tt[j] = IF j <= i - 1 THEN a[j] ELSE b[j - (i - 1)]
    <2> DEFINE L == Len(a)
               M == Len(b)
               c == a \o b
    <2>1. /\ c \in Seq(ASession) /\ Len(c) = L + M
          /\ \A j \in 1..L + M : c[j] = IF j <= L THEN a[j] ELSE b[j - L]
      BY <1>3, <1>4, ConcatProperties
    <2> HIDE DEF L, M, c
    <2>2. L = i - 1 /\ M = N - i /\ tt = c
      BY <1>1, <1>3, <1>4 DEF L, M, c
    <2>3. L + M = N - 1
      BY <1>2, <2>2
    <2> QED BY <2>1, <2>2, <2>3
  <1>6. DOMAIN tt = 1..N - 1
    BY <1>2, <1>5
  <1>7. ASSUME NEW j \in 1..N - 1 PROVE tt[j] = ss[IF j < i THEN j ELSE j + 1]
    <2>1. CASE j < i
      <3>1. j \in 1..i - 1 /\ j <= i - 1
        BY <1>2, <2>1
      <3> QED BY <1>3, <1>5, <2>1, <3>1
    <2>2. CASE ~(j < i)
      <3>1. j - (i - 1) \in 1..N - i /\ ~(j <= i - 1) /\ j - (i - 1) + i = j + 1
        BY <1>2, <2>2
      <3> QED BY <1>4, <1>5, <2>2, <3>1
    <2> QED BY <2>1, <2>2
  <1> QED BY <1>2, <1>5, <1>6, <1>7 DEF N

LEMMA GoneKeeps ==
  ASSUME NEW ss \in Seq(ASession), NEW i \in DOMAIN ss, NEW tt, Gone(ss, i, tt),
         Settled(ss), Apart(ss), NEW n, NEW sent, Numbered(ss, n, sent)
  PROVE  tt \in Seq(ASession) /\ Settled(tt) /\ Apart(tt) /\ Numbered(tt, n, sent)
PROOF
  <1> DEFINE N == Len(ss)
             At(j) == IF j < i THEN j ELSE j + 1
  <1>1. /\ tt \in Seq(ASession) /\ DOMAIN tt = 1..N - 1 /\ N \in Nat /\ DOMAIN ss = 1..N
        /\ \A j \in DOMAIN tt : tt[j] = ss[At(j)]
    BY GoneIs
  <1> HIDE DEF N
  <1>2. \A j \in DOMAIN tt : At(j) \in DOMAIN ss
    BY <1>1
  <1>3. \A j, k \in DOMAIN tt : j # k => At(j) # At(k)
    BY <1>1
  <1> HIDE DEF At
  <1>4. Settled(tt)
    BY <1>1, <1>2 DEF Settled
  <1>5. Apart(tt)
    BY <1>1, <1>2, <1>3 DEF Apart
  <1>6. Numbered(tt, n, sent)
    BY <1>1, <1>2, <1>3 DEF Numbered
  <1> QED BY <1>1, <1>4, <1>5, <1>6

\* A call that only changes what a session shows or how it is reached.
LEMMA CallKeeps ==
  ASSUME ConvInv, NEW i \in DOMAIN sessions, NEW t \in ASession, Put(sessions, i, t, sessions'),
         Alike(sessions[i], t), Quiet(sessions[i], t), UNCHANGED <<received, sentEvents>>
  PROVE  ConvInv'
PROOF
  <1>1. /\ sessions \in Seq(ASession) /\ received \in Nat
        /\ Settled(sessions) /\ Apart(sessions)
        /\ Numbered(sessions, received, sentEvents) /\ Sent(sentEvents, received)
    BY DEF ConvInv
  <1>2. sessions' \in Seq(ASession) /\ Settled(sessions') /\ Apart(sessions')
    BY <1>1, PutKeeps
  <1>3. Numbered(sessions', received, sentEvents)
    BY <1>1, PutQuiet
  <1> QED BY <1>1, <1>2, <1>3 DEF ConvInv

\* What a message does to the session that has it.
LEMMA HandledIs ==
  ASSUME NEW s \in ASession, NEW m \in Messages, NEW id \in Nat
  PROVE  /\ Handled(s, m, id) \in ASession /\ Alike(s, Handled(s, m, id))
         /\ Fresh(s, Handled(s, m, id), id)
PROOF
  <1> DEFINE r == IF s.track THEN [s EXCEPT !.res = m.res] ELSE s
             t == IF s.had THEN r
                  ELSE [r EXCEPT !.had = TRUE,
                                 !.thread = IF m.thread = NoMsgThread THEN Own ELSE m.thread]
             u == Filtered(t, m, id)
  <1>1. m.res \in Resources /\ m.thread \in MsgThreads \cup {NoMsgThread} /\ m.events \in Asked
    BY DEF Messages
  <1>2. r \in ASession /\ Alike(s, r) /\ r.lastId = s.lastId /\ r.requested = s.requested
    BY <1>1 DEF ASession, Alike
  <1>3. t \in ASession /\ Alike(s, t) /\ t.lastId = s.lastId /\ t.requested = s.requested
    <2> HIDE DEF r
    <2> DEFINE th == IF m.thread = NoMsgThread THEN Own ELSE m.thread
               x == [r EXCEPT !.had = TRUE, !.thread = th]
    <2>1. th \in MsgThreads \cup {NoMsgThread, Own}
      BY <1>1
    <2>2. t = IF s.had THEN r ELSE x
      OBVIOUS
    <2> HIDE DEF th
    <2>3. x \in ASession /\ Alike(r, x) /\ x.lastId = r.lastId /\ x.requested = r.requested
      BY <1>2, <2>1 DEF ASession, Alike
    <2> HIDE DEF t, x
    <2> QED BY <1>2, <2>2, <2>3 DEF Alike
  <1> HIDE DEF r, t
  <1>4. u \in ASession /\ Alike(t, u) /\ Fresh(t, u, id)
    <2> DEFINE a == [t EXCEPT !.off = TRUE]
               b == [t EXCEPT !.requested = {}, !.lastId = 0]
               c == [t EXCEPT !.requested = m.events, !.lastId = id]
    <2>1. u \in {t, a, b, c}
      BY DEF Filtered
    <2>2. a \in ASession /\ Alike(t, a) /\ a.lastId = t.lastId /\ a.requested = t.requested
      BY <1>3 DEF ASession, Alike
    <2>3. b \in ASession /\ Alike(t, b) /\ b.lastId = 0 /\ b.requested = {}
      BY <1>3 DEF ASession, Alike
    <2>4. c \in ASession /\ Alike(t, c) /\ c.lastId = id
      <3>1. m.events \in SUBSET UNION Asked
        BY <1>1
      <3> QED BY <1>3, <3>1 DEF ASession, Alike
    <2> HIDE DEF u, a, b, c
    <2> QED BY <1>3, <2>1, <2>2, <2>3, <2>4 DEF Fresh, Quiet, Alike
  <1>5. Handled(s, m, id) = u
    BY DEF Handled, r, t
  <1> HIDE DEF u
  <1> QED BY <1>3, <1>4, <1>5 DEF Alike, Fresh, Quiet

LEMMA NewIs ==
  ASSUME NEW bare \in Contacts, NEW res \in Resources \cup {NoResource},
         NEW o \in [types : SUBSET Kinds, honor : BOOLEAN, track : BOOLEAN],
         NEW auto \in BOOLEAN
  PROVE  LET s == NewSession(bare, res, o, auto)
         IN /\ s \in ASession /\ s.bare = bare /\ s.types = o.types /\ s.honor = o.honor
            /\ s.auto = auto /\ s.lastId = 0 /\ s.requested = {}
PROOF
  BY DEF NewSession, ASession

LEMMA ReceiveKeeps ==
  ASSUME OpeningsKnown, ConvInv, NEW m \in Messages, ReceiveMessage(m)
  PROVE  ConvInv'
PROOF
  <1> DEFINE id == received + 1
             full == Candidates(m, TRUE)
             bare == Candidates(m, FALSE)
             ss == sessions
  <1>1. /\ ss \in Seq(ASession) /\ received \in Nat /\ Settled(ss) /\ Apart(ss)
        /\ Numbered(ss, received, sentEvents) /\ Sent(sentEvents, received)
    BY DEF ConvInv
  <1>2. received' = id /\ sentEvents' = sentEvents
    BY DEF ReceiveMessage
  <1>3. id \in Nat /\ Sent(sentEvents, id)
    BY <1>1 DEF Sent
  <1>4. CASE full \cup bare # {}
    <2> DEFINE i == First(IF full # {} THEN full ELSE bare)
               t == Handled(ss[i], m, id)
    <2>1. sessions' = [ss EXCEPT ![i] = t]
      BY <1>4 DEF ReceiveMessage
    <2>2. i \in DOMAIN ss
      <3> DEFINE C == IF full # {} THEN full ELSE bare
      <3>1. C \subseteq DOMAIN ss /\ C # {}
        BY <1>4 DEF Candidates
      <3> HIDE DEF C, full, bare
      <3>2. C \subseteq Nat
        <4>1. DOMAIN ss \subseteq Nat
          <5> HIDE DEF ss
          <5> QED BY <1>1
        <4> QED BY <3>1, <4>1
      <3>3. First(C) \in C
        BY <3>1, <3>2, LeastIs DEF First
      <3> QED BY <3>1, <3>3 DEF C
    <2> HIDE DEF i
    <2>3. t \in ASession /\ Alike(ss[i], t) /\ Fresh(ss[i], t, id)
      <3>1. ss[i] \in ASession
        BY <1>1, <2>2
      <3> QED BY <1>3, <3>1, HandledIs
    <2> HIDE DEF t
    <2>4. Put(ss, i, t, sessions')
      BY <2>1 DEF Put
    <2>5. sessions' \in Seq(ASession) /\ Settled(sessions') /\ Apart(sessions')
      BY <1>1, <2>2, <2>3, <2>4, PutKeeps
    <2>6. Numbered(sessions', id, sentEvents)
      BY <1>1, <2>2, <2>3, <2>4, PutFresh
    <2> QED BY <1>2, <1>3, <2>5, <2>6 DEF ConvInv
  <1>5. CASE full \cup bare = {}
    <2> DEFINE s == NewSession(m.bare, m.res, ForMessage(m), TRUE)
               t == Handled(s, m, id)
    <2>1. sessions' = Append(ss, t)
      BY <1>5 DEF ReceiveMessage
    <2>2. /\ m.bare \in Contacts /\ m.res \in Resources \cup {NoResource} /\ m.kind \in Kinds
      BY DEF Messages
    <2>3. /\ s \in ASession /\ s.bare = m.bare /\ s.types = {m.kind} /\ s.honor = TRUE
          /\ s.auto = TRUE /\ s.lastId = 0 /\ s.requested = {}
      <3> DEFINE o == ForMessage(m)
      <3>1. /\ o \in [types : SUBSET Kinds, honor : BOOLEAN, track : BOOLEAN]
            /\ o.types = {m.kind} /\ o.honor = TRUE
        BY <2>2 DEF ForMessage
      <3> HIDE DEF o
      <3>2. /\ s \in ASession /\ s.bare = m.bare /\ s.types = o.types /\ s.honor = o.honor
            /\ s.auto = TRUE /\ s.lastId = 0 /\ s.requested = {}
        <4>1. \A y \in BOOLEAN :
                LET x == NewSession(m.bare, m.res, o, y)
                IN /\ x \in ASession /\ x.bare = m.bare /\ x.types = o.types
                   /\ x.honor = o.honor /\ x.auto = y /\ x.lastId = 0 /\ x.requested = {}
          BY <2>2, <3>1, NewIs
        <4>2. s = NewSession(m.bare, m.res, o, TRUE)
          BY DEF o
        <4> HIDE DEF s
        <4> QED BY <4>1, <4>2
      <3> QED BY <3>1, <3>2
    <2> HIDE DEF s
    <2>4. t \in ASession /\ Alike(s, t) /\ Fresh(s, t, id)
      BY <1>3, <2>3, HandledIs
    <2> HIDE DEF t
    <2>5. Joined(ss, t, sessions')
      BY <2>1 DEF Joined
    <2>6. (t.lastId = 0 /\ t.requested = {}) \/ t.lastId = id
      BY <2>3, <2>4 DEF Fresh, Quiet
    <2>7. /\ t.auto => t.honor /\ t.types # {}
          /\ t.bare = m.bare /\ t.types = {m.kind}
      BY <2>3, <2>4 DEF Alike
    <2>8. ASSUME NEW j \in DOMAIN ss, ss[j].auto
          PROVE  ss[j].bare # t.bare \/ ss[j].types # t.types
      <3>1. ~(ss[j].bare = m.bare /\ ThreadFits(ss[j], m) /\ KindFits(ss[j], m))
        BY <1>5 DEF Candidates
      <3>2. ThreadFits(ss[j], m)
        BY <1>1, <2>8 DEF Settled, ThreadFits
      <3> QED BY <2>7, <3>1, <3>2 DEF KindFits
    <2>9. sessions' \in Seq(ASession) /\ Settled(sessions') /\ Apart(sessions')
      BY <1>1, <2>4, <2>5, <2>7, <2>8, JoinedApart
    <2>10. Numbered(sessions', id, sentEvents)
      BY <1>1, <2>4, <2>5, <2>6, JoinedKeeps
    <2> QED BY <1>2, <1>3, <2>9, <2>10 DEF ConvInv
  <1> QED BY <1>4, <1>5

LEMMA OpenKeeps ==
  ASSUME OpeningsKnown, ConvInv, NEW b \in Contacts, NEW r \in Resources \cup {NoResource},
         NEW o \in OpenedAs, Open(b, r, o)
  PROVE  ConvInv'
PROOF
  <1> DEFINE t == NewSession(b, r, o, FALSE)
             ss == sessions
  <1>1. /\ ss \in Seq(ASession) /\ received \in Nat /\ Settled(ss) /\ Apart(ss)
        /\ Numbered(ss, received, sentEvents) /\ Sent(sentEvents, received)
    BY DEF ConvInv
  <1>2. Joined(ss, t, sessions') /\ received' = received /\ sentEvents' = sentEvents
    BY DEF Open, Joined
  <1>3. t \in ASession /\ t.auto = FALSE /\ t.lastId = 0 /\ t.requested = {}
    <2>1. o \in [types : SUBSET Kinds, honor : BOOLEAN, track : BOOLEAN]
      BY DEF OpeningsKnown
    <2>2. \A y \in BOOLEAN :
            LET x == NewSession(b, r, o, y)
            IN x \in ASession /\ x.auto = y /\ x.lastId = 0 /\ x.requested = {}
      BY <2>1, NewIs
    <2> HIDE DEF t
    <2> QED BY <2>2 DEF t
  <1> HIDE DEF t
  <1>4. sessions' \in Seq(ASession) /\ Settled(sessions') /\ Apart(sessions')
    BY <1>1, <1>2, <1>3, JoinedApart
  <1>5. Numbered(sessions', received, sentEvents)
    <2>1. /\ DOMAIN sessions' = 1..Len(ss) + 1 /\ DOMAIN ss = 1..Len(ss)
          /\ Len(ss) \in Nat /\ sessions'[Len(ss) + 1] = t
          /\ \A j \in DOMAIN ss : sessions'[j] = ss[j]
      BY <1>1, <1>2, <1>3, JoinedIs
    <2> DEFINE N == Len(ss)
               tt == sessions'
    <2>2. \A j \in DOMAIN tt : j \in DOMAIN ss \/ (j = N + 1 /\ tt[j] = t)
      BY <2>1
    <2>3. \A j \in DOMAIN ss : tt[j] = ss[j]
      BY <2>1
    <2> HIDE DEF N, tt, ss
    <2>4. \A j \in DOMAIN tt : tt[j].lastId \in 0..received
      BY <1>1, <1>3, <2>2, <2>3 DEF Numbered
    <2>5. ASSUME NEW j \in DOMAIN tt, NEW k \in DOMAIN tt, j # k, tt[j].lastId = tt[k].lastId
          PROVE  tt[j].lastId = 0
      BY <1>1, <1>3, <2>2, <2>3, <2>5 DEF Numbered
    <2>6. ASSUME NEW j \in DOMAIN tt, NEW e \in tt[j].requested \cap OnceEvents
          PROVE  tt[j].lastId # 0 /\ <<e, tt[j].lastId>> \notin Range(sentEvents)
      BY <1>1, <1>3, <2>2, <2>3 DEF Numbered
    <2> QED BY <2>4, <2>5, <2>6 DEF Numbered, tt
  <1> QED BY <1>1, <1>2, <1>4, <1>5 DEF ConvInv

LEMMA RaiseKeeps ==
  ASSUME ConvInv, NEW i \in DOMAIN sessions, NEW e \in Events \cup {"cancel"}, Raise(i, e)
  PROVE  ConvInv'
PROOF
  <1> DEFINE s == sessions[i]
             t == [s EXCEPT !.requested = LeftAfter(s, e), !.lastSent = e]
             ss == sessions
  <1>1. /\ ss \in Seq(ASession) /\ received \in Nat /\ Settled(ss) /\ Apart(ss)
        /\ Numbered(ss, received, sentEvents) /\ Sent(sentEvents, received)
    BY DEF ConvInv
  <1>2. s \in ASession
    BY <1>1
  <1>3. /\ e \in s.requested \/ e = "cancel"
        /\ sentEvents' = IF e \in OnceEvents THEN Append(sentEvents, <<e, s.lastId>>)
                         ELSE sentEvents
        /\ received' = received
    BY DEF Raise
  <1>4. Put(ss, i, t, sessions')
    <2>1. sessions' = [ss EXCEPT ![i].requested = LeftAfter(s, e), ![i].lastSent = e]
      BY DEF Raise
    <2> QED BY <1>1, <1>2, <2>1 DEF Put, ASession
  <1>5. LeftAfter(s, e) \subseteq s.requested
    BY DEF LeftAfter
  <1>6. /\ t \in ASession /\ Alike(s, t) /\ Quiet(s, t) /\ t.requested = LeftAfter(s, e)
        /\ t.lastId = s.lastId
    BY <1>2, <1>5 DEF ASession, Alike, Quiet
  <1>7. CASE e \notin OnceEvents
    <2> HIDE DEF s, t
    <2> QED BY <1>3, <1>4, <1>6, <1>7, CallKeeps DEF s
  <1>8. CASE e \in OnceEvents
    <2> HIDE DEF t
    <2>1. sessions' \in Seq(ASession) /\ Settled(sessions') /\ Apart(sessions')
      BY <1>1, <1>4, <1>6, PutKeeps
    <2>2. Numbered(sessions', received, sentEvents)
      BY <1>1, <1>4, <1>6, PutQuiet
    <2>3. e \in s.requested
      BY <1>3, <1>8 DEF OnceEvents
    <2>4. s.lastId \in 1..received /\ <<e, s.lastId>> \notin Range(sentEvents)
      <3>1. s.lastId # 0 /\ <<e, s.lastId>> \notin Range(sentEvents)
        BY <1>1, <1>8, <2>3 DEF Numbered
      <3>2. s.lastId \in 0..received
        BY <1>1 DEF Numbered
      <3> HIDE DEF s
      <3> QED BY <1>1, <3>1, <3>2
    <2> HIDE DEF s
    <2> DEFINE p == <<e, s.lastId>>
               q == Append(sentEvents, p)
               K == Len(sentEvents)
    <2>5. sentEvents \in Seq(OnceEvents \X Nat) /\ p \in OnceEvents \X Nat
          /\ p[2] = s.lastId
      BY <1>1, <1>8, <2>4 DEF Sent
    <2> HIDE DEF p
    <2>6. /\ q \in Seq(OnceEvents \X Nat) /\ DOMAIN q = 1..K + 1 /\ K \in Nat
          /\ DOMAIN sentEvents = 1..K /\ q[K + 1] = p
          /\ \A k \in 1..K : q[k] = sentEvents[k]
      BY <2>5
    <2> HIDE DEF q, K
    <2>7. p \notin Range(sentEvents)
      BY <2>4 DEF p
    <2>8. \A k \in 1..K : sentEvents[k] # p
      BY <2>6, <2>7 DEF Range
    <2>9. IsInjective(sentEvents) /\ \A k \in 1..K : sentEvents[k][2] \in 1..received
      BY <1>1, <2>6 DEF Sent
    <2>10. Sent(q, received)
      <3>1. IsInjective(q)
        BY <2>6, <2>8, <2>9 DEF IsInjective
      <3>2. \A k \in DOMAIN q : q[k][2] \in 1..received
        BY <2>4, <2>5, <2>6, <2>9
      <3> QED BY <2>6, <3>1, <3>2 DEF Sent
    <2>11. \A y : y \in Range(q) => y \in Range(sentEvents) \/ y = p
      <3> SUFFICES ASSUME NEW k \in DOMAIN q PROVE q[k] \in Range(sentEvents) \/ q[k] = p
        BY DEF Range
      <3>1. k = K + 1 \/ k \in 1..K
        BY <2>6
      <3> QED BY <2>6, <3>1 DEF Range
    <2>12. Numbered(sessions', received, q)
      <3>1. /\ DOMAIN sessions' = DOMAIN ss /\ sessions'[i] = t
            /\ \A j \in DOMAIN ss : j # i => sessions'[j] = ss[j]
        BY <1>1, <1>4 DEF Put
      <3>2. ASSUME NEW j \in DOMAIN sessions', NEW x \in sessions'[j].requested \cap OnceEvents
            PROVE  <<x, sessions'[j].lastId>> # p
        <4>1. CASE j = i
          <5>1. e \notin sessions'[j].requested
            BY <1>6, <1>8, <3>1, <4>1 DEF LeftAfter
          <5> QED BY <5>1 DEF p
        <4>2. CASE j # i
          <5>1. sessions'[j].lastId # sessions'[i].lastId
            BY <2>2, <3>1, <3>2, <4>2 DEF Numbered
          <5>2. sessions'[i].lastId = s.lastId
            BY <1>6, <3>1
          <5> QED BY <5>1, <5>2 DEF p
        <4> QED BY <4>1, <4>2
      <3> QED BY <2>2, <2>11, <3>2 DEF Numbered
    <2>13. sentEvents' = q
      BY <1>3, <1>8 DEF q, p
    <2> QED BY <1>1, <1>3, <2>1, <2>10, <2>12, <2>13 DEF ConvInv
  <1> QED BY <1>7, <1>8

LEMMA ConvStep == ASSUME OpeningsKnown, ConvInv, [ConvNext]_convVars PROVE ConvInv'
PROOF
  <1>1. CASE UNCHANGED convVars
    BY <1>1 DEF convVars, ConvInv
  <1>2. ASSUME NEW m \in Messages, ReceiveMessage(m) PROVE ConvInv'
    BY <1>2, ReceiveKeeps
  <1>3. ASSUME NEW b \in Contacts, NEW r \in Resources \cup {NoResource}, NEW o \in OpenedAs,
               Open(b, r, o)
        PROVE  ConvInv'
    BY <1>3, OpenKeeps
  <1>4. ASSUME NEW i \in DOMAIN sessions, Dispose(i) PROVE ConvInv'
    <2>1. Gone(sessions, i, sessions') /\ received' = received /\ sentEvents' = sentEvents
      BY <1>4 DEF Dispose, Gone
    <2> QED BY <2>1, GoneKeeps DEF ConvInv
  <1> DEFINE Called(i, t) == /\ t \in ASession /\ Put(sessions, i, t, sessions')
                             /\ Alike(sessions[i], t) /\ Quiet(sessions[i], t)
                             /\ UNCHANGED <<received, sentEvents>>
  <1>5. ASSUME NEW i \in DOMAIN sessions, NEW t, Called(i, t) PROVE ConvInv'
    BY <1>5, CallKeeps
  <1>6. sessions \in Seq(ASession)
    BY DEF ConvInv
  <1>7. ASSUME NEW i \in DOMAIN sessions, ResetResource(i) PROVE ConvInv'
    <2> DEFINE t == [sessions[i] EXCEPT !.res = NoResource]
    <2>1. sessions[i] \in ASession
      BY <1>6
    <2>2. t \in ASession /\ Alike(sessions[i], t) /\ Quiet(sessions[i], t)
      BY <2>1 DEF ASession, Alike, Quiet
    <2>3. Put(sessions, i, t, sessions') /\ UNCHANGED <<received, sentEvents>>
      BY <1>7 DEF ResetResource, Put
    <2> HIDE DEF t
    <2> QED BY <1>5, <2>2, <2>3
  <1>8. ASSUME NEW i \in DOMAIN sessions, SendMessage(i) PROVE ConvInv'
    <2> DEFINE s == sessions[i]
               d == Decorated(s)
               t == [d EXCEPT !.thread = IF d.had THEN @ ELSE Own, !.had = TRUE]
    <2>1. s \in ASession
      BY <1>6
    <2>2. d \in ASession /\ Alike(s, d) /\ Quiet(s, d)
      BY <2>1 DEF Decorated, ASession, Alike, Quiet
    <2>3. t \in ASession /\ Alike(s, t) /\ Quiet(s, t)
      <3> HIDE DEF s, d
      <3> DEFINE th == IF d.had THEN d.thread ELSE Own
      <3>1. th \in MsgThreads \cup {NoMsgThread, Own} /\ t = [d EXCEPT !.thread = th, !.had = TRUE]
        BY <2>2 DEF ASession
      <3> HIDE DEF th, t
      <3>2. t \in ASession /\ Alike(d, t) /\ Quiet(d, t)
        BY <2>2, <3>1 DEF ASession, Alike, Quiet
      <3> QED BY <2>2, <3>2 DEF Alike, Quiet
    <2>4. Put(sessions, i, t, sessions')
      <3>1. sessions' = [sessions EXCEPT ![i] = t]
        BY <1>8 DEF SendMessage
      <3> QED BY <3>1 DEF Put
    <2>5. UNCHANGED <<received, sentEvents>>
      BY <1>8 DEF SendMessage
    <2> HIDE DEF t
    <2> QED BY <1>5, <2>3, <2>4, <2>5
  <1>9. ASSUME NEW i \in DOMAIN sessions, NEW e \in Events \cup {"cancel"}, Raise(i, e)
        PROVE  ConvInv'
    BY <1>9, RaiseKeeps
  <1>10. ASSUME NEW i \in DOMAIN sessions, NEW st \in {"active", "gone"}, SetChatState(i, st)
         PROVE  ConvInv'
    <2> DEFINE s == sessions[i]
               v == IF st = s.state THEN s.shown ELSE st
               t == [s EXCEPT !.wanted = st, !.state = st, !.shown = v]
    <2>1. s \in ASession
      BY <1>6
    <2>2. v \in {"active", "gone"}
      BY <2>1 DEF ASession
    <2>3. Put(sessions, i, t, sessions') /\ UNCHANGED <<received, sentEvents>>
      <3>1. sessions' = [sessions EXCEPT ![i].wanted = st, ![i].state = st,
                    ![i].shown = IF st = sessions[i].state THEN @ ELSE st]
            /\ UNCHANGED <<received, sentEvents>>
        BY <1>10 DEF SetChatState
      <3> QED BY <1>6, <2>1, <3>1 DEF Put, ASession
    <2> HIDE DEF v
    <2>4. t \in ASession /\ Alike(s, t) /\ Quiet(s, t)
      BY <2>1, <2>2 DEF ASession, Alike, Quiet
    <2> HIDE DEF t
    <2> QED BY <1>5, <2>3, <2>4
  <1> QED BY <1>1, <1>2, <1>3, <1>4, <1>7, <1>8, <1>9, <1>10 DEF ConvNext

\* A contact who writes has one session for each kind of message.
THEOREM SessionTheorem == ASSUME OpeningsKnown PROVE ConvSpec => []OneSession
PROOF
  <1>1. ConvInit => ConvInv
    BY ConvStart
  <1>2. ConvInv /\ [ConvNext]_convVars => ConvInv'
    BY ConvStep
  <1>3. ConvInv => OneSession
    BY DEF ConvInv, Apart, OneSession
  <1> QED BY <1>1, <1>2, <1>3, PTL DEF ConvSpec

\* "Delivered" and "displayed" are sent once for a message, and only if it asked.
THEOREM EventsTheorem == ASSUME OpeningsKnown PROVE ConvSpec => []EventsOnce
PROOF
  <1>1. ConvInit => ConvInv
    BY ConvStart
  <1>2. ConvInv /\ [ConvNext]_convVars => ConvInv'
    BY ConvStep
  <1>3. ConvInv => EventsOnce
    <2> HAVE ConvInv
    <2>1. /\ IsInjective(sentEvents) /\ received \in Nat
          /\ \A k \in DOMAIN sentEvents : sentEvents[k][2] \in 1..received
      BY DEF ConvInv, Sent
    <2> QED BY <2>1 DEF EventsOnce
  <1> QED BY <1>1, <1>2, <1>3, PTL DEF ConvSpec

=============================================================================
