--------------------------- MODULE ServicesProofs ---------------------------
(***************************************************************************)
(* Proofs about the composition of the services: what is proved elsewhere  *)
(* of the roster and a room, the invariants of a Jingle session, of a file *)
(* transfer and of the requests, which are its own, and what is proved     *)
(* elsewhere of a BOSH connection, the lists of handlers and the sessions  *)
(* of messages, which do here what they do alone.                          *)
(***************************************************************************)
EXTENDS MCServices, BooksProofs, NaturalsInduction

-----------------------------------------------------------------------------
(* The roster and a room: what BooksProofs shows. *)

\* When nothing is on its way the roster has the names and the presences the
\* server has, through losses, pushes and changes of other clients
\* (rostermanager.cpp:172-456).
THEOREM RosterTheorem == ServicesSpec => [](RosterMirrors /\ PresenceMirrors)
PROOF
  <1>1. ServicesInit => RosterInv
    BY RosterStart DEF ServicesInit
  <1>2. ASSUME RosterInv,
               [ServicesNext]_<<part, rosterVars, mucVars, talkVars, requestVars, jingleVars,
                                ftVars, listVars, boshVars>>
        PROVE  RosterInv'
    <2>1. [RosterNext]_rosterVars
      BY <1>2 DEF ServicesNext, RestRoster, RestBooks
    <2> QED BY <1>2, <2>1, RosterSteps
  <1> QED BY <1>1, <1>2, RosterBooks, PTL DEF ServicesSpec

\* A room too shows the user's own place as the room has it, when each presence
\* is answered before the next (rostermanager.cpp:172-456; mucroom.cpp:648-977).
THEOREM BooksTheorem == ASSUME RoomInTurn PROVE ServicesSpec => []BooksMirror
PROOF
  <1>1. ServicesInit => MucInv
    BY MucStart DEF ServicesInit
  <1>2. ASSUME MucInv,
               [ServicesNext]_<<part, rosterVars, mucVars, talkVars, requestVars, jingleVars,
                                ftVars, listVars, boshVars>>
        PROVE  MucInv'
    <2>1. [MucNext]_mucVars
      BY <1>2 DEF ServicesNext, RestRoom, RestBooks
    <2> QED BY <1>2, <2>1, MucSteps
  <1>3. RosterMirrors /\ PresenceMirrors /\ NickMirrors <=> BooksMirror
    BY DEF BooksMirror
  <1> QED BY <1>1, <1>2, <1>3, MucBooks, RosterTheorem, PTL DEF ServicesSpec

-----------------------------------------------------------------------------
(* A Jingle session. *)

\* One thing is under way at a time, an end discards only what is over, and a
\* server returns nothing but an initiation.
JingleInTurn == Waits /\ Keeps /\ Bounced \subseteq {"session-initiate"}

KeptSessions == [there : BOOLEAN, state : States, initiator : BOOLEAN, made : Nat]
Underways == [kind : {"action", "result", "error"}, action : Actions, made : Nat]

\* What is on its way to end e, in one piece: a request of the other end that has
\* gone on already, an answer, or an initiation that came back.
ComesTo(e, m) ==
  /\ m \in Underways /\ wire[e] = <<m>> /\ wire[Peer(e)] = <<>>
  /\ m.kind = "action" =>
       LET s == session[Peer(e)]
       IN  /\ s.there /\ s.made = m.made /\ s.state = StateAfter(m.action, session[e].state)
           /\ m.action = "session-initiate" => session[e].state = "Ended"
  /\ m.kind = "result" => session[e].state = session[Peer(e)].state
  /\ m.kind = "error" =>
       /\ m.action = "session-initiate" /\ session[e].there /\ session[e].made = m.made
       /\ session[Peer(e)].state = "Ended"

JingleInv ==
  /\ session \in [Ends -> KeptSessions] /\ wire \in [Ends -> Seq(Underways)]
  /\ announced \in [Ends -> SUBSET Actions] /\ acted \in 0..MaxActions
  /\ \A e \in Ends : ~session[e].there => session[e].state = "Ended"
  /\ \/ Quiet /\ session["initiator"].state = session["responder"].state
     \/ \E e \in Ends, m \in Underways : ComesTo(e, m)

LEMMA Peers ==
  /\ Peer("initiator") = "responder" /\ Peer("responder") = "initiator"
  /\ \A e \in Ends : Peer(e) \in Ends /\ Peer(e) # e /\ Peer(Peer(e)) = e
                     /\ \A d \in Ends : d = e \/ d = Peer(e)
PROOF
  <1>1. \A p \in Ends : p # "initiator" <=> p = "responder"
    BY DEF Ends
  <1>2. Peer("initiator") = "responder"
    BY <1>1 DEF Peer, Ends
  <1>3. Peer("responder") = "initiator"
    BY <1>1 DEF Peer, Ends
  <1> QED BY <1>2, <1>3 DEF Ends

LEMMA NothingKept ==
  /\ NoSession \in KeptSessions /\ ~NoSession.there /\ NoSession.state = "Ended"
  /\ \A i \in Nat :
       LET x == [NoSession EXCEPT !.made = i]
           y == [NoSession EXCEPT !.there = TRUE, !.made = i]
           z == [NoSession EXCEPT !.there = TRUE, !.initiator = TRUE, !.made = i]
       IN  /\ {x, y, z} \subseteq KeptSessions /\ y.there /\ z.there
           /\ x.state = "Ended" /\ y.state = "Ended" /\ z.state = "Ended"
PROOF
  <1>1. NoSession \in KeptSessions /\ ~NoSession.there /\ NoSession.state = "Ended"
    BY DEF NoSession, KeptSessions, States
  <1> QED BY <1>1 DEF KeptSessions

LEMMA JingleStart == JingleInit => JingleInv
PROOF
  <1> SUFFICES ASSUME JingleInit PROVE JingleInv
    OBVIOUS
  <1>1. session \in [Ends -> KeptSessions] /\ \A e \in Ends : session[e].state = "Ended"
    BY DEF JingleInit, NoSession, KeptSessions, States
  <1>2. wire \in [Ends -> Seq(Underways)] /\ Quiet
    BY DEF JingleInit, Quiet
  <1>3. announced \in [Ends -> SUBSET Actions] /\ acted \in 0..MaxActions
    BY JingleAssumption DEF JingleInit
  <1> QED BY <1>1, <1>2, <1>3 DEF JingleInv, Ends

\* What one end takes and the other gets, when nothing else is under way.
LEMMA OneMoves ==
  ASSUME wire \in [Ends -> Seq(Underways)], NEW e \in Ends, NEW m \in Underways,
         wire[e] = <<m>>, wire[Peer(e)] = <<>>, NEW n \in Underways,
         wire' = [wire EXCEPT ![e] = Tail(@), ![Peer(e)] = Append(@, n)]
  PROVE  /\ wire' \in [Ends -> Seq(Underways)]
         /\ wire'[Peer(e)] = <<n>> /\ wire'[e] = <<>>
PROOF
  <1>1. Peer(e) \in Ends /\ Peer(e) # e
    BY Peers
  <1>2. wire'[e] = Tail(<<m>>) /\ wire'[Peer(e)] = Append(<<>>, n)
    BY <1>1
  <1>3. Tail(<<m>>) = <<>> /\ Append(<<>>, n) = <<n>>
    OBVIOUS
  <1>4. \A d \in Ends : wire'[d] \in Seq(Underways)
    BY <1>1, <1>2, <1>3, Peers
  <1> QED BY <1>2, <1>3, <1>4

LEMMA NotQuiet ==
  ASSUME NEW e \in Ends, NEW m \in Underways, ComesTo(e, m)
  PROVE  ~Quiet
PROOF
  <1>1. wire[e] = <<m>> /\ Len(<<m>>) = 1
    BY DEF ComesTo
  <1>2. wire[e] # <<>>
    BY <1>1
  <1> QED BY <1>2 DEF Quiet

LEMMA JingleStep ==
  ASSUME JingleInTurn, JingleInv, [JingleNext]_jingleVars
  PROVE  JingleInv'
PROOF
  <1>0. /\ session \in [Ends -> KeptSessions] /\ wire \in [Ends -> Seq(Underways)]
        /\ announced \in [Ends -> SUBSET Actions] /\ acted \in 0..MaxActions
        /\ \A e \in Ends : ~session[e].there => session[e].state = "Ended"
    BY DEF JingleInv
  <1>1. CASE UNCHANGED jingleVars
    <2>1. session' = session /\ wire' = wire /\ announced' = announced /\ acted' = acted
      BY <1>1 DEF jingleVars
    <2>2. Quiet => Quiet'
      BY <2>1 DEF Quiet
    <2>3. \A e \in Ends, m \in Underways : ComesTo(e, m) => ComesTo(e, m)'
      BY <2>1 DEF ComesTo
    <2> QED BY <2>1, <2>2, <2>3 DEF JingleInv
  <1>2. CASE Creates
    <2> DEFINE x == [NoSession EXCEPT !.there = TRUE, !.initiator = TRUE, !.made = 1]
    <2>1. /\ ~session["initiator"].there /\ "initiator" \in Ends
          /\ session' = [session EXCEPT !["initiator"] = x]
          /\ x \in KeptSessions /\ x.there /\ x.state = "Ended"
          /\ UNCHANGED <<wire, announced, acted>>
      BY <1>2, NothingKept DEF Creates, Ends
    <2> HIDE DEF x
    <2>2. /\ session' \in [Ends -> KeptSessions]
          /\ \A e \in Ends : session'[e].state = session[e].state
          /\ \A e \in Ends : session[e].there => session'[e] = session[e]
          /\ \A e \in Ends : session[e].there => session'[e].there
      BY <1>0, <2>1
    <2>3. \A e \in Ends : ~session'[e].there => session'[e].state = "Ended"
      BY <1>0, <2>1, <2>2
    <2>4. ASSUME NEW e \in Ends, NEW m \in Underways, ComesTo(e, m) PROVE ComesTo(e, m)'
      BY <2>1, <2>2, <2>4, Peers DEF ComesTo
    <2> QED BY <1>0, <2>1, <2>2, <2>3, <2>4 DEF JingleInv, Quiet, Ends
  <1>3. ASSUME NEW e \in Ends, NEW action \in Actions, Acts(e, action) PROVE JingleInv'
    <2> DEFINE s == session[e]
               p == Peer(e)
    <2> PICK m : m = [kind |-> "action", action |-> action, made |-> s.made]
      OBVIOUS
    <2>1. /\ s \in KeptSessions /\ s.there /\ MayAct(s, action) /\ Quiet
          /\ session' = [session EXCEPT ![e].state = StateAfter(action, s.state)]
          /\ wire' = [wire EXCEPT ![p] = Append(@, m)]
          /\ UNCHANGED announced /\ acted' \in 0..MaxActions
      BY <1>0, <1>3, JingleAssumption DEF Acts, JingleInTurn
    <2>2. p \in Ends /\ p # e /\ Peer(p) = e /\ \A d \in Ends : d = e \/ d = p
      BY Peers
    <2>3. s.state = session[p].state
      <3>1. ~\E d \in Ends, n \in Underways : ComesTo(d, n)
        BY <2>1 DEF Quiet, ComesTo
      <3>2. session["initiator"].state = session["responder"].state
        BY <3>1 DEF JingleInv
      <3> QED BY <2>2, <3>2 DEF Ends
    <2>4. m \in Underways /\ m.kind = "action" /\ m.action = action /\ m.made = s.made
      BY <2>1 DEF Underways, KeptSessions
    <2>5. StateAfter(action, s.state) \in States
      BY <2>1 DEF StateAfter, KeptSessions, States
    <2>6. /\ session' \in [Ends -> KeptSessions] /\ session'[p] = session[p]
          /\ session'[e].there /\ session'[e].made = s.made
          /\ session'[e].state = StateAfter(action, s.state)
      BY <1>0, <2>1, <2>2, <2>5 DEF KeptSessions
    <2>7. wire' \in [Ends -> Seq(Underways)] /\ wire'[p] = <<m>> /\ wire'[e] = <<>>
      <3>1. wire[p] = <<>> /\ wire[e] = <<>>
        BY <2>1, <2>2 DEF Quiet
      <3>2. wire'[p] = Append(<<>>, m) /\ wire'[e] = <<>>
        BY <1>0, <2>1, <2>2, <3>1
      <3>3. Append(<<>>, m) = <<m>> /\ <<m>> \in Seq(Underways) /\ <<>> \in Seq(Underways)
        BY <2>4
      <3>4. \A d \in Ends : wire'[d] \in Seq(Underways)
        BY <2>2, <3>2, <3>3
      <3>5. DOMAIN wire' = Ends /\ wire' = [d \in Ends |-> wire'[d]]
        BY <1>0, <2>1
      <3> QED BY <3>2, <3>3, <3>4, <3>5
    <2>8. action = "session-initiate" => s.state = "Ended"
      BY <2>1 DEF MayAct
    <2>9. ComesTo(p, m)'
      BY <2>2, <2>3, <2>4, <2>6, <2>7, <2>8 DEF ComesTo
    <2>10. \A d \in Ends : ~session'[d].there => session'[d].state = "Ended"
      BY <1>0, <2>2, <2>6
    <2> QED BY <1>0, <2>1, <2>2, <2>4, <2>6, <2>7, <2>9, <2>10 DEF JingleInv
  <1>4. ASSUME NEW e \in Ends, wire[e] # <<>>
        PROVE  \E m \in Underways : ComesTo(e, m)
    <2>1. ~Quiet
      BY <1>4 DEF Quiet
    <2>2. PICK d \in Ends, m \in Underways : ComesTo(d, m)
      BY <2>1 DEF JingleInv
    <2>3. d = e
      BY <1>4, <2>2, Peers DEF ComesTo
    <2> QED BY <2>2, <2>3
  <1>5. ASSUME NEW e \in Ends, Receives(e) PROVE JingleInv'
    <2>1. PICK m \in Underways : ComesTo(e, m)
      BY <1>4, <1>5 DEF Receives
    <2>2. Head(wire[e]) = m
      BY <2>1 DEF ComesTo
    <2> DEFINE p == Peer(e)
               s == IF session[e].there THEN session[e]
                    ELSE [NoSession EXCEPT !.there = TRUE, !.made = session[e].made + 1]
               n == [m EXCEPT !.kind = "result"]
               t == Heard(s, m.action)
    <2>3. /\ m.kind = "action" /\ session' = [session EXCEPT ![e] = t]
          /\ announced' = IF session[e].there THEN announced
                          ELSE [announced EXCEPT ![e] = @ \cup {m.action}]
          /\ wire' = [wire EXCEPT ![e] = Tail(@), ![p] = Append(@, n)]
          /\ UNCHANGED acted
      BY <1>5, <2>2 DEF Receives
    <2>4. p \in Ends /\ p # e /\ Peer(p) = e /\ \A d \in Ends : d = e \/ d = p
      BY Peers
    <2>5. n \in Underways /\ n.kind = "result"
      BY DEF Underways
    <2>6. s \in KeptSessions /\ s.there /\ s.state = session[e].state
      <3>1. CASE session[e].there
        BY <1>0, <3>1
      <3>2. CASE ~session[e].there
        <4>1. s = [NoSession EXCEPT !.there = TRUE, !.made = session[e].made + 1]
          BY <3>2
        <4>2. session[e].made + 1 \in Nat /\ session[e].state = "Ended"
          BY <1>0, <3>2 DEF KeptSessions
        <4> QED BY <4>1, <4>2, NothingKept
      <3> QED BY <3>1, <3>2
    <2> HIDE DEF s
    <2>7. t \in KeptSessions /\ t.there /\ t.state = StateAfter(m.action, session[e].state)
      BY <2>6 DEF Heard, KeptSessions, StateAfter, States
    <2> HIDE DEF t
    <2>8. session' \in [Ends -> KeptSessions] /\ session'[e] = t /\ session'[p] = session[p]
      BY <1>0, <2>3, <2>4, <2>7
    <2>9. t.state = session[p].state
      BY <2>1, <2>3, <2>7 DEF ComesTo
    <2> HIDE DEF n
    <2>10. wire' \in [Ends -> Seq(Underways)] /\ wire'[p] = <<n>> /\ wire'[e] = <<>>
      BY <1>0, <2>1, <2>3, <2>5, OneMoves DEF ComesTo
    <2>11. ComesTo(p, n)'
      BY <2>4, <2>5, <2>8, <2>9, <2>10 DEF ComesTo
    <2>12. announced' \in [Ends -> SUBSET Actions]
      BY <1>0, <2>1, <2>3 DEF Underways
    <2>13. \A d \in Ends : ~session'[d].there => session'[d].state = "Ended"
      BY <1>0, <2>4, <2>7, <2>8
    <2> QED BY <1>0, <2>3, <2>4, <2>5, <2>8, <2>10, <2>11, <2>12, <2>13 DEF JingleInv
  <1>6. ASSUME NEW e \in Ends, Bounces(e) PROVE JingleInv'
    <2>1. PICK m \in Underways : ComesTo(e, m)
      BY <1>4, <1>6 DEF Bounces
    <2>2. Head(wire[e]) = m
      BY <2>1 DEF ComesTo
    <2> DEFINE p == Peer(e)
               n == [m EXCEPT !.kind = "error"]
    <2>3. /\ m.kind = "action" /\ m.action = "session-initiate"
          /\ wire' = [wire EXCEPT ![e] = Tail(@), ![p] = Append(@, n)]
          /\ UNCHANGED <<session, announced, acted>>
      BY <1>6, <2>2 DEF Bounces, JingleInTurn
    <2>4. p \in Ends /\ p # e /\ Peer(p) = e
      BY Peers
    <2>5. /\ n \in Underways /\ n.kind = "error" /\ n.action = "session-initiate"
          /\ n.made = m.made
      BY <2>3 DEF Underways
    <2> HIDE DEF n
    <2>6. wire' \in [Ends -> Seq(Underways)] /\ wire'[p] = <<n>> /\ wire'[e] = <<>>
      BY <1>0, <2>1, <2>3, <2>5, OneMoves DEF ComesTo
    <2>7. ComesTo(p, n)'
      BY <2>1, <2>3, <2>4, <2>5, <2>6 DEF ComesTo
    <2> QED BY <1>0, <2>3, <2>4, <2>5, <2>6, <2>7 DEF JingleInv
  <1>7. ASSUME NEW e \in Ends, HearsAnswer(e) PROVE JingleInv'
    <2>1. PICK m \in Underways : ComesTo(e, m)
      BY <1>4, <1>7 DEF HearsAnswer
    <2>2. Head(wire[e]) = m
      BY <2>1 DEF ComesTo
    <2> DEFINE p == Peer(e)
               asker == session[e].there /\ session[e].made = m.made
    <2>3. /\ m.kind # "action" /\ wire' = [wire EXCEPT ![e] = Tail(@)]
          /\ session' = IF asker /\ m.kind = "error"
                        THEN [session EXCEPT ![e].state = Undone(m.action, @)]
                        ELSE session
          /\ UNCHANGED <<announced, acted>>
      BY <1>7, <2>2 DEF HearsAnswer
    <2>4. p \in Ends /\ p # e /\ \A d \in Ends : d = e \/ d = p
      BY Peers
    <2>5. wire' \in [Ends -> Seq(Underways)] /\ wire'[e] = <<>> /\ wire'[p] = <<>>
      <3>1. wire'[e] = Tail(<<m>>) /\ wire'[p] = <<>>
        BY <1>0, <2>1, <2>3, <2>4 DEF ComesTo
      <3>2. Tail(<<m>>) = <<>>
        OBVIOUS
      <3>3. \A d \in Ends : wire'[d] \in Seq(Underways)
        <4>1. <<>> \in Seq(Underways)
          OBVIOUS
        <4> QED BY <2>4, <3>1, <3>2, <4>1
      <3> QED BY <1>0, <2>3, <3>1, <3>2, <3>3
    <2>6. /\ session' \in [Ends -> KeptSessions] /\ session'[p] = session[p]
          /\ ~session'[e].there => session'[e].state = "Ended"
          /\ session'[e].state = session[p].state
      <3>1. CASE m.kind = "error"
        <4>1. /\ session' = [session EXCEPT ![e].state = "Ended"]
              /\ session[p].state = "Ended"
          BY <2>1, <2>3, <3>1 DEF ComesTo, Undone
        <4>2. session'[e].state = "Ended" /\ session'[p] = session[p]
          BY <1>0, <2>4, <4>1 DEF KeptSessions
        <4> QED BY <1>0, <4>1, <4>2 DEF KeptSessions, States
      <3>2. CASE m.kind = "result"
        BY <1>0, <2>1, <2>3, <3>2 DEF ComesTo
      <3> QED BY <2>3, <3>1, <3>2 DEF Underways
    <2>7. Quiet'
      BY <2>4, <2>5 DEF Quiet
    <2>8. session'["initiator"].state = session'["responder"].state
      BY <2>4, <2>6 DEF Ends
    <2>9. \A d \in Ends : ~session'[d].there => session'[d].state = "Ended"
      BY <1>0, <2>4, <2>6
    <2> QED BY <1>0, <2>3, <2>5, <2>6, <2>7, <2>8, <2>9 DEF JingleInv
  <1>8. ASSUME NEW e \in Ends, Discards(e) PROVE JingleInv'
    <2> DEFINE x == [NoSession EXCEPT !.made = session[e].made]
    <2>1. /\ session[e].state = "Ended" /\ Quiet
          /\ session' = [session EXCEPT ![e] = x]
          /\ UNCHANGED <<wire, announced, acted>>
      BY <1>8 DEF Discards, JingleInTurn
    <2>2. x \in KeptSessions /\ x.state = "Ended"
      <3>1. session[e].made \in Nat
        BY <1>0 DEF KeptSessions
      <3> QED BY <3>1, NothingKept
    <2> HIDE DEF x
    <2>3. /\ session' \in [Ends -> KeptSessions]
          /\ \A d \in Ends : session'[d].state = session[d].state
      BY <1>0, <2>1, <2>2
    <2>4. session["initiator"].state = session["responder"].state
      BY <2>1, NotQuiet DEF JingleInv
    <2>5. \A d \in Ends : ~session'[d].there => session'[d].state = "Ended"
      BY <1>0, <2>1, <2>2
    <2> QED BY <1>0, <2>1, <2>3, <2>4, <2>5 DEF JingleInv, Quiet, Ends
  <1> QED BY <1>1, <1>2, <1>3, <1>5, <1>6, <1>7, <1>8 DEF JingleNext

LEMMA JingleAgrees == JingleInv => JingleTypeOK /\ SessionsAgree
PROOF
  <1> SUFFICES ASSUME JingleInv PROVE JingleTypeOK /\ SessionsAgree
    OBVIOUS
  <1>1. JingleTypeOK
    <2>1. ASSUME NEW e \in Ends, NEW n \in 1..Len(wire[e])
          PROVE  wire[e][n].kind \in {"action", "result", "error"}
      <3>1. wire[e] \in Seq(Underways)
        BY DEF JingleInv
      <3>2. wire[e][n] \in Underways
        BY <3>1
      <3> QED BY <3>2 DEF Underways
    <2> QED BY <2>1 DEF JingleInv, JingleTypeOK, KeptSessions
  <1>2. SessionsAgree
    BY NotQuiet DEF JingleInv, SessionsAgree
  <1> QED BY <1>1, <1>2

-----------------------------------------------------------------------------
(* A file on its way. *)

Between == Destination("sender", "receiver")

Words == {"offer", "hosts", "url", "s5b", "ibb", "oob", "declined", "self", "proxy",
          "activate", "activated", "inactive"}
Sayings == {"in-band", "error", "open", "close"}

OfferStates == [sender : {"none", "offered", "told"}, receiver : {"none", "asked", "answered"}]
Streams == [made : BOOLEAN, dest : {NoDestination, Between}, host : Hosts \cup {"none"},
            link : {"none", "dialled", "failed", "up"}, open : BOOLEAN]

FtTyped ==
  /\ offer \in OfferStates
  /\ hosts \subseteq {"open", "activate"}
  /\ item \in [Clients -> [there : BOOLEAN, incoming : BOOLEAN]] /\ ~item["sender"].incoming
  /\ stream \in [Clients -> Streams]
  /\ iqs \in [Parties -> Seq(Words)]
  /\ said \in [Clients -> Seq(Sayings)]
  /\ drops \in 0..MaxDrops

InTurn(w) ==
  /\ \A m, n \in DOMAIN w : w[m] = w[n] /\ w[m] \in {"open", "close"} => m = n
  /\ \A n \in DOMAIN w : w[n] = "close" => \E m \in 1..n : w[m] = "open"

\* A stream that is not made, one that was not opened, and one that was.
Untold(w) == "open" \notin Range(w) /\ "close" \notin Range(w)
Calm(s, w) == ~s.made /\ ~s.open /\ s.link = "none" /\ s.host = "none" /\ Untold(w)
Unopened(s, i, w) ==
  /\ ~s.open /\ s.link # "up" /\ Untold(w)
  /\ s.made => s.dest = Between /\ i.incoming
  /\ s.link # "none" => s.made /\ s.host # "none"
WasOpened(s, w) ==
  /\ "open" \in Range(w) /\ (s.open => "close" \notin Range(w))
  /\ ~s.open => "close" \in Range(w)
  /\ s.link \in {"none", "up"} /\ (s.link = "up" => s.open /\ s.dest = Between)
\* The sender's, through a proxy.
Relayed(s) == (s.made => s.dest = Between) /\ (s.link # "none" => s.made)

CalmEnds == \A c \in Clients : Calm(stream[c], said[c])

Asking ==
  /\ hosts = {} /\ iqs["proxy"] = <<>> /\ CalmEnds
  /\ \/ /\ offer.sender = "none" /\ offer.receiver = "none"
        /\ iqs["receiver"] = <<>> /\ iqs["sender"] = <<>>
     \/ /\ offer.sender = "offered" /\ offer.receiver = "none"
        /\ iqs["receiver"] = <<"offer">> /\ iqs["sender"] = <<>>
     \/ /\ offer.sender = "offered" /\ offer.receiver = "asked"
        /\ iqs["receiver"] = <<>> /\ iqs["sender"] = <<>>
     \/ /\ offer.sender = "offered" /\ offer.receiver = "answered" /\ iqs["receiver"] = <<>>
        /\ \E how \in Methods \cup {"declined"} : iqs["sender"] = <<how>>

Settled == offer.sender = "told" /\ offer.receiver = "answered"

\* There will be no stream.
Without ==
  /\ Settled /\ hosts = {} /\ iqs["proxy"] = <<>> /\ CalmEnds
  /\ iqs["sender"] = <<>> /\ iqs["receiver"] \in {<<>>, <<"url">>}

\* The receiver has the hosts, or will have them.
Opening ==
  /\ Settled /\ hosts = {"open"} /\ iqs["proxy"] = <<>> /\ iqs["sender"] = <<>>
  /\ Calm(stream["sender"], said["sender"])
  /\ \/ iqs["receiver"] = <<"hosts">> /\ Calm(stream["receiver"], said["receiver"])
     \/ /\ iqs["receiver"] = <<>>
        /\ Unopened(stream["receiver"], item["receiver"], said["receiver"])

\* It used one, and the sender will hear which.
Used ==
  /\ Settled /\ hosts = {"open"} /\ iqs["proxy"] = <<>> /\ iqs["receiver"] = <<>>
  /\ iqs["sender"] = <<stream["receiver"].host>> /\ stream["receiver"].host # "none"
  /\ Calm(stream["sender"], said["sender"]) /\ WasOpened(stream["receiver"], said["receiver"])

Direct ==
  /\ Settled /\ hosts = {} /\ \A p \in Parties : iqs[p] = <<>>
  /\ \A c \in Clients : stream[c].host = "self" /\ WasOpened(stream[c], said[c])

Proxied ==
  /\ Settled /\ "open" \notin hosts /\ iqs["receiver"] = <<>>
  /\ iqs["sender"] \in Seq({"activated", "inactive"}) /\ iqs["proxy"] \in Seq({"activate"})
  /\ \A c \in Clients : stream[c].host = "proxy"
  /\ Relayed(stream["sender"]) /\ WasOpened(stream["receiver"], said["receiver"])

TurnsKept == \A c \in Clients : c = "receiver" \/ stream[c].host # "proxy" => InTurn(said[c])

FtInv ==
  /\ FtTyped /\ TurnsKept
  /\ Asking \/ Without \/ Opening \/ Used \/ Direct \/ Proxied

LEMMA Others ==
  /\ Other("receiver") = "sender" /\ Other("sender") = "receiver"
  /\ TakenFrom("receiver") = Between
  /\ "sender" \in Clients /\ "receiver" \in Clients
  /\ Parties = {"sender", "receiver", "proxy"} /\ Clients = {"sender", "receiver"}
PROOF
  <1>1. \A d \in Clients : d # "receiver" <=> d = "sender"
    BY DEF Clients
  <1>2. Other("receiver") = "sender"
    BY <1>1 DEF Other, Clients
  <1>3. Other("sender") = "receiver"
    BY <1>1 DEF Other, Clients
  <1> QED BY <1>2, <1>3 DEF TakenFrom, Between, Clients, Parties

LEMMA OneWord ==
  \A x : Head(<<x>>) = x /\ Tail(<<x>>) = <<>> /\ Append(<<>>, x) = <<x>> /\ <<x>> # <<>>
PROOF
  <1> SUFFICES ASSUME NEW x
               PROVE  /\ Head(<<x>>) = x /\ Tail(<<x>>) = <<>>
                      /\ Append(<<>>, x) = <<x>> /\ <<x>> # <<>>
    OBVIOUS
  <1>1. Len(<<x>>) = 1 /\ Len(<<>>) = 0
    OBVIOUS
  <1> QED BY <1>1

LEMMA HostWords ==
  /\ Hosts \subseteq {"self", "proxy"} /\ Methods \subseteq {"s5b", "ibb", "oob"}
  /\ Hosts \subseteq Words /\ Methods \subseteq Words
PROOF
  <1>1. Hosts \subseteq {"self", "proxy"}
    <2>1. CASE StreamHosts = <<"self">>
      BY <2>1 DEF Hosts, Range
    <2>2. CASE StreamHosts = <<"proxy">>
      BY <2>2 DEF Hosts, Range
    <2>3. CASE StreamHosts = <<"self", "proxy">>
      BY <2>3 DEF Hosts, Range
    <2> QED BY <2>1, <2>2, <2>3, FileTransferAssumption
  <1> QED BY <1>1, FileTransferAssumption DEF Words

LEMMA Posted ==
  ASSUME NEW q \in [Parties -> Seq(Words)], NEW p \in Parties, NEW w \in Words
  PROVE  /\ Post(q, p, w) \in [Parties -> Seq(Words)]
         /\ Post(q, p, w)[p] = Append(q[p], w)
         /\ \A o \in Parties : o # p => Post(q, p, w)[o] = q[o]
PROOF
  BY DEF Post

LEMMA TakenIs ==
  ASSUME NEW q \in [Parties -> Seq(Words)], NEW p \in Parties, q[p] # <<>>
  PROVE  /\ Take(q, p) \in [Parties -> Seq(Words)]
         /\ Take(q, p)[p] = Tail(q[p])
         /\ \A o \in Parties : o # p => Take(q, p)[o] = q[o]
PROOF
  <1>1. Tail(q[p]) \in Seq(Words)
    OBVIOUS
  <1> QED BY <1>1 DEF Take

LEMMA OneSent ==
  ASSUME NEW q \in [Parties -> Seq(Words)], NEW p \in Parties, NEW w \in Words, q[p] = <<>>
  PROVE  /\ Post(q, p, w) \in [Parties -> Seq(Words)] /\ Post(q, p, w)[p] = <<w>>
         /\ \A o \in Parties : o # p => Post(q, p, w)[o] = q[o]
PROOF
  BY Posted, OneWord

LEMMA OneTaken ==
  ASSUME NEW q \in [Parties -> Seq(Words)], NEW p \in Parties, NEW w \in Words, q[p] = <<w>>
  PROVE  /\ Take(q, p) \in [Parties -> Seq(Words)] /\ Take(q, p)[p] = <<>>
         /\ \A o \in Parties : o # p => Take(q, p)[o] = q[o]
PROOF
  <1>1. q[p] # <<>> /\ Tail(q[p]) = <<>>
    BY OneWord
  <1> QED BY <1>1, TakenIs

LEMMA SaidMore ==
  ASSUME NEW w \in Seq(Sayings), NEW x \in Sayings
  PROVE  /\ Append(w, x) \in Seq(Sayings) /\ Range(Append(w, x)) = Range(w) \cup {x}
         /\ InTurn(w) /\ (x = "open" => "open" \notin Range(w))
              /\ (x = "close" => "open" \in Range(w) /\ "close" \notin Range(w))
            => InTurn(Append(w, x))
PROOF
  <1> DEFINE v == Append(w, x)
             N == Len(w)
  <1>1. /\ v \in Seq(Sayings) /\ N \in Nat /\ DOMAIN w = 1..N /\ DOMAIN v = 1..N + 1
        /\ \A i \in 1..N : v[i] = w[i]
        /\ v[N + 1] = x
    OBVIOUS
  <1> HIDE DEF v, N
  <1>2. Range(v) = Range(w) \cup {x}
    <2>1. \A y \in Range(v) : y \in Range(w) \cup {x}
      BY <1>1 DEF Range
    <2>2. \A y \in Range(w) : y \in Range(v)
      <3> SUFFICES ASSUME NEW i \in 1..N PROVE w[i] \in Range(v)
        BY <1>1 DEF Range
      <3>1. i \in DOMAIN v /\ v[i] = w[i]
        BY <1>1
      <3> QED BY <3>1 DEF Range
    <2>3. x \in Range(v)
      <3>1. N + 1 \in DOMAIN v
        BY <1>1
      <3> QED BY <1>1, <3>1 DEF Range
    <2> QED BY <2>1, <2>2, <2>3
  <1>3. ASSUME InTurn(w), x = "open" => "open" \notin Range(w),
               x = "close" => "open" \in Range(w) /\ "close" \notin Range(w)
        PROVE  InTurn(v)
    <2>1. ASSUME NEW m \in 1..N, x \in {"open", "close"} PROVE w[m] # x
      BY <1>1, <1>3, <2>1 DEF Range
    <2>2. ASSUME NEW m \in DOMAIN v, NEW n \in DOMAIN v, v[m] = v[n], v[m] \in {"open", "close"}
          PROVE  m = n
      <3>1. CASE m \in 1..N /\ n \in 1..N
        BY <1>1, <1>3, <2>2, <3>1 DEF InTurn
      <3>2. CASE m = N + 1 /\ n \in 1..N
        BY <1>1, <2>1, <2>2, <3>2
      <3>3. CASE n = N + 1 /\ m \in 1..N
        BY <1>1, <2>1, <2>2, <3>3
      <3> QED BY <1>1, <3>1, <3>2, <3>3
    <2>3. ASSUME NEW n \in DOMAIN v, v[n] = "close" PROVE \E m \in 1..n : v[m] = "open"
      <3>1. CASE n \in 1..N
        <4>1. PICK m \in 1..n : w[m] = "open"
          BY <1>1, <1>3, <2>3, <3>1 DEF InTurn
        <4> QED BY <1>1, <3>1, <4>1
      <3>2. CASE n = N + 1
        <4>1. PICK m \in 1..N : w[m] = "open"
          BY <1>1, <1>3, <2>3, <3>2 DEF Range
        <4> QED BY <1>1, <3>2, <4>1
      <3> QED BY <1>1, <3>1, <3>2
    <2> QED BY <2>2, <2>3 DEF InTurn
  <1> QED BY <1>1, <1>2, <1>3 DEF v

LEMMA NothingMade ==
  /\ NoStream \in Streams /\ ~NoStream.made /\ ~NoStream.open
  /\ NoStream.link = "none" /\ NoStream.host = "none"
  /\ \A h \in Hosts \cup {"none"} :
       LET x == [NoStream EXCEPT !.host = h]
           y == [NoStream EXCEPT !.made = TRUE, !.dest = Between, !.host = h]
           z == [NoStream EXCEPT !.made = TRUE, !.dest = Between]
       IN  /\ {x, y, z} \subseteq Streams
           /\ ~x.made /\ ~x.open /\ x.link = "none" /\ x.host = h
           /\ y.made /\ ~y.open /\ y.link = "none" /\ y.host = h /\ y.dest = Between
           /\ z.made /\ ~z.open /\ z.link = "none" /\ z.host = "none" /\ z.dest = Between
PROOF
  <1>1. /\ NoStream \in Streams /\ ~NoStream.made /\ ~NoStream.open
        /\ NoStream.link = "none" /\ NoStream.host = "none"
    BY DEF NoStream, Streams
  <1> QED BY <1>1 DEF Streams

LEMMA FtStart == FtInit => FtInv
PROOF
  <1> SUFFICES ASSUME FtInit PROVE FtInv
    OBVIOUS
  <1>1. \A c \in Clients : stream[c] = NoStream /\ said[c] = <<>>
    BY DEF FtInit
  <1>2. Range(<<>>) = {}
    BY DEF Range
  <1>3. FtTyped
    <2>1. stream \in [Clients -> Streams]
      BY NothingMade DEF FtInit
    <2>2. /\ iqs \in [Parties -> Seq(Words)] /\ said \in [Clients -> Seq(Sayings)]
          /\ hosts \subseteq {"open", "activate"} /\ drops \in 0..MaxDrops
      BY FileTransferAssumption DEF FtInit
    <2>3. item \in [Clients -> [there : BOOLEAN, incoming : BOOLEAN]] /\ ~item["sender"].incoming
      BY DEF FtInit, NoSiItem, Clients
    <2>4. offer \in OfferStates
      BY DEF OfferStates, FtInit
    <2> QED BY <2>1, <2>2, <2>3, <2>4 DEF FtTyped
  <1>4. TurnsKept
    BY <1>1 DEF TurnsKept, InTurn
  <1>5. CalmEnds
    BY <1>1, <1>2, NothingMade DEF CalmEnds, Calm, Untold
  <1>6. Asking
    BY <1>5 DEF FtInit, Asking, Parties, Clients
  <1> QED BY <1>3, <1>4, <1>6 DEF FtInv

\* The streams and what was said of them stay.
StreamsStay == stream' = stream /\ said' = said

LEMMA Staying ==
  ASSUME StreamsStay
  PROVE  /\ (TurnsKept => TurnsKept') /\ (CalmEnds => CalmEnds')
         /\ \A c \in Clients : stream'[c] = stream[c] /\ said'[c] = said[c]
PROOF
  BY DEF StreamsStay, TurnsKept, CalmEnds

LEMMA OfferMade == ASSUME FtInv, Offers PROVE FtInv'
PROOF
  <1>1. /\ FtTyped /\ TurnsKept /\ StreamsStay
        /\ offer.sender = "none" /\ offer' = [offer EXCEPT !.sender = "offered"]
        /\ iqs' = Post(iqs, "receiver", "offer")
        /\ UNCHANGED <<hosts, item, stream, hosted, said, drops>>
    BY DEF FtInv, Offers, StreamsStay
  <1>2. Asking /\ CalmEnds /\ iqs \in [Parties -> Seq(Words)]
    BY <1>1 DEF FtInv, Without, Opening, Used, Direct, Proxied, Settled, Asking, FtTyped
  <1>3. /\ iqs' \in [Parties -> Seq(Words)] /\ iqs'["receiver"] = Append(iqs["receiver"], "offer")
        /\ iqs'["sender"] = iqs["sender"] /\ iqs'["proxy"] = iqs["proxy"]
    BY <1>1, <1>2, Posted, Others DEF Words
  <1>4. /\ offer' \in OfferStates
        /\ offer'.sender = "offered" /\ offer'.receiver = offer.receiver
    BY <1>1 DEF OfferStates, FtTyped
  <1>5. Asking'
    BY <1>1, <1>2, <1>3, <1>4, OneWord, Staying DEF Asking
  <1> QED BY <1>1, <1>3, <1>4, <1>5, Staying DEF FtInv, FtTyped

LEMMA OfferReceived == ASSUME FtInv, ReceivesOffer PROVE FtInv'
PROOF
  <1>1. /\ FtTyped /\ TurnsKept /\ StreamsStay
        /\ iqs["receiver"] # <<>> /\ Head(iqs["receiver"]) = "offer"
        /\ offer' = [offer EXCEPT !.receiver = "asked"] /\ iqs' = Take(iqs, "receiver")
        /\ UNCHANGED <<hosts, item, stream, hosted, said, drops>>
    BY DEF FtInv, ReceivesOffer, Next1, StreamsStay
  <1>2. /\ Asking /\ CalmEnds /\ iqs \in [Parties -> Seq(Words)]
        /\ offer.sender = "offered" /\ iqs["receiver"] = <<"offer">> /\ iqs["sender"] = <<>>
    BY <1>1, OneWord, Others
      DEF FtInv, Without, Opening, Used, Direct, Proxied, Asking, FtTyped
  <1>3. /\ iqs' \in [Parties -> Seq(Words)] /\ iqs'["receiver"] = <<>>
        /\ iqs'["sender"] = <<>> /\ iqs'["proxy"] = iqs["proxy"]
    BY <1>1, <1>2, OneTaken, Others DEF Words
  <1>4. /\ offer' \in OfferStates
        /\ offer'.sender = "offered" /\ offer'.receiver = "asked"
    BY <1>1, <1>2 DEF OfferStates, FtTyped
  <1>5. Asking'
    BY <1>1, <1>2, <1>3, <1>4, Staying DEF Asking
  <1> QED BY <1>1, <1>3, <1>4, <1>5, Staying DEF FtInv, FtTyped

\* Only the word about the stream is new to the application of end c.
LEMMA Mentioned ==
  ASSUME FtTyped, TurnsKept, CalmEnds, NEW c \in Clients, NEW x \in {"in-band", "error"},
         stream' = stream, said' = [said EXCEPT ![c] = Append(@, x)]
  PROVE  /\ said' \in [Clients -> Seq(Sayings)] /\ TurnsKept' /\ CalmEnds'
PROOF
  <1>1. /\ said[c] \in Seq(Sayings) /\ x \in Sayings
        /\ said \in [Clients -> Seq(Sayings)]
    BY DEF FtTyped, Sayings
  <1> DEFINE v == Append(said[c], x)
  <1>2. /\ v \in Seq(Sayings) /\ Range(v) = Range(said[c]) \cup {x}
        /\ InTurn(said[c]) => InTurn(v)
    BY <1>1, SaidMore
  <1> HIDE DEF v
  <1>3. said' = [said EXCEPT ![c] = v]
    BY DEF v
  <1>4. /\ said' \in [Clients -> Seq(Sayings)] /\ said'[c] = v
        /\ \A d \in Clients : d # c => said'[d] = said[d]
    BY <1>1, <1>2, <1>3
  <1>5. TurnsKept'
    BY <1>2, <1>4 DEF TurnsKept
  <1>6. CalmEnds'
    BY <1>2, <1>4 DEF CalmEnds, Calm, Untold
  <1> QED BY <1>4, <1>5, <1>6

LEMMA OfferAnswered ==
  ASSUME FtInv, NEW how \in Methods \cup {"declined"}, AnswersOffer(how) PROVE FtInv'
PROOF
  <1>1. /\ FtTyped /\ TurnsKept /\ offer.receiver = "asked"
        /\ offer' = [offer EXCEPT !.receiver = "answered"] /\ iqs' = Post(iqs, "sender", how)
        /\ said' = IF how = "ibb" THEN [said EXCEPT !["receiver"] = Append(@, "in-band")]
                   ELSE said
        /\ UNCHANGED <<hosts, item, stream, hosted, drops>>
    BY DEF FtInv, AnswersOffer
  <1>2. /\ Asking /\ CalmEnds /\ iqs \in [Parties -> Seq(Words)]
        /\ offer.sender = "offered" /\ iqs["receiver"] = <<>> /\ iqs["sender"] = <<>>
    BY <1>1, Others
      DEF FtInv, Without, Opening, Used, Direct, Proxied, Settled, Asking, FtTyped
  <1>3. /\ iqs' \in [Parties -> Seq(Words)] /\ iqs'["receiver"] = <<>>
        /\ iqs'["sender"] = <<how>> /\ iqs'["proxy"] = iqs["proxy"]
    <2>1. how \in Words
      BY HostWords DEF Words
    <2> QED BY <1>1, <1>2, <2>1, OneSent, Others
  <1>4. /\ offer' \in OfferStates
        /\ offer'.sender = "offered" /\ offer'.receiver = "answered"
    BY <1>1, <1>2 DEF OfferStates, FtTyped
  <1>5. said' \in [Clients -> Seq(Sayings)] /\ TurnsKept' /\ CalmEnds'
    <2>1. CASE how = "ibb"
      BY <1>1, <1>2, <2>1, Mentioned, Others
    <2>2. CASE how # "ibb"
      BY <1>1, <1>2, <2>2, Staying DEF StreamsStay, FtTyped
    <2> QED BY <2>1, <2>2
  <1>6. Asking'
    BY <1>1, <1>2, <1>3, <1>4, <1>5 DEF Asking
  <1> QED BY <1>1, <1>3, <1>4, <1>5, <1>6 DEF FtInv, FtTyped

LEMMA OfferHeard ==
  ASSUME FtInv, NEW how \in Methods \cup {"declined"}, HearsOffer(how) PROVE FtInv'
PROOF
  <1>1. /\ FtTyped /\ TurnsKept /\ iqs["sender"] # <<>> /\ Head(iqs["sender"]) = how
        /\ offer.sender = "offered" /\ offer' = [offer EXCEPT !.sender = "told"]
        /\ UNCHANGED <<stream, drops>>
    BY DEF FtInv, HearsOffer, Next1
  <1>2. /\ Asking /\ CalmEnds /\ iqs \in [Parties -> Seq(Words)] /\ hosts = {}
        /\ offer.receiver = "answered" /\ iqs["receiver"] = <<>> /\ iqs["proxy"] = <<>>
        /\ iqs["sender"] = <<how>>
    BY <1>1, OneWord
      DEF FtInv, Without, Opening, Used, Direct, Proxied, Settled, Asking, FtTyped
  <1>3. /\ offer' \in OfferStates
        /\ Settled'
    BY <1>1, <1>2 DEF OfferStates, FtTyped, Settled
  <1> DEFINE q == Take(iqs, "sender")
  <1>4. /\ q \in [Parties -> Seq(Words)] /\ q["sender"] = <<>> /\ q["receiver"] = <<>>
        /\ q["proxy"] = <<>>
    BY <1>2, OneTaken, Others, HostWords DEF Words, q
  <1> HIDE DEF q
  <1>5. ASSUME NEW w \in Words
        PROVE  /\ Post(q, "receiver", w) \in [Parties -> Seq(Words)]
               /\ Post(q, "receiver", w)["receiver"] = <<w>>
               /\ Post(q, "receiver", w)["sender"] = <<>> /\ Post(q, "receiver", w)["proxy"] = <<>>
    BY <1>4, OneSent, Others
  <1>6. CASE how = "s5b"
    <2>1. /\ AsksToOpen(Between) /\ iqs' = Post(q, "receiver", "hosts") /\ UNCHANGED said
      BY <1>6 DEF HearsOffer, q, Between
    <2>2. /\ hosts' = {"open"} /\ StreamsStay
          /\ item' = [item EXCEPT !["sender"] = [there |-> TRUE, incoming |-> FALSE]]
      BY <1>1, <1>2, <2>1 DEF AsksToOpen, StreamsStay
    <2>3. /\ item' \in [Clients -> [there : BOOLEAN, incoming : BOOLEAN]]
          /\ ~item'["sender"].incoming
      BY <1>1, <2>2, Others DEF FtTyped
    <2>4. Opening'
      BY <1>2, <1>3, <1>5, <2>1, <2>2, Staying, Others DEF Opening, CalmEnds, Words
    <2>5. iqs' \in [Parties -> Seq(Words)]
      BY <1>5, <2>1 DEF Words
    <2> QED BY <1>1, <1>3, <2>1, <2>2, <2>3, <2>4, <2>5, Staying DEF FtInv, FtTyped
  <1>7. CASE how = "ibb"
    <2>1. /\ iqs' = q /\ said' = [said EXCEPT !["sender"] = Append(@, "in-band")]
          /\ UNCHANGED <<hosts, item, hosted>>
      BY <1>7 DEF HearsOffer, q
    <2>2. said' \in [Clients -> Seq(Sayings)] /\ TurnsKept' /\ CalmEnds'
      BY <1>1, <1>2, <2>1, Mentioned, Others
    <2>3. Without'
      BY <1>2, <1>3, <1>4, <2>1, <2>2 DEF Without
    <2> QED BY <1>1, <1>3, <1>4, <2>1, <2>2, <2>3 DEF FtInv, FtTyped
  <1>8. CASE how = "oob"
    <2>1. /\ iqs' = Post(q, "receiver", "url") /\ UNCHANGED <<hosts, item, hosted, said>>
      BY <1>8 DEF HearsOffer, q
    <2>2. StreamsStay
      BY <1>1, <2>1 DEF StreamsStay
    <2>3. iqs' \in [Parties -> Seq(Words)]
      BY <1>5, <2>1 DEF Words
    <2>4. Without'
      BY <1>1, <1>2, <1>3, <1>5, <2>1, <2>2, Staying DEF Without, Words
    <2> QED BY <1>1, <1>3, <2>1, <2>2, <2>3, <2>4, Staying DEF FtInv, FtTyped
  <1>9. CASE how = "declined"
    <2>1. /\ iqs' = q /\ said' = [said EXCEPT !["sender"] = Append(@, "error")]
          /\ UNCHANGED <<hosts, item, hosted>>
      BY <1>9 DEF HearsOffer, q
    <2>2. said' \in [Clients -> Seq(Sayings)] /\ TurnsKept' /\ CalmEnds'
      BY <1>1, <1>2, <2>1, Mentioned, Others
    <2>3. Without'
      BY <1>2, <1>3, <1>4, <2>1, <2>2 DEF Without
    <2> QED BY <1>1, <1>3, <1>4, <2>1, <2>2, <2>3 DEF FtInv, FtTyped
  <1> QED BY <1>6, <1>7, <1>8, <1>9, HostWords

LEMMA UrlTaken == ASSUME FtInv, TakesUrl PROVE FtInv'
PROOF
  <1>1. /\ FtTyped /\ TurnsKept /\ StreamsStay
        /\ iqs["receiver"] # <<>> /\ Head(iqs["receiver"]) = "url"
        /\ iqs' = Take(iqs, "receiver")
        /\ UNCHANGED <<offer, hosts, item, stream, hosted, said, drops>>
    BY DEF FtInv, TakesUrl, Next1, StreamsStay
  <1>2. Without /\ CalmEnds /\ iqs \in [Parties -> Seq(Words)] /\ iqs["receiver"] = <<"url">>
    BY <1>1, OneWord, Others
      DEF FtInv, Without, Opening, Used, Direct, Proxied, Asking, FtTyped
  <1>3. /\ iqs' \in [Parties -> Seq(Words)] /\ iqs'["receiver"] = <<>>
        /\ iqs'["sender"] = iqs["sender"] /\ iqs'["proxy"] = iqs["proxy"]
    BY <1>1, <1>2, OneTaken, Others DEF Words
  <1>4. Without'
    BY <1>1, <1>2, <1>3, Staying DEF Without, Settled
  <1> QED BY <1>1, <1>3, <1>4, Staying DEF FtInv, FtTyped

\* What is true of the stream of one end when the other's changes.
LEMMA OneChanges ==
  ASSUME FtTyped, NEW c \in Clients, NEW t \in Streams, stream' = [stream EXCEPT ![c] = t]
  PROVE  /\ stream' \in [Clients -> Streams] /\ stream'[c] = t
         /\ \A d \in Clients : d # c => stream'[d] = stream[d]
PROOF
  BY DEF FtTyped

LEMMA OneHears ==
  ASSUME FtTyped, NEW c \in Clients, NEW x \in Sayings, said' = [said EXCEPT ![c] = Append(@, x)]
  PROVE  /\ said' \in [Clients -> Seq(Sayings)]
         /\ said[c] \in Seq(Sayings) /\ said'[c] \in Seq(Sayings)
         /\ said'[c] = Append(said[c], x) /\ Range(said'[c]) = Range(said[c]) \cup {x}
         /\ \A d \in Clients : d # c => said'[d] = said[d]
PROOF
  <1>1. said[c] \in Seq(Sayings) /\ said \in [Clients -> Seq(Sayings)]
    BY DEF FtTyped
  <1> DEFINE v == Append(said[c], x)
  <1>2. v \in Seq(Sayings) /\ Range(v) = Range(said[c]) \cup {x}
    BY <1>1, SaidMore
  <1>3. said' = [said EXCEPT ![c] = v]
    OBVIOUS
  <1> HIDE DEF v
  <1>4. said'[c] = v /\ said' \in [Clients -> Seq(Sayings)]
        /\ \A d \in Clients : d # c => said'[d] = said[d]
    BY <1>1, <1>2, <1>3
  <1> QED BY <1>1, <1>2, <1>4 DEF v

LEMMA HostsReceived == ASSUME FtInv, ReceivesHosts PROVE FtInv'
PROOF
  <1> DEFINE t == [NoStream EXCEPT !.made = TRUE, !.dest = TakenFrom("receiver")]
  <1>1. /\ FtTyped /\ TurnsKept
        /\ iqs["receiver"] # <<>> /\ Head(iqs["receiver"]) = "hosts"
        /\ item' = [item EXCEPT !["receiver"] = [there |-> TRUE, incoming |-> TRUE]]
        /\ stream' = [stream EXCEPT !["receiver"] = t]
        /\ iqs' = Take(iqs, "receiver") /\ UNCHANGED <<offer, hosts, hosted, said, drops>>
    BY DEF FtInv, ReceivesHosts, Next1
  <1>2. Opening /\ iqs \in [Parties -> Seq(Words)] /\ iqs["receiver"] = <<"hosts">>
    BY <1>1, OneWord, Others
      DEF FtInv, Without, Opening, Used, Direct, Proxied, Asking, FtTyped
  <1>3. t \in Streams /\ ~t.open /\ t.link = "none" /\ t.dest = Between
    BY NothingMade, Others
  <1> HIDE DEF t
  <1>4. /\ stream' \in [Clients -> Streams] /\ stream'["receiver"] = t
        /\ stream'["sender"] = stream["sender"]
    BY <1>1, <1>3, OneChanges, Others
  <1>5. /\ iqs' \in [Parties -> Seq(Words)] /\ iqs'["receiver"] = <<>>
        /\ iqs'["sender"] = iqs["sender"] /\ iqs'["proxy"] = iqs["proxy"]
    BY <1>1, <1>2, OneTaken, Others DEF Words
  <1>6. /\ item' \in [Clients -> [there : BOOLEAN, incoming : BOOLEAN]]
        /\ ~item'["sender"].incoming /\ item'["receiver"].incoming
    BY <1>1, Others DEF FtTyped
  <1>7. Opening'
    BY <1>1, <1>2, <1>3, <1>4, <1>5, <1>6 DEF Opening, Unopened, Calm, Settled
  <1>8. TurnsKept'
    BY <1>1, <1>4, Others DEF TurnsKept
  <1> QED BY <1>1, <1>4, <1>5, <1>6, <1>7, <1>8 DEF FtInv, FtTyped

\* An end that may still dial, or has dialled: the receiver before it used a
\* host, the sender through a proxy.
LEMMA WhoDials ==
  ASSUME FtInv, NEW c \in Clients,
         \/ stream[c].link = "dialled"
         \/ stream[c].made /\ ~stream[c].open /\ "close" \notin Range(said[c])
  PROVE  \/ c = "receiver" /\ Opening /\ iqs["receiver"] = <<>>
            /\ Unopened(stream[c], item[c], said[c])
         \/ c = "sender" /\ Proxied /\ Relayed(stream[c]) /\ stream[c].host = "proxy"
PROOF
  <1>1. ~Calm(stream[c], said[c])
    BY DEF Calm
  <1>2. ~WasOpened(stream[c], said[c])
    BY DEF WasOpened
  <1>3. ~Asking /\ ~Without
    BY <1>1 DEF Asking, Without, CalmEnds
  <1>4. ~Direct
    BY <1>2 DEF Direct
  <1>5. CASE Opening
    BY <1>1, <1>5, Others DEF Opening
  <1>6. CASE Used
    BY <1>1, <1>2, <1>6, Others DEF Used
  <1>7. CASE Proxied
    BY <1>2, <1>7, Others DEF Proxied
  <1> QED BY <1>3, <1>4, <1>5, <1>6, <1>7 DEF FtInv

\* A step of the stream of end c, before it is opened.
LEMMA StillUnopened ==
  ASSUME FtInv, NEW c \in Clients, NEW t \in Streams, stream' = [stream EXCEPT ![c] = t],
         UNCHANGED <<offer, hosts, item, iqs, said, drops>>,
         c = "receiver" => ~t.open /\ t.link # "up",
         t.made, t.dest = stream[c].dest, t.host # "none",
         c = "sender" => t.host = "proxy", stream[c].made,
         \/ c = "receiver" /\ Opening /\ iqs["receiver"] = <<>>
            /\ Unopened(stream[c], item[c], said[c])
         \/ c = "sender" /\ Proxied /\ Relayed(stream[c])
  PROVE  FtInv'
PROOF
  <1>1. /\ stream' \in [Clients -> Streams] /\ stream'[c] = t
        /\ \A d \in Clients : d # c => stream'[d] = stream[d]
    BY OneChanges DEF FtInv
  <1>2. FtTyped'
    BY <1>1 DEF FtInv, FtTyped
  <1>3. TurnsKept'
    BY <1>1, Others DEF FtInv, TurnsKept
  <1>4. CASE c = "receiver"
    <2>1. Opening /\ Unopened(stream[c], item[c], said[c]) /\ iqs["receiver"] = <<>>
      BY <1>4
    <2>2. Unopened(t, item[c], said[c])
      BY <1>4, <2>1 DEF Unopened
    <2>3. Opening'
      BY <1>1, <1>4, <2>1, <2>2, Others DEF Opening, Settled
    <2> QED BY <1>2, <1>3, <2>3 DEF FtInv
  <1>5. CASE c = "sender"
    <2>1. Proxied /\ Relayed(stream[c])
      BY <1>5
    <2>2. Relayed(t)
      BY <2>1 DEF Relayed
    <2>3. Proxied'
      BY <1>1, <1>5, <2>1, <2>2, Others DEF Proxied, Settled
    <2> QED BY <1>2, <1>3, <2>3 DEF FtInv
  <1> QED BY <1>4, <1>5, Others

LEMMA Dialling ==
  ASSUME FtInv, NEW c \in Clients, NEW h \in {"self", "proxy"}, Dials(c, h) PROVE FtInv'
PROOF
  <1> PICK t : t = [stream[c] EXCEPT !.host = h, !.link = "dialled"]
    OBVIOUS
  <1>1. stream[c] \in Streams /\ stream \in [Clients -> Streams]
    BY DEF FtInv, FtTyped
  <1>2. /\ stream[c].made /\ ~stream[c].open /\ "close" \notin Range(said[c])
        /\ c = "receiver" => h \in Hosts
        /\ c = "sender" => h = stream[c].host
        /\ stream' = [stream EXCEPT ![c] = t]
        /\ UNCHANGED <<offer, hosts, item, iqs, said, drops>>
    BY <1>1 DEF Dials
  <1>3. \/ c = "receiver" /\ Opening /\ iqs["receiver"] = <<>>
           /\ Unopened(stream[c], item[c], said[c])
        \/ c = "sender" /\ Proxied /\ Relayed(stream[c]) /\ stream[c].host = "proxy"
    BY <1>2, WhoDials
  <1>4. h \in Hosts \cup {"none"}
    BY <1>1, <1>2, Others DEF Streams
  <1>5. /\ t \in Streams /\ ~t.open /\ t.link = "dialled" /\ t.made
        /\ t.dest = stream[c].dest /\ t.host = h
    BY <1>1, <1>2, <1>4 DEF Streams
  <1>6. t.host # "none" /\ (c = "sender" => t.host = "proxy")
    BY <1>2, <1>3, <1>5
  <1> QED BY <1>2, <1>3, <1>5, <1>6, StillUnopened

LEMMA Refusing == ASSUME FtInv, NEW c \in Clients, Refused(c) PROVE FtInv'
PROOF
  <1> PICK t : t = [stream[c] EXCEPT !.link = "failed"]
    OBVIOUS
  <1>1. stream[c] \in Streams /\ stream \in [Clients -> Streams]
    BY DEF FtInv, FtTyped
  <1>2. /\ stream[c].link = "dialled" /\ stream' = [stream EXCEPT ![c] = t]
        /\ UNCHANGED <<offer, hosts, item, iqs, said, drops>>
    BY <1>1 DEF Refused
  <1>3. \/ c = "receiver" /\ Opening /\ iqs["receiver"] = <<>>
           /\ Unopened(stream[c], item[c], said[c])
        \/ c = "sender" /\ Proxied /\ Relayed(stream[c]) /\ stream[c].host = "proxy"
    BY <1>2, WhoDials
  <1>4. /\ t \in Streams /\ (t.open => stream[c].open) /\ t.link = "failed"
        /\ stream[c].made => t.made
        /\ t.dest = stream[c].dest /\ t.host = stream[c].host
    BY <1>1, <1>2 DEF Streams
  <1>5. /\ stream[c].made /\ stream[c].host # "none"
        /\ c = "receiver" => ~stream[c].open
        /\ c = "sender" => stream[c].host = "proxy"
    BY <1>2, <1>3 DEF Unopened, Relayed
  <1> QED BY <1>2, <1>3, <1>4, <1>5, StillUnopened

\* What is said to one end, and its turn.
LEMMA TurnOf ==
  ASSUME FtTyped, TurnsKept, NEW c \in Clients, NEW x \in Sayings,
         said' = [said EXCEPT ![c] = Append(@, x)],
         \A d \in Clients : stream'[d].host = stream[d].host \/ stream[d].host = "none",
         \/ c = "sender" /\ stream'[c].host = "proxy"
         \/ InTurn(said[c]) /\ (x = "open" => "open" \notin Range(said[c]))
              /\ (x = "close" => "open" \in Range(said[c]) /\ "close" \notin Range(said[c]))
  PROVE  TurnsKept'
PROOF
  <1>1. /\ said[c] \in Seq(Sayings) /\ said'[c] = Append(said[c], x)
        /\ \A d \in Clients : d # c => said'[d] = said[d]
    BY OneHears
  <1>2. CASE c = "sender" /\ stream'[c].host = "proxy"
    BY <1>1, <1>2 DEF TurnsKept
  <1>3. CASE InTurn(said[c]) /\ (x = "open" => "open" \notin Range(said[c]))
              /\ (x = "close" => "open" \in Range(said[c]) /\ "close" \notin Range(said[c]))
    <2>1. InTurn(said'[c])
      BY <1>1, <1>3, SaidMore
    <2> QED BY <1>1, <2>1 DEF TurnsKept
  <1> QED BY <1>2, <1>3

LEMMA Connecting == ASSUME FtInv, NEW c \in Clients, Connects(c) PROVE FtInv'
PROOF
  <1> PICK t : t = [stream[c] EXCEPT !.link = "up", !.open = TRUE]
    OBVIOUS
  <1>1. /\ stream[c] \in Streams /\ stream \in [Clients -> Streams] /\ FtTyped /\ TurnsKept
        /\ "open" \in Sayings /\ iqs \in [Parties -> Seq(Words)]
    BY DEF FtInv, FtTyped, Sayings
  <1>2. /\ stream[c].link = "dialled" /\ stream' = [stream EXCEPT ![c] = t]
        /\ said' = [said EXCEPT ![c] = Append(@, "open")]
        /\ Acknowledges(c) /\ UNCHANGED <<offer, item, drops>>
    BY <1>1 DEF Connects
  <1>3. \/ c = "receiver" /\ Opening /\ iqs["receiver"] = <<>>
           /\ Unopened(stream[c], item[c], said[c])
        \/ c = "sender" /\ Proxied /\ Relayed(stream[c]) /\ stream[c].host = "proxy"
    BY <1>2, WhoDials
  <1>4. /\ t \in Streams /\ t.open /\ t.link = "up" /\ (stream[c].made => t.made)
        /\ t.dest = stream[c].dest /\ t.host = stream[c].host
    BY <1>1 DEF Streams
  <1>5. /\ stream' \in [Clients -> Streams] /\ stream'[c] = t
        /\ \A d \in Clients : d # c => stream'[d] = stream[d]
    BY <1>1, <1>2, <1>4, OneChanges
  <1>6. /\ said' \in [Clients -> Seq(Sayings)] /\ Range(said'[c]) = Range(said[c]) \cup {"open"}
        /\ \A d \in Clients : d # c => said'[d] = said[d]
    BY <1>1, <1>2, OneHears
  <1>7. \A d \in Clients : stream'[d].host = stream[d].host
    BY <1>4, <1>5
  <1>8. CASE c = "receiver"
    <2>1. Opening /\ Unopened(stream[c], item[c], said[c]) /\ iqs["receiver"] = <<>>
      BY <1>3, <1>8
    <2>2. /\ stream[c].made /\ item[c].incoming /\ t.dest = Between /\ t.host # "none"
          /\ "close" \notin Range(said[c]) /\ "open" \notin Range(said[c])
      BY <1>2, <1>4, <2>1 DEF Unopened, Untold
    <2>3. /\ iqs' = Post(iqs, "sender", t.host) /\ hosts' = hosts
          /\ iqs["sender"] = <<>> /\ t.host \in Words
      BY <1>2, <1>4, <2>1, <2>2, HostWords DEF Acknowledges, Opening, Streams
    <2>4. /\ iqs' \in [Parties -> Seq(Words)] /\ iqs'["sender"] = <<t.host>>
          /\ iqs'["receiver"] = iqs["receiver"] /\ iqs'["proxy"] = iqs["proxy"]
      BY <1>1, <2>3, OneSent, Others
    <2>5. WasOpened(t, said'[c])
      BY <1>4, <1>6, <2>2 DEF WasOpened
    <2>6. Used'
      BY <1>2, <1>5, <1>6, <1>8, <2>1, <2>2, <2>3, <2>4, <2>5, Others DEF Used, Opening, Settled
    <2>7. TurnsKept'
      <3>1. InTurn(said[c])
        BY <1>1, <1>8 DEF TurnsKept
      <3> QED BY <1>1, <1>2, <1>7, <2>2, <3>1, TurnOf
    <2>8. FtTyped'
      BY <1>1, <1>2, <1>5, <1>6, <2>3, <2>4 DEF FtTyped
    <2> QED BY <2>6, <2>7, <2>8 DEF FtInv
  <1>9. CASE c = "sender"
    <2>1. Proxied /\ Relayed(stream[c]) /\ stream[c].host = "proxy"
      BY <1>3, <1>9
    <2>2. iqs' = Post(iqs, "proxy", "activate") /\ hosts' = hosts \cup {"activate"}
      BY <1>1, <1>2, <1>9 DEF Acknowledges, FtTyped
    <2>3. /\ iqs' \in [Parties -> Seq(Words)]
          /\ iqs'["proxy"] = Append(iqs["proxy"], "activate")
          /\ iqs'["receiver"] = iqs["receiver"] /\ iqs'["sender"] = iqs["sender"]
      BY <1>1, <2>2, Posted, Others DEF Words
    <2>4. iqs'["proxy"] \in Seq({"activate"})
      BY <2>1, <2>3 DEF Proxied
    <2>5. Relayed(t)
      BY <1>2, <1>4, <2>1 DEF Relayed
    <2>6. Proxied'
      BY <1>2, <1>4, <1>5, <1>6, <1>7, <1>9, <2>1, <2>2, <2>3, <2>4, <2>5, Others
        DEF Proxied, Settled
    <2>7. TurnsKept'
      BY <1>1, <1>2, <1>7, <1>9, <2>1, TurnOf
    <2>8. FtTyped'
      BY <1>1, <1>2, <1>5, <1>6, <2>2, <2>3 DEF FtTyped
    <2> QED BY <2>6, <2>7, <2>8 DEF FtInv
  <1> QED BY <1>8, <1>9, Others

LEMMA UsedHeard == ASSUME FtInv, NEW h \in Hosts, HearsUsed(h) PROVE FtInv'
PROOF
  <1>1. /\ FtTyped /\ TurnsKept /\ iqs \in [Parties -> Seq(Words)]
        /\ iqs["sender"] # <<>> /\ Head(iqs["sender"]) = h /\ "open" \in hosts
        /\ hosts' = hosts \ {"open"} /\ iqs' = Take(iqs, "sender")
        /\ UNCHANGED <<offer, item, hosted, drops>>
        /\ "open" \in Sayings
    BY DEF FtInv, HearsUsed, Next1, FtTyped, Sayings
  <1>2. /\ Used /\ stream["receiver"].host = h /\ iqs["sender"] = <<h>> /\ h \in {"self", "proxy"}
        /\ h \in Words
    BY <1>1, OneWord, HostWords DEF FtInv, Without, Opening, Used, Direct, Proxied, Asking
  <1>3. /\ iqs' \in [Parties -> Seq(Words)] /\ iqs'["sender"] = <<>>
        /\ iqs'["receiver"] = iqs["receiver"] /\ iqs'["proxy"] = iqs["proxy"]
    BY <1>1, <1>2, OneTaken, Others
  <1>4. hosts' = {} /\ Settled' /\ iqs'["receiver"] = <<>> /\ iqs'["proxy"] = <<>>
    BY <1>1, <1>2, <1>3 DEF Used, Settled
  <1>5. /\ Calm(stream["sender"], said["sender"])
        /\ WasOpened(stream["receiver"], said["receiver"])
    BY <1>2 DEF Used
  <1>6. CASE h = "self"
    <2> DEFINE linked == \E l \in hosted["self"].links : l[2] = Between
    <2> PICK t : t = [made |-> TRUE, dest |-> Between, host |-> "self",
                      link |-> IF linked THEN "up" ELSE "none", open |-> TRUE]
      OBVIOUS
    <2>1. /\ stream' = [stream EXCEPT !["sender"] = t]
          /\ said' = [said EXCEPT !["sender"] = Append(@, "open")]
      BY <1>6 DEF HearsUsed, Between
    <2>2. /\ t \in Streams /\ t.host = "self" /\ t.dest = Between /\ t.link \in {"none", "up"}
          /\ t.open
      BY <1>6 DEF Streams
    <2>3. /\ stream' \in [Clients -> Streams] /\ stream'["sender"] = t
          /\ stream'["receiver"] = stream["receiver"]
      BY <1>1, <2>1, <2>2, OneChanges, Others
    <2>4. /\ said' \in [Clients -> Seq(Sayings)]
          /\ Range(said'["sender"]) = Range(said["sender"]) \cup {"open"}
          /\ said'["receiver"] = said["receiver"]
      BY <1>1, <2>1, OneHears, Others
    <2>5. Untold(said["sender"]) /\ stream["sender"].host = "none"
      BY <1>5 DEF Calm
    <2>6. WasOpened(t, said'["sender"])
      BY <2>2, <2>4, <2>5 DEF WasOpened, Untold
    <2>7. Direct'
      BY <1>2, <1>3, <1>4, <1>5, <1>6, <2>2, <2>3, <2>4, <2>6, Others DEF Direct
    <2>8. TurnsKept'
      <3>1. InTurn(said["sender"]) /\ "open" \notin Range(said["sender"])
        BY <1>1, <2>5, Others DEF TurnsKept, Untold
      <3> QED BY <1>1, <2>1, <2>3, <2>5, <3>1, TurnOf, Others
    <2>9. FtTyped'
      BY <1>1, <1>3, <1>4, <2>3, <2>4 DEF FtTyped
    <2> QED BY <2>7, <2>8, <2>9 DEF FtInv
  <1>7. CASE h = "proxy"
    <2> DEFINE t == [NoStream EXCEPT !.made = TRUE, !.dest = Between, !.host = h]
    <2>1. stream' = [stream EXCEPT !["sender"] = t] /\ said' = said
      BY <1>7 DEF HearsUsed, Between
    <2>2. t \in Streams /\ t.host = "proxy" /\ t.dest = Between /\ t.link = "none" /\ t.made
      <3>1. /\ t \in Streams /\ t.host = h /\ t.dest = Between /\ t.link = "none" /\ t.made
        BY NothingMade
      <3> QED BY <1>7, <3>1
    <2> HIDE DEF t
    <2>3. /\ stream' \in [Clients -> Streams] /\ stream'["sender"] = t
          /\ stream'["receiver"] = stream["receiver"]
      BY <1>1, <2>1, <2>2, OneChanges, Others
    <2>4. Relayed(t)
      BY <2>2 DEF Relayed
    <2>5. Proxied'
      BY <1>2, <1>3, <1>4, <1>5, <1>7, <2>1, <2>2, <2>3, <2>4, Others DEF Proxied
    <2>6. TurnsKept'
      BY <1>1, <2>1, <2>2, <2>3, Others DEF TurnsKept
    <2>7. FtTyped'
      BY <1>1, <1>3, <1>4, <2>1, <2>3 DEF FtTyped
    <2> QED BY <2>5, <2>6, <2>7 DEF FtInv
  <1> QED BY <1>2, <1>6, <1>7

LEMMA ProxyAnswers == ASSUME FtInv, ProxyActivates PROVE FtInv'
PROOF
  <1>1. PICK w \in {"activated", "inactive"} :
          /\ iqs["proxy"] # <<>> /\ iqs' = Post(Take(iqs, "proxy"), "sender", w)
          /\ UNCHANGED <<offer, hosts, item, stream, hosted, said, drops>>
    BY DEF ProxyActivates, Next1
  <1>2. FtTyped /\ TurnsKept /\ StreamsStay /\ iqs \in [Parties -> Seq(Words)]
    BY <1>1 DEF FtInv, FtTyped, StreamsStay
  <1>3. Proxied
    BY <1>1, Others DEF FtInv, Without, Opening, Used, Direct, Asking
  <1> DEFINE q == Take(iqs, "proxy")
  <1>4. /\ q \in [Parties -> Seq(Words)] /\ q["proxy"] = Tail(iqs["proxy"])
        /\ q["receiver"] = iqs["receiver"] /\ q["sender"] = iqs["sender"]
    BY <1>1, <1>2, TakenIs, Others
  <1> HIDE DEF q
  <1>5. iqs' = Post(q, "sender", w) /\ w \in Words /\ "sender" \in Parties
    BY <1>1, Others DEF q, Words
  <1>6. /\ iqs' \in [Parties -> Seq(Words)] /\ iqs'["proxy"] = Tail(iqs["proxy"])
        /\ iqs'["receiver"] = iqs["receiver"] /\ iqs'["sender"] = Append(iqs["sender"], w)
    <2>1. /\ Post(q, "sender", w) \in [Parties -> Seq(Words)]
          /\ Post(q, "sender", w)["sender"] = Append(q["sender"], w)
          /\ \A o \in Parties : o # "sender" => Post(q, "sender", w)[o] = q[o]
      BY <1>4, <1>5, Posted
    <2> QED BY <1>4, <1>5, <2>1, Others
  <1>7. iqs'["proxy"] \in Seq({"activate"}) /\ iqs'["sender"] \in Seq({"activated", "inactive"})
    <2>1. /\ iqs["proxy"] \in Seq({"activate"}) /\ iqs["proxy"] # <<>>
          /\ iqs["sender"] \in Seq({"activated", "inactive"})
      BY <1>1, <1>3 DEF Proxied
    <2>2. Tail(iqs["proxy"]) \in Seq({"activate"})
      BY <2>1
    <2>3. Append(iqs["sender"], w) \in Seq({"activated", "inactive"})
      BY <2>1
    <2> QED BY <1>6, <2>2, <2>3
  <1>8. Proxied'
    BY <1>1, <1>3, <1>6, <1>7 DEF Proxied, Settled
  <1> QED BY <1>1, <1>2, <1>6, <1>8, Staying DEF FtInv, FtTyped

LEMMA ActivationHeard ==
  ASSUME FtInv, NEW how \in {"activated", "inactive"}, HearsActivated(how) PROVE FtInv'
PROOF
  <1>1. /\ FtTyped /\ TurnsKept /\ iqs \in [Parties -> Seq(Words)]
        /\ iqs["sender"] # <<>> /\ "activate" \in hosts
        /\ hosts' = hosts \ {"activate"} /\ iqs' = Take(iqs, "sender")
        /\ UNCHANGED <<offer, item, hosted, drops>>
        /\ stream["sender"] \in Streams /\ stream \in [Clients -> Streams]
    BY Others DEF FtInv, HearsActivated, Next1, FtTyped
  <1>2. Proxied
    BY <1>1 DEF FtInv, Without, Opening, Used, Direct, Asking
  <1>3. /\ iqs' \in [Parties -> Seq(Words)] /\ iqs'["sender"] = Tail(iqs["sender"])
        /\ iqs'["receiver"] = iqs["receiver"] /\ iqs'["proxy"] = iqs["proxy"]
    BY <1>1, TakenIs, Others
  <1>4. iqs'["sender"] \in Seq({"activated", "inactive"})
    <2>1. iqs["sender"] \in Seq({"activated", "inactive"}) /\ iqs["sender"] # <<>>
      BY <1>1, <1>2 DEF Proxied
    <2>2. Tail(iqs["sender"]) \in Seq({"activated", "inactive"})
      BY <2>1
    <2> QED BY <1>3, <2>2
  <1>5. hosts' \subseteq {"open", "activate"} /\ "open" \notin hosts'
    BY <1>1, <1>2 DEF FtTyped, Proxied
  <1>6. CASE how = "activated" /\ stream["sender"].made
    <2> PICK t : t = [stream["sender"] EXCEPT !.open = TRUE]
      OBVIOUS
    <2>1. /\ stream' = [stream EXCEPT !["sender"] = t]
          /\ said' = [said EXCEPT !["sender"] = Append(@, "open")]
      BY <1>1, <1>6 DEF HearsActivated
    <2>2. /\ t \in Streams /\ t.host = stream["sender"].host /\ t.dest = stream["sender"].dest
          /\ t.link = stream["sender"].link /\ (t.made => stream["sender"].made)
          /\ (stream["sender"].made => t.made)
      BY <1>1 DEF Streams
    <2>3. /\ stream' \in [Clients -> Streams] /\ stream'["sender"] = t
          /\ stream'["receiver"] = stream["receiver"]
      BY <1>1, <2>1, <2>2, OneChanges, Others
    <2>4. /\ said' \in [Clients -> Seq(Sayings)] /\ said'["receiver"] = said["receiver"]
      BY <1>1, <2>1, OneHears, Others DEF Sayings
    <2>5. Relayed(t) /\ stream["sender"].host = "proxy"
      BY <1>2, <2>2, Others DEF Relayed, Proxied
    <2>6. Proxied'
      <3>1. \A c \in Clients : stream'[c].host = "proxy"
        BY <1>2, <2>2, <2>3, <2>5, Others DEF Proxied
      <3>2. WasOpened(stream'["receiver"], said'["receiver"])
        BY <1>2, <2>3, <2>4 DEF Proxied
      <3>3. Settled' /\ iqs'["receiver"] = <<>> /\ iqs'["proxy"] \in Seq({"activate"})
        BY <1>1, <1>2, <1>3 DEF Proxied, Settled
      <3> QED BY <1>4, <1>5, <2>3, <2>5, <3>1, <3>2, <3>3 DEF Proxied
    <2>7. TurnsKept'
      BY <1>1, <2>2, <2>3, <2>4, <2>5, Others DEF TurnsKept
    <2>8. FtTyped'
      BY <1>1, <1>3, <1>5, <2>3, <2>4 DEF FtTyped
    <2> QED BY <2>6, <2>7, <2>8 DEF FtInv
  <1>7. CASE ~(how = "activated" /\ stream["sender"].made)
    <2>1. /\ stream' = stream
          /\ said' = IF how = "inactive" THEN [said EXCEPT !["sender"] = Append(@, "error")]
                     ELSE said
      BY <1>7 DEF HearsActivated
    <2>2. /\ said' \in [Clients -> Seq(Sayings)] /\ said'["receiver"] = said["receiver"]
      <3>1. CASE how = "inactive"
        BY <1>1, <2>1, <3>1, OneHears, Others DEF Sayings
      <3>2. CASE how # "inactive"
        BY <1>1, <2>1, <3>2 DEF FtTyped
      <3> QED BY <3>1, <3>2
    <2>3. Proxied'
      BY <1>1, <1>2, <1>3, <1>4, <1>5, <2>1, <2>2, Others DEF Proxied, Settled
    <2>4. TurnsKept'
      BY <1>1, <1>2, <2>1, <2>2, Others DEF TurnsKept, Proxied
    <2>5. FtTyped'
      BY <1>1, <1>3, <1>5, <2>1, <2>2 DEF FtTyped
    <2> QED BY <2>3, <2>4, <2>5 DEF FtInv
  <1> QED BY <1>6, <1>7

\* close(), whoever calls it: the stream of end c is over, and who had it open hears.
Shuts(c, t) ==
  /\ t \in Streams /\ ~t.open /\ t.link = "none" /\ t.host = stream[c].host
  /\ t.made => stream[c].made /\ t.dest = stream[c].dest
  /\ stream[c].open \/ stream[c].link = "up"
  /\ stream' = [stream EXCEPT ![c] = t] /\ said' = Told(c)
  /\ UNCHANGED <<offer, hosts, item, iqs>> /\ drops' \in 0..MaxDrops

LEMMA Shutting ==
  ASSUME FtInv, NEW c \in Clients,
         (\E keeps \in BOOLEAN : Closes(c, keeps)) \/ Breaks(c) \/ Notices(c)
  PROVE  \E t : Shuts(c, t)
PROOF
  <1>1. /\ stream[c] \in Streams /\ stream \in [Clients -> Streams] /\ drops \in 0..MaxDrops
        /\ MaxDrops \in Nat
    BY FileTransferAssumption DEF FtInv, FtTyped
  <1> DEFINE t == Closed(stream[c])
             d == [NoStream EXCEPT !.host = stream[c].host]
  <1>2. /\ t \in Streams /\ ~t.open /\ t.link = "none" /\ t.host = stream[c].host
        /\ t.made => stream[c].made /\ t.dest = stream[c].dest
    BY <1>1 DEF Closed, Streams
  <1>3. /\ d \in Streams /\ ~d.open /\ d.link = "none" /\ d.host = stream[c].host /\ ~d.made
    <2>1. stream[c].host \in Hosts \cup {"none"}
      BY <1>1 DEF Streams
    <2> QED BY <2>1, NothingMade
  <1>4. CASE Breaks(c) \/ Notices(c)
    <2>1. /\ stream[c].open \/ stream[c].link = "up"
          /\ stream' = [stream EXCEPT ![c] = Closed(@)] /\ said' = Told(c)
          /\ UNCHANGED <<offer, hosts, item, iqs>> /\ drops' \in 0..MaxDrops
      BY <1>1, <1>4 DEF Breaks, Notices
    <2>2. stream' = [stream EXCEPT ![c] = t]
      BY <2>1
    <2> HIDE DEF t
    <2> QED BY <1>2, <2>1, <2>2 DEF Shuts
  <1>5. ASSUME NEW keeps \in BOOLEAN, Closes(c, keeps) PROVE \E u : Shuts(c, u)
    <2>1. /\ stream[c].open /\ said' = Told(c)
          /\ UNCHANGED <<offer, hosts, item, iqs>> /\ drops' \in 0..MaxDrops
      BY <1>1, <1>5 DEF Closes
    <2>2. stream' = [stream EXCEPT ![c] = t] \/ stream' = [stream EXCEPT ![c] = d]
      BY <1>5 DEF Closes
    <2> HIDE DEF t, d
    <2> QED BY <1>2, <1>3, <2>1, <2>2 DEF Shuts
  <1> QED BY <1>4, <1>5

LEMMA ShutKeeps == ASSUME FtInv, NEW c \in Clients, NEW t, Shuts(c, t) PROVE FtInv'
PROOF
  <1>1. /\ FtTyped /\ TurnsKept /\ t \in Streams /\ ~t.open /\ t.link = "none"
        /\ t.host = stream[c].host /\ (t.made => stream[c].made /\ t.dest = stream[c].dest)
        /\ stream[c].open \/ stream[c].link = "up"
        /\ stream' = [stream EXCEPT ![c] = t] /\ said' = Told(c)
        /\ UNCHANGED <<offer, hosts, item, iqs>> /\ drops' \in 0..MaxDrops
    BY DEF FtInv, Shuts
  <1>2. /\ stream' \in [Clients -> Streams] /\ stream'[c] = t
        /\ \A d \in Clients : d # c => stream'[d] = stream[d]
    BY <1>1, OneChanges
  <1>3. \A d \in Clients : stream'[d].host = stream[d].host
    BY <1>1, <1>2
  <1>4. ~Calm(stream[c], said[c])
    BY <1>1 DEF Calm
  <1>5. ~Asking /\ ~Without
    BY <1>4 DEF Asking, Without, CalmEnds
  <1>6. /\ said' \in [Clients -> Seq(Sayings)]
        /\ \A d \in Clients : d # c => said'[d] = said[d]
    <2>1. CASE stream[c].open
      BY <1>1, <2>1, OneHears DEF Told, Sayings
    <2>2. CASE ~stream[c].open
      BY <1>1, <2>2 DEF Told, FtTyped
    <2> QED BY <2>1, <2>2
  <1>7. FtTyped'
    BY <1>1, <1>2, <1>6 DEF FtTyped
  <1>8. ASSUME WasOpened(stream[c], said[c])
        PROVE  WasOpened(t, said'[c]) /\ TurnsKept'
    <2>1. stream[c].open /\ "close" \notin Range(said[c]) /\ "open" \in Range(said[c])
      BY <1>1, <1>8 DEF WasOpened
    <2>2. said' = [said EXCEPT ![c] = Append(@, "close")] /\ "close" \in Sayings
      BY <1>1, <2>1 DEF Told, Sayings
    <2>3. Range(said'[c]) = Range(said[c]) \cup {"close"}
      BY <1>1, <2>2, OneHears
    <2>4. WasOpened(t, said'[c])
      BY <1>1, <2>1, <2>3 DEF WasOpened
    <2>5. InTurn(said[c]) \/ (c = "sender" /\ stream'[c].host = "proxy")
      BY <1>1, <1>3, Others DEF TurnsKept
    <2>6. TurnsKept'
      BY <1>1, <1>3, <2>1, <2>2, <2>5, TurnOf
    <2> QED BY <2>4, <2>6
  <1>9. ~Opening
    BY <1>1, <1>4, Others DEF Opening, Unopened
  <1>10. CASE Used
    <2>1. c = "receiver" /\ WasOpened(stream[c], said[c])
      BY <1>4, <1>10, Others DEF Used
    <2>2. Used'
      BY <1>1, <1>2, <1>3, <1>6, <1>8, <1>10, <2>1, Others DEF Used, Settled
    <2> QED BY <1>7, <1>8, <2>1, <2>2 DEF FtInv
  <1>11. CASE Direct
    <2>1. WasOpened(stream[c], said[c])
      BY <1>11 DEF Direct
    <2>2. \A d \in Clients : stream'[d].host = "self" /\ WasOpened(stream'[d], said'[d])
      BY <1>2, <1>3, <1>6, <1>8, <1>11, <2>1 DEF Direct
    <2>3. Direct'
      BY <1>1, <1>11, <2>2 DEF Direct, Settled
    <2> QED BY <1>7, <1>8, <2>1, <2>3 DEF FtInv
  <1>12. CASE Proxied
    <2>1. \A d \in Clients : stream'[d].host = "proxy"
      BY <1>3, <1>12 DEF Proxied
    <2>2. CASE c = "receiver"
      <3>1. WasOpened(stream[c], said[c])
        BY <1>12, <2>2 DEF Proxied
      <3>2. Proxied'
        BY <1>1, <1>2, <1>8, <1>12, <2>1, <2>2, <3>1, Others DEF Proxied, Settled
      <3> QED BY <1>7, <1>8, <3>1, <3>2 DEF FtInv
    <2>3. CASE c = "sender"
      <3>1. Relayed(t)
        BY <1>1, <1>12, <2>3 DEF Proxied, Relayed
      <3>2. Proxied'
        BY <1>1, <1>2, <1>6, <1>12, <2>1, <2>3, <3>1, Others DEF Proxied, Settled
      <3>3. TurnsKept'
        BY <1>1, <1>6, <2>1, <2>3, Others DEF TurnsKept
      <3> QED BY <1>7, <3>2, <3>3 DEF FtInv
    <2> QED BY <2>2, <2>3, Others
  <1> QED BY <1>5, <1>9, <1>10, <1>11, <1>12 DEF FtInv

LEMMA FtStep == ASSUME FtInv, [FtNext]_ftVars PROVE FtInv'
PROOF
  <1>1. CASE UNCHANGED ftVars
    <2>1. /\ offer' = offer /\ hosts' = hosts /\ item' = item /\ stream' = stream
          /\ iqs' = iqs /\ said' = said /\ drops' = drops
      BY <1>1 DEF ftVars
    <2>2. FtTyped' /\ TurnsKept'
      BY <2>1 DEF FtInv, FtTyped, TurnsKept
    <2>3. /\ (Asking => Asking') /\ (Without => Without') /\ (Opening => Opening')
          /\ (Used => Used') /\ (Direct => Direct') /\ (Proxied => Proxied')
      BY <2>1 DEF Asking, Without, Opening, Used, Direct, Proxied, Settled, CalmEnds
    <2> QED BY <2>2, <2>3 DEF FtInv
  <1>2. CASE Offers \/ ReceivesOffer \/ TakesUrl \/ ReceivesHosts \/ ProxyActivates
    BY <1>2, OfferMade, OfferReceived, UrlTaken, HostsReceived, ProxyAnswers
  <1>3. ASSUME NEW host \in Hosts, HearsUsed(host) PROVE FtInv'
    BY <1>3, UsedHeard
  <1>4. ASSUME NEW how \in Methods \cup {"declined"}, AnswersOffer(how) \/ HearsOffer(how)
        PROVE  FtInv'
    BY <1>4, OfferAnswered, OfferHeard
  <1>5. ASSUME NEW how \in {"activated", "inactive"}, HearsActivated(how) PROVE FtInv'
    BY <1>5, ActivationHeard
  <1>6. ASSUME NEW c \in Clients,
               (\E h \in {"self", "proxy"} : Dials(c, h)) \/ Connects(c) \/ Refused(c)
        PROVE  FtInv'
    <2>1. CASE Connects(c) \/ Refused(c)
      BY <2>1, Connecting, Refusing
    <2>2. ASSUME NEW h \in {"self", "proxy"}, Dials(c, h) PROVE FtInv'
      BY <2>2, Dialling
    <2> QED BY <1>6, <2>1, <2>2
  <1>7. ASSUME NEW c \in Clients,
               (\E keeps \in BOOLEAN : Closes(c, keeps)) \/ Breaks(c) \/ Notices(c)
        PROVE  FtInv'
    <2>1. PICK t : Shuts(c, t)
      BY <1>7, Shutting
    <2> QED BY <2>1, ShutKeeps
  <1> QED BY <1>1, <1>2, <1>3, <1>4, <1>5, <1>6, <1>7 DEF FtNext

LEMMA FtMeets == FtInv => FtTypeOK /\ StreamsMeet /\ ToldInTurn
PROOF
  <1> SUFFICES ASSUME FtInv PROVE FtTypeOK /\ StreamsMeet /\ ToldInTurn
    OBVIOUS
  <1>1. FtTypeOK
    BY DEF FtInv, FtTyped, FtTypeOK, OfferStates, Streams
  <1>2. StreamsMeet
    <2> SUFFICES ASSUME \A c \in Clients : stream[c].link = "up"
                 PROVE  /\ stream["sender"].dest = stream["receiver"].dest
                        /\ stream["sender"].host = stream["receiver"].host
      BY DEF StreamsMeet
    <2>1. /\ ~Calm(stream["sender"], said["sender"])
          /\ ~Unopened(stream["receiver"], item["receiver"], said["receiver"])
      BY Others DEF Calm, Unopened
    <2>2. Direct \/ Proxied
      BY <2>1, Others DEF FtInv, Asking, Without, CalmEnds, Opening, Used
    <2>3. CASE Direct
      BY <2>3, Others DEF Direct, WasOpened
    <2>4. CASE Proxied
      BY <2>4, Others DEF Proxied, WasOpened, Relayed
    <2> QED BY <2>2, <2>3, <2>4
  <1>3. ToldInTurn
    BY DEF FtInv, TurnsKept, InTurn, ToldInTurn, AtMostOnce, OpenBeforeClose
  <1> QED BY <1>1, <1>2, <1>3

-----------------------------------------------------------------------------
(* Both in the composition. *)

\* The two ends of a Jingle session, and of a file transfer, come to agree, and
\* each application hears of a stream in turn (jinglesession.cpp,
\* socks5bytestream.cpp, socks5bytestreammanager.cpp).
THEOREM EndsTheorem == ASSUME JingleInTurn PROVE ServicesSpec => []EndsMeet
PROOF
  <1>1. ServicesInit => JingleInv /\ FtInv
    BY JingleStart, FtStart DEF ServicesInit
  <1>2. ASSUME JingleInv, FtInv,
               [ServicesNext]_<<part, rosterVars, mucVars, talkVars, requestVars, jingleVars,
                                ftVars, listVars, boshVars>>
        PROVE  JingleInv' /\ FtInv'
    <2>1. [JingleNext]_jingleVars /\ [FtNext]_ftVars
      BY <1>2 DEF ServicesNext, RestJingle, RestTransfer, RestOthers
    <2> QED BY <1>2, <2>1, JingleStep, FtStep
  <1>3. JingleInv /\ FtInv => EndsMeet
    BY JingleAgrees, FtMeets DEF EndsMeet
  <1> QED BY <1>1, <1>2, <1>3, PTL DEF ServicesSpec

-----------------------------------------------------------------------------
(* Requests: whom a manager finds for an answer. *)

\* The application cancels nothing inside a callback, does not ask whether
\* commands are supported, and keeps the managers whose maps outlive them.
RequestsRespected ==
  /\ ~CancelsInside /\ "checkSupport" \notin Ops
  /\ Deletes \cap {"PubSub", "Disco", "Adhoc", "FlexibleOffline"} = {}

\* It asks only what its manager speaks of, whatever the answer.
Telling == \A op \in Ops : \A a \in Answers(op) : Tells(op, a)

OpOf(i) == requests[i].op
Commands(i) == OpOf(i) = "getCommands"
AdhocKeeps(i) == Entry("Adhoc", i) \in track

Ids == DOMAIN requests

ReqTyped ==
  /\ requests \in Seq([op : Ops, remote : Remotes, asker : Askers])
  /\ waiting \subseteq Ids /\ answered \subseteq Ids \ waiting
  /\ {"PubSub", "Disco", "Adhoc", "FlexibleOffline"} \subseteq alive
  /\ told \in Seq([answer : Ids, context : Ids])
  /\ dangling = FALSE

\* An entry is of a request under way; only Adhoc keeps whom to tell longer.
EntriesKnown ==
  \A e \in track :
    /\ e.id \in Ids /\ e \in Entries(OpOf(e.id), e.id)
    /\ e.id \in waiting \/ (Commands(e.id) /\ e.manager = "Adhoc")

\* Who waits is there, and finds what he noted.
Awaited ==
  \A i \in waiting :
    LET m == ManagerOf(OpOf(i))
    IN /\ m \in alive
       /\ IF OpOf(i) \in ThroughDisco THEN Entry("Disco", i) \in track
          ELSE m \in Tracking => Entry(m, i) \in track \/ i \in cancelled

\* Adhoc does not keep more of a question than answers to it will come.
KeptOf(r) == {i \in Ids : Commands(i) /\ requests[i].remote = r /\ AdhocKeeps(i)}
ComingOf(r) == {i \in waiting : Commands(i) /\ requests[i].remote = r}
EnoughCome == \A r \in Remotes : Cardinality(KeptOf(r)) <= Cardinality(ComingOf(r))

ToldOf(i) == \E t \in DOMAIN told : told[t].context = i

\* Who was told will not be again.
ToldRight ==
  /\ \A t, u \in DOMAIN told : told[t].context = told[u].context => t = u
  /\ \A t \in DOMAIN told :
       LET i == told[t].context
           j == told[t].answer
       IN /\ OpOf(i) = OpOf(j) /\ requests[i].remote = requests[j].remote
          /\ IF Commands(i) THEN ~AdhocKeeps(i) ELSE i \notin waiting

\* Who was answered was told, or is still kept.
Reached ==
  /\ \A i \in Ids : Commands(i) => AdhocKeeps(i) \/ ToldOf(i)
  /\ Telling => \A i \in answered \ cancelled :
                  ~Commands(i) /\ ManagerOf(OpOf(i)) \in alive => ToldOf(i)

ReqInv == ReqTyped /\ EntriesKnown /\ Awaited /\ EnoughCome /\ ToldRight /\ Reached

LEMMA CommandsManager ==
  /\ "getCommands" \in ThroughDisco /\ ManagerOf("getCommands") = "Adhoc"
  /\ \A op \in ThroughDisco :
       /\ ManagerOf(op) \in {"Adhoc", "FlexibleOffline"}
       /\ ManagerOf(op) = "Adhoc" => op \in {"checkSupport", "getCommands"}
PROOF
  <1>1. Managers = {"Disco", "Adhoc", "PubSub", "VCardManager", "Search", "PrivateXML",
                    "Bookmarks", "Annotations", "PrivacyManager", "Registration",
                    "LastActivity", "FlexibleOffline"}
    BY DEF Managers, OpsOf
  <1>2. \A m \in Managers : \A op \in {"checkSupport", "getCommands"} :
          op \in OpsOf[m] <=> m = "Adhoc"
    BY <1>1 DEF OpsOf, DiscoOps, AdhocOps, PubSubOps, SubscriptionOps, ItemOps, NodeOps, ListOps,
                VCardOps, SearchOps, PrivateOps, BookmarkOps, AnnotationOps, PrivacyOps,
                RegistrationOps, OfflineOps
  <1>3. \A m \in Managers : \A op \in {"checkFlexible", "getMsgCount", "fetchHeaders"} :
          op \in OpsOf[m] <=> m = "FlexibleOffline"
    BY <1>1 DEF OpsOf, DiscoOps, AdhocOps, PubSubOps, SubscriptionOps, ItemOps, NodeOps, ListOps,
                VCardOps, SearchOps, PrivateOps, BookmarkOps, AnnotationOps, PrivacyOps,
                RegistrationOps, OfflineOps
  <1>4. \A op \in {"checkSupport", "getCommands"} : ManagerOf(op) = "Adhoc"
    BY <1>1, <1>2 DEF ManagerOf
  <1>5. \A op \in {"checkFlexible", "getMsgCount", "fetchHeaders"} :
          ManagerOf(op) = "FlexibleOffline"
    BY <1>1, <1>3 DEF ManagerOf
  <1> QED BY <1>4, <1>5 DEF ThroughDisco

\* The least of some numbers.
LEMMA MinIs == ASSUME NEW N \in SUBSET Nat, N # {} PROVE Min(N) \in N
PROOF
  <1> DEFINE R == {p \in Nat \X Nat : p[1] < p[2]}
  <1>1. IsWellFoundedOn(R, Nat)
    BY NatLessThanWellFounded DEF OpToRel
  <1>2. \A i, j \in Nat : ~(<<j, i>> \in R) => i <= j
    OBVIOUS
  <1> HIDE DEF R
  <1>3. \E i \in N : \A j \in N : ~(<<j, i>> \in R)
    BY <1>1, WFMin
  <1>4. \E i \in N : \A j \in N : i <= j
    BY <1>2, <1>3
  <1> QED BY <1>4 DEF Min

\* What one answer adds to what was told.
ToldFurther(i, R, T, p, q) ==
  /\ q \in Seq(T)
  /\ \A t \in DOMAIN p : t \in DOMAIN q /\ q[t] = p[t]
  /\ \A t \in DOMAIN q : t \in DOMAIN p \/ \E j \in R : q[t] = Tell(i, j)
  /\ \A t, u \in DOMAIN q : t \notin DOMAIN p /\ u \notin DOMAIN p /\ q[t] = q[u] => t = u
  /\ \A j \in R : \E t \in DOMAIN q : q[t] = Tell(i, j)

LEMMA ToldMore ==
  ASSUME NEW i, NEW R, IsFiniteSet(R), NEW T, NEW p \in Seq(T), NEW q, NEW S,
         S = {Tell(i, j) : j \in R}, S \subseteq T, q = p \o SetToSeq(S)
  PROVE  ToldFurther(i, R, T, p, q)
PROOF
  <1> DEFINE f == [j \in R |-> Tell(i, j)]
  <1>1. f \in Surjection(R, S)
    BY DEF Surjection
  <1>2. IsFiniteSet(S)
    <2> HIDE DEF f
    <2> QED BY <1>1, FS_Surjection
  <1>3. PICK s : s = SetToSeq(S)
    OBVIOUS
  <1>4. /\ s \in Seq(S)
        /\ \A k, l \in DOMAIN s : s[k] = s[l] => k = l
        /\ \A x \in S : \E k \in DOMAIN s : s[k] = x
    BY <1>2, <1>3, ListedOnce
  <1>5. s \in Seq(T) /\ q = p \o s
    BY <1>3, <1>4
  <1> HIDE DEF f
  <1>6. /\ q \in Seq(T) /\ DOMAIN q = 1..(Len(p) + Len(s)) /\ DOMAIN p = 1..Len(p)
        /\ Len(p) \in Nat /\ Len(s) \in Nat /\ DOMAIN s = 1..Len(s)
    <2>1. Len(p) \in Nat /\ DOMAIN p = 1..Len(p)
      OBVIOUS
    <2>2. Len(s) \in Nat /\ DOMAIN s = 1..Len(s)
      BY <1>5
    <2>3. p \o s \in Seq(T)
      BY <1>5
    <2>4. Len(p \o s) = Len(p) + Len(s)
      BY <1>5
    <2>5. DOMAIN q = 1..Len(q)
      BY <1>5, <2>3
    <2> QED BY <1>5, <2>1, <2>2, <2>3, <2>4, <2>5
  <1>d. \A t \in DOMAIN p : t \in DOMAIN q /\ q[t] = p[t]
    BY <1>5
  <1>7. \A t \in DOMAIN q : t \notin DOMAIN p => t - Len(p) \in DOMAIN s /\ q[t] = s[t - Len(p)]
    BY <1>5
  <1>9. ASSUME NEW k \in DOMAIN s PROVE k + Len(p) \in DOMAIN q /\ q[k + Len(p)] = s[k]
    <2>1. k + Len(p) \in DOMAIN q /\ k + Len(p) \notin DOMAIN p /\ (k + Len(p)) - Len(p) = k
      BY <1>6
    <2> QED BY <2>1, <1>7
  <1>a. ASSUME NEW t \in DOMAIN q, t \notin DOMAIN p PROVE \E j \in R : q[t] = Tell(i, j)
    <2>1. PICK k \in DOMAIN s : q[t] = s[k]
      BY <1>7, <1>a
    <2>2. s[k] \in S
      BY <1>4
    <2> QED BY <2>1, <2>2
  <1>b. ASSUME NEW j \in R PROVE \E t \in DOMAIN q : q[t] = Tell(i, j)
    <2>1. PICK k \in DOMAIN s : s[k] = Tell(i, j)
      BY <1>4
    <2> QED BY <2>1, <1>9
  <1>c. ASSUME NEW t \in DOMAIN q, NEW u \in DOMAIN q, t \notin DOMAIN p, u \notin DOMAIN p,
               q[t] = q[u]
        PROVE  t = u
    <2>1. PICK k \in DOMAIN s : k = t - Len(p) /\ s[k] = q[t]
      BY <1>7, <1>c
    <2>2. PICK l \in DOMAIN s : l = u - Len(p) /\ s[l] = q[u]
      BY <1>7, <1>c
    <2>3. k = l
      BY <1>4, <1>c, <2>1, <2>2
    <2> QED BY <2>1, <2>2, <2>3, <1>6
  <1> QED BY <1>6, <1>a, <1>b, <1>c, <1>d DEF ToldFurther

LEMMA IdsAre ==
  ASSUME ReqInv
  PROVE  IsFiniteSet(Ids) /\ Ids \in SUBSET Nat /\ Ids = 1..Len(requests)
PROOF
  <1>1. Ids = 1..Len(requests) /\ Len(requests) \in Nat
    BY DEF ReqInv, ReqTyped, Ids
  <1> QED BY <1>1, FS_Interval

LEMMA RequestIs ==
  ASSUME ReqInv, NEW i \in Ids
  PROVE  OpOf(i) \in Ops /\ requests[i].remote \in Remotes /\ requests[i].asker \in Askers
PROOF
  <1> DEFINE T == [op : Ops, remote : Remotes, asker : Askers]
  <1>1. requests \in Seq(T) /\ i \in DOMAIN requests
    BY DEF ReqInv, ReqTyped, Ids
  <1>2. requests[i] \in T
    <2> HIDE DEF T
    <2> QED BY <1>1
  <1> QED BY <1>2 DEF OpOf

LEMMA KeptFinite ==
  ASSUME ReqInv, NEW r
  PROVE  /\ IsFiniteSet(KeptOf(r)) /\ IsFiniteSet(ComingOf(r))
         /\ Cardinality(KeptOf(r)) \in Nat /\ Cardinality(ComingOf(r)) \in Nat
         /\ KeptOf(r) \in SUBSET Nat
PROOF
  <1>1. KeptOf(r) \subseteq Ids /\ ComingOf(r) \subseteq Ids
    BY DEF KeptOf, ComingOf, ReqInv, ReqTyped
  <1> QED BY <1>1, IdsAre, FS_Subset, FS_CardinalityType

\* What an answer is told to, and what is forgotten with it.
AnswerTells(i, R, F) ==
  /\ R \subseteq Ids
  /\ \A j \in R : /\ OpOf(j) = OpOf(i) /\ requests[j].remote = requests[i].remote
                  /\ IF Commands(j) THEN AdhocKeeps(j) /\ Entry("Adhoc", j) \in F ELSE j = i
  /\ \A e \in F : \/ e = Entry("Disco", i)
                  \/ e = Entry(ManagerOf(OpOf(i)), i) /\ ~Commands(i)
                  \/ Commands(i) /\ \E j \in R : e = Entry("Adhoc", j)
  /\ Entry("Disco", i) \in F /\ (~Commands(i) => Entry(ManagerOf(OpOf(i)), i) \in F)

LEMMA AdhocKept ==
  ASSUME ReqInv
  PROVE  AdhocIds = {j \in Ids : AdhocKeeps(j)}
PROOF
  <1>1. \A e \in track : e = Entry(e.manager, e.id) /\ e.id \in Ids
    BY DEF ReqInv, EntriesKnown, Entries, Entry
  <1>2. \A j : Entry("Adhoc", j).manager = "Adhoc" /\ Entry("Adhoc", j).id = j
    BY DEF Entry
  <1> QED BY <1>1, <1>2 DEF AdhocIds, AdhocKeeps

LEMMA QuestionKept ==
  ASSUME ReqInv, NEW i \in waiting, Commands(i)
  PROVE  SameQuestion(i) = KeptOf(requests[i].remote)
PROOF
  BY AdhocKept DEF SameQuestion, KeptOf, Commands, OpOf

LEMMA Answering ==
  ASSUME RequestsRespected, ReqInv, NEW i \in waiting, NEW a \in Answers(OpOf(i))
  PROVE  /\ AnswerTells(i, Recipients(i, a), Forgotten(i, a))
         /\ Commands(i) =>
              \/ Recipients(i, a) = KeptOf(requests[i].remote)
              \/ \E j \in KeptOf(requests[i].remote) : Recipients(i, a) = {j}
         /\ /\ ~Commands(i) /\ Telling
            /\ ManagerOf(OpOf(i)) \in Tracking => Entry(ManagerOf(OpOf(i)), i) \in track
            => i \in Recipients(i, a)
PROOF
  <1> DEFINE op == OpOf(i)
             m == ManagerOf(op)
             R == Recipients(i, a)
             F == Forgotten(i, a)
             r == requests[i].remote
  <1>1. i \in Ids /\ op \in Ops
    BY RequestIs DEF ReqInv, ReqTyped
  <1>2. m = "Adhoc" /\ op \in ThroughDisco <=> Commands(i)
    BY <1>1, CommandsManager DEF RequestsRespected, Commands
  <1>3. CASE Commands(i)
    <2>1. R = AdhocFinds(i, a)
      BY <1>2, <1>3 DEF Recipients, OpOf
    <2>2. op # "checkSupport"
      BY <1>3 DEF Commands
    <2>3. R = KeptOf(r) \/ \E j \in KeptOf(r) : R = {j}
      <3>1. CASE ~a.ok
        BY <3>1, <2>1, <1>3, QuestionKept DEF AdhocFinds
      <3>2. CASE a.ok /\ KeptOf(r) = {}
        BY <3>2, <2>1, <2>2, <1>3, QuestionKept DEF AdhocFinds, First, OpOf
      <3>3. CASE a.ok /\ KeptOf(r) # {}
        <4>1. R = {Min(KeptOf(r))}
          BY <3>3, <2>1, <2>2, <1>3, QuestionKept DEF AdhocFinds, First, OpOf
        <4>2. Min(KeptOf(r)) \in KeptOf(r)
          BY <3>3, MinIs, KeptFinite
        <4> QED BY <4>1, <4>2
      <3> QED BY <3>1, <3>2, <3>3
    <2>4. R \subseteq KeptOf(r)
      BY <2>3
    <2>5. F = {Entry("Adhoc", j) : j \in R} \cup {Entry("Disco", i)}
      BY <1>2, <1>3 DEF Forgotten, OpOf
    <2>6. \A j \in R : j \in Ids /\ Commands(j) /\ requests[j].remote = r /\ AdhocKeeps(j)
      BY <2>4 DEF KeptOf
    <2> HIDE DEF R, F
    <2>7. AnswerTells(i, R, F)
      BY <1>3, <2>5, <2>6 DEF AnswerTells, Commands
    <2> QED BY <1>3, <2>3, <2>7 DEF R, F
  <1>4. CASE ~Commands(i)
    <2>1. R = IF ~Tells(op, a) \/ (m \in Tracking /\ Entry(m, i) \notin track) THEN {} ELSE {i}
      BY <1>2, <1>4 DEF Recipients, OpOf
    <2>2. F = {Entry(m, i), Entry("Disco", i)}
      BY <1>2, <1>4 DEF Forgotten, OpOf
    <2>3. Telling => Tells(op, a)
      BY <1>1 DEF Telling
    <2> HIDE DEF R, F
    <2>4. R \subseteq {i}
      BY <2>1
    <2>5. AnswerTells(i, R, F)
      BY <1>1, <1>4, <2>2, <2>4 DEF AnswerTells
    <2> QED BY <1>4, <2>1, <2>3, <2>5 DEF R, F
  <1> QED BY <1>3, <1>4

\* The invariant, through an answer.
AnswerGiven(i, a) ==
  /\ track' = track \ Forgotten(i, a)
  /\ told' = told \o SetToSeq({Tell(i, j) : j \in Recipients(i, a)})
  /\ ~Commands(i) /\ ManagerOf(OpOf(i)) \in Tracking => Entry(ManagerOf(OpOf(i)), i) \in track

\* The application has cancelled it.
AnswerDropped(i) ==
  /\ track' = track /\ told' = told /\ OpOf(i) \notin ThroughDisco /\ i \in cancelled
  /\ Entry(ManagerOf(OpOf(i)), i) \notin track

LEMMA AnswerIs ==
  ASSUME RequestsRespected, ReqInv, NEW i \in waiting, NEW a \in Answers(OpOf(i)),
         NEW c \in BOOLEAN, HandleReply(i, a, c)
  PROVE  /\ waiting' = waiting \ {i} /\ answered' = answered \cup {i}
         /\ requests' = requests /\ alive' = alive /\ cancelled' = cancelled /\ ~dangling'
         /\ AnswerGiven(i, a) \/ AnswerDropped(i)
PROOF
  <1> DEFINE op == OpOf(i)
             m == ManagerOf(op)
             map == OuterMap(op)
             found == map \in Tracking => Entry(map, i) \in track
  <1>1. i \in Ids /\ op \in Ops /\ m \in alive /\ ~dangling
    BY RequestIs DEF ReqInv, ReqTyped, Awaited
  <1>2. /\ waiting' = waiting \ {i} /\ answered' = answered \cup {i}
        /\ requests' = requests /\ alive' = alive
    BY DEF HandleReply
  <1>3. CASE ~found
    <2>1. /\ dangling' = (dangling \/ (map = m /\ m \notin alive))
          /\ track' = track /\ told' = told /\ cancelled' = cancelled
      BY <1>3 DEF HandleReply, OpOf
    <2>2. op \notin ThroughDisco
      BY <1>3 DEF ReqInv, Awaited, OuterMap
    <2>3. i \in cancelled /\ Entry(m, i) \notin track
      BY <1>3, <2>2 DEF ReqInv, Awaited, OuterMap
    <2>4. ~dangling'
      BY <1>1, <2>1
    <2> QED BY <1>2, <2>1, <2>2, <2>3, <2>4 DEF AnswerDropped
  <1>4. CASE found
    <2>1. PICK gone : gone = IF c THEN EntriesOf(map, requests[i].asker) ELSE {}
      OBVIOUS
    <2>2. /\ c => CancelsInside
          /\ dangling' = (dangling \/ m \notin alive
                            \/ (Entry(map, i) \in gone /\ map \in ErasedLate))
          /\ told' = told \o SetToSeq({Tell(i, j) : j \in Recipients(i, a)})
          /\ track' = (track \ gone) \ Forgotten(i, a)
          /\ cancelled' = cancelled \cup ({e.id : e \in gone} \ {i})
      BY <1>4, <2>1 DEF HandleReply, OpOf
    <2>3. gone = {}
      BY <2>1, <2>2 DEF RequestsRespected
    <2>4. ~dangling' /\ track' = track \ Forgotten(i, a) /\ cancelled' = cancelled
      BY <1>1, <2>2, <2>3
    <2>5. ~Commands(i) => (m \in Tracking => Entry(m, i) \in track)
      <3> SUFFICES ASSUME ~Commands(i), m \in Tracking PROVE Entry(m, i) \in track
        OBVIOUS
      <3>1. op \notin ThroughDisco
        BY <1>1, CommandsManager DEF RequestsRespected, Commands, Tracking
      <3> QED BY <3>1, <1>4 DEF OuterMap
    <2> QED BY <1>2, <2>2, <2>4, <2>5 DEF AnswerGiven
  <1> QED BY <1>3, <1>4

LEMMA OneFewer ==
  ASSUME NEW S, IsFiniteSet(S), NEW x \in S
  PROVE  /\ Cardinality(S \ {x}) = Cardinality(S) - 1
         /\ IsFiniteSet(S \ {x}) /\ Cardinality(S) \in Nat
PROOF
  BY FS_RemoveElement, FS_CardinalityType

LEMMA OneMore ==
  ASSUME NEW S, IsFiniteSet(S), NEW x, x \notin S
  PROVE  Cardinality(S \cup {x}) = Cardinality(S) + 1
PROOF
  BY FS_AddElement

LEMMA ToldIds ==
  ASSUME ReqInv
  PROVE  \A t \in DOMAIN told : told[t].context \in Ids /\ told[t].answer \in Ids
PROOF
  <1> DEFINE T == [answer : Ids, context : Ids]
  <1>1. told \in Seq(T)
    BY DEF ReqInv, ReqTyped
  <1>2. ASSUME NEW t \in DOMAIN told PROVE told[t] \in T
    <2> HIDE DEF T
    <2> QED BY <1>1
  <1> QED BY <1>2

LEMMA AnswerKeeps ==
  ASSUME RequestsRespected, ReqInv, NEW i \in waiting, NEW a \in Answers(OpOf(i)),
         AnswerGiven(i, a),
         waiting' = waiting \ {i}, answered' = answered \cup {i},
         requests' = requests, alive' = alive, cancelled' = cancelled, dangling' = FALSE
  PROVE  ReqInv'
PROOF
  <1> DEFINE R == Recipients(i, a)
             F == Forgotten(i, a)
             m == ManagerOf(OpOf(i))
             r == requests[i].remote
  <1>1. /\ AnswerTells(i, R, F) /\ i \in Ids
        /\ Commands(i) => R = KeptOf(r) \/ \E j \in KeptOf(r) : R = {j}
        /\ ~Commands(i) /\ Telling => i \in R
        /\ track' = track \ F
    BY Answering DEF AnswerGiven, ReqInv, ReqTyped
  <1>2. PICK q : q = told'
    OBVIOUS
  <1>3. /\ q \in Seq([answer : Ids, context : Ids])
        /\ \A t \in DOMAIN told : t \in DOMAIN q /\ q[t] = told[t]
        /\ \A t \in DOMAIN q : t \in DOMAIN told \/ \E j \in R : q[t] = Tell(i, j)
        /\ \A t, u \in DOMAIN q :
             t \notin DOMAIN told /\ u \notin DOMAIN told /\ q[t] = q[u] => t = u
        /\ \A j \in R : \E t \in DOMAIN q : q[t] = Tell(i, j)
    <2>1. told \in Seq([answer : Ids, context : Ids]) /\ IsFiniteSet(R)
      BY <1>1, IdsAre, FS_Subset DEF ReqInv, ReqTyped, AnswerTells
    <2>2. \A j \in R : Tell(i, j) \in [answer : Ids, context : Ids]
      BY <1>1 DEF Tell, AnswerTells
    <2>3. q = told \o SetToSeq({Tell(i, j) : j \in R})
      BY <1>2 DEF AnswerGiven
    <2> DEFINE T == [answer : Ids, context : Ids]
    <2>4. PICK S : S = {Tell(i, j) : j \in R}
      OBVIOUS
    <2>5. told \in Seq(T) /\ S \subseteq T /\ q = told \o SetToSeq(S)
      BY <2>1, <2>2, <2>3, <2>4
    <2> HIDE DEF R, T
    <2>6. ToldFurther(i, R, T, told, q)
      BY <2>1, <2>4, <2>5, ToldMore
    <2> QED BY <2>6 DEF T, ToldFurther
  <1> HIDE DEF R, F
  <1>4. \A j : OpOf(j)' = OpOf(j) /\ (Commands(j)' <=> Commands(j)) /\ Ids' = Ids
    BY DEF OpOf, Commands, Ids
  <1>5. \A j : AdhocKeeps(j)' <=>
                AdhocKeeps(j) /\ ~(Commands(i) /\ j \in R) /\ ~(~Commands(i) /\ j = i /\ m = "Adhoc")
    BY <1>1 DEF AnswerTells, AdhocKeeps, Entry
  <1>6. ReqTyped'
    BY <1>1, <1>2, <1>3, <1>4 DEF ReqInv, ReqTyped
  <1>7. EntriesKnown'
    <2> SUFFICES ASSUME NEW e \in track'
                 PROVE  /\ e.id \in Ids /\ e \in Entries(OpOf(e.id), e.id)
                        /\ e.id \in waiting' \/ (Commands(e.id) /\ e.manager = "Adhoc")
      BY <1>4 DEF EntriesKnown
    <2>1. e \in track /\ e \notin F
      BY <1>1
    <2>2. /\ e.id \in Ids /\ e \in Entries(OpOf(e.id), e.id)
          /\ e.id \in waiting \/ (Commands(e.id) /\ e.manager = "Adhoc")
      BY <2>1 DEF ReqInv, EntriesKnown
    <2>3. CASE e.id = i
      <3>1. e = Entry(m, i) \/ e = Entry("Disco", i)
        BY <2>2, <2>3 DEF Entries
      <3>2. e = Entry(m, i) /\ Commands(i)
        BY <3>1, <2>1, <1>1 DEF AnswerTells
      <3>3. m = "Adhoc"
        BY <3>2, CommandsManager DEF Commands
      <3> QED BY <2>2, <2>3, <3>2, <3>3 DEF Entry
    <2> QED BY <2>2, <2>3
  <1>8. Awaited'
    <2> SUFFICES ASSUME NEW j \in waiting, j # i
                 PROVE  LET n == ManagerOf(OpOf(j))
                        IN /\ n \in alive
                           /\ IF OpOf(j) \in ThroughDisco THEN Entry("Disco", j) \in track'
                              ELSE n \in Tracking => Entry(n, j) \in track' \/ j \in cancelled
      BY <1>4 DEF Awaited
    <2>1. \A n : Entry(n, j) \in F => Commands(i) /\ n = "Adhoc" /\ j \in R
      BY <1>1 DEF AnswerTells, Entry
    <2>2. \A n : Entry(n, j) \in F => OpOf(j) \in ThroughDisco /\ n = "Adhoc"
      BY <2>1, <1>1, CommandsManager DEF AnswerTells, Commands
    <2> QED BY <2>2, <1>1 DEF ReqInv, Awaited
  <1>9. EnoughCome'
    <2> SUFFICES ASSUME NEW s \in Remotes
                 PROVE  Cardinality(KeptOf(s)') <= Cardinality(ComingOf(s)')
      BY DEF EnoughCome
    <2>1. Cardinality(KeptOf(s)) <= Cardinality(ComingOf(s))
      BY DEF ReqInv, EnoughCome
    <2>2. CASE ~Commands(i) \/ s # r
      <3>1. KeptOf(s)' = KeptOf(s)
        BY <2>2, <1>1, <1>4, <1>5 DEF KeptOf, AnswerTells
      <3>2. ComingOf(s)' = ComingOf(s)
        BY <2>2, <1>4 DEF ComingOf
      <3> QED BY <2>1, <3>1, <3>2
    <2>3. CASE Commands(i) /\ s = r
      <3>1. KeptOf(s)' = KeptOf(s) \ R
        BY <2>3, <1>1, <1>4, <1>5 DEF KeptOf, AnswerTells
      <3>2. ComingOf(s)' = ComingOf(s) \ {i} /\ i \in ComingOf(s)
        BY <2>3, <1>4 DEF ComingOf
      <3>3. /\ Cardinality(ComingOf(s) \ {i}) = Cardinality(ComingOf(s)) - 1
            /\ Cardinality(ComingOf(s)) \in Nat
        BY <3>2, KeptFinite, OneFewer
      <3>4. Cardinality({}) = 0 /\ Cardinality(ComingOf(s) \ {i}) \in Nat
        BY <3>2, KeptFinite, OneFewer, FS_EmptySet, FS_CardinalityType
      <3>5. CASE KeptOf(s) \ R = {}
        BY <3>1, <3>2, <3>4, <3>5
      <3>6. CASE \E j \in KeptOf(s) : R = {j}
        <4>1. /\ Cardinality(KeptOf(s) \ R) = Cardinality(KeptOf(s)) - 1
              /\ Cardinality(KeptOf(s)) \in Nat
          BY <3>6, KeptFinite, OneFewer
        <4> QED BY <2>1, <3>1, <3>2, <3>3, <4>1
      <3> QED BY <3>5, <3>6, <2>3, <1>1
    <2> QED BY <2>2, <2>3
  <1>a. ToldRight'
    <2>1. \A t \in DOMAIN told : \A j \in R : told[t].context # j
      BY <1>1 DEF ReqInv, ToldRight, AnswerTells
    <2>2. ASSUME NEW t \in DOMAIN q, NEW u \in DOMAIN q, q[t].context = q[u].context PROVE t = u
      <3>1. CASE t \in DOMAIN told /\ u \in DOMAIN told
        BY <3>1, <2>2, <1>3 DEF ReqInv, ToldRight
      <3>2. CASE t \notin DOMAIN told /\ u \notin DOMAIN told
        BY <3>2, <2>2, <1>3 DEF Tell
      <3>3. CASE t \in DOMAIN told /\ u \notin DOMAIN told
        BY <3>3, <2>1, <2>2, <1>3 DEF Tell
      <3>4. CASE t \notin DOMAIN told /\ u \in DOMAIN told
        BY <3>4, <2>1, <2>2, <1>3 DEF Tell
      <3> QED BY <3>1, <3>2, <3>3, <3>4
    <2>3. ASSUME NEW t \in DOMAIN q
          PROVE  LET k == q[t].context
                     j == q[t].answer
                 IN /\ OpOf(k) = OpOf(j) /\ requests[k].remote = requests[j].remote
                    /\ IF Commands(k) THEN ~AdhocKeeps(k)' ELSE k \notin waiting'
      <3>1. CASE t \in DOMAIN told
        BY <3>1, <1>3, <1>5 DEF ReqInv, ToldRight
      <3>2. CASE t \notin DOMAIN told
        <4>1. PICK j \in R : q[t].context = j /\ q[t].answer = i
          BY <3>2, <1>3 DEF Tell
        <4>2. /\ OpOf(j) = OpOf(i) /\ requests[j].remote = requests[i].remote
              /\ ~Commands(j) => j = i
          BY <1>1 DEF AnswerTells
        <4> QED BY <4>1, <4>2, <1>5 DEF Commands
      <3> QED BY <3>1, <3>2
    <2> QED BY <2>2, <2>3, <1>2, <1>4 DEF ToldRight
  <1>b. Reached'
    <2>1. \A j : ToldOf(j) \/ j \in R => ToldOf(j)'
      BY <1>2, <1>3 DEF ToldOf, Tell
    <2>2. \A j \in Ids : Commands(j) => AdhocKeeps(j)' \/ ToldOf(j)'
      BY <2>1, <1>5 DEF ReqInv, Reached, Commands
    <2>3. ASSUME Telling, NEW j \in answered' \ cancelled, ~Commands(j),
                 ManagerOf(OpOf(j)) \in alive
          PROVE  ToldOf(j)'
      BY <2>1, <2>3, <1>1 DEF ReqInv, Reached
    <2> QED BY <2>2, <2>3, <1>4 DEF Reached
  <1> QED BY <1>6, <1>7, <1>8, <1>9, <1>a, <1>b DEF ReqInv

LEMMA AnswerMissed ==
  ASSUME RequestsRespected, ReqInv, NEW i \in waiting,
         AnswerDropped(i), waiting' = waiting \ {i}, answered' = answered \cup {i},
         requests' = requests, alive' = alive, cancelled' = cancelled, dangling' = FALSE
  PROVE  ReqInv'
PROOF
  <1>0. /\ OpOf(i) \notin ThroughDisco /\ i \in cancelled
        /\ Entry(ManagerOf(OpOf(i)), i) \notin track /\ track' = track /\ told' = told
    BY DEF AnswerDropped
  <1>1. \A j : OpOf(j)' = OpOf(j) /\ (Commands(j)' <=> Commands(j)) /\ Ids' = Ids
               /\ (AdhocKeeps(j)' <=> AdhocKeeps(j)) /\ (ToldOf(j)' <=> ToldOf(j))
    BY <1>0 DEF OpOf, Commands, Ids, AdhocKeeps, ToldOf
  <1>2. ~Commands(i) /\ i \in Ids
    BY <1>0, CommandsManager DEF Commands, ReqInv, ReqTyped
  <1>3. ReqTyped'
    BY <1>0, <1>1, <1>2 DEF ReqInv, ReqTyped
  <1>4. \A e \in track : e.id # i
    BY <1>0, <1>2 DEF ReqInv, EntriesKnown, Entries
  <1>5. EntriesKnown'
    BY <1>0, <1>1, <1>4 DEF ReqInv, EntriesKnown
  <1>6. Awaited'
    BY <1>0, <1>1 DEF ReqInv, Awaited
  <1>7. \A r : KeptOf(r)' = KeptOf(r) /\ ComingOf(r)' = ComingOf(r)
    BY <1>0, <1>1, <1>2 DEF KeptOf, ComingOf
  <1>8. EnoughCome'
    BY <1>7 DEF ReqInv, EnoughCome
  <1>9. ToldRight'
    BY <1>0, <1>1 DEF ReqInv, ToldRight
  <1>a. Reached'
    BY <1>0, <1>1 DEF ReqInv, Reached
  <1> QED BY <1>3, <1>5, <1>6, <1>8, <1>9, <1>a DEF ReqInv

LEMMA AskingKeeps ==
  ASSUME RequestsRespected, ReqInv, NEW op \in Ops, NEW r \in Remotes, NEW a \in Askers,
         Request(op, r, a)
  PROVE  ReqInv'
PROOF
  <1>0. PICK i : i = Len(requests) + 1
    OBVIOUS
  <1>1. /\ i \in Nat /\ i \notin Ids /\ Ids' = Ids \cup {i}
        /\ requests' \in Seq([op : Ops, remote : Remotes, asker : Askers])
        /\ \A j \in Ids : requests'[j] = requests[j]
        /\ requests'[i] = [op |-> op, remote |-> r, asker |-> a]
    BY <1>0 DEF Request, ReqInv, ReqTyped, Ids
  <1>2. /\ waiting' = waiting \cup {i} /\ track' = track \cup Entries(op, i)
        /\ ManagerOf(op) \in alive /\ alive' = alive /\ told' = told /\ answered' = answered
        /\ cancelled' = cancelled /\ dangling' = dangling
    BY <1>0 DEF Request
  <1>3. /\ \A j \in Ids : OpOf(j)' = OpOf(j) /\ (Commands(j)' <=> Commands(j))
        /\ OpOf(i)' = op /\ (Commands(i)' <=> op = "getCommands")
    BY <1>1 DEF OpOf, Commands
  <1>4. \A m : \A j \in Ids : Entry(m, j) \in track' <=> Entry(m, j) \in track
    BY <1>1, <1>2 DEF Entries, Entry
  <1>5. \A e \in track : e.id \in Ids
    BY DEF ReqInv, EntriesKnown
  <1>6. \A e \in Entries(op, i) : e.id = i
    BY DEF Entries, Entry
  <1>7. \A j : (AdhocKeeps(j)' <=>
                  IF j = i THEN Entry("Adhoc", i) \in Entries(op, i) ELSE AdhocKeeps(j))
               /\ (ToldOf(j)' <=> ToldOf(j))
    BY <1>1, <1>2, <1>4, <1>5, <1>6 DEF AdhocKeeps, ToldOf, Entry
  <1>8. op = "getCommands" => Entry("Adhoc", i) \in Entries(op, i)
    <2>1. ManagerOf("getCommands") = "Adhoc" /\ {"Adhoc"} \cap Tracking = {"Adhoc"}
      BY CommandsManager DEF Tracking
    <2> QED BY <2>1 DEF Entries
  <1>9. ReqTyped'
    <2>1. told' \in Seq([answer : Ids', context : Ids'])
      <3> DEFINE T == [answer : Ids, context : Ids]
                 U == [answer : Ids', context : Ids']
      <3>1. told \in Seq(T) /\ T \subseteq U
        BY <1>1 DEF ReqInv, ReqTyped
      <3> HIDE DEF T, U
      <3>2. told \in Seq(U)
        BY <3>1
      <3> QED BY <3>2, <1>2 DEF U
    <2> QED BY <2>1, <1>1, <1>2 DEF ReqInv, ReqTyped
  <1>a. EntriesKnown'
    BY <1>1, <1>2, <1>3, <1>6 DEF ReqInv, EntriesKnown
  <1>b. Awaited'
    <2>1. \A j \in waiting : j \in Ids
      BY DEF ReqInv, ReqTyped
    <2>2. ASSUME NEW j \in waiting
          PROVE  LET m == ManagerOf(OpOf(j)')
                 IN /\ m \in alive'
                    /\ IF OpOf(j)' \in ThroughDisco THEN Entry("Disco", j) \in track'
                       ELSE m \in Tracking => Entry(m, j) \in track' \/ j \in cancelled'
      BY <2>1, <1>2, <1>3 DEF ReqInv, Awaited
    <2>3. LET m == ManagerOf(op)
          IN /\ m \in alive'
             /\ IF op \in ThroughDisco THEN Entry("Disco", i) \in track'
                ELSE m \in Tracking => Entry(m, i) \in track' \/ i \in cancelled'
      BY <1>2 DEF Entries
    <2> QED BY <2>2, <2>3, <1>2, <1>3 DEF Awaited
  <1>c. EnoughCome'
    <2> SUFFICES ASSUME NEW s \in Remotes
                 PROVE  Cardinality(KeptOf(s)') <= Cardinality(ComingOf(s)')
      BY DEF EnoughCome
    <2>1. /\ Cardinality(KeptOf(s)) <= Cardinality(ComingOf(s)) /\ waiting \subseteq Ids
          /\ IsFiniteSet(KeptOf(s)) /\ IsFiniteSet(ComingOf(s))
          /\ Cardinality(KeptOf(s)) \in Nat /\ Cardinality(ComingOf(s)) \in Nat
          /\ i \notin KeptOf(s) /\ i \notin ComingOf(s)
      BY <1>1, KeptFinite DEF ReqInv, EnoughCome, ReqTyped, KeptOf, ComingOf
    <2>2. CASE op = "getCommands" /\ s = r
      <3>1. KeptOf(s)' = KeptOf(s) \cup {i}
        BY <2>2, <1>1, <1>3, <1>7, <1>8 DEF KeptOf
      <3>2. ComingOf(s)' = ComingOf(s) \cup {i}
        BY <2>1, <2>2, <1>1, <1>2, <1>3 DEF ComingOf
      <3>3. /\ Cardinality(KeptOf(s) \cup {i}) = Cardinality(KeptOf(s)) + 1
            /\ Cardinality(ComingOf(s) \cup {i}) = Cardinality(ComingOf(s)) + 1
        BY <2>1, OneMore
      <3> QED BY <2>1, <3>1, <3>2, <3>3
    <2>3. CASE ~(op = "getCommands" /\ s = r)
      <3>1. KeptOf(s)' = KeptOf(s)
        BY <2>3, <1>1, <1>3, <1>7, <1>8 DEF KeptOf
      <3>2. ComingOf(s)' = ComingOf(s)
        BY <2>1, <2>3, <1>1, <1>2, <1>3 DEF ComingOf
      <3> QED BY <2>1, <3>1, <3>2
    <2> QED BY <2>2, <2>3
  <1>d. ToldRight'
    <2>1. \A t \in DOMAIN told : told[t].context \in Ids /\ told[t].answer \in Ids
      BY ToldIds
    <2> QED BY <2>1, <1>1, <1>2, <1>3, <1>7 DEF ReqInv, ToldRight
  <1>e. Reached'
    <2>1. answered \subseteq Ids
      BY DEF ReqInv, ReqTyped
    <2> QED BY <2>1, <1>1, <1>2, <1>3, <1>7, <1>8 DEF ReqInv, Reached
  <1> QED BY <1>9, <1>a, <1>b, <1>c, <1>d, <1>e DEF ReqInv

LEMMA CancelKeeps ==
  ASSUME ReqInv, NEW m \in Cancellable, NEW asker \in Askers, Cancel(m, asker)
  PROVE  ReqInv'
PROOF
  <1>1. PICK gone : /\ gone \subseteq EntriesOf(m, asker)
                    /\ track' = track \ gone /\ cancelled' = cancelled \cup {e.id : e \in gone}
    BY DEF Cancel
  <1>2. /\ requests' = requests /\ waiting' = waiting /\ alive' = alive /\ told' = told
        /\ answered' = answered /\ dangling' = dangling
    BY DEF Cancel
  <1>3. m # "Adhoc" /\ m # "FlexibleOffline"
    BY DEF Cancellable
  <1>4. \A e \in gone : e.manager = m /\ ManagerOf(OpOf(e.id)) = m
    BY <1>1 DEF EntriesOf, OpOf
  <1>5. \A n, j : Entry(n, j) \in gone =>
          n = m /\ ManagerOf(OpOf(j)) = m /\ j \in cancelled' /\ OpOf(j) \notin ThroughDisco
    <2> SUFFICES ASSUME NEW n, NEW j, Entry(n, j) \in gone
                 PROVE  /\ n = m /\ ManagerOf(OpOf(j)) = m /\ j \in cancelled'
                        /\ OpOf(j) \notin ThroughDisco
      OBVIOUS
    <2>1. Entry(n, j).manager = n /\ Entry(n, j).id = j
      BY DEF Entry
    <2>2. n = m /\ ManagerOf(OpOf(j)) = m /\ j \in cancelled'
      BY <2>1, <1>1, <1>4
    <2>3. OpOf(j) \notin ThroughDisco
      BY <2>2, <1>3, CommandsManager
    <2> QED BY <2>2, <2>3
  <1>6. \A j : OpOf(j)' = OpOf(j) /\ (Commands(j)' <=> Commands(j)) /\ Ids' = Ids
               /\ (ToldOf(j)' <=> ToldOf(j))
    BY <1>2 DEF OpOf, Commands, Ids, ToldOf
  <1>7. \A j : AdhocKeeps(j)' <=> AdhocKeeps(j)
    BY <1>1, <1>3, <1>5 DEF AdhocKeeps
  <1>8. ReqTyped'
    BY <1>2, <1>6 DEF ReqInv, ReqTyped
  <1>9. EntriesKnown'
    BY <1>1, <1>2, <1>6 DEF ReqInv, EntriesKnown
  <1>a. Awaited'
    BY <1>1, <1>2, <1>5, <1>6 DEF ReqInv, Awaited
  <1>b. \A r : KeptOf(r)' = KeptOf(r) /\ ComingOf(r)' = ComingOf(r)
    BY <1>2, <1>6, <1>7 DEF KeptOf, ComingOf
  <1>c. EnoughCome'
    BY <1>b DEF ReqInv, EnoughCome
  <1>d. ToldRight'
    BY <1>2, <1>6, <1>7 DEF ReqInv, ToldRight
  <1>e. Reached'
    BY <1>1, <1>2, <1>6, <1>7 DEF ReqInv, Reached
  <1> QED BY <1>8, <1>9, <1>a, <1>c, <1>d, <1>e DEF ReqInv

LEMMA DeletionKeeps ==
  ASSUME RequestsRespected, ReqInv, NEW m \in Deletes, DeleteManager(m)
  PROVE  ReqInv'
PROOF
  <1>1. m \notin {"PubSub", "Disco", "Adhoc", "FlexibleOffline"}
    BY DEF RequestsRespected
  <1>2. /\ alive' = alive \ {m} /\ track' = {e \in track : e.manager # m}
        /\ requests' = requests /\ told' = told /\ answered' = answered
        /\ cancelled' = cancelled /\ dangling' = dangling
    BY DEF DeleteManager
  <1>3. \A i : OpOf(i) \in ThroughDisco => ManagerOf(OpOf(i)) # m
    BY <1>1, CommandsManager
  <1>4. \A i : i \in waiting' <=> i \in waiting /\ ManagerOf(OpOf(i)) # m
    BY <1>1, <1>3 DEF DeleteManager, StillWaiting, OpOf
  <1>5. \A n, j : Entry(n, j) \in track' <=> Entry(n, j) \in track /\ n # m
    BY <1>2 DEF Entry
  <1>6. \A j : OpOf(j)' = OpOf(j) /\ (Commands(j)' <=> Commands(j)) /\ Ids' = Ids
               /\ (ToldOf(j)' <=> ToldOf(j)) /\ (AdhocKeeps(j)' <=> AdhocKeeps(j))
    BY <1>1, <1>2, <1>5 DEF OpOf, Commands, Ids, ToldOf, AdhocKeeps
  <1>7. ReqTyped'
    BY <1>1, <1>2, <1>4, <1>6 DEF ReqInv, ReqTyped
  <1>8. EntriesKnown'
    <2> SUFFICES ASSUME NEW e \in track'
                 PROVE  /\ e.id \in Ids /\ e \in Entries(OpOf(e.id), e.id)
                        /\ e.id \in waiting' \/ (Commands(e.id) /\ e.manager = "Adhoc")
      BY <1>6 DEF EntriesKnown
    <2>1. e \in track /\ e.manager # m
      BY <1>2
    <2>2. /\ e.id \in Ids /\ e \in Entries(OpOf(e.id), e.id)
          /\ e.id \in waiting \/ (Commands(e.id) /\ e.manager = "Adhoc")
      BY <2>1 DEF ReqInv, EntriesKnown
    <2>3. e.manager = ManagerOf(OpOf(e.id)) \/ OpOf(e.id) \in ThroughDisco
      BY <2>2 DEF Entries, Entry
    <2> QED BY <2>1, <2>2, <2>3, <1>3, <1>4
  <1>9. Awaited'
    BY <1>1, <1>2, <1>4, <1>5, <1>6 DEF ReqInv, Awaited
  <1>a. \A r : KeptOf(r)' = KeptOf(r) /\ ComingOf(r)' = ComingOf(r)
    <2>1. \A i : Commands(i) => (i \in waiting' <=> i \in waiting)
      BY <1>3, <1>4, CommandsManager DEF Commands
    <2> QED BY <2>1, <1>2, <1>6 DEF KeptOf, ComingOf
  <1>b. EnoughCome'
    BY <1>a DEF ReqInv, EnoughCome
  <1>c. ToldRight'
    BY <1>2, <1>4, <1>6 DEF ReqInv, ToldRight
  <1>d. Reached'
    BY <1>2, <1>6 DEF ReqInv, Reached
  <1> QED BY <1>7, <1>8, <1>9, <1>b, <1>c, <1>d DEF ReqInv

LEMMA ReqRests ==
  ASSUME ReqInv, UNCHANGED reqVars
  PROVE  ReqInv'
PROOF
  <1>1. \A j : OpOf(j)' = OpOf(j) /\ (Commands(j)' <=> Commands(j)) /\ Ids' = Ids
               /\ (ToldOf(j)' <=> ToldOf(j)) /\ (AdhocKeeps(j)' <=> AdhocKeeps(j))
    BY DEF OpOf, Commands, Ids, ToldOf, AdhocKeeps, reqVars
  <1>2. \A r : KeptOf(r)' = KeptOf(r) /\ ComingOf(r)' = ComingOf(r)
    BY <1>1 DEF KeptOf, ComingOf, reqVars
  <1>3. EnoughCome'
    BY <1>2 DEF ReqInv, EnoughCome
  <1> QED BY <1>1, <1>3 DEF ReqInv, ReqTyped, EntriesKnown, Awaited, ToldRight, Reached, reqVars

LEMMA ReqStart == RequestsInit => ReqInv
PROOF
  <1> SUFFICES ASSUME RequestsInit PROVE ReqInv
    OBVIOUS
  <1>1. Ids = {} /\ DOMAIN told = {}
    BY DEF RequestsInit, Ids
  <1>2. ReqTyped
    <2>1. {"PubSub", "Disco", "Adhoc", "FlexibleOffline"} \subseteq alive
      BY DEF RequestsInit, Managers, OpsOf
    <2>2. requests \in Seq([op : Ops, remote : Remotes, asker : Askers])
          /\ told \in Seq([answer : Ids, context : Ids])
      BY DEF RequestsInit
    <2> QED BY <2>1, <2>2 DEF ReqTyped, RequestsInit
  <1>3. EnoughCome
    <2>1. \A r : KeptOf(r) = {} /\ ComingOf(r) = {}
      BY <1>1 DEF KeptOf, ComingOf, RequestsInit
    <2> QED BY <2>1, FS_EmptySet DEF EnoughCome
  <1> QED BY <1>1, <1>2, <1>3 DEF ReqInv, EntriesKnown, Awaited, ToldRight, Reached, RequestsInit

LEMMA ReplyKeeps ==
  ASSUME RequestsRespected, ReqInv, NEW i \in waiting, NEW a \in Answers(requests[i].op),
         NEW c \in BOOLEAN, HandleReply(i, a, c)
  PROVE  ReqInv'
PROOF
  <1>1. a \in Answers(OpOf(i))
    BY DEF OpOf
  <1>2. dangling' = FALSE
    <2>1. ~dangling' /\ dangling = FALSE
      BY <1>1, AnswerIs DEF ReqInv, ReqTyped
    <2>2. dangling' \in BOOLEAN
      BY <2>1 DEF HandleReply
    <2> QED BY <2>1, <2>2
  <1>3. /\ waiting' = waiting \ {i} /\ answered' = answered \cup {i}
        /\ requests' = requests /\ alive' = alive /\ cancelled' = cancelled
        /\ AnswerGiven(i, a) \/ AnswerDropped(i)
    BY <1>1, AnswerIs
  <1>4. CASE AnswerGiven(i, a)
    BY <1>1, <1>2, <1>3, <1>4, AnswerKeeps
  <1>5. CASE AnswerDropped(i)
    BY <1>2, <1>3, <1>5, AnswerMissed
  <1> QED BY <1>3, <1>4, <1>5

LEMMA ReqStep ==
  ASSUME RequestsRespected, ReqInv, [RequestsNext]_requestVars
  PROVE  ReqInv'
PROOF
  <1>1. CASE UNCHANGED reqVars
    BY <1>1, ReqRests
  <1>2. ASSUME NEW op \in Ops, NEW r \in Remotes, NEW a \in Askers, Request(op, r, a)
        PROVE  ReqInv'
    BY <1>2, AskingKeeps
  <1>3. ASSUME NEW m \in Cancellable, NEW a \in Askers, Cancel(m, a) PROVE ReqInv'
    BY <1>3, CancelKeeps
  <1>4. ASSUME NEW m \in Deletes, DeleteManager(m) PROVE ReqInv'
    BY <1>4, DeletionKeeps
  <1>5. ASSUME NEW i \in waiting, NEW a \in Answers(requests[i].op), NEW c \in BOOLEAN,
               HandleReply(i, a, c)
        PROVE  ReqInv'
    BY <1>5, ReplyKeeps
  <1>6. HandleQuery \/ (\E s \in Sessions : HandleCommand(s) \/ Respond(s)) => UNCHANGED reqVars
    BY DEF HandleQuery, HandleCommand, Respond
  <1>7. UNCHANGED requestVars => UNCHANGED reqVars
    BY DEF requestVars
  <1> QED BY <1>1, <1>2, <1>3, <1>4, <1>5, <1>6, <1>7 DEF RequestsNext

LEMMA ReqAlive ==
  ASSUME ReqInv PROVE NothingDangles /\ MapsEmpty
PROOF
  <1>1. NothingDangles
    BY DEF NothingDangles, ReqInv, ReqTyped
  <1>2. MapsEmpty
    <2> SUFFICES ASSUME waiting = {}, NEW e \in track PROVE FALSE
      BY DEF MapsEmpty
    <2>1. /\ e.id \in Ids /\ Commands(e.id) /\ e.manager = "Adhoc" /\ e = Entry(e.manager, e.id)
      BY DEF ReqInv, EntriesKnown, Entries, Entry
    <2>2. PICK r \in Remotes : r = requests[e.id].remote
      BY <2>1, RequestIs
    <2>3. e.id \in KeptOf(r) /\ ComingOf(r) = {}
      BY <2>1, <2>2 DEF KeptOf, ComingOf, AdhocKeeps
    <2>4. Cardinality(KeptOf(r)) = 0
      BY <2>3, KeptFinite, FS_EmptySet DEF ReqInv, EnoughCome
    <2> QED BY <2>3, <2>4, KeptFinite, FS_EmptySet
  <1> QED BY <1>1, <1>2

\* The application asks Adhoc for no commands it has asked the same party for
\* and has not been told of.
AskedInTurn == ~AsksAgain

\* So Adhoc keeps one question for commands of a party, that of the answer to
\* come: the answer finds whose it is.
OwnAnswers ==
  /\ \A i, j \in Ids :
       /\ Commands(i) /\ Commands(j) /\ AdhocKeeps(i) /\ AdhocKeeps(j)
       /\ requests[i].remote = requests[j].remote
       => i = j
  /\ \A i \in waiting : Commands(i) => AdhocKeeps(i)
  /\ \A t \in DOMAIN told : told[t].answer = told[t].context

LEMMA OwnStart == RequestsInit => OwnAnswers
PROOF
  <1> SUFFICES ASSUME RequestsInit PROVE OwnAnswers
    OBVIOUS
  <1>1. Ids = {} /\ DOMAIN told = {} /\ waiting = {}
    BY DEF RequestsInit, Ids
  <1> QED BY <1>1 DEF OwnAnswers

\* The answer to a question for commands is its own.
LEMMA OwnRecipient ==
  ASSUME RequestsRespected, ReqInv, OwnAnswers, NEW i \in waiting, NEW a \in Answers(OpOf(i))
  PROVE  Recipients(i, a) \subseteq {i}
PROOF
  <1>1. AnswerTells(i, Recipients(i, a), Forgotten(i, a)) /\ i \in Ids
    BY Answering DEF ReqInv, ReqTyped
  <1>2. SUFFICES ASSUME NEW j \in Recipients(i, a) PROVE j = i
    OBVIOUS
  <1>3. /\ j \in Ids /\ OpOf(j) = OpOf(i) /\ requests[j].remote = requests[i].remote
        /\ IF Commands(j) THEN AdhocKeeps(j) ELSE j = i
    BY <1>1 DEF AnswerTells
  <1>4. Commands(j) <=> Commands(i)
    BY <1>3 DEF Commands
  <1> QED BY <1>1, <1>3, <1>4 DEF OwnAnswers

LEMMA OwnReply ==
  ASSUME RequestsRespected, ReqInv, OwnAnswers,
         NEW i \in waiting, NEW a \in Answers(requests[i].op), NEW c \in BOOLEAN,
         HandleReply(i, a, c)
  PROVE  OwnAnswers'
PROOF
  <1>1. a \in Answers(OpOf(i))
    BY DEF OpOf
  <1>2. /\ waiting' = waiting \ {i} /\ requests' = requests
        /\ AnswerGiven(i, a) \/ AnswerDropped(i)
    BY <1>1, AnswerIs
  <1>3. \A j : (Commands(j)' <=> Commands(j)) /\ Ids' = Ids
    BY <1>2 DEF OpOf, Commands, Ids
  <1>4. CASE AnswerDropped(i)
    BY <1>2, <1>3, <1>4 DEF AnswerDropped, OwnAnswers, AdhocKeeps
  <1>5. CASE AnswerGiven(i, a)
    <2> DEFINE R == Recipients(i, a)
               F == Forgotten(i, a)
    <2>1. /\ AnswerTells(i, R, F) /\ R \subseteq {i} /\ i \in Ids /\ track' = track \ F
      BY <1>1, <1>5, Answering, OwnRecipient DEF AnswerGiven, ReqInv, ReqTyped
    <2>2. PICK q : q = told'
      OBVIOUS
    <2>3. \A t \in DOMAIN q : (t \in DOMAIN told /\ q[t] = told[t]) \/ q[t] = Tell(i, i)
      <3> DEFINE T == [answer : Ids, context : Ids]
      <3>1. told \in Seq(T) /\ IsFiniteSet(R)
        BY ZenonT(60), <2>1, IdsAre, FS_Subset DEF ReqInv, ReqTyped
      <3>2. PICK S : S = {Tell(i, j) : j \in R}
        OBVIOUS
      <3>3. S \subseteq T /\ q = told \o SetToSeq(S)
        BY <1>5, <2>1, <2>2, <3>2 DEF Tell, AnswerGiven
      <3> HIDE DEF R, T
      <3>4. ToldFurther(i, R, T, told, q)
        BY <3>1, <3>2, <3>3, ToldMore
      <3>5. \A j \in R : j = i
        BY <2>1
      <3> QED BY <3>4, <3>5 DEF ToldFurther
    <2>4. \A t \in DOMAIN q : q[t].answer = q[t].context
      BY <2>3 DEF OwnAnswers, Tell
    <2> HIDE DEF R, F
    <2>5. \A j : AdhocKeeps(j)' => AdhocKeeps(j)
      BY <2>1 DEF AdhocKeeps
    <2>6. \A j \in waiting \ {i} : AdhocKeeps(j) => AdhocKeeps(j)'
      BY <2>1 DEF AdhocKeeps, AnswerTells, Entry
    <2> QED BY <1>2, <1>3, <2>2, <2>4, <2>5, <2>6 DEF OwnAnswers
  <1> QED BY <1>2, <1>4, <1>5

LEMMA OwnQuestion ==
  ASSUME AskedInTurn, RequestsRespected, ReqInv, OwnAnswers,
         NEW op \in Ops, NEW r \in Remotes, NEW a \in Askers, Request(op, r, a)
  PROVE  OwnAnswers'
PROOF
  <1>1. PICK i : i = Len(requests) + 1
    OBVIOUS
  <1>2. /\ i \notin Ids /\ Ids' = Ids \cup {i} /\ \A j \in Ids : requests'[j] = requests[j]
        /\ requests'[i] = [op |-> op, remote |-> r, asker |-> a]
    BY <1>1 DEF Request, ReqInv, ReqTyped, Ids
  <1>3. /\ waiting' = waiting \cup {i} /\ track' = track \cup Entries(op, i) /\ told' = told
        /\ ~AskedAlready(op, r)
    BY <1>1 DEF Request, AskedInTurn
  <1>4. /\ \A j \in Ids : Commands(j)' <=> Commands(j)
        /\ Commands(i)' <=> op = "getCommands"
    BY <1>2 DEF OpOf, Commands
  <1>5. \A j \in Ids : AdhocKeeps(j)' <=> AdhocKeeps(j)
    BY <1>2, <1>3 DEF AdhocKeeps, Entries, Entry
  <1>6. op = "getCommands" => AdhocKeeps(i)'
    <2>1. ManagerOf("getCommands") = "Adhoc" /\ {"Adhoc"} \cap Tracking = {"Adhoc"}
      BY CommandsManager DEF Tracking
    <2> QED BY <2>1, <1>3 DEF Entries, AdhocKeeps
  <1>7. op = "getCommands" =>
          \A j \in Ids : Commands(j) /\ AdhocKeeps(j) => requests[j].remote # r
    <2> SUFFICES ASSUME op = "getCommands", NEW j \in Ids, Commands(j), AdhocKeeps(j),
                        requests[j].remote = r
                 PROVE  FALSE
      OBVIOUS
    <2>1. Entry("Adhoc", j).manager = "Adhoc" /\ Entry("Adhoc", j).id = j
      BY DEF Entry
    <2>2. requests[j].op = op /\ Entry("Adhoc", j) \in track
      BY DEF Commands, OpOf, AdhocKeeps
    <2> QED BY <2>1, <2>2, <1>3, CommandsManager DEF AskedAlready
  <1>8. \A j \in waiting : j \in Ids
    BY DEF ReqInv, ReqTyped
  <1>9. \A j, k \in Ids' :
          /\ Commands(j)' /\ Commands(k)' /\ AdhocKeeps(j)' /\ AdhocKeeps(k)'
          /\ requests'[j].remote = requests'[k].remote
          => j = k
    <2>1. \A j, k \in Ids :
            /\ Commands(j)' /\ Commands(k)' /\ AdhocKeeps(j)' /\ AdhocKeeps(k)'
            /\ requests'[j].remote = requests'[k].remote
            => j = k
      BY <1>2, <1>4, <1>5 DEF OwnAnswers
    <2>2. \A j \in Ids :
            Commands(j)' /\ AdhocKeeps(j)' /\ Commands(i)' =>
              requests'[j].remote # requests'[i].remote
      BY <1>2, <1>4, <1>5, <1>7
    <2> QED BY <2>1, <2>2, <1>2
  <1>a. \A j \in waiting' : Commands(j)' => AdhocKeeps(j)'
    BY <1>3, <1>4, <1>5, <1>6, <1>8 DEF OwnAnswers
  <1> QED BY <1>3, <1>9, <1>a DEF OwnAnswers

\* What leaves the questions, Adhoc's map and what was told alone.
LEMMA OwnRests ==
  ASSUME OwnAnswers, requests' = requests, told' = told, waiting' \subseteq waiting,
         \A j : AdhocKeeps(j)' <=> AdhocKeeps(j)
  PROVE  OwnAnswers'
PROOF
  <1>1. \A j : (Commands(j)' <=> Commands(j)) /\ Ids' = Ids
    BY DEF OpOf, Commands, Ids
  <1> QED BY <1>1 DEF OwnAnswers

LEMMA OwnStep ==
  ASSUME AskedInTurn, RequestsRespected, ReqInv, OwnAnswers, [RequestsNext]_requestVars
  PROVE  OwnAnswers'
PROOF
  <1>1. CASE UNCHANGED reqVars
    BY <1>1, OwnRests DEF reqVars, AdhocKeeps
  <1>2. ASSUME NEW op \in Ops, NEW r \in Remotes, NEW a \in Askers, Request(op, r, a)
        PROVE  OwnAnswers'
    BY <1>2, OwnQuestion
  <1>3. ASSUME NEW m \in Cancellable, NEW a \in Askers, Cancel(m, a) PROVE OwnAnswers'
    <2>1. PICK gone : gone \subseteq EntriesOf(m, a) /\ track' = track \ gone
      BY <1>3 DEF Cancel
    <2>2. \A j : Entry("Adhoc", j) \notin gone
      BY <2>1 DEF EntriesOf, Entry, Cancellable
    <2>3. \A j : AdhocKeeps(j)' <=> AdhocKeeps(j)
      BY <2>1, <2>2 DEF AdhocKeeps
    <2> QED BY <1>3, <2>3, OwnRests DEF Cancel
  <1>4. ASSUME NEW m \in Deletes, DeleteManager(m) PROVE OwnAnswers'
    <2>1. m # "Adhoc"
      BY DEF RequestsRespected
    <2>2. \A j : AdhocKeeps(j)' <=> AdhocKeeps(j)
      BY <1>4, <2>1 DEF DeleteManager, AdhocKeeps, Entry
    <2> QED BY <1>4, <2>2, OwnRests DEF DeleteManager, StillWaiting
  <1>5. ASSUME NEW i \in waiting, NEW a \in Answers(requests[i].op), NEW c \in BOOLEAN,
               HandleReply(i, a, c)
        PROVE  OwnAnswers'
    BY <1>5, OwnReply
  <1>6. HandleQuery \/ (\E s \in Sessions : HandleCommand(s) \/ Respond(s)) => UNCHANGED reqVars
    BY DEF HandleQuery, HandleCommand, Respond
  <1>7. UNCHANGED requestVars => UNCHANGED reqVars
    BY DEF requestVars
  <1> QED BY <1>1, <1>2, <1>3, <1>4, <1>5, <1>6, <1>7 DEF RequestsNext

LEMMA ReqTold ==
  ASSUME Telling, ReqInv, OwnAnswers PROVE AskerTold
PROOF
  <1>1. \A t, u \in DOMAIN told : told[t].context = told[u].context => t = u
    BY DEF ReqInv, ToldRight
  <1>2. \A t \in DOMAIN told : told[t].answer = told[t].context
    BY DEF OwnAnswers
  <1>3. ASSUME waiting = {}, NEW i \in answered \ cancelled, ManagerOf(requests[i].op) \in alive
        PROVE  \E t \in DOMAIN told : told[t].context = i
    <2>1. i \in Ids
      BY DEF ReqInv, ReqTyped
    <2>2. CASE ~Commands(i)
      BY <2>2, <1>3 DEF ReqInv, Reached, OpOf, ToldOf
    <2>3. CASE Commands(i)
      <3>1. ~AdhocKeeps(i)
        <4>1. Entry("Adhoc", i).manager = "Adhoc" /\ "Adhoc" \in alive
          BY DEF Entry, ReqInv, ReqTyped
        <4> QED BY <4>1, <1>3, ReqAlive DEF MapsEmpty, AdhocKeeps
      <3> QED BY <3>1, <2>1, <2>3 DEF ReqInv, Reached, ToldOf
    <2> QED BY <2>2, <2>3
  <1> QED BY <1>1, <1>2, <1>3 DEF AskerTold

-----------------------------------------------------------------------------
(* Requests received. *)

\* Each request received is answered, or its session knows it, and not both.
Served ==
  /\ incoming \in Seq({"query", "command"}) /\ replies \in Seq(DOMAIN incoming)
  /\ \A i, j \in DOMAIN replies : replies[i] = replies[j] => i = j
  /\ sessions \in [DOMAIN sessions -> DOMAIN incoming]
  /\ \A s, t \in DOMAIN sessions : sessions[s] = sessions[t] => s = t
  /\ \A s \in DOMAIN sessions : sessions[s] \notin Range(replies)
  /\ \A i \in DOMAIN incoming :
       i \in Range(replies) \/ \E s \in DOMAIN sessions : sessions[s] = i

LEMMA ServedStart == RequestsInit => Served
PROOF
  <1> SUFFICES ASSUME RequestsInit PROVE Served
    OBVIOUS
  <1>1. incoming = <<>> /\ replies = <<>> /\ sessions = <<>>
    BY DEF RequestsInit
  <1>2. sessions \in [DOMAIN sessions -> DOMAIN incoming] /\ DOMAIN sessions = {}
    BY <1>1
  <1> QED BY <1>1, <1>2 DEF Served

LEMMA RepliesMore ==
  ASSUME NEW n \in Nat, replies \in Seq(1..n), NEW x \in 1..(n + 1),
         \A i, j \in DOMAIN replies : replies[i] = replies[j] => i = j, x \notin Range(replies),
         NEW q, q = Append(replies, x)
  PROVE  /\ q \in Seq(1..(n + 1)) /\ Range(q) = Range(replies) \cup {x}
         /\ \A i, j \in DOMAIN q : q[i] = q[j] => i = j
PROOF
  <1>1. /\ Len(replies) \in Nat /\ DOMAIN replies = 1..Len(replies)
        /\ DOMAIN q = 1..(Len(replies) + 1) /\ q[Len(replies) + 1] = x
        /\ \A i \in DOMAIN replies : i \in DOMAIN q /\ q[i] = replies[i] /\ replies[i] \in 1..n
    OBVIOUS
  <1>2. q \in Seq(1..(n + 1))
    OBVIOUS
  <1>3. Range(q) = Range(replies) \cup {x}
    <2>1. ASSUME NEW i \in DOMAIN q PROVE q[i] \in Range(replies) \cup {x}
      BY <1>1 DEF Range
    <2>2. x \in Range(q) /\ \A i \in DOMAIN replies : replies[i] \in Range(q)
      BY <1>1 DEF Range
    <2>3. Range(q) \subseteq Range(replies) \cup {x}
      BY <2>1 DEF Range
    <2>4. Range(replies) \subseteq Range(q)
      <3> SUFFICES ASSUME NEW i \in DOMAIN replies PROVE replies[i] \in Range(q)
        BY DEF Range
      <3> QED BY <2>2
    <2> QED BY <2>2, <2>3, <2>4
  <1>4. \A i, j \in DOMAIN q : q[i] = q[j] => i = j
    BY <1>1 DEF Range
  <1> QED BY <1>2, <1>3, <1>4

LEMMA ServedStep ==
  ASSUME Served, [RequestsNext]_requestVars
  PROVE  Served'
PROOF
  <1> DEFINE n == Len(incoming)
  <1>0. n \in Nat /\ DOMAIN incoming = 1..n /\ replies \in Seq(1..n)
    BY DEF Served
  <1>1. CASE UNCHANGED srvVars
    BY <1>1 DEF Served, srvVars
  <1>2. CASE HandleQuery
    <2>1. n + 1 \notin Range(replies)
      BY <1>0 DEF Range
    <2>2. /\ replies' \in Seq(1..(n + 1)) /\ Range(replies') = Range(replies) \cup {n + 1}
          /\ \A i, j \in DOMAIN replies' : replies'[i] = replies'[j] => i = j
      <3>1. PICK x \in 1..(n + 1) : x = n + 1
        BY <1>0
      <3>2. PICK q : q = Append(replies, x)
        OBVIOUS
      <3>3. /\ replies' = q /\ x \notin Range(replies)
            /\ \A i, j \in DOMAIN replies : replies[i] = replies[j] => i = j
        BY <1>2, <2>1, <3>1, <3>2 DEF HandleQuery, Served
      <3> HIDE DEF n
      <3>4. /\ q \in Seq(1..(n + 1)) /\ Range(q) = Range(replies) \cup {x}
            /\ \A i, j \in DOMAIN q : q[i] = q[j] => i = j
        BY <1>0, <3>2, <3>3, RepliesMore
      <3> QED BY <3>1, <3>3, <3>4
    <2>3. /\ incoming' \in Seq({"query", "command"}) /\ DOMAIN incoming' = 1..(n + 1)
          /\ sessions' = sessions
      BY <1>0, <1>2 DEF HandleQuery, Served
    <2>4. \A s \in DOMAIN sessions : sessions[s] \in 1..n
      BY <1>0 DEF Served
    <2>5. sessions' \in [DOMAIN sessions' -> DOMAIN incoming']
      BY <1>0, <2>3, <2>4 DEF Served
    <2>6. \A s \in DOMAIN sessions' : sessions'[s] \notin Range(replies')
      BY <1>0, <2>2, <2>3, <2>4 DEF Served
    <2>7. \A i \in DOMAIN incoming' :
            i \in Range(replies') \/ \E s \in DOMAIN sessions' : sessions'[s] = i
      BY <1>0, <2>2, <2>3 DEF Served
    <2> QED BY <2>2, <2>3, <2>5, <2>6, <2>7 DEF Served
  <1>3. ASSUME NEW x \in Sessions, HandleCommand(x) PROVE Served'
    <2>1. /\ incoming' \in Seq({"query", "command"}) /\ DOMAIN incoming' = 1..(n + 1)
          /\ replies' = replies /\ x \notin DOMAIN sessions
      BY <1>0, <1>3 DEF HandleCommand, Served
    <2>2. /\ DOMAIN sessions' = DOMAIN sessions \cup {x} /\ sessions'[x] = n + 1
          /\ \A s \in DOMAIN sessions : sessions'[s] = sessions[s]
          /\ sessions' = [s \in DOMAIN sessions' |-> sessions'[s]]
      <3>1. sessions' = [s \in DOMAIN sessions \cup {x} |-> IF s = x THEN n + 1 ELSE sessions[s]]
        BY <1>3 DEF HandleCommand
      <3> QED BY <2>1, <3>1
    <2>3. \A s \in DOMAIN sessions : sessions[s] \in 1..n
      BY <1>0 DEF Served
    <2>4. \A i \in Range(replies) : i \in 1..n
      BY <1>0 DEF Range
    <2>5. replies' \in Seq(DOMAIN incoming')
      BY <1>0, <2>1
    <2>6. sessions' \in [DOMAIN sessions' -> DOMAIN incoming']
      BY <1>0, <2>1, <2>2, <2>3
    <2>7. \A s, t \in DOMAIN sessions' : sessions'[s] = sessions'[t] => s = t
      BY <1>0, <2>2, <2>3 DEF Served
    <2>8. \A s \in DOMAIN sessions' : sessions'[s] \notin Range(replies')
      BY <1>0, <2>1, <2>2, <2>4 DEF Served
    <2>9. \A i \in DOMAIN incoming' :
            i \in Range(replies') \/ \E s \in DOMAIN sessions' : sessions'[s] = i
      BY <1>0, <2>1, <2>2 DEF Served
    <2> QED BY <2>1, <2>5, <2>6, <2>7, <2>8, <2>9 DEF Served
  <1>4. ASSUME NEW x \in Sessions, Respond(x) PROVE Served'
    <2>1. /\ x \in DOMAIN sessions /\ replies' = Append(replies, sessions[x])
          /\ incoming' = incoming /\ sessions' = [s \in DOMAIN sessions \ {x} |-> sessions[s]]
      BY <1>4 DEF Respond, Answered, Restrict
    <2>2. sessions[x] \in 1..n /\ sessions[x] \in 1..(n + 1) /\ sessions[x] \notin Range(replies)
      BY <1>0, <2>1 DEF Served
    <2>3. /\ Range(replies') = Range(replies) \cup {sessions[x]}
          /\ \A i, j \in DOMAIN replies' : replies'[i] = replies'[j] => i = j
      <3>1. PICK q : q = Append(replies, sessions[x])
        OBVIOUS
      <3>2. replies' = q /\ \A i, j \in DOMAIN replies : replies[i] = replies[j] => i = j
        BY <2>1, <3>1 DEF Served
      <3> HIDE DEF n
      <3>3. /\ q \in Seq(1..(n + 1)) /\ Range(q) = Range(replies) \cup {sessions[x]}
            /\ \A i, j \in DOMAIN q : q[i] = q[j] => i = j
        BY <1>0, <2>2, <3>1, <3>2, RepliesMore
      <3> QED BY <3>2, <3>3
    <2>4. replies' \in Seq(DOMAIN incoming')
      BY <1>0, <2>1, <2>2
    <2>5. /\ sessions' \in [DOMAIN sessions' -> DOMAIN incoming']
          /\ DOMAIN sessions' = DOMAIN sessions \ {x}
          /\ \A s \in DOMAIN sessions' : sessions'[s] = sessions[s]
      BY <2>1 DEF Served
    <2>6. \A s, t \in DOMAIN sessions' : sessions'[s] = sessions'[t] => s = t
      BY <2>5 DEF Served
    <2>7. \A s \in DOMAIN sessions' : sessions'[s] \notin Range(replies')
      BY <2>1, <2>3, <2>5 DEF Served
    <2>8. \A i \in DOMAIN incoming' :
            i \in Range(replies') \/ \E s \in DOMAIN sessions' : sessions'[s] = i
      BY <2>1, <2>3, <2>5 DEF Served
    <2> QED BY <2>1, <2>3, <2>4, <2>5, <2>6, <2>7, <2>8 DEF Served
  <1>5. ASSUME \/ \E op \in Ops, r \in Remotes, a \in Askers : Request(op, r, a)
               \/ \E m \in Cancellable, a \in Askers : Cancel(m, a)
               \/ \E m \in Deletes : DeleteManager(m)
               \/ \E i \in waiting :
                    \E a \in Answers(requests[i].op), c \in BOOLEAN : HandleReply(i, a, c)
        PROVE  UNCHANGED srvVars
    BY <1>5 DEF Request, Cancel, DeleteManager, HandleReply
  <1>6. UNCHANGED requestVars => UNCHANGED srvVars
    BY DEF requestVars
  <1> QED BY <1>1, <1>2, <1>3, <1>4, <1>5, <1>6 DEF RequestsNext

LEMMA ServedMeans == Served => AnsweredHere
PROOF
  BY DEF Served, AnsweredHere

\* No manager is called after it was deleted, no entry is erased twice, and none
\* is left when all questions are answered (vcardmanager.cpp:109-160;
\* adhoc.cpp:355-420; disco.cpp:259-310).
THEOREM AliveTheorem == ASSUME RequestsRespected PROVE ServicesSpec => []HandlersAlive
PROOF
  <1>1. ServicesInit => ReqInv
    BY ReqStart DEF ServicesInit
  <1>2. ASSUME ReqInv,
               [ServicesNext]_<<part, rosterVars, mucVars, talkVars, requestVars, jingleVars,
                                ftVars, listVars, boshVars>>
        PROVE  ReqInv'
    <2>1. [RequestsNext]_requestVars
      BY <1>2 DEF ServicesNext, RestRequests, RestOthers
    <2> QED BY <1>2, <2>1, ReqStep
  <1>3. ReqInv => HandlersAlive
    BY ReqAlive DEF HandlersAlive
  <1> QED BY <1>1, <1>2, <1>3, PTL DEF ServicesSpec

\* Whoever asks is told once, of the answer to his own question and of no other,
\* and each request received is answered once, when the managers tell of every
\* answer and Adhoc is not asked a second time for the commands of a party whose
\* answer is to come (adhoc.cpp:355-429; disco.cpp; vcardmanager.cpp:117-160).
THEOREM QuestionsTheorem ==
  ASSUME RequestsRespected, Telling, AskedInTurn PROVE ServicesSpec => []QuestionsAnswered
PROOF
  <1>1. ServicesInit => ReqInv /\ OwnAnswers /\ Served
    BY ReqStart, OwnStart, ServedStart DEF ServicesInit
  <1>2. ASSUME ReqInv, OwnAnswers, Served,
               [ServicesNext]_<<part, rosterVars, mucVars, talkVars, requestVars, jingleVars,
                                ftVars, listVars, boshVars>>
        PROVE  ReqInv' /\ OwnAnswers' /\ Served'
    <2>1. [RequestsNext]_requestVars
      BY <1>2 DEF ServicesNext, RestRequests, RestOthers
    <2> QED BY <1>2, <2>1, ReqStep, OwnStep, ServedStep
  <1>3. ReqInv /\ OwnAnswers /\ Served => QuestionsAnswered
    BY ReqTold, ServedMeans DEF QuestionsAnswered
  <1> QED BY <1>1, <1>2, <1>3, PTL DEF ServicesSpec

-----------------------------------------------------------------------------
BoshProved == INSTANCE BoshProofs WITH
  Modes <- BoshModes, Limits <- {2}, Faults <- BoshFaults, Careful <- TRUE,
  MaxStanzas <- 2, MaxRestarts <- 1, MaxConns <- 2, RidCycle <- 4

-----------------------------------------------------------------------------
(* BOSH: what BoshProofs shows for every value of the constants. *)

LEMMA BoshGiven == BoshProved!ConstantsAssumption
PROOF
  BY BoshAssumption DEF BoshProved!ConstantsAssumption, Bosh!AllFaults, BoshProved!AllFaults

LEMMA BoshCounts == \A S : BoshProved!Cardinality(S) = Bosh!Cardinality(S)
PROOF
  BY DEF Bosh!Cardinality, BoshProved!Cardinality

\* The two instances say the same of a step.
LEMMA BoshSame == Bosh!Next => BoshProved!Next
PROOF
  <1>1. ASSUME NEW w, NEW c, NEW lucky
        PROVE  Bosh!Open(w, c, lucky) = BoshProved!Open(w, c, lucky)
    <2> SUFFICES ASSUME NEW x, x = Bosh!Open(w, c, lucky) PROVE x = BoshProved!Open(w, c, lucky)
      OBVIOUS
    <2> QED
      BY DEF Bosh!Open, BoshProved!Open, Bosh!HandleConnect, BoshProved!HandleConnect,
        Bosh!Full, BoshProved!Full, Bosh!Transmit, BoshProved!Transmit, Bosh!Failed,
        BoshProved!Failed, Bosh!HandleDisconnect, BoshProved!HandleDisconnect,
        Bosh!Activate, BoshProved!Activate, Bosh!Request, BoshProved!Request,
        Bosh!Tell, BoshProved!Tell, Bosh!Cleanup, BoshProved!Cleanup, Bosh!Conns,
        BoshProved!Conns, Bosh!Down, BoshProved!Down
  <1>2. ASSUME NEW w, NEW r, NEW lucky
        PROVE  Bosh!SendRequest(w, r, lucky) = BoshProved!SendRequest(w, r, lucky)
    <2> SUFFICES ASSUME NEW x, x = Bosh!SendRequest(w, r, lucky)
                 PROVE  x = BoshProved!SendRequest(w, r, lucky)
      OBVIOUS
    <2> QED
      BY <1>1 DEF Bosh!SendRequest, BoshProved!SendRequest, Bosh!Full,
        BoshProved!Full, Bosh!Failed, BoshProved!Failed, Bosh!Transmit,
        BoshProved!Transmit, Bosh!Activate, BoshProved!Activate, Bosh!OpenNew,
        BoshProved!OpenNew, Bosh!HandleDisconnect, BoshProved!HandleDisconnect,
        Bosh!Tell, BoshProved!Tell, Bosh!Cleanup, BoshProved!Cleanup, Bosh!Conns,
        BoshProved!Conns, Bosh!Down, BoshProved!Down
  <1>3. ASSUME NEW w, NEW lucky
        PROVE  Bosh!SendXML(w, lucky) = BoshProved!SendXML(w, lucky)
    <2> DEFINE b == w.bosh
               rid == Bosh!NextRid(b.rid)
               body == IF b.restart THEN Bosh!Request(b, "restart", rid, <<>>)
                       ELSE Bosh!Request(b, "body", rid, b.sendBuffer)
               u == [w EXCEPT !.bosh.rid = rid]
               try == Bosh!SendRequest(u, body, lucky)
               y == IF b.state # "connected" \/ (b.sendBuffer = <<>> /\ b.open > 0 /\ ~lucky)
                    THEN w ELSE IF try.sent THEN Bosh!Flushed(try.w) ELSE Bosh!NotSent(b, try)
    <2>1. rid = BoshProved!NextRid(b.rid)
      BY DEF Bosh!NextRid, BoshProved!NextRid
    <2>2. \A k, x, q : Bosh!Request(b, k, x, q) = BoshProved!Request(b, k, x, q)
      BY DEF Bosh!Request, BoshProved!Request
    <2>3. body = IF b.restart THEN BoshProved!Request(b, "restart", rid, <<>>)
                 ELSE BoshProved!Request(b, "body", rid, b.sendBuffer)
      BY <2>2
    <2>4. try = BoshProved!SendRequest(u, body, lucky)
      BY <1>2
    <2>5. /\ \A x : Bosh!Flushed(x) = BoshProved!Flushed(x)
          /\ \A x : Bosh!NotSent(b, x) = BoshProved!NotSent(b, x)
      BY DEF Bosh!Flushed, BoshProved!Flushed, Bosh!NotSent, BoshProved!NotSent
    <2>6. Bosh!SendXML(w, lucky) = y
      BY DEF Bosh!SendXML
    <2>7. BoshProved!SendXML(w, lucky) = y
      <3> HIDE DEF rid
      <3>1. u = [w EXCEPT !.bosh.rid = BoshProved!NextRid(b.rid)]
        BY <2>1
      <3> HIDE DEF body, u
      <3> SUFFICES y = IF b.state # "connected" \/ (b.sendBuffer = <<>> /\ b.open > 0 /\ ~lucky)
                       THEN w ELSE IF try.sent THEN BoshProved!Flushed(try.w)
                       ELSE BoshProved!NotSent(b, try)
        BY <2>1, <2>3, <2>4, <3>1 DEF BoshProved!SendXML
      <3> HIDE DEF try
      <3> QED BY <2>5
    <2> QED BY <2>6, <2>7
  <1>4. ASSUME NEW w
        PROVE  Bosh!Broken(w) = BoshProved!Broken(w)
    <2> SUFFICES ASSUME NEW x, x = Bosh!Broken(w) PROVE x = BoshProved!Broken(w)
      OBVIOUS
    <2> QED
      BY DEF Bosh!Broken, BoshProved!Broken, Bosh!NoConnection,
        BoshProved!NoConnection, Bosh!Tell, BoshProved!Tell, Bosh!Cleanup,
        BoshProved!Cleanup, Bosh!Conns, BoshProved!Conns, Bosh!Down, BoshProved!Down
  <1>5. ASSUME NEW w
        PROVE  Bosh!PutConnection(w) = BoshProved!PutConnection(w)
    <2> SUFFICES ASSUME NEW x, x = Bosh!PutConnection(w) PROVE x = BoshProved!PutConnection(w)
      OBVIOUS
    <2> QED
      BY DEF Bosh!PutConnection, BoshProved!PutConnection, Bosh!Down, BoshProved!Down
  <1>6. ASSUME NEW w, NEW a
        PROVE  Bosh!HandleTag(w, a) = BoshProved!HandleTag(w, a)
    <2> SUFFICES ASSUME NEW x, x = Bosh!HandleTag(w, a) PROVE x = BoshProved!HandleTag(w, a)
      OBVIOUS
    <2> QED
      BY DEF Bosh!HandleTag, BoshProved!HandleTag, Bosh!Tell, BoshProved!Tell,
        Bosh!Cleanup, BoshProved!Cleanup, Bosh!Conns, BoshProved!Conns, Bosh!Down,
        BoshProved!Down
  <1>7. \A lucky : Bosh!Connect(lucky) => BoshProved!Connect(lucky)
    BY <1>1 DEF Bosh!Connect, BoshProved!Connect, Bosh!World, BoshProved!World,
      Bosh!Becomes, BoshProved!Becomes
  <1>8. \A lucky : Bosh!SendStanza(lucky) => BoshProved!SendStanza(lucky)
    BY <1>3 DEF Bosh!SendStanza, BoshProved!SendStanza, Bosh!CanCall,
      BoshProved!CanCall, Bosh!World, BoshProved!World, Bosh!Becomes, BoshProved!Becomes
  <1>9. \A lucky : Bosh!Restart(lucky) => BoshProved!Restart(lucky)
    BY <1>3 DEF Bosh!Restart, BoshProved!Restart, Bosh!CanCall, BoshProved!CanCall,
      Bosh!World, BoshProved!World, Bosh!Becomes, BoshProved!Becomes
  <1>10. ASSUME NEW lucky, Bosh!Disconnect(lucky)
         PROVE  BoshProved!Disconnect(lucky)
    <2> DEFINE rid == Bosh!NextRid(bosh.rid)
               r == Bosh!Request(bosh, "end", rid, bosh.sendBuffer)
               u == [Bosh!World EXCEPT !.bosh.rid = rid, !.bosh.sendBuffer = <<>>]
               try == Bosh!SendRequest(u, r, lucky)
    <2>1. rid = BoshProved!NextRid(bosh.rid)
      BY DEF Bosh!NextRid, BoshProved!NextRid
    <2>2. r = BoshProved!Request(bosh, "end", rid, bosh.sendBuffer)
      BY DEF Bosh!Request, BoshProved!Request
    <2>3. Bosh!World = BoshProved!World
      BY DEF Bosh!World, BoshProved!World
    <2>4. try = BoshProved!SendRequest(u, r, lucky)
      BY <1>2
    <2>5. /\ \A x : Bosh!Tell(x) = BoshProved!Tell(x)
          /\ \A x : Bosh!Becomes(x) <=> BoshProved!Becomes(x)
          /\ Bosh!NoConnection(bosh) <=> BoshProved!NoConnection(bosh)
          /\ Bosh!CanCall <=> BoshProved!CanCall
      BY DEF Bosh!Tell, BoshProved!Tell, Bosh!Cleanup, BoshProved!Cleanup, Bosh!Conns,
             BoshProved!Conns, Bosh!Down, BoshProved!Down, Bosh!Becomes, BoshProved!Becomes,
             Bosh!NoConnection, BoshProved!NoConnection, Bosh!CanCall, BoshProved!CanCall
    <2>6. /\ Bosh!CanCall /\ bosh.state # "disconnected" /\ UNCHANGED <<buffer, loop>>
          /\ Bosh!Becomes(Bosh!Tell(IF Bosh!NoConnection(bosh) THEN Bosh!World ELSE try.w))
      BY <1>10 DEF Bosh!Disconnect
    <2> HIDE DEF try
    <2>7. BoshProved!Becomes(BoshProved!Tell(
            IF BoshProved!NoConnection(bosh) THEN BoshProved!World ELSE try.w))
      BY <2>3, <2>5, <2>6
    <2> HIDE DEF rid
    <2>8. u = [BoshProved!World EXCEPT !.bosh.rid = BoshProved!NextRid(bosh.rid),
                                       !.bosh.sendBuffer = <<>>]
      BY <2>1, <2>3
    <2> HIDE DEF r, u
    <2> QED BY <2>1, <2>2, <2>4, <2>5, <2>6, <2>7, <2>8 DEF BoshProved!Disconnect
  <1>11. Bosh!RecvPool => BoshProved!RecvPool
    BY DEF Bosh!RecvPool, BoshProved!RecvPool, Bosh!Receive, BoshProved!Receive,
      Bosh!HandleDisconnect, BoshProved!HandleDisconnect, Bosh!Tell, BoshProved!Tell,
      Bosh!Cleanup, BoshProved!Cleanup, Bosh!Conns, BoshProved!Conns, Bosh!Down,
      BoshProved!Down, Bosh!World, BoshProved!World, Bosh!Becomes, BoshProved!Becomes
  <1>12. Bosh!RecvActive => BoshProved!RecvActive
    BY DEF Bosh!RecvActive, BoshProved!RecvActive, Bosh!Handled, BoshProved!Handled,
      Bosh!Whole, BoshProved!Whole, Bosh!Receive, BoshProved!Receive,
      Bosh!HandleDisconnect, BoshProved!HandleDisconnect, Bosh!Tell, BoshProved!Tell,
      Bosh!Cleanup, BoshProved!Cleanup, Bosh!Conns, BoshProved!Conns, Bosh!Down,
      BoshProved!Down, Bosh!World, BoshProved!World, Bosh!Becomes, BoshProved!Becomes
  <1>13. \A lucky : Bosh!Poll(lucky) => BoshProved!Poll(lucky)
    BY <1>3 DEF Bosh!Poll, BoshProved!Poll, Bosh!Handled, BoshProved!Handled,
      Bosh!Whole, BoshProved!Whole, Bosh!ShouldSend, BoshProved!ShouldSend, Bosh!World,
      BoshProved!World, Bosh!Becomes, BoshProved!Becomes
  <1>14. Bosh!HandleAnswer => BoshProved!HandleAnswer
    BY ZenonT(60), <1>4, <1>5, <1>6 DEF Bosh!HandleAnswer, BoshProved!HandleAnswer, Bosh!Whole,
      BoshProved!Whole, Bosh!HandlerCalls, BoshProved!HandlerCalls, Bosh!World,
      BoshProved!World, Bosh!Becomes, BoshProved!Becomes
  <1>18. Bosh!HandleHeader => BoshProved!HandleHeader
    BY DEF Bosh!HandleHeader, BoshProved!HandleHeader, Bosh!Broken, BoshProved!Broken,
      Bosh!NoConnection, BoshProved!NoConnection, Bosh!Tell, BoshProved!Tell,
      Bosh!Cleanup, BoshProved!Cleanup, Bosh!Conns, BoshProved!Conns, Bosh!Down,
      BoshProved!Down, Bosh!World, BoshProved!World, Bosh!Becomes, BoshProved!Becomes
  <1>15. Bosh!Deliver => BoshProved!Deliver
    BY DEF Bosh!Deliver, BoshProved!Deliver
  <1>16. \A c : Bosh!Answer(c) => BoshProved!Answer(c)
    BY DEF Bosh!Answer, BoshProved!Answer, Bosh!Answers, BoshProved!Answers,
      Bosh!Refusals, BoshProved!Refusals, Bosh!MaySee, BoshProved!MaySee, Bosh!Pieces,
      BoshProved!Pieces
  <1>17. \A c : Bosh!Lose(c) => BoshProved!Lose(c)
    BY DEF Bosh!Lose, BoshProved!Lose
  <1> QED
    BY <1>7, <1>8, <1>9, <1>10, <1>11, <1>12, <1>13, <1>14, <1>15, <1>16, <1>17, <1>18
       DEF Bosh!Next, BoshProved!Next, Bosh!Recv, BoshProved!Recv, Bosh!Conns, BoshProved!Conns

\* In a behaviour of all services BOSH does what it does alone.
LEMMA BoshAlone == ServicesSpec => BoshProved!Spec
PROOF
  <1>1. ServicesInit => BoshProved!Init
    BY DEF ServicesInit, Bosh!Init, BoshProved!Init, BoshProved!Conns, BoshProved!Down,
           Bosh!Conns, Bosh!Down
  <1>2. [ServicesNext]_<<part, rosterVars, mucVars, talkVars, requestVars, jingleVars,
                         ftVars, listVars, boshVars>> => [BoshProved!Next]_boshVars
    BY BoshSame DEF ServicesNext, RestBosh, RestBelow, RestOthers
  <1> QED BY <1>1, <1>2, PTL DEF ServicesSpec, BoshProved!Spec, boshVars, BoshProved!vars

\* A BOSH session that is over was announced (connectionbosh.cpp:126-128,
\* 159-161, 441-446, 540-541).
THEOREM BoshEndTheorem == ServicesSpec => []BoshEndTold
PROOF
  <1>1. BoshProved!Spec => []BoshProved!EndIsTold
    BY BoshGiven, BoshProved!EndTheorem
  <1>2. BoshProved!EndIsTold <=> BoshEndTold
    BY DEF BoshEndTold, Bosh!EndIsTold, BoshProved!EndIsTold, Bosh!Live, BoshProved!Live
  <1> QED BY <1>1, <1>2, BoshAlone, PTL

\* Answers are handled whole, the oldest request's first, from the connection
\* they came on (connectionbosh.cpp:365, 623).
THEOREM BoshOrderTheorem == ServicesSpec => []AnswersInOrder
PROOF
  <1>1. BoshProved!Spec => []BoshProved!AnswersInOrder
    BY BoshGiven, BoshProved!OrderTheorem
  <1>2. BoshProved!AnswersInOrder <=> AnswersInOrder
    BY DEF AnswersInOrder, Bosh!AnswersInOrder, BoshProved!AnswersInOrder, Bosh!Live,
           BoshProved!Live, Bosh!Outstanding, BoshProved!Outstanding, Bosh!RidsIn,
           BoshProved!RidsIn, Bosh!Asked, BoshProved!Asked, Bosh!Age, BoshProved!Age,
           Bosh!Conns, BoshProved!Conns
  <1> QED BY <1>1, <1>2, BoshAlone, PTL

\* Each stanza given to a BOSH connection is in one request or kept, and no more
\* requests are open than the manager allows (connectionbosh.cpp:212, 254,
\* 260, 300, 396, 553).
THEOREM BoshOnceTheorem == ServicesSpec => []EachSentOnce
PROOF
  <1>1. BoshProved!Spec => []BoshProved!TypeOK
    BY BoshGiven, BoshProved!TypeTheorem
  <1>2. BoshProved!Spec => []BoshProved!StanzasOnce
    BY BoshGiven, BoshProved!OnceTheorem
  <1>3. BoshProved!Spec => []BoshProved!SlotsRespected
    BY BoshGiven, BoshProved!SlotsTheorem
  <1>4. BoshProved!TypeOK => Bosh!TypeOK
    BY BoshCounts DEF Bosh!TypeOK, BoshProved!TypeOK, Bosh!Conns, BoshProved!Conns, Bosh!Down,
           BoshProved!Down
  <1>5. BoshProved!StanzasOnce => Bosh!StanzasOnce
    BY DEF Bosh!StanzasOnce, BoshProved!StanzasOnce, Bosh!Live, BoshProved!Live
  <1>6. BoshProved!SlotsRespected => Bosh!SlotsRespected
    BY BoshCounts DEF Bosh!SlotsRespected, BoshProved!SlotsRespected, Bosh!Live, BoshProved!Live,
           Bosh!Outstanding, BoshProved!Outstanding, Bosh!RidsIn, BoshProved!RidsIn,
           Bosh!Asked, BoshProved!Asked, Bosh!Conns, BoshProved!Conns
  <1> QED BY <1>1, <1>2, <1>3, <1>4, <1>5, <1>6, BoshAlone, PTL DEF EachSentOnce


-----------------------------------------------------------------------------
(* Lists of handlers and conversations: what CallbackProofs shows. *)

Callbacks == INSTANCE CallbackProofs WITH
  Handlers <- {"h1", "h2"}, Keys <- {"k1", "k2"}, Anything <- "any", Twice <- FALSE,
  SelfRemoval <- {"jid"}, OtherRemoval <- {"presence", "tag", "all"},
  MaxEntries <- 2, MaxChanges <- 4,
  loop <- iteration, dangling <- stale,
  MsgThreads <- {"t"}, OpenedAs <- {[types |-> {}, honor |-> TRUE, track |-> TRUE]},
  MaxSessions <- 2, MaxMessages <- 2,
  Asked <- {{}, {"delivered", "composing"}, {"refused"}},
  sessions <- talks, sentEvents <- sent

LEMMA ListsGiven == Callbacks!ListsRespected /\ Callbacks!OpeningsKnown
PROOF
  BY DEF Callbacks!ListsRespected, Callbacks!OpeningsKnown

LEMMA ListsCount == \A S : Loops!Cardinality(S) = Callbacks!Cardinality(S)
PROOF
  BY DEF Loops!Cardinality, Callbacks!Cardinality

LEMMA ListsSame == Loops!ListNext => Callbacks!ListNext
PROOF
  <1>1. ASSUME NEW s, NEW S PROVE Loops!Part(s, S) = Callbacks!Part(s, S)
    <2> SUFFICES ASSUME NEW x, x = Loops!Part(s, S) PROVE x = Callbacks!Part(s, S)
      OBVIOUS
    <2> QED BY DEF Loops!Part, Callbacks!Part, Loops!Cardinality, Callbacks!Cardinality
  <1>2. /\ \A f : Loops!Range(f) = Callbacks!Range(f)
        /\ \A e, k : Loops!Matches(e, k) <=> Callbacks!Matches(e, k)
        /\ \A l : Loops!Entries(l) = Callbacks!Entries(l)
        /\ Loops!CalledNow = Callbacks!CalledNow
        /\ \A l, k : Loops!Start(l, k) = Callbacks!Start(l, k)
        /\ Loops!NoLoop = Callbacks!NoLoop /\ Loops!ListKinds = Callbacks!ListKinds
    BY DEF Loops!Range, Callbacks!Range, Loops!Matches, Callbacks!Matches,
           Loops!Entries, Callbacks!Entries, Loops!KeysOf, Callbacks!KeysOf,
           Loops!CalledNow, Callbacks!CalledNow, Loops!Start, Callbacks!Start,
           Loops!NoLoop, Callbacks!NoLoop, Loops!ListKinds, Callbacks!ListKinds
  <1>3. Loops!ApplicationRuns <=> Callbacks!ApplicationRuns
    BY <1>2 DEF Loops!ApplicationRuns, Callbacks!ApplicationRuns
  <1>4. \A l, e : Loops!Register(l, e) => Callbacks!Register(l, e)
    BY <1>2, <1>3 DEF Loops!Register, Callbacks!Register
  <1>5. \A l, e : Loops!Unregister(l, e) => Callbacks!Unregister(l, e)
    BY ZenonT(60), <1>1, <1>2, <1>3, ListsCount DEF Loops!Unregister, Callbacks!Unregister,
       Loops!MayRemove, Callbacks!MayRemove
  <1>6. \A l, k : Loops!Concerned(l, k) = Callbacks!Concerned(l, k)
    BY <1>2 DEF Loops!Concerned, Callbacks!Concerned
  <1>7. \A l, k : Loops!Arrive(l, k) => Callbacks!Arrive(l, k)
    BY <1>2, <1>6 DEF Loops!Arrive, Callbacks!Arrive
  <1>8. Loops!NextAt = Callbacks!NextAt
    BY <1>2 DEF Loops!NextAt, Callbacks!NextAt
  <1>9. Loops!CallNext => Callbacks!CallNext
    BY <1>2, <1>8 DEF Loops!CallNext, Callbacks!CallNext, Loops!Nearest, Callbacks!Nearest,
                      Loops!AdvancesFirst, Callbacks!AdvancesFirst
  <1>10. Loops!CallReturns => Callbacks!CallReturns
    BY <1>2 DEF Loops!CallReturns, Callbacks!CallReturns, Loops!AdvancesFirst,
                Callbacks!AdvancesFirst
  <1>11. Loops!Finish => Callbacks!Finish
    BY <1>2, <1>6, <1>8 DEF Loops!Finish, Callbacks!Finish, Loops!GoesOn, Callbacks!GoesOn
  <1> QED
    BY <1>2, <1>4, <1>5, <1>7, <1>9, <1>10, <1>11 DEF Loops!ListNext, Callbacks!ListNext

LEMMA ListsAlone == ServicesSpec => Callbacks!ListSpec
PROOF
  <1>1. ServicesInit => Callbacks!ListInit
    BY DEF ServicesInit, Loops!ListInit, Callbacks!ListInit, Loops!NoLoop, Callbacks!NoLoop,
           Loops!ListKinds, Callbacks!ListKinds
  <1>2. [ServicesNext]_<<part, rosterVars, mucVars, talkVars, requestVars, jingleVars,
                         ftVars, listVars, boshVars>> => [Callbacks!ListNext]_listVars
    BY ListsSame DEF ServicesNext, RestLists, RestBelow, RestOthers
  <1> QED BY <1>1, <1>2, PTL DEF ServicesSpec, Callbacks!ListSpec, listVars, Callbacks!listVars

\* Handlers come and go while they are called: no iterator of a list is used
\* after its entry was erased, and who was there all the time is called once
\* (clientbase.cpp:1559-1635, 1795-1803).
THEOREM HandlerTheorem == ServicesSpec => []NothingStale
PROOF
  <1>1. Callbacks!ListSpec =>
          [](Callbacks!ListTypeOK /\ Callbacks!IteratorsHold /\ Callbacks!EachToldOnce)
    BY ListsGiven, Callbacks!ListTheorem
  <1>2. Callbacks!ListTypeOK => Loops!ListTypeOK
    BY DEF Callbacks!ListTypeOK, Loops!ListTypeOK, Loops!NoLoop, Callbacks!NoLoop,
           Loops!ListKinds, Callbacks!ListKinds
  <1>3. Callbacks!IteratorsHold => Loops!IteratorsHold
    BY DEF Callbacks!IteratorsHold, Loops!IteratorsHold
  <1>4. Callbacks!EachToldOnce => Loops!EachToldOnce
    BY DEF Callbacks!EachToldOnce, Loops!EachToldOnce, Loops!NoLoop, Callbacks!NoLoop,
           Loops!CalledNow, Callbacks!CalledNow, Loops!NextAt, Callbacks!NextAt,
           Loops!Matches, Callbacks!Matches, Loops!Range, Callbacks!Range
  <1> QED BY <1>1, <1>2, <1>3, <1>4, ListsAlone, PTL DEF NothingStale

LEMMA TalksSame == Talk!ConvNext => Callbacks!ConvNext
PROOF
  <1>1. ASSUME NEW b, NEW r, NEW o, NEW a
        PROVE  Talk!NewSession(b, r, o, a) = Callbacks!NewSession(b, r, o, a)
    <2> SUFFICES ASSUME NEW x, x = Talk!NewSession(b, r, o, a)
                 PROVE  x = Callbacks!NewSession(b, r, o, a)
      OBVIOUS
    <2> QED
      BY DEF Talk!NewSession, Callbacks!NewSession, Talk!NoMsgThread, Callbacks!NoMsgThread
  <1>2. \A b, r, o : Talk!Open(b, r, o) => Callbacks!Open(b, r, o)
    BY <1>1 DEF Talk!Open, Callbacks!Open
  <1>3. /\ \A i : Talk!Dispose(i) => Callbacks!Dispose(i)
        /\ \A i : Talk!ResetResource(i) => Callbacks!ResetResource(i)
        /\ \A i, st : Talk!SetChatState(i, st) => Callbacks!SetChatState(i, st)
    BY DEF Talk!Dispose, Callbacks!Dispose, Talk!ResetResource, Callbacks!ResetResource,
           Talk!SetChatState, Callbacks!SetChatState, Talk!NoResource, Callbacks!NoResource,
           Talk!RemoveAt, Callbacks!RemoveAt
  <1>4. \A i : Talk!SendMessage(i) => Callbacks!SendMessage(i)
    BY DEF Talk!SendMessage, Callbacks!SendMessage, Talk!Decorated, Callbacks!Decorated,
           Talk!Own, Callbacks!Own
  <1>5. \A i, e : Talk!Raise(i, e) => Callbacks!Raise(i, e)
    BY DEF Talk!Raise, Callbacks!Raise, Talk!LeftAfter, Callbacks!LeftAfter,
           Talk!OnceEvents, Callbacks!OnceEvents
  <1>6. \A m, f : Talk!Candidates(m, f) = Callbacks!Candidates(m, f)
    BY DEF Talk!Candidates, Callbacks!Candidates, Talk!ThreadFits, Callbacks!ThreadFits,
           Talk!KindFits, Callbacks!KindFits, Talk!NoMsgThread, Callbacks!NoMsgThread
  <1>7. ASSUME NEW s, NEW m, NEW id PROVE Talk!Handled(s, m, id) = Callbacks!Handled(s, m, id)
    <2> SUFFICES ASSUME NEW x, x = Talk!Handled(s, m, id) PROVE x = Callbacks!Handled(s, m, id)
      OBVIOUS
    <2> QED
      BY DEF Talk!Handled, Callbacks!Handled, Talk!Filtered, Callbacks!Filtered,
             Talk!NoMsgThread, Callbacks!NoMsgThread, Talk!Own, Callbacks!Own
  <1>8. ASSUME NEW m, Talk!ReceiveMessage(m) PROVE Callbacks!ReceiveMessage(m)
    <2> DEFINE id == received + 1
               full == Talk!Candidates(m, TRUE)
               bare == Talk!Candidates(m, FALSE)
               i == Talk!First(IF full # {} THEN full ELSE bare)
               s == Talk!NewSession(m.bare, m.res, Talk!ForMessage(m), TRUE)
               t == Talk!Handled(talks[i], m, id)
               u == Talk!Handled(s, m, id)
    <2>1. /\ received < 2 /\ received' = id /\ sent' = sent
          /\ full \cup bare # {} => talks' = [talks EXCEPT ![i] = t] /\ given' = i
          /\ full \cup bare = {} => /\ Len(talks) < 2 /\ talks' = Append(talks, u)
                                  /\ given' = Len(talks')
      BY <1>8 DEF Talk!ReceiveMessage
    <2>2. full = Callbacks!Candidates(m, TRUE) /\ bare = Callbacks!Candidates(m, FALSE)
      BY <1>6
    <2>3. \A S : Talk!First(S) = Callbacks!First(S)
      BY DEF Talk!First, Callbacks!First
    <2>4. i = Callbacks!First(IF full # {} THEN full ELSE bare)
      <3> HIDE DEF full, bare
      <3> QED BY <2>3
    <2>5. s = Callbacks!NewSession(m.bare, m.res, Callbacks!ForMessage(m), TRUE)
      <3>1. Talk!ForMessage(m) = Callbacks!ForMessage(m)
        BY DEF Talk!ForMessage, Callbacks!ForMessage
      <3> QED BY <1>1, <3>1
    <2>6. t = Callbacks!Handled(talks[i], m, id) /\ u = Callbacks!Handled(s, m, id)
      BY <1>7
    <2> HIDE DEF full, bare, i, s, t, u
    <2> QED BY <2>1, <2>2, <2>4, <2>5, <2>6 DEF Callbacks!ReceiveMessage
  <1> QED
    BY <1>2, <1>3, <1>4, <1>5, <1>8 DEF Talk!ConvNext, Callbacks!ConvNext, Talk!Messages,
       Callbacks!Messages, Talk!NoResource, Callbacks!NoResource, Talk!NoMsgThread,
       Callbacks!NoMsgThread, Talk!Events, Callbacks!Events, Talk!OnceEvents,
       Callbacks!OnceEvents

LEMMA TalksAlone == ServicesSpec => Callbacks!ConvSpec
PROOF
  <1>1. ServicesInit => Callbacks!ConvInit
    BY DEF ServicesInit, Talk!ConvInit, Callbacks!ConvInit
  <1>2. [ServicesNext]_<<part, rosterVars, mucVars, talkVars, requestVars, jingleVars,
                         ftVars, listVars, boshVars>>
        => [Callbacks!ConvNext]_<<talks, received, given, sent>>
    BY TalksSame DEF ServicesNext, RestSessions, RestBooks, talkVars
  <1> QED BY <1>1, <1>2, PTL DEF ServicesSpec, Callbacks!ConvSpec, Callbacks!convVars

\* A contact is talked to in one session, and what it asked to be told of a
\* message it is told once (clientbase.cpp:1701-1793; messageeventfilter.cpp).
THEOREM ConversationTheorem == ServicesSpec => []ConversationKept
PROOF
  <1>1. Callbacks!ConvSpec => []Callbacks!OneSession
    BY ListsGiven, Callbacks!SessionTheorem
  <1>2. Callbacks!ConvSpec => []Callbacks!EventsOnce
    BY ListsGiven, Callbacks!EventsTheorem
  <1>3. Callbacks!OneSession => Talk!OneSession
    BY DEF Callbacks!OneSession, Talk!OneSession
  <1>4. Callbacks!EventsOnce => Talk!EventsOnce
    BY DEF Callbacks!EventsOnce, Talk!EventsOnce, Callbacks!IsInjective, Talk!IsInjective
  <1> QED BY <1>1, <1>2, <1>3, <1>4, TalksAlone, PTL DEF ConversationKept
=============================================================================
