------------------------------- MODULE Jingle -------------------------------
(***************************************************************************)
(* One Jingle session as its two ends keep it: Jingle::Session and         *)
(* Jingle::SessionManager (src/jinglesession.cpp,                          *)
(* src/jinglesessionmanager.cpp).  Each end is a manager that may hold a   *)
(* session with the sid in question; the stream carries the IQs of each    *)
(* direction in order, a request is acknowledged as it is handled, and a   *)
(* server returns a request nobody can be given with an error.             *)
(***************************************************************************)
EXTENDS Naturals, Sequences

CONSTANTS Waits,     \* an end acts only when nothing is under way
          Lists,     \* sessionAccept is called with a list of contents
          Keeps,     \* only a session that has ended is discarded
          Bounced,   \* the actions a server may have to return
          MaxActions \* bound on the actions sent

ASSUME JingleAssumption ==
    /\ Waits \in BOOLEAN /\ Lists \in BOOLEAN /\ Keeps \in BOOLEAN
    /\ Bounced \subseteq {"session-initiate", "session-accept", "session-info",
                          "session-terminate"}
    /\ MaxActions \in Nat

VARIABLES session,   \* what each end keeps of the session
          wire,      \* what is under way to each end
          announced, \* what each end's handleIncomingSession was called for
          acted      \* actions sent so far

jingleVars == <<session, wire, announced, acted>>

Ends == {"initiator", "responder"}
Peer(e) == CHOOSE p \in Ends : p # e

(* The rest of the actions (content-*, transport-*, *-info) have the guard  *)
(* and the effect of session-info.                                          *)
StateActions == {"session-initiate", "session-accept", "session-terminate"}
Actions == StateActions \cup {"session-info"}
States == {"Ended", "Pending", "Active"}

NoSession == [there |-> FALSE, state |-> "Ended", initiator |-> FALSE, made |-> 0]

JingleTypeOK ==
    /\ \A e \in Ends : /\ session[e].there \in BOOLEAN
                       /\ session[e].state \in States
                       /\ session[e].initiator \in BOOLEAN
                       /\ session[e].made \in Nat
    /\ \A e \in Ends : \A n \in 1..Len(wire[e]) :
          wire[e][n].kind \in {"action", "result", "error"}
    /\ announced \in [Ends -> SUBSET Actions]
    /\ acted \in 0..MaxActions

JingleInit ==
    /\ session = [e \in Ends |-> NoSession]
    /\ wire = [e \in Ends |-> <<>>]
    /\ announced = [e \in Ends |-> {}]
    /\ acted = 0

Quiet == \A e \in Ends : wire[e] = <<>>

(* createSession: a session of one's own knows its initiator.               *)
Creates ==
    /\ ~session["initiator"].there
    /\ session["initiator"].made = 0
    /\ session' = [session EXCEPT !["initiator"] =
                     [NoSession EXCEPT !.there = TRUE, !.initiator = TRUE, !.made = 1]]
    /\ UNCHANGED <<wire, announced, acted>>

(* The prerequisites of the calls.  sessionAccept of one content lets pass  *)
(* what sessionAccept of a list refuses: a session that has ended.          *)
MayAct(s, action) ==
    CASE action = "session-initiate" -> s.initiator /\ s.state = "Ended"
      [] action = "session-accept" -> IF Lists THEN s.state = "Pending" ELSE s.state # "Active"
      [] OTHER -> s.state # "Ended"

StateAfter(action, state) ==
    CASE action = "session-initiate" -> "Pending"
      [] action = "session-accept" -> "Active"
      [] action = "session-terminate" -> "Ended"
      [] OTHER -> state

(* One call of the application: the state is assigned, the IQ sent with the *)
(* action as the context of its answer.                                     *)
Acts(e, action) ==
    LET s == session[e]
    IN  /\ s.there
        /\ MayAct(s, action)
        /\ Waits => Quiet
        /\ acted < MaxActions
        /\ acted' = acted + 1
        /\ session' = [session EXCEPT ![e].state = StateAfter(action, s.state)]
        /\ wire' = [wire EXCEPT ![Peer(e)] =
                      Append(@, [kind |-> "action", action |-> action, made |-> s.made])]
        /\ UNCHANGED announced

\* Slip: the state is left to the application when a session is terminated.
SlipHeardTerminate(s, action) ==
    [s EXCEPT !.state = IF action = "session-terminate" THEN @ ELSE StateAfter(action, s.state),
              !.initiator = @ \/ action = "session-initiate"]

(* Session::handleIq: what arrives decides the state, in whatever state the *)
(* session is; a session-initiate also says who the initiator is.           *)
Heard(s, action) ==
    [s EXCEPT !.state = StateAfter(action, s.state),
              !.initiator = @ \/ action = "session-initiate"]

(* SessionManager::handleIq: an unknown sid makes a session and announces   *)
(* it, whatever the action; then the session handles the IQ.                *)
Receives(e) ==
    /\ wire[e] # <<>>
    /\ Head(wire[e]).kind = "action"
    /\ LET m == Head(wire[e])
           s == IF session[e].there THEN session[e]
                ELSE [NoSession EXCEPT !.there = TRUE, !.made = session[e].made + 1]
       IN  /\ session' = [session EXCEPT ![e] = Heard(s, m.action)]
           /\ announced' = IF session[e].there THEN announced
                           ELSE [announced EXCEPT ![e] = @ \cup {m.action}]
           /\ wire' = [wire EXCEPT ![e] = Tail(@),
                                   ![Peer(e)] = Append(@, [m EXCEPT !.kind = "result"])]
    /\ UNCHANGED acted

(* The server cannot deliver the request: there is nobody, or nobody that   *)
(* speaks Jingle.                                                           *)
Bounces(e) ==
    /\ wire[e] # <<>>
    /\ Head(wire[e]).kind = "action"
    /\ Head(wire[e]).action \in Bounced
    /\ wire' = [wire EXCEPT ![e] = Tail(@),
                            ![Peer(e)] = Append(@, [Head(wire[e]) EXCEPT !.kind = "error"])]
    /\ UNCHANGED <<session, announced, acted>>

\* Slip: a refused initiation is told and nothing more.
SlipUndoesNothing(action, state) == state

(* Session::handleIqID, for the session that asked: an initiation that was  *)
(* refused ends it, any other error is only told.  A discarded session has  *)
(* removed its id handlers.                                                 *)
Undone(action, state) == IF action = "session-initiate" THEN "Ended" ELSE state

HearsAnswer(e) ==
    /\ wire[e] # <<>>
    /\ Head(wire[e]).kind # "action"
    /\ LET m == Head(wire[e])
           asker == session[e].there /\ session[e].made = m.made
       IN  session' = IF asker /\ m.kind = "error"
                      THEN [session EXCEPT ![e].state = Undone(m.action, @)]
                      ELSE session
    /\ wire' = [wire EXCEPT ![e] = Tail(@)]
    /\ UNCHANGED <<announced, acted>>

(* discardSession.                                                          *)
Discards(e) ==
    /\ session[e].there
    /\ Keeps => session[e].state = "Ended" /\ Quiet
    /\ session' = [session EXCEPT ![e] = [NoSession EXCEPT !.made = session[e].made]]
    /\ UNCHANGED <<wire, announced, acted>>

JingleNext ==
    \/ Creates
    \/ \E e \in Ends : \/ \E action \in Actions : Acts(e, action)
                       \/ Receives(e)
                       \/ Bounces(e)
                       \/ HearsAnswer(e)
                       \/ Discards(e)

JingleSpec == JingleInit /\ [][JingleNext]_jingleVars

-----------------------------------------------------------------------------
(* When nothing is under way the two ends are in the same state: what one   *)
(* end did, the other has followed, an initiation that came back is over at *)
(* the end that sent it, and an end without a session faces one that is     *)
(* over.                                                                    *)
SessionsAgree == Quiet => session["initiator"].state = session["responder"].state

(* An application is asked to take part in a session only by a              *)
(* session-initiate.                                                        *)
OnlyInitiateAnnounced == \A e \in Ends : announced[e] \subseteq {"session-initiate"}
=============================================================================
