----------------------------- MODULE IqDispatch -----------------------------
(***************************************************************************)
(* IQ stanzas of a ClientBase: requests whose handler is remembered by id  *)
(* until the answer comes, and requests of others, offered to the handlers *)
(* registered for the extensions they carry.  The dispatching thread       *)
(* receives; a second thread asks, registers and removes.                  *)
(***************************************************************************)
EXTENDS Naturals, FiniteSets, Sequences, SequencesExt

CONSTANTS
  Ids,           \* the ids of the stanzas
  Askers,        \* IqHandlers given to send()
  Servants,      \* IqHandlers given to registerIqHandler()
  NTypes,        \* the extensions handlers register for are 1..NTypes
  ForgetsInside, \* is removeIDHandler() called from the handler's callback?
  ForgetsBeside, \* ... and by the second thread?
  MaxIncoming    \* bound: requests of others

ASSUME IqAssumption ==
  /\ {NTypes, MaxIncoming} \subseteq Nat
  /\ 0 \notin Ids
  /\ "nobody" \notin Askers
  /\ {ForgetsInside, ForgetsBeside} \subseteq BOOLEAN

VARIABLES
  tracked,   \* m_iqIDHandlers: the handler waiting for each id, or Nobody
  servants,  \* m_iqExtHandlers: the handlers of each type, oldest first
  mutex,     \* who holds m_iqExtHandlerMapMutex
  frame,     \* what the dispatching thread is doing with which stanza
  beside,    \* the call the second thread is in
  inbox,     \* what has arrived, oldest first
  request,   \* our requests: "new", "sent", "answered", "done" (dispatched)
  forgotten, \* those the application no longer waits for
  called,    \* how often handleIqID() was called for each
  incoming,  \* the others' requests that came, were dispatched, answered
  lost       \* has an entry been used that was erased?

iqVars == <<tracked, servants, mutex, frame, beside, inbox, request,
            forgotten, called, incoming, lost>>

Nobody == "nobody"
Idle == [step |-> "idle"]
Types == 1..NTypes
Answers == {"result", "error"}
Questions == {"get", "set"}
Stray == 0  \* the id of a result or error that answers nothing

IqInit ==
  /\ tracked = [id \in Ids |-> Nobody]
  /\ servants = [t \in Types |-> <<>>]
  /\ mutex = "free"
  /\ frame = Idle
  /\ beside = Idle
  /\ inbox = <<>>
  /\ request = [id \in Ids |-> "new"]
  /\ forgotten = {}
  /\ called = [id \in Ids |-> 0]
  /\ incoming = [came |-> 0, done |-> 0, answers |-> 0, stray |-> 0]
  /\ lost = FALSE

-----------------------------------------------------------------------------
(* Asking.  A stanza's id is new, as getID() counts. *)

SlipSendsFirst == <<"write", "track">>

AskSteps == <<"track", "write">>

DoStep(step, id, ih) ==
  /\ tracked' = IF step = "track" THEN [tracked EXCEPT ![id] = ih] ELSE tracked
  /\ request' = IF step = "write" THEN [request EXCEPT ![id] = "sent"] ELSE request

Unused(id) ==
  /\ request[id] = "new"
  /\ tracked[id] = Nobody
  /\ beside.step = "ask" => beside.id # id

\* The dispatching thread calls between two stanzas or inside a callback.
Calling == frame.step \in {"answer", "serve"}
AppRuns == frame = Idle \/ Calling

Ask(id, ih) ==
  /\ AppRuns
  /\ Unused(id)
  /\ tracked' = [tracked EXCEPT ![id] = ih]
  /\ request' = [request EXCEPT ![id] = "sent"]
  /\ UNCHANGED <<servants, mutex, frame, beside, inbox, forgotten, called,
                 incoming, lost>>

\* The second thread may be interrupted between the two.
AskBeside(id, ih) ==
  /\ beside = Idle
  /\ Unused(id)
  /\ beside' = [step |-> "ask", id |-> id, ih |-> ih, left |-> AskSteps]
  /\ UNCHANGED <<tracked, servants, mutex, frame, inbox, request, forgotten,
                 called, incoming, lost>>

GoOnAsking ==
  /\ beside.step = "ask"
  /\ DoStep(Head(beside.left), beside.id, beside.ih)
  /\ beside' = IF Len(beside.left) = 1 THEN Idle
               ELSE [beside EXCEPT !.left = Tail(@)]
  /\ UNCHANGED <<servants, mutex, frame, inbox, forgotten, called, incoming, lost>>

\* removeIDHandler() erases every request of the handler.
WaitingFor(ih) == {id \in Ids : tracked[id] = ih}

InUse == IF frame.step \in {"found", "answer"} THEN {frame.iq.id} ELSE {}

Forget(ih) ==
  /\ WaitingFor(ih) # {}
  /\ tracked' = [id \in Ids |-> IF tracked[id] = ih THEN Nobody ELSE tracked[id]]
  /\ forgotten' = forgotten \cup WaitingFor(ih)
  /\ lost' = (lost \/ InUse \cap WaitingFor(ih) # {})
  /\ UNCHANGED <<servants, mutex, frame, beside, inbox, request, called, incoming>>

ForgetHere(ih) ==
  /\ AppRuns
  /\ InUse \cap WaitingFor(ih) # {} => ForgetsInside
  /\ Forget(ih)

ForgetBeside(ih) == ForgetsBeside /\ beside = Idle /\ Forget(ih)

-----------------------------------------------------------------------------
(* Handlers of extensions.  The mutex is recursive. *)

\* The nodes the dispatching loop has iterators to: the handler being called
\* and the first one of the types after it, where the range ends.
Held == IF frame.step # "serve" THEN {}
        ELSE {<<frame.type, frame.at>>} \cup
             {<<t, 1>> : t \in {t \in frame.type + 1..NTypes : servants[t] # <<>>}}

Registered(t, sv) ==
  servants' = IF sv \in Range(servants[t]) THEN servants
              ELSE [servants EXCEPT ![t] = Append(@, sv)]

\* list.remove(): registered once, a handler is in the list once at most.
Without(list, sv) ==
  IF sv \in Range(list) THEN RemoveAt(list, CHOOSE i \in DOMAIN list : list[i] = sv) ELSE list

Removed(t, sv) ==
  /\ servants' = [servants EXCEPT ![t] = Without(@, sv)]
  /\ lost' = (lost \/ \E n \in Held : n[1] = t /\ servants[t][n[2]] = sv)

RegisterHere(t, sv) ==
  /\ AppRuns
  /\ sv \notin Range(servants[t])
  /\ Registered(t, sv)
  /\ UNCHANGED <<tracked, mutex, frame, beside, inbox, request, forgotten,
                 called, incoming, lost>>

RemoveHere(t, sv) ==
  /\ frame = Idle
  /\ sv \in Range(servants[t])
  /\ Removed(t, sv)
  /\ UNCHANGED <<tracked, mutex, frame, beside, inbox, request, forgotten,
                 called, incoming>>

\* The second thread has to get the mutex first.
ChangeBeside(op, t, sv) ==
  /\ beside = Idle
  /\ beside' = [step |-> "lock", op |-> op, type |-> t, sv |-> sv]
  /\ UNCHANGED <<tracked, servants, mutex, frame, inbox, request, forgotten,
                 called, incoming, lost>>

LockBeside ==
  /\ beside.step = "lock"
  /\ mutex = "free"
  /\ IF beside.op = "register"
       THEN Registered(beside.type, beside.sv) /\ UNCHANGED lost
       ELSE Removed(beside.type, beside.sv)
  /\ beside' = Idle
  /\ UNCHANGED <<tracked, mutex, frame, inbox, request, forgotten, called, incoming>>

-----------------------------------------------------------------------------
(* The other side. *)

AnswerArrives(id, sub) ==
  /\ request[id] = "sent"
  /\ inbox' = Append(inbox, [sub |-> sub, id |-> id, exts |-> {}])
  /\ request' = [request EXCEPT ![id] = "answered"]
  /\ UNCHANGED <<tracked, servants, mutex, frame, beside, forgotten, called,
                 incoming, lost>>

\* A request may have the id of one of ours; a result may answer nothing.
RequestArrives(sub, id, exts) ==
  /\ incoming.came < MaxIncoming
  /\ sub \in Answers <=> id = Stray
  /\ inbox' = Append(inbox, [sub |-> sub, id |-> id, exts |-> exts])
  /\ incoming' = [incoming EXCEPT !.came = @ + 1]
  /\ UNCHANGED <<tracked, servants, mutex, frame, beside, request, forgotten,
                 called, lost>>

-----------------------------------------------------------------------------
(* notifyIqHandlers(). *)

Head1 == Head(inbox)

SlipAnyKind(iq) == TRUE

IsAnswer(iq) == iq.sub \in Answers

\* it_id != m_iqIDHandlers.end()
IsTracked(id) == id \in Ids /\ tracked[id] # Nobody

\* The entry is looked up under m_iqHandlerMapMutex and used without it.
FindTracked ==
  /\ frame = Idle
  /\ inbox # <<>>
  /\ IsTracked(Head1.id)
  /\ IsAnswer(Head1)
  /\ frame' = [step |-> "found", iq |-> Head1]
  /\ inbox' = Tail(inbox)
  /\ UNCHANGED <<tracked, servants, mutex, beside, request, forgotten, called,
                 incoming, lost>>

CallAsker ==
  /\ frame.step = "found"
  /\ called' = [called EXCEPT ![frame.iq.id] = @ + 1]
  /\ frame' = [frame EXCEPT !.step = "answer"]
  /\ UNCHANGED <<tracked, servants, mutex, beside, inbox, request, forgotten,
                 incoming, lost>>

SlipKeepsEntry(id) == tracked

Erased(id) == [tracked EXCEPT ![id] = Nobody]

Dispatched(iq) ==
  request' = IF IsAnswer(iq) /\ iq.id \in Ids
               THEN [request EXCEPT ![iq.id] = "done"] ELSE request

AskerReturns ==
  /\ frame.step = "answer"
  /\ tracked' = Erased(frame.iq.id)
  /\ Dispatched(frame.iq)
  /\ frame' = Idle
  /\ UNCHANGED <<servants, mutex, beside, inbox, forgotten, called, incoming, lost>>

SlipAnswersAll(iq) == TRUE

\* Only a request is refused; an error for an error would go on for ever.
Refusable(iq) == iq.sub \in Questions

Reply(iq, n) ==
  [incoming EXCEPT !.done = IF iq.sub \in Questions THEN @ + 1 ELSE @,
                   !.answers = IF iq.sub \in Questions THEN @ + n ELSE @,
                   !.stray = IF iq.sub \in Answers THEN @ + n ELSE @]

\* Not tracked, and without extensions: feature-not-implemented.
RefuseEmpty ==
  /\ frame = Idle
  /\ inbox # <<>>
  /\ ~(IsTracked(Head1.id) /\ IsAnswer(Head1))
  /\ Head1.exts = {}
  /\ incoming' = Reply(Head1, IF Refusable(Head1) THEN 1 ELSE 0)
  /\ Dispatched(Head1)
  /\ inbox' = Tail(inbox)
  /\ UNCHANGED <<tracked, servants, mutex, frame, beside, forgotten, called, lost>>

\* at: the handler of frame.type to call next.
Offer ==
  /\ frame = Idle
  /\ inbox # <<>>
  /\ ~(IsTracked(Head1.id) /\ IsAnswer(Head1))
  /\ Head1.exts # {}
  /\ mutex = "free"
  /\ mutex' = "dispatcher"
  /\ frame' = [step |-> "loop", iq |-> Head1, type |-> 1, at |-> 1]
  /\ inbox' = Tail(inbox)
  /\ UNCHANGED <<tracked, servants, beside, request, forgotten, called,
                 incoming, lost>>

NextType ==
  /\ frame.step = "loop"
  /\ frame.type <= NTypes
  /\ frame.type \in frame.iq.exts => frame.at > Len(servants[frame.type])
  /\ frame' = [frame EXCEPT !.type = @ + 1, !.at = 1]
  /\ UNCHANGED <<tracked, servants, mutex, beside, inbox, request, forgotten,
                 called, incoming, lost>>

CallServant ==
  /\ frame.step = "loop"
  /\ frame.type \in frame.iq.exts
  /\ frame.at <= Len(servants[frame.type])
  /\ frame' = [frame EXCEPT !.step = "serve"]
  /\ UNCHANGED <<tracked, servants, mutex, beside, inbox, request, forgotten,
                 called, incoming, lost>>

SlipStaysLocked == "dispatcher"

Unlocked == "free"

\* handleIq() returns true: the handler has sent the result of a request.
ServantHandles ==
  /\ frame.step = "serve"
  /\ incoming' = Reply(frame.iq, IF frame.iq.sub \in Questions THEN 1 ELSE 0)
  /\ Dispatched(frame.iq)
  /\ mutex' = Unlocked
  /\ frame' = Idle
  /\ UNCHANGED <<tracked, servants, beside, inbox, forgotten, called, lost>>

ServantDeclines ==
  /\ frame.step = "serve"
  /\ frame' = [frame EXCEPT !.step = "loop", !.at = @ + 1]
  /\ UNCHANGED <<tracked, servants, mutex, beside, inbox, request, forgotten,
                 called, incoming, lost>>

\* Nobody handled it: service-unavailable.
RefuseUnhandled ==
  /\ frame.step = "loop"
  /\ frame.type \notin Types
  /\ incoming' = Reply(frame.iq, IF Refusable(frame.iq) THEN 1 ELSE 0)
  /\ Dispatched(frame.iq)
  /\ mutex' = Unlocked
  /\ frame' = Idle
  /\ UNCHANGED <<tracked, servants, beside, inbox, forgotten, called, lost>>

-----------------------------------------------------------------------------

Dispatcher ==
  FindTracked \/ CallAsker \/ AskerReturns \/ RefuseEmpty \/ Offer \/ NextType
    \/ CallServant \/ ServantHandles \/ ServantDeclines \/ RefuseUnhandled

Beside == GoOnAsking \/ LockBeside

Application ==
  \/ \E id \in Ids, ih \in Askers : Ask(id, ih) \/ AskBeside(id, ih)
  \/ \E ih \in Askers : ForgetHere(ih) \/ ForgetBeside(ih)
  \/ \E t \in Types, sv \in Servants :
       \/ RegisterHere(t, sv)
       \/ RemoveHere(t, sv)
       \/ \E op \in {"register", "remove"} : ChangeBeside(op, t, sv)

Others ==
  \/ \E id \in Ids, sub \in Answers : AnswerArrives(id, sub)
  \/ \E sub \in Answers \cup Questions, id \in Ids \cup {Stray}, exts \in SUBSET Types :
       RequestArrives(sub, id, exts)

IqNext == ~lost /\ (Dispatcher \/ Beside \/ Application \/ Others)

\* recv() is called again and callbacks return; threads are scheduled.
IqFairness == WF_iqVars(~lost /\ Dispatcher) /\ SF_iqVars(~lost /\ Beside)

IqSpec == IqInit /\ [][IqNext]_iqVars /\ IqFairness

-----------------------------------------------------------------------------

IqTypeOK ==
  /\ tracked \in [Ids -> Askers \cup {Nobody}]
  /\ servants \in [Types -> Seq(Servants)]
  /\ mutex \in {"free", "dispatcher"}
  /\ request \in [Ids -> {"new", "sent", "answered", "done"}]
  /\ forgotten \subseteq Ids

(* An answer finds the handler that waits for it, whichever thread asked    *)
(* and however early the answer is; it is called once and forgotten, and    *)
(* no other stanza with that id is taken for the answer.                    *)
AskersTold ==
  \A id \in Ids :
    /\ called[id] = IF request[id] = "done" /\ id \notin forgotten THEN 1
                    ELSE IF InUse = {id} /\ frame.step = "answer" THEN 1 ELSE 0
    /\ request[id] = "done" => tracked[id] = Nobody

(* No handler is called through an entry of either map that another call    *)
(* has erased meanwhile.                                                    *)
EntriesHold == ~lost

(* Every request of others is answered once when its dispatch is over, by   *)
(* the handler that took it or by an error; what answers nothing is not     *)
(* answered itself.                                                         *)
RequestsAnswered == incoming.answers = incoming.done /\ incoming.stray = 0

(* A thread that registers or removes a handler while one is being called   *)
(* gets its turn.                                                           *)
SecondThreadReturns == beside # Idle ~> beside = Idle
=============================================================================
