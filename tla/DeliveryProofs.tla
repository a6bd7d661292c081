--------------------------- MODULE DeliveryProofs ---------------------------
(***************************************************************************)
(* Proofs about what MCDelivery checks: the mutexes and the descriptor of  *)
(* a TCP connection, for every number of threads and calls, the search for *)
(* a server, for every answer of the name servers, the references of the   *)
(* link-local services, the maps of IQ handlers under two threads, and the *)
(* properties of all parts together.                                       *)
(***************************************************************************)
EXTENDS MCDelivery, SequenceTheorems, FiniteSetTheorems, TLAPS

-----------------------------------------------------------------------------
(* Threads on a TCP connection.  A thread is in one function of several    *)
(* calls deep; the stack holds the labels it returns to.                   *)

\* Where a function may return to.
Backs == {"idle", "loop", "receive", "tell", "tcp_disconnect"}

\* Where a thread is inside a function called by another.
Inside == {"send", "tcp_send", "check_send", "write", "handle_disconnect",
  "cleanup", "cleanup_recv", "cleanup_state", "tell", "disconnect",
  "tcp_disconnect", "cancel"}

\* What sendMutex covers, and recvMutex.
SendSection ==
  {"check_open", "dns", "check_send", "write", "cleanup_recv", "cleanup_state"}

RecvSection == {"check_cancel", "select", "cancel", "cleanup_state"}

Place == [pc : Labels, stack : Seq(Backs), fd : 0..MaxAttempts, calls : 0..MaxCalls]

TcpTyped ==
  /\ conn \in [socket : 0..MaxAttempts, cancel : BOOLEAN,
               state : {"disconnected", "connecting", "connected"}]
  /\ sendMutex \in Threads \cup {NoThread}
  /\ recvMutex \in Threads \cup {NoThread}
  /\ attempts \in 0..MaxAttempts /\ told \in Nat
  /\ thread \in [Threads -> Place]

\* A place can return, and so can what it returns to.
CanReturn(p) ==
  /\ p.pc \in Inside => p.stack # <<>>
  /\ \A i \in 1..Len(p.stack) : p.stack[i] \in Inside => i < Len(p.stack)

\* A thread has exactly the mutexes of the section it is in, and what it gave
\* to a system call is open.
Owned(t) ==
  /\ sendMutex = t <=> thread[t].pc \in SendSection
  /\ recvMutex = t <=> thread[t].pc \in RecvSection
  /\ thread[t].pc \in {"select", "write"} =>
       conn.socket # 0 /\ thread[t].fd = conn.socket

\* Only the reader connects, and as often as it may.
Connecting(t) ==
  thread[t].pc \in {"tcp_connect", "check_open", "dns"} =>
    t = Reader /\ attempts < MaxAttempts

TcpInv ==
  /\ TcpTyped
  /\ \A t \in Threads : CanReturn(thread[t]) /\ Owned(t) /\ Connecting(t)

\* t is at p now, at one of these labels.
Moved(t, p, labels) ==
  /\ p \in Place /\ CanReturn(p) /\ p.pc \in labels
  /\ thread' = [thread EXCEPT ![t] = p]

-----------------------------------------------------------------------------
\* A place after a return, and after a call.
LEMMA ReturnPlace ==
  ASSUME NEW p \in Place, CanReturn(p), p.pc \in Inside
  PROVE  LET q == [p EXCEPT !.pc = Head(p.stack), !.stack = Tail(p.stack)]
         IN /\ q \in Place /\ CanReturn(q) /\ q.pc \in Backs
            /\ q.fd = p.fd /\ q.calls = p.calls
PROOF
  <1> DEFINE q == [p EXCEPT !.pc = Head(p.stack), !.stack = Tail(p.stack)]
  <1>1. /\ p.stack \in Seq(Backs) /\ p.stack # <<>> /\ p.pc \in Labels
        /\ p.fd \in 0..MaxAttempts /\ p.calls \in 0..MaxCalls
    BY DEF Place, CanReturn
  <1>2. /\ Head(p.stack) = p.stack[1] /\ Head(p.stack) \in Backs
        /\ Tail(p.stack) \in Seq(Backs) /\ Len(Tail(p.stack)) = Len(p.stack) - 1
        /\ \A i \in 1..Len(Tail(p.stack)) : Tail(p.stack)[i] = p.stack[i + 1]
        /\ Len(p.stack) \in Nat /\ Len(p.stack) > 0
    BY <1>1
  <1>3. /\ q.pc = Head(p.stack) /\ q.stack = Tail(p.stack)
        /\ q.fd = p.fd /\ q.calls = p.calls
    BY DEF Place
  <1>4. q \in Place
    BY <1>1, <1>2 DEF Place, Backs, Labels
  <1>5. q.pc \in Inside => q.stack # <<>>
    <2> SUFFICES ASSUME q.pc \in Inside PROVE q.stack # <<>>
      OBVIOUS
    <2>1. 1 < Len(p.stack)
      BY <1>2, <1>3 DEF CanReturn
    <2>2. Tail(p.stack) # <<>>
      BY <1>1, <1>2, <2>1
    <2> QED BY <1>3, <2>2
  <1>6. \A i \in 1..Len(q.stack) : q.stack[i] \in Inside => i < Len(q.stack)
    <2> SUFFICES ASSUME NEW i \in 1..Len(Tail(p.stack)), Tail(p.stack)[i] \in Inside
                 PROVE  i < Len(Tail(p.stack))
      BY <1>3
    <2>1. i + 1 \in 1..Len(p.stack) /\ p.stack[i + 1] \in Inside
      BY <1>2
    <2> QED BY <1>2, <2>1 DEF CanReturn
  <1> HIDE DEF q
  <1>7. CanReturn(q)
    BY <1>5, <1>6 DEF CanReturn
  <1> QED BY <1>2, <1>3, <1>4, <1>7 DEF q

\* The place of a function that was called, with the label to come back to.
LEMMA CallPlace ==
  ASSUME NEW p \in Place, CanReturn(p), NEW label \in Labels, NEW back \in Backs,
         back \in Inside => p.stack # <<>>
  PROVE  LET q == [p EXCEPT !.pc = label, !.stack = <<back>> \o p.stack]
         IN q \in Place /\ CanReturn(q)
PROOF
  <1> DEFINE q == [p EXCEPT !.pc = label, !.stack = <<back>> \o p.stack]
             s == <<back>> \o p.stack
  <1>1. /\ p.stack \in Seq(Backs)
        /\ p.fd \in 0..MaxAttempts /\ p.calls \in 0..MaxCalls
    BY DEF Place
  <1>2. /\ s \in Seq(Backs) /\ s # <<>> /\ Len(s) = Len(p.stack) + 1 /\ s[1] = back
        /\ \A i \in 2..Len(s) : s[i] = p.stack[i - 1]
        /\ Len(p.stack) \in Nat
    BY <1>1
  <1>3. q.stack = s /\ q.pc = label /\ q \in Place
    BY <1>1, <1>2 DEF Place
  <1>4. \A i \in 1..Len(s) : s[i] \in Inside => i < Len(s)
    <2> SUFFICES ASSUME NEW i \in 1..Len(s), s[i] \in Inside PROVE i < Len(s)
      OBVIOUS
    <2>1. CASE i = 1
      BY <1>1, <1>2, <2>1
    <2>2. CASE i # 1
      <3>1. i - 1 \in 1..Len(p.stack) /\ p.stack[i - 1] \in Inside
        BY <1>2, <2>2
      <3> QED BY <1>2, <3>1 DEF CanReturn
    <2> QED BY <2>1, <2>2
  <1> HIDE DEF q, s
  <1>5. CanReturn(q)
    BY <1>2, <1>3, <1>4 DEF CanReturn
  <1> QED BY <1>3, <1>5 DEF q, s

\* One thread moves: what is left to show is about it, about the mutexes and
\* about the descriptor of the others.
LEMMA Moves ==
  ASSUME TcpInv, NEW t \in Threads, NEW p \in Place, CanReturn(p),
         thread' = [thread EXCEPT ![t] = p],
         conn' \in [socket : 0..MaxAttempts, cancel : BOOLEAN,
                    state : {"disconnected", "connecting", "connected"}],
         sendMutex' \in {sendMutex, t, NoThread},
         recvMutex' \in {recvMutex, t, NoThread},
         sendMutex' # sendMutex => sendMutex \in {t, NoThread},
         recvMutex' # recvMutex => recvMutex \in {t, NoThread},
         conn'.socket # conn.socket => (\A u \in Threads \ {t} :
                                          thread[u].pc \notin {"select", "write"}),
         attempts' \in 0..MaxAttempts, told' \in Nat,
         attempts' # attempts => t = Reader,
         sendMutex' = t <=> p.pc \in SendSection,
         recvMutex' = t <=> p.pc \in RecvSection,
         p.pc \in {"select", "write"} => conn'.socket # 0 /\ p.fd = conn'.socket,
         p.pc \in {"tcp_connect", "check_open", "dns"} =>
           t = Reader /\ attempts' < MaxAttempts
  PROVE  TcpInv'
PROOF
  <1>1. TcpTyped'
    BY DEF TcpInv, TcpTyped
  <1>2. thread'[t] = p /\ \A u \in Threads \ {t} : thread'[u] = thread[u]
    BY DEF TcpInv, TcpTyped
  <1>3. NoThread \notin Threads
    BY ConstantsAssumption DEF Threads
  <1>4. ASSUME NEW u \in Threads
        PROVE  (CanReturn(thread[u]) /\ Owned(u) /\ Connecting(u))'
    <2>1. CASE u = t
      BY <1>2, <2>1 DEF CanReturn, Owned, Connecting
    <2>2. CASE u # t
      <3>1. CanReturn(thread[u]) /\ Owned(u) /\ Connecting(u)
        BY DEF TcpInv
      <3>2. CanReturn(thread[u])'
        BY <1>2, <2>2, <3>1 DEF CanReturn
      <3>3. Owned(u)'
        BY <1>2, <1>3, <2>2, <3>1 DEF Owned
      <3>4. Connecting(u)'
        BY <1>2, <2>2, <3>1 DEF Connecting
      <3> QED BY <3>2, <3>3, <3>4
    <2> QED BY <2>1, <2>2
  <1> QED BY <1>1, <1>4 DEF TcpInv

\* A thread goes on in its function.
LEMMA Going ==
  ASSUME NEW p \in Place, CanReturn(p), NEW label \in Labels,
         label \in Inside => p.pc \in Inside
  PROVE  LET q == [p EXCEPT !.pc = label]
         IN q \in Place /\ CanReturn(q) /\ q.fd = p.fd /\ q.pc = label
PROOF
  BY DEF Place, CanReturn

\* The steps of a function, with the place it leaves.
LEMMA GoesOn ==
  ASSUME TcpInv, NEW t \in Threads, NEW label \in Labels, Goto(t, label),
         label \in Inside => thread[t].pc \in Inside
  PROVE  \E p : Moved(t, p, {label})
PROOF
  <1>1. thread[t] \in Place /\ CanReturn(thread[t])
    BY DEF TcpInv, TcpTyped
  <1> DEFINE q == [thread[t] EXCEPT !.pc = label]
  <1>2. q \in Place /\ CanReturn(q) /\ q.pc = label
    BY <1>1, Going
  <1>3. thread' = [thread EXCEPT ![t] = q]
    BY DEF Goto
  <1> QED BY <1>2, <1>3 DEF Moved

\* ... that takes the descriptor with it.
LEMMA Enters ==
  ASSUME TcpInv, NEW t \in Threads, NEW label \in Labels, Uses(t, label),
         label \in Inside => thread[t].pc \in Inside
  PROVE  \E p : Moved(t, p, {label}) /\ p.fd = conn.socket
PROOF
  <1>1. thread[t] \in Place /\ CanReturn(thread[t]) /\ conn.socket \in 0..MaxAttempts
    BY DEF TcpInv, TcpTyped
  <1> DEFINE q == [thread[t] EXCEPT !.pc = label, !.fd = conn.socket]
  <1>2. q \in Place /\ CanReturn(q) /\ q.pc = label /\ q.fd = conn.socket
    BY <1>1 DEF Place, CanReturn
  <1>3. thread' = [thread EXCEPT ![t] = q]
    BY <1>1 DEF TcpTyped, TcpInv, Uses
  <1> QED BY <1>2, <1>3 DEF Moved

\* ... that calls another.
LEMMA Calls ==
  ASSUME TcpInv, NEW t \in Threads, NEW label \in Labels, NEW back \in Backs,
         Call(t, label, back), back \in Inside => thread[t].pc \in Inside
  PROVE  \E p : Moved(t, p, {label})
PROOF
  <1>1. thread[t] \in Place /\ CanReturn(thread[t])
    BY DEF TcpInv, TcpTyped
  <1> DEFINE q == [thread[t] EXCEPT !.pc = label, !.stack = <<back>> \o thread[t].stack]
  <1>2. q \in Place /\ CanReturn(q)
    BY <1>1, CallPlace DEF CanReturn
  <1>3. thread' = [thread EXCEPT ![t] = q]
    BY <1>1 DEF Call, TcpTyped, TcpInv
  <1>4. q.pc = label
    BY <1>1 DEF Place
  <1> QED BY <1>2, <1>3, <1>4 DEF Moved

\* ... that returns.
LEMMA Returns ==
  ASSUME TcpInv, NEW t \in Threads, Return(t), thread[t].pc \in Inside
  PROVE  \E p : Moved(t, p, Backs)
PROOF
  <1>1. thread[t] \in Place /\ CanReturn(thread[t])
    BY DEF TcpInv, TcpTyped
  <1> DEFINE q == [thread[t] EXCEPT !.pc = Head(thread[t].stack), !.stack = Tail(thread[t].stack)]
  <1>2. q \in Place /\ CanReturn(q) /\ q.pc \in Backs
    BY <1>1, ReturnPlace
  <1>3. thread' = [thread EXCEPT ![t] = q]
    BY <1>1 DEF Return, TcpTyped, TcpInv
  <1> QED BY <1>2, <1>3 DEF Moved

\* ... that the application calls.
LEMMA StartsFresh ==
  ASSUME TcpInv, NEW t \in Threads, NEW label \in Labels,
         thread' = [thread EXCEPT ![t].pc = label, ![t].stack = <<"idle">>,
                                  ![t].calls = @ + 1],
         thread[t].calls < MaxCalls
  PROVE  \E p : Moved(t, p, {label})
PROOF
  <1>1. thread[t] \in Place
    BY DEF TcpInv, TcpTyped
  <1> DEFINE q == [thread[t] EXCEPT !.pc = label, !.stack = <<"idle">>,
                                    !.calls = thread[t].calls + 1]
  <1>2. /\ <<"idle">> \in Seq(Backs) /\ Len(<<"idle">>) = 1 /\ <<"idle">>[1] = "idle"
        /\ "idle" \notin Inside /\ <<"idle">> # <<>>
    BY DEF Backs, Inside
  <1>3. q \in Place
    <2>1. thread[t].calls + 1 \in 0..MaxCalls
      BY <1>1, ConstantsAssumption DEF Place
    <2> QED BY <1>1, <1>2, <2>1 DEF Place
  <1>4. q.pc = label /\ q.stack = <<"idle">>
    BY <1>1 DEF Place
  <1>5. CanReturn(q)
    BY <1>2, <1>4 DEF CanReturn
  <1>6. thread' = [thread EXCEPT ![t] = q]
    BY <1>1 DEF TcpTyped, TcpInv
  <1> QED BY <1>3, <1>4, <1>5, <1>6 DEF Moved

-----------------------------------------------------------------------------
(* The actions. *)

\* Each label is one place of one function: the ones of connect().
LEMMA ReaderKeeps ==
  ASSUME TcpInv, NEW t \in Threads,
         \/ StartConnect(t) \/ TcpConnect(t) \/ CheckOpen(t) \/ DnsConnect(t)
         \/ CheckSocket(t) \/ SetState(t) \/ SetCancel(t)
  PROVE  TcpInv'
PROOF
  <1> USE DEF At, Moved
  <1>0. /\ TcpTyped /\ CanReturn(thread[t]) /\ Owned(t) /\ Connecting(t)
        /\ thread[t] \in Place /\ MaxAttempts \in Nat
    BY ConstantsAssumption DEF TcpInv, TcpTyped
  <1>1. CASE StartConnect(t)
    <2>1. PICK label \in {"idle", "tcp_connect"} : Goto(t, label)
      BY <1>1 DEF StartConnect
    <2>2. PICK p : Moved(t, p, {label})
      BY <2>1, GoesOn DEF Labels, Inside
    <2> QED BY <1>0, <1>1, <2>2, Moves, ConstantsAssumption
             DEF StartConnect, TcpTyped, Owned, SendSection, RecvSection
  <1>2. CASE TcpConnect(t)
    <2>1. PICK p : Moved(t, p, {"check_open"})
      BY <1>2, GoesOn DEF Labels, Inside, TcpConnect
    <2> QED BY <1>0, <1>2, <2>1, Moves
         DEF TcpConnect, TcpTyped, Owned, SendSection, RecvSection, Locks, Connecting
  <1>3. CASE CheckOpen(t)
    <2>1. PICK label \in {"receive", "dns"} :
              /\ Goto(t, label)
              /\ label = "receive" => sendMutex' = NoThread /\ UNCHANGED conn
              /\ label = "dns" => UNCHANGED sendMutex /\ conn' = [conn EXCEPT !.state = "connecting"]
      BY <1>3 DEF CheckOpen
    <2>2. PICK p : Moved(t, p, {label})
      BY <2>1, GoesOn DEF Labels, Inside
    <2> QED BY <1>0, <1>3, <2>1, <2>2, Moves, ConstantsAssumption
         DEF CheckOpen, TcpTyped, Owned, SendSection, RecvSection, Connecting, Threads
  <1>4. CASE DnsConnect(t)
    <2>1. PICK p : Moved(t, p, {"check_socket"})
      BY <1>4, GoesOn DEF Labels, Inside, Backs, DnsConnect
    <2>2. conn'.socket # conn.socket =>
            \A u \in Threads \ {t} : thread[u].pc \notin {"select", "write"}
      BY <1>0, <1>4 DEF DnsConnect, TcpInv, TcpTyped, Owned
    <2>3. conn'.socket \in 0..MaxAttempts /\ attempts' \in 0..MaxAttempts
      BY <1>0, <1>4 DEF DnsConnect, NewSocket, TcpTyped, Connecting
    <2> QED BY <1>0, <1>4, <2>1, <2>2, <2>3, Moves, ConstantsAssumption
         DEF DnsConnect, TcpTyped, Owned, SendSection, RecvSection, Locks, Connecting,
             Threads
  <1>5. CASE CheckSocket(t)
    <2>1. CASE conn.socket = 0
      <3>1. PICK p : Moved(t, p, {"handle_disconnect"})
        BY <1>5, <2>1, Calls DEF Labels, Inside, Backs, CheckSocket
      <3> QED BY <1>0, <1>5, <3>1, Moves, ConstantsAssumption
               DEF CheckSocket, TcpTyped, Owned, SendSection, RecvSection, Locks,
                   Connecting, Threads
    <2>2. CASE conn.socket # 0
      <3>1. PICK p : Moved(t, p, {"set_state"})
        BY <1>5, <2>2, GoesOn DEF Labels, Inside, CheckSocket
      <3> QED BY <1>0, <1>5, <3>1, Moves, ConstantsAssumption
               DEF CheckSocket, TcpTyped, Owned, SendSection, RecvSection, Locks,
                   Connecting, Threads
    <2> QED BY <2>1, <2>2
  <1>6. CASE SetState(t)
    <2>1. PICK p : Moved(t, p, {"set_cancel"})
      BY <1>6, GoesOn DEF Labels, Inside, Backs, SetState
    <2> QED BY <1>0, <1>6, <2>1, Moves, ConstantsAssumption
         DEF SetState, TcpTyped, Owned, SendSection, RecvSection, Locks, Connecting,
             Threads
  <1>7. CASE SetCancel(t)
    <2>1. PICK p : Moved(t, p, {"send"})
      BY <1>7, Calls DEF Labels, Inside, Backs, SetCancel
    <2> QED BY <1>0, <1>7, <2>1, Moves, ConstantsAssumption
         DEF SetCancel, TcpTyped, Owned, SendSection, RecvSection, Locks, Connecting,
             Threads
  <1> QED BY <1>1, <1>2, <1>3, <1>4, <1>5, <1>6, <1>7

\* ... of recv() and what it calls.
LEMMA ReceivingKeeps ==
  ASSUME TcpInv, NEW t \in Threads,
         \/ Receive(t) \/ Loop(t) \/ Recv(t) \/ CheckCancel(t) \/ Select(t) \/ Handler(t)
  PROVE  TcpInv'
PROOF
  <1> USE DEF At, Moved
  <1>0. /\ TcpTyped /\ CanReturn(thread[t]) /\ Owned(t) /\ Connecting(t)
        /\ thread[t] \in Place /\ MaxAttempts \in Nat
    BY ConstantsAssumption DEF TcpInv, TcpTyped
  <1>1. CASE Receive(t)
    <2>1. PICK label \in {"idle", "loop"} : Goto(t, label)
      BY <1>1 DEF Receive
    <2>2. PICK p : Moved(t, p, {label})
      BY <2>1, <1>1, GoesOn DEF Labels, Inside, Backs, Receive
    <2> QED BY <1>0, <1>1, <2>2, Moves, ConstantsAssumption
         DEF Receive, TcpTyped, Owned, SendSection, RecvSection, Locks, Connecting,
             Threads
  <1>2. CASE Loop(t)
    <2>1. PICK label \in {"idle", "recv"} : Goto(t, label)
      BY <1>2 DEF Loop
    <2>2. PICK p : Moved(t, p, {label})
      BY <2>1, <1>2, GoesOn DEF Labels, Inside, Backs, Loop
    <2> QED BY <1>0, <1>2, <2>2, Moves, ConstantsAssumption
         DEF Loop, TcpTyped, Owned, SendSection, RecvSection, Locks, Connecting,
             Threads
  <1>3. CASE Recv(t)
    <2>1. PICK p : Moved(t, p, {"check_cancel"})
      BY <1>3, GoesOn DEF Labels, Inside, Backs, Recv
    <2> QED BY <1>0, <1>3, <2>1, Moves, ConstantsAssumption
         DEF Recv, TcpTyped, Owned, SendSection, RecvSection, Locks, Connecting,
             Threads
  <1>4. CASE CheckCancel(t)
    <2>1. CASE conn.cancel \/ conn.socket = 0
      <3>1. PICK p : Moved(t, p, {"idle"})
        BY <1>4, <2>1, GoesOn DEF Labels, Inside, CheckCancel
      <3> QED BY <1>0, <1>4, <2>1, <3>1, Moves, ConstantsAssumption
               DEF CheckCancel, TcpTyped, Owned, SendSection, RecvSection, Locks,
                   Connecting, Threads
    <2>2. CASE ~(conn.cancel \/ conn.socket = 0)
      <3>1. PICK p : Moved(t, p, {"select"}) /\ p.fd = conn.socket
        BY <1>4, <2>2, Enters DEF Labels, Inside, CheckCancel
      <3> QED BY <1>0, <1>4, <2>2, <3>1, Moves, ConstantsAssumption
               DEF CheckCancel, TcpTyped, Owned, SendSection, RecvSection, Locks,
                   Connecting, Threads
    <2> QED BY <2>1, <2>2
  <1>5. CASE Select(t)
    <2>1. CASE \E label \in {"loop", "handler"} : Goto(t, label)
      <3>1. PICK p : Moved(t, p, {"loop", "handler"})
        BY <2>1, GoesOn DEF Labels, Inside
      <3> QED BY <1>0, <1>5, <3>1, Moves, ConstantsAssumption
               DEF Select, TcpTyped, Owned, SendSection, RecvSection, Locks,
                   Connecting, Threads
    <2>2. CASE Call(t, "handle_disconnect", "idle")
      <3>1. PICK p : Moved(t, p, {"handle_disconnect"})
        BY <2>2, Calls DEF Labels, Inside, Backs
      <3> QED BY <1>0, <1>5, <3>1, Moves, ConstantsAssumption
               DEF Select, TcpTyped, Owned, SendSection, RecvSection, Locks,
                   Connecting, Threads
    <2> QED BY <1>5, <2>1, <2>2 DEF Select
  <1>6. CASE Handler(t)
    <2>1. CASE Goto(t, "loop")
      <3>1. PICK p : Moved(t, p, {"loop"})
        BY <2>1, GoesOn DEF Labels, Inside
      <3> QED BY <1>0, <1>6, <3>1, Moves, ConstantsAssumption
               DEF Handler, TcpTyped, Owned, SendSection, RecvSection, Locks,
                   Connecting, Threads
    <2>2. CASE \E label \in {"send", "disconnect"} : Call(t, label, "loop")
      <3>1. PICK p : Moved(t, p, {"send", "disconnect"})
        BY <2>2, Calls DEF Labels, Inside, Backs
      <3> QED BY <1>0, <1>6, <3>1, Moves, ConstantsAssumption
               DEF Handler, TcpTyped, Owned, SendSection, RecvSection, Locks,
                   Connecting, Threads
    <2> QED BY <1>6, <2>1, <2>2 DEF Handler
  <1> QED BY <1>1, <1>2, <1>3, <1>4, <1>5, <1>6

\* ... of send().
LEMMA SendingKeeps ==
  ASSUME TcpInv, NEW t \in Threads,
         \/ StartSend(t) \/ Send(t) \/ TcpSend(t) \/ CheckSend(t) \/ WriteSocket(t)
  PROVE  TcpInv'
PROOF
  <1> USE DEF At, Moved
  <1>0. /\ TcpTyped /\ CanReturn(thread[t]) /\ Owned(t) /\ Connecting(t)
        /\ thread[t] \in Place /\ MaxAttempts \in Nat
    BY ConstantsAssumption DEF TcpInv, TcpTyped
  <1>1. CASE StartSend(t)
    <2>1. PICK p : Moved(t, p, {"send"})
      BY <1>1, StartsFresh DEF Labels, Inside, Backs, StartSend
    <2> QED BY <1>0, <1>1, <2>1, Moves, ConstantsAssumption
         DEF StartSend, TcpTyped, Owned, SendSection, RecvSection, Locks, Connecting,
             Threads
  <1>2. CASE Send(t)
    <2>1. CASE Goto(t, "tcp_send")
      <3>1. PICK p : Moved(t, p, {"tcp_send"})
        BY <1>2, <2>1, GoesOn DEF Labels, Inside, Send
      <3> QED BY <1>0, <1>2, <3>1, Moves, ConstantsAssumption
               DEF Send, TcpTyped, Owned, SendSection, RecvSection, Locks, Connecting,
                   Threads
    <2>2. CASE Return(t)
      <3>1. PICK p : Moved(t, p, Backs)
        BY <1>2, <2>2, Returns DEF Inside, Send
      <3> QED BY <1>0, <1>2, <3>1, Moves, ConstantsAssumption
               DEF Send, Backs, TcpTyped, Owned, SendSection, RecvSection, Locks,
                   Connecting, Threads
    <2> QED BY <1>2, <2>1, <2>2 DEF Send
  <1>3. CASE TcpSend(t)
    <2>1. PICK p : Moved(t, p, {"check_send"})
      BY <1>3, GoesOn DEF Labels, Inside, Backs, TcpSend
    <2> QED BY <1>0, <1>3, <2>1, Moves, ConstantsAssumption
         DEF TcpSend, TcpTyped, Owned, SendSection, RecvSection, Locks, Connecting,
             Threads
  <1>4. CASE CheckSend(t)
    <2>1. CASE conn.socket = 0
      <3>1. PICK p : Moved(t, p, Backs)
        BY <1>4, <2>1, Returns DEF Inside, CheckSend, WriteOrReturn
      <3> QED BY <1>0, <1>4, <2>1, <3>1, Moves, ConstantsAssumption
           DEF CheckSend, WriteOrReturn, Backs, TcpTyped, Owned, SendSection,
               RecvSection, Locks, Connecting, Threads
    <2>2. CASE conn.socket # 0
      <3>1. PICK p : Moved(t, p, {"write"}) /\ p.fd = conn.socket
        BY <1>4, <2>2, Enters DEF Labels, Inside, CheckSend, WriteOrReturn
      <3> QED BY <1>0, <1>4, <2>2, <3>1, Moves, ConstantsAssumption
               DEF CheckSend, WriteOrReturn, TcpTyped, Owned, SendSection,
                   RecvSection, Locks, Connecting, Threads
    <2> QED BY <2>1, <2>2
  <1>5. CASE WriteSocket(t)
    <2>1. CASE Goto(t, "handle_disconnect")
      <3>1. PICK p : Moved(t, p, {"handle_disconnect"})
        BY <1>5, <2>1, GoesOn DEF Labels, Inside, WriteSocket
      <3> QED BY <1>0, <1>5, <3>1, Moves, ConstantsAssumption
               DEF WriteSocket, TcpTyped, Owned, SendSection, RecvSection, Locks,
                   Connecting, Threads
    <2>2. CASE Return(t)
      <3>1. PICK p : Moved(t, p, Backs)
        BY <1>5, <2>2, Returns DEF Inside, WriteSocket
      <3> QED BY <1>0, <1>5, <3>1, Moves, ConstantsAssumption
               DEF WriteSocket, Backs, TcpTyped, Owned, SendSection, RecvSection,
                   Locks, Connecting, Threads
    <2> QED BY <1>5, <2>1, <2>2 DEF WriteSocket
  <1> QED BY <1>1, <1>2, <1>3, <1>4, <1>5

\* ... of cleanup() and disconnect().
LEMMA EndingKeeps ==
  ASSUME TcpInv, NEW t \in Threads,
         \/ HandleDisconnect(t) \/ Cleanup(t) \/ CleanupRecv(t) \/ CleanupState(t) \/ Tell(t)
         \/ StartDisconnect(t) \/ Disconnect(t) \/ TcpDisconnect(t) \/ Cancel(t)
  PROVE  TcpInv'
PROOF
  <1> USE DEF At, Moved
  <1>0. /\ TcpTyped /\ CanReturn(thread[t]) /\ Owned(t) /\ Connecting(t)
        /\ thread[t] \in Place /\ MaxAttempts \in Nat
    BY ConstantsAssumption DEF TcpInv, TcpTyped
  <1>1. CASE HandleDisconnect(t)
    <2>1. PICK p : Moved(t, p, {"cleanup"})
      BY <1>1, Calls DEF Labels, Inside, Backs, HandleDisconnect
    <2> QED BY <1>0, <1>1, <2>1, Moves, ConstantsAssumption
         DEF HandleDisconnect, TcpTyped, Owned, SendSection, RecvSection, Locks,
             Connecting, Threads
  <1>2. CASE Cleanup(t)
    <2>1. CASE Locks(sendMutex)
      <3>1. PICK p : Moved(t, p, {"cleanup_recv"})
        BY <1>2, <2>1, GoesOn DEF Labels, Inside, Cleanup
      <3> QED BY <1>0, <1>2, <2>1, <3>1, Moves, ConstantsAssumption
               DEF Cleanup, TcpTyped, Owned, SendSection, RecvSection, Locks,
                   Connecting, Threads
    <2>2. CASE ~Locks(sendMutex)
      <3>1. PICK p : Moved(t, p, Backs)
        BY <1>2, <2>2, Returns DEF Inside, Cleanup
      <3> QED BY <1>0, <1>2, <2>2, <3>1, Moves, ConstantsAssumption
               DEF Cleanup, Backs, TcpTyped, Owned, SendSection, RecvSection, Locks,
                   Connecting, Threads
    <2> QED BY <2>1, <2>2
  <1>3. CASE CleanupRecv(t)
    <2>1. CASE Locks(recvMutex)
      <3>1. PICK p : Moved(t, p, {"cleanup_state"})
        BY <1>3, <2>1, GoesOn DEF Labels, Inside, CleanupRecv, LockAndClose
      <3>2. \A u \in Threads \ {t} : thread[u].pc \notin {"select", "write"}
        <4> SUFFICES ASSUME NEW u \in Threads \ {t}, thread[u].pc \in {"select", "write"}
                     PROVE  FALSE
          OBVIOUS
        <4>1. Owned(u) /\ u # NoThread
          BY ConstantsAssumption DEF TcpInv, Threads
        <4> QED BY <1>0, <1>3, <2>1, <4>1
                 DEF CleanupRecv, Owned, SendSection, RecvSection, Locks
      <3>3. sendMutex = t /\ recvMutex = NoThread /\ sendMutex' = t /\ recvMutex' = t
        BY <1>0, <1>3, <2>1 DEF CleanupRecv, LockAndClose, Locks, Owned, SendSection
      <3>4. conn' = [conn EXCEPT !.socket = 0] /\ UNCHANGED <<attempts, told>>
        BY <1>3, <2>1 DEF CleanupRecv, LockAndClose
      <3>5. conn' \in [socket : 0..MaxAttempts, cancel : BOOLEAN,
                      state : {"disconnected", "connecting", "connected"}]
        BY <1>0, <3>4 DEF TcpTyped
      <3> QED BY <1>0, <1>3, <2>1, <3>1, <3>2, <3>3, <3>4, <3>5, Moves, ConstantsAssumption
               DEF CleanupRecv, LockAndClose, TcpTyped, Owned, SendSection,
                   RecvSection, Locks, Connecting, Threads
    <2>2. CASE ~Locks(recvMutex)
      <3>1. PICK p : Moved(t, p, Backs)
        BY <1>3, <2>2, Returns DEF Inside, CleanupRecv, LockAndClose
      <3> QED BY <1>0, <1>3, <2>2, <3>1, Moves, ConstantsAssumption
           DEF CleanupRecv, LockAndClose, Backs, TcpTyped, Owned, SendSection,
               RecvSection, Locks, Connecting, Threads
    <2> QED BY <2>1, <2>2
  <1>4. CASE CleanupState(t)
    <2>1. PICK p : Moved(t, p, Backs)
      BY <1>4, Returns DEF Inside, CleanupState
    <2>2. sendMutex = t /\ recvMutex = t /\ sendMutex' = NoThread /\ recvMutex' = NoThread
      BY <1>0, <1>4 DEF CleanupState, Owned, SendSection, RecvSection
    <2>3. conn'.socket = conn.socket /\ UNCHANGED <<attempts, told>>
      BY <1>0, <1>4 DEF CleanupState, Reset, TcpTyped
    <2>4. conn' \in [socket : 0..MaxAttempts, cancel : BOOLEAN,
                    state : {"disconnected", "connecting", "connected"}]
      BY <1>0, <1>4 DEF CleanupState, Reset, TcpTyped
    <2> QED BY <1>0, <1>4, <2>1, <2>2, <2>3, <2>4, Moves, ConstantsAssumption
         DEF CleanupState, Reset, Backs, TcpTyped, Owned, SendSection, RecvSection,
             Locks, Connecting, Threads
  <1>5. CASE Tell(t)
    <2>1. PICK p : Moved(t, p, Backs)
      BY <1>5, Returns DEF Inside, Tell
    <2>2. told' \in Nat /\ sendMutex' = sendMutex /\ recvMutex' = recvMutex
          /\ UNCHANGED <<conn, attempts>> /\ sendMutex # t /\ recvMutex # t
      BY <1>0, <1>5 DEF Tell, TcpTyped, Owned, SendSection, RecvSection
    <2> QED BY <1>0, <2>1, <2>2, Moves, ConstantsAssumption
             DEF Tell, Backs, TcpTyped, Owned, SendSection, RecvSection, Locks,
                 Connecting, Threads
  <1>6. CASE StartDisconnect(t)
    <2>1. PICK p : Moved(t, p, {"disconnect"})
      BY <1>6, StartsFresh DEF Labels, Inside, Backs, StartDisconnect
    <2> QED BY ZenonT(60), <1>0, <1>6, <2>1, Moves, ConstantsAssumption
         DEF StartDisconnect, TcpTyped, Owned, SendSection, RecvSection, Locks,
             Connecting, Threads
  <1>7. CASE Disconnect(t)
    <2>1. CASE Call(t, "send", "tcp_disconnect")
      <3>1. PICK p : Moved(t, p, {"send"})
        BY <1>7, <2>1, Calls DEF Labels, Inside, Backs, Disconnect
      <3> QED BY <1>0, <1>7, <3>1, Moves, ConstantsAssumption
               DEF Disconnect, TcpTyped, Owned, SendSection, RecvSection, Locks,
                   Connecting, Threads
    <2>2. CASE Return(t)
      <3>1. PICK p : Moved(t, p, Backs)
        BY <1>7, <2>2, Returns DEF Inside, Disconnect
      <3> QED BY <1>0, <1>7, <3>1, Moves, ConstantsAssumption
               DEF Disconnect, Backs, TcpTyped, Owned, SendSection, RecvSection,
                   Locks, Connecting, Threads
    <2> QED BY <1>7, <2>1, <2>2 DEF Disconnect
  <1>8. CASE TcpDisconnect(t)
    <2>1. PICK p : Moved(t, p, {"cancel"})
      BY <1>8, GoesOn DEF Labels, Inside, Backs, TcpDisconnect
    <2> QED BY <1>0, <1>8, <2>1, Moves, ConstantsAssumption
         DEF TcpDisconnect, TcpTyped, Owned, SendSection, RecvSection, Locks,
             Connecting, Threads
  <1>9. CASE Cancel(t)
    <2>1. PICK p : Moved(t, p, {"cleanup"})
      BY <1>9, Calls DEF Labels, Inside, Backs, Cancel, CleanupAndTell
    <2> QED BY <1>0, <1>9, <2>1, Moves, ConstantsAssumption
         DEF Cancel, TcpTyped, Owned, SendSection, RecvSection, Locks, Connecting,
             Threads
  <1> QED BY <1>1, <1>2, <1>3, <1>4, <1>5, <1>6, <1>7, <1>8, <1>9

\* Every step keeps the invariant.
LEMMA TcpStep == TcpInv /\ [Next]_vars => TcpInv'
PROOF
  <1> SUFFICES ASSUME TcpInv, [Next]_vars PROVE TcpInv'
    OBVIOUS
  <1>1. CASE UNCHANGED vars
    BY <1>1 DEF TcpInv, TcpTyped, CanReturn, Owned, Connecting, vars
  <1>2. CASE Next
    <2>1. PICK t \in Threads : Starts(t) \/ Waits(t) \/ Runs(t)
      BY <1>2 DEF Next
    <2> QED BY <2>1, ReaderKeeps, ReceivingKeeps, SendingKeeps, EndingKeeps
         DEF Starts, Waits, Runs
  <1> QED BY <1>1, <1>2

\* Nobody is inside at first, and nobody holds a mutex.
LEMMA TcpBegins == Init => TcpInv
PROOF
  <1> SUFFICES ASSUME Init PROVE TcpInv
    OBVIOUS
  <1>1. <<>> \in Seq(Backs) /\ Len(<<>>) = 0
    OBVIOUS
  <1>2. TcpTyped
    BY <1>1, ConstantsAssumption DEF Init, TcpTyped, Place, Labels, Threads
  <1>3. ASSUME NEW t \in Threads PROVE CanReturn(thread[t]) /\ Owned(t) /\ Connecting(t)
    <2>1. thread[t].pc = "idle" /\ thread[t].stack = <<>>
      BY DEF Init
    <2>2. t # NoThread
      BY ConstantsAssumption DEF Threads
    <2> QED BY <1>1, <2>1, <2>2
         DEF Init, CanReturn, Owned, Connecting, Inside, SendSection, RecvSection
  <1> QED BY <1>2, <1>3 DEF TcpInv

\* What the mutexes are for follows.
LEMMA TcpHolds == TcpInv => LocksHold
PROOF
  <1> SUFFICES ASSUME TcpInv PROVE LocksHold
    OBVIOUS
  <1>1. TypeOK
    <2>1. ASSUME NEW t \in Threads
          PROVE  /\ thread[t].pc \in Labels
                 /\ \A i \in DOMAIN thread[t].stack : thread[t].stack[i] \in Labels
                 /\ thread[t].fd \in 0..MaxAttempts /\ thread[t].calls \in 0..MaxCalls
      <3>1. thread[t] \in Place
        BY DEF TcpInv, TcpTyped
      <3>2. \A i \in DOMAIN thread[t].stack : thread[t].stack[i] \in Backs
        BY <3>1 DEF Place
      <3>3. Backs \subseteq Labels
        BY DEF Backs, Labels
      <3> QED BY <3>1, <3>2, <3>3 DEF Place
    <2> QED BY <2>1 DEF TypeOK, TcpInv, TcpTyped
  <1>2. DescriptorHeld
    BY DEF DescriptorHeld, TcpInv, Owned
  <1>3. MutexesReturned
    BY DEF MutexesReturned, TcpInv, TcpTyped, Owned, SendSection, RecvSection
  <1> QED BY <1>1, <1>2, <1>3 DEF LocksHold

\* For every number of threads: a mutex is held by a thread inside its section
\* and by no other, and the descriptor a system call was given stays open until
\* the call is over (connectiontcpbase.cpp:122-187, connectiontcpclient.cpp:62-147).
THEOREM TcpTheorem == Spec => []LocksHold
PROOF
  <1> QED BY TcpBegins, TcpStep, TcpHolds, PTL DEF Spec

-----------------------------------------------------------------------------
(* The search for a server. *)

\* A call of connect(), whatever is left to try.
DialRecord(d) ==
  /\ d \in [step : {"idle", "socket", "lookup", "connect"}, build : Lookups,
            mode : {"host", "port"}, todo : {d.todo}, fd : 0..MaxOpen,
            holds : BOOLEAN, result : {"none", "dns", "refused", "connected"},
            tried : Nat, offered : Nat]
  /\ \E S : d.todo \in Seq(S)

\* One under way has something left to try, has counted what it tried, and has
\* a descriptor of its own, or none.
DialUnderWay(d) ==
  d.step # "idle" =>
    /\ d.todo # <<>> /\ d.tried + Len(d.todo) = d.offered
    /\ d.result = "none"
    /\ d.step = "socket" => d.fd = None

\* What a call has kept when it is over.
DialDone(d) ==
  /\ d.result = "refused" => d.tried = d.offered
  /\ d.mode = "port" \/ d.result # "connected" => (d.step = "idle" => ~d.holds)

DialInv ==
  /\ DialRecord(dial) /\ DialUnderWay(dial) /\ DialDone(dial)
  /\ descriptors \subseteq 1..MaxOpen /\ given \subseteq descriptors
  /\ DescriptorsKept /\ (dial.step # "idle" => dial.fd \notin given)

-----------------------------------------------------------------------------
\* What there is to try is never nothing.
LEMMA HostsKnown ==
  ASSUME NEW records \in SrvAnswers
  PROVE  (\E S : Resolve(records) \in Seq(S)) /\ Resolve(records) # <<>>
PROOF
  <1>1. CASE Usable(records) = {}
    <2>1. Resolve(records) = <<<<Domain, XmppPort>>>>
      BY <1>1 DEF Resolve, DefaultHostMap
    <2> DEFINE x == <<Domain, XmppPort>>
    <2> HIDE DEF x
    <2>2. <<x>> \in Seq({x}) /\ <<x>> # <<>>
      OBVIOUS
    <2> QED BY <2>1, <2>2 DEF x
  <1>2. CASE Usable(records) # {}
    <2> DEFINE names == Names(records)
               name(k) == NameOrder[Smallest(names, k)]
               entry(k) == <<name(k), PortOf(records, name(k))>>
               n == Cardinality(names)
               r == [k \in 1..n |-> entry(k)]
    <2>1. Resolve(records) = r
      BY <1>2 DEF Resolve
    <2>2. PICK i \in DOMAIN records : records[i].readable
      BY <1>2 DEF Usable
    <2>3. records[i].name \in ToSet(NameOrder) /\ NameOrder \in Seq(STRING)
      BY ResolverAssumption
    <2>4. PICK k \in DOMAIN NameOrder : records[i].name = NameOrder[k]
      BY <2>3 DEF ToSet
    <2>5. k \in names
      BY <2>2, <2>4 DEF Names, Usable
    <2>6. IsFiniteSet(names)
      <3>1. IsFiniteSet(1..Len(NameOrder))
        BY <2>3, FS_Interval
      <3>2. names \subseteq 1..Len(NameOrder)
        BY <2>3 DEF Names
      <3> QED BY <3>1, <3>2, FS_Subset
    <2>7. n \in Nat /\ n # 0
      BY <2>5, <2>6, FS_CardinalityType, FS_EmptySet
    <2> HIDE DEF n, entry
    <2>8. r \in Seq({entry(j) : j \in 1..n}) /\ Len(r) = n
      BY <2>7
    <2>9. r # <<>>
      BY <2>7, <2>8
    <2> QED BY <2>1, <2>8, <2>9
  <1> QED BY <1>1, <1>2

\* A call begins.
LEMMA BegunSound ==
  ASSUME DialInv, dial.step = "idle", NEW mode \in {"host", "port"}, NEW todo,
         \E S : todo \in Seq(S), NEW holds \in BOOLEAN
  PROVE  LET d == Begun(mode, todo, holds)
         IN /\ DialRecord(d) /\ d.step = "socket" /\ d.todo = todo /\ d.fd = None
            /\ d.holds = holds /\ d.result = "none" /\ d.mode = mode
            /\ (todo # <<>> => DialUnderWay(d)) /\ DialDone(d)
PROOF
  <1> DEFINE d == Begun(mode, todo, holds)
  <1>1. Len(todo) \in Nat /\ 0 \in 0..MaxOpen
    BY ResolverAssumption
  <1>2. /\ d.step = "socket" /\ d.todo = todo /\ d.fd = None /\ d.holds = holds
        /\ d.result = "none" /\ d.mode = mode /\ d.tried = 0 /\ d.offered = Len(todo)
        /\ d.build = dial.build
    BY DEF DialInv, DialRecord, Begun
  <1>3. d \in [step : {"idle", "socket", "lookup", "connect"}, build : Lookups,
            mode : {"host", "port"}, todo : {todo}, fd : 0..MaxOpen,
            holds : BOOLEAN, result : {"none", "dns", "refused", "connected"},
            tried : Nat, offered : Nat]
    BY <1>1 DEF DialInv, DialRecord, Begun, None
  <1> HIDE DEF d
  <1>4. DialRecord(d)
    BY <1>2, <1>3 DEF DialRecord
  <1>5. todo # <<>> => DialUnderWay(d)
    BY <1>1, <1>2 DEF DialUnderWay
  <1>6. DialDone(d)
    BY <1>2 DEF DialDone
  <1> QED BY <1>2, <1>4, <1>5, <1>6 DEF d

\* Where there is no list of addresses to give back.
LEMMA BegunPlain ==
  ASSUME DialInv, dial.step = "idle", NEW mode \in {"host", "port"}, NEW todo,
         \E S : todo \in Seq(S)
  PROVE  LET d == Begun(mode, todo, FALSE)
         IN /\ DialRecord(d) /\ d.step = "socket" /\ d.todo = todo /\ d.fd = None
            /\ ~d.holds /\ (todo # <<>> => DialUnderWay(d)) /\ DialDone(d)
PROOF
  <1> DEFINE no == FALSE
             d == Begun(mode, todo, no)
  <1>1. no \in BOOLEAN /\ ~no
    OBVIOUS
  <1> HIDE DEF no
  <1>2. LET e == Begun(mode, todo, no)
        IN /\ DialRecord(e) /\ e.step = "socket" /\ e.todo = todo /\ e.fd = None
           /\ e.holds = no /\ e.result = "none" /\ e.mode = mode
           /\ (todo # <<>> => DialUnderWay(e)) /\ DialDone(e)
    BY <1>1, BegunSound
  <1>3. /\ DialRecord(d) /\ d.step = "socket" /\ d.todo = todo /\ d.fd = None
        /\ ~d.holds /\ (todo # <<>> => DialUnderWay(d)) /\ DialDone(d)
    BY <1>1, <1>2
  <1> QED BY <1>3 DEF no

\* What is left of a list.
LEMMA TailOf ==
  ASSUME NEW S, NEW q \in Seq(S), q # <<>>
  PROVE  /\ Tail(q) \in Seq(S) /\ Len(q) \in Nat /\ Len(Tail(q)) \in Nat
         /\ Len(Tail(q)) = Len(q) - 1 /\ (Tail(q) = <<>> => Len(q) = 1)
PROOF
  <1>1. Tail(q) \in Seq(S) /\ Len(Tail(q)) = Len(q) - 1 /\ Len(q) \in Nat
    OBVIOUS
  <1>2. Len(<<>>) = 0
    OBVIOUS
  <1>3. Tail(q) = <<>> => Len(Tail(q)) = 0
    BY <1>2
  <1> QED BY <1>1, <1>3

\* An address did not do.
LEMMA NextOneSound ==
  ASSUME DialRecord(dial), DialUnderWay(dial), dial.step # "idle", NEW result \in {"refused", "dns"}
  PROVE  LET d == NextOne(dial, result)
         IN /\ DialRecord(d) /\ DialUnderWay(d) /\ DialDone(d) /\ d.fd = None
            /\ d.step \in {"idle", "socket"}
PROOF
  <1> DEFINE d == NextOne(dial, result)
             rest == Tail(dial.todo)
             tried == [dial EXCEPT !.todo = Tail(dial.todo), !.tried = dial.tried + 1, !.fd = None]
  <1>1. PICK S : dial.todo \in Seq(S)
    BY DEF DialRecord
  <1>2. /\ dial.todo # <<>> /\ dial.tried + Len(dial.todo) = dial.offered
        /\ dial.result = "none"
    BY DEF DialUnderWay
  <1>3. /\ rest \in Seq(S) /\ Len(rest) = Len(dial.todo) - 1
        /\ Len(dial.todo) \in Nat /\ Len(rest) \in Nat
        /\ (rest = <<>> => Len(dial.todo) = 1)
    BY <1>1, <1>2, TailOf
  <1>4. /\ None \in 0..MaxOpen /\ dial.tried \in Nat /\ dial.offered \in Nat
        /\ dial.tried + 1 \in Nat
    BY ResolverAssumption DEF None, DialRecord
  <1> HIDE DEF rest
  <1>5. /\ tried.todo = rest /\ tried.tried = dial.tried + 1 /\ tried.fd = None
        /\ tried.result = "none" /\ tried.offered = dial.offered
        /\ tried.mode = dial.mode /\ tried.holds = dial.holds
        /\ tried \in [step : {"idle", "socket", "lookup", "connect"}, build : Lookups,
              mode : {"host", "port"}, todo : {rest}, fd : 0..MaxOpen,
              holds : BOOLEAN, result : {"none", "dns", "refused", "connected"},
              tried : Nat, offered : Nat]
    BY <1>2, <1>4 DEF DialRecord, rest
  <1> HIDE DEF tried
  <1>6. CASE rest # <<>>
    <2>1. d = [tried EXCEPT !.step = "socket"]
      BY <1>5, <1>6 DEF NextOne, tried
    <2>2. /\ d.todo = rest /\ d.tried = dial.tried + 1 /\ d.fd = None /\ d.step = "socket"
          /\ d.result = "none" /\ d.offered = dial.offered
          /\ d \in [step : {"idle", "socket", "lookup", "connect"}, build : Lookups,
              mode : {"host", "port"}, todo : {rest}, fd : 0..MaxOpen,
              holds : BOOLEAN, result : {"none", "dns", "refused", "connected"},
              tried : Nat, offered : Nat]
      BY <1>5, <2>1
    <2> HIDE DEF d
    <2>3. DialRecord(d)
      BY <1>3, <2>2 DEF DialRecord
    <2>4. DialUnderWay(d) /\ DialDone(d)
      BY <1>2, <1>3, <1>4, <1>6, <2>2 DEF DialUnderWay, DialDone
    <2> QED BY <2>2, <2>3, <2>4 DEF d
  <1>7. CASE rest = <<>>
    <2> DEFINE end == IF dial.mode = "host" THEN "refused" ELSE result
    <2>1. end \in {"refused", "dns"}
      OBVIOUS
    <2>2. d = [[tried EXCEPT !.holds = FALSE] EXCEPT !.step = "idle", !.result = end]
      BY <1>5, <1>7 DEF NextOne, tried, Ended
    <2> HIDE DEF end
    <2>3. /\ d.todo = rest /\ d.tried = dial.tried + 1 /\ d.fd = None /\ d.step = "idle"
          /\ d.result = end /\ d.offered = dial.offered /\ d.holds = FALSE
          /\ d \in [step : {"idle", "socket", "lookup", "connect"}, build : Lookups,
              mode : {"host", "port"}, todo : {rest}, fd : 0..MaxOpen,
              holds : BOOLEAN, result : {"none", "dns", "refused", "connected"},
              tried : Nat, offered : Nat]
      BY <1>5, <2>1, <2>2
    <2> HIDE DEF d
    <2>4. DialRecord(d)
      BY <1>3, <2>3 DEF DialRecord
    <2>5. DialUnderWay(d)
      BY <2>3 DEF DialUnderWay
    <2>6. d.tried = d.offered
      <3>1. Len(dial.todo) = 1
        BY <1>3, <1>7
      <3> QED BY <1>2, <1>4, <2>3, <3>1
    <2>7. DialDone(d)
      BY <2>3, <2>6 DEF DialDone
    <2> QED BY <2>3, <2>4, <2>5, <2>7 DEF d
  <1> QED BY <1>6, <1>7

\* Every step of the search keeps the invariant.
LEMMA DialStep == DialInv /\ [ResolverNext]_resolverVars => DialInv'
PROOF
  <1> SUFFICES ASSUME DialInv, [ResolverNext]_resolverVars PROVE DialInv'
    OBVIOUS
  <1>0. /\ DialRecord(dial) /\ DialUnderWay(dial) /\ DialDone(dial)
        /\ descriptors \subseteq 1..MaxOpen /\ given \subseteq descriptors
        /\ DescriptorsKept /\ (dial.step # "idle" => dial.fd \notin given)
    BY DEF DialInv
  <1>1. ASSUME NEW mode \in {"host", "port"}, NEW n \in 0..MaxAddresses, LooksUp(mode, n)
        PROVE  DialInv'
    <2>0. n \in Nat /\ dial.step = "idle"
      BY <1>1 DEF LooksUp
    <2>1. CASE n = 0
      <3> DEFINE b == Begun(mode, <<>>, FALSE)
      <3>1. \E S : <<>> \in Seq(S)
        OBVIOUS
      <3>2. DialRecord(b) /\ b.step = "socket" /\ b.todo = <<>> /\ b.fd = None /\ ~b.holds
        BY <2>0, <3>1, BegunPlain
      <3>3. dial' = [b EXCEPT !.step = "idle", !.result = "dns"]
        BY <1>1, <2>1 DEF LooksUp, Ended
      <3> HIDE DEF b
      <3>4. /\ DialRecord(dial') /\ dial'.step = "idle" /\ ~dial'.holds
            /\ dial'.result = "dns"
        BY <3>1, <3>2, <3>3 DEF DialRecord
      <3>5. DialUnderWay(dial)' /\ DialDone(dial)'
        BY <3>4 DEF DialUnderWay, DialDone
      <3>6. descriptors' = descriptors /\ given' = given
        BY <1>1 DEF LooksUp
      <3>7. DescriptorsKept'
        BY <1>0, <2>0, <3>4, <3>6 DEF DescriptorsKept
      <3> QED BY <1>0, <3>4, <3>5, <3>6, <3>7 DEF DialInv, DialRecord
    <2>2. CASE n # 0
      <3> DEFINE held == TRUE
                 b == Begun(mode, Addresses(n), held)
      <3>0. held \in BOOLEAN
        OBVIOUS
      <3>1. Addresses(n) \in Seq({<<Domain, i>> : i \in 1..n}) /\ Addresses(n) # <<>>
        <4> DEFINE x(i) == <<Domain, i>>
        <4>1. Addresses(n) = [i \in 1..n |-> x(i)]
          BY DEF Addresses
        <4> HIDE DEF x
        <4>2. [i \in 1..n |-> x(i)] \in Seq({x(i) : i \in 1..n}) /\ Len([i \in 1..n |-> x(i)]) = n
          BY <2>0
        <4>3. Addresses(n) # <<>>
          BY <2>0, <2>2, <4>1, <4>2
        <4> QED BY <4>1, <4>2, <4>3 DEF x
      <3>2. \E S : Addresses(n) \in Seq(S)
        BY <3>1
      <3>3. /\ DialRecord(b) /\ b.step = "socket" /\ b.fd = None /\ DialUnderWay(b) /\ DialDone(b)
        <4> HIDE DEF held
        <4> QED BY <2>0, <3>0, <3>1, <3>2, BegunSound
      <3>4. dial' = b /\ descriptors' = descriptors /\ given' = given
        BY <1>1, <2>2 DEF LooksUp
      <3> HIDE DEF b
      <3> QED BY <1>0, <2>0, <3>3, <3>4
               DEF DialInv, DescriptorsKept, None, DialRecord, DialUnderWay, DialDone
    <2> QED BY <2>1, <2>2
  <1>2. ASSUME NEW records \in SrvAnswers, FollowsRecords(records) PROVE DialInv'
    <2> DEFINE b == Begun("host", Resolve(records), FALSE)
    <2>1. dial.step = "idle"
      BY <1>2 DEF FollowsRecords
    <2>2. /\ DialRecord(b) /\ b.step = "socket" /\ b.fd = None /\ DialUnderWay(b) /\ DialDone(b)
      BY <2>1, HostsKnown, BegunPlain
    <2>3. dial' = b /\ descriptors' = descriptors /\ given' = given
      BY <1>2 DEF FollowsRecords
    <2> HIDE DEF b
    <2> QED BY <1>0, <2>1, <2>2, <2>3
             DEF DialInv, DescriptorsKept, None, DialRecord, DialUnderWay, DialDone
  <1>3. CASE GoesTo(XmppPort)
    <2> DEFINE x == <<Domain, XmppPort>>
               list == <<x>>
               b == Begun("port", list, FALSE)
    <2>1. dial.step = "idle"
      BY <1>3 DEF GoesTo
    <2>2. dial' = b /\ descriptors' = descriptors /\ given' = given
      BY <1>3 DEF GoesTo
    <2> HIDE DEF x
    <2>3. list \in Seq({x}) /\ list # <<>>
      OBVIOUS
    <2> HIDE DEF list
    <2>4. \E S : list \in Seq(S)
      BY <2>3
    <2>5. /\ DialRecord(b) /\ b.step = "socket" /\ b.fd = None /\ DialUnderWay(b) /\ DialDone(b)
      BY <2>1, <2>3, <2>4, BegunPlain
    <2> HIDE DEF b
    <2> QED BY <1>0, <2>1, <2>2, <2>5
             DEF DialInv, DescriptorsKept, None, DialRecord, DialUnderWay, DialDone
  <1>4. CASE SocketOpens
    <2>1. PICK fd \in (1..MaxOpen) \ descriptors :
            /\ dial' = [dial EXCEPT !.fd = fd,
                         !.step = IF dial.build = "plain" THEN "lookup" ELSE "connect"]
            /\ descriptors' = descriptors \cup {fd} /\ given' = given /\ dial.step = "socket"
      BY <1>4 DEF SocketOpens
    <2>2. MaxOpen \in Nat /\ fd \in 0..MaxOpen /\ fd # 0
      BY ResolverAssumption
    <2>3. PICK step \in {"lookup", "connect"} : dial' = [dial EXCEPT !.fd = fd, !.step = step]
      BY <2>1
    <2>4. /\ dial'.fd = fd /\ dial'.step = step /\ DialRecord(dial')
          /\ dial'.todo = dial.todo /\ dial'.tried = dial.tried /\ dial'.offered = dial.offered
          /\ dial'.result = dial.result
      BY <1>0, <2>2, <2>3 DEF DialRecord
    <2>5. DialUnderWay(dial)' /\ DialDone(dial)'
      BY <1>0, <2>1, <2>4 DEF DialUnderWay, DialDone
    <2>6. dial.fd = None
      BY <1>0, <2>1 DEF DialUnderWay
    <2>7. DescriptorsKept'
      BY <1>0, <2>1, <2>2, <2>4, <2>6 DEF DescriptorsKept, None
    <2> QED BY <1>0, <2>1, <2>4, <2>5, <2>7 DEF DialInv, DialRecord
  <1>5. CASE SocketFails
    <2>1. dial.step = "socket" /\ descriptors' = descriptors /\ given' = given /\ dial.fd = None
      BY <1>0, <1>5 DEF SocketFails, DialUnderWay
    <2>2. CASE dial.build = "addrinfo" /\ dial.mode = "port"
      <3>1. dial' = [dial EXCEPT !.step = "connect"]
        BY <1>5, <2>2 DEF SocketFails
      <3>2. /\ dial'.fd = None /\ dial'.step = "connect" /\ DialRecord(dial')
            /\ dial'.todo = dial.todo /\ dial'.tried = dial.tried
            /\ dial'.offered = dial.offered /\ dial'.result = dial.result
        BY <1>0, <2>1, <3>1 DEF DialRecord
      <3>3. DialUnderWay(dial)' /\ DialDone(dial)'
        BY <1>0, <2>1, <3>2 DEF DialUnderWay, DialDone
      <3> QED BY <1>0, <2>1, <3>2, <3>3 DEF DialInv, DialRecord, DescriptorsKept, None
    <2>3. CASE ~(dial.build = "addrinfo" /\ dial.mode = "port")
      <3>1. dial' = NextOne(dial, "refused")
        BY <1>5, <2>3 DEF SocketFails
      <3>2. DialRecord(dial') /\ DialUnderWay(dial') /\ DialDone(dial') /\ dial'.fd = None
        BY <1>0, <2>1, <3>1, NextOneSound
      <3> QED BY <1>0, <2>1, <3>2
               DEF DialInv, DialRecord, DescriptorsKept, None, DialUnderWay, DialDone
    <2> QED BY <2>2, <2>3
  <1>6. CASE NameFound
    <2>1. /\ dial.step = "lookup" /\ dial' = [dial EXCEPT !.step = "connect"]
          /\ descriptors' = descriptors /\ given' = given
      BY <1>6 DEF NameFound
    <2>2. /\ dial'.fd = dial.fd /\ dial'.step = "connect" /\ DialRecord(dial')
          /\ dial'.todo = dial.todo /\ dial'.tried = dial.tried
          /\ dial'.offered = dial.offered /\ dial'.result = dial.result
      BY <1>0, <2>1 DEF DialRecord
    <2>3. DialUnderWay(dial)' /\ DialDone(dial)'
      BY <1>0, <2>1, <2>2 DEF DialUnderWay, DialDone
    <2> QED BY <1>0, <2>1, <2>2, <2>3 DEF DialInv, DialRecord, DescriptorsKept
  <1>7. CASE NameUnknown \/ Refuses
    <2>1. PICK result \in {"refused", "dns"} :
            /\ dial.step \in {"lookup", "connect"} /\ dial' = NextOne(dial, result)
            /\ descriptors' = descriptors \ {dial.fd} /\ given' = given
      BY <1>7 DEF NameUnknown, Refuses
    <2>2. DialRecord(dial') /\ DialUnderWay(dial') /\ DialDone(dial') /\ dial'.fd = None
      BY <1>0, <2>1, NextOneSound
    <2>3. given' \subseteq descriptors'
      BY <1>0, <2>1
    <2>4. DescriptorsKept'
      BY <1>0, <2>1, <2>2 DEF DescriptorsKept
    <2>5. None \notin given'
      BY <1>0, <2>1 DEF None
    <2> QED BY <1>0, <2>1, <2>2, <2>3, <2>4, <2>5 DEF DialInv, DialRecord, DialUnderWay, DialDone
  <1>8. CASE Accepts
    <2> DEFINE holds == dial.holds /\ dial.mode = "host"
    <2>1. /\ dial.step = "connect" /\ dial.fd # None /\ descriptors' = descriptors
          /\ given' = given \cup {dial.fd}
          /\ dial' = [[dial EXCEPT !.step = "idle", !.result = "connected"] EXCEPT !.holds = holds]
      BY <1>0, <1>8 DEF Accepts, Ended, DialRecord
    <2>2. holds \in BOOLEAN /\ (dial.mode = "port" => ~holds)
      OBVIOUS
    <2> HIDE DEF holds
    <2>3. /\ dial'.step = "idle" /\ DialRecord(dial') /\ dial'.holds = holds
          /\ dial'.mode = dial.mode /\ dial'.result = "connected"
      BY <1>0, <2>1, <2>2 DEF DialRecord
    <2>4. DialUnderWay(dial)' /\ DialDone(dial)'
      BY <2>2, <2>3 DEF DialUnderWay, DialDone
    <2>5. DescriptorsKept'
      BY <1>0, <2>1, <2>3 DEF DescriptorsKept
    <2>6. given' \subseteq descriptors'
      BY <1>0, <2>1 DEF DescriptorsKept
    <2> QED BY <1>0, <2>1, <2>3, <2>4, <2>5, <2>6 DEF DialInv, DialRecord
  <1>9. ASSUME NEW fd \in 1..MaxOpen, CloseSocket(fd) PROVE DialInv'
    BY <1>0, <1>9 DEF CloseSocket, DialInv, DescriptorsKept, DialRecord, DialUnderWay, DialDone
  <1>10. CASE UNCHANGED resolverVars
    BY <1>0, <1>10 DEF resolverVars, DialInv, DescriptorsKept, DialRecord, DialUnderWay, DialDone
  <1> QED BY <1>1, <1>2, <1>3, <1>4, <1>5, <1>6, <1>7, <1>8, <1>9, <1>10 DEF ResolverNext

\* At first nothing is open.
LEMMA DialBegins == ResolverInit => DialInv
PROOF
  <1> SUFFICES ASSUME ResolverInit PROVE DialInv
    OBVIOUS
  <1>1. PICK b \in Lookups : dial = [step |-> "idle", build |-> b, mode |-> "port",
          todo |-> <<>>, fd |-> None, holds |-> FALSE, result |-> "none", tried |-> 0, offered |-> 0]
    BY DEF ResolverInit
  <1>2. \E S : <<>> \in Seq(S)
    OBVIOUS
  <1>3. DialRecord(dial) /\ DialUnderWay(dial) /\ DialDone(dial)
    BY <1>1, <1>2, ResolverAssumption DEF DialRecord, DialUnderWay, DialDone, None
  <1> QED BY <1>1, <1>3 DEF ResolverInit, DialInv, DescriptorsKept

\* What the search promises follows.
LEMMA DialHolds == DialInv => ResolverTypeOK /\ DialSound
PROOF
  BY DEF DialInv, DialRecord, DialDone, ResolverTypeOK, DialSound, AllTried, ListsFreed

\* Whatever the name servers answer: every descriptor of a call is closed or
\* handed to the caller, once, and a call that was refused has tried everything
\* there was (dns.cpp:232-505).
THEOREM DialTheorem == ResolverSpec => [](ResolverTypeOK /\ DialSound)
PROOF
  <1> QED BY DialBegins, DialStep, DialHolds, PTL DEF ResolverSpec

-----------------------------------------------------------------------------
(* Link-local services. *)

\* Two references are not the same one.
Apart(r, s) == r = NoRef \/ r # s

LinkTyped ==
  /\ server \in [socket : {"none", "open", "closed"}, listens : BOOLEAN, claims : BOOLEAN]
  /\ browse \in [ref : 0..MaxRefs, found : SUBSET Services, reported : SUBSET Services]
  /\ resolver \in [r : 0..MaxRefs, q : 0..MaxRefs, current : 0..MaxRefs]
  /\ link \in [up : BOOLEAN, header : BOOLEAN]
  /\ publish \in 0..MaxRefs /\ handed \in 0..MaxRefs /\ refs \subseteq 1..MaxRefs

\* The references the manager and the client have were handed out, and no two
\* of those that are given back at different times are the same.
LinkApart ==
  /\ publish <= handed /\ browse.ref <= handed
  /\ resolver.r <= handed /\ resolver.q <= handed /\ resolver.current <= handed
  /\ Apart(publish, browse.ref) /\ Apart(resolver.r, resolver.q)
  /\ Apart(publish, resolver.r) /\ Apart(publish, resolver.q) /\ Apart(publish, resolver.current)
  /\ Apart(browse.ref, resolver.r) /\ Apart(browse.ref, resolver.q)
  /\ Apart(browse.ref, resolver.current)

LinkHeld ==
  /\ publish = NoRef \/ publish \in refs
  /\ browse.ref = NoRef \/ browse.ref \in refs
  /\ resolver.current = NoRef \/ resolver.current \in refs

LinkInv == LinkTyped /\ LinkApart /\ LinkHeld

\* What was found is what was reported since the last list.
Batches == browse.found = browse.reported /\ BatchesWhole

-----------------------------------------------------------------------------
\* Every step keeps the references apart and valid.
LEMMA LinkStep == LinkInv /\ [LinkLocalNext]_llVars => LinkInv'
PROOF
  <1> SUFFICES ASSUME LinkInv, [LinkLocalNext]_llVars PROVE LinkInv'
    OBVIOUS
  <1>0. MaxRefs \in Nat
    BY LinkLocalAssumption
  <1>1. ASSUME NEW works \in BOOLEAN, Registers(works) PROVE LinkInv'
    <2>1. /\ handed < MaxRefs /\ handed' = handed + 1 /\ publish' = handed + 1
          /\ refs' = (refs \ {publish}) \cup {handed + 1} /\ browse' = browse /\ resolver' = resolver
          /\ link' = link
      BY <1>0, <1>1 DEF LinkInv, LinkTyped, NoRef, Registers, Hands, Fresh, Listened
    <2>2. LinkTyped'
      <3>1. server' \in [socket : {"none", "open", "closed"}, listens : BOOLEAN, claims : BOOLEAN]
        BY <1>0, <1>1, <2>1 DEF LinkInv, LinkTyped, NoRef, Registers, Hands, Fresh, Listened
      <3> QED BY <1>0, <1>1, <2>1, <3>1 DEF LinkInv, LinkTyped, NoRef
    <2>3. LinkApart'
      BY <1>0, <1>1, <2>1 DEF LinkInv, LinkTyped, LinkApart, Apart, NoRef
    <2>4. LinkHeld'
      BY <1>0, <1>1, <2>1 DEF LinkInv, LinkTyped, LinkApart, LinkHeld, Apart, NoRef
    <2> QED BY <2>2, <2>3, <2>4 DEF LinkInv
  <1>2. ASSUME NEW works \in BOOLEAN, Resolves(works) PROVE LinkInv'
    <2>1. /\ handed < MaxRefs /\ handed' = handed + 1 /\ publish' = publish /\ browse' = browse
          /\ link' = link /\ server' = server /\ resolver'.q = resolver.q
          /\ \/ /\ resolver'.r = handed + 1 /\ resolver'.current = handed + 1
                /\ refs' = refs \cup {handed + 1}
             \/ resolver'.r = 0 /\ resolver'.current = resolver.current /\ refs' = refs
      BY <1>0, <1>2 DEF LinkInv, LinkTyped, NoRef, Resolves, Hands, Fresh
    <2>2. LinkTyped'
      <3>1. resolver' \in [r : 0..MaxRefs, q : 0..MaxRefs, current : 0..MaxRefs]
        <4>1. handed + 1 \in 0..MaxRefs /\ 0 \in 0..MaxRefs
          BY <1>0, <2>1 DEF LinkInv, LinkTyped
        <4>2. \/ resolver' = [resolver EXCEPT !.r = handed + 1, !.current = handed + 1]
              \/ resolver' = [resolver EXCEPT !.r = 0]
          BY <1>2 DEF Resolves, Fresh, NoRef
        <4> QED BY <4>1, <4>2 DEF LinkInv, LinkTyped
      <3>2. refs \subseteq 1..MaxRefs /\ handed \in 0..MaxRefs /\ publish \in 0..MaxRefs
        BY DEF LinkInv, LinkTyped
      <3>3. refs' \subseteq 1..MaxRefs /\ handed' \in 0..MaxRefs /\ publish' \in 0..MaxRefs
        <4>1. handed + 1 \in 1..MaxRefs /\ handed' = handed + 1 /\ publish' = publish
          BY <1>0, <2>1, <3>2
        <4>2. refs' \subseteq refs \cup {handed + 1}
          BY <2>1
        <4>3. handed + 1 \in 0..MaxRefs
          BY <1>0, <4>1
        <4> QED BY <3>2, <4>1, <4>2, <4>3
      <3> QED BY <2>1, <3>1, <3>3 DEF LinkInv, LinkTyped
    <2>3. LinkApart'
      BY <1>0, <1>2, <2>1 DEF LinkInv, LinkTyped, LinkApart, Apart, NoRef
    <2>4. LinkHeld'
      BY <1>0, <1>2, <2>1 DEF LinkInv, LinkTyped, LinkApart, LinkHeld, Apart, NoRef
    <2> QED BY <2>2, <2>3, <2>4 DEF LinkInv
  <1>3. ASSUME NEW works \in BOOLEAN, Queries(works) PROVE LinkInv'
    <2>1. /\ handed < MaxRefs /\ handed' = handed + 1 /\ publish' = publish /\ browse' = browse
          /\ link' = link /\ server' = server /\ resolver'.r = resolver.r
          /\ \/ /\ resolver'.q = handed + 1 /\ resolver'.current = handed + 1
                /\ refs' = refs \cup {handed + 1}
             \/ resolver'.q = 0 /\ resolver'.current = resolver.current /\ refs' = refs
      BY <1>0, <1>3 DEF LinkInv, LinkTyped, NoRef, Queries, Hands, Fresh
    <2>2. LinkTyped'
      <3>1. resolver' \in [r : 0..MaxRefs, q : 0..MaxRefs, current : 0..MaxRefs]
        <4>1. handed + 1 \in 0..MaxRefs /\ 0 \in 0..MaxRefs
          BY <1>0, <2>1 DEF LinkInv, LinkTyped
        <4>2. \/ resolver' = [resolver EXCEPT !.q = handed + 1, !.current = handed + 1]
              \/ resolver' = [resolver EXCEPT !.q = 0]
          BY <1>3 DEF Queries, Fresh, NoRef
        <4> QED BY <4>1, <4>2 DEF LinkInv, LinkTyped
      <3>2. refs \subseteq 1..MaxRefs /\ handed \in 0..MaxRefs /\ publish \in 0..MaxRefs
        BY DEF LinkInv, LinkTyped
      <3>3. refs' \subseteq 1..MaxRefs /\ handed' \in 0..MaxRefs /\ publish' \in 0..MaxRefs
        <4>1. handed + 1 \in 1..MaxRefs /\ handed' = handed + 1 /\ publish' = publish
          BY <1>0, <2>1, <3>2
        <4>2. refs' \subseteq refs \cup {handed + 1}
          BY <2>1
        <4>3. handed + 1 \in 0..MaxRefs
          BY <1>0, <4>1
        <4> QED BY <3>2, <4>1, <4>2, <4>3
      <3> QED BY <2>1, <3>1, <3>3 DEF LinkInv, LinkTyped
    <2>3. LinkApart'
      BY <1>0, <1>3, <2>1 DEF LinkInv, LinkTyped, LinkApart, Apart, NoRef
    <2>4. LinkHeld'
      BY <1>0, <1>3, <2>1 DEF LinkInv, LinkTyped, LinkApart, LinkHeld, Apart, NoRef
    <2> QED BY <2>2, <2>3, <2>4 DEF LinkInv
  <1>4. ASSUME NEW works \in BOOLEAN, Reaches(works) PROVE LinkInv'
    <2>1. /\ handed' = handed /\ publish' = publish /\ browse' = browse /\ server' = server
          /\ resolver.current = resolver.q /\ resolver'.r = 0
          /\ \/ /\ resolver'.q = 0 /\ resolver'.current = 0
                /\ refs' = refs \ {resolver.r, resolver.q}
             \/ /\ resolver'.q = resolver.q /\ resolver'.current = resolver.current
                /\ refs' = refs \ {resolver.r}
      BY <1>0, <1>4 DEF LinkInv, LinkTyped, NoRef, Reaches, Resolved
    <2>2. LinkTyped'
      <3>1. resolver' \in [r : 0..MaxRefs, q : 0..MaxRefs, current : 0..MaxRefs]
        <4>1. 0 \in 0..MaxRefs
          BY <1>0
        <4>2. \/ resolver' = [resolver EXCEPT !.r = 0, !.q = 0, !.current = 0]
              \/ resolver' = [resolver EXCEPT !.r = 0]
          BY <1>4 DEF Reaches, Resolved, NoRef
        <4> QED BY <4>1, <4>2 DEF LinkInv, LinkTyped
      <3>2. link' = link \/ link' = [up |-> TRUE, header |-> TRUE]
        BY <1>4 DEF Reaches
      <3>3. link' \in [up : BOOLEAN, header : BOOLEAN]
        <4>1. [up |-> TRUE, header |-> TRUE] \in [up : BOOLEAN, header : BOOLEAN]
          OBVIOUS
        <4> QED BY <3>2, <4>1 DEF LinkInv, LinkTyped
      <3> QED BY <1>0, <2>1, <3>1, <3>3 DEF LinkInv, LinkTyped, NoRef
    <2>3. LinkApart'
      BY <1>0, <1>4, <2>1 DEF LinkInv, LinkTyped, LinkApart, Apart, NoRef
    <2>4. LinkHeld'
      BY <1>0, <1>4, <2>1 DEF LinkInv, LinkTyped, LinkApart, LinkHeld, Apart, NoRef
    <2> QED BY <2>2, <2>3, <2>4 DEF LinkInv
  <1>5. CASE Deregisters
    <2>1. /\ handed' = handed /\ publish' = 0 /\ browse' = browse /\ server' = server
          /\ resolver' = resolver /\ link' = link /\ refs' = refs \ {publish}
      BY <1>0, <1>5 DEF LinkInv, LinkTyped, NoRef, Deregisters
    <2>2. LinkTyped'
      BY <1>0, <1>5, <2>1 DEF LinkInv, LinkTyped, NoRef, Deregisters
    <2>3. LinkApart'
      BY <1>0, <1>5, <2>1 DEF LinkInv, LinkTyped, LinkApart, Apart, NoRef
    <2>4. LinkHeld'
      BY <1>0, <1>5, <2>1 DEF LinkInv, LinkTyped, LinkApart, LinkHeld, Apart, NoRef
    <2> QED BY <2>2, <2>3, <2>4 DEF LinkInv
  <1>6. CASE StartsBrowsing
    <2>1. /\ handed < MaxRefs /\ handed' = handed + 1 /\ publish' = publish /\ server' = server
          /\ resolver' = resolver /\ link' = link /\ browse'.ref = handed + 1
          /\ refs' = (refs \ {browse.ref}) \cup {handed + 1}
      BY <1>0, <1>6 DEF LinkInv, LinkTyped, NoRef, StartsBrowsing, Hands, Fresh
    <2>2. LinkTyped'
      <3>1. browse' \in [ref : 0..MaxRefs, found : SUBSET Services, reported : SUBSET Services]
        <4>1. handed + 1 \in 0..MaxRefs
          BY <1>0, <2>1 DEF LinkInv, LinkTyped
        <4>2. browse' = [browse EXCEPT !.ref = handed + 1, !.reported = {}]
          BY <1>6 DEF StartsBrowsing, Fresh
        <4> QED BY <4>1, <4>2 DEF LinkInv, LinkTyped
      <3>2. refs \subseteq 1..MaxRefs /\ handed \in 0..MaxRefs /\ publish \in 0..MaxRefs
        BY DEF LinkInv, LinkTyped
      <3>3. refs' \subseteq 1..MaxRefs /\ handed' \in 0..MaxRefs /\ publish' \in 0..MaxRefs
        <4>1. handed + 1 \in 1..MaxRefs /\ handed' = handed + 1 /\ publish' = publish
          BY <1>0, <2>1, <3>2
        <4>2. refs' \subseteq refs \cup {handed + 1}
          BY <2>1
        <4>3. handed + 1 \in 0..MaxRefs
          BY <1>0, <4>1
        <4> QED BY <3>2, <4>1, <4>2, <4>3
      <3> QED BY <2>1, <3>1, <3>3 DEF LinkInv, LinkTyped
    <2>3. LinkApart'
      BY <1>0, <1>6, <2>1 DEF LinkInv, LinkTyped, LinkApart, Apart, NoRef
    <2>4. LinkHeld'
      BY <1>0, <1>6, <2>1 DEF LinkInv, LinkTyped, LinkApart, LinkHeld, Apart, NoRef
    <2> QED BY <2>2, <2>3, <2>4 DEF LinkInv
  <1>7. CASE StopsBrowsing
    <2>1. /\ handed' = handed /\ publish' = publish /\ server' = server
          /\ resolver' = resolver /\ link' = link /\ browse'.ref = 0
          /\ refs' = refs \ {browse.ref}
      BY <1>0, <1>7 DEF LinkInv, LinkTyped, NoRef, StopsBrowsing
    <2>2. LinkTyped'
      BY <1>0, <1>7, <2>1 DEF LinkInv, LinkTyped, NoRef, StopsBrowsing
    <2>3. LinkApart'
      BY <1>0, <1>7, <2>1 DEF LinkInv, LinkTyped, LinkApart, Apart, NoRef
    <2>4. LinkHeld'
      BY <1>0, <1>7, <2>1 DEF LinkInv, LinkTyped, LinkApart, LinkHeld, Apart, NoRef
    <2> QED BY <2>2, <2>3, <2>4 DEF LinkInv
  <1>8. CASE Disconnected
    <2>1. /\ handed' = handed /\ publish' = publish /\ server' = server
          /\ resolver' = resolver /\ browse' = browse /\ refs' = refs
      BY <1>0, <1>8 DEF LinkInv, LinkTyped, NoRef, Disconnected
    <2>2. LinkTyped'
      BY <1>0, <1>8, <2>1 DEF LinkInv, LinkTyped, NoRef, Disconnected
    <2>3. LinkApart'
      BY <1>0, <1>8, <2>1 DEF LinkInv, LinkTyped, LinkApart, Apart, NoRef
    <2>4. LinkHeld'
      BY <1>0, <1>8, <2>1 DEF LinkInv, LinkTyped, LinkApart, LinkHeld, Apart, NoRef
    <2> QED BY <2>2, <2>3, <2>4 DEF LinkInv
  <1>9. ASSUME NEW service \in Services, NEW more \in BOOLEAN, Browsed(service, more)
        PROVE  LinkInv'
    <2>1. /\ handed' = handed /\ publish' = publish /\ server' = server /\ link' = link
          /\ resolver' = resolver /\ browse'.ref = browse.ref /\ refs' = refs
      BY <1>0, <1>9 DEF LinkInv, LinkTyped, NoRef, Browsed
    <2>2. LinkTyped'
      <3>1. PICK found \in SUBSET Services, reported \in SUBSET Services :
              browse' = [browse EXCEPT !.found = found, !.reported = reported]
        <4>1. /\ {} \in SUBSET Services /\ browse.found \cup {service} \in SUBSET Services
              /\ browse.reported \cup {service} \in SUBSET Services
          BY DEF LinkInv, LinkTyped
        <4> QED BY <1>9, <4>1 DEF Browsed
      <3>2. browse' \in [ref : 0..MaxRefs, found : SUBSET Services, reported : SUBSET Services]
        BY <3>1 DEF LinkInv, LinkTyped
      <3> QED BY <1>0, <2>1, <3>2 DEF LinkInv, LinkTyped, NoRef, Browsed
    <2>3. LinkApart'
      BY <1>0, <1>9, <2>1 DEF LinkInv, LinkTyped, LinkApart, Apart, NoRef
    <2>4. LinkHeld'
      BY <1>0, <1>9, <2>1 DEF LinkInv, LinkTyped, LinkApart, LinkHeld, Apart, NoRef
    <2> QED BY <2>2, <2>3, <2>4 DEF LinkInv
  <1>10. CASE UNCHANGED llVars
    BY <1>10 DEF llVars, LinkInv, LinkTyped, LinkApart, LinkHeld
  <1> QED BY <1>1, <1>2, <1>3, <1>4, <1>5, <1>6, <1>7, <1>8, <1>9, <1>10 DEF LinkLocalNext

\* If the handler stops no browsing from inside, a batch is told whole.
LEMMA BatchStep ==
  ASSUME ~StopsInside
  PROVE  LinkInv /\ Batches /\ [LinkLocalNext]_llVars => Batches'
PROOF
  <1> SUFFICES ASSUME LinkInv, Batches, [LinkLocalNext]_llVars PROVE Batches'
    OBVIOUS
  <1> USE DEF Batches, BatchesWhole, LinkInv, LinkTyped
  <1>1. ASSUME NEW works \in BOOLEAN,
               Registers(works) \/ Resolves(works) \/ Queries(works) \/ Reaches(works)
        PROVE  Batches'
    BY <1>1 DEF Registers, Resolves, Queries, Reaches
  <1>2. CASE Deregisters \/ Disconnected
    BY <1>2 DEF Deregisters, Disconnected
  <1>3. CASE StartsBrowsing
    BY <1>3 DEF StartsBrowsing
  <1>4. CASE StopsBrowsing
    BY <1>4 DEF StopsBrowsing
  <1>5. ASSUME NEW service \in Services, NEW more \in BOOLEAN, Browsed(service, more)
        PROVE  Batches'
    <2> DEFINE list == browse.found \cup {service}
               due == browse.reported \cup {service}
    <2>0. list = due
      OBVIOUS
    <2>1. CASE more
      <3>1. browse' = [browse EXCEPT !.found = list, !.reported = due] /\ listTold' = listTold
        BY <1>5, <2>1 DEF Browsed, TellsNow
      <3> HIDE DEF list, due
      <3> QED BY <2>0, <3>1
    <2>2. CASE ~more
      <3>1. /\ browse' = [browse EXCEPT !.found = {}, !.reported = {}]
            /\ listTold' = [list |-> list, due |-> due]
        BY <1>5, <2>2 DEF Browsed, TellsNow
      <3> HIDE DEF list, due
      <3> QED BY <2>0, <3>1
    <2> QED BY <2>1, <2>2
  <1>6. CASE UNCHANGED llVars
    BY <1>6 DEF llVars
  <1> QED BY <1>1, <1>2, <1>3, <1>4, <1>5, <1>6 DEF LinkLocalNext

\* Nothing is referred to at first.
LEMMA LinkBegins == LinkLocalInit => LinkInv /\ Batches
PROOF
  BY LinkLocalAssumption
     DEF LinkLocalInit, LinkInv, LinkTyped, LinkApart, LinkHeld, Apart, NoRef, Batches,
         BatchesWhole

\* What the references are for follows.
LEMMA LinkHolds == LinkInv => LinkLocalTypeOK /\ RefsHeld
PROOF
  BY DEF LinkInv, LinkTyped, LinkHeld, LinkLocalTypeOK, RefsHeld, NoRef

-----------------------------------------------------------------------------
(* IQ handlers. *)

Stanza == [sub : Answers \cup Questions, id : Ids \cup {Stray}, exts : SUBSET Types]

\* What the dispatching thread and the second thread may be doing.
Frames ==
  {Idle} \cup [step : {"found", "answer"}, iq : Stanza]
         \cup [step : {"loop", "serve"}, iq : Stanza, type : Nat, at : Nat]

Besides ==
  {Idle} \cup [step : {"ask"}, id : Ids, ih : Askers, left : {<<"track", "write">>, <<"write">>}]
         \cup [step : {"lock"}, op : {"register", "remove"}, type : Types, sv : Servants]

IqTyped ==
  /\ tracked \in [Ids -> Askers \cup {Nobody}]
  /\ servants \in [Types -> Seq(Servants)]
  /\ mutex \in {"free", "dispatcher"}
  /\ frame \in Frames /\ beside \in Besides
  /\ inbox \in Seq(Stanza)
  /\ request \in [Ids -> {"new", "sent", "answered", "done"}]
  /\ forgotten \in SUBSET Ids
  /\ called \in [Ids -> Nat]
  /\ lost \in BOOLEAN
  /\ incoming \in [came : Nat, done : Nat, answers : Nat, stray : Nat]

\* Tracked, but not written yet.
Asking(id) == beside.step = "ask" /\ beside.id = id /\ beside.left = <<"write">>

\* From the entry in the map to the end of the dispatch of the answer.
Waiting(id) == request[id] \in {"sent", "answered"} \/ Asking(id)

\* A request has an entry as long as it waits, unless it was forgotten.
Tracks(id) ==
  /\ Waiting(id) => (tracked[id] = Nobody <=> id \in forgotten)
  /\ ~Waiting(id) => tracked[id] = Nobody
  /\ request[id] = "new" /\ ~Asking(id) => id \notin forgotten
  /\ beside.step = "ask" /\ beside.id = id => request[id] = "new"

\* Its handler was called when its answer was dispatched, or is being called.
Counts(id) ==
  called[id] = IF request[id] = "done" /\ id \notin forgotten THEN 1
               ELSE IF frame.step = "answer" /\ frame.iq.id = id THEN 1 ELSE 0

\* What answers one of our requests.
Answering(iq) == IsAnswer(iq) /\ iq.id \in Ids

\* One answer is on its way to a request that was sent, or is being dispatched.
OneAnswer ==
  /\ \A i \in DOMAIN inbox : Answering(inbox[i]) =>
       /\ request[inbox[i].id] = "answered"
       /\ inbox[i].exts = {}
       /\ inbox[i].id \notin InUse
       /\ \A j \in DOMAIN inbox : Answering(inbox[j]) /\ inbox[j].id = inbox[i].id => j = i
  /\ frame.step \in {"found", "answer"} =>
       /\ Answering(frame.iq) /\ request[frame.iq.id] = "answered"
       /\ tracked[frame.iq.id] # Nobody
  /\ frame.step \in {"loop", "serve"} => ~Answering(frame.iq)

\* The mutex is held exactly by the dispatch of a request.
Locked == mutex = "dispatcher" <=> frame.step \in {"loop", "serve"}

IqInvariant ==
  /\ IqTyped /\ OneAnswer /\ Locked /\ EntriesHold /\ RequestsAnswered
  /\ \A id \in Ids : Tracks(id) /\ Counts(id)

-----------------------------------------------------------------------------
\* What is received first.
LEMMA InboxHead ==
  ASSUME inbox \in Seq(Stanza), inbox # <<>>
  PROVE  /\ Head1 \in Stanza /\ Head1 = inbox[1] /\ 1 \in DOMAIN inbox
         /\ Tail(inbox) \in Seq(Stanza)
         /\ \A i \in DOMAIN Tail(inbox) : i + 1 \in DOMAIN inbox /\ i \in Nat /\ i >= 1 /\ Tail(inbox)[i] = inbox[i + 1]
PROOF
  BY DEF Head1

\* What is received last.
LEMMA InboxMore ==
  ASSUME inbox \in Seq(Stanza), NEW iq \in Stanza
  PROVE  LET more == Append(inbox, iq)
         IN /\ more \in Seq(Stanza) /\ Len(inbox) \in Nat
            /\ DOMAIN inbox = 1..Len(inbox) /\ DOMAIN more = 1..(Len(inbox) + 1)
            /\ more[Len(inbox) + 1] = iq
            /\ \A i \in DOMAIN inbox : more[i] = inbox[i]
PROOF
  OBVIOUS

\* The lists of handlers hold handlers.
LEMMA ListsKept ==
  ASSUME servants \in [Types -> Seq(Servants)], NEW t \in Types, NEW sv \in Servants
  PROVE  /\ Registered(t, sv) => servants' \in [Types -> Seq(Servants)]
         /\ Removed(t, sv) => servants' \in [Types -> Seq(Servants)]
PROOF
  <1>1. /\ Append(servants[t], sv) \in Seq(Servants)
        /\ servants[t] \in Seq(Servants)
    OBVIOUS
  <1>2. Without(servants[t], sv) \in Seq(Servants)
    <2>1. CASE sv \in Range(servants[t])
      <3> DEFINE i == CHOOSE j \in DOMAIN servants[t] : servants[t][j] = sv
      <3>1. i \in 1..Len(servants[t])
        BY <1>1, <2>1 DEF Range
      <3>2. RemoveAt(servants[t], i) \in Seq(Servants)
        <4> HIDE DEF i
        <4> QED BY <1>1, <3>1 DEF RemoveAt
      <3> QED BY <2>1, <3>2 DEF Without
    <2>2. CASE sv \notin Range(servants[t])
      BY <1>1, <2>2 DEF Without
    <2> QED BY <2>1, <2>2
  <1> QED BY <1>1, <1>2 DEF Registered, Removed

\* What the dispatching thread is doing, by its step.
LEMMA FrameIs ==
  ASSUME frame \in Frames
  PROVE  \/ frame = Idle /\ frame.step = "idle"
         \/ /\ frame.step \in {"found", "answer"} /\ frame.iq \in Stanza
            /\ frame = [step |-> frame.step, iq |-> frame.iq]
         \/ /\ frame.step \in {"loop", "serve"} /\ frame.iq \in Stanza
            /\ frame.type \in Nat /\ frame.at \in Nat
            /\ frame = [step |-> frame.step, iq |-> frame.iq, type |-> frame.type, at |-> frame.at]
PROOF
  BY DEF Frames, Idle

\* What the second thread is doing, by its step.
LEMMA BesideIs ==
  ASSUME beside \in Besides
  PROVE  \/ beside = Idle /\ beside.step = "idle"
         \/ /\ beside.step = "ask" /\ beside.id \in Ids /\ beside.ih \in Askers
            /\ beside.left \in {<<"track", "write">>, <<"write">>}
            /\ beside = [step |-> "ask", id |-> beside.id, ih |-> beside.ih, left |-> beside.left]
         \/ /\ beside.step = "lock" /\ beside.op \in {"register", "remove"}
            /\ beside.type \in Types /\ beside.sv \in Servants
PROOF
  BY DEF Besides, Idle

\* A request asked by the dispatching thread is tracked and sent in one step.
LEMMA AskKeeps ==
  ASSUME IqInvariant, NEW id \in Ids, NEW ih \in Askers, Ask(id, ih)
  PROVE  IqInvariant'
PROOF
  <1>0. Nobody \notin Askers
    BY IqAssumption DEF Nobody
  <1>1. /\ tracked' = [tracked EXCEPT ![id] = ih] /\ request' = [request EXCEPT ![id] = "sent"]
        /\ request[id] = "new" /\ tracked[id] = Nobody
        /\ beside.step = "ask" => beside.id # id
        /\ UNCHANGED <<servants, mutex, frame, beside, inbox, forgotten, called, incoming, lost>>
    BY DEF Ask, Unused
  <1>2. IqTyped'
    BY <1>1 DEF IqInvariant, IqTyped
  <1>3. OneAnswer'
    BY <1>0, <1>1 DEF IqInvariant, IqTyped, OneAnswer, Answering, IsAnswer, InUse
  <1>4. Locked' /\ EntriesHold' /\ RequestsAnswered'
    BY <1>1 DEF IqInvariant, Locked, EntriesHold, RequestsAnswered
  <1>5. ASSUME NEW x \in Ids PROVE Tracks(x)' /\ Counts(x)'
    <2>1. Tracks(x)'
      <3>1. CASE x = id
        BY <1>0, <1>1, <3>1 DEF IqInvariant, IqTyped, Tracks, Waiting, Asking
      <3>2. CASE x # id
        BY <1>1, <3>2 DEF IqInvariant, IqTyped, Tracks, Waiting, Asking
      <3> QED BY <3>1, <3>2
    <2>2. Counts(x)'
      <3>1. CASE x = id
        BY <1>1, <3>1 DEF IqInvariant, IqTyped, Counts, OneAnswer
      <3>2. CASE x # id
        BY <1>1, <3>2 DEF IqInvariant, IqTyped, Counts
      <3> QED BY <3>1, <3>2
    <2> QED BY <2>1, <2>2
  <1> QED BY <1>2, <1>3, <1>4, <1>5 DEF IqInvariant

\* The second thread begins to ask.
LEMMA AskBesideKeeps ==
  ASSUME IqInvariant, NEW id \in Ids, NEW ih \in Askers, AskBeside(id, ih)
  PROVE  IqInvariant'
PROOF
  <1>1. /\ beside = Idle /\ beside' = [step |-> "ask", id |-> id, ih |-> ih, left |-> <<"track", "write">>]
        /\ request[id] = "new" /\ tracked[id] = Nobody
        /\ UNCHANGED <<tracked, servants, mutex, frame, inbox, request, forgotten, called, incoming, lost>>
    BY DEF AskBeside, Unused, AskSteps
  <1>2. IqTyped'
    <2>1. beside' \in Besides
      BY <1>1 DEF Besides
    <2> QED BY <1>1, <2>1 DEF IqInvariant, IqTyped
  <1>3. OneAnswer' /\ Locked' /\ EntriesHold' /\ RequestsAnswered'
    BY <1>1
     DEF IqInvariant, OneAnswer, Answering, IsAnswer, InUse, Locked, EntriesHold, RequestsAnswered
  <1>4. ASSUME NEW x \in Ids PROVE Tracks(x)' /\ Counts(x)'
    <2>0. /\ beside.step = "idle" /\ beside'.step = "ask" /\ beside'.id = id
          /\ beside'.left = <<"track", "write">> /\ <<"track", "write">> # <<"write">>
      <3>1. Len(<<"track", "write">>) = 2 /\ Len(<<"write">>) = 1
        OBVIOUS
      <3> QED BY <1>1, <3>1 DEF Idle
    <2>1. ~Asking(x) /\ ~Asking(x)'
      BY <2>0 DEF Asking
    <2>2. Tracks(x)'
      BY <1>1, <2>0, <2>1 DEF IqInvariant, IqTyped, Tracks, Waiting
    <2>3. Counts(x)'
      BY <1>1 DEF IqInvariant, Counts
    <2> QED BY <2>2, <2>3
  <1> QED BY <1>2, <1>3, <1>4 DEF IqInvariant

\* It tracks the request, then sends it.
LEMMA GoOnAskingKeeps ==
  ASSUME IqInvariant, GoOnAsking
  PROVE  IqInvariant'
PROOF
  <1>a. beside.step = "ask" /\ beside.id \in Ids /\ beside.ih \in Askers
    BY BesideIs DEF IqInvariant, IqTyped, GoOnAsking
  <1>b. PICK id \in Ids : id = beside.id
    BY <1>a
  <1>c. PICK ih \in Askers : ih = beside.ih
    BY <1>a
  <1>0. Nobody \notin Askers
    BY IqAssumption DEF Nobody
  <1>1. /\ beside.step = "ask" /\ id \in Ids /\ ih \in Askers
        /\ beside = [step |-> "ask", id |-> id, ih |-> ih, left |-> beside.left]
        /\ request[id] = "new"
        /\ UNCHANGED <<servants, mutex, frame, inbox, forgotten, called, incoming, lost>>
    BY <1>a, <1>b, <1>c, BesideIs DEF IqInvariant, IqTyped, GoOnAsking, Tracks
  <1>2. CASE beside.left = <<"track", "write">>
    <2>1. /\ tracked' = [tracked EXCEPT ![id] = ih] /\ request' = request
          /\ beside' = [step |-> "ask", id |-> id, ih |-> ih, left |-> <<"write">>]
      <3>1. /\ Head(<<"track", "write">>) = "track" /\ Len(<<"track", "write">>) = 2
            /\ Tail(<<"track", "write">>) = <<"write">>
        OBVIOUS
      <3>2. beside' = [beside EXCEPT !.left = <<"write">>]
        BY <1>2, <3>1 DEF GoOnAsking
      <3> QED BY <1>1, <1>2, <3>1, <3>2, <1>b, <1>c DEF GoOnAsking, DoStep
    <2>2. Asking(id)' /\ ~Asking(id) /\ beside'.id = id
      <3>1. <<"track", "write">> # <<"write">>
        <4>1. Len(<<"track", "write">>) = 2 /\ Len(<<"write">>) = 1
          OBVIOUS
        <4> QED BY <4>1
      <3> QED BY <1>1, <1>2, <2>1, <3>1 DEF Asking
    <2>3. IqTyped'
      <3>1. beside' \in Besides
        BY <1>1, <2>1 DEF Besides
      <3> QED BY <1>1, <2>1, <3>1 DEF IqInvariant, IqTyped
    <2>4. OneAnswer'
      BY <1>0, <1>1, <2>1 DEF IqInvariant, IqTyped, OneAnswer, Answering, IsAnswer, InUse
    <2>5. Locked' /\ EntriesHold' /\ RequestsAnswered'
      BY <1>1 DEF IqInvariant, Locked, EntriesHold, RequestsAnswered
    <2>6. ASSUME NEW x \in Ids PROVE Tracks(x)' /\ Counts(x)'
      <3>1. Tracks(x)'
        <4>1. CASE x = id
          <5>1. tracked'[id] = ih /\ request'[id] = "new" /\ ih # Nobody
            BY <1>0, <1>1, <2>1 DEF IqInvariant, IqTyped
          <5>2. id \notin forgotten
            BY <1>1, <2>2 DEF IqInvariant, Tracks
          <5>3. Tracks(id)'
            BY <1>1, <2>2, <5>1, <5>2 DEF Tracks, Waiting
          <5> QED BY <4>1, <5>3
        <4>2. CASE x # id
          <5>1. ~Asking(x) /\ ~Asking(x)'
            BY <1>b, <2>2, <4>2 DEF Asking
          <5>2. tracked'[x] = tracked[x] /\ request'[x] = request[x]
            BY <2>1, <4>2
          <5>3. Tracks(x)
            BY DEF IqInvariant
          <5> QED BY <1>1, <2>2, <4>2, <5>1, <5>2, <5>3 DEF Tracks, Waiting
        <4> QED BY <4>1, <4>2
      <3>2. Counts(x)'
        BY <1>1, <2>1 DEF IqInvariant, Counts
      <3> QED BY <3>1, <3>2
    <2> QED BY <2>3, <2>4, <2>5, <2>6 DEF IqInvariant
  <1>3. CASE beside.left = <<"write">>
    <2>1. /\ tracked' = tracked /\ request' = [request EXCEPT ![id] = "sent"] /\ beside' = Idle
      <3>1. Head(<<"write">>) = "write" /\ Len(<<"write">>) = 1
        OBVIOUS
      <3> QED BY <1>b, <1>c, <1>1, <1>3, <3>1 DEF GoOnAsking, DoStep
    <2>2. Asking(id) /\ beside'.step = "idle"
      BY <1>b, <1>1, <1>3, <2>1 DEF Asking, Idle
    <2>3. IqTyped'
      <3>1. beside' \in Besides
        BY <2>1 DEF Besides
      <3> QED BY <1>1, <2>1, <3>1 DEF IqInvariant, IqTyped
    <2>4. ASSUME NEW x \in Ids, x # id PROVE ~Asking(x)
      BY <1>b, <2>4 DEF Asking
    <2>5. OneAnswer'
      BY <1>1, <2>1 DEF IqInvariant, IqTyped, OneAnswer, Answering, IsAnswer, InUse
    <2>6. Locked' /\ EntriesHold' /\ RequestsAnswered'
      BY <1>1 DEF IqInvariant, Locked, EntriesHold, RequestsAnswered
    <2>7. ASSUME NEW x \in Ids PROVE Tracks(x)' /\ Counts(x)'
      <3>0. ~Asking(x)'
        BY <2>2 DEF Asking
      <3>1. CASE x = id
        <4>1. Tracks(x)'
          BY <1>1, <2>1, <2>2, <3>0, <3>1 DEF IqInvariant, IqTyped, Tracks, Waiting
        <4>2. Counts(x)'
          BY <1>1, <2>1, <3>1 DEF IqInvariant, IqTyped, Counts
        <4> QED BY <4>1, <4>2
      <3>2. CASE x # id
        <4>1. Tracks(x)'
          <5>1. tracked'[x] = tracked[x] /\ request'[x] = request[x] /\ ~Asking(x)
            BY <1>1, <2>1, <2>4, <3>2 DEF IqInvariant, IqTyped
          <5>2. Tracks(x)
            BY DEF IqInvariant
          <5> QED BY <1>1, <2>2, <3>0, <5>1, <5>2 DEF Tracks, Waiting
        <4>2. Counts(x)'
          BY <1>1, <2>1, <3>2 DEF IqInvariant, IqTyped, Counts
        <4> QED BY <4>1, <4>2
      <3> QED BY <3>1, <3>2
    <2> QED BY <2>3, <2>5, <2>6, <2>7 DEF IqInvariant
  <1> QED BY <1>1, <1>2, <1>3, BesideIs DEF IqInvariant, IqTyped

\* Handlers that are not being called forget their requests.
LEMMA ForgetKeeps ==
  ASSUME IqInvariant, ~ForgetsInside, NEW ih \in Askers, ForgetHere(ih)
  PROVE  IqInvariant'
PROOF
  <1>0. Nobody \notin Askers
    BY IqAssumption DEF Nobody
  <1>1. /\ tracked' = [x \in Ids |-> IF tracked[x] = ih THEN Nobody ELSE tracked[x]]
        /\ forgotten' = forgotten \cup WaitingFor(ih) /\ InUse \cap WaitingFor(ih) = {}
        /\ UNCHANGED <<servants, mutex, frame, beside, inbox, request, called, incoming>>
    BY DEF ForgetHere, Forget
  <1>2. lost' = lost
    <2>1. lost = FALSE
      BY DEF IqInvariant, IqTyped, EntriesHold
    <2>2. lost' = (lost \/ FALSE)
      BY <1>1 DEF ForgetHere, Forget
    <2> QED BY <2>1, <2>2
  <1>3. IqTyped'
    BY <1>1, <1>2 DEF IqInvariant, IqTyped, WaitingFor
  <1>4. OneAnswer'
    BY <1>1 DEF IqInvariant, IqTyped, OneAnswer, Answering, IsAnswer, InUse, WaitingFor
  <1>5. Locked' /\ EntriesHold' /\ RequestsAnswered'
    BY <1>1, <1>2 DEF IqInvariant, Locked, EntriesHold, RequestsAnswered
  <1>6. ASSUME NEW x \in Ids PROVE Tracks(x)' /\ Counts(x)'
    <2>1. Tracks(x) /\ Counts(x) /\ (Waiting(x)' <=> Waiting(x)) /\ (Asking(x)' <=> Asking(x))
      BY <1>1 DEF IqInvariant, Waiting, Asking
    <2>2. CASE tracked[x] = ih
      <3>1. tracked'[x] = Nobody /\ x \in forgotten' /\ Waiting(x)
        BY <1>0, <1>1, <2>1, <2>2 DEF WaitingFor, Tracks
      <3>2. request[x] # "done"
        BY <1>0, <1>1, <2>1, <2>2, <3>1 DEF Tracks, Waiting, Asking
      <3>3. request[x] = "new" => Asking(x)
        BY <3>1 DEF Waiting
      <3> QED BY <1>1, <2>1, <3>1, <3>2, <3>3 DEF Tracks, Counts
    <2>3. CASE tracked[x] # ih
      <3>1. tracked'[x] = tracked[x] /\ (x \in forgotten' <=> x \in forgotten)
        BY <1>1, <2>3 DEF WaitingFor
      <3> QED BY <1>1, <2>1, <3>1 DEF Tracks, Counts
    <2> QED BY <2>2, <2>3
  <1> QED BY <1>3, <1>4, <1>5, <1>6 DEF IqInvariant

\* What the lists of handlers have to do with the rest.
LEMMA ListsApart ==
  ASSUME IqInvariant, IqTyped', beside' = beside \/ (beside.step # "ask" /\ beside'.step # "ask"),
         UNCHANGED <<tracked, mutex, frame, inbox, request, forgotten, called, incoming, lost>>
  PROVE  IqInvariant'
PROOF
  <1>1. OneAnswer' /\ Locked' /\ EntriesHold' /\ RequestsAnswered'
    BY
     DEF IqInvariant, OneAnswer, Answering, IsAnswer, InUse, Locked, EntriesHold, RequestsAnswered
  <1>2. ASSUME NEW x \in Ids PROVE Tracks(x)' /\ Counts(x)'
    <2>1. Tracks(x)'
      BY DEF IqInvariant, Tracks, Waiting, Asking
    <2>2. Counts(x)'
      BY DEF IqInvariant, Counts
    <2> QED BY <2>1, <2>2
  <1> QED BY <1>1, <1>2 DEF IqInvariant

\* Handlers are registered and removed.
LEMMA ListStepsKeep ==
  ASSUME IqInvariant, NEW t \in Types, NEW sv \in Servants, NEW op \in {"register", "remove"},
         RegisterHere(t, sv) \/ RemoveHere(t, sv) \/ ChangeBeside(op, t, sv)
  PROVE  IqInvariant'
PROOF
  <1>1. CASE RegisterHere(t, sv)
    <2>1. IqTyped'
      BY <1>1, ListsKept DEF RegisterHere, IqInvariant, IqTyped
    <2> QED BY <1>1, <2>1, ListsApart DEF RegisterHere
  <1>2. CASE RemoveHere(t, sv)
    <2>2. lost' = lost
      <3>1. lost = FALSE
        BY DEF IqInvariant, IqTyped, EntriesHold
      <3>2. Held = {}
        BY <1>2 DEF RemoveHere, Held, Idle
      <3>3. lost' = (lost \/ FALSE)
        BY <1>2, <3>2 DEF RemoveHere, Removed
      <3> QED BY <3>1, <3>3
    <2>1. IqTyped'
      BY <1>2, <2>2, ListsKept DEF RemoveHere, IqInvariant, IqTyped
    <2> QED BY <1>2, <2>1, <2>2, ListsApart DEF RemoveHere
  <1>3. CASE ChangeBeside(op, t, sv)
    <2>1. /\ beside' = [step |-> "lock", op |-> op, type |-> t, sv |-> sv] /\ beside = Idle
          /\ UNCHANGED <<tracked, servants, mutex, frame, inbox, request, forgotten,
                 called, incoming, lost>>
      BY <1>3 DEF ChangeBeside
    <2>2. beside' \in Besides /\ beside'.step # "ask" /\ beside.step # "ask"
      BY <2>1 DEF Besides, Idle
    <2>3. IqTyped'
      BY <2>1, <2>2 DEF IqInvariant, IqTyped
    <2> QED BY <2>1, <2>2, <2>3, ListsApart
  <1> QED BY <1>1, <1>2, <1>3

\* The second thread changes a list when nobody is being served.
LEMMA LockBesideKeeps ==
  ASSUME IqInvariant, LockBeside
  PROVE  IqInvariant'
PROOF
  <1>1. /\ beside.step = "lock" /\ mutex = "free" /\ beside' = Idle
        /\ beside.type \in Types /\ beside.sv \in Servants
        /\ UNCHANGED <<tracked, mutex, frame, inbox, request, forgotten, called, incoming>>
    BY BesideIs DEF IqInvariant, IqTyped, LockBeside
  <1>2. servants' \in [Types -> Seq(Servants)]
    <2>1. Registered(beside.type, beside.sv) \/ Removed(beside.type, beside.sv)
      BY DEF LockBeside
    <2> QED BY <1>1, <2>1, ListsKept DEF IqInvariant, IqTyped
  <1>3. lost' = lost
    <2>1. Held = {}
      BY <1>1 DEF IqInvariant, Locked, Held
    <2>2. lost = FALSE
      BY DEF IqInvariant, IqTyped, EntriesHold
    <2>3. lost' = lost \/ lost' = (lost \/ FALSE)
      BY <2>1 DEF LockBeside, Removed
    <2> QED BY <2>2, <2>3
  <1>4. beside' \in Besides /\ beside'.step # "ask" /\ beside.step # "ask"
    BY <1>1 DEF Besides, Idle
  <1>5. IqTyped'
    BY <1>1, <1>2, <1>3, <1>4 DEF IqInvariant, IqTyped
  <1> QED BY <1>1, <1>3, <1>4, <1>5, ListsApart

\* The answer of a request that was sent arrives, once.
LEMMA AnswerKeeps ==
  ASSUME IqInvariant, NEW id \in Ids, NEW sub \in Answers, AnswerArrives(id, sub)
  PROVE  IqInvariant'
PROOF
  <1> DEFINE iq == [sub |-> sub, id |-> id, exts |-> {}]
  <1>1. /\ request[id] = "sent" /\ inbox' = Append(inbox, iq)
        /\ request' = [request EXCEPT ![id] = "answered"]
        /\ UNCHANGED <<tracked, servants, mutex, frame, beside, forgotten, called, incoming, lost>>
    BY DEF AnswerArrives
  <1>2. iq \in Stanza /\ iq.id = id /\ iq.exts = {}
    BY DEF Stanza
  <1> HIDE DEF iq
  <1>3. /\ inbox' \in Seq(Stanza) /\ Len(inbox) \in Nat
        /\ DOMAIN inbox = 1..Len(inbox) /\ DOMAIN inbox' = 1..(Len(inbox) + 1)
        /\ inbox'[Len(inbox) + 1] = iq
        /\ \A i \in DOMAIN inbox : inbox'[i] = inbox[i]
    BY <1>1, <1>2, InboxMore DEF IqInvariant, IqTyped
  <1>4. IqTyped'
    BY <1>1, <1>3 DEF IqInvariant, IqTyped
  <1>5. /\ InUse' = InUse /\ id \notin InUse
        /\ \A i \in DOMAIN inbox : Answering(inbox[i]) => inbox[i].id # id
    BY <1>1 DEF IqInvariant, OneAnswer, InUse
  <1>6. OneAnswer'
    <2>1. ASSUME NEW i \in DOMAIN inbox', Answering(inbox'[i])
          PROVE  /\ request'[inbox'[i].id] = "answered"
                 /\ inbox'[i].exts = {}
                 /\ inbox'[i].id \notin InUse'
                 /\ \A j \in DOMAIN inbox' : Answering(inbox'[j]) /\ inbox'[j].id = inbox'[i].id => j = i
      <3>1. CASE i \in DOMAIN inbox
        <4>1. inbox'[i] = inbox[i] /\ inbox[i].id # id /\ inbox[i].id \in Ids
          BY <1>3, <1>5, <2>1, <3>1 DEF Answering
        <4>2. /\ request[inbox[i].id] = "answered" /\ inbox[i].exts = {} /\ inbox[i].id \notin InUse
              /\ \A j \in DOMAIN inbox : Answering(inbox[j]) /\ inbox[j].id = inbox[i].id => j = i
          BY <2>1, <3>1, <4>1 DEF IqInvariant, OneAnswer
        <4>3. \A j \in DOMAIN inbox' : j \in DOMAIN inbox \/ j = Len(inbox) + 1
          BY <1>3
        <4> QED BY <1>1, <1>2, <1>3, <1>5, <4>1, <4>2, <4>3
      <3>2. CASE i \notin DOMAIN inbox
        <4>1. i = Len(inbox) + 1 /\ inbox'[i] = iq
          BY <1>3, <3>2
        <4>2. ASSUME NEW j \in DOMAIN inbox', Answering(inbox'[j]), inbox'[j].id = id PROVE j = i
          BY <1>3, <1>5, <4>1, <4>2
        <4> QED BY <1>1, <1>2, <1>5, <4>1, <4>2 DEF IqInvariant, IqTyped
      <3> QED BY <3>1, <3>2
    <2>2. frame'.step \in {"found", "answer"} =>
             Answering(frame'.iq) /\ request'[frame'.iq.id] = "answered" /\ tracked'[frame'.iq.id] # Nobody
      BY <1>1 DEF IqInvariant, IqTyped, OneAnswer, Answering
    <2>3. frame'.step \in {"loop", "serve"} => ~Answering(frame'.iq)
      BY <1>1 DEF IqInvariant, OneAnswer
    <2> QED BY <2>1, <2>2, <2>3 DEF OneAnswer, Answering, IsAnswer
  <1>7. Locked' /\ EntriesHold' /\ RequestsAnswered'
    BY <1>1 DEF IqInvariant, Locked, EntriesHold, RequestsAnswered
  <1>8. ASSUME NEW x \in Ids PROVE Tracks(x)' /\ Counts(x)'
    <2>1. /\ tracked'[x] = tracked[x] /\ Tracks(x) /\ Counts(x) /\ (Asking(x)' <=> Asking(x))
          /\ request[x] # "sent" => request'[x] = request[x]
          /\ request[x] = "sent" => request'[x] \in {"sent", "answered"}
      BY <1>1 DEF IqInvariant, IqTyped, Asking
    <2> QED BY <1>1, <2>1 DEF Tracks, Counts, Waiting
  <1> QED BY <1>4, <1>6, <1>7, <1>8 DEF IqInvariant

\* A request of another arrives, or a result that answers nothing.
LEMMA RequestKeeps ==
  ASSUME IqInvariant, NEW sub \in Answers \cup Questions, NEW id \in Ids \cup {Stray},
         NEW exts \in SUBSET Types, RequestArrives(sub, id, exts)
  PROVE  IqInvariant'
PROOF
  <1> DEFINE iq == [sub |-> sub, id |-> id, exts |-> exts]
  <1>1. /\ (sub \in Answers <=> id = Stray) /\ inbox' = Append(inbox, iq)
        /\ incoming' = [incoming EXCEPT !.came = @ + 1]
        /\ UNCHANGED <<tracked, servants, mutex, frame, beside, request, forgotten, called, lost>>
    BY DEF RequestArrives
  <1>2. iq \in Stanza /\ ~Answering(iq)
    BY <1>1, IqAssumption DEF Stanza, Answering, IsAnswer, Stray
  <1> HIDE DEF iq
  <1>3. /\ inbox' \in Seq(Stanza) /\ Len(inbox) \in Nat
        /\ DOMAIN inbox = 1..Len(inbox) /\ DOMAIN inbox' = 1..(Len(inbox) + 1)
        /\ inbox'[Len(inbox) + 1] = iq
        /\ \A i \in DOMAIN inbox : inbox'[i] = inbox[i]
    BY <1>1, <1>2, InboxMore DEF IqInvariant, IqTyped
  <1>4. IqTyped'
    <2>1. incoming' \in [came : Nat, done : Nat, answers : Nat, stray : Nat]
      <3>1. incoming.came + 1 \in Nat
        BY DEF IqInvariant, IqTyped
      <3> QED BY <1>1, <3>1 DEF IqInvariant, IqTyped
    <2> QED BY <1>1, <1>3, <2>1 DEF IqInvariant, IqTyped
  <1>5. InUse' = InUse
    BY <1>1 DEF InUse
  <1>6. OneAnswer'
    <2>1. \A i \in DOMAIN inbox' : Answering(inbox'[i]) => i \in DOMAIN inbox /\ inbox'[i] = inbox[i]
      BY <1>2, <1>3
    <2>2. ASSUME NEW i \in DOMAIN inbox', Answering(inbox'[i])
          PROVE  /\ request'[inbox'[i].id] = "answered"
                 /\ inbox'[i].exts = {}
                 /\ inbox'[i].id \notin InUse'
                 /\ \A j \in DOMAIN inbox' : Answering(inbox'[j]) /\ inbox'[j].id = inbox'[i].id => j = i
      BY <1>1, <1>5, <2>1, <2>2 DEF IqInvariant, OneAnswer
    <2>3. /\ frame'.step \in {"found", "answer"} =>
               Answering(frame'.iq) /\ request'[frame'.iq.id] = "answered" /\ tracked'[frame'.iq.id] # Nobody
          /\ frame'.step \in {"loop", "serve"} => ~Answering(frame'.iq)
      BY <1>1 DEF IqInvariant, OneAnswer
    <2> QED BY <2>2, <2>3 DEF OneAnswer, Answering, IsAnswer
  <1>7. Locked' /\ EntriesHold'
    BY <1>1 DEF IqInvariant, Locked, EntriesHold
  <1>8. RequestsAnswered'
    BY <1>1 DEF IqInvariant, IqTyped, RequestsAnswered
  <1>9. ASSUME NEW x \in Ids PROVE Tracks(x)' /\ Counts(x)'
    <2>1. Tracks(x)'
      BY <1>1 DEF IqInvariant, Tracks, Waiting, Asking
    <2>2. Counts(x)'
      BY <1>1 DEF IqInvariant, Counts
    <2> QED BY <2>1, <2>2
  <1> QED BY <1>4, <1>6, <1>7, <1>8, <1>9 DEF IqInvariant

\* What is left when the first stanza is taken.
LEMMA InboxLeft ==
  ASSUME IqInvariant, inbox # <<>>
  PROVE  \A i \in DOMAIN Tail(inbox) : Answering(Tail(inbox)[i]) =>
           /\ request[Tail(inbox)[i].id] = "answered"
           /\ Tail(inbox)[i].exts = {}
           /\ Tail(inbox)[i].id \notin InUse
           /\ Answering(Head1) => Tail(inbox)[i].id # Head1.id
           /\ \A j \in DOMAIN Tail(inbox) :
                Answering(Tail(inbox)[j]) /\ Tail(inbox)[j].id = Tail(inbox)[i].id => j = i
PROOF
  <1>1. /\ Head1 = inbox[1] /\ 1 \in DOMAIN inbox
        /\ \A i \in DOMAIN Tail(inbox) : i + 1 \in DOMAIN inbox /\ i \in Nat /\ i >= 1 /\ Tail(inbox)[i] = inbox[i + 1]
    BY InboxHead DEF IqInvariant, IqTyped
  <1> SUFFICES ASSUME NEW i \in DOMAIN Tail(inbox), Answering(Tail(inbox)[i])
               PROVE  /\ request[Tail(inbox)[i].id] = "answered"
                      /\ Tail(inbox)[i].exts = {}
                      /\ Tail(inbox)[i].id \notin InUse
                      /\ Answering(Head1) => Tail(inbox)[i].id # Head1.id
                      /\ \A j \in DOMAIN Tail(inbox) :
                           Answering(Tail(inbox)[j]) /\ Tail(inbox)[j].id = Tail(inbox)[i].id => j = i
    OBVIOUS
  <1>2. i + 1 \in DOMAIN inbox /\ i \in Nat /\ i >= 1 /\ Tail(inbox)[i] = inbox[i + 1]
    BY <1>1
  <1>3. /\ request[inbox[i + 1].id] = "answered" /\ inbox[i + 1].exts = {} /\ inbox[i + 1].id \notin InUse
        /\ \A j \in DOMAIN inbox : Answering(inbox[j]) /\ inbox[j].id = inbox[i + 1].id => j = i + 1
    BY <1>2 DEF IqInvariant, OneAnswer
  <1>4. Answering(Head1) => Tail(inbox)[i].id # Head1.id
    BY <1>1, <1>2, <1>3
  <1>5. ASSUME NEW j \in DOMAIN Tail(inbox), Answering(Tail(inbox)[j]), Tail(inbox)[j].id = Tail(inbox)[i].id
        PROVE  j = i
    <2>1. j + 1 \in DOMAIN inbox /\ j \in Nat /\ Tail(inbox)[j] = inbox[j + 1]
      BY <1>1
    <2>2. j + 1 = i + 1
      BY <1>2, <1>3, <1>5, <2>1
    <2> QED BY <1>2, <2>1, <2>2
  <1> QED BY <1>2, <1>3, <1>4, <1>5

\* An answer finds the handler that waits for it.
LEMMA FindKeeps ==
  ASSUME IqInvariant, FindTracked
  PROVE  IqInvariant'
PROOF
  <1>1. PICK iq \in Stanza : iq = Head1
    BY InboxHead DEF FindTracked, IqInvariant, IqTyped
  <1>2. /\ frame = Idle /\ inbox # <<>> /\ IsTracked(iq.id) /\ IsAnswer(iq)
        /\ frame' = [step |-> "found", iq |-> iq] /\ inbox' = Tail(inbox)
        /\ UNCHANGED <<tracked, servants, mutex, beside, request, forgotten, called, incoming, lost>>
    BY <1>1 DEF FindTracked
  <1>3. /\ frame'.step = "found" /\ frame'.iq = iq /\ frame' \in Frames /\ frame.step = "idle"
        /\ Answering(iq) /\ tracked[iq.id] # Nobody
    BY <1>2 DEF Frames, Idle, Answering, IsTracked
  <1>4. request[iq.id] = "answered"
    BY <1>1, <1>2, <1>3, InboxHead DEF IqInvariant, IqTyped, OneAnswer
  <1>5. IqTyped'
    BY <1>2, <1>3, InboxHead DEF IqInvariant, IqTyped
  <1>6. OneAnswer'
    <2>1. InUse' = {iq.id}
      BY <1>3 DEF InUse
    <2>2. ASSUME NEW i \in DOMAIN inbox', Answering(inbox'[i])
          PROVE  /\ request'[inbox'[i].id] = "answered"
                 /\ inbox'[i].exts = {}
                 /\ inbox'[i].id \notin InUse'
                 /\ \A j \in DOMAIN inbox' : Answering(inbox'[j]) /\ inbox'[j].id = inbox'[i].id => j = i
      BY <1>1, <1>2, <1>3, <2>1, <2>2, InboxLeft
    <2> QED BY <1>2, <1>3, <1>4, <2>2 DEF OneAnswer, Answering, IsAnswer
  <1>7. Locked' /\ EntriesHold' /\ RequestsAnswered'
    BY <1>2, <1>3 DEF IqInvariant, Locked, EntriesHold, RequestsAnswered
  <1>8. ASSUME NEW x \in Ids PROVE Tracks(x)' /\ Counts(x)'
    <2>1. Tracks(x)'
      BY <1>2 DEF IqInvariant, Tracks, Waiting, Asking
    <2>2. Counts(x)'
      BY <1>2, <1>3 DEF IqInvariant, Counts
    <2> QED BY <2>1, <2>2
  <1> QED BY <1>5, <1>6, <1>7, <1>8 DEF IqInvariant

\* The handler is called, and its entry erased.
LEMMA AskerKeeps ==
  ASSUME IqInvariant, CallAsker \/ AskerReturns
  PROVE  IqInvariant'
PROOF
  <1>1. frame.step \in {"found", "answer"} /\ frame.iq \in Stanza /\ Answering(frame.iq)
    BY FrameIs DEF CallAsker, AskerReturns, IqInvariant, IqTyped, OneAnswer
  <1>2. PICK iq \in Stanza : iq = frame.iq
    BY <1>1
  <1>3. PICK id \in Ids : id = iq.id
    BY <1>1, <1>2 DEF Answering
  <1>4. /\ request[id] = "answered" /\ tracked[id] # Nobody /\ ~Asking(id) /\ id \notin forgotten
        /\ InUse = {id}
    BY <1>1, <1>2, <1>3 DEF IqInvariant, OneAnswer, Tracks, Waiting, Asking, InUse
  <1>5. CASE CallAsker
    <2>1. /\ frame.step = "found" /\ frame' = [step |-> "answer", iq |-> iq]
          /\ called' = [called EXCEPT ![id] = @ + 1]
          /\ UNCHANGED <<tracked, servants, mutex, beside, inbox, request, forgotten, incoming, lost>>
      BY <1>2, <1>3, <1>5, FrameIs DEF CallAsker, IqInvariant, IqTyped
    <2>2. frame'.step = "answer" /\ frame'.iq = iq /\ frame' \in Frames
      BY <2>1 DEF Frames
    <2>3. IqTyped'
      BY <2>1, <2>2 DEF IqInvariant, IqTyped
    <2>4. OneAnswer'
      <3>1. InUse' = InUse
        BY <1>3, <1>4, <2>2 DEF InUse
      <3> QED BY <1>1, <1>2, <1>3, <1>4, <2>1, <2>2, <3>1
               DEF IqInvariant, OneAnswer, Answering, IsAnswer
    <2>5. Locked' /\ EntriesHold' /\ RequestsAnswered'
      BY <2>1, <2>2 DEF IqInvariant, Locked, EntriesHold, RequestsAnswered
    <2>6. ASSUME NEW x \in Ids PROVE Tracks(x)' /\ Counts(x)'
      <3>1. Tracks(x)'
        BY <2>1 DEF IqInvariant, Tracks, Waiting, Asking
      <3>2. Counts(x)'
        <4>1. CASE x = id
          <5>1. Counts(id) /\ frame.step # "answer"
            BY <2>1 DEF IqInvariant
          <5>2. called[id] = 0
            BY <1>4, <5>1 DEF Counts
          <5>3. called'[id] = 1
            BY <2>1, <5>2 DEF IqInvariant, IqTyped
          <5> QED BY <1>3, <1>4, <2>1, <2>2, <4>1, <5>3 DEF Counts
        <4>2. CASE x # id
          BY <1>2, <1>3, <2>1, <2>2, <4>2 DEF IqInvariant, IqTyped, Counts
        <4> QED BY <4>1, <4>2
      <3> QED BY <3>1, <3>2
    <2> QED BY <2>3, <2>4, <2>5, <2>6 DEF IqInvariant
  <1>6. CASE AskerReturns
    <2>1. /\ frame.step = "answer" /\ frame' = Idle
          /\ tracked' = [tracked EXCEPT ![id] = Nobody]
          /\ request' = [request EXCEPT ![id] = "done"]
          /\ UNCHANGED <<servants, mutex, beside, inbox, forgotten, called, incoming, lost>>
      BY <1>1, <1>2, <1>3, <1>6 DEF AskerReturns, Erased, Dispatched, Answering
    <2>2. frame'.step = "idle" /\ frame' \in Frames
      BY <2>1 DEF Frames, Idle
    <2>3. IqTyped'
      BY <2>1, <2>2 DEF IqInvariant, IqTyped
    <2>4. OneAnswer'
      <3>1. InUse' = {}
        BY <2>2 DEF InUse
      <3>2. ASSUME NEW i \in DOMAIN inbox', Answering(inbox'[i])
            PROVE  /\ request'[inbox'[i].id] = "answered"
                   /\ inbox'[i].exts = {}
                   /\ inbox'[i].id \notin InUse'
                   /\ \A j \in DOMAIN inbox' : Answering(inbox'[j]) /\ inbox'[j].id = inbox'[i].id => j = i
        BY <1>4, <2>1, <3>1, <3>2 DEF IqInvariant, IqTyped, OneAnswer, Answering
      <3> QED BY <2>2, <3>2 DEF OneAnswer, Answering, IsAnswer
    <2>5. Locked' /\ EntriesHold' /\ RequestsAnswered'
      BY <2>1, <2>2 DEF IqInvariant, Locked, EntriesHold, RequestsAnswered
    <2>6. ASSUME NEW x \in Ids PROVE Tracks(x)' /\ Counts(x)'
      <3>1. Tracks(x) /\ Counts(x) /\ (Asking(x)' <=> Asking(x))
        BY <2>1 DEF IqInvariant, Asking
      <3>2. CASE x = id
        <4>1. tracked'[id] = Nobody /\ request'[id] = "done"
          BY <2>1 DEF IqInvariant, IqTyped
        <4>2. Tracks(id)'
          BY <1>4, <2>1, <3>1, <3>2, <4>1 DEF Tracks, Waiting
        <4>3. Counts(id)'
          BY <1>2, <1>3, <1>4, <2>1, <2>2, <3>1, <3>2, <4>1 DEF Counts
        <4> QED BY <3>2, <4>2, <4>3
      <3>3. CASE x # id
        <4>1. tracked'[x] = tracked[x] /\ request'[x] = request[x]
          BY <2>1, <3>3 DEF IqInvariant, IqTyped
        <4>2. Tracks(x)'
          BY <2>1, <3>1, <4>1 DEF Tracks, Waiting
        <4>3. Counts(x)'
          BY <1>2, <1>3, <2>1, <2>2, <3>1, <3>3, <4>1 DEF Counts
        <4> QED BY <4>2, <4>3
      <3> QED BY <3>2, <3>3
    <2> QED BY <2>3, <2>4, <2>5, <2>6 DEF IqInvariant
  <1> QED BY <1>5, <1>6

\* A reply goes to every request, and to nothing else.
LEMMA ReplySound ==
  ASSUME IqInvariant, NEW iq \in Stanza, incoming' = Reply(iq, IF iq.sub \in Questions THEN 1 ELSE 0)
  PROVE  RequestsAnswered' /\ incoming' \in [came : Nat, done : Nat, answers : Nat, stray : Nat]
PROOF
  <1>1. /\ incoming \in [came : Nat, done : Nat, answers : Nat, stray : Nat]
        /\ incoming.answers = incoming.done /\ incoming.stray = 0
    BY DEF IqInvariant, IqTyped, RequestsAnswered
  <1>2. CASE iq.sub \in Questions
    <2>1. incoming' = [incoming EXCEPT !.done = incoming.done + 1, !.answers = incoming.answers + 1,
                                       !.stray = incoming.stray]
      BY <1>2 DEF Reply, Questions, Answers
    <2>2. incoming.done + 1 \in Nat /\ incoming.answers + 1 = incoming.done + 1
      BY <1>1
    <2>3. incoming' \in [came : Nat, done : Nat, answers : Nat, stray : Nat]
      BY <1>1, <2>1, <2>2
    <2>4. /\ incoming'.answers = incoming.answers + 1 /\ incoming'.done = incoming.done + 1
          /\ incoming'.stray = incoming.stray
      BY <1>1, <2>1
    <2> QED BY <1>1, <2>2, <2>3, <2>4 DEF RequestsAnswered
  <1>3. CASE iq.sub \notin Questions
    <2>1. incoming' = [incoming EXCEPT !.done = incoming.done, !.answers = incoming.answers,
                                       !.stray = incoming.stray + 0]
      BY <1>3 DEF Reply, Questions, Answers, Stanza
    <2>2. incoming.stray + 0 = 0
      BY <1>1
    <2>3. incoming' \in [came : Nat, done : Nat, answers : Nat, stray : Nat]
      BY <1>1, <2>1, <2>2
    <2>4. incoming'.answers = incoming.answers /\ incoming'.done = incoming.done /\ incoming'.stray = 0
      BY <1>1, <2>1, <2>2
    <2> QED BY <1>1, <2>3, <2>4 DEF RequestsAnswered
  <1> QED BY <1>2, <1>3

\* What has no handler and no extensions is refused, if it asks for anything.
LEMMA RefuseEmptyKeeps ==
  ASSUME IqInvariant, RefuseEmpty
  PROVE  IqInvariant'
PROOF
  <1>1. PICK iq \in Stanza : iq = Head1
    BY InboxHead DEF RefuseEmpty, IqInvariant, IqTyped
  <1>2. /\ frame = Idle /\ inbox # <<>> /\ ~(IsTracked(iq.id) /\ IsAnswer(iq))
        /\ Dispatched(iq) /\ inbox' = Tail(inbox)
        /\ incoming' = Reply(iq, IF iq.sub \in Questions THEN 1 ELSE 0)
        /\ UNCHANGED <<tracked, servants, mutex, frame, beside, forgotten, called, lost>>
    BY <1>1 DEF RefuseEmpty, Refusable
  <1>3. frame.step = "idle" /\ InUse = {} /\ InUse' = {}
    BY <1>2 DEF Idle, InUse
  <1>4. RequestsAnswered' /\ incoming' \in [came : Nat, done : Nat, answers : Nat, stray : Nat]
    BY <1>2, ReplySound
  <1>5. /\ ~Answering(iq) => request' = request
        /\ Answering(iq) => request' = [request EXCEPT ![iq.id] = "done"]
    BY <1>2 DEF Dispatched, Answering
  <1>6. IqTyped'
    <2>1. request' \in [Ids -> {"new", "sent", "answered", "done"}]
      BY <1>5 DEF IqInvariant, IqTyped, Answering
    <2> QED BY <1>2, <1>4, <2>1, InboxHead DEF IqInvariant, IqTyped
  <1>7. OneAnswer'
    <2>1. ASSUME NEW i \in DOMAIN inbox', Answering(inbox'[i])
          PROVE  /\ request'[inbox'[i].id] = "answered"
                 /\ inbox'[i].exts = {}
                 /\ inbox'[i].id \notin InUse'
                 /\ \A j \in DOMAIN inbox' : Answering(inbox'[j]) /\ inbox'[j].id = inbox'[i].id => j = i
      <3>1. /\ request[inbox'[i].id] = "answered" /\ inbox'[i].exts = {} /\ inbox'[i].id \in Ids
            /\ Answering(iq) => inbox'[i].id # iq.id
            /\ \A j \in DOMAIN inbox' : Answering(inbox'[j]) /\ inbox'[j].id = inbox'[i].id => j = i
        BY <1>1, <1>2, <2>1, InboxLeft DEF Answering
      <3> QED BY <1>3, <1>5, <3>1 DEF IqInvariant, IqTyped
    <2> QED BY <1>2, <1>3, <2>1 DEF OneAnswer, Answering, IsAnswer
  <1>8. Locked' /\ EntriesHold'
    BY <1>2 DEF IqInvariant, Locked, EntriesHold
  <1>9. ASSUME NEW x \in Ids PROVE Tracks(x)' /\ Counts(x)'
    <2>1. Tracks(x) /\ Counts(x) /\ (Asking(x)' <=> Asking(x))
      BY <1>2 DEF IqInvariant, Asking
    <2>2. CASE Answering(iq) /\ x = iq.id
      <3>1. request[x] = "answered" /\ tracked[x] = Nobody
        BY <1>1, <1>2, <2>2, InboxHead DEF IqInvariant, IqTyped, OneAnswer, Answering, IsTracked
      <3>2. x \in forgotten /\ ~Asking(x)
        BY <2>1, <3>1 DEF Tracks, Waiting, Asking
      <3>3. request'[x] = "done"
        BY <1>5, <2>2 DEF IqInvariant, IqTyped
      <3>4. Tracks(x)'
        BY <1>2, <2>1, <3>1, <3>2, <3>3 DEF Tracks, Waiting
      <3>5. Counts(x)'
        BY <1>2, <1>3, <2>1, <3>1, <3>2, <3>3 DEF Counts
      <3> QED BY <3>4, <3>5
    <2>3. CASE ~(Answering(iq) /\ x = iq.id)
      <3>1. request'[x] = request[x]
        BY <1>5, <2>3 DEF IqInvariant, IqTyped
      <3>2. Tracks(x)'
        BY <1>2, <2>1, <3>1 DEF Tracks, Waiting
      <3>3. Counts(x)'
        BY <1>2, <2>1, <3>1 DEF Counts
      <3> QED BY <3>2, <3>3
    <2> QED BY <2>2, <2>3
  <1> QED BY <1>4, <1>6, <1>7, <1>8, <1>9 DEF IqInvariant

\* While a request is offered to the handlers no answer of ours is dispatched.
LEMMA LoopKeeps ==
  ASSUME IqInvariant, frame.step \in {"loop", "serve"} \/ frame = Idle,
         frame'.step \in {"loop", "serve"} => ~Answering(frame'.iq),
         frame' \in Frames, frame'.step \in {"loop", "serve", "idle"},
         mutex' = IF frame'.step = "idle" THEN "free" ELSE "dispatcher",
         inbox' = inbox \/ (inbox # <<>> /\ inbox' = Tail(inbox)),
         RequestsAnswered', incoming' \in [came : Nat, done : Nat, answers : Nat, stray : Nat],
         UNCHANGED <<tracked, servants, beside, request, forgotten, called, lost>>
  PROVE  IqInvariant'
PROOF
  <1>1. frame.step \notin {"found", "answer"} /\ frame'.step \notin {"found", "answer"}
    BY DEF Idle
  <1>2. InUse = {} /\ InUse' = {}
    BY <1>1 DEF InUse
  <1>3. IqTyped'
    <2>1. inbox' \in Seq(Stanza)
      BY InboxHead DEF IqInvariant, IqTyped
    <2> QED BY <2>1 DEF IqInvariant, IqTyped
  <1>4. OneAnswer'
    <2>1. ASSUME NEW i \in DOMAIN inbox', Answering(inbox'[i])
          PROVE  /\ request'[inbox'[i].id] = "answered"
                 /\ inbox'[i].exts = {}
                 /\ inbox'[i].id \notin InUse'
                 /\ \A j \in DOMAIN inbox' : Answering(inbox'[j]) /\ inbox'[j].id = inbox'[i].id => j = i
      <3>1. CASE inbox' = inbox
        BY <1>2, <2>1, <3>1 DEF IqInvariant, OneAnswer
      <3>2. CASE inbox # <<>> /\ inbox' = Tail(inbox)
        BY <1>2, <2>1, <3>2, InboxLeft
      <3> QED BY <3>1, <3>2
    <2> QED BY <1>1, <2>1 DEF OneAnswer, Answering, IsAnswer
  <1>5. Locked'
    BY DEF Locked
  <1>6. EntriesHold'
    BY DEF IqInvariant, EntriesHold
  <1>7. ASSUME NEW x \in Ids PROVE Tracks(x)' /\ Counts(x)'
    <2>1. Tracks(x)'
      BY DEF IqInvariant, Tracks, Waiting, Asking
    <2>2. Counts(x)'
      BY <1>1 DEF IqInvariant, Counts
    <2> QED BY <2>1, <2>2
  <1> QED BY <1>3, <1>4, <1>5, <1>6, <1>7 DEF IqInvariant

\* A request is offered to the handlers of its extensions in turn.
LEMMA ServantsKeep ==
  ASSUME IqInvariant,
         \/ Offer \/ NextType \/ CallServant \/ ServantDeclines
         \/ ServantHandles \/ RefuseUnhandled
  PROVE  IqInvariant'
PROOF
  <1>0. RequestsAnswered /\ incoming \in [came : Nat, done : Nat, answers : Nat, stray : Nat]
    BY DEF IqInvariant, IqTyped
  <1>1. CASE Offer
    <2>1. PICK iq \in Stanza : iq = Head1
      BY <1>1, InboxHead DEF Offer, IqInvariant, IqTyped
    <2>2. /\ frame = Idle /\ inbox # <<>> /\ iq.exts # {} /\ mutex' = "dispatcher"
          /\ frame' = [step |-> "loop", iq |-> iq, type |-> 1, at |-> 1] /\ inbox' = Tail(inbox)
          /\ UNCHANGED <<tracked, servants, beside, request, forgotten, called, incoming, lost>>
      BY <1>1, <2>1 DEF Offer
    <2>3. frame' \in Frames /\ frame'.step = "loop" /\ frame'.iq = iq
      BY <2>2 DEF Frames
    <2>4. ~Answering(iq)
      BY <2>1, <2>2, InboxHead DEF IqInvariant, IqTyped, OneAnswer
    <2>5. ~Answering(frame'.iq)
      BY <2>3, <2>4
    <2>6. RequestsAnswered' /\ incoming' \in [came : Nat, done : Nat, answers : Nat, stray : Nat]
      BY <1>0, <2>2 DEF RequestsAnswered
    <2> QED BY <2>2, <2>3, <2>5, <2>6, LoopKeeps
  <1>2. CASE NextType \/ CallServant \/ ServantDeclines
    <2>1. /\ frame.step \in {"loop", "serve"} /\ frame.iq \in Stanza
          /\ frame.type \in Nat /\ frame.at \in Nat /\ ~Answering(frame.iq) /\ mutex = "dispatcher"
          /\ frame = [step |-> frame.step, iq |-> frame.iq, type |-> frame.type, at |-> frame.at]
      BY <1>2, FrameIs
       DEF NextType, CallServant, ServantDeclines, IqInvariant, IqTyped, OneAnswer, Locked
    <2>2. UNCHANGED <<tracked, servants, mutex, beside, inbox, request, forgotten, called, incoming, lost>>
      BY <1>2 DEF NextType, CallServant, ServantDeclines
    <2>3. \/ frame' = [step |-> frame.step, iq |-> frame.iq, type |-> frame.type + 1, at |-> 1]
          \/ frame' = [step |-> "serve", iq |-> frame.iq, type |-> frame.type, at |-> frame.at]
          \/ frame' = [step |-> "loop", iq |-> frame.iq, type |-> frame.type, at |-> frame.at + 1]
      BY <1>2, <2>1 DEF NextType, CallServant, ServantDeclines
    <2>4. frame' \in Frames /\ frame'.step \in {"loop", "serve"} /\ frame'.iq = frame.iq
      BY <2>1, <2>3 DEF Frames
    <2>5. ~Answering(frame'.iq)
      BY <2>1, <2>4
    <2>6. RequestsAnswered' /\ incoming' \in [came : Nat, done : Nat, answers : Nat, stray : Nat]
      BY <1>0, <2>2 DEF RequestsAnswered
    <2>7. mutex' = IF frame'.step = "idle" THEN "free" ELSE "dispatcher"
      BY <2>1, <2>2, <2>4
    <2> QED BY <2>1, <2>2, <2>4, <2>5, <2>6, <2>7, LoopKeeps
  <1>3. CASE ServantHandles \/ RefuseUnhandled
    <2>1. frame.step \in {"loop", "serve"} /\ frame.iq \in Stanza /\ ~Answering(frame.iq)
      BY <1>3, FrameIs DEF ServantHandles, RefuseUnhandled, IqInvariant, IqTyped, OneAnswer
    <2>2. /\ incoming' = Reply(frame.iq, IF frame.iq.sub \in Questions THEN 1 ELSE 0)
          /\ Dispatched(frame.iq) /\ mutex' = "free" /\ frame' = Idle
          /\ UNCHANGED <<tracked, servants, beside, inbox, forgotten, called, lost>>
      BY <1>3 DEF ServantHandles, RefuseUnhandled, Refusable, Unlocked
    <2>3. request' = request
      BY <2>1, <2>2 DEF Dispatched, Answering
    <2>4. frame' \in Frames /\ frame'.step = "idle"
      BY <2>2 DEF Frames, Idle
    <2>5. RequestsAnswered' /\ incoming' \in [came : Nat, done : Nat, answers : Nat, stray : Nat]
      BY <2>1, <2>2, ReplySound
    <2> QED BY <2>1, <2>2, <2>3, <2>4, <2>5, LoopKeeps
  <1> QED BY <1>1, <1>2, <1>3

\* Every step keeps the invariant, if nobody forgets an entry that is in use.
LEMMA IqStep ==
  ASSUME ~ForgetsInside, ~ForgetsBeside
  PROVE  IqInvariant /\ [IqNext]_iqVars => IqInvariant'
PROOF
  <1> SUFFICES ASSUME IqInvariant, [IqNext]_iqVars PROVE IqInvariant'
    OBVIOUS
  <1>1. CASE UNCHANGED iqVars
    <2>1. IqTyped'
      BY <1>1 DEF iqVars, IqInvariant, IqTyped
    <2> QED BY <1>1, <2>1, ListsApart DEF iqVars
  <1>2. CASE Dispatcher
    BY <1>2, FindKeeps, AskerKeeps, RefuseEmptyKeeps, ServantsKeep DEF Dispatcher
  <1>3. CASE Beside
    BY <1>3, GoOnAskingKeeps, LockBesideKeeps DEF Beside
  <1>4. CASE Application
    <2>1. ASSUME NEW id \in Ids, NEW ih \in Askers, Ask(id, ih) \/ AskBeside(id, ih) PROVE IqInvariant'
      BY <2>1, AskKeeps, AskBesideKeeps
    <2>2. ASSUME NEW ih \in Askers, ForgetHere(ih) \/ ForgetBeside(ih) PROVE IqInvariant'
      BY <2>2, ForgetKeeps DEF ForgetBeside
    <2>3. ASSUME NEW t \in Types, NEW sv \in Servants, RegisterHere(t, sv) \/ RemoveHere(t, sv)
          PROVE  IqInvariant'
      BY <2>3, ListStepsKeep
    <2>4. ASSUME NEW t \in Types, NEW sv \in Servants, NEW op \in {"register", "remove"}, ChangeBeside(op, t, sv)
          PROVE  IqInvariant'
      BY <2>4, ListStepsKeep
    <2> QED BY <1>4, <2>1, <2>2, <2>3, <2>4 DEF Application
  <1>5. CASE Others
    <2>1. ASSUME NEW id \in Ids, NEW sub \in Answers, AnswerArrives(id, sub) PROVE IqInvariant'
      BY <2>1, AnswerKeeps
    <2>2. ASSUME NEW sub \in Answers \cup Questions, NEW id \in Ids \cup {Stray}, NEW exts \in SUBSET Types,
                 RequestArrives(sub, id, exts)
          PROVE  IqInvariant'
      BY <2>2, RequestKeeps
    <2> QED BY <1>5, <2>1, <2>2 DEF Others
  <1> QED BY <1>1, <1>2, <1>3, <1>4, <1>5 DEF IqNext

\* Nothing was asked at first.
LEMMA IqBegins == IqInit => IqInvariant
PROOF
  <1> SUFFICES ASSUME IqInit PROVE IqInvariant
    OBVIOUS
  <1>1. IqTyped
    <2>1. Idle \in Frames /\ Idle \in Besides /\ <<>> \in Seq(Stanza) /\ <<>> \in Seq(Servants)
      BY DEF Frames, Besides
    <2>2. lost = FALSE /\ incoming \in [came : Nat, done : Nat, answers : Nat, stray : Nat]
      BY DEF IqInit
    <2> QED BY <2>1, <2>2 DEF IqInit, IqTyped
  <1>2. DOMAIN inbox = {} /\ frame.step = "idle" /\ beside.step = "idle"
    BY DEF IqInit, Idle
  <1> QED BY <1>1, <1>2
          DEF IqInit, IqInvariant, OneAnswer, Locked, EntriesHold, RequestsAnswered,
              Tracks, Counts, Waiting, Asking

\* What the maps are for follows.
LEMMA IqHolds == IqInvariant => IqTypeOK /\ AskersTold /\ RequestsAnswered /\ EntriesHold
PROOF
  <1> SUFFICES ASSUME IqInvariant PROVE IqTypeOK /\ AskersTold
    BY DEF IqInvariant
  <1>1. IqTypeOK
    BY DEF IqInvariant, IqTyped, IqTypeOK
  <1>2. ASSUME NEW id \in Ids
        PROVE  /\ called[id] = IF request[id] = "done" /\ id \notin forgotten THEN 1
                               ELSE IF InUse = {id} /\ frame.step = "answer" THEN 1 ELSE 0
               /\ request[id] = "done" => tracked[id] = Nobody
    <2>1. InUse = {id} /\ frame.step = "answer" <=> frame.step = "answer" /\ frame.iq.id = id
      BY DEF InUse
    <2>2. Tracks(id) /\ Counts(id)
      BY DEF IqInvariant
    <2>3. request[id] = "done" => ~Waiting(id)
      BY <2>2 DEF Waiting, Tracks, Asking
    <2> QED BY <2>1, <2>2, <2>3 DEF Counts, Tracks
  <1> QED BY <1>1, <1>2 DEF AskersTold

-----------------------------------------------------------------------------
(* The stream of a component. *)

\* The state of a component and of its server.
ComponentInv ==
  /\ component \in [state : {"disconnected", "connecting", "open", "told"},
                    sid : 0..MaxStreams, digest : 0..MaxStreams, authed : BOOLEAN]
  /\ peer \in [sid : 0..MaxStreams, accepted : BOOLEAN]

\* Every step of a component keeps it.
LEMMA ComponentStep == ComponentInv /\ [ComponentNext]_componentVars => ComponentInv'
PROOF
  <1> SUFFICES ASSUME ComponentInv, [ComponentNext]_componentVars PROVE ComponentInv'
    OBVIOUS
  <1> DEFINE yes == TRUE
             no == FALSE
  <1>0. yes \in BOOLEAN /\ no \in BOOLEAN
    OBVIOUS
  <1>1. CASE ComponentConnects
    <2>1. /\ component' = [component EXCEPT !.state = "connecting"]
          /\ peer' = [sid |-> peer.sid + 1, accepted |-> no] /\ peer.sid < MaxStreams
      BY <1>1 DEF ComponentConnects
    <2> HIDE DEF no
    <2>2. peer.sid + 1 \in 0..MaxStreams
      BY <2>1, ComponentAssumption DEF ComponentInv
    <2> QED BY <1>0, <2>1, <2>2 DEF ComponentInv
  <1>2. ASSUME NEW named \in BOOLEAN, StreamStarts(named) PROVE ComponentInv'
    <2>1. PICK sid \in 0..MaxStreams, digest \in 0..MaxStreams :
            component' = [component EXCEPT !.state = "open", !.sid = sid, !.digest = digest]
      <3>1. peer.sid \in 0..MaxStreams /\ 0 \in 0..MaxStreams
        BY ComponentAssumption DEF ComponentInv
      <3> QED BY <1>2, <3>1 DEF StreamStarts, DigestOf, NoSid
    <2> QED BY <1>2, <2>1 DEF StreamStarts, ComponentInv
  <1>3. CASE PeerAccepts
    <2>1. peer' = [peer EXCEPT !.accepted = yes] /\ component' = component
      BY <1>3 DEF PeerAccepts
    <2> HIDE DEF yes
    <2> QED BY <1>0, <2>1 DEF ComponentInv
  <1>4. CASE HandshakeArrives
    <2>1. component' = [component EXCEPT !.state = "told", !.authed = yes] /\ peer' = peer
      BY <1>4 DEF HandshakeArrives
    <2> HIDE DEF yes
    <2> QED BY <1>0, <2>1 DEF ComponentInv
  <1>5. CASE StreamEnds
    BY <1>5 DEF StreamEnds, ComponentInv
  <1>6. CASE UNCHANGED componentVars
    BY <1>6 DEF componentVars, ComponentInv
  <1> QED BY <1>1, <1>2, <1>3, <1>4, <1>5, <1>6 DEF ComponentNext

-----------------------------------------------------------------------------
(* All parts together: one of them runs, the others rest. *)

deliveryVars ==
  <<part, vars, layersVars, llVars, componentVars, iqVars, backendsVars, resolverVars>>

\* A step of the whole is a step of each part, or leaves it alone.
LEMMA PartsStep ==
  [DeliveryNext]_deliveryVars =>
    /\ [Next]_vars /\ [ResolverNext]_resolverVars /\ [LinkLocalNext]_llVars
    /\ [IqNext]_iqVars /\ [ComponentNext]_componentVars
PROOF
  BY DEF DeliveryNext, deliveryVars, RestTcp, RestDial, RestLink, RestIq, RestComponent, RestWire

\* The parts begin as they begin alone.
LEMMA PartsBegin ==
  DeliveryInit => TcpInv /\ DialInv /\ LinkInv /\ Batches /\ IqInvariant /\ ComponentInv
PROOF
  <1>1. ASSUME ComponentInit PROVE ComponentInv
    BY <1>1, ComponentAssumption DEF ComponentInit, ComponentInv, NoSid
  <1> QED BY <1>1, TcpBegins, DialBegins, LinkBegins, IqBegins DEF DeliveryInit

\* For every number of threads, calls and addresses, and whatever the name servers
\* say: a descriptor is opened, used and closed by one owner, and the mutexes are
\* returned (dns.cpp:232-505, connectiontcpbase.cpp:122-187,
\* connectiontcpclient.cpp:62-147).
THEOREM DescriptorsTheorem == DeliverySpec => []DescriptorsSound
PROOF
  <1>1. TcpInv /\ DialInv /\ [DeliveryNext]_deliveryVars => TcpInv' /\ DialInv'
    BY PartsStep, TcpStep, DialStep
  <1>2. TcpInv /\ DialInv => DescriptorsSound
    BY TcpHolds, DialHolds DEF DescriptorsSound
  <1>3. DeliveryInit => TcpInv /\ DialInv
    BY PartsBegin
  <1> QED BY <1>1, <1>2, <1>3, PTL DEF DeliverySpec, deliveryVars

\* If the handler does not stop the browsing while it is told of what was found:
\* a reference of DNS-SD is used while it is valid, and every service reported
\* is in the list that is told (linklocalmanager.cpp:127-230,
\* linklocalclient.cpp:94-180).
THEOREM LinkLocalTheorem == ~StopsInside => (DeliverySpec => []LinkLocalSound)
PROOF
  <1> SUFFICES ASSUME ~StopsInside PROVE DeliverySpec => []LinkLocalSound
    OBVIOUS
  <1>1. LinkInv /\ Batches /\ [DeliveryNext]_deliveryVars => LinkInv' /\ Batches'
    BY PartsStep, LinkStep, BatchStep
  <1>2. LinkInv /\ Batches => LinkLocalSound
    BY LinkHolds DEF Batches, LinkLocalSound
  <1>3. DeliveryInit => LinkInv /\ Batches
    BY PartsBegin
  <1> QED BY <1>1, <1>2, <1>3, PTL DEF DeliverySpec, deliveryVars

\* If no handler is removed while an entry of it is in use: whichever of two threads
\* asks, every request has its answer dispatched to the handler that waits for it,
\* once, every request of others is answered once, and no entry of the maps is used
\* after it was erased (clientbase.cpp:1637-1699).
THEOREM HandlersTheorem ==
  ~ForgetsInside /\ ~ForgetsBeside => (DeliverySpec => []HandlersCalled)
PROOF
  <1> SUFFICES ASSUME ~ForgetsInside, ~ForgetsBeside PROVE DeliverySpec => []HandlersCalled
    OBVIOUS
  <1>1. IqInvariant /\ ComponentInv /\ [DeliveryNext]_deliveryVars => IqInvariant' /\ ComponentInv'
    BY PartsStep, IqStep, ComponentStep
  <1>2. IqInvariant /\ ComponentInv => HandlersCalled
    <2>1. ComponentInv => ComponentTypeOK
      BY DEF ComponentInv, ComponentTypeOK
    <2> QED BY <2>1, IqHolds DEF HandlersCalled
  <1>3. DeliveryInit => IqInvariant /\ ComponentInv
    BY PartsBegin
  <1> QED BY <1>1, <1>2, <1>3, PTL DEF DeliverySpec, deliveryVars
=============================================================================
