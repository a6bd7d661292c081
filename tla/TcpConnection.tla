--------------------------- MODULE TcpConnection ---------------------------
(***************************************************************************)
(* ConnectionTCPBase and ConnectionTCPClient as ClientBase drives them from *)
(* several threads: one connects and reads, others send and disconnect.    *)
(*                                                                         *)
(* A thread's program is cut where another one can get in: at each lock,   *)
(* and where m_state, m_cancel and m_socket are used without their lock.   *)
(* The stack holds where a function returns to.  What is read and written  *)
(* is left out.  An operator named Slip... is the operator after it with   *)
(* one plausible mistake.                                                  *)
(***************************************************************************)
EXTENDS Naturals, Sequences

CONSTANTS
  Reader,         \* the thread that calls connect( true ), again and again
  Writers,        \* threads that call send()
  Closers,        \* threads that call disconnect()
  HandlerCloses,  \* does the application call disconnect() in a handler?
  MaxCalls,       \* bound: calls each writer and closer makes
  MaxAttempts,    \* bound: connections tried
  NoThread

ASSUME ConstantsAssumption ==
  /\ Reader \notin Writers \cup Closers
  /\ NoThread \notin {Reader} \cup Writers \cup Closers
  /\ HandlerCloses \in BOOLEAN
  /\ {MaxCalls, MaxAttempts} \subseteq Nat

Threads == {Reader} \cup Writers \cup Closers

VARIABLES
  conn,      \* m_socket (0 is none; a new descriptor each time), m_state, m_cancel
  sendMutex, \* its owner
  recvMutex,
  thread,    \* where each thread is
  attempts,  \* connections tried
  told       \* onDisconnect() called

vars == <<conn, sendMutex, recvMutex, thread, attempts, told>>

Init ==
  /\ conn = [socket |-> 0, state |-> "disconnected", cancel |-> TRUE]
  /\ sendMutex = NoThread /\ recvMutex = NoThread
  /\ thread = [t \in Threads |-> [pc |-> "idle", stack |-> <<>>,
                                  fd |-> 0, calls |-> 0]]
  /\ attempts = 0 /\ told = 0

-----------------------------------------------------------------------------
At(t, label) == thread[t].pc = label

Goto(t, label) == thread' = [thread EXCEPT ![t].pc = label]

Call(t, label, back) ==
  thread' = [thread EXCEPT ![t].pc = label, ![t].stack = <<back>> \o @]

Return(t) ==
  thread' = [thread EXCEPT ![t].pc = Head(thread[t].stack),
                           ![t].stack = Tail(@)]

\* The descriptor that the system call which follows is given.
Uses(t, label) ==
  thread' = [thread EXCEPT ![t].pc = label, ![t].fd = conn.socket]

\* util::Mutex is recursive, but no thread here locks one it holds.
Locks(mutex) == mutex = NoThread

-----------------------------------------------------------------------------
(* ClientBase::connect() and ConnectionTCPClient::connect(). *)

StartConnect(t) ==
  /\ t = Reader /\ At(t, "idle") /\ attempts < MaxAttempts
  /\ Goto(t, IF conn.state # "disconnected" THEN "idle" ELSE "tcp_connect")
  /\ UNCHANGED <<conn, sendMutex, recvMutex, attempts, told>>

TcpConnect(t) ==
  /\ At(t, "tcp_connect") /\ Locks(sendMutex)
  /\ sendMutex' = t
  /\ Goto(t, "check_open")
  /\ UNCHANGED <<conn, recvMutex, attempts, told>>

CheckOpen(t) ==
  /\ At(t, "check_open")
  /\ IF conn.socket # 0 /\ conn.state # "disconnected"
     THEN Goto(t, "receive") /\ sendMutex' = NoThread /\ UNCHANGED conn
     ELSE /\ Goto(t, "dns") /\ UNCHANGED sendMutex
          /\ conn' = [conn EXCEPT !.state = "connecting"]
  /\ UNCHANGED <<recvMutex, attempts, told>>

SlipUnsignedError == {MaxAttempts + 1, attempts + 1}

\* What DNS::connect() returns: an error, less than 0 in the code, is no socket.
NewSocket == {0, attempts + 1}

\* DNS::connect(), unless a socket was left open.
DnsConnect(t) ==
  /\ At(t, "dns")
  /\ attempts' = attempts + 1
  /\ \E s \in IF conn.socket # 0 THEN {conn.socket} ELSE NewSocket :
       conn' = [conn EXCEPT !.socket = s]
  /\ sendMutex' = NoThread
  /\ Goto(t, "check_socket")
  /\ UNCHANGED <<recvMutex, told>>

CheckSocket(t) ==
  /\ At(t, "check_socket")
  /\ IF conn.socket = 0 THEN Call(t, "handle_disconnect", "idle")
     ELSE Goto(t, "set_state")
  /\ UNCHANGED <<conn, sendMutex, recvMutex, attempts, told>>

SetState(t) ==
  /\ At(t, "set_state")
  /\ conn' = [conn EXCEPT !.state = "connected"]
  /\ Goto(t, "set_cancel")
  /\ UNCHANGED <<sendMutex, recvMutex, attempts, told>>

\* handleConnect() sends the stream header.
SetCancel(t) ==
  /\ At(t, "set_cancel")
  /\ conn' = [conn EXCEPT !.cancel = FALSE]
  /\ Call(t, "send", "receive")
  /\ UNCHANGED <<sendMutex, recvMutex, attempts, told>>

-----------------------------------------------------------------------------
(* ConnectionTCPBase::receive() and ConnectionTCPClient::recv(). *)

Receive(t) ==
  /\ At(t, "receive")
  /\ Goto(t, IF conn.socket = 0 THEN "idle" ELSE "loop")
  /\ UNCHANGED <<conn, sendMutex, recvMutex, attempts, told>>

Loop(t) ==
  /\ At(t, "loop")
  /\ Goto(t, IF conn.cancel THEN "idle" ELSE "recv")
  /\ UNCHANGED <<conn, sendMutex, recvMutex, attempts, told>>

Recv(t) ==
  /\ At(t, "recv") /\ Locks(recvMutex)
  /\ recvMutex' = t
  /\ Goto(t, "check_cancel")
  /\ UNCHANGED <<conn, sendMutex, attempts, told>>

CheckCancel(t) ==
  /\ At(t, "check_cancel")
  /\ IF conn.cancel \/ conn.socket = 0
     THEN Goto(t, "idle") /\ recvMutex' = NoThread
     ELSE Uses(t, "select") /\ UNCHANGED recvMutex
  /\ UNCHANGED <<conn, sendMutex, attempts, told>>

\* select() and recv(): nothing, data, or the end of the connection.
Select(t) ==
  /\ At(t, "select")
  /\ recvMutex' = NoThread
  /\ \/ Goto(t, "loop")
     \/ Goto(t, "handler")
     \/ Call(t, "handle_disconnect", "idle")
  /\ UNCHANGED <<conn, sendMutex, attempts, told>>

\* handleReceivedData(), without the lock.
Handler(t) ==
  /\ At(t, "handler")
  /\ \/ Goto(t, "loop")
     \/ Call(t, "send", "loop")
     \/ HandlerCloses /\ Call(t, "disconnect", "loop")
  /\ UNCHANGED <<conn, sendMutex, recvMutex, attempts, told>>

-----------------------------------------------------------------------------
(* ClientBase::send() and ConnectionTCPBase::send(). *)

StartSend(t) ==
  /\ t \in Writers /\ At(t, "idle") /\ thread[t].calls < MaxCalls
  /\ thread' = [thread EXCEPT ![t].pc = "send", ![t].stack = <<"idle">>,
                              ![t].calls = @ + 1]
  /\ UNCHANGED <<conn, sendMutex, recvMutex, attempts, told>>

Send(t) ==
  /\ At(t, "send")
  /\ IF conn.state = "connected" THEN Goto(t, "tcp_send") ELSE Return(t)
  /\ UNCHANGED <<conn, sendMutex, recvMutex, attempts, told>>

TcpSend(t) ==
  /\ At(t, "tcp_send") /\ Locks(sendMutex)
  /\ sendMutex' = t
  /\ Goto(t, "check_send")
  /\ UNCHANGED <<conn, recvMutex, attempts, told>>

SlipReturnsLocked(t) ==
  IF conn.socket = 0 THEN Return(t) /\ UNCHANGED sendMutex
  ELSE Uses(t, "write") /\ UNCHANGED sendMutex

WriteOrReturn(t) ==
  IF conn.socket = 0 THEN Return(t) /\ sendMutex' = NoThread
  ELSE Uses(t, "write") /\ UNCHANGED sendMutex

CheckSend(t) ==
  /\ At(t, "check_send")
  /\ WriteOrReturn(t)
  /\ UNCHANGED <<conn, recvMutex, attempts, told>>

WriteSocket(t) ==
  /\ At(t, "write")
  /\ sendMutex' = NoThread
  /\ Return(t) \/ Goto(t, "handle_disconnect")
  /\ UNCHANGED <<conn, recvMutex, attempts, told>>

-----------------------------------------------------------------------------
(* The end: ClientBase::handleDisconnect() and disconnect(), and             *)
(* ConnectionTCPBase::disconnect() and cleanup().                            *)

HandleDisconnect(t) ==
  /\ At(t, "handle_disconnect")
  /\ Call(t, "cleanup", "tell")
  /\ UNCHANGED <<conn, sendMutex, recvMutex, attempts, told>>

\* trylock() of the one, then of the other; nothing is done without both.
Cleanup(t) ==
  /\ At(t, "cleanup")
  /\ IF Locks(sendMutex) THEN sendMutex' = t /\ Goto(t, "cleanup_recv")
     ELSE Return(t) /\ UNCHANGED sendMutex
  /\ UNCHANGED <<conn, recvMutex, attempts, told>>

SlipIgnoresReader(t) ==
  /\ recvMutex' = t /\ UNCHANGED sendMutex
  /\ conn' = [conn EXCEPT !.socket = 0]
  /\ Goto(t, "cleanup_state")

LockAndClose(t) ==
  IF Locks(recvMutex)
  THEN /\ recvMutex' = t /\ UNCHANGED sendMutex
       /\ conn' = [conn EXCEPT !.socket = 0]
       /\ Goto(t, "cleanup_state")
  ELSE /\ sendMutex' = NoThread /\ UNCHANGED <<recvMutex, conn>>
       /\ Return(t)

CleanupRecv(t) ==
  /\ At(t, "cleanup_recv")
  /\ LockAndClose(t)
  /\ UNCHANGED <<attempts, told>>

Reset == [conn EXCEPT !.state = "disconnected", !.cancel = TRUE]

CleanupState(t) ==
  /\ At(t, "cleanup_state")
  /\ conn' = Reset
  /\ sendMutex' = NoThread /\ recvMutex' = NoThread
  /\ Return(t)
  /\ UNCHANGED <<attempts, told>>

\* notifyOnDisconnect()
Tell(t) ==
  /\ At(t, "tell")
  /\ told' = told + 1
  /\ Return(t)
  /\ UNCHANGED <<conn, sendMutex, recvMutex, attempts>>

StartDisconnect(t) ==
  /\ t \in Closers /\ At(t, "idle") /\ thread[t].calls < MaxCalls
  /\ thread' = [thread EXCEPT ![t].pc = "disconnect", ![t].stack = <<"idle">>,
                              ![t].calls = @ + 1]
  /\ UNCHANGED <<conn, sendMutex, recvMutex, attempts, told>>

\* Writes </stream:stream> first.
Disconnect(t) ==
  /\ At(t, "disconnect")
  /\ IF conn.state = "disconnected" THEN Return(t)
     ELSE Call(t, "send", "tcp_disconnect")
  /\ UNCHANGED <<conn, sendMutex, recvMutex, attempts, told>>

SlipForgetsToTell(t) == Goto(t, "cleanup")

CleanupAndTell(t) == Call(t, "cleanup", "tell")

TcpDisconnect(t) ==
  /\ At(t, "tcp_disconnect") /\ Locks(recvMutex)
  /\ recvMutex' = t
  /\ Goto(t, "cancel")
  /\ UNCHANGED <<conn, sendMutex, attempts, told>>

Cancel(t) ==
  /\ At(t, "cancel")
  /\ conn' = [conn EXCEPT !.cancel = TRUE]
  /\ recvMutex' = NoThread
  /\ CleanupAndTell(t)
  /\ UNCHANGED <<sendMutex, attempts, told>>

-----------------------------------------------------------------------------
Starts(t) == StartConnect(t) \/ StartSend(t) \/ StartDisconnect(t)

\* Whether it waits for a mutex.
Waits(t) == TcpConnect(t) \/ Recv(t) \/ TcpSend(t) \/ TcpDisconnect(t)

Runs(t) ==
  \/ CheckOpen(t) \/ DnsConnect(t) \/ CheckSocket(t)
  \/ SetState(t) \/ SetCancel(t)
  \/ Receive(t) \/ Loop(t) \/ CheckCancel(t) \/ Select(t) \/ Handler(t)
  \/ Send(t) \/ CheckSend(t) \/ WriteSocket(t)
  \/ HandleDisconnect(t) \/ Cleanup(t) \/ CleanupRecv(t) \/ CleanupState(t)
  \/ Tell(t) \/ Disconnect(t) \/ Cancel(t)

Next == \E t \in Threads : Starts(t) \/ Waits(t) \/ Runs(t)

Spec == Init /\ [][Next]_vars

\* Threads run; one that waits for a mutex gets it if it is free again and
\* again.
Fairness == \A t \in Threads : WF_vars(Runs(t)) /\ SF_vars(Waits(t))

FairSpec == Spec /\ Fairness

-----------------------------------------------------------------------------
(* Properties. *)

Labels == {"idle", "tcp_connect", "check_open", "dns", "check_socket",
  "set_state", "set_cancel", "receive", "loop", "recv", "check_cancel",
  "select", "handler", "send", "tcp_send", "check_send", "write",
  "handle_disconnect", "cleanup", "cleanup_recv", "cleanup_state", "tell",
  "disconnect", "tcp_disconnect", "cancel"}

TypeOK ==
  /\ conn \in [socket : 0..MaxAttempts, cancel : BOOLEAN,
               state : {"disconnected", "connecting", "connected"}]
  /\ {sendMutex, recvMutex} \subseteq Threads \cup {NoThread}
  /\ attempts \in 0..MaxAttempts /\ told \in Nat
  /\ \A t \in Threads :
       /\ thread[t].pc \in Labels
       /\ \A i \in DOMAIN thread[t].stack : thread[t].stack[i] \in Labels
       /\ thread[t].fd \in 0..MaxAttempts /\ thread[t].calls \in 0..MaxCalls

\* A descriptor in select(), recv() or send() of one thread is not closed by
\* another, nor replaced: closing takes both locks (connectiontcpbase.cpp:164-188).
DescriptorHeld ==
  \A t \in Threads :
    thread[t].pc \in {"select", "write"} =>
      conn.socket # 0 /\ thread[t].fd = conn.socket

\* A mutex is held by a thread that is in the part of the program it covers:
\* every early return gives it back.
MutexesReturned ==
  /\ sendMutex # NoThread =>
       thread[sendMutex].pc \in {"check_open", "dns", "check_send", "write",
                                "cleanup_recv", "cleanup_state"}
  /\ recvMutex # NoThread =>
       thread[recvMutex].pc \in {"check_cancel", "select", "cancel",
                                "cleanup_state"}

AllIdle == \A t \in Threads : At(t, "idle")

\* "This function is called after a disconnect to clean up internal state."
\* (connectionbase.h:86): when nobody is at it, the connection is not half open.
CleanAtRest == AllIdle => conn.socket = 0 /\ conn.state = "disconnected"

\* "This function notifies about disconnection and its reason."
\* (connectionlistener.h:50): once for a connection.
ToldOnce == told <= attempts

\* disconnect() and send() return.
CallsReturn ==
  \A t \in Writers \cup Closers : ~At(t, "idle") ~> At(t, "idle")

\* Each attempt to connect that is over is followed by onDisconnect().
EndIsTold ==
  \A n \in 1..MaxAttempts : (attempts = n /\ At(Reader, "idle")) ~> told >= n

\* The two mutexes do their work: nobody closes what another uses, and each is
\* given back.
LocksHold == TypeOK /\ DescriptorHeld /\ MutexesReturned

\* No thread is stuck in a call, and every attempt ends with onDisconnect().
ThreadsConclude == CallsReturn /\ EndIsTold
=============================================================================
