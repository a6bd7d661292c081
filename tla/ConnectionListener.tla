------------------------- MODULE ConnectionListener -------------------------
(***************************************************************************)
(* What an application may assume of the two central callbacks of          *)
(* gloox::ConnectionListener (connectionlistener.h): every connection it   *)
(* opens is announced at most once by onConnect() and ended by exactly one *)
(* onDisconnect(), and nothing is announced after the end.                 *)
(* ClientStream is checked to implement this specification.                *)
(***************************************************************************)
EXTENDS Sequences

VARIABLES
  phase,  \* "offline", "opening" (negotiating) or "online" (announced)
  log     \* the callbacks made since the connection was opened, oldest first

vars == <<phase, log>>

Init == /\ phase = "offline"
        /\ log = <<>>

Open == /\ phase = "offline"
        /\ phase' = "opening"
        /\ log' = <<>>

Announce == /\ phase = "opening"
            /\ phase' = "online"
            /\ log' = Append(log, "onConnect")

End == /\ phase # "offline"
       /\ phase' = "offline"
       /\ log' = Append(log, "onDisconnect")

Next == Open \/ Announce \/ End

Spec == Init /\ [][Next]_vars
=============================================================================
