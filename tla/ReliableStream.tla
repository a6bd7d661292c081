--------------------------- MODULE ReliableStream ---------------------------
(***************************************************************************)
(* What stream management promises the application (client.h:101-115):     *)
(* while a session lasts, through losses of its connection, the stanzas it *)
(* sends reach the server, each once and in the order they were sent.      *)
(* StreamManagement is checked to implement this specification.            *)
(***************************************************************************)
EXTENDS Naturals, Sequences, SequencesExt

CONSTANT Stanzas

VARIABLES
  accepted,   \* the stanzas sent in this session, oldest first
  delivered   \* those the server has taken

vars == <<accepted, delivered>>

Init == accepted = <<>> /\ delivered = <<>>

Accept == /\ accepted' \in Seq(Stanzas)
          /\ IsStrictPrefix(accepted, accepted')
          /\ UNCHANGED delivered

Deliver == /\ Len(delivered) < Len(accepted)
           /\ delivered' = Append(delivered, accepted[Len(delivered) + 1])
           /\ UNCHANGED accepted

\* The session is over.
End == accepted' = <<>> /\ delivered' = <<>>

Next == Accept \/ Deliver \/ End

Spec == Init /\ [][Next]_vars
=============================================================================
