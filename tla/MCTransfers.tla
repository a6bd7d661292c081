----------------------------- MODULE MCTransfers ----------------------------
(* What is counted on its way, for TLC: the stanzas of a session that        *)
(* outlives its connections, and the blocks of an in-band bytestream.  A     *)
(* behaviour is one of them, chosen first, while the other rests.            *)
EXTENDS StreamManagement, InBandBytestream

VARIABLE part

TransfersInit == part \in {"session", "bytes"} /\ Init /\ IbbInit

TransfersNext ==
  \/ part = "session" /\ Next /\ UNCHANGED <<part, ibbVars>>
  \/ part = "bytes" /\ IbbNext /\ UNCHANGED <<part, vars>>

In(p, A) == part = p /\ A

TransfersSpec ==
  /\ TransfersInit /\ [][TransfersNext]_<<part, vars, ibbVars>>
  /\ WF_vars(In("session", ClientReads)) /\ WF_vars(In("session", ServerReads))
  /\ WF_vars(In("session", Connect))
  /\ WF_ibbVars(In("bytes", RecvMessage))
  /\ \A e \in Ends : WF_ibbVars(In("bytes", Receive(e)))
=============================================================================
