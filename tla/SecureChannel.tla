--------------------------- MODULE SecureChannel ---------------------------
(***************************************************************************)
(* What src/ssh/transport.c promises its caller, src/ssh/client.c: once    *)
(* sshe_tx_handshake has succeeded, each direction is a FIFO of payloads   *)
(* from which nothing is lost, doubled, reordered or made up; a session    *)
(* that fails simply stops delivering.  Transport is shown to implement    *)
(* this module.                                                            *)
(***************************************************************************)
EXTENDS Naturals, Sequences

CONSTANT Payloads   \* what may be sent

VARIABLES
  secured,          \* the two ends have agreed on the keys
  upSent, upRcvd,   \* client to server: handed to send, handed out by the peer
  dnSent, dnRcvd    \* server to client

vars == <<secured, upSent, upRcvd, dnSent, dnRcvd>>

Init ==
  /\ secured = FALSE
  /\ upSent = <<>> /\ upRcvd = <<>>
  /\ dnSent = <<>> /\ dnRcvd = <<>>

Secure ==
  /\ ~secured
  /\ secured' = TRUE
  /\ UNCHANGED <<upSent, upRcvd, dnSent, dnRcvd>>

SendUp(n) ==
  /\ secured
  /\ upSent' = Append(upSent, n)
  /\ secured' = secured /\ UNCHANGED <<upRcvd, dnSent, dnRcvd>>

RecvUp ==
  /\ Len(upRcvd) < Len(upSent)
  /\ upRcvd' = Append(upRcvd, upSent[Len(upRcvd) + 1])
  /\ secured' = secured /\ UNCHANGED <<upSent, dnSent, dnRcvd>>

SendDown(n) ==
  /\ secured
  /\ dnSent' = Append(dnSent, n)
  /\ secured' = secured /\ UNCHANGED <<upSent, upRcvd, dnRcvd>>

RecvDown ==
  /\ Len(dnRcvd) < Len(dnSent)
  /\ dnRcvd' = Append(dnRcvd, dnSent[Len(dnRcvd) + 1])
  /\ secured' = secured /\ UNCHANGED <<upSent, upRcvd, dnSent>>

Next ==
  \/ Secure
  \/ \E n \in Payloads : SendUp(n) \/ SendDown(n)
  \/ RecvUp
  \/ RecvDown

Spec == Init /\ [][Next]_vars
=============================================================================
