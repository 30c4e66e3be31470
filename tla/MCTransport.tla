---------------------------- MODULE MCTransport ----------------------------
(* Instances of Transport for TLC.  Payloads of 1 and 12 bytes give one and *)
(* two blocks on the wire, the second with the bytes after the first block *)
(* that sshe_tx_recv_packet reads and decrypts apart.                      *)
EXTENDS Transport

\* 12 bytes: PadLen is 15; 31 is a longer padding the peer may choose.
MCPayloads == {1, 12}
MCPeerPads == {10, 15, 31}
OnePayload == {12}
OnePad == {15}
MCSeqSpace == 4       \* small enough for the sequence numbers to wrap
BothKexes == {"is", "noalgs"}
GoodKex == {"is"}
=============================================================================
